----------------------------- MODULE MCRevocation -----------------------------
(* Symmetry for the run of Revocation. *)
EXTENDS Revocation, TLC

Symmetry == Permutations(Certificates) \cup Permutations(Workers)
===============================================================================
