----------------------------- MODULE MCMembership -----------------------------
(* Symmetry for the run of Membership: the founder is told from the others. *)
EXTENDS Membership, TLC

Symmetry == Permutations(Accounts \ {Founder}) \cup Permutations(Workers)
===============================================================================
