------------------------------ MODULE MCIssuance ------------------------------
(* Values and symmetry for the runs of Issuance. *)
EXTENDS Issuance, TLC

\* Both contents name the same subject key.
OneSubjectKey == [c \in Contents |-> "subject key"]

Symmetry ==
    Permutations(Workers) \cup Permutations(Keys) \cup Permutations(Contents)
===============================================================================
