----------------------------- MODULE MCAdminReplay ----------------------------
(* Values for the runs of AdminReplay: the tokens are numbered. *)
EXTENDS AdminReplay, TLC

\* The first token is issued one second ahead, the others at once.
IssuedByNumber == [j \in Tokens |-> IF j = 1 THEN 1 ELSE 0]

\* The third is signed for longer than a token may live.
ExpiryByNumber == [j \in Tokens |-> IF j = 3 THEN 4 ELSE 2]

Symmetry == Permutations(Workers)
===============================================================================
