----------------------------- MODULE MCEnrollment -----------------------------
(* Values for the run of Enrollment. *)
EXTENDS Enrollment, TLC

\* All enrollments are one account's.
SameApplicant == [e \in Enrollments |-> "account"]

Symmetry == Permutations(Enrollments) \cup Permutations(Workers)
===============================================================================
