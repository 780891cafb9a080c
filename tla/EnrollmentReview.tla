--------------------------- MODULE EnrollmentReview ---------------------------
(***************************************************************************)
(* What module Enrollment promises, without handlers, batches or clocks:   *)
(* the diagram of an enrollment's states, one enrollment for each account, *)
(* and a developer made by the very step that approves.                    *)
(***************************************************************************)
EXTENDS Sequences

CONSTANTS Enrollments, Applicant, SingleAccount

VARIABLES
    state,      \* of each enrollment
    developers  \* the enrollments that were made developers, in order

vars == <<state, developers>>

States == {"absent", "draft", "submitted", "in_review", "information_required",
           "approved", "rejected"}

Init ==
    /\ state = [e \in Enrollments |-> "absent"]
    /\ developers = <<>>

Move(e, from, to) ==
    /\ state[e] = from
    /\ state' = [state EXCEPT ![e] = to]

HasEnrollment(account) ==
    \E e \in Enrollments : Applicant[e] = account /\ state[e] # "absent"

Create(e) ==
    /\ SingleAccount => ~ HasEnrollment(Applicant[e])
    /\ Move(e, "absent", "draft")
    /\ UNCHANGED developers

Submit(e) ==
    /\ Move(e, "draft", "submitted")
    /\ UNCHANGED developers

BeginReview(e) ==
    /\ Move(e, "submitted", "in_review")
    /\ UNCHANGED developers

RequestInformation(e) ==
    /\ Move(e, "in_review", "information_required")
    /\ UNCHANGED developers

AnswerRequest(e) ==
    /\ Move(e, "information_required", "submitted")
    /\ UNCHANGED developers

Reject(e) ==
    /\ Move(e, "in_review", "rejected")
    /\ UNCHANGED developers

Approve(e) ==
    /\ Move(e, "in_review", "approved")
    /\ developers' = Append(developers, e)

Next ==
    \E e \in Enrollments :
        \/ Create(e)
        \/ Submit(e)
        \/ BeginReview(e)
        \/ RequestInformation(e)
        \/ AnswerRequest(e)
        \/ Reject(e)
        \/ Approve(e)

Spec == Init /\ [][Next]_vars
===============================================================================
