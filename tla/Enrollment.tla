------------------------------ MODULE Enrollment ------------------------------
(***************************************************************************)
(* Developer registration: an applicant's enrollment, its review, and the  *)
(* developer created on approval.                                          *)
(*                                                                         *)
(* Every handler reads the enrollment, decides, and then runs a batch      *)
(* whose UPDATE is guarded by the state; the batch's INSERTs into the      *)
(* append-only events and messages recognise the UPDATE's success by       *)
(* state and updated_at = now, at a granularity of one second.  A          *)
(* reviewer's handler then reads again what became of it, and only then    *)
(* writes the administrative audit row and notifies the applicant.         *)
(*                                                                         *)
(* An applicant's handler ends with its batch: what it reads afterwards    *)
(* only chooses the answer.  The administrators' webhook is left out.      *)
(***************************************************************************)
EXTENDS Naturals, Sequences, FiniteSets

CONSTANTS
    Enrollments,    \* developer_enrollments.id
    Applicant,      \* the account that creates each
    Workers,
    SingleAccount,  \* ~ repeat_enrollment_allowed
    MaxTime,        \* bound on the clock
    MaxRevision,    \* bound on the number of corrections
    None            \* no enrollment

ASSUME EnrollmentAssumption ==
    /\ SingleAccount \in BOOLEAN
    /\ MaxTime \in Nat
    /\ MaxRevision \in Nat
    /\ None \notin Enrollments

States == {"absent", "draft", "submitted", "in_review", "information_required",
           "approved", "rejected"}

\* The batches: by the applicant, then by the reviewer.
Kinds == {"create", "submit", "update", "message"}
            \cup {"begin", "request_info", "reject", "approve"}

VARIABLES
    enrollments,  \* state, updated_at and the revision of the data
    accounts,     \* rows of developer_enrollment_account_guard
    events,       \* rows of developer_enrollment_events
    messages,     \* rows of developer_enrollment_messages
    developers,   \* rows of developers, in the order of creation
    auditLog,     \* the developers named by "admin.developer_enrollment.approved"
    notifications,
    request,
    clock

vars == <<enrollments, accounts, events, messages, developers, auditLog,
          notifications, request, clock>>

Rows == [state: States, updated_at: Nat, revision: Nat]

EventTypes == {"created", "submitted", "information_updated",
               "developer_message", "review_started", "information_required",
               "rejected", "approved"}

Events == [enrollment: Enrollments, type: EventTypes, at: Nat]

Messages == [enrollment: Enrollments, author: {"developer", "reviewer"}, at: Nat]

\* The display name is that of the revision read before the batch.
Developers == [enrollment: Enrollments, named_after: Nat]

\* The decisions the applicant is told of.
Notifications == [enrollment: Enrollments,
                  type: {"information_required", "rejected", "approved"}]

\* developer is the row an approval inserted, 0 if it inserted none.
Requests == [pc: {"idle", "write", "reread", "audit", "notify"}, kind: Kinds,
             enrollment: Enrollments \cup {None}, now: Nat, revision: Nat,
             developer: Nat]

Begun(pc, kind, e, now, revision) ==
    [pc |-> pc, kind |-> kind, enrollment |-> e, now |-> now,
     revision |-> revision, developer |-> 0]

IdleRequest == Begun("idle", "create", None, 0, 0)

At(w, pc) == request[w].pc = pc
Goto(w, pc) == request' = [request EXCEPT ![w].pc = pc]
Finish(w) == request' = [request EXCEPT ![w] = IdleRequest]

Init ==
    /\ enrollments = [e \in Enrollments |->
                         [state |-> "absent", updated_at |-> 0, revision |-> 0]]
    /\ accounts = {}
    /\ events = {}
    /\ messages = {}
    /\ developers = <<>>
    /\ auditLog = <<>>
    /\ notifications = {}
    /\ request = [w \in Workers |-> IdleRequest]
    /\ clock = 0

reports == <<auditLog, notifications>>

tables == <<enrollments, accounts, events, messages, developers, reports>>

Tick ==
    /\ clock < MaxTime
    /\ clock' = clock + 1
    /\ UNCHANGED <<tables, request>>

\* The states in which a handler goes on to its batch.  A review is begun
\* without reading the state first.
ReadState(kind) ==
    CASE kind = "create" -> {"absent"}
      [] kind = "submit" -> {"draft"}
      [] kind \in {"update", "message"} -> {"information_required"}
      [] kind = "begin" -> States \ {"absent"}
      [] OTHER -> {"in_review"}

Decisions == {"request_info", "reject", "approve"}

\* The state a decision is meant to lead to, which names its event too.
Wanted(kind) ==
    CASE kind = "request_info" -> "information_required"
      [] kind = "reject" -> "rejected"
      [] kind = "approve" -> "approved"

\* A handler up to its batch.  The token is consumed, the row is read, now():
\* a decision is given the clock before it reads the row, and may be told an
\* earlier time than that of the state it reads.
Start(w, kind, e) ==
    /\ At(w, "idle")
    /\ enrollments[e].state \in ReadState(kind)
    /\ kind = "update" => enrollments[e].revision < MaxRevision
    /\ \E now \in IF kind \in Decisions THEN 0 .. clock ELSE {clock} :
          request' = [request EXCEPT ![w] =
              Begun("write", kind, e, now, enrollments[e].revision)]
    /\ UNCHANGED <<tables, clock>>

\* A rejection or a request for information finds the state it wants already
\* there: there is no batch, and the handler goes on as if it had run.
StartRepeated(w, kind, e) ==
    /\ At(w, "idle")
    /\ kind \in {"request_info", "reject"}
    /\ enrollments[e].state = Wanted(kind)
    /\ request' = [request EXCEPT ![w] = Begun("notify", kind, e, 0, 0)]
    /\ UNCHANGED <<tables, clock>>

Writes(w, kind) == At(w, "write") /\ request[w].kind = kind

-------------------------------------------------------------------------------
(* The statements of the batches. *)

\* Mutated form: the UPDATE is not guarded by the state.
Moved_Unguarded(r, from, to) ==
    [enrollments EXCEPT ![r.enrollment].state = to,
                        ![r.enrollment].updated_at = r.now]

\* UPDATE ... SET state, updated_at WHERE state = from
Moved(r, from, to) ==
    IF enrollments[r.enrollment].state = from
    THEN [enrollments EXCEPT ![r.enrollment].state = to,
                             ![r.enrollment].updated_at = r.now]
    ELSE enrollments

\* WHERE state = to AND updated_at = now, on the rows after the UPDATE
JustMoved(rows, r, to) ==
    rows[r.enrollment].state = to /\ rows[r.enrollment].updated_at = r.now

Event(r, type) == [enrollment |-> r.enrollment, type |-> type, at |-> r.now]

Message(r, author) ==
    [enrollment |-> r.enrollment, author |-> author, at |-> r.now]

When(condition, row) == IF condition THEN {row} ELSE {}

-------------------------------------------------------------------------------
(* The applicant's batches. *)

\* Mutated form: the guard's key is not unique.
AccountTaken_Never(e) == FALSE

\* PRIMARY KEY of developer_enrollment_account_guard
AccountTaken(e) == SingleAccount /\ Applicant[e] \in accounts

\* Mutated form: the batch lacks the guard's row.
Guarded_Not(e) == accounts

Guarded(e) == IF SingleAccount THEN accounts \cup {Applicant[e]} ELSE accounts

CreateEnrollment(w) ==
    LET r == request[w]
        e == r.enrollment
    IN  /\ Writes(w, "create")
        /\ IF AccountTaken(e) \/ enrollments[e].state # "absent"
           THEN UNCHANGED tables
           ELSE /\ accounts' = Guarded(e)
                /\ enrollments' = Moved(r, "absent", "draft")
                /\ events' = events \cup {Event(r, "created")}
                /\ UNCHANGED <<messages, developers, reports>>
        /\ Finish(w)
        /\ UNCHANGED clock

SubmitEnrollment(w) ==
    LET r == request[w]
        rows == Moved(r, "draft", "submitted")
        Earlier == \E x \in events :
                      x.enrollment = r.enrollment /\ x.type = "submitted"
    IN  /\ Writes(w, "submit")
        /\ enrollments' = rows
        /\ events' = events \cup
              When(JustMoved(rows, r, "submitted") /\ ~ Earlier,
                   Event(r, "submitted"))
        /\ Finish(w)
        /\ UNCHANGED <<accounts, messages, developers, reports, clock>>

\* Mutated form: the message is inserted before the state has moved.
AnswerRows_Before(rows) == enrollments

\* The rows the message's INSERT looks at.
AnswerRows(rows) == rows

\* What update_developer_enrollment_information and
\* add_developer_enrollment_message share: the state moves on, the message is
\* stored unless one is there from now or later, and so is the event.
Answer(r, rows, type) ==
    LET Later == \E m \in messages : /\ m.enrollment = r.enrollment
                                     /\ m.author = "developer"
                                     /\ m.at >= r.now
        stored == messages \cup
              When(JustMoved(AnswerRows(rows), r, "submitted") /\ ~ Later,
                   Message(r, "developer"))
    IN  /\ enrollments' = rows
        /\ messages' = stored
        /\ events' = events \cup
              When(/\ JustMoved(rows, r, "submitted")
                   /\ Message(r, "developer") \in stored,
                   Event(r, type))

UpdateInformation(w) ==
    LET r == request[w]
        rows == Moved(r, "information_required", "submitted")
        revised == [rows EXCEPT ![r.enrollment].revision =
                       IF rows = enrollments THEN @ ELSE @ + 1]
    IN  /\ Writes(w, "update")
        /\ Answer(r, revised, "information_updated")
        /\ Finish(w)
        /\ UNCHANGED <<accounts, developers, reports, clock>>

AddMessage(w) ==
    LET r == request[w]
    IN  /\ Writes(w, "message")
        /\ Answer(r, Moved(r, "information_required", "submitted"),
                  "developer_message")
        /\ Finish(w)
        /\ UNCHANGED <<accounts, developers, reports, clock>>

-------------------------------------------------------------------------------
(* The reviewer's batches. *)

BeginReview(w) ==
    LET r == request[w]
        rows == Moved(r, "submitted", "in_review")
    IN  /\ Writes(w, "begin")
        /\ enrollments' = rows
        /\ events' = events \cup When(JustMoved(rows, r, "in_review"),
                                      Event(r, "review_started"))
        /\ Finish(w)
        /\ UNCHANGED <<accounts, messages, developers, reports, clock>>

RequestInformation(w) ==
    LET r == request[w]
        rows == Moved(r, "in_review", "information_required")
        moved == JustMoved(rows, r, "information_required")
    IN  /\ Writes(w, "request_info")
        /\ enrollments' = rows
        /\ events' = events \cup When(moved, Event(r, "information_required"))
        /\ messages' = messages \cup When(moved, Message(r, "reviewer"))
        /\ Goto(w, "reread")
        /\ UNCHANGED <<accounts, developers, reports, clock>>

RejectEnrollment(w) ==
    LET r == request[w]
        rows == Moved(r, "in_review", "rejected")
    IN  /\ Writes(w, "reject")
        /\ enrollments' = rows
        /\ events' = events \cup When(JustMoved(rows, r, "rejected"),
                                      Event(r, "rejected"))
        /\ Goto(w, "reread")
        /\ UNCHANGED <<accounts, messages, developers, reports, clock>>

\* Mutated form: the state read before the batch is relied on.
Approvable_AsRead(e) == TRUE

Approvable(e) == enrollments[e].state = "in_review"

\* The developer, its owner (module Membership), the state and the event.  The
\* event asks for the state only, so a late second approval adds one too.
ApproveEnrollment(w) ==
    LET r == request[w]
        e == r.enrollment
        rows == IF Approvable(e) THEN Moved(r, "in_review", "approved")
                ELSE enrollments
    IN  /\ Writes(w, "approve")
        /\ enrollments' = rows
        /\ developers' = IF Approvable(e)
                         THEN Append(developers, [enrollment |-> e,
                                                  named_after |-> r.revision])
                         ELSE developers
        /\ events' = events \cup When(rows[e].state = "approved",
                                      Event(r, "approved"))
        /\ request' = [request EXCEPT
              ![w].pc = "audit",
              ![w].developer = IF Approvable(e) THEN Len(developers) + 1 ELSE 0]
        /\ UNCHANGED <<accounts, messages, reports, clock>>

-------------------------------------------------------------------------------
(* What a reviewer's handler does after its batch. *)

\* Mutated form: the handler takes its batch for done.
Decided_Assumed(r) == TRUE

Decided(r) == enrollments[r.enrollment].state = Wanted(r.kind)

\* A rejection or a request for information that finds another state answers 409.
Reread(w) ==
    /\ At(w, "reread")
    /\ IF Decided(request[w]) THEN Goto(w, "notify") ELSE Finish(w)
    /\ UNCHANGED <<tables, clock>>

\* Mutated form: any developer of the enrollment will do.
Created_ByAnyone(r) ==
    {n \in DOMAIN developers : developers[n].enrollment = r.enrollment}

\* developer(db, developer_id): the id is the request's own.
Created(r) == {r.developer} \cap DOMAIN developers

\* An approval that made no developer answers 409; the row it reads is never
\* deleted, so the read is part of the step that writes the audit row.
RecordAdminAudit(w) ==
    LET r == request[w]
    IN  /\ At(w, "audit")
        /\ IF Created(r) = {}
           THEN Finish(w) /\ UNCHANGED auditLog
           ELSE /\ \E n \in Created(r) : auditLog' = Append(auditLog, n)
                /\ Goto(w, "notify")
        /\ UNCHANGED <<enrollments, accounts, events, messages, developers,
                       notifications, clock>>

\* A failure is logged and ignored: it is as if the handler died here.
SendNotification(w) ==
    LET r == request[w]
    IN  /\ At(w, "notify")
        /\ notifications' = notifications \cup
              {[enrollment |-> r.enrollment, type |-> Wanted(r.kind)]}
        /\ Finish(w)
        /\ UNCHANGED <<enrollments, accounts, events, messages, developers,
                       auditLog, clock>>

\* The isolate dies, or an awaited call fails.
Crash(w) ==
    /\ ~ At(w, "idle")
    /\ Finish(w)
    /\ UNCHANGED <<tables, clock>>

Next ==
    \/ Tick
    \/ \E w \in Workers :
          \/ \E kind \in Kinds, e \in Enrollments :
                \/ Start(w, kind, e)
                \/ StartRepeated(w, kind, e)
          \/ CreateEnrollment(w)
          \/ SubmitEnrollment(w)
          \/ UpdateInformation(w)
          \/ AddMessage(w)
          \/ BeginReview(w)
          \/ RequestInformation(w)
          \/ RejectEnrollment(w)
          \/ ApproveEnrollment(w)
          \/ Reread(w)
          \/ RecordAdminAudit(w)
          \/ SendNotification(w)
          \/ Crash(w)

Spec == Init /\ [][Next]_vars

-------------------------------------------------------------------------------
(* Properties. *)

Review == INSTANCE EnrollmentReview WITH
    state <- [e \in Enrollments |-> enrollments[e].state],
    developers <- [n \in DOMAIN developers |-> developers[n].enrollment]

\* Seen without its handlers, the enrollment desk follows the diagram of
\* EnrollmentReview: although every decision is taken on an earlier read, each
\* batch is one edge of it or nothing at all, concurrent creations leave an
\* account with one enrollment, and an approval makes its developer at once.
ImplementsEnrollmentReview == Review!Spec

\* Every variable keeps its type, the guard holds the accounts that have an
\* enrollment, and only created enrollments have events.
TypeOK ==
    /\ enrollments \in [Enrollments -> Rows]
    /\ accounts = {Applicant[e] : e \in {f \in Enrollments :
                       SingleAccount /\ enrollments[f].state # "absent"}}
    /\ events \subseteq Events
    /\ messages \subseteq Messages
    /\ developers \in Seq(Developers)
    /\ auditLog \in Seq(DOMAIN developers)
    /\ notifications \subseteq Notifications
    /\ request \in [Workers -> Requests]
    /\ clock \in Nat
    /\ \A x \in events : enrollments[x.enrollment].state # "absent"

\* An approved enrollment has exactly one developer and any other none,
\* although approvals, rejections and requests for information race on reads
\* that all saw it in review.
ApprovedHasOneDeveloper ==
    \A e \in Enrollments :
        Cardinality({n \in DOMAIN developers : developers[n].enrollment = e})
            = IF enrollments[e].state = "approved" THEN 1 ELSE 0

\* The applicant is told of an approval or a rejection only if that is how the
\* enrollment ended, and of a request for information only if the reviewer's
\* message is on record: whoever else decides between a handler's read, its
\* batch and its notification.
NotificationsAgree ==
    \A n \in notifications :
        IF n.type = "information_required"
        THEN \E m \in messages :
                m.enrollment = n.enrollment /\ m.author = "reviewer"
        ELSE enrollments[n.enrollment].state = n.type

\* Of several approvals that all read the enrollment in review, only the one
\* that made the developer is audited, and it is before the applicant is told.
ApprovalsAreAudited ==
    /\ \A m, n \in DOMAIN auditLog : auditLog[m] = auditLog[n] => m = n
    /\ \A n \in notifications : n.type = "approved" =>
          \E m \in DOMAIN auditLog :
              developers[auditLog[m]].enrollment = n.enrollment

\* An approval or a rejection is never taken back, nor replaced by the other,
\* by a request that read the enrollment earlier.
DecisionIsFinal ==
    [][\A e \in Enrollments :
          enrollments[e].state \in {"approved", "rejected"}
              => enrollments'[e].state = enrollments[e].state]_vars

\* An enrollment leaves "information_required" only with an answer on record
\* that is at least as recent as the request that moves it.
AnswerIsOnRecord ==
    [][\A e \in Enrollments :
          /\ enrollments[e].state = "information_required"
          /\ enrollments'[e].state # "information_required"
          => \E m \in messages' :
                /\ m.enrollment = e
                /\ m.author = "developer"
                /\ m.at >= enrollments'[e].updated_at]_vars

\* The append-only log explains each state: it has an event of that state no
\* older than the time at which the state was entered.  (Of that very time it
\* may have none: an answer delayed until another one has been reviewed moves
\* the state with its old clock, and adds neither message nor event.)
StateIsExplained ==
    \A e \in Enrollments : enrollments[e].state # "absent" =>
        \E x \in events :
            /\ x.enrollment = e
            /\ x.at >= enrollments[e].updated_at
            /\ CASE enrollments[e].state = "draft" -> x.type = "created"
                 [] enrollments[e].state = "submitted" ->
                       x.type \in {"submitted", "information_updated",
                                   "developer_message"}
                 [] enrollments[e].state = "in_review" -> x.type = "review_started"
                 [] OTHER -> x.type = enrollments[e].state
===============================================================================
