-------------------------- MODULE Enrollment_proofs ---------------------------
(***************************************************************************)
(* Proofs about module Enrollment, for any enrollments, applicants and     *)
(* concurrent requests, without bounds on the clock or the corrections.    *)
(*                                                                         *)
(* The argument: a batch repeats the guard on the state, so whatever was   *)
(* read before it moves one enrollment along one edge of the diagram or    *)
(* changes no enrollment.  The log is append-only, so an event or message  *)
(* found there once keeps explaining the state, and a request that is past *)
(* its batch holds a fact that no other request can take back.             *)
(***************************************************************************)
EXTENDS Enrollment, FiniteSetTheorems, TLAPS

(* What a request knows while it stands at an await. *)
RequestInv(r) ==
    /\ r.pc # "idle" => r.enrollment \in Enrollments
    /\ r.pc = "reread" => r.kind \in {"request_info", "reject"}
    /\ r.pc = "audit" => r.kind = "approve"
    /\ r.pc = "notify" => r.kind \in Decisions

TypeInv ==
    /\ TypeOK
    /\ \A w \in Workers : RequestInv(request[w])

-------------------------------------------------------------------------------
(* The UPDATE of a batch. *)

\* The enrollment of r moves along an edge, all others keep their rows.
Edge(rows, r, from, to) ==
    /\ enrollments[r.enrollment].state = from
    /\ rows[r.enrollment].state = to
    /\ rows[r.enrollment].updated_at = r.now
    /\ \A f \in Enrollments \ {r.enrollment} : rows[f] = enrollments[f]

LEMMA AppendFacts ==
    ASSUME NEW S, NEW seq \in Seq(S), NEW x \in S
    PROVE  LET longer == Append(seq, x)
           IN  /\ longer \in Seq(S)
               /\ DOMAIN seq = 1 .. Len(seq) /\ Len(seq) \in Nat
               /\ DOMAIN longer = 1 .. (Len(seq) + 1)
               /\ Len(longer) = Len(seq) + 1
               /\ DOMAIN seq \subseteq DOMAIN longer
               /\ \A n \in DOMAIN seq : longer[n] = seq[n]
               /\ longer[Len(seq) + 1] = x
OBVIOUS

LEMMA RowUpdate ==
    ASSUME NEW row \in Rows, NEW to \in States, NEW now \in Nat
    PROVE  [[row EXCEPT !.state = to] EXCEPT !.updated_at = now]
              = [state |-> to, updated_at |-> now, revision |-> row.revision]
<1>1. ASSUME NEW x \in Rows
      PROVE  /\ [x EXCEPT !.state = to] \in Rows
             /\ [x EXCEPT !.state = to].revision = x.revision
             /\ [x EXCEPT !.state = to].state = to
  BY DEF Rows
<1>2. ASSUME NEW x \in Rows
      PROVE  [x EXCEPT !.updated_at = now]
                = [state |-> x.state, updated_at |-> now, revision |-> x.revision]
  BY DEF Rows
<1>3. [[row EXCEPT !.state = to] EXCEPT !.updated_at = now]
         = [state |-> [row EXCEPT !.state = to].state, updated_at |-> now,
            revision |-> [row EXCEPT !.state = to].revision]
  BY <1>1, <1>2, Zenon
<1>. QED BY <1>1, <1>3, Zenon

LEMMA RevisionUpdate ==
    ASSUME NEW table \in [Enrollments -> Rows], NEW e \in Enrollments, NEW n \in Nat
    PROVE  LET new == [table EXCEPT ![e].revision = n]
           IN  /\ new \in [Enrollments -> Rows]
               /\ new[e].state = table[e].state
               /\ new[e].updated_at = table[e].updated_at
               /\ \A f \in Enrollments \ {e} : new[f] = table[f]
               /\ n = table[e].revision => new = table
<1> DEFINE row == [state |-> table[e].state, updated_at |-> table[e].updated_at,
                   revision |-> n]
           new == [table EXCEPT ![e].revision = n]
<1>1. ASSUME NEW x \in Rows
      PROVE  /\ [x EXCEPT !.revision = n]
                    = [state |-> x.state, updated_at |-> x.updated_at, revision |-> n]
             /\ [state |-> x.state, updated_at |-> x.updated_at, revision |-> n] \in Rows
             /\ n = x.revision => x = [state |-> x.state, updated_at |-> x.updated_at,
                                       revision |-> n]
  BY DEF Rows
<1>2. new = [table EXCEPT ![e] = row] /\ row \in Rows
  BY <1>1
<1>3. row.state = table[e].state /\ row.updated_at = table[e].updated_at
  OBVIOUS
<1>4. n = table[e].revision => row = table[e]
  BY <1>1
<1>5. [table EXCEPT ![e] = table[e]] = table
  OBVIOUS
<1>. HIDE DEF row, new
<1>6. /\ new \in [Enrollments -> Rows]
      /\ new[e] = row
      /\ \A f \in Enrollments \ {e} : new[f] = table[f]
      /\ row = table[e] => new = table
  BY <1>2, <1>5
<1>7. QED BY <1>3, <1>4, <1>6 DEF new

LEMMA MovedFacts ==
    ASSUME enrollments \in [Enrollments -> Rows], NEW r,
           r.enrollment \in Enrollments, r.now \in Nat,
           NEW from \in States, NEW to \in States, from # to
    PROVE  /\ Moved(r, from, to) \in [Enrollments -> Rows]
           /\ \/ Edge(Moved(r, from, to), r, from, to)
              \/ /\ Moved(r, from, to) = enrollments
                 /\ enrollments[r.enrollment].state # from
<1> DEFINE e == r.enrollment
           row == [state |-> to, updated_at |-> r.now,
                   revision |-> enrollments[e].revision]
           rows == [enrollments EXCEPT ![e] = row]
<1>1. row \in Rows /\ row.state = to /\ row.updated_at = r.now
  BY DEF Rows
<1>2. [enrollments EXCEPT ![e].state = to, ![e].updated_at = r.now] = rows
  <2>1. ASSUME NEW f \in Enrollments, NEW now \in Nat
        PROVE  [enrollments EXCEPT ![f].state = to, ![f].updated_at = now]
                  = [enrollments EXCEPT ![f] =
                        [state |-> to, updated_at |-> now,
                         revision |-> enrollments[f].revision]]
    <3>1. enrollments[f] \in Rows
      OBVIOUS
    <3>. QED BY <3>1, RowUpdate
  <2>. QED BY <2>1
<1>3. CASE enrollments[e].state = from
  <2>1. Moved(r, from, to) = rows
    BY <1>2, <1>3 DEF Moved
  <2>2. rows \in [Enrollments -> Rows]
    BY <1>1
  <2>3. Edge(rows, r, from, to)
    BY <1>1, <1>3 DEF Edge
  <2>. QED BY <2>1, <2>2, <2>3
<1>4. CASE enrollments[e].state # from
  BY <1>4 DEF Moved
<1>. QED BY <1>3, <1>4

LEMMA WriterFacts ==
    ASSUME TypeInv, NEW w \in Workers, ~ At(w, "idle")
    PROVE  /\ request[w] \in Requests
           /\ request[w].enrollment \in Enrollments
           /\ request[w].now \in Nat
           /\ request[w].revision \in Nat
           /\ enrollments \in [Enrollments -> Rows]
BY DEF TypeInv, TypeOK, RequestInv, At, Requests

-------------------------------------------------------------------------------
(* The batches, seen as one edge of the diagram of states. *)

Source(kind) ==
    CASE kind = "create" -> "absent"
      [] kind = "submit" -> "draft"
      [] kind \in {"update", "message"} -> "information_required"
      [] kind = "begin" -> "submitted"
      [] OTHER -> "in_review"

Target(kind) ==
    CASE kind = "create" -> "draft"
      [] kind \in {"submit", "update", "message"} -> "submitted"
      [] kind = "begin" -> "in_review"
      [] OTHER -> Wanted(kind)

Batch(w) ==
    \/ CreateEnrollment(w)
    \/ SubmitEnrollment(w)
    \/ UpdateInformation(w)
    \/ AddMessage(w)
    \/ BeginReview(w)
    \/ RequestInformation(w)
    \/ RejectEnrollment(w)
    \/ ApproveEnrollment(w)

\* Every other step of a request, none of which changes an enrollment.
Other(w) ==
    \/ \E kind \in Kinds, e \in Enrollments :
          Start(w, kind, e) \/ StartRepeated(w, kind, e)
    \/ Reread(w)
    \/ RecordAdminAudit(w)
    \/ SendNotification(w)
    \/ Crash(w)

Follows(w) ==
    /\ enrollments' \in [Enrollments -> Rows]
    /\ \/ Edge(enrollments', request[w], Source(request[w].kind),
                Target(request[w].kind))
       \/ enrollments' = enrollments

LEMMA NextCases ==
    ASSUME Next
    PROVE  Tick \/ \E w \in Workers : Batch(w) \/ Other(w)
BY DEF Next, Batch, Other

LEMMA Edges ==
    ASSUME NEW kind \in Kinds
    PROVE  /\ Source(kind) \in States \ {"approved", "rejected"}
           /\ Target(kind) \in States \ {"absent"}
           /\ Source(kind) # Target(kind)
           /\ Source(kind) = "absent" <=> kind = "create"
           /\ Target(kind) = "draft" <=> kind = "create"
           /\ Target(kind) = "approved" <=> kind = "approve"
BY DEF Kinds, Source, Target, Wanted, States

LEMMA BatchFollows ==
    ASSUME TypeInv, NEW w \in Workers, Batch(w)
    PROVE  Follows(w)
<1> DEFINE r == request[w]
<1>1. At(w, "write") /\ ~ At(w, "idle")
  BY DEF Batch, CreateEnrollment, SubmitEnrollment, UpdateInformation, AddMessage,
     BeginReview, RequestInformation, RejectEnrollment, ApproveEnrollment, Writes, At
<1>2. /\ r \in Requests /\ r.enrollment \in Enrollments /\ r.now \in Nat
      /\ enrollments \in [Enrollments -> Rows]
  BY <1>1, WriterFacts
<1>3. ASSUME NEW from \in States, NEW to \in States, from # to,
             enrollments' = Moved(r, from, to),
             Source(r.kind) = from, Target(r.kind) = to
      PROVE  Follows(w)
  BY <1>2, <1>3, MovedFacts DEF Follows
<1>4. CASE CreateEnrollment(w)
  <2>1. Source(r.kind) = "absent" /\ Target(r.kind) = "draft"
    BY <1>4 DEF CreateEnrollment, Writes, Source, Target
  <2>2. enrollments' = enrollments \/ enrollments' = Moved(r, "absent", "draft")
    BY <1>4 DEF CreateEnrollment, tables
  <2>. QED BY <1>2, <1>3, <2>1, <2>2 DEF States, Follows
<1>5. CASE SubmitEnrollment(w)
  <2>1. Source(r.kind) = "draft" /\ Target(r.kind) = "submitted"
    BY <1>5 DEF SubmitEnrollment, Writes, Source, Target
  <2>. QED BY <1>3, <1>5, <2>1 DEF SubmitEnrollment, States
<1>6. CASE UpdateInformation(w)
  <2> DEFINE e == r.enrollment
             rows == Moved(r, "information_required", "submitted")
  <2>1. Source(r.kind) = "information_required" /\ Target(r.kind) = "submitted"
    BY <1>6 DEF UpdateInformation, Writes, Source, Target
  <2>2. /\ rows \in [Enrollments -> Rows]
        /\ \/ Edge(rows, r, "information_required", "submitted")
           \/ rows = enrollments
    BY <1>2, MovedFacts DEF States
  <2>3. PICK revision \in Nat :
          enrollments' = [rows EXCEPT ![e].revision = revision]
                       /\ (rows = enrollments => revision = enrollments[e].revision)
    <3>1. rows[e].revision \in Nat /\ rows[e].revision + 1 \in Nat
      BY <1>2, <2>2 DEF Rows
    <3>2. CASE rows = enrollments
      BY <1>6, <3>1, <3>2 DEF UpdateInformation, Answer
    <3>3. CASE rows # enrollments
      BY <1>6, <3>1, <3>3 DEF UpdateInformation, Answer
    <3>. QED BY <3>2, <3>3
  <2>. HIDE DEF rows
  <2>4. /\ enrollments' \in [Enrollments -> Rows]
        /\ enrollments'[e].state = rows[e].state
        /\ enrollments'[e].updated_at = rows[e].updated_at
        /\ \A f \in Enrollments \ {e} : enrollments'[f] = rows[f]
        /\ revision = rows[e].revision => enrollments' = rows
    BY <1>2, <2>2, <2>3, RevisionUpdate
  <2>5. CASE rows = enrollments
    BY <2>3, <2>4, <2>5 DEF Follows
  <2>6. CASE Edge(rows, r, "information_required", "submitted")
    BY <2>1, <2>4, <2>6 DEF Follows, Edge
  <2>. QED BY <2>2, <2>5, <2>6
<1>7. CASE AddMessage(w)
  <2>1. Source(r.kind) = "information_required" /\ Target(r.kind) = "submitted"
    BY <1>7 DEF AddMessage, Writes, Source, Target
  <2>. QED BY <1>3, <1>7, <2>1 DEF AddMessage, Answer, States
<1>8. CASE BeginReview(w)
  <2>1. Source(r.kind) = "submitted" /\ Target(r.kind) = "in_review"
    BY <1>8 DEF BeginReview, Writes, Source, Target
  <2>. QED BY <1>3, <1>8, <2>1 DEF BeginReview, States
<1>9. CASE RequestInformation(w)
  <2>1. Source(r.kind) = "in_review" /\ Target(r.kind) = "information_required"
    BY <1>9 DEF RequestInformation, Writes, Source, Target, Wanted
  <2>. QED BY <1>3, <1>9, <2>1 DEF RequestInformation, States
<1>10. CASE RejectEnrollment(w)
  <2>1. Source(r.kind) = "in_review" /\ Target(r.kind) = "rejected"
    BY <1>10 DEF RejectEnrollment, Writes, Source, Target, Wanted
  <2>. QED BY <1>3, <1>10, <2>1 DEF RejectEnrollment, States
<1>11. CASE ApproveEnrollment(w)
  <2>1. Source(r.kind) = "in_review" /\ Target(r.kind) = "approved"
    BY <1>11 DEF ApproveEnrollment, Writes, Source, Target, Wanted
  <2>2. enrollments' = enrollments \/ enrollments' = Moved(r, "in_review", "approved")
    BY <1>11 DEF ApproveEnrollment
  <2>. QED BY <1>2, <1>3, <2>1, <2>2 DEF States, Follows
<1>. QED BY <1>4, <1>5, <1>6, <1>7, <1>8, <1>9, <1>10, <1>11 DEF Batch

LEMMA BatchWrites ==
    ASSUME TypeInv, NEW w \in Workers, Batch(w)
    PROVE  /\ At(w, "write") /\ ~ At(w, "idle")
           /\ request[w] \in Requests
           /\ request[w].enrollment \in Enrollments
           /\ request[w].now \in Nat
           /\ request[w].revision \in Nat
           /\ request[w].kind \in Kinds
           /\ clock' = clock
<1>1. At(w, "write") /\ ~ At(w, "idle") /\ clock' = clock
  BY DEF Batch, CreateEnrollment, SubmitEnrollment, UpdateInformation, AddMessage,
     BeginReview, RequestInformation, RejectEnrollment, ApproveEnrollment, Writes,
     At, tables, reports
<1>2. request[w] \in Requests
  BY DEF TypeInv, TypeOK
<1>. QED BY <1>1, <1>2, WriterFacts DEF Requests

-------------------------------------------------------------------------------
(* Types. *)

LEMMA RequestKept ==
    ASSUME TypeInv, NEW w \in Workers, NEW r \in Requests, RequestInv(r),
           request' = [request EXCEPT ![w] = r]
    PROVE  /\ request' \in [Workers -> Requests]
           /\ \A v \in Workers : request'[v] = IF v = w THEN r ELSE request[v]
           /\ \A v \in Workers : RequestInv(request[v])'
<1>1. request' \in [Workers -> Requests]
  BY DEF TypeInv, TypeOK
<1>2. \A v \in Workers : request'[v] = IF v = w THEN r ELSE request[v]
  BY DEF TypeInv, TypeOK
<1>. QED BY <1>1, <1>2 DEF TypeInv, RequestInv

LEMMA IdleIsARequest == IdleRequest \in Requests /\ RequestInv(IdleRequest)
                        /\ IdleRequest.pc = "idle"
BY DEF IdleRequest, Begun, Requests, RequestInv, Kinds

LEMMA BegunFacts ==
    ASSUME NEW pc \in {"write", "notify"}, NEW kind \in Kinds,
           NEW e \in Enrollments, NEW now \in Nat, NEW revision \in Nat,
           pc = "notify" => kind \in Decisions
    PROVE  LET r == Begun(pc, kind, e, now, revision)
           IN  /\ r \in Requests /\ RequestInv(r)
               /\ r.pc = pc /\ r.kind = kind /\ r.enrollment = e
BY DEF Begun, Requests, RequestInv

LEMMA GotoFacts ==
    ASSUME TypeInv, NEW w \in Workers, ~ At(w, "idle"),
           NEW pc \in {"reread", "notify"}, Goto(w, pc),
           request[w].kind \in Decisions,
           pc = "reread" => request[w].kind \in {"request_info", "reject"}
    PROVE  \E r \in Requests :
              /\ request' = [request EXCEPT ![w] = r]
              /\ RequestInv(r)
              /\ r.pc = pc
              /\ r.kind = request[w].kind
              /\ r.enrollment = request[w].enrollment
              /\ r.developer = request[w].developer
<1> DEFINE r == [request[w] EXCEPT !.pc = pc]
<1>1. request[w] \in Requests /\ request[w].enrollment \in Enrollments
  BY WriterFacts
<1>2. /\ r \in Requests /\ r.pc = pc /\ r.kind = request[w].kind
      /\ r.enrollment = request[w].enrollment
      /\ r.developer = request[w].developer
  BY <1>1 DEF Requests
<1>3. request' = [request EXCEPT ![w] = r]
  BY <1>1 DEF Goto
<1>. HIDE DEF r
<1>4. RequestInv(r)
  BY <1>1, <1>2 DEF RequestInv
<1>. QED BY <1>2, <1>3, <1>4

\* How a handler comes to be about to audit, or to notify.
Comes(w, r) ==
    \/ r.pc \in {"idle", "write", "reread"}
    \/ /\ r.pc = "audit"
       /\ ApproveEnrollment(w)
       /\ r.enrollment = request[w].enrollment
       /\ r.developer = IF Approvable(r.enrollment) THEN Len(developers) + 1 ELSE 0
    \/ /\ r.pc = "notify"
       /\ r.kind \in {"request_info", "reject"}
       /\ enrollments[r.enrollment].state = Wanted(r.kind)
       /\ UNCHANGED tables
    \/ /\ r.pc = "notify"
       /\ RecordAdminAudit(w)
       /\ Created(request[w]) # {}
       /\ r.kind = "approve"
       /\ r.enrollment = request[w].enrollment

LEMMA RequestSteps ==
    ASSUME TypeInv, NEW w \in Workers, Batch(w) \/ Other(w)
    PROVE  \E r \in Requests : /\ request' = [request EXCEPT ![w] = r]
                               /\ RequestInv(r)
                               /\ Comes(w, r)
<1>1. CASE Finish(w)
  BY <1>1, IdleIsARequest DEF Finish, Comes
<1>2. CASE \E kind \in Kinds, e \in Enrollments : Start(w, kind, e)
  <2>1. PICK kind \in Kinds, e \in Enrollments : Start(w, kind, e)
    BY <1>2
  <2>2. PICK now \in Nat :
          request' = [request EXCEPT ![w] =
              Begun("write", kind, e, now, enrollments[e].revision)]
    <3>1. clock \in Nat
      BY DEF TypeInv, TypeOK
    <3>2. (IF kind \in Decisions THEN 0 .. clock ELSE {clock}) \subseteq Nat
      BY <3>1
    <3>. QED BY <2>1, <3>2 DEF Start
  <2>3. enrollments[e].revision \in Nat
    BY DEF TypeInv, TypeOK, Rows
  <2> DEFINE r == Begun("write", kind, e, now, enrollments[e].revision)
  <2>4. r \in Requests /\ RequestInv(r) /\ r.pc = "write"
    BY <2>3, BegunFacts
  <2>. HIDE DEF r
  <2>. QED BY <2>2, <2>4 DEF Comes, r
<1>3. CASE \E kind \in Kinds, e \in Enrollments : StartRepeated(w, kind, e)
  <2>1. PICK kind \in Kinds, e \in Enrollments : StartRepeated(w, kind, e)
    BY <1>3
  <2>2. kind \in Decisions
    BY <2>1 DEF StartRepeated, Decisions
  <2> DEFINE r == Begun("notify", kind, e, 0, 0)
  <2>3. /\ r \in Requests /\ RequestInv(r) /\ r.pc = "notify"
        /\ r.kind = kind /\ r.enrollment = e
    BY <2>2, BegunFacts
  <2>4. request' = [request EXCEPT ![w] = r] /\ UNCHANGED tables
        /\ kind \in {"request_info", "reject"}
        /\ enrollments[e].state = Wanted(kind)
    BY <2>1 DEF StartRepeated
  <2>. HIDE DEF r
  <2>. QED BY <2>3, <2>4 DEF Comes
<1>4. CASE /\ RequestInformation(w) \/ RejectEnrollment(w)
           /\ Goto(w, "reread")
  BY <1>4, GotoFacts DEF RequestInformation, RejectEnrollment, Writes, At, Comes,
     Decisions
<1>5. CASE ApproveEnrollment(w)
  <2> DEFINE e == request[w].enrollment
             n == IF Approvable(e) THEN Len(developers) + 1 ELSE 0
             r == [[request[w] EXCEPT !.pc = "audit"] EXCEPT !.developer = n]
  <2>1. At(w, "write") /\ request[w].kind = "approve"
    BY <1>5 DEF ApproveEnrollment, Writes
  <2>2. request[w] \in Requests /\ e \in Enrollments
    BY <2>1, WriterFacts DEF At
  <2>3. n \in Nat
    BY DEF TypeInv, TypeOK
  <2>4. ASSUME NEW x \in Requests, NEW k \in Nat
        PROVE  /\ [x EXCEPT !.pc = "audit"] \in Requests
               /\ [x EXCEPT !.pc = "audit"].pc = "audit"
               /\ [x EXCEPT !.pc = "audit"].kind = x.kind
               /\ [x EXCEPT !.pc = "audit"].enrollment = x.enrollment
               /\ [x EXCEPT !.developer = k] \in Requests
               /\ [x EXCEPT !.developer = k].pc = x.pc
               /\ [x EXCEPT !.developer = k].kind = x.kind
               /\ [x EXCEPT !.developer = k].enrollment = x.enrollment
               /\ [x EXCEPT !.developer = k].developer = k
    BY DEF Requests
  <2> DEFINE y == [request[w] EXCEPT !.pc = "audit"]
             z == [y EXCEPT !.developer = n]
  <2>5. request' = [request EXCEPT ![w] = z]
    BY <1>5, <2>2 DEF ApproveEnrollment, TypeInv, TypeOK
  <2>. HIDE DEF n
  <2>6. /\ y \in Requests /\ y.pc = "audit" /\ y.kind = "approve"
        /\ y.enrollment = e
    BY <2>1, <2>2, <2>4
  <2>. HIDE DEF y
  <2>7. /\ z \in Requests /\ z.pc = "audit" /\ z.kind = "approve"
        /\ z.enrollment = e /\ z.developer = n
    BY <2>3, <2>4, <2>6
  <2>. HIDE DEF z
  <2>8. RequestInv(z)
    BY <2>2, <2>7 DEF RequestInv
  <2>9. Comes(w, z)
    BY <1>5, <2>7 DEF Comes, n
  <2>. QED BY <2>5, <2>7, <2>8, <2>9
<1>6. CASE Reread(w) /\ Goto(w, "notify")
  <2>1. At(w, "reread") /\ request[w].kind \in {"request_info", "reject"}
    BY <1>6 DEF Reread, At, TypeInv, RequestInv
  <2>2. PICK r \in Requests : /\ request' = [request EXCEPT ![w] = r]
                              /\ RequestInv(r)
                              /\ r.pc = "notify"
                              /\ r.kind = request[w].kind
                              /\ r.enrollment = request[w].enrollment
    BY <1>6, <2>1, GotoFacts DEF At, Decisions
  <2>3. Decided(request[w]) \/ Finish(w)
    BY <1>6 DEF Reread
  <2>. QED BY <1>1, <1>6, <2>1, <2>2, <2>3 DEF Reread, Decided, Comes
<1>7. CASE RecordAdminAudit(w) /\ Goto(w, "notify")
  <2>1. At(w, "audit") /\ request[w].kind = "approve"
    BY <1>7 DEF RecordAdminAudit, At, TypeInv, RequestInv
  <2>2. PICK r \in Requests : /\ request' = [request EXCEPT ![w] = r]
                              /\ RequestInv(r)
                              /\ r.pc = "notify"
                              /\ r.kind = request[w].kind
                              /\ r.enrollment = request[w].enrollment
    BY <1>7, <2>1, GotoFacts DEF At, Decisions
  <2>3. Created(request[w]) # {} \/ Finish(w)
    BY <1>7 DEF RecordAdminAudit
  <2>. QED BY <1>1, <1>7, <2>1, <2>2, <2>3 DEF Comes
<1>8. CASE Batch(w)
  BY <1>1, <1>4, <1>5, <1>8 DEF Batch, CreateEnrollment, SubmitEnrollment,
     UpdateInformation, AddMessage, BeginReview, RequestInformation, RejectEnrollment
<1>9. CASE Other(w)
  BY <1>1, <1>2, <1>3, <1>6, <1>7, <1>9 DEF Other, Reread, RecordAdminAudit,
     SendNotification, Crash
<1>. QED BY <1>8, <1>9

\* A batch never makes an enrollment absent, and only a creation makes one
\* that was absent present.
LEMMA PresenceKept ==
    ASSUME TypeInv, NEW w \in Workers, Batch(w), NEW f \in Enrollments
    PROVE  /\ enrollments[f].state # "absent" => enrollments'[f].state # "absent"
           /\ \/ ~ CreateEnrollment(w)
              \/ f # request[w].enrollment
              \/ UNCHANGED enrollments
              => (enrollments[f].state = "absent" <=> enrollments'[f].state = "absent")
<1> DEFINE r == request[w]
<1>1. Follows(w) /\ r.kind \in Kinds /\ r.enrollment \in Enrollments
  BY BatchFollows, BatchWrites
<1>2. r.kind = "create" => CreateEnrollment(w)
  BY DEF Batch, SubmitEnrollment, UpdateInformation, AddMessage,
     BeginReview, RequestInformation, RejectEnrollment, ApproveEnrollment, Writes
<1>3. /\ Source(r.kind) = "absent" <=> r.kind = "create"
      /\ Target(r.kind) # "absent"
  BY <1>1, Edges
<1>. QED BY <1>1, <1>2, <1>3 DEF Follows, Edge

LEMMA BatchAccounts ==
    ASSUME TypeInv, NEW w \in Workers, Batch(w)
    PROVE  accounts' = {Applicant[e] : e \in {f \in Enrollments :
                           SingleAccount /\ enrollments'[f].state # "absent"}}
<1> DEFINE e == request[w].enrollment
           Present(f) == SingleAccount /\ enrollments[f].state # "absent"
<1>1. accounts = {Applicant[f] : f \in {f \in Enrollments : Present(f)}}
  BY DEF TypeInv, TypeOK
<1>2. CASE UNCHANGED accounts /\ \A f \in Enrollments : Present(f)' = Present(f)
  BY <1>1, <1>2
<1>3. CASE ~ CreateEnrollment(w)
  <2>1. UNCHANGED accounts
    BY <1>3 DEF Batch, SubmitEnrollment, UpdateInformation, AddMessage,
       BeginReview, RequestInformation, RejectEnrollment, ApproveEnrollment
  <2>2. \A f \in Enrollments :
           enrollments'[f].state = "absent" <=> enrollments[f].state = "absent"
    BY <1>3, PresenceKept
  <2>. QED BY <1>2, <2>1, <2>2, EnrollmentAssumption
<1>4. CASE CreateEnrollment(w) /\ UNCHANGED tables
  BY <1>2, <1>4 DEF tables
<1>5. CASE CreateEnrollment(w) /\ ~ UNCHANGED tables
  <2>1. accounts' = Guarded(e) /\ enrollments' = Moved(request[w], "absent", "draft")
        /\ enrollments[e].state = "absent" /\ e \in Enrollments
    BY <1>5, BatchWrites DEF CreateEnrollment
  <2>2. enrollments'[e].state = "draft"
    BY <2>1, BatchWrites, MovedFacts DEF States, Edge, TypeInv, TypeOK
  <2>3. \A f \in Enrollments \ {e} :
           enrollments'[f].state = "absent" <=> enrollments[f].state = "absent"
    BY PresenceKept
  <2>4. CASE SingleAccount
    <3>1. \A f \in Enrollments : Present(f)' <=> Present(f) \/ f = e
      BY <2>1, <2>2, <2>3, <2>4
    <3>2. accounts' = accounts \cup {Applicant[e]}
      BY <2>1, <2>4 DEF Guarded
    <3>. QED BY <1>1, <2>1, <3>1, <3>2
  <2>5. CASE ~ SingleAccount
    BY <1>1, <2>1, <2>5 DEF Guarded
  <2>. QED BY <2>4, <2>5
<1>. QED BY <1>3, <1>4, <1>5

\* The logs grow, by rows of the types they have, of the batch's enrollment and
\* time.
LEMMA BatchLogs ==
    ASSUME TypeInv, NEW w \in Workers, Batch(w)
    PROVE  /\ events \subseteq events' /\ events' \subseteq Events
           /\ messages \subseteq messages' /\ messages' \subseteq Messages
           /\ \A x \in events' \ events :
                 /\ x.enrollment = request[w].enrollment
                 /\ enrollments'[x.enrollment].state # "absent"
<1> DEFINE r == request[w]
<1>1. r.enrollment \in Enrollments /\ r.now \in Nat
      /\ events \subseteq Events /\ messages \subseteq Messages
  BY BatchWrites DEF TypeInv, TypeOK
<1>2. \A author \in {"developer", "reviewer"} : Message(r, author) \in Messages
  BY <1>1 DEF Message, Messages
<1>3. \A type \in EventTypes : /\ Event(r, type) \in Events
                               /\ Event(r, type).enrollment = r.enrollment
  BY <1>1 DEF Event, Events
<1>4. \A type : type \in {"created", "submitted", "information_updated",
                          "developer_message", "review_started",
                          "information_required", "rejected", "approved"}
                 => type \in EventTypes
  BY DEF EventTypes
<1>5. ASSUME NEW type \in EventTypes, NEW condition \in BOOLEAN,
             events' = events \cup When(condition, Event(r, type)),
             messages' \subseteq Messages, messages \subseteq messages',
             condition => enrollments'[r.enrollment].state # "absent"
      PROVE  /\ events \subseteq events' /\ events' \subseteq Events
             /\ messages \subseteq messages' /\ messages' \subseteq Messages
             /\ \A x \in events' \ events :
                   /\ x.enrollment = r.enrollment
                   /\ enrollments'[x.enrollment].state # "absent"
  BY <1>1, <1>3, <1>5 DEF When
<1>6. CASE CreateEnrollment(w)
  <2>1. CASE UNCHANGED tables
    BY <1>1, <2>1 DEF tables
  <2>2. CASE ~ UNCHANGED tables
    <3>1. /\ events' = events \cup {Event(r, "created")}
          /\ messages' = messages
          /\ enrollments' = Moved(r, "absent", "draft")
          /\ enrollments[r.enrollment].state = "absent"
      BY <1>6, <2>2 DEF CreateEnrollment
    <3>2. enrollments'[r.enrollment].state = "draft"
      BY <1>1, <3>1, MovedFacts DEF States, Edge, TypeInv, TypeOK
    <3>. QED BY <1>1, <1>3, <1>4, <3>1, <3>2
  <2>. QED BY <2>1, <2>2
<1>7. CASE SubmitEnrollment(w)
  BY <1>1, <1>4, <1>5, <1>7 DEF SubmitEnrollment, JustMoved
<1>8. ASSUME NEW rows, NEW type \in EventTypes, Answer(r, rows, type)
      PROVE  /\ events \subseteq events' /\ events' \subseteq Events
             /\ messages \subseteq messages' /\ messages' \subseteq Messages
             /\ \A x \in events' \ events :
                   /\ x.enrollment = r.enrollment
                   /\ enrollments'[x.enrollment].state # "absent"
  <2>1. messages \subseteq messages' /\ messages' \subseteq Messages
    BY <1>1, <1>2, <1>8 DEF Answer, When
  <2>. QED BY <1>5, <1>8, <2>1 DEF Answer, JustMoved
<1>9. CASE UpdateInformation(w)
  BY <1>4, <1>8, <1>9 DEF UpdateInformation
<1>10. CASE AddMessage(w)
  BY <1>4, <1>8, <1>10 DEF AddMessage
<1>11. CASE BeginReview(w)
  BY <1>1, <1>4, <1>5, <1>11 DEF BeginReview, JustMoved
<1>12. CASE RequestInformation(w)
  <2>1. messages \subseteq messages' /\ messages' \subseteq Messages
    BY <1>1, <1>2, <1>12 DEF RequestInformation, When
  <2>. QED BY <1>1, <1>4, <1>5, <1>12, <2>1 DEF RequestInformation, JustMoved
<1>13. CASE RejectEnrollment(w)
  BY <1>1, <1>4, <1>5, <1>13 DEF RejectEnrollment, JustMoved
<1>14. CASE ApproveEnrollment(w)
  BY <1>1, <1>4, <1>5, <1>14 DEF ApproveEnrollment
<1>. QED BY <1>6, <1>7, <1>9, <1>10, <1>11, <1>12, <1>13, <1>14 DEF Batch

\* A developer is made by an approval that moves its enrollment, and by no
\* other batch.
LEMMA BatchDevelopers ==
    ASSUME TypeInv, NEW w \in Workers, Batch(w)
    PROVE  \/ /\ UNCHANGED developers
              /\ \A f \in Enrollments :
                    enrollments'[f].state = "approved" <=>
                        enrollments[f].state = "approved"
           \/ /\ ApproveEnrollment(w) /\ Approvable(request[w].enrollment)
              /\ Edge(enrollments', request[w], "in_review", "approved")
              /\ \E d \in Developers :
                    /\ d.enrollment = request[w].enrollment
                    /\ developers' = Append(developers, d)
<1> DEFINE r == request[w]
           e == r.enrollment
           d == [enrollment |-> e, named_after |-> r.revision]
<1>1. /\ Follows(w) /\ r.kind \in Kinds /\ e \in Enrollments
      /\ r.now \in Nat /\ d \in Developers /\ d.enrollment = e
  BY BatchFollows, BatchWrites DEF Developers
<1>2. CASE ~ ApproveEnrollment(w)
  <2>1. r.kind # "approve" /\ UNCHANGED developers
    BY <1>2 DEF Batch, CreateEnrollment, SubmitEnrollment, UpdateInformation,
       AddMessage, BeginReview, RequestInformation, RejectEnrollment, Writes,
       tables
  <2>2. Source(r.kind) # "approved" /\ Target(r.kind) # "approved"
    BY <1>1, <2>1, Edges
  <2>. QED BY <1>1, <2>1, <2>2 DEF Follows, Edge
<1>3. CASE ApproveEnrollment(w) /\ ~ Approvable(e)
  BY <1>3 DEF ApproveEnrollment
<1>4. CASE ApproveEnrollment(w) /\ Approvable(e)
  <2>1. enrollments' = Moved(r, "in_review", "approved")
        /\ developers' = Append(developers, d)
    BY <1>4 DEF ApproveEnrollment
  <2>2. Edge(enrollments', r, "in_review", "approved")
    BY <1>1, <1>4, <2>1, MovedFacts DEF States, Approvable, TypeInv, TypeOK
  <2>. QED BY <1>1, <1>4, <2>1, <2>2
<1>. QED BY <1>2, <1>3, <1>4

LEMMA OtherTables ==
    ASSUME TypeInv, NEW w \in Workers, Other(w)
    PROVE  /\ UNCHANGED <<enrollments, accounts, events, messages, developers, clock>>
           /\ \/ UNCHANGED auditLog
              \/ /\ RecordAdminAudit(w)
                 /\ \E n \in Created(request[w]) : auditLog' = Append(auditLog, n)
           /\ \/ UNCHANGED notifications
              \/ /\ SendNotification(w)
                 /\ UNCHANGED auditLog
                 /\ notifications' = notifications \cup
                       {[enrollment |-> request[w].enrollment,
                         type |-> Wanted(request[w].kind)]}
BY DEF Other, Start, StartRepeated, Reread, RecordAdminAudit, SendNotification,
   Crash, tables, reports

LEMMA TypeStep ==
    ASSUME TypeInv, [Next]_vars
    PROVE  TypeInv'
<1>1. CASE UNCHANGED vars
  BY <1>1 DEF vars, TypeInv, TypeOK, RequestInv
<1>2. CASE Tick
  BY <1>2 DEF Tick, tables, reports, TypeInv, TypeOK, RequestInv
<1>3. ASSUME NEW w \in Workers, Batch(w)
      PROVE  TypeInv'
  <2>1. /\ request' \in [Workers -> Requests]
        /\ \A v \in Workers : RequestInv(request[v])'
    BY <1>3, RequestSteps, RequestKept
  <2>2. developers' \in Seq(Developers) /\ DOMAIN developers \subseteq DOMAIN developers'
    <3>1. developers \in Seq(Developers)
      BY DEF TypeInv, TypeOK
    <3>. QED BY <1>3, <3>1, BatchDevelopers, AppendFacts
  <2>3. UNCHANGED <<auditLog, notifications>>
    BY <1>3 DEF Batch, CreateEnrollment, SubmitEnrollment, UpdateInformation,
       AddMessage, BeginReview, RequestInformation, RejectEnrollment,
       ApproveEnrollment, tables, reports
  <2>4. (auditLog \in Seq(DOMAIN developers))'
    BY <2>2, <2>3 DEF TypeInv, TypeOK
  <2>5. enrollments' \in [Enrollments -> Rows]
    BY <1>3, BatchFollows DEF Follows
  <2>6. \A x \in events' : enrollments'[x.enrollment].state # "absent"
    <3>1. \A x \in events : x.enrollment \in Enrollments
                           /\ enrollments[x.enrollment].state # "absent"
      BY DEF TypeInv, TypeOK, Events
    <3>. QED BY <1>3, <3>1, BatchLogs, PresenceKept
  <2>. QED BY <1>3, <2>1, <2>2, <2>3, <2>4, <2>5, <2>6, BatchAccounts, BatchLogs,
          BatchWrites DEF TypeInv, TypeOK
<1>4. ASSUME NEW w \in Workers, Other(w)
      PROVE  TypeInv'
  <2>1. /\ request' \in [Workers -> Requests]
        /\ \A v \in Workers : RequestInv(request[v])'
    BY <1>4, RequestSteps, RequestKept
  <2>2. auditLog' \in Seq(DOMAIN developers)
    BY <1>4, OtherTables DEF TypeInv, TypeOK, Created
  <2>3. notifications' \subseteq Notifications
    <3>1. CASE UNCHANGED notifications
      BY <3>1 DEF TypeInv, TypeOK
    <3>2. CASE SendNotification(w)
      <4>1. request[w].enrollment \in Enrollments /\ request[w].kind \in Decisions
        BY <3>2, WriterFacts DEF SendNotification, At, TypeInv, RequestInv
      <4>2. Wanted(request[w].kind) \in {"information_required", "rejected", "approved"}
        BY <4>1 DEF Wanted, Decisions
      <4>. QED BY <3>2, <4>1, <4>2 DEF SendNotification, Notifications, TypeInv, TypeOK
    <3>. QED BY <1>4, <3>1, <3>2, OtherTables
  <2>. QED BY <1>4, <2>1, <2>2, <2>3, OtherTables DEF TypeInv, TypeOK
<1>. QED BY <1>1, <1>2, <1>3, <1>4, NextCases

LEMMA InitTypeInv == Init => TypeInv
<1> SUFFICES ASSUME Init PROVE TypeInv
  OBVIOUS
<1>1. \A w \in Workers : request[w] \in Requests /\ RequestInv(request[w])
  BY IdleIsARequest DEF Init
<1>2. enrollments \in [Enrollments -> Rows]
  BY DEF Init, Rows, States
<1>3. accounts = {Applicant[e] : e \in {f \in Enrollments :
                     SingleAccount /\ enrollments[f].state # "absent"}}
  BY DEF Init
<1>. QED BY <1>1, <1>2, <1>3 DEF Init, TypeInv, TypeOK

-------------------------------------------------------------------------------
(* Developers. *)

OneDeveloper ==
    /\ \A n \in DOMAIN developers :
          enrollments[developers[n].enrollment].state = "approved"
    /\ \A m, n \in DOMAIN developers :
          developers[m].enrollment = developers[n].enrollment => m = n
    /\ \A e \in Enrollments : enrollments[e].state = "approved" =>
          \E n \in DOMAIN developers : developers[n].enrollment = e

\* What is said of a developer once stays true: its row is never changed.
LEMMA DevelopersKept ==
    ASSUME TypeInv, [Next]_vars
    PROVE  /\ DOMAIN developers \subseteq DOMAIN developers'
           /\ \A n \in DOMAIN developers : developers'[n] = developers[n]
<1>1. developers \in Seq(Developers)
  BY DEF TypeInv, TypeOK
<1>2. ASSUME NEW w \in Workers, Batch(w)
      PROVE  \/ UNCHANGED developers
             \/ \E d \in Developers : developers' = Append(developers, d)
  BY <1>2, BatchDevelopers
<1>3. CASE UNCHANGED developers
  BY <1>3
<1>4. CASE \E d \in Developers : developers' = Append(developers, d)
  BY <1>1, <1>4, AppendFacts
<1>5. Next \/ UNCHANGED developers
  BY DEF vars
<1>6. Tick => UNCHANGED developers
  BY DEF Tick, tables
<1>. QED BY <1>2, <1>3, <1>4, <1>5, <1>6, NextCases, OtherTables

LEMMA DevelopersTyped ==
    ASSUME TypeInv
    PROVE  /\ developers \in Seq(Developers)
           /\ DOMAIN developers = 1 .. Len(developers) /\ Len(developers) \in Nat
           /\ \A n \in DOMAIN developers : developers[n].enrollment \in Enrollments
<1>1. developers \in Seq(Developers)
  BY DEF TypeInv, TypeOK
<1>2. /\ DOMAIN developers = 1 .. Len(developers) /\ Len(developers) \in Nat
      /\ \A n \in DOMAIN developers : developers[n] \in Developers
  BY <1>1
<1>. QED BY <1>1, <1>2 DEF Developers

LEMMA OneDeveloperStep ==
    ASSUME TypeInv, OneDeveloper, [Next]_vars
    PROVE  OneDeveloper'
<1>1. CASE UNCHANGED <<developers, enrollments>>
  BY <1>1 DEF OneDeveloper
<1>2. ASSUME NEW w \in Workers, Batch(w)
      PROVE  OneDeveloper'
  <2> DEFINE e == request[w].enrollment
  <2>1. CASE /\ UNCHANGED developers
             /\ \A f \in Enrollments :
                   enrollments'[f].state = "approved" <=>
                       enrollments[f].state = "approved"
    BY <2>1, DevelopersTyped DEF OneDeveloper
  <2>2. CASE /\ Edge(enrollments', request[w], "in_review", "approved")
             /\ \E d \in Developers : /\ d.enrollment = e
                                      /\ developers' = Append(developers, d)
    <3>1. PICK d \in Developers : /\ d.enrollment = e
                                  /\ developers' = Append(developers, d)
      BY <2>2
    <3> DEFINE new == Len(developers) + 1
    <3>2. /\ DOMAIN developers' = DOMAIN developers \cup {new}
          /\ new \notin DOMAIN developers
          /\ \A n \in DOMAIN developers : developers'[n] = developers[n]
          /\ developers'[new] = d
      BY <3>1, DevelopersTyped, AppendFacts
    <3>3. \A n \in DOMAIN developers :
             /\ developers[n].enrollment \in Enrollments
             /\ developers[n].enrollment # e
      BY <2>2, DevelopersTyped DEF OneDeveloper, Edge
    <3>4. /\ enrollments'[e].state = "approved"
          /\ \A f \in Enrollments \ {e} : enrollments'[f] = enrollments[f]
      BY <2>2 DEF Edge
    <3>. HIDE DEF new
    <3>5. \A n \in DOMAIN developers' :
             enrollments'[developers'[n].enrollment].state = "approved"
      BY <3>1, <3>2, <3>3, <3>4 DEF OneDeveloper
    <3>6. \A m, n \in DOMAIN developers' :
             developers'[m].enrollment = developers'[n].enrollment => m = n
      BY <3>1, <3>2, <3>3 DEF OneDeveloper
    <3>7. \A f \in Enrollments : enrollments'[f].state = "approved" =>
             \E n \in DOMAIN developers' : developers'[n].enrollment = f
      BY <3>1, <3>2, <3>4 DEF OneDeveloper
    <3>. QED BY <3>5, <3>6, <3>7 DEF OneDeveloper
  <2>. QED BY <1>2, <2>1, <2>2, BatchDevelopers
<1>3. Tick => UNCHANGED <<developers, enrollments>>
  BY DEF Tick, tables
<1>. QED BY <1>1, <1>2, <1>3, NextCases, OtherTables DEF vars

LEMMA CountOne ==
    ASSUME TypeInv, OneDeveloper
    PROVE  ApprovedHasOneDeveloper
<1> SUFFICES ASSUME NEW e \in Enrollments
             PROVE  Cardinality({n \in DOMAIN developers : developers[n].enrollment = e})
                       = IF enrollments[e].state = "approved" THEN 1 ELSE 0
  BY DEF ApprovedHasOneDeveloper
<1> DEFINE S == {n \in DOMAIN developers : developers[n].enrollment = e}
<1>1. CASE enrollments[e].state = "approved"
  <2>1. PICK n \in DOMAIN developers : developers[n].enrollment = e
    BY <1>1 DEF OneDeveloper
  <2>2. S = {n}
    BY <2>1 DEF OneDeveloper
  <2>. QED BY <1>1, <2>2, FS_Singleton
<1>2. CASE enrollments[e].state # "approved"
  <2>1. S = {}
    BY <1>2 DEF OneDeveloper
  <2>. QED BY <1>2, <2>1, FS_EmptySet
<1>. QED BY <1>1, <1>2

-------------------------------------------------------------------------------
(* The log and the messages. *)

AnswerTypes == {"information_updated", "developer_message"}

\* An enrollment in draft has no event of a submission.
DraftIsUnsubmitted ==
    \A x \in events : x.type = "submitted" => enrollments[x.enrollment].state # "draft"

\* Every answer is in the log, with its time.
AnswersAreLogged ==
    \A m \in messages : m.author = "developer" =>
        \E x \in events : /\ x.enrollment = m.enrollment
                          /\ x.type \in AnswerTypes
                          /\ x.at = m.at

\* Whoever is asked for information has been told what for.
RequestIsOnRecord ==
    \A e \in Enrollments : enrollments[e].state = "information_required" =>
        \E m \in messages : m.enrollment = e /\ m.author = "reviewer"

LogInv ==
    /\ DraftIsUnsubmitted
    /\ AnswersAreLogged
    /\ RequestIsOnRecord
    /\ StateIsExplained

Explains(x, e, state) ==
    /\ x.enrollment = e
    /\ CASE state = "draft" -> x.type = "created"
         [] state = "submitted" ->
               x.type \in {"submitted", "information_updated", "developer_message"}
         [] state = "in_review" -> x.type = "review_started"
         [] OTHER -> x.type = state

\* An answer that moves the enrollment is on record, or a later one is.
LEMMA AnswerRecorded ==
    ASSUME TypeInv, NEW r \in Requests, NEW rows, NEW type \in AnswerTypes,
           Answer(r, rows, type), Edge(rows, r, "information_required", "submitted")
    PROVE  \E m \in messages' : /\ m.enrollment = r.enrollment
                               /\ m.author = "developer"
                               /\ m.at >= r.now
                               /\ \/ m \in messages
                                  \/ /\ m = Message(r, "developer")
                                     /\ Event(r, type) \in events'
<1>1. JustMoved(rows, r, "submitted") /\ JustMoved(AnswerRows(rows), r, "submitted")
  BY DEF Edge, JustMoved, AnswerRows
<1>2. messages \subseteq messages'
  BY DEF Answer
<1>3. CASE \E m \in messages : /\ m.enrollment = r.enrollment
                               /\ m.author = "developer" /\ m.at >= r.now
  BY <1>2, <1>3
<1>4. CASE ~ \E m \in messages : /\ m.enrollment = r.enrollment
                                 /\ m.author = "developer" /\ m.at >= r.now
  <2>1. Message(r, "developer") \in messages'
    BY <1>1, <1>4 DEF Answer, When
  <2>2. Event(r, type) \in events'
    BY <1>1, <2>1 DEF Answer, When
  <2>3. Message(r, "developer").at >= r.now
    BY DEF Message, Requests
  <2>. QED BY <2>1, <2>2, <2>3 DEF Message
<1>. QED BY <1>3, <1>4

\* A batch that moves an enrollment leaves an event that explains it.
LEMMA BatchExplains ==
    ASSUME TypeInv, LogInv, NEW w \in Workers, Batch(w), ~ UNCHANGED enrollments
    PROVE  LET r == request[w]
           IN  \E x \in events' : /\ Explains(x, r.enrollment, Target(r.kind))
                                 /\ x.at >= r.now
<1> DEFINE r == request[w]
           e == r.enrollment
<1>1. /\ r \in Requests /\ e \in Enrollments /\ r.now \in Nat
      /\ Edge(enrollments', r, Source(r.kind), Target(r.kind))
  BY BatchFollows, BatchWrites DEF Follows
<1>2. JustMoved(enrollments', r, Target(r.kind))
  BY <1>1 DEF Edge, JustMoved
<1>3. \A type : /\ Event(r, type).enrollment = e
               /\ Event(r, type).type = type
               /\ Event(r, type).at >= r.now
  BY <1>1 DEF Event
<1>4. ASSUME NEW type, Event(r, type) \in events',
             Explains(Event(r, type), e, Target(r.kind))
      PROVE  \E x \in events' : Explains(x, e, Target(r.kind)) /\ x.at >= r.now
  BY <1>3, <1>4
<1>5. CASE CreateEnrollment(w)
  <2>1. Event(r, "created") \in events' /\ Target(r.kind) = "draft"
    BY <1>5 DEF CreateEnrollment, tables, Writes, Target
  <2>. QED BY <1>3, <1>4, <2>1 DEF Explains
<1>6. CASE SubmitEnrollment(w)
  <2>1. Target(r.kind) = "submitted" /\ Source(r.kind) = "draft"
    BY <1>6 DEF SubmitEnrollment, Writes, Target, Source
  <2>2. \A x \in events : ~ (x.enrollment = e /\ x.type = "submitted")
    BY <1>1, <2>1 DEF LogInv, DraftIsUnsubmitted, Edge
  <2>3. Event(r, "submitted") \in events'
    BY <1>2, <1>6, <2>1, <2>2 DEF SubmitEnrollment, When
  <2>. QED BY <1>3, <1>4, <2>1, <2>3 DEF Explains
<1>7. ASSUME NEW type \in AnswerTypes, Answer(r, enrollments', type),
             r.kind \in {"update", "message"}
      PROVE  \E x \in events' : Explains(x, e, Target(r.kind)) /\ x.at >= r.now
  <2>1. Target(r.kind) = "submitted" /\ Source(r.kind) = "information_required"
    BY <1>7 DEF Target, Source
  <2>2. PICK m \in messages' : /\ m.enrollment = e
                               /\ m.author = "developer"
                               /\ m.at >= r.now
                               /\ \/ m \in messages
                                  \/ /\ m = Message(r, "developer")
                                     /\ Event(r, type) \in events'
    BY <1>1, <1>7, <2>1, AnswerRecorded
  <2>3. CASE Event(r, type) \in events'
    <3>1. Explains(Event(r, type), e, "submitted")
      BY <1>3, <1>7 DEF Explains, AnswerTypes
    <3>. QED BY <1>4, <2>1, <2>3, <3>1
  <2>4. CASE m \in messages
    <3>1. PICK x \in events : /\ x.enrollment = m.enrollment
                              /\ x.type \in AnswerTypes
                              /\ x.at = m.at
      BY <2>2, <2>4 DEF LogInv, AnswersAreLogged
    <3>2. x \in events'
      BY BatchLogs
    <3>. QED BY <2>1, <2>2, <3>1, <3>2 DEF Explains, AnswerTypes
  <2>. QED BY <2>2, <2>3, <2>4
<1>8. CASE UpdateInformation(w)
  <2>1. Answer(r, enrollments', "information_updated") /\ r.kind = "update"
    BY <1>8 DEF UpdateInformation, Writes, Answer
  <2>. QED BY <1>7, <2>1 DEF AnswerTypes
<1>9. CASE AddMessage(w)
  <2>1. Answer(r, enrollments', "developer_message") /\ r.kind = "message"
    BY <1>9 DEF AddMessage, Writes, Answer
  <2>. QED BY <1>7, <2>1 DEF AnswerTypes
<1>10. CASE BeginReview(w)
  <2>1. Target(r.kind) = "in_review"
    BY <1>10 DEF BeginReview, Writes, Target
  <2>2. Event(r, "review_started") \in events'
    BY <1>2, <1>10, <2>1 DEF BeginReview, When
  <2>. QED BY <1>3, <1>4, <2>1, <2>2 DEF Explains
<1>11. CASE RequestInformation(w)
  <2>1. Target(r.kind) = "information_required"
    BY <1>11 DEF RequestInformation, Writes, Target, Wanted
  <2>2. Event(r, "information_required") \in events'
    BY <1>2, <1>11, <2>1 DEF RequestInformation, When
  <2>. QED BY <1>3, <1>4, <2>1, <2>2 DEF Explains
<1>12. CASE RejectEnrollment(w)
  <2>1. Target(r.kind) = "rejected"
    BY <1>12 DEF RejectEnrollment, Writes, Target, Wanted
  <2>2. Event(r, "rejected") \in events'
    BY <1>2, <1>12, <2>1 DEF RejectEnrollment, When
  <2>. QED BY <1>3, <1>4, <2>1, <2>2 DEF Explains
<1>13. CASE ApproveEnrollment(w)
  <2>1. Target(r.kind) = "approved"
    BY <1>13 DEF ApproveEnrollment, Writes, Target, Wanted
  <2>2. Event(r, "approved") \in events'
    BY <1>2, <1>13, <2>1 DEF ApproveEnrollment, When, JustMoved
  <2>. QED BY <1>3, <1>4, <2>1, <2>2 DEF Explains
<1>. QED BY <1>5, <1>6, <1>8, <1>9, <1>10, <1>11, <1>12, <1>13 DEF Batch

\* The message of a request for information.
LEMMA RequestRecorded ==
    ASSUME TypeInv, NEW w \in Workers, Batch(w), ~ UNCHANGED enrollments,
           Target(request[w].kind) = "information_required"
    PROVE  \E m \in messages' : /\ m.enrollment = request[w].enrollment
                               /\ m.author = "reviewer"
<1> DEFINE r == request[w]
<1>1. Edge(enrollments', r, Source(r.kind), "information_required")
  BY BatchFollows DEF Follows
<1>2. JustMoved(enrollments', r, "information_required")
  BY <1>1 DEF Edge, JustMoved
<1>3. r.kind = "request_info"
  BY BatchWrites DEF Target, Wanted, Kinds
<1>4. RequestInformation(w)
  BY <1>3 DEF Batch, CreateEnrollment, SubmitEnrollment, UpdateInformation,
     AddMessage, BeginReview, RejectEnrollment, ApproveEnrollment, Writes
<1>5. Message(r, "reviewer") \in messages'
  BY <1>2, <1>4 DEF RequestInformation, When
<1>. QED BY <1>5 DEF Message

\* What a batch adds to the log and the messages.
LEMMA BatchAdds ==
    ASSUME TypeInv, NEW w \in Workers, Batch(w)
    PROVE  /\ \A x \in events' \ events : x.type = "submitted" =>
                 enrollments'[request[w].enrollment].state = "submitted"
           /\ \A m \in messages' \ messages : m.author = "developer" =>
                 \E x \in events' : /\ x.enrollment = m.enrollment
                                    /\ x.type \in AnswerTypes
                                    /\ x.at = m.at
<1> DEFINE r == request[w]
<1>1. \A type : /\ Event(r, type).type = type
               /\ Event(r, type).enrollment = r.enrollment
               /\ Event(r, type).at = r.now
  BY DEF Event
<1>2. \A author : /\ Message(r, author).author = author
                 /\ Message(r, author).enrollment = r.enrollment
                 /\ Message(r, author).at = r.now
  BY DEF Message
<1>3. ASSUME NEW type \in AnswerTypes, NEW rows, Answer(r, rows, type)
      PROVE  /\ \A x \in events' \ events : x.type # "submitted"
             /\ \A m \in messages' \ messages :
                   \E x \in events' : /\ x.enrollment = m.enrollment
                                      /\ x.type \in AnswerTypes
                                      /\ x.at = m.at
  <2>1. \A x \in events' \ events : x = Event(r, type)
    BY <1>3 DEF Answer, When
  <2>2. ASSUME NEW m \in messages' \ messages
        PROVE  m = Message(r, "developer") /\ Event(r, type) \in events'
    <3>1. m = Message(r, "developer") /\ JustMoved(AnswerRows(rows), r, "submitted")
      BY <1>3 DEF Answer, When
    <3>2. JustMoved(rows, r, "submitted") /\ m \in messages'
      BY <3>1 DEF AnswerRows
    <3>. QED BY <1>3, <3>1, <3>2 DEF Answer, When
  <2>. QED BY <1>1, <1>2, <1>3, <2>1, <2>2 DEF AnswerTypes
<1>4. CASE UpdateInformation(w)
  BY <1>3, <1>4 DEF UpdateInformation, AnswerTypes
<1>5. CASE AddMessage(w)
  BY <1>3, <1>5 DEF AddMessage, AnswerTypes
<1>6. CASE SubmitEnrollment(w)
  BY <1>1, <1>6 DEF SubmitEnrollment, When, JustMoved
<1>7. CASE RequestInformation(w)
  BY <1>1, <1>2, <1>7 DEF RequestInformation, When
<1>8. CASE CreateEnrollment(w) \/ BeginReview(w) \/ RejectEnrollment(w)
             \/ ApproveEnrollment(w)
  BY <1>1, <1>8 DEF CreateEnrollment, BeginReview, RejectEnrollment,
     ApproveEnrollment, When, tables
<1>. QED BY <1>4, <1>5, <1>6, <1>7, <1>8 DEF Batch

LEMMA BatchKeepsLogInv ==
    ASSUME TypeInv, LogInv, NEW w \in Workers, Batch(w)
    PROVE  LogInv'
<1> DEFINE r == request[w]
           e == r.enrollment
<1>1. /\ events \subseteq events' /\ messages \subseteq messages'
      /\ \A x \in events' \ events : x.enrollment = e
      /\ e \in Enrollments /\ r.kind \in Kinds
  BY BatchLogs, BatchWrites
<1>2. \/ UNCHANGED enrollments
      \/ /\ ~ UNCHANGED enrollments
         /\ Edge(enrollments', r, Source(r.kind), Target(r.kind))
  BY BatchFollows DEF Follows
<1>3. DraftIsUnsubmitted'
  <2> SUFFICES ASSUME NEW x \in events', x.type = "submitted"
               PROVE  enrollments'[x.enrollment].state # "draft"
    BY DEF DraftIsUnsubmitted
  <2>1. CASE x \notin events
    BY <1>1, <2>1, BatchAdds
  <2>2. CASE x \in events
    <3>1. /\ x.enrollment \in Enrollments
          /\ enrollments[x.enrollment].state \notin {"draft", "absent"}
      BY <2>2 DEF LogInv, DraftIsUnsubmitted, TypeInv, TypeOK, Events
    <3>2. Target(r.kind) = "draft" => Source(r.kind) = "absent"
      BY <1>1, Edges
    <3>. QED BY <1>2, <3>1, <3>2 DEF Edge
  <2>. QED BY <2>1, <2>2
<1>4. AnswersAreLogged'
  <2> SUFFICES ASSUME NEW m \in messages', m.author = "developer"
               PROVE  \E x \in events' : /\ x.enrollment = m.enrollment
                                         /\ x.type \in AnswerTypes
                                         /\ x.at = m.at
    BY DEF AnswersAreLogged
  <2>1. CASE m \notin messages
    BY <2>1, BatchAdds
  <2>2. CASE m \in messages
    BY <1>1, <2>2 DEF LogInv, AnswersAreLogged
  <2>. QED BY <2>1, <2>2
<1>5. RequestIsOnRecord'
  <2> SUFFICES ASSUME NEW f \in Enrollments,
                      enrollments'[f].state = "information_required"
               PROVE  \E m \in messages' : m.enrollment = f /\ m.author = "reviewer"
    BY DEF RequestIsOnRecord
  <2>1. CASE enrollments[f].state = "information_required"
    BY <1>1, <2>1 DEF LogInv, RequestIsOnRecord
  <2>2. CASE enrollments[f].state # "information_required"
    <3>1. f = e /\ ~ UNCHANGED enrollments /\ Target(r.kind) = "information_required"
      BY <1>2, <2>2 DEF Edge
    <3>. QED BY <3>1, RequestRecorded
  <2>. QED BY <2>1, <2>2
<1>6. StateIsExplained'
  <2> SUFFICES ASSUME NEW f \in Enrollments, enrollments'[f].state # "absent"
               PROVE  \E x \in events' : /\ Explains(x, f, enrollments'[f].state)
                                         /\ x.at >= enrollments'[f].updated_at
    BY DEF StateIsExplained, Explains
  <2>1. CASE enrollments'[f] = enrollments[f]
    <3>1. PICK x \in events : /\ Explains(x, f, enrollments[f].state)
                              /\ x.at >= enrollments[f].updated_at
      BY <2>1 DEF LogInv, StateIsExplained, Explains
    <3>. QED BY <1>1, <2>1, <3>1
  <2>2. CASE enrollments'[f] # enrollments[f]
    <3>1. /\ f = e /\ ~ UNCHANGED enrollments
          /\ enrollments'[e].state = Target(r.kind)
          /\ enrollments'[e].updated_at = r.now
      BY <1>2, <2>2 DEF Edge
    <3>. QED BY <3>1, BatchExplains
  <2>. QED BY <2>1, <2>2
<1>. QED BY <1>3, <1>4, <1>5, <1>6 DEF LogInv

LEMMA LogStep ==
    ASSUME TypeInv, LogInv, [Next]_vars
    PROVE  LogInv'
<1>1. CASE UNCHANGED <<enrollments, events, messages>>
  BY <1>1 DEF LogInv, DraftIsUnsubmitted, AnswersAreLogged, RequestIsOnRecord,
     StateIsExplained
<1>2. Tick => UNCHANGED <<enrollments, events, messages>>
  BY DEF Tick, tables
<1>. QED BY <1>1, <1>2, BatchKeepsLogInv, NextCases, OtherTables DEF vars

-------------------------------------------------------------------------------
(* What is audited and notified. *)

\* What entitles a handler to notify the applicant.
Grounds(e, type) ==
    /\ type = "information_required" =>
          \E m \in messages : m.enrollment = e /\ m.author = "reviewer"
    /\ type # "information_required" => enrollments[e].state = type
    /\ type = "approved" =>
          \E m \in DOMAIN auditLog : developers[auditLog[m]].enrollment = e

\* A handler about to audit is the only one that knows of its developer.
Unaudited(r) ==
    r.pc = "audit" /\ r.developer # 0 =>
        /\ r.developer \in DOMAIN developers
        /\ developers[r.developer].enrollment = r.enrollment
        /\ \A m \in DOMAIN auditLog : auditLog[m] # r.developer

OwnDevelopers ==
    \A v, w \in Workers :
        v # w /\ At(v, "audit") /\ At(w, "audit") /\ request[v].developer # 0
            => request[v].developer # request[w].developer

AuditedOnce ==
    \A m, n \in DOMAIN auditLog : auditLog[m] = auditLog[n] => m = n

AuditInv ==
    /\ \A w \in Workers : Unaudited(request[w])
    /\ OwnDevelopers
    /\ AuditedOnce

NoticeInv ==
    /\ \A w \in Workers : At(w, "notify") =>
          Grounds(request[w].enrollment, Wanted(request[w].kind))
    /\ \A n \in notifications : Grounds(n.enrollment, n.type)

IInv ==
    /\ TypeInv
    /\ OneDeveloper
    /\ LogInv
    /\ AuditInv
    /\ NoticeInv

LEMMA FinalState ==
    ASSUME TypeInv, [Next]_vars, NEW e \in Enrollments,
           enrollments[e].state \in {"approved", "rejected"}
    PROVE  enrollments'[e].state = enrollments[e].state
<1>1. ASSUME NEW w \in Workers, Batch(w)
      PROVE  enrollments'[e].state = enrollments[e].state
  BY <1>1, BatchFollows, BatchWrites, Edges DEF Follows, Edge
<1>2. Tick => UNCHANGED enrollments
  BY DEF Tick, tables
<1>. QED BY <1>1, <1>2, NextCases, OtherTables DEF vars

LEMMA BatchReports ==
    ASSUME NEW w \in Workers, Batch(w)
    PROVE  UNCHANGED <<auditLog, notifications>>
BY DEF Batch, CreateEnrollment, SubmitEnrollment, UpdateInformation, AddMessage,
   BeginReview, RequestInformation, RejectEnrollment, ApproveEnrollment, tables,
   reports

LEMMA AuditLogTyped ==
    ASSUME TypeInv
    PROVE  /\ auditLog \in Seq(DOMAIN developers)
           /\ DOMAIN auditLog = 1 .. Len(auditLog) /\ Len(auditLog) \in Nat
           /\ \A m \in DOMAIN auditLog : auditLog[m] \in DOMAIN developers
<1>1. auditLog \in Seq(DOMAIN developers)
  BY DEF TypeInv, TypeOK
<1>. QED BY <1>1

LEMMA AuditLogKept ==
    ASSUME TypeInv, [Next]_vars
    PROVE  /\ DOMAIN auditLog \subseteq DOMAIN auditLog'
           /\ \A m \in DOMAIN auditLog : auditLog'[m] = auditLog[m]
<1>1. CASE UNCHANGED auditLog
  BY <1>1
<1>2. ASSUME NEW n \in DOMAIN developers, auditLog' = Append(auditLog, n)
      PROVE  /\ DOMAIN auditLog \subseteq DOMAIN auditLog'
             /\ \A m \in DOMAIN auditLog : auditLog'[m] = auditLog[m]
  BY <1>2, AuditLogTyped, AppendFacts
<1>3. ASSUME NEW w \in Workers, Other(w)
      PROVE  UNCHANGED auditLog \/
             \E n \in DOMAIN developers : auditLog' = Append(auditLog, n)
  BY <1>3, OtherTables DEF Created
<1>4. Tick => UNCHANGED auditLog
  BY DEF Tick, tables, reports
<1>. QED BY <1>1, <1>2, <1>3, <1>4, NextCases, BatchReports DEF vars

LEMMA MessagesKept ==
    ASSUME TypeInv, [Next]_vars
    PROVE  messages \subseteq messages'
<1>1. Tick => UNCHANGED messages
  BY DEF Tick, tables
<1>. QED BY <1>1, NextCases, BatchLogs, OtherTables DEF vars

LEMMA GroundsKept ==
    ASSUME TypeInv, [Next]_vars, NEW e \in Enrollments,
           NEW type \in {"information_required", "rejected", "approved"},
           Grounds(e, type)
    PROVE  Grounds(e, type)'
<1>1. type # "information_required" => enrollments'[e].state = type
  BY FinalState DEF Grounds
<1>2. type = "information_required" =>
         \E m \in messages' : m.enrollment = e /\ m.author = "reviewer"
  BY MessagesKept DEF Grounds
<1>3. ASSUME type = "approved"
      PROVE  \E m \in DOMAIN auditLog' : developers'[auditLog'[m]].enrollment = e
  <2>1. PICK m \in DOMAIN auditLog : developers[auditLog[m]].enrollment = e
    BY <1>3 DEF Grounds
  <2>2. auditLog'[m] = auditLog[m] /\ m \in DOMAIN auditLog'
        /\ auditLog[m] \in DOMAIN developers
    BY AuditLogKept, AuditLogTyped
  <2>3. developers'[auditLog[m]] = developers[auditLog[m]]
    BY <2>2, DevelopersKept
  <2>. QED BY <2>1, <2>2, <2>3
<1>. QED BY <1>1, <1>2, <1>3 DEF Grounds

\* A handler that has just come to notify has its grounds.
LEMMA NewGrounds ==
    ASSUME IInv, [Next]_vars, NEW w \in Workers, Batch(w) \/ Other(w),
           NEW r \in Requests, RequestInv(r), Comes(w, r), r.pc = "notify",
           NEW type, type = Wanted(r.kind)
    PROVE  Grounds(r.enrollment, type)'
<1> DEFINE e == r.enrollment
<1>1. e \in Enrollments /\ r.kind \in Decisions
  BY DEF RequestInv
<1>2. CASE /\ r.kind \in {"request_info", "reject"}
           /\ enrollments[e].state = type
           /\ UNCHANGED tables
  <2>1. type \in {"information_required", "rejected"}
    BY <1>2 DEF Wanted
  <2>2. Grounds(e, type)
    BY <1>1, <1>2, <2>1 DEF Grounds, IInv, LogInv, RequestIsOnRecord
  <2>. QED BY <1>1, <2>1, <2>2, GroundsKept DEF IInv
<1>3. CASE /\ RecordAdminAudit(w)
           /\ Created(request[w]) # {}
           /\ r.kind = "approve"
           /\ e = request[w].enrollment
  <2> DEFINE n == request[w].developer
  <2>1. /\ At(w, "audit") /\ n \in DOMAIN developers
        /\ auditLog' = Append(auditLog, n)
        /\ UNCHANGED <<enrollments, messages, developers>>
    BY <1>3 DEF RecordAdminAudit, Created
  <2>2. developers[n].enrollment = e
    <3>1. n # 0
      BY <2>1, DevelopersTyped DEF IInv
    <3>. QED BY <1>3, <2>1, <3>1 DEF IInv, AuditInv, Unaudited, At
  <2>3. enrollments[e].state = "approved"
    BY <2>1, <2>2 DEF IInv, OneDeveloper
  <2>4. \E m \in DOMAIN auditLog' : developers'[auditLog'[m]].enrollment = e
    <3>. HIDE DEF n
    <3>1. Len(auditLog) + 1 \in DOMAIN auditLog' /\ auditLog'[Len(auditLog) + 1] = n
      BY <2>1, AuditLogTyped, AppendFacts DEF IInv
    <3>. QED BY <2>1, <2>2, <3>1
  <2>5. type = "approved"
    BY <1>3 DEF Wanted
  <2>. QED BY <2>1, <2>3, <2>4, <2>5 DEF Grounds
<1>. QED BY <1>2, <1>3 DEF Comes

LEMMA NoticeStep ==
    ASSUME IInv, [Next]_vars
    PROVE  NoticeInv'
<1>1. TypeInv /\ NoticeInv
  BY DEF IInv
<1>2. \A n \in notifications : Grounds(n.enrollment, n.type)'
  <2>1. \A n \in notifications :
           /\ n.enrollment \in Enrollments
           /\ n.type \in {"information_required", "rejected", "approved"}
    BY <1>1 DEF TypeInv, TypeOK, Notifications
  <2>. QED BY <1>1, <2>1, GroundsKept DEF NoticeInv
<1>3. ASSUME NEW v \in Workers, At(v, "notify"), NEW e, NEW type,
             e = request[v].enrollment, type = Wanted(request[v].kind)
      PROVE  Grounds(e, type)'
  <2>1. e \in Enrollments /\ type \in {"information_required", "rejected", "approved"}
    BY <1>1, <1>3 DEF TypeInv, RequestInv, At, Wanted, Decisions
  <2>. QED BY <1>1, <1>3, <2>1, GroundsKept DEF NoticeInv
<1>4. CASE UNCHANGED <<request, notifications>>
  BY <1>2, <1>3, <1>4 DEF NoticeInv, At, Grounds
<1>5. ASSUME NEW w \in Workers, Batch(w) \/ Other(w)
      PROVE  NoticeInv'
  <2>1. PICK r \in Requests : /\ request' = [request EXCEPT ![w] = r]
                              /\ RequestInv(r)
                              /\ Comes(w, r)
    BY <1>1, <1>5, RequestSteps
  <2>2. \A v \in Workers : request'[v] = IF v = w THEN r ELSE request[v]
    BY <1>1, <2>1, RequestKept
  <2>3. ASSUME NEW v \in Workers, At(v, "notify")', NEW e, NEW type,
               e = request'[v].enrollment, type = Wanted(request'[v].kind)
        PROVE  Grounds(e, type)'
    <3>1. CASE v = w
      BY <1>5, <2>1, <2>2, <2>3, <3>1, NewGrounds DEF At
    <3>2. CASE v # w
      BY <1>3, <2>2, <2>3, <3>2 DEF At
    <3>. QED BY <3>1, <3>2
  <2>4. \A n \in notifications' : Grounds(n.enrollment, n.type)'
    <3>1. CASE UNCHANGED notifications
      BY <1>2, <3>1
    <3>2. CASE /\ SendNotification(w)
               /\ notifications' = notifications \cup
                     {[enrollment |-> request[w].enrollment,
                       type |-> Wanted(request[w].kind)]}
      <4> DEFINE n == [enrollment |-> request[w].enrollment,
                       type |-> Wanted(request[w].kind)]
      <4>1. At(w, "notify")
        BY <3>2 DEF SendNotification
      <4>2. ASSUME NEW m, m = n
            PROVE  Grounds(m.enrollment, m.type)'
        BY <1>3, <4>1, <4>2
      <4>. QED BY <1>2, <3>2, <4>2
    <3>. QED BY <1>1, <1>5, <3>1, <3>2, OtherTables, BatchReports
  <2>. QED BY <2>3, <2>4 DEF NoticeInv, At, Grounds
<1>6. Tick => UNCHANGED <<request, notifications>>
  BY DEF Tick, tables, reports
<1>. QED BY <1>4, <1>5, <1>6, NextCases DEF vars

LEMMA AuditStep ==
    ASSUME IInv, [Next]_vars
    PROVE  AuditInv'
<1>1. TypeInv /\ AuditInv
  BY DEF IInv
<1>2. CASE UNCHANGED <<request, developers, auditLog>>
  BY <1>1, <1>2 DEF AuditInv, Unaudited, OwnDevelopers, AuditedOnce, At
<1>3. Tick => UNCHANGED <<request, developers, auditLog>>
  BY DEF Tick, tables, reports
<1>4. ASSUME NEW w \in Workers, Batch(w) \/ Other(w)
      PROVE  AuditInv'
  <2>1. PICK r \in Requests : /\ request' = [request EXCEPT ![w] = r]
                              /\ RequestInv(r)
                              /\ Comes(w, r)
    BY <1>1, <1>4, RequestSteps
  <2>2. \A v \in Workers : request'[v] = IF v = w THEN r ELSE request[v]
    BY <1>1, <2>1, RequestKept
  <2>3. CASE ~ ApproveEnrollment(w) /\ UNCHANGED auditLog
    <3>1. r.pc # "audit"
      BY <2>1, <2>3 DEF Comes
    <3>2. \A v \in Workers : At(v, "audit")' => v # w /\ At(v, "audit")
                             /\ request'[v] = request[v]
      BY <2>2, <3>1 DEF At
    <3>3. \A v \in Workers : Unaudited(request[v])'
      BY <1>1, <2>3, <3>2, DevelopersKept DEF AuditInv, Unaudited, At
    <3>4. OwnDevelopers'
      BY <1>1, <3>2 DEF AuditInv, OwnDevelopers
    <3>. QED BY <1>1, <2>3, <3>3, <3>4 DEF AuditInv, AuditedOnce
  <2>4. CASE ApproveEnrollment(w)
    <3> DEFINE new == Len(developers) + 1
    <3>1. Batch(w) /\ UNCHANGED auditLog
      BY <2>4, BatchReports DEF Batch
    <3>2. \A v \in Workers : At(v, "audit") /\ request[v].developer # 0 =>
              request[v].developer \in DOMAIN developers
      BY <1>1 DEF AuditInv, Unaudited, At
    <3>3. \A m \in DOMAIN auditLog : auditLog[m] \in DOMAIN developers
      BY <1>1, AuditLogTyped
    <3>4. new \notin DOMAIN developers /\ new # 0
      BY <1>1, DevelopersTyped
    <3>5. r.pc # "audit" \/ r.developer = 0 \/
             /\ r.developer = new
             /\ new \in DOMAIN developers'
             /\ developers'[new].enrollment = r.enrollment
      <4>1. CASE r.pc = "audit" /\ Approvable(r.enrollment)
        <5>1. r.developer = new /\ r.enrollment = request[w].enrollment
          BY <2>1, <4>1 DEF Comes
        <5>2. PICK d \in Developers : /\ d.enrollment = r.enrollment
                                      /\ developers' = Append(developers, d)
          <6>1. r.enrollment \in Enrollments /\ request[w].revision \in Nat
            BY <1>1, <3>1, <5>1, BatchWrites
          <6>2. developers' = Append(developers,
                   [enrollment |-> r.enrollment, named_after |-> request[w].revision])
            BY <2>4, <4>1, <5>1 DEF ApproveEnrollment
          <6>. QED BY <6>1, <6>2 DEF Developers
        <5>. QED BY <1>1, <5>1, <5>2, DevelopersTyped, AppendFacts
      <4>2. CASE r.pc = "audit" /\ ~ Approvable(r.enrollment)
        BY <2>1, <4>2 DEF Comes
      <4>. QED BY <4>1, <4>2
    <3>. HIDE DEF new
    <3>6. \A v \in Workers : Unaudited(request[v])'
      <4>1. ASSUME NEW v \in Workers, v # w
            PROVE  Unaudited(request[v])'
        BY <1>1, <2>2, <3>1, <4>1, DevelopersKept DEF AuditInv, Unaudited
      <4>2. Unaudited(request[w])'
        BY <2>2, <3>1, <3>3, <3>4, <3>5 DEF Unaudited
      <4>. QED BY <4>1, <4>2
    <3>7. OwnDevelopers'
      BY <1>1, <2>2, <3>2, <3>4, <3>5 DEF AuditInv, OwnDevelopers, At
    <3>. QED BY <1>1, <3>1, <3>6, <3>7 DEF AuditInv, AuditedOnce
  <2>5. CASE RecordAdminAudit(w) /\ ~ UNCHANGED auditLog
    <3> DEFINE n == request[w].developer
    <3>1. /\ At(w, "audit") /\ n \in DOMAIN developers
          /\ auditLog' = Append(auditLog, n)
          /\ UNCHANGED developers
      BY <2>5 DEF RecordAdminAudit, Created
    <3>2. n # 0
      BY <1>1, <3>1, DevelopersTyped
    <3>3. \A m \in DOMAIN auditLog : auditLog[m] # n
      BY <1>1, <3>1, <3>2 DEF AuditInv, Unaudited, At
    <3>4. r.pc # "audit"
      BY <2>1, <3>1 DEF Comes, ApproveEnrollment, Writes, At
    <3>5. \A v \in Workers : At(v, "audit")' => v # w /\ At(v, "audit")
                             /\ request'[v] = request[v]
      BY <2>2, <3>4 DEF At
    <3>. HIDE DEF n
    <3>6. /\ DOMAIN auditLog' = DOMAIN auditLog \cup {Len(auditLog) + 1}
          /\ \A m \in DOMAIN auditLog : auditLog'[m] = auditLog[m]
          /\ auditLog'[Len(auditLog) + 1] = n
      BY <1>1, <3>1, AuditLogTyped, AppendFacts
    <3>7. AuditedOnce'
      BY <1>1, <3>3, <3>6 DEF AuditInv, AuditedOnce
    <3>8. OwnDevelopers'
      BY <1>1, <3>5 DEF AuditInv, OwnDevelopers
    <3>9. ASSUME NEW v \in Workers
          PROVE  Unaudited(request[v])'
      <4>1. CASE At(v, "audit")' /\ request[v].developer # 0
        <5>1. request[v].developer # n
          BY <1>1, <3>1, <3>5, <4>1 DEF AuditInv, OwnDevelopers, n
        <5>. QED BY <1>1, <3>1, <3>5, <3>6, <4>1, <5>1 DEF AuditInv, Unaudited, At
      <4>. QED BY <3>5, <4>1 DEF Unaudited, At
    <3>. QED BY <3>7, <3>8, <3>9 DEF AuditInv
  <2>. QED BY <1>1, <1>4, <2>3, <2>4, <2>5, OtherTables, BatchReports
<1>. QED BY <1>2, <1>3, <1>4, NextCases DEF vars

-------------------------------------------------------------------------------
(* The inductive invariant and what it implies. *)

LEMMA InitIInv == Init => IInv
<1> SUFFICES ASSUME Init PROVE IInv
  OBVIOUS
<1>1. TypeInv
  BY InitTypeInv
<1>2. OneDeveloper
  BY DEF Init, OneDeveloper
<1>3. LogInv
  BY DEF Init, LogInv, DraftIsUnsubmitted, AnswersAreLogged, RequestIsOnRecord,
     StateIsExplained
<1>4. AuditInv /\ NoticeInv
  BY IdleIsARequest DEF Init, AuditInv, NoticeInv, Unaudited, OwnDevelopers,
     AuditedOnce, At
<1>. QED BY <1>1, <1>2, <1>3, <1>4 DEF IInv

LEMMA NextKeepsIInv == IInv /\ [Next]_vars => IInv'
BY TypeStep, OneDeveloperStep, LogStep, AuditStep, NoticeStep DEF IInv

\* The inductive invariant holds of every reachable state of the enrollment
\* desk.
THEOREM Invariance == Spec => []IInv
BY InitIInv, NextKeepsIInv, PTL DEF Spec

\* The tables, the handlers' own values and the one-account guard are as
\* TypeOK says, for any enrollments and handlers (developer_enrollments and the
\* tables beside it).
THEOREM TypeCorrectness == Spec => []TypeOK
BY Invariance, PTL DEF IInv, TypeInv

\* An approval makes exactly one developer, and nothing else does
\* (approve_developer_enrollment).
THEOREM OneDeveloperEach == Spec => []ApprovedHasOneDeveloper
BY Invariance, CountOne, PTL DEF IInv

\* The log explains every state, whatever clocks the batches were given
\* (developer_enrollment_events).
THEOREM ExplainedStates == Spec => []StateIsExplained
BY Invariance, PTL DEF IInv, LogInv

\* What the applicant is told is what happened (create_notification, after the
\* handler has read the enrollment again).
THEOREM TrueNotifications == Spec => []NotificationsAgree
<1>1. IInv => NotificationsAgree
  BY DEF IInv, NoticeInv, Grounds, NotificationsAgree
<1>. QED BY <1>1, Invariance, PTL

\* Each approval that made a developer is audited once, and before the
\* applicant is told (admin_approve_developer_enrollment).
THEOREM AuditedApprovals == Spec => []ApprovalsAreAudited
<1>1. IInv => ApprovalsAreAudited
  BY DEF IInv, AuditInv, AuditedOnce, NoticeInv, Grounds, ApprovalsAreAudited
<1>. QED BY <1>1, Invariance, PTL

\* An approval or a rejection is never taken back, by however old a read.
THEOREM FinalDecisions == Spec => DecisionIsFinal
<1>1. IInv /\ [Next]_vars =>
        [\A e \in Enrollments :
            enrollments[e].state \in {"approved", "rejected"}
                => enrollments'[e].state = enrollments[e].state]_vars
  BY FinalState DEF IInv
<1>. QED BY <1>1, Invariance, PTL DEF Spec, DecisionIsFinal

\* An enrollment leaves "information_required" with an answer on record
\* (update_developer_enrollment_information, add_developer_enrollment_message).
THEOREM AnswersOnRecord == Spec => AnswerIsOnRecord
<1>1. IInv /\ [Next]_vars =>
        [\A e \in Enrollments :
            /\ enrollments[e].state = "information_required"
            /\ enrollments'[e].state # "information_required"
            => \E m \in messages' :
                  /\ m.enrollment = e
                  /\ m.author = "developer"
                  /\ m.at >= enrollments'[e].updated_at]_vars
  <2> SUFFICES ASSUME IInv, [Next]_vars, NEW e \in Enrollments,
                      enrollments[e].state = "information_required",
                      enrollments'[e].state # "information_required"
               PROVE  \E m \in messages' : /\ m.enrollment = e
                                          /\ m.author = "developer"
                                          /\ m.at >= enrollments'[e].updated_at
    OBVIOUS
  <2>1. ~ UNCHANGED enrollments
    OBVIOUS
  <2>2. Tick => UNCHANGED enrollments
    BY DEF Tick, tables
  <2>3. PICK w \in Workers : Batch(w)
    BY <2>1, <2>2, NextCases, OtherTables DEF IInv, vars
  <2> DEFINE r == request[w]
  <2>4. /\ r \in Requests /\ r.kind \in Kinds
        /\ Edge(enrollments', r, Source(r.kind), Target(r.kind))
    BY <2>1, <2>3, BatchFollows, BatchWrites DEF Follows, IInv
  <2>5. e = r.enrollment /\ Source(r.kind) = "information_required"
        /\ enrollments'[e].updated_at = r.now
    BY <2>4 DEF Edge
  <2>6. r.kind \in {"update", "message"}
    BY <2>4, <2>5 DEF Source, Kinds
  <2>7. PICK type \in AnswerTypes : Answer(r, enrollments', type)
    BY <2>3, <2>6 DEF Batch, CreateEnrollment, SubmitEnrollment, UpdateInformation,
       AddMessage, BeginReview, RequestInformation, RejectEnrollment,
       ApproveEnrollment, Writes, Answer, AnswerTypes
  <2>8. Target(r.kind) = "submitted"
    BY <2>6 DEF Target
  <2>. QED BY <2>4, <2>5, <2>7, <2>8, AnswerRecorded DEF IInv
<1>. QED BY <1>1, Invariance, PTL DEF Spec, AnswerIsOnRecord

-------------------------------------------------------------------------------
(* Module EnrollmentReview. *)

StateOf == [e \in Enrollments |-> enrollments[e].state]

MadeOf == [n \in DOMAIN developers |-> developers[n].enrollment]

\* An edge of one enrollment is an edge of the abstract state.
LEMMA EdgeIsMove ==
    ASSUME TypeInv, NEW r, r.enrollment \in Enrollments, NEW from, NEW to,
           Edge(enrollments', r, from, to)
    PROVE  /\ StateOf[r.enrollment] = from
           /\ StateOf' = [StateOf EXCEPT ![r.enrollment] = to]
BY DEF Edge, StateOf

LEMMA MadeOfAppend ==
    ASSUME TypeInv, NEW d \in Developers, developers' = Append(developers, d)
    PROVE  MadeOf' = Append(MadeOf, d.enrollment)
<1>1. /\ DOMAIN developers = 1 .. Len(developers) /\ Len(developers) \in Nat
      /\ DOMAIN developers' = 1 .. (Len(developers) + 1)
      /\ \A n \in DOMAIN developers : developers'[n] = developers[n]
      /\ developers'[Len(developers) + 1] = d
      /\ \A n \in DOMAIN developers : developers[n].enrollment \in Enrollments
      /\ d.enrollment \in Enrollments
  BY DevelopersTyped, AppendFacts DEF Developers
<1>2. MadeOf \in Seq(Enrollments) /\ Len(MadeOf) = Len(developers)
  BY <1>1 DEF MadeOf
<1>3. /\ Append(MadeOf, d.enrollment) \in Seq(Enrollments)
      /\ DOMAIN Append(MadeOf, d.enrollment) = 1 .. (Len(developers) + 1)
      /\ \A n \in DOMAIN developers :
            Append(MadeOf, d.enrollment)[n] = developers[n].enrollment
      /\ Append(MadeOf, d.enrollment)[Len(developers) + 1] = d.enrollment
  BY <1>1, <1>2, AppendFacts DEF MadeOf
<1>4. MadeOf' = [n \in 1 .. (Len(developers) + 1) |-> developers'[n].enrollment]
  BY <1>1 DEF MadeOf
<1>5. \A n \in 1 .. (Len(developers) + 1) :
         MadeOf'[n] = Append(MadeOf, d.enrollment)[n]
  BY <1>1, <1>3, <1>4
<1>6. Append(MadeOf, d.enrollment)
         = [n \in 1 .. (Len(developers) + 1) |-> Append(MadeOf, d.enrollment)[n]]
  BY <1>2, <1>3
<1>. QED BY <1>4, <1>5, <1>6

\* A batch that moves an enrollment is one action of the diagram.
LEMMA BatchIsReview ==
    ASSUME TypeInv, NEW w \in Workers, Batch(w)
    PROVE  Review!Next \/ UNCHANGED <<StateOf, MadeOf>>
<1> DEFINE r == request[w]
<1>1. /\ Follows(w) /\ enrollments \in [Enrollments -> Rows]
  BY BatchFollows DEF TypeInv, TypeOK
<1>2. PICK e \in Enrollments, kind \in Kinds : e = r.enrollment /\ kind = r.kind
  BY BatchWrites
<1>3. ASSUME NEW f \in Enrollments,
             \/ Review!Create(f) \/ Review!Submit(f) \/ Review!BeginReview(f)
             \/ Review!RequestInformation(f) \/ Review!AnswerRequest(f)
             \/ Review!Reject(f) \/ Review!Approve(f)
      PROVE  Review!Next
  BY <1>3 DEF Review!Next
<1>4. CASE UNCHANGED enrollments
  <2>1. UNCHANGED developers
    BY <1>4, BatchDevelopers DEF Edge
  <2>. QED BY <1>4, <2>1 DEF StateOf, MadeOf
<1>5. CASE ~ UNCHANGED enrollments
  <2>1. Edge(enrollments', r, Source(kind), Target(kind))
    BY <1>1, <1>5, <1>2 DEF Follows
  <2>2. ASSUME NEW from, NEW to, from = Source(kind), to = Target(kind)
        PROVE  Review!Move(e, from, to)
    BY <1>2, <2>1, <2>2, EdgeIsMove DEF Review!Move, StateOf
  <2>3. CASE kind = "approve"
    <3>1. ~ \A f \in Enrollments : enrollments'[f].state = "approved" <=>
                                   enrollments[f].state = "approved"
      <4>1. enrollments[e].state = "in_review" /\ enrollments'[e].state = "approved"
        BY <1>2, <2>1, <2>3 DEF Edge, Source, Target, Wanted
      <4>. QED BY <4>1
    <3>2. PICK d \in Developers : /\ d.enrollment = e
                                  /\ developers' = Append(developers, d)
      BY <1>2, <3>1, BatchDevelopers
    <3>3. MadeOf' = Append(MadeOf, e)
      BY <3>2, MadeOfAppend
    <3>4. Review!Approve(e)
      <4>1. Source(kind) = "in_review" /\ Target(kind) = "approved"
        BY <2>3 DEF Source, Target, Wanted
      <4>2. Review!Move(e, "in_review", "approved")
        BY <2>2, <4>1
      <4>. QED BY <3>3, <4>2 DEF Review!Approve, MadeOf
    <3>. QED BY <1>3, <3>4
  <2>4. CASE kind # "approve"
    <3>1. UNCHANGED developers
      BY <1>2, <2>4, BatchDevelopers DEF ApproveEnrollment, Writes
    <3>2. UNCHANGED MadeOf
      BY <3>1 DEF MadeOf
    <3>3. CASE kind = "create"
      <4>1. CreateEnrollment(w) /\ ~ UNCHANGED tables
        BY <1>5, <1>2, <3>3 DEF Batch, SubmitEnrollment, UpdateInformation, AddMessage,
           BeginReview, RequestInformation, RejectEnrollment, ApproveEnrollment,
           Writes, tables
      <4>2. SingleAccount => Applicant[e] \notin accounts
        BY <1>2, <4>1 DEF CreateEnrollment, AccountTaken
      <4>3. accounts = {Applicant[g] : g \in {f \in Enrollments :
                           SingleAccount /\ enrollments[f].state # "absent"}}
        BY DEF TypeInv, TypeOK
      <4>4. SingleAccount => ~ \E f \in Enrollments :
               Applicant[f] = Applicant[e] /\ enrollments[f].state # "absent"
        BY <4>2, <4>3
      <4>5. SingleAccount => ~ Review!HasEnrollment(Applicant[e])
        BY <4>4 DEF Review!HasEnrollment
      <4>6. Source(kind) = "absent" /\ Target(kind) = "draft"
        BY <3>3 DEF Source, Target
      <4>7. Review!Move(e, "absent", "draft")
        BY <2>2, <4>6
      <4>8. Review!Create(e)
        BY <3>2, <4>5, <4>7 DEF Review!Create, MadeOf
      <4>. QED BY <1>3, <4>8
    <3>4. CASE kind = "submit"
      <4>1. Review!Submit(e)
        <5>1. Source(kind) = "draft" /\ Target(kind) = "submitted"
          BY <3>4 DEF Source, Target, Wanted
        <5>2. Review!Move(e, "draft", "submitted")
          BY <2>2, <5>1
        <5>. QED BY <3>2, <5>2 DEF Review!Submit, MadeOf
      <4>. QED BY <1>3, <4>1
    <3>5. CASE kind \in {"update", "message"}
      <4>1. Review!AnswerRequest(e)
        <5>1. Source(kind) = "information_required" /\ Target(kind) = "submitted"
          BY <3>5 DEF Source, Target, Wanted
        <5>2. Review!Move(e, "information_required", "submitted")
          BY <2>2, <5>1
        <5>. QED BY <3>2, <5>2 DEF Review!AnswerRequest, MadeOf
      <4>. QED BY <1>3, <4>1
    <3>6. CASE kind = "begin"
      <4>1. Review!BeginReview(e)
        <5>1. Source(kind) = "submitted" /\ Target(kind) = "in_review"
          BY <3>6 DEF Source, Target, Wanted
        <5>2. Review!Move(e, "submitted", "in_review")
          BY <2>2, <5>1
        <5>. QED BY <3>2, <5>2 DEF Review!BeginReview, MadeOf
      <4>. QED BY <1>3, <4>1
    <3>7. CASE kind = "request_info"
      <4>1. Review!RequestInformation(e)
        <5>1. Source(kind) = "in_review" /\ Target(kind) = "information_required"
          BY <3>7 DEF Source, Target, Wanted
        <5>2. Review!Move(e, "in_review", "information_required")
          BY <2>2, <5>1
        <5>. QED BY <3>2, <5>2 DEF Review!RequestInformation, MadeOf
      <4>. QED BY <1>3, <4>1
    <3>8. CASE kind = "reject"
      <4>1. Review!Reject(e)
        <5>1. Source(kind) = "in_review" /\ Target(kind) = "rejected"
          BY <3>8 DEF Source, Target, Wanted
        <5>2. Review!Move(e, "in_review", "rejected")
          BY <2>2, <5>1
        <5>. QED BY <3>2, <5>2 DEF Review!Reject, MadeOf
      <4>. QED BY <1>3, <4>1
    <3>. QED BY <2>4, <3>3, <3>4, <3>5, <3>6, <3>7, <3>8 DEF Kinds
  <2>. QED BY <2>3, <2>4
<1>. QED BY <1>4, <1>5

\* The desk implements its diagram: its batches, for all their reads made
\* earlier, are the actions of EnrollmentReview.
THEOREM Refinement == Spec => ImplementsEnrollmentReview
<1>1. Init => Review!Init
  BY DEF Init, Review!Init
<1>2. IInv /\ [Next]_vars => [Review!Next]_Review!vars
  <2> SUFFICES ASSUME IInv, [Next]_vars
               PROVE  Review!Next \/ UNCHANGED <<StateOf, MadeOf>>
    BY DEF Review!vars, StateOf, MadeOf
  <2>1. CASE UNCHANGED <<enrollments, developers>>
    BY <2>1 DEF StateOf, MadeOf
  <2>2. Tick => UNCHANGED <<enrollments, developers>>
    BY DEF Tick, tables
  <2>. QED BY <2>1, <2>2, BatchIsReview, NextCases, OtherTables DEF IInv, vars
<1>. QED BY <1>1, <1>2, Invariance, PTL DEF Spec, ImplementsEnrollmentReview, Review!Spec
===============================================================================
