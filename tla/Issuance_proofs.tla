--------------------------- MODULE Issuance_proofs ----------------------------
(***************************************************************************)
(* Proofs about module Issuance, for any accounts, keys, contents and      *)
(* number of requests in flight, and every value of the time limits.       *)
(*                                                                         *)
(* The argument: a request that has claimed its content and is alive still *)
(* has its own pending row, because a row expires only a window after the  *)
(* clock its request was given, which is more than a request lives.  So    *)
(* nobody else can hold the content, the commit always completes a row,    *)
(* and that row keeps the content taken until the certificate is a window  *)
(* old.  What comes later was given its clock at most a life before that.  *)
(*                                                                         *)
(* The rate limit has an invariant of its own, at the end: a row is        *)
(* deleted only when it counts for no request still alive.                 *)
(***************************************************************************)
EXTENDS Issuance, FiniteSetTheorems, TLAPS

HoldPcs == {"purge", "attempt", "signer", "reserve", "commit", "abandon"}

LookPcs == {"find", "insert", "find_content"}

\* A request in flight is someone's, and its clock was read.
RequestInv(r) ==
    /\ r.issued_at <= clock
    /\ r.pc # "idle" => /\ r.account \in Accounts
                        /\ r.key \in Keys
                        /\ r.content \in Contents

TypeInv ==
    /\ eligible \subseteq Accounts
    /\ claims \subseteq Claims
    /\ nextSerial \in 1 .. MaxSerial + 1
    /\ certificates \subseteq Certificates
    /\ request \in [Workers -> Requests]
    /\ clock \in 0 .. MaxTime
    /\ \A row, other \in claims :
          (row.content = other.content
              \/ (row.account = other.account /\ row.key = other.key))
          => row = other
    /\ \A w \in Workers : RequestInv(request[w])

\* A live request that has claimed its content still has its row.
ClaimIsKept ==
    \A w \in Workers : Holds(w) /\ Alive(w) => PendingClaim(request[w]) \in claims

\* A complete row has a certificate that was issued, for its content and at its
\* time.
RowsAreTrue ==
    \A row \in claims : \A x \in row.certificate :
        /\ x \in certificates
        /\ x.content = row.content
        /\ x.issued_at = row.updated_at

\* A certificate is a window old, or its row still takes the content.
ContentIsTaken ==
    \A x \in certificates :
        \/ x.issued_at + Window <= clock
        \/ \E row \in claims : x \in row.certificate

\* Who holds a content was given its clock late enough after every certificate
\* for that content.
HoldersAreLate ==
    \A w \in Workers : Holds(w) /\ Alive(w) =>
        \A x \in certificates : x.content = request[w].content =>
            x.issued_at + Window <= request[w].issued_at + MaxLifetime

SerialInv ==
    /\ \A x \in certificates : x.serial < nextSerial
    /\ \A w \in Workers : At(w, "commit") =>
          request[w].serial \in 1 .. MaxSerial /\ request[w].serial < nextSerial
    /\ SerialNeverReused

\* A request that looks for a row finds none that has expired for it.
RowsAreFresh ==
    \A w \in Workers : request[w].pc \in LookPcs =>
        \A row \in claims : request[w].issued_at < row.updated_at + Window

IInv ==
    /\ TypeInv
    /\ ClaimIsKept
    /\ ClaimIsExclusive
    /\ RowsAreTrue
    /\ ContentIsTaken
    /\ HoldersAreLate
    /\ NoDuplicateIssue
    /\ SerialInv
    /\ RowsAreFresh
    /\ ReplayIsFaithful

-------------------------------------------------------------------------------
(* The steps of a request. *)

Act(w) ==
    \/ \E a \in Accounts, k \in Keys, c \in Contents : StartIssue(w, a, k, c)
    \/ ReadDeveloper(w)
    \/ ExpireClaims(w)
    \/ FindClaim(w)
    \/ InsertClaim(w)
    \/ FindContent(w)
    \/ PurgeAttempts(w)
    \/ RecordAttempt(w)
    \/ FindSigner(w)
    \/ ReserveSerial(w)
    \/ CommitCertificate(w)
    \/ AbandonClaim(w)

Step(w) == End(w) \/ (Alive(w) /\ Act(w))

LEMMA NextCases ==
    ASSUME Next
    PROVE  Tick \/ (\E a \in Accounts : ChangeEligible(a)) \/ \E w \in Workers : Step(w)
BY DEF Next, Step, Act

Same(q, r) ==
    /\ r.account = q.account
    /\ r.key = q.key
    /\ r.content = q.content
    /\ r.issued_at = q.issued_at

\* What a request may become in one step, and by which step.
Becomes(w, r) ==
    LET q == request[w]
    IN  /\ r.pc \notin {"idle", "read_developer"} => Same(q, r) /\ q.pc # "idle"
        /\ r.pc \in LookPcs => q.pc \in LookPcs \/ ExpireClaims(w)
        /\ r.pc \in HoldPcs =>
              \/ q.pc \in HoldPcs
              \/ /\ InsertClaim(w)
                 /\ \A row \in claims : ~ Collides(row, q)
        /\ r.pc = "commit" => /\ ReserveSerial(w)
                              /\ nextSerial <= MaxSerial
                              /\ nextSerial' = nextSerial + 1
                              /\ r.serial = nextSerial
        /\ r.pc \in {"existing", "pending"} =>
              /\ q.pc \in LookPcs
              /\ \E row \in claims : /\ row.content = q.content
                                     /\ r.answer = row.certificate
                                     /\ r.pc = "pending" => row.certificate = {}

LEMMA RequestTyped ==
    ASSUME TypeInv, NEW w \in Workers
    PROVE  /\ request[w] \in Requests
           /\ RequestInv(request[w])
           /\ request[w].issued_at \in Nat
           /\ clock \in Nat
BY DEF TypeInv, Requests

LEMMA IdleFacts ==
    ASSUME TypeInv
    PROVE  /\ IdleRequest \in Requests
           /\ IdleRequest.pc = "idle"
           /\ RequestInv(IdleRequest)
BY DEF IdleRequest, Requests, RequestInv, TypeInv

LEMMA GotoFacts ==
    ASSUME TypeInv, NEW w \in Workers, ~ At(w, "idle"),
           NEW pc \in {"expire", "find", "insert", "find_content", "purge",
                       "attempt", "signer", "reserve", "abandon"},
           Goto(w, pc)
    PROVE  \E r \in Requests : /\ request' = [request EXCEPT ![w] = r]
                               /\ r.pc = pc
                               /\ Same(request[w], r)
<1> DEFINE r == [request[w] EXCEPT !.pc = pc]
<1>1. request[w] \in Requests
  BY RequestTyped
<1>2. r \in Requests /\ r.pc = pc /\ Same(request[w], r)
  BY <1>1 DEF Requests, Same
<1>3. request' = [request EXCEPT ![w] = r]
  BY <1>1 DEF Goto
<1>. HIDE DEF r
<1>. QED BY <1>2, <1>3

\* The two answers a row gives.
LEMMA AnswerFacts ==
    ASSUME TypeInv, NEW w \in Workers, NEW row \in claims, AnswerFrom(w, row)
    PROVE  \E r \in Requests :
              /\ request' = [request EXCEPT ![w] = r]
              /\ r.pc \in {"existing", "pending"}
              /\ r.answer = row.certificate
              /\ r.pc = "pending" => row.certificate = {}
              /\ Same(request[w], r)
<1> DEFINE q == request[w]
           R(pc) == [[q EXCEPT !.pc = pc] EXCEPT !.answer = row.certificate]
<1>1. q \in Requests
  BY RequestTyped
<1>2. row.certificate \in SUBSET Certificates
  BY DEF TypeInv, Claims
<1>3. PICK pc \in {"existing", "pending"} :
          /\ pc = "pending" => row.certificate = {}
          /\ request' = [request EXCEPT ![w] = R(pc)]
  <2>1. CASE row.certificate # {}
    <3>. WITNESS "existing" \in {"existing", "pending"}
    <3>. QED BY <2>1 DEF AnswerFrom
  <2>2. CASE row.certificate = {}
    <3>. WITNESS "pending" \in {"existing", "pending"}
    <3>. QED BY <2>2 DEF AnswerFrom
  <2>. QED BY <2>1, <2>2
<1>4. PICK r : r = R(pc)
  OBVIOUS
<1>5. r \in Requests /\ r.pc = pc /\ r.answer = row.certificate /\ Same(q, r)
  <2>1. PICK p : p = [q EXCEPT !.pc = pc]
    OBVIOUS
  <2>2. p \in Requests /\ p.pc = pc /\ Same(q, p)
    BY <1>1, <2>1 DEF Requests, Same
  <2>3. r = [p EXCEPT !.answer = row.certificate]
    BY <1>4, <2>1
  <2>4. r \in Requests /\ r.pc = pc /\ r.answer = row.certificate /\ Same(p, r)
    BY <1>2, <2>2, <2>3 DEF Requests, Same
  <2>. QED BY <2>2, <2>4 DEF Same
<1>6. request' = [request EXCEPT ![w] = r]
  BY <1>3, <1>4
<1>. HIDE DEF R
<1>. QED BY <1>3, <1>5, <1>6

\* Every step of a request, seen from its record.
LEMMA RequestStep ==
    ASSUME TypeInv, NEW w \in Workers, Step(w)
    PROVE  /\ clock' = clock
           /\ \E r \in Requests : /\ request' = [request EXCEPT ![w] = r]
                                  /\ RequestInv(r)
                                  /\ Becomes(w, r)
<1> DEFINE q == request[w]
           Good(r) == /\ request' = [request EXCEPT ![w] = r]
                      /\ RequestInv(r)
                      /\ Becomes(w, r)
<1>q. q \in Requests /\ RequestInv(q) /\ q.issued_at \in Nat /\ clock \in Nat
  BY RequestTyped
<1>clock. clock' = clock
  BY DEF Step, Act, End, StartIssue, ReadDeveloper, ExpireClaims, FindClaim,
         InsertClaim, FindContent, PurgeAttempts, RecordAttempt, FindSigner,
         ReserveSerial, CommitCertificate, AbandonClaim
<1>good. SUFFICES \E r \in Requests : Good(r)
  BY <1>clock
<1>finish. ASSUME Finish(w)
           PROVE  \E r \in Requests : Good(r)
  <2>1. request' = [request EXCEPT ![w] = IdleRequest]
    BY <1>finish DEF Finish
  <2>2. Becomes(w, IdleRequest)
    BY IdleFacts DEF Becomes, HoldPcs, LookPcs
  <2>. QED BY <2>1, <2>2, IdleFacts
<1>same. ASSUME NEW r, q.pc # "idle", Same(q, r)
         PROVE  RequestInv(r)
  BY <1>q, <1>same DEF RequestInv, Same
<1>1. CASE End(w)
  BY <1>1, <1>finish DEF End
<1>2. CASE \E a \in Accounts, k \in Keys, c \in Contents : StartIssue(w, a, k, c)
  <2> PICK a \in Accounts, k \in Keys, c \in Contents : StartIssue(w, a, k, c)
    BY <1>2
  <2> DEFINE r == [pc |-> "read_developer", account |-> a, key |-> k, content |-> c,
                   issued_at |-> clock, serial |-> 0, answer |-> {}]
  <2>1. request' = [request EXCEPT ![w] = r]
    BY DEF StartIssue
  <2>2. r \in Requests /\ RequestInv(r)
    BY <1>q DEF Requests, RequestInv
  <2>3. r.pc = "read_developer"
    OBVIOUS
  <2> HIDE DEF r
  <2>4. Becomes(w, r)
    BY <2>3 DEF Becomes, LookPcs, HoldPcs
  <2>. QED BY <2>1, <2>2, <2>4
<1>3. CASE ReadDeveloper(w)
  <2>1. CASE Goto(w, "expire")
    <3>1. ~ At(w, "idle") /\ q.pc # "idle"
      BY <1>3 DEF ReadDeveloper, At
    <3>2. PICK r \in Requests : /\ request' = [request EXCEPT ![w] = r]
                                /\ r.pc = "expire"
                                /\ Same(request[w], r)
      BY <2>1, <3>1, GotoFacts
    <3>3. Becomes(w, r)
      BY <3>1, <3>2 DEF Becomes, LookPcs, HoldPcs
    <3>. QED BY <3>1, <3>2, <3>3, <1>same
  <2>. QED BY <1>3, <2>1, <1>finish DEF ReadDeveloper
<1>4. CASE ExpireClaims(w)
  <2>1. ~ At(w, "idle") /\ q.pc # "idle" /\ Goto(w, "find")
    BY <1>4 DEF ExpireClaims, At
  <2>2. PICK r \in Requests : /\ request' = [request EXCEPT ![w] = r]
                              /\ r.pc = "find"
                              /\ Same(request[w], r)
    BY <2>1, GotoFacts
  <2>3. Becomes(w, r)
    BY <2>1, <2>2, <1>4 DEF Becomes, LookPcs, HoldPcs
  <2>. QED BY <2>1, <2>2, <2>3, <1>same
<1>5. CASE FindClaim(w)
  <2>1. ~ At(w, "idle") /\ q.pc # "idle" /\ q.pc = "find"
    BY <1>5 DEF FindClaim, At
  <2>2. CASE Goto(w, "insert")
    <3>2. PICK r \in Requests : /\ request' = [request EXCEPT ![w] = r]
                                /\ r.pc = "insert"
                                /\ Same(request[w], r)
      BY <2>1, <2>2, GotoFacts
    <3>3. Becomes(w, r)
      BY <2>1, <3>2 DEF Becomes, LookPcs, HoldPcs
    <3>. QED BY <2>1, <3>2, <3>3, <1>same
  <2>3. CASE \E row \in claims : Answers(row, q) /\ AnswerFrom(w, row)
    <3>1. PICK row \in claims : row.content = q.content /\ AnswerFrom(w, row)
      BY <2>3 DEF Answers
    <3>2. PICK r \in Requests : /\ request' = [request EXCEPT ![w] = r]
                                /\ r.pc \in {"existing", "pending"}
                                /\ r.answer = row.certificate
                                /\ r.pc = "pending" => row.certificate = {}
                                /\ Same(request[w], r)
      BY <3>1, AnswerFacts
    <3>3. Becomes(w, r)
      BY <2>1, <3>1, <3>2 DEF Becomes, LookPcs, HoldPcs
    <3>. QED BY <2>1, <3>2, <3>3, <1>same
  <2>. QED BY <1>5, <2>2, <2>3, <1>finish DEF FindClaim
<1>6. CASE InsertClaim(w)
  <2>1. ~ At(w, "idle") /\ q.pc # "idle" /\ q.pc = "insert"
    BY <1>6 DEF InsertClaim, At
  <2>2. CASE Goto(w, "find_content")
    <3>2. PICK r \in Requests : /\ request' = [request EXCEPT ![w] = r]
                                /\ r.pc = "find_content"
                                /\ Same(request[w], r)
      BY <2>1, <2>2, GotoFacts
    <3>3. Becomes(w, r)
      BY <2>1, <3>2 DEF Becomes, LookPcs, HoldPcs
    <3>. QED BY <2>1, <3>2, <3>3, <1>same
  <2>3. CASE Goto(w, "purge") /\ \A row \in claims : ~ Collides(row, q)
    <3>2. PICK r \in Requests : /\ request' = [request EXCEPT ![w] = r]
                                /\ r.pc = "purge"
                                /\ Same(request[w], r)
      BY <2>1, <2>3, GotoFacts
    <3>3. Becomes(w, r)
      BY <2>1, <2>3, <3>2, <1>6 DEF Becomes, LookPcs, HoldPcs
    <3>. QED BY <2>1, <3>2, <3>3, <1>same
  <2>. QED BY <1>6, <2>2, <2>3 DEF InsertClaim
<1>7. CASE FindContent(w)
  <2>1. ~ At(w, "idle") /\ q.pc # "idle" /\ q.pc = "find_content"
    BY <1>7 DEF FindContent, At
  <2>3. CASE \E row \in claims : row.content = q.content /\ AnswerFrom(w, row)
    <3>1. PICK row \in claims : row.content = q.content /\ AnswerFrom(w, row)
      BY <2>3
    <3>2. PICK r \in Requests : /\ request' = [request EXCEPT ![w] = r]
                                /\ r.pc \in {"existing", "pending"}
                                /\ r.answer = row.certificate
                                /\ r.pc = "pending" => row.certificate = {}
                                /\ Same(request[w], r)
      BY <3>1, AnswerFacts
    <3>3. Becomes(w, r)
      BY <2>1, <3>1, <3>2 DEF Becomes, LookPcs, HoldPcs
    <3>. QED BY <2>1, <3>2, <3>3, <1>same
  <2>. QED BY <1>7, <2>3, <1>finish DEF FindContent
<1>hold. ASSUME q.pc \in HoldPcs,
                NEW pc \in {"purge", "attempt", "signer", "reserve", "abandon"},
                Goto(w, pc)
         PROVE  \E r \in Requests : Good(r)
  <2>1. ~ At(w, "idle") /\ q.pc # "idle"
    BY <1>hold DEF HoldPcs, At
  <2>2. PICK r \in Requests : /\ request' = [request EXCEPT ![w] = r]
                              /\ r.pc = pc
                              /\ Same(request[w], r)
    BY <2>1, <1>hold, GotoFacts
  <2>3. Becomes(w, r)
    BY <2>1, <2>2, <1>hold DEF Becomes, LookPcs, HoldPcs
  <2>. QED BY <2>1, <2>2, <2>3, <1>same
<1>8. CASE PurgeAttempts(w)
  BY <1>8, <1>hold DEF PurgeAttempts, At, HoldPcs
<1>9. CASE RecordAttempt(w)
  BY <1>9, <1>hold DEF RecordAttempt, At, HoldPcs
<1>10. CASE FindSigner(w)
  BY <1>10, <1>hold DEF FindSigner, At, HoldPcs
<1>11. CASE ReserveSerial(w)
  <2>1. q.pc \in HoldPcs /\ q.pc # "idle"
    BY <1>11 DEF ReserveSerial, At, HoldPcs
  <2>2. CASE Goto(w, "abandon")
    BY <2>1, <2>2, <1>hold
  <2>3. CASE /\ nextSerial <= MaxSerial
             /\ nextSerial' = nextSerial + 1
             /\ request' = [request EXCEPT ![w].pc = "commit",
                                           ![w].serial = FreshSerial]
    <3> DEFINE r == [[q EXCEPT !.pc = "commit"] EXCEPT !.serial = nextSerial]
    <3>1. request' = [request EXCEPT ![w] = r]
      BY <2>3 DEF FreshSerial
    <3>2. nextSerial \in Nat
      BY IssuanceAssumption DEF TypeInv
    <3>3. r = [[q EXCEPT !.pc = "commit"] EXCEPT !.serial = nextSerial]
      OBVIOUS
    <3> HIDE DEF r
    <3>4. r \in Requests /\ r.pc = "commit" /\ r.serial = nextSerial /\ Same(q, r)
      <4>1. PICK p : p = [q EXCEPT !.pc = "commit"]
        OBVIOUS
      <4>2. p \in Requests /\ p.pc = "commit" /\ Same(q, p)
        BY <1>q, <4>1 DEF Requests, Same
      <4>3. r = [p EXCEPT !.serial = nextSerial]
        BY <3>3, <4>1
      <4>4. r \in Requests /\ r.pc = "commit" /\ r.serial = nextSerial /\ Same(p, r)
        BY <3>2, <4>2, <4>3 DEF Requests, Same
      <4>. QED BY <4>2, <4>4 DEF Same
    <3>5. Becomes(w, r)
      BY <2>1, <2>3, <3>4, <1>11 DEF Becomes, LookPcs, HoldPcs
    <3>. QED BY <2>1, <3>1, <3>4, <3>5, <1>same
  <2>. QED BY <1>11, <2>2, <2>3 DEF ReserveSerial
<1>12. CASE CommitCertificate(w)
  BY <1>12, <1>finish, <1>hold DEF CommitCertificate, At, HoldPcs
<1>13. CASE AbandonClaim(w)
  BY <1>13, <1>finish DEF AbandonClaim
<1>. HIDE DEF Good
<1>. QED BY <1>1, <1>2, <1>3, <1>4, <1>5, <1>6, <1>7, <1>8, <1>9, <1>10, <1>11,
            <1>12, <1>13 DEF Step, Act

-------------------------------------------------------------------------------
(* What a step does to the tables. *)

IssuedBy(r) == [serial |-> r.serial, account |-> r.account,
                content |-> r.content, issued_at |-> r.issued_at]

CompletedBy(row, r) ==
    IF OwnClaim(row, r)
    THEN [row EXCEPT !.certificate = {IssuedBy(r)}, !.updated_at = r.issued_at]
    ELSE row

Inserts(w) ==
    /\ At(w, "insert")
    /\ \A row \in claims : ~ Collides(row, request[w])
    /\ claims' = claims \cup {PendingClaim(request[w])}
    /\ certificates' = certificates

Issues(w) ==
    /\ At(w, "commit")
    /\ request[w].account \in eligible
    /\ certificates' = certificates \cup {IssuedBy(request[w])}
    /\ claims' = {CompletedBy(row, request[w]) : row \in claims}
    /\ Finish(w)

LEMMA TableStep ==
    ASSUME NEW w \in Workers, Step(w)
    PROVE  /\ eligible' = eligible
           /\ clock' = clock
           /\ nextSerial' = nextSerial \/ ReserveSerial(w)
           /\ \/ claims' = claims /\ certificates' = certificates
              \/ /\ Alive(w)
                 /\ \/ ExpireClaims(w)
                    \/ Inserts(w)
                    \/ Issues(w)
                    \/ AbandonClaim(w)
<1>1. CASE End(w)
  BY <1>1 DEF End, tables
<1>2. CASE \E a \in Accounts, k \in Keys, c \in Contents : StartIssue(w, a, k, c)
  BY <1>2 DEF StartIssue, tables
<1>3. CASE ReadDeveloper(w)
  BY <1>3 DEF ReadDeveloper, tables
<1>4. CASE Alive(w) /\ ExpireClaims(w)
  BY <1>4 DEF ExpireClaims
<1>5. CASE FindClaim(w)
  BY <1>5 DEF FindClaim, tables
<1>6. CASE Alive(w) /\ InsertClaim(w)
  BY <1>6 DEF InsertClaim, Inserts
<1>7. CASE FindContent(w)
  BY <1>7 DEF FindContent, tables
<1>8. CASE PurgeAttempts(w)
  BY <1>8 DEF PurgeAttempts
<1>9. CASE RecordAttempt(w)
  BY <1>9 DEF RecordAttempt
<1>10. CASE FindSigner(w)
  BY <1>10 DEF FindSigner, tables
<1>11. CASE ReserveSerial(w)
  BY <1>11 DEF ReserveSerial
<1>12. CASE Alive(w) /\ CommitCertificate(w)
  BY <1>12 DEF CommitCertificate, Issues, IssuedBy, CompletedBy, StillEligible
<1>13. CASE Alive(w) /\ AbandonClaim(w)
  BY <1>13 DEF AbandonClaim
<1>. QED BY <1>1, <1>2, <1>3, <1>4, <1>5, <1>6, <1>7, <1>8, <1>9, <1>10, <1>11,
            <1>12, <1>13 DEF Step, Act

LEMMA HoldsPcs ==
    ASSUME NEW w \in Workers
    PROVE  /\ Holds(w) <=> request[w].pc \in HoldPcs
           /\ Holds(w)' <=> request'[w].pc \in HoldPcs
BY DEF Holds, HoldPcs, At

\* Who holds a content after a step held it before, or has just inserted it.
LEMMA HolderAfter ==
    ASSUME TypeInv, NEW w \in Workers, Step(w),
           NEW v \in Workers, Holds(v)', Alive(v)'
    PROVE  /\ Same(request[v], request'[v])
           /\ request[v].pc # "idle"
           /\ Alive(v)
           /\ clock <= request[v].issued_at + MaxLifetime
           /\ \/ Holds(v)
              \/ /\ v = w /\ InsertClaim(w)
                 /\ \A row \in claims : ~ Collides(row, request[w])
<1>1. PICK r \in Requests : /\ request' = [request EXCEPT ![w] = r]
                            /\ RequestInv(r)
                            /\ Becomes(w, r)
  BY RequestStep
<1>2. clock' = clock /\ request \in [Workers -> Requests]
  BY RequestStep DEF TypeInv
<1>3. request'[v] = IF v = w THEN r ELSE request[v]
  BY <1>1, <1>2
<1>4. request'[v].pc \in HoldPcs /\ request'[v].pc # "idle"
  BY HoldsPcs DEF HoldPcs
<1>5. clock <= request'[v].issued_at + MaxLifetime
  BY <1>2, <1>4 DEF Alive, At
<1>6. CASE v = w
  <2>1. r.pc \in HoldPcs /\ r.pc \notin {"idle", "read_developer"}
    BY <1>3, <1>4, <1>6 DEF HoldPcs
  <2>2. Same(request[v], r) /\ request[v].pc # "idle"
    BY <1>1, <1>6, <2>1 DEF Becomes
  <2>3. \/ request[v].pc \in HoldPcs
        \/ /\ v = w /\ InsertClaim(w)
           /\ \A row \in claims : ~ Collides(row, request[w])
    BY <1>1, <1>6, <2>1 DEF Becomes
  <2>4. clock <= request[v].issued_at + MaxLifetime
    BY <1>3, <1>5, <1>6, <2>2 DEF Same
  <2>. QED BY <1>3, <1>6, <2>2, <2>3, <2>4, HoldsPcs DEF Alive
<1>7. CASE v # w
  BY <1>3, <1>4, <1>5, <1>7, HoldsPcs DEF Same, Alive
<1>. QED BY <1>6, <1>7

-------------------------------------------------------------------------------
(* The invariant, a part at a time, over the steps of a request. *)

LEMMA RowIdentity ==
    ASSUME TypeInv, NEW w \in Workers, NEW row \in claims,
           PendingClaim(request[w]) \in claims, row.content = request[w].content
    PROVE  row = PendingClaim(request[w])
BY DEF TypeInv, PendingClaim

LEMMA CompletedTyped ==
    ASSUME TypeInv, NEW w \in Workers, request[w].pc # "idle", NEW row \in Claims
    PROVE  /\ IssuedBy(request[w]) \in Certificates
           /\ CompletedBy(row, request[w]) \in Claims
           /\ CompletedBy(row, request[w]).account = row.account
           /\ CompletedBy(row, request[w]).key = row.key
           /\ CompletedBy(row, request[w]).content = row.content
           /\ OwnClaim(row, request[w]) =>
                 /\ CompletedBy(row, request[w]).certificate = {IssuedBy(request[w])}
                 /\ CompletedBy(row, request[w]).updated_at = request[w].issued_at
           /\ ~ OwnClaim(row, request[w]) => CompletedBy(row, request[w]) = row
<1> DEFINE q == request[w]
<1>1. q \in Requests /\ RequestInv(q)
  BY RequestTyped
<1>2. PICK x : x = IssuedBy(q)
  OBVIOUS
<1>3. x \in Certificates
  BY <1>1, <1>2 DEF IssuedBy, Certificates, Requests, RequestInv
<1>4. CASE OwnClaim(row, q)
  <2>1. PICK at : at = q.issued_at
    OBVIOUS
  <2>2. at \in Nat
    BY <1>1, <2>1 DEF Requests
  <2>3. PICK p : p = [row EXCEPT !.certificate = {x}]
    OBVIOUS
  <2>4. /\ p \in Claims /\ p.account = row.account /\ p.key = row.key
        /\ p.content = row.content /\ p.certificate = {x}
    BY <1>3, <2>3 DEF Claims
  <2>5. PICK c : c = [p EXCEPT !.updated_at = at]
    OBVIOUS
  <2>6. /\ c \in Claims /\ c.account = row.account /\ c.key = row.key
        /\ c.content = row.content /\ c.certificate = {x} /\ c.updated_at = at
    BY <2>2, <2>4, <2>5 DEF Claims
  <2>7. CompletedBy(row, q) = c
    BY <1>2, <1>4, <2>1, <2>3, <2>5 DEF CompletedBy
  <2>. QED BY <1>2, <1>3, <1>4, <2>1, <2>6, <2>7
<1>5. CASE ~ OwnClaim(row, q)
  BY <1>2, <1>3, <1>5 DEF CompletedBy
<1>. QED BY <1>4, <1>5

LEMMA TypeStep ==
    ASSUME TypeInv, NEW w \in Workers, Step(w)
    PROVE  TypeInv'
<1> DEFINE q == request[w]
           Keyed(C) == \A row, other \in C :
                          (row.content = other.content
                              \/ (row.account = other.account /\ row.key = other.key))
                          => row = other
<1>0. q \in Requests /\ RequestInv(q)
  BY RequestTyped
<1>1. PICK r \in Requests : /\ request' = [request EXCEPT ![w] = r]
                            /\ RequestInv(r)
                            /\ Becomes(w, r)
  BY RequestStep
<1>2. eligible' = eligible /\ clock' = clock
  BY TableStep
<1>3. request' \in [Workers -> Requests]
  BY <1>1 DEF TypeInv
<1>4. \A v \in Workers : RequestInv(request[v])'
  <2> TAKE v \in Workers
  <2>1. request'[v] = IF v = w THEN r ELSE request[v]
    BY <1>1 DEF TypeInv
  <2>2. RequestInv(request[v])
    BY RequestTyped
  <2>. QED BY <1>1, <1>2, <2>1, <2>2 DEF RequestInv
<1>5. nextSerial' \in 1 .. MaxSerial + 1
  <2>1. CASE nextSerial' = nextSerial
    BY <2>1 DEF TypeInv
  <2>2. CASE ReserveSerial(w)
    BY <2>2, IssuanceAssumption DEF ReserveSerial, TypeInv
  <2>. QED BY <2>1, <2>2, TableStep
<1>6. claims' \subseteq Claims /\ certificates' \subseteq Certificates /\ Keyed(claims')
  <2>0. claims \subseteq Claims /\ certificates \subseteq Certificates /\ Keyed(claims)
    BY DEF TypeInv
  <2>1. CASE claims' = claims /\ certificates' = certificates
    BY <2>0, <2>1
  <2>2. CASE ExpireClaims(w)
    BY <2>0, <2>2 DEF ExpireClaims
  <2>3. CASE Inserts(w)
    <3>1. q.account \in Accounts /\ q.key \in Keys /\ q.content \in Contents
          /\ q.issued_at \in Nat
      BY <1>0, <2>3 DEF Inserts, At, RequestInv, Requests
    <3>2. PICK row : row = PendingClaim(q)
      OBVIOUS
    <3>3. row \in Claims
      BY <3>1, <3>2 DEF PendingClaim, Claims
    <3>4. row.account = q.account /\ row.key = q.key /\ row.content = q.content
      BY <3>2 DEF PendingClaim
    <3>5. \A other \in claims :
             /\ other.content # row.content
             /\ ~ (other.account = row.account /\ other.key = row.key)
      BY <2>3, <3>4 DEF Inserts, Collides
    <3>6. claims' = claims \cup {row} /\ certificates' = certificates
      BY <2>3, <3>2 DEF Inserts
    <3>. QED BY <2>0, <3>3, <3>5, <3>6
  <2>4. CASE Issues(w)
    <3>1. request[w].pc # "idle"
      BY <2>4 DEF Issues, At
    <3>2. IssuedBy(q) \in Certificates
      <4>1. PICK row : row = PendingClaim(q)
        OBVIOUS
      <4>2. row \in Claims
        BY <1>0, <3>1, <4>1 DEF PendingClaim, Claims, RequestInv, Requests
      <4>. QED BY <3>1, <4>2, CompletedTyped
    <3>3. \A row \in claims :
             /\ CompletedBy(row, q) \in Claims
             /\ CompletedBy(row, q).account = row.account
             /\ CompletedBy(row, q).key = row.key
             /\ CompletedBy(row, q).content = row.content
      BY <2>0, <3>1, CompletedTyped
    <3>4. /\ claims' = {CompletedBy(row, q) : row \in claims}
          /\ certificates' = certificates \cup {IssuedBy(q)}
      BY <2>4 DEF Issues
    <3>5. Keyed(claims')
      <4> SUFFICES ASSUME NEW a \in claims', NEW b \in claims',
                          a.content = b.content
                             \/ (a.account = b.account /\ a.key = b.key)
                   PROVE  a = b
        OBVIOUS
      <4>1. PICK row \in claims : a = CompletedBy(row, q)
        BY <3>4
      <4>2. PICK other \in claims : b = CompletedBy(other, q)
        BY <3>4
      <4>3. row = other
        BY <2>0, <3>3, <4>1, <4>2
      <4>. QED BY <4>1, <4>2, <4>3
    <3>. QED BY <2>0, <3>2, <3>3, <3>4, <3>5
  <2>5. CASE AbandonClaim(w)
    BY <2>0, <2>5 DEF AbandonClaim
  <2>. QED BY <2>1, <2>2, <2>3, <2>4, <2>5, TableStep
<1>. QED BY <1>2, <1>3, <1>4, <1>5, <1>6 DEF TypeInv

\* A live request that acts on its claim does so alone: no other holder's row
\* is a row of its own.
LEMMA OwnRows ==
    ASSUME TypeInv, ClaimIsExclusive, NEW w \in Workers, NEW v \in Workers,
           Holds(w), Alive(w), Holds(v), Alive(v), v # w
    PROVE  ~ OwnClaim(PendingClaim(request[v]), request[w])
BY DEF ClaimIsExclusive, OwnClaim, PendingClaim

LEMMA KeptStep ==
    ASSUME TypeInv, ClaimIsKept, ClaimIsExclusive, NEW w \in Workers, Step(w)
    PROVE  ClaimIsKept'
<1> SUFFICES ASSUME NEW v \in Workers, Holds(v)', Alive(v)'
             PROVE  PendingClaim(request'[v]) \in claims'
  BY DEF ClaimIsKept
<1> DEFINE row == PendingClaim(request[v])
<1>1. /\ Same(request[v], request'[v])
      /\ Alive(v)
      /\ clock <= request[v].issued_at + MaxLifetime
      /\ \/ Holds(v)
         \/ /\ v = w /\ InsertClaim(w)
            /\ \A other \in claims : ~ Collides(other, request[w])
  BY HolderAfter
<1>2. PendingClaim(request'[v]) = row
  BY <1>1 DEF PendingClaim, Same
<1>3. CASE /\ v = w /\ InsertClaim(w)
           /\ \A other \in claims : ~ Collides(other, request[w])
  BY <1>2, <1>3 DEF InsertClaim
<1>4. CASE Holds(v)
  <2>1. row \in claims
    BY <1>1, <1>4 DEF ClaimIsKept
  <2>2. CASE claims' = claims
    BY <1>2, <2>1, <2>2
  <2>3. CASE ExpireClaims(w)
    <3>1. request[w].issued_at \in Nat /\ request[v].issued_at \in Nat
          /\ clock \in Nat /\ request[w].issued_at <= clock
      BY RequestTyped DEF RequestInv
    <3>2. row.updated_at = request[v].issued_at
      BY DEF PendingClaim
    <3>3. ~ Expired(row, request[w].issued_at)
      BY <1>1, <3>1, <3>2, IssuanceAssumption DEF Expired
    <3>. QED BY <1>2, <2>1, <2>3, <3>3 DEF ExpireClaims
  <2>4. CASE Inserts(w)
    BY <1>2, <2>1, <2>4 DEF Inserts
  <2>5. CASE Issues(w) /\ Alive(w)
    <3>1. Holds(w) /\ v # w
      <4>1. request'[w] = IdleRequest
        BY <2>5 DEF Issues, Finish, TypeInv
      <4>2. request[w].pc = "commit"
        BY <2>5 DEF Issues, At
      <4>3. request'[v].pc \in HoldPcs
        BY HoldsPcs
      <4>. QED BY <4>1, <4>2, <4>3, IdleFacts, HoldsPcs DEF HoldPcs
    <3>2. ~ OwnClaim(row, request[w])
      BY <1>1, <1>4, <2>5, <3>1, OwnRows
    <3>3. CompletedBy(row, request[w]) = row
      BY <3>2 DEF CompletedBy
    <3>4. claims' = {CompletedBy(x, request[w]) : x \in claims}
      BY <2>5 DEF Issues
    <3>. QED BY <1>2, <2>1, <3>3, <3>4
  <2>6. CASE AbandonClaim(w) /\ Alive(w)
    <3>1. Holds(w) /\ v # w
      <4>1. request'[w] = IdleRequest
        BY <2>6 DEF AbandonClaim, Finish, TypeInv
      <4>2. request[w].pc = "abandon"
        BY <2>6 DEF AbandonClaim, At
      <4>3. request'[v].pc \in HoldPcs
        BY HoldsPcs
      <4>. QED BY <4>1, <4>2, <4>3, IdleFacts, HoldsPcs DEF HoldPcs
    <3>2. ~ OwnClaim(row, request[w])
      BY <1>1, <1>4, <2>6, <3>1, OwnRows
    <3>. QED BY <1>2, <2>1, <2>6, <3>2 DEF AbandonClaim
  <2>. QED BY <2>2, <2>3, <2>4, <2>5, <2>6, TableStep
<1>. QED BY <1>1, <1>3, <1>4

LEMMA ExclusiveStep ==
    ASSUME TypeInv, ClaimIsKept, ClaimIsExclusive, NEW w \in Workers, Step(w)
    PROVE  ClaimIsExclusive'
<1> SUFFICES ASSUME NEW u \in Workers, NEW v \in Workers, u # v,
                    Holds(u)', Holds(v)', Alive(u)', Alive(v)'
             PROVE  request'[u].content # request'[v].content
  BY DEF ClaimIsExclusive
<1> DEFINE Fresh(x) == x = w /\ \A row \in claims : ~ Collides(row, request[x])
<1>1. /\ request'[u].content = request[u].content /\ Alive(u)
      /\ Holds(u) \/ Fresh(u)
  BY HolderAfter DEF Same
<1>2. /\ request'[v].content = request[v].content /\ Alive(v)
      /\ Holds(v) \/ Fresh(v)
  BY HolderAfter DEF Same
<1>3. ASSUME NEW x \in Workers, NEW y \in Workers, Fresh(x), Holds(y), Alive(y)
      PROVE  request[x].content # request[y].content
  <2>1. PendingClaim(request[y]) \in claims
    BY <1>3 DEF ClaimIsKept
  <2>2. ~ Collides(PendingClaim(request[y]), request[x])
    BY <1>3, <2>1
  <2>. QED BY <2>2 DEF Collides, PendingClaim
<1>4. CASE Holds(u) /\ Holds(v)
  BY <1>1, <1>2, <1>4 DEF ClaimIsExclusive
<1>. HIDE DEF Fresh
<1>5. ~ (Fresh(u) /\ Fresh(v))
  BY DEF Fresh
<1>. QED BY <1>1, <1>2, <1>3, <1>4, <1>5

LEMMA RowsStep ==
    ASSUME TypeInv, RowsAreTrue, NEW w \in Workers, Step(w)
    PROVE  RowsAreTrue'
<1> DEFINE q == request[w]
           True(row, C) == \A x \in row.certificate :
                              /\ x \in C
                              /\ x.content = row.content
                              /\ x.issued_at = row.updated_at
<1>1. \A row \in claims : True(row, certificates)
  BY DEF RowsAreTrue
<1> SUFFICES \A row \in claims' : True(row, certificates')
  BY DEF RowsAreTrue
<1>2. CASE claims' = claims /\ certificates' = certificates
  BY <1>1, <1>2
<1>3. CASE ExpireClaims(w)
  BY <1>1, <1>3 DEF ExpireClaims
<1>4. CASE Inserts(w)
  <2>1. True(PendingClaim(q), certificates)
    BY DEF PendingClaim
  <2>. QED BY <1>1, <1>4, <2>1 DEF Inserts
<1>5. CASE Issues(w)
  <2>1. /\ claims' = {CompletedBy(row, q) : row \in claims}
        /\ certificates' = certificates \cup {IssuedBy(q)}
        /\ q.pc # "idle"
    BY <1>5 DEF Issues, At
  <2>2. SUFFICES ASSUME NEW row \in claims
                 PROVE  True(CompletedBy(row, q), certificates')
    BY <2>1
  <2>3. row \in Claims
    BY DEF TypeInv
  <2>4. CASE ~ OwnClaim(row, q)
    BY <1>1, <2>1, <2>3, <2>4, CompletedTyped
  <2>5. CASE OwnClaim(row, q)
    <3>1. /\ CompletedBy(row, q).content = row.content /\ row.content = q.content
          /\ CompletedBy(row, q).certificate = {IssuedBy(q)}
          /\ CompletedBy(row, q).updated_at = q.issued_at
      BY <2>1, <2>3, <2>5, CompletedTyped DEF OwnClaim
    <3>2. IssuedBy(q).content = q.content /\ IssuedBy(q).issued_at = q.issued_at
      BY DEF IssuedBy
    <3>. QED BY <2>1, <3>1, <3>2
  <2>. QED BY <2>4, <2>5
<1>6. CASE AbandonClaim(w)
  BY <1>1, <1>6 DEF AbandonClaim
<1>. HIDE DEF True
<1>. QED BY <1>2, <1>3, <1>4, <1>5, <1>6, TableStep

LEMMA TakenStep ==
    ASSUME TypeInv, ClaimIsKept, RowsAreTrue, ContentIsTaken,
           NEW w \in Workers, Step(w)
    PROVE  ContentIsTaken'
<1> DEFINE q == request[w]
           Taken(x, now, C) == \/ x.issued_at + Window <= now
                               \/ \E row \in C : x \in row.certificate
<1>1. \A x \in certificates : Taken(x, clock, claims)
  BY DEF ContentIsTaken
<1>0. clock' = clock
  BY TableStep
<1>s. SUFFICES \A x \in certificates' : Taken(x, clock, claims')
  BY <1>0 DEF ContentIsTaken
<1>2. CASE claims' = claims /\ certificates' = certificates
  BY <1>1, <1>2
<1>3. CASE ExpireClaims(w)
  <2> SUFFICES ASSUME NEW x \in certificates
               PROVE  Taken(x, clock, claims')
    BY <1>3 DEF ExpireClaims
  <2>1. CASE x.issued_at + Window <= clock
    BY <2>1
  <2>2. CASE \E row \in claims : x \in row.certificate
    <3>1. PICK row \in claims : x \in row.certificate
      BY <2>2
    <3>2. x.issued_at = row.updated_at
      BY <3>1 DEF RowsAreTrue
    <3>3. CASE Expired(row, q.issued_at)
      <4>1. q.issued_at \in Nat /\ clock \in Nat /\ q.issued_at <= clock
        BY RequestTyped DEF RequestInv
      <4>2. x.issued_at \in Nat
        BY DEF TypeInv, Certificates
      <4>. QED BY <3>2, <3>3, <4>1, <4>2, IssuanceAssumption DEF Expired
    <3>4. CASE ~ Expired(row, q.issued_at)
      BY <1>3, <3>1, <3>4 DEF ExpireClaims
    <3>. QED BY <3>3, <3>4
  <2>. QED BY <1>1, <2>1, <2>2
<1>4. CASE Inserts(w)
  BY <1>1, <1>4 DEF Inserts
<1>5. CASE Issues(w) /\ Alive(w)
  <2>1. /\ claims' = {CompletedBy(row, q) : row \in claims}
        /\ certificates' = certificates \cup {IssuedBy(q)}
        /\ q.pc = "commit"
    BY <1>5 DEF Issues, At
  <2>2. ASSUME NEW x \in certificates
        PROVE  Taken(x, clock, claims')
    <3>1. CASE x.issued_at + Window <= clock
      BY <3>1
    <3>2. CASE \E row \in claims : x \in row.certificate
      <4>1. PICK row \in claims : x \in row.certificate
        BY <3>2
      <4>2. CompletedBy(row, q) = row
        BY <4>1 DEF CompletedBy, OwnClaim
      <4>. QED BY <2>1, <4>1, <4>2
    <3>. QED BY <1>1, <3>1, <3>2
  <2>3. Taken(IssuedBy(q), clock, claims')
    <3>1. PICK row \in claims : row = PendingClaim(q)
      BY <1>5, <2>1, HoldsPcs DEF ClaimIsKept, HoldPcs
    <3>2. OwnClaim(row, q)
      BY <3>1 DEF OwnClaim, PendingClaim
    <3>3. CompletedBy(row, q).certificate = {IssuedBy(q)}
      <4>1. row \in Claims /\ q.pc # "idle"
        BY <2>1 DEF TypeInv
      <4>. QED BY <3>2, <4>1, CompletedTyped
    <3>. QED BY <2>1, <3>3
  <2>. QED BY <2>1, <2>2, <2>3
<1>6. CASE AbandonClaim(w)
  <2> SUFFICES ASSUME NEW x \in certificates
               PROVE  Taken(x, clock, claims')
    BY <1>6 DEF AbandonClaim
  <2>. QED BY <1>1, <1>6 DEF AbandonClaim, OwnClaim
<1>. HIDE DEF Taken
<1>. QED BY <1>2, <1>3, <1>4, <1>5, <1>6, TableStep

LEMMA LateStep ==
    ASSUME TypeInv, ClaimIsExclusive, RowsAreTrue, ContentIsTaken, HoldersAreLate,
           NEW w \in Workers, Step(w)
    PROVE  HoldersAreLate'
<1> DEFINE q == request[w]
<1> SUFFICES ASSUME NEW v \in Workers, Holds(v)', Alive(v)',
                    NEW x \in certificates', x.content = request'[v].content
             PROVE  x.issued_at + Window <= request'[v].issued_at + MaxLifetime
  BY DEF HoldersAreLate
<1>1. /\ Same(request[v], request'[v])
      /\ Alive(v)
      /\ clock <= request[v].issued_at + MaxLifetime
      /\ \/ Holds(v)
         \/ /\ v = w /\ InsertClaim(w)
            /\ \A row \in claims : ~ Collides(row, request[w])
  BY HolderAfter
<1>2. /\ x.content = request[v].content
      /\ request'[v].issued_at = request[v].issued_at
  BY <1>1 DEF Same
<1>3. CASE x \in certificates /\ Holds(v)
  BY <1>1, <1>2, <1>3 DEF HoldersAreLate
<1>4. CASE x \in certificates /\ \A row \in claims : ~ Collides(row, request[v])
  <2>1. \A row \in claims : x \notin row.certificate
    BY <1>2, <1>4 DEF RowsAreTrue, Collides
  <2>2. x.issued_at + Window <= clock
    BY <1>4, <2>1 DEF ContentIsTaken
  <2>3. x.issued_at \in Nat /\ clock \in Nat /\ request[v].issued_at \in Nat
    BY <1>4, RequestTyped DEF TypeInv, Certificates
  <2>. QED BY <1>1, <1>2, <2>2, <2>3, IssuanceAssumption
<1>5. CASE x \notin certificates
  <2>1. certificates' # certificates
    BY <1>5
  <2>2. Alive(w) /\ Issues(w)
    BY <2>1, TableStep DEF ExpireClaims, Inserts, AbandonClaim
  <2>3. x = IssuedBy(q) /\ q.pc = "commit"
    BY <1>5, <2>2 DEF Issues, At
  <2>4. Holds(w) /\ x.content = q.content
    BY <2>3, HoldsPcs DEF HoldPcs, IssuedBy
  <2>5. v # w
    <3>1. request'[w] = IdleRequest
      BY <2>2 DEF Issues, Finish, TypeInv
    <3>2. request'[v].pc \in HoldPcs
      BY HoldsPcs
    <3>. QED BY <3>1, <3>2, IdleFacts DEF HoldPcs
  <2>6. Holds(v)
    BY <1>1, <2>5
  <2>. QED BY <1>1, <1>2, <2>2, <2>4, <2>5, <2>6 DEF ClaimIsExclusive
<1>. QED BY <1>1, <1>3, <1>4, <1>5

LEMMA DuplicateStep ==
    ASSUME TypeInv, HoldersAreLate, NoDuplicateIssue, NEW w \in Workers, Step(w)
    PROVE  NoDuplicateIssue'
<1> DEFINE q == request[w]
<1>1. CASE certificates' = certificates
  BY <1>1 DEF NoDuplicateIssue
<1>2. CASE Alive(w) /\ Issues(w)
  <2>1. /\ certificates' = certificates \cup {IssuedBy(q)}
        /\ Holds(w)
    BY <1>2, HoldsPcs DEF Issues, At, HoldPcs
  <2>2. IssuedBy(q).content = q.content /\ IssuedBy(q).issued_at = q.issued_at
    BY DEF IssuedBy
  <2>3. \A x \in certificates : x.content = IssuedBy(q).content =>
           x.issued_at + Window <= IssuedBy(q).issued_at + MaxLifetime
    BY <1>2, <2>1, <2>2 DEF HoldersAreLate
  <2>. QED BY <2>1, <2>3 DEF NoDuplicateIssue
<1>. QED BY <1>1, <1>2, TableStep DEF ExpireClaims, Inserts, AbandonClaim

LEMMA SerialStep ==
    ASSUME TypeInv, SerialInv, NEW w \in Workers, Step(w)
    PROVE  SerialInv'
<1> DEFINE q == request[w]
<1>1. PICK r \in Requests : /\ request' = [request EXCEPT ![w] = r]
                            /\ RequestInv(r)
                            /\ Becomes(w, r)
  BY RequestStep
<1>2. \A v \in Workers : request'[v] = IF v = w THEN r ELSE request[v]
  BY <1>1 DEF TypeInv
<1>3. nextSerial \in Nat /\ MaxSerial \in Nat
  BY IssuanceAssumption DEF TypeInv
<1>4. nextSerial' = nextSerial \/ nextSerial' = nextSerial + 1
  BY TableStep DEF ReserveSerial
<1>c. \A x \in certificates : x.serial \in Nat
  BY DEF TypeInv, Certificates
<1>5. \A x \in certificates' :
         x \in certificates \/ (At(w, "commit") /\ x = IssuedBy(q) /\ Issues(w))
  BY TableStep DEF ExpireClaims, Inserts, AbandonClaim, Issues
<1>6. \A x \in certificates' : x.serial \in Nat /\ x.serial < nextSerial
  <2> TAKE x \in certificates'
  <2>1. CASE x \in certificates
    BY <2>1, <1>c DEF SerialInv
  <2>2. CASE At(w, "commit") /\ x = IssuedBy(q)
    <3>1. x.serial = q.serial
      BY <2>2 DEF IssuedBy
    <3>2. q.serial \in 1 .. MaxSerial /\ q.serial < nextSerial
      BY <2>2 DEF SerialInv
    <3>. QED BY <1>3, <3>1, <3>2
  <2>. QED BY <1>5, <2>1, <2>2
<1>7. \A x \in certificates' : x.serial < nextSerial'
  BY <1>3, <1>4, <1>6
<1>8. \A v \in Workers : request'[v].pc = "commit" =>
         \/ v # w /\ At(v, "commit") /\ request'[v] = request[v]
         \/ /\ v = w /\ request'[v].serial = nextSerial
            /\ nextSerial' = nextSerial + 1 /\ nextSerial <= MaxSerial
            /\ ReserveSerial(w)
  BY <1>1, <1>2 DEF Becomes, At
<1>9. \A v \in Workers : request'[v].pc = "commit" =>
         request'[v].serial \in 1 .. MaxSerial /\ request'[v].serial < nextSerial'
  <2> SUFFICES ASSUME NEW v \in Workers, request'[v].pc = "commit"
               PROVE  request'[v].serial \in 1 .. MaxSerial
                      /\ request'[v].serial < nextSerial'
    OBVIOUS
  <2>1. CASE v # w /\ At(v, "commit") /\ request'[v] = request[v]
    BY <1>3, <1>4, <2>1 DEF SerialInv
  <2>2. CASE /\ request'[v].serial = nextSerial
             /\ nextSerial' = nextSerial + 1 /\ nextSerial <= MaxSerial
    BY <1>3, <2>2 DEF TypeInv
  <2>. QED BY <1>8, <2>1, <2>2
<1>10. \A x, y \in certificates' : x.serial = y.serial => x = y
  <2> SUFFICES ASSUME NEW x \in certificates', NEW y \in certificates',
                      x.serial = y.serial
               PROVE  x = y
    OBVIOUS
  <2>1. ASSUME NEW z \in certificates, At(w, "commit"), z.serial = IssuedBy(q).serial
        PROVE  FALSE
    BY <2>1 DEF IssuedBy, SerialInv, SerialNeverReused
  <2>. QED BY <1>5, <2>1 DEF SerialInv, SerialNeverReused
<1>11. ASSUME NEW v \in Workers, request'[v].pc = "commit"
       PROVE  /\ \A x \in certificates' : x.serial # request'[v].serial
              /\ \A u \in Workers : request'[u].pc = "commit" /\ u # v
                    => request'[u].serial # request'[v].serial
  <2>1. CASE v # w /\ At(v, "commit") /\ request'[v] = request[v]
    <3>1. \A x \in certificates' : x.serial # request'[v].serial
      <4> TAKE x \in certificates'
      <4>1. CASE x \in certificates
        BY <2>1, <4>1 DEF SerialInv, SerialNeverReused
      <4>2. CASE At(w, "commit") /\ x = IssuedBy(q)
        BY <2>1, <4>2 DEF SerialInv, SerialNeverReused, IssuedBy
      <4>. QED BY <1>5, <4>1, <4>2
    <3>2. ASSUME NEW u \in Workers, request'[u].pc = "commit", u # v
          PROVE  request'[u].serial # request'[v].serial
      <4>1. CASE At(u, "commit") /\ request'[u] = request[u]
        BY <2>1, <3>2, <4>1 DEF SerialInv, SerialNeverReused
      <4>2. CASE request'[u].serial = nextSerial
        BY <1>3, <2>1, <4>2 DEF SerialInv
      <4>. QED BY <1>8, <3>2, <4>1, <4>2
    <3>. QED BY <3>1, <3>2
  <2>2. CASE v = w /\ request'[v].serial = nextSerial /\ ReserveSerial(w)
    <3>1. \A x \in certificates' : x.serial # request'[v].serial
      BY <1>3, <1>6, <2>2
    <3>2. ASSUME NEW u \in Workers, request'[u].pc = "commit", u # v
          PROVE  request'[u].serial # request'[v].serial
      <4>1. At(u, "commit") /\ request'[u] = request[u]
        BY <1>8, <2>2, <3>2
      <4>. QED BY <1>3, <2>2, <4>1 DEF SerialInv
    <3>. QED BY <3>1, <3>2
  <2>. QED BY <1>8, <1>11, <2>1, <2>2
<1>12. SerialNeverReused'
  BY <1>10, <1>11 DEF SerialNeverReused, At
<1>. QED BY <1>7, <1>9, <1>12 DEF SerialInv, At

LEMMA FreshStep ==
    ASSUME TypeInv, RowsAreFresh, NEW w \in Workers, Step(w)
    PROVE  RowsAreFresh'
<1> DEFINE q == request[w]
<1>1. PICK r \in Requests : /\ request' = [request EXCEPT ![w] = r]
                            /\ RequestInv(r)
                            /\ Becomes(w, r)
  BY RequestStep
<1> SUFFICES ASSUME NEW v \in Workers, request'[v].pc \in LookPcs, NEW row \in claims'
             PROVE  request'[v].issued_at < row.updated_at + Window
  BY DEF RowsAreFresh
<1>2. /\ request'[v].issued_at = request[v].issued_at
      /\ request[v].pc \in LookPcs \/ (v = w /\ ExpireClaims(w))
  <2>1. CASE v = w
    BY <1>1, <2>1 DEF Becomes, Same, LookPcs, TypeInv
  <2>2. CASE v # w
    BY <1>1, <2>2 DEF TypeInv
  <2>. QED BY <2>1, <2>2
<1>3. /\ request[v].issued_at \in Nat /\ clock \in Nat /\ q.issued_at \in Nat
      /\ request[v].issued_at <= clock
  BY RequestTyped DEF RequestInv
<1>4. CASE row \in claims
  <2>1. CASE request[v].pc \in LookPcs
    BY <1>2, <1>4, <2>1 DEF RowsAreFresh
  <2>2. CASE v = w /\ ExpireClaims(w)
    <3>1. ~ Expired(row, request[v].issued_at) /\ row.updated_at \in Nat
      BY <1>4, <2>2 DEF ExpireClaims, TypeInv, Claims
    <3>. QED BY <1>2, <1>3, <3>1, IssuanceAssumption DEF Expired
  <2>. QED BY <1>2, <2>1, <2>2
<1>5. CASE row \notin claims
  <2>1. Alive(w) /\ (Inserts(w) \/ Issues(w))
    BY <1>5, TableStep DEF ExpireClaims, AbandonClaim
  <2>2. row.updated_at = q.issued_at
    <3>1. CASE Inserts(w)
      BY <1>5, <3>1 DEF Inserts, PendingClaim
    <3>2. CASE Issues(w)
      <4>1. PICK old \in claims : row = CompletedBy(old, q)
        BY <3>2 DEF Issues
      <4>2. old \in Claims /\ q.pc # "idle"
        BY <3>2 DEF TypeInv, Issues, At
      <4>. QED BY <1>5, <4>1, <4>2, CompletedTyped
    <3>. QED BY <2>1, <3>1, <3>2
  <2>3. clock <= q.issued_at + MaxLifetime
    BY <2>1 DEF Alive, At, Inserts, Issues
  <2>. QED BY <1>2, <1>3, <2>2, <2>3, IssuanceAssumption
<1>. QED BY <1>4, <1>5

LEMMA ReplayStep ==
    ASSUME TypeInv, RowsAreTrue, RowsAreFresh, ReplayIsFaithful,
           NEW w \in Workers, Step(w)
    PROVE  ReplayIsFaithful'
<1> DEFINE q == request[w]
<1>1. PICK r \in Requests : /\ request' = [request EXCEPT ![w] = r]
                            /\ RequestInv(r)
                            /\ Becomes(w, r)
  BY RequestStep
<1>2. certificates \subseteq certificates'
  BY TableStep DEF ExpireClaims, Inserts, Issues, AbandonClaim
<1> SUFFICES ASSUME NEW v \in Workers, request'[v].pc = "existing",
                    NEW x \in request'[v].answer
             PROVE  /\ x \in certificates
                    /\ x.content = request'[v].content
                    /\ request'[v].issued_at < x.issued_at + Window
  BY <1>2 DEF ReplayIsFaithful, At
<1>3. CASE v = w
  <2>1. request'[v] = r
    BY <1>1, <1>3 DEF TypeInv
  <2>2. PICK row \in claims : row.content = q.content /\ r.answer = row.certificate
    BY <1>1, <2>1 DEF Becomes
  <2>3. Same(q, r) /\ q.pc \in LookPcs
    BY <1>1, <2>1 DEF Becomes
  <2>4. /\ x \in certificates /\ x.content = row.content
        /\ x.issued_at = row.updated_at
    BY <2>1, <2>2 DEF RowsAreTrue
  <2>5. q.issued_at < row.updated_at + Window
    BY <2>3 DEF RowsAreFresh
  <2>. QED BY <2>1, <2>2, <2>3, <2>4, <2>5 DEF Same
<1>4. CASE v # w
  <2>1. request'[v] = request[v]
    BY <1>1, <1>4 DEF TypeInv
  <2>. QED BY <2>1 DEF ReplayIsFaithful, At
<1>. QED BY <1>3, <1>4

-------------------------------------------------------------------------------
(* The invariant of the specification. *)

LEMMA InitInv ==
    ASSUME Init
    PROVE  IInv
<1>1. \A w \in Workers : request[w] = IdleRequest
  BY DEF Init
<1>2. IdleRequest \in Requests /\ IdleRequest.pc = "idle" /\ IdleRequest.issued_at = 0
  BY DEF IdleRequest, Requests
<1>3. \A w \in Workers : ~ Holds(w)
  BY <1>1, <1>2 DEF Holds, At
<1>4. claims = {} /\ certificates = {}
  BY DEF Init
<1>5. TypeInv
  <2>1. nextSerial \in 1 .. MaxSerial + 1 /\ clock \in 0 .. MaxTime
    BY IssuanceAssumption DEF Init
  <2>2. request \in [Workers -> Requests]
    BY <1>2 DEF Init
  <2>3. \A w \in Workers : RequestInv(request[w])
    BY <1>1, <1>2 DEF RequestInv, Init
  <2>. QED BY <1>4, <2>1, <2>2, <2>3 DEF TypeInv, Init
<1>6. ClaimIsKept /\ ClaimIsExclusive /\ HoldersAreLate
  BY <1>3 DEF ClaimIsKept, ClaimIsExclusive, HoldersAreLate
<1>7. RowsAreTrue /\ ContentIsTaken /\ NoDuplicateIssue
  BY <1>4 DEF RowsAreTrue, ContentIsTaken, NoDuplicateIssue
<1>8. SerialInv
  BY <1>1, <1>2, <1>4 DEF SerialInv, SerialNeverReused, At
<1>9. RowsAreFresh /\ ReplayIsFaithful
  BY <1>1, <1>2 DEF RowsAreFresh, ReplayIsFaithful, At, LookPcs
<1>. QED BY <1>5, <1>6, <1>7, <1>8, <1>9 DEF IInv

\* Time only lets requests die and rows grow old.
LEMMA TickStep ==
    ASSUME IInv, Tick
    PROVE  IInv'
<1>1. /\ clock' = clock + 1 /\ clock < MaxTime
      /\ eligible' = eligible /\ claims' = claims /\ nextSerial' = nextSerial
      /\ certificates' = certificates /\ request' = request
  BY DEF Tick, tables
<1>2. TypeInv /\ clock \in Nat /\ MaxTime \in Nat /\ Window \in Nat /\ MaxLifetime \in Nat
  BY IssuanceAssumption DEF IInv, TypeInv
<1>3. \A w \in Workers : request[w].issued_at \in Nat /\ RequestInv(request[w])
  BY <1>2, RequestTyped
<1>4. \A w \in Workers : Alive(w)' => Alive(w)
  BY <1>1, <1>2, <1>3 DEF Alive, At
<1>5. \A w \in Workers : Holds(w)' <=> Holds(w)
  BY <1>1 DEF Holds, At
<1>6. TypeInv'
  <2>1. clock' \in 0 .. MaxTime
    BY <1>1, <1>2
  <2>2. \A w \in Workers : RequestInv(request[w])'
    BY <1>1, <1>2, <1>3 DEF RequestInv
  <2>. QED BY <1>1, <1>2, <2>1, <2>2 DEF TypeInv
<1>7. ClaimIsKept'
  BY <1>1, <1>4, <1>5 DEF IInv, ClaimIsKept, PendingClaim
<1>8. ClaimIsExclusive'
  BY <1>1, <1>4, <1>5 DEF IInv, ClaimIsExclusive
<1>9. ContentIsTaken'
  <2>1. \A x \in certificates : x.issued_at \in Nat
    BY <1>2 DEF TypeInv, Certificates
  <2>. QED BY <1>1, <1>2, <2>1 DEF IInv, ContentIsTaken
<1>10. HoldersAreLate'
  BY <1>1, <1>4, <1>5 DEF IInv, HoldersAreLate
<1>11. RowsAreTrue' /\ NoDuplicateIssue' /\ SerialInv' /\ RowsAreFresh' /\ ReplayIsFaithful'
  BY <1>1 DEF IInv, RowsAreTrue, NoDuplicateIssue, SerialInv, SerialNeverReused, RowsAreFresh,
          ReplayIsFaithful, At
<1>. QED BY <1>6, <1>7, <1>8, <1>9, <1>10, <1>11 DEF IInv

\* The invariant speaks neither of attempts nor of what was recorded.
LEMMA SameInv ==
    ASSUME IInv, eligible' \subseteq Accounts,
           UNCHANGED <<claims, nextSerial, certificates, request, clock>>
    PROVE  IInv'
<1>1. /\ claims' = claims /\ nextSerial' = nextSerial
      /\ certificates' = certificates /\ request' = request /\ clock' = clock
  OBVIOUS
<1>2. TypeInv'
  BY <1>1 DEF IInv, TypeInv, RequestInv
<1>3. ClaimIsKept' /\ ClaimIsExclusive' /\ HoldersAreLate'
  BY <1>1 DEF IInv, ClaimIsKept, ClaimIsExclusive, HoldersAreLate, Holds, Alive, At,
          PendingClaim
<1>4. RowsAreTrue' /\ ContentIsTaken' /\ NoDuplicateIssue'
  BY <1>1 DEF IInv, RowsAreTrue, ContentIsTaken, NoDuplicateIssue
<1>5. SerialInv' /\ RowsAreFresh' /\ ReplayIsFaithful'
  BY <1>1 DEF IInv, SerialInv, SerialNeverReused, RowsAreFresh, ReplayIsFaithful, At
<1>. QED BY <1>2, <1>3, <1>4, <1>5 DEF IInv

\* Every state keeps the inductive invariant: claims are exclusive and kept,
\* rows are true, certificates keep their content taken for a window, serial
\* numbers are fresh and answers come from rows that have not expired.
THEOREM Invariance == Spec => []IInv
<1>1. ASSUME IInv, [Next]_vars
      PROVE  IInv'
  <2>1. CASE Tick
    BY <1>1, <2>1, TickStep
  <2>2. CASE \E a \in Accounts : ChangeEligible(a)
    <3>1. PICK a \in Accounts : ChangeEligible(a)
      BY <2>2
    <3>2. eligible' \subseteq Accounts
      BY <1>1, <3>1 DEF ChangeEligible, IInv, TypeInv
    <3>. QED BY <1>1, <3>1, <3>2, SameInv DEF ChangeEligible
  <2>3. CASE \E w \in Workers : Step(w)
    <3>1. PICK w \in Workers : Step(w)
      BY <2>3
    <3>. QED BY <1>1, <3>1, TypeStep, KeptStep, ExclusiveStep, RowsStep, TakenStep,
                LateStep, DuplicateStep, SerialStep, FreshStep, ReplayStep DEF IInv
  <2>4. CASE UNCHANGED vars
    <3>1. eligible' \subseteq Accounts
      BY <1>1, <2>4 DEF vars, IInv, TypeInv
    <3>. QED BY <1>1, <2>4, <3>1, SameInv DEF vars
  <2>. QED BY <1>1, <2>1, <2>2, <2>3, <2>4, NextCases
<1>. QED BY <1>1, InitInv, PTL DEF Spec

\* Two live requests past their claims never work on the same content
\* (claim_certificate_issue and abandon_certificate_issue).
THEOREM ExclusiveClaims == Spec => []ClaimIsExclusive
<1>1. IInv => ClaimIsExclusive
  BY DEF IInv
<1>. QED BY <1>1, Invariance, PTL

\* No content is issued twice within a window, less the age of a request
\* (the whole of issue_certificate).
THEOREM NoDuplicates == Spec => []NoDuplicateIssue
<1>1. IInv => NoDuplicateIssue
  BY DEF IInv
<1>. QED BY <1>1, Invariance, PTL

\* A serial number is used once (reserve_certificate_serial).
THEOREM FreshSerials == Spec => []SerialNeverReused
<1>1. IInv => SerialNeverReused
  BY DEF IInv, SerialInv
<1>. QED BY <1>1, Invariance, PTL

\* An existing certificate answers for its own content and window only
\* (claim_certificate_issue).
THEOREM FaithfulReplays == Spec => []ReplayIsFaithful
<1>1. IInv => ReplayIsFaithful
  BY DEF IInv
<1>. QED BY <1>1, Invariance, PTL

\* Only a claim less than a window older than the request makes it answer
\* "pending" (claim_certificate_issue).
THEOREM DeadClaims == Spec => DeadClaimBlocksOneWindow
<1>1. ASSUME IInv, [Next]_vars, NEW v \in Workers, At(v, "pending")', ~ At(v, "pending")
      PROVE  \E row \in claims : /\ row.content = request[v].content
                                 /\ row.certificate = {}
                                 /\ request[v].issued_at < row.updated_at + Window
  <2>1. PICK w \in Workers : Step(w)
    <3>1. request' # request
      BY <1>1 DEF At
    <3>. QED BY <1>1, <3>1, NextCases DEF Tick, ChangeEligible, vars
  <2>2. TypeInv
    BY <1>1 DEF IInv
  <2>3. PICK r \in Requests : /\ request' = [request EXCEPT ![w] = r]
                              /\ RequestInv(r)
                              /\ Becomes(w, r)
    BY <2>1, <2>2, RequestStep
  <2>4. v = w /\ r.pc = "pending"
    BY <1>1, <2>2, <2>3 DEF At, TypeInv
  <2>5. PICK row \in claims : row.content = request[v].content /\ row.certificate = {}
    BY <2>3, <2>4 DEF Becomes
  <2>6. request[v].pc \in LookPcs
    BY <2>3, <2>4 DEF Becomes
  <2>. QED BY <1>1, <2>5, <2>6 DEF IInv, RowsAreFresh
<1>2. IInv /\ [Next]_vars =>
         [\A w \in Workers :
             At(w, "pending")' /\ ~ At(w, "pending")
                 => \E row \in claims :
                       /\ row.content = request[w].content
                       /\ row.certificate = {}
                       /\ request[w].issued_at < row.updated_at + Window]_vars
  BY <1>1
<1>. QED BY <1>2, Invariance, PTL DEF Spec, DeadClaimBlocksOneWindow

-------------------------------------------------------------------------------
(* The refinement. *)

\* A commit is the step Issue of the abstract specification.
LEMMA CommitIssues ==
    ASSUME IInv, NEW w \in Workers, Alive(w), Issues(w), eligible' = eligible
    PROVE  Ledger!Issue
<1> DEFINE q == request[w]
<1>1. q \in Requests /\ RequestInv(q) /\ At(w, "commit") /\ q.pc = "commit"
  BY RequestTyped DEF IInv, Issues, At
<1>2. q.account \in eligible /\ q.content \in Contents
  BY <1>1 DEF Issues, RequestInv
<1>3. q.issued_at \in 0 .. MaxTime
  BY <1>1, IssuanceAssumption DEF RequestInv, Requests, IInv, TypeInv
<1>4. q.serial \in (1 .. MaxSerial) \ {x.serial : x \in certificates}
  BY <1>1 DEF IInv, SerialInv, SerialNeverReused
<1>5. \A x \in certificates : x.content = q.content =>
         x.issued_at + (Window - MaxLifetime) <= q.issued_at
  <2> SUFFICES ASSUME NEW x \in certificates, x.content = q.content
               PROVE  x.issued_at + (Window - MaxLifetime) <= q.issued_at
    OBVIOUS
  <2>1. Holds(w)
    BY <1>1, HoldsPcs DEF HoldPcs
  <2>2. x.issued_at + Window <= q.issued_at + MaxLifetime
    BY <2>1 DEF IInv, HoldersAreLate
  <2>3. x.issued_at \in Nat /\ q.issued_at \in Nat
    BY <1>1 DEF IInv, TypeInv, Certificates, Requests
  <2>. QED BY <2>2, <2>3, IssuanceAssumption
<1>6. certificates' = certificates \cup
         {[serial |-> q.serial, account |-> q.account, content |-> q.content,
           issued_at |-> q.issued_at]}
  BY DEF Issues, IssuedBy
<1> HIDE DEF q
<1>. QED BY <1>2, <1>3, <1>4, <1>5, <1>6 DEF Ledger!Issue, Ledger!Apart

\* Every step of the requests is one of the abstract specification, or none:
\* issue_certificate is atomic for who reads the certificates table.
THEOREM Refinement == Spec => ImplementsCertificateLedger
<1>1. Init => Ledger!Init
  BY DEF Init, Ledger!Init
<1>2. ASSUME IInv, [Next]_vars
      PROVE  [Ledger!Next]_(Ledger!vars)
  <2>1. CASE Tick \/ UNCHANGED vars
    BY <2>1 DEF Tick, tables, vars, Ledger!vars
  <2>2. CASE \E a \in Accounts : ChangeEligible(a)
    BY <1>2, <2>2 DEF ChangeEligible, Ledger!Next, Ledger!ChangeEligible, IInv, TypeInv
  <2>3. CASE \E w \in Workers : Step(w)
    <3>1. PICK w \in Workers : Step(w)
      BY <2>3
    <3>2. eligible' = eligible
      BY <3>1, TableStep
    <3>3. CASE certificates' = certificates
      BY <3>2, <3>3 DEF Ledger!vars
    <3>4. CASE Alive(w) /\ Issues(w)
      BY <1>2, <3>2, <3>4, CommitIssues DEF Ledger!Next
    <3>. QED BY <3>1, <3>3, <3>4, TableStep DEF ExpireClaims, Inserts, AbandonClaim
  <2>. QED BY <1>2, <2>1, <2>2, <2>3, NextCases
<1>. QED BY <1>1, <1>2, Invariance, PTL DEF Spec, Ledger!Spec, ImplementsCertificateLedger

-------------------------------------------------------------------------------
(* The rate limit. *)

\* A row is deleted when it counts for no request that is alive.
CountedRowsAreKept ==
    \A i \in DOMAIN recorded \ attempts : recorded[i].created_at + Retention <= clock

AttemptInv ==
    /\ recorded \in Seq(Attempts)
    /\ attempts \subseteq DOMAIN recorded
    /\ CountedRowsAreKept
    /\ RateLimitHolds

\* The attempts that count at a moment.
During(t) == {i \in DOMAIN recorded : /\ recorded[i].created_at <= t
                                       /\ t < recorded[i].created_at + RateWindow}

LEMMA AttemptCases ==
    ASSUME NEW w \in Workers, Step(w)
    PROVE  \/ UNCHANGED <<recorded, attempts>>
           \/ Alive(w) /\ PurgeAttempts(w)
           \/ Alive(w) /\ RecordAttempt(w) /\ WithinLimits(request[w])
BY DEF Step, Act, End, StartIssue, ReadDeveloper, ExpireClaims, FindClaim, InsertClaim,
       FindContent, RecordAttempt, FindSigner, ReserveSerial, CommitCertificate,
       AbandonClaim, tables

LEMMA RecordedTyped ==
    ASSUME recorded \in Seq(Attempts)
    PROVE  /\ Len(recorded) \in Nat
           /\ DOMAIN recorded = 1 .. Len(recorded)
           /\ IsFiniteSet(DOMAIN recorded)
           /\ \A i \in DOMAIN recorded : /\ recorded[i] \in Attempts
                                         /\ recorded[i].created_at \in Nat
<1>1. Len(recorded) \in Nat /\ DOMAIN recorded = 1 .. Len(recorded)
  OBVIOUS
<1>2. IsFiniteSet(1 .. Len(recorded))
  BY <1>1, FS_Interval
<1>3. \A i \in DOMAIN recorded : recorded[i] \in Attempts
  BY <1>1
<1>4. \A x \in Attempts : x.created_at \in Nat
  BY DEF Attempts
<1>. QED BY <1>1, <1>2, <1>3, <1>4

LEMMA SubsetCount ==
    ASSUME NEW S, IsFiniteSet(S), NEW T \in SUBSET S
    PROVE  /\ IsFiniteSet(T)
           /\ Cardinality(T) \in Nat
           /\ Cardinality(S) \in Nat
           /\ Cardinality(T) <= Cardinality(S)
BY FS_Subset, FS_CardinalityType

\* One more than fewer than the limit.
LEMMA OneMore ==
    ASSUME NEW S, IsFiniteSet(S), NEW x, NEW T \in SUBSET (S \cup {x}),
           NEW limit \in Nat, Below(S, limit)
    PROVE  Cardinality(T) <= limit
<1>1. /\ IsFiniteSet(S \cup {x})
      /\ Cardinality(S \cup {x}) = IF x \in S THEN Cardinality(S) ELSE Cardinality(S) + 1
  BY FS_AddElement
<1>2. Cardinality(T) <= Cardinality(S \cup {x}) /\ Cardinality(T) \in Nat
  BY <1>1, SubsetCount
<1>3. Cardinality(S) \in Nat
  BY FS_CardinalityType
<1>. QED BY <1>1, <1>2, <1>3 DEF Below

\* A row that counts for a live request is still there.
LEMMA LiveCount ==
    ASSUME IInv, AttemptInv, NEW w \in Workers, Alive(w), request[w].pc # "idle",
           NEW t \in Nat, request[w].issued_at <= t
    PROVE  During(t) \subseteq Counted(request[w].issued_at)
<1> SUFFICES ASSUME NEW i \in During(t)
             PROVE  i \in Counted(request[w].issued_at)
  OBVIOUS
<1>1. /\ recorded[i].created_at \in Nat /\ i \in DOMAIN recorded
      /\ t < recorded[i].created_at + RateWindow
  BY RecordedTyped DEF AttemptInv, During
<1>2. request[w].issued_at \in Nat /\ clock \in Nat
  BY RequestTyped DEF IInv, Requests, TypeInv
<1>3. clock <= request[w].issued_at + MaxLifetime
  BY DEF Alive, At
<1>4. {RateWindow, Retention, MaxLifetime} \subseteq Nat
      /\ Retention >= RateWindow + MaxLifetime
  BY IssuanceAssumption
<1>5. recorded[i].created_at + RateWindow > request[w].issued_at
  BY <1>1, <1>2, <1>4
<1>6. i \in attempts
  <2> SUFFICES ASSUME i \notin attempts
               PROVE  FALSE
    OBVIOUS
  <2>1. recorded[i].created_at + Retention <= clock
    BY <1>1 DEF AttemptInv, CountedRowsAreKept
  <2>. QED BY <1>1, <1>2, <1>3, <1>4, <1>5, <2>1
<1>. QED BY <1>5, <1>6 DEF Counted

\* The statement that counts and inserts.
LEMMA RecordStep ==
    ASSUME IInv, AttemptInv, NEW w \in Workers, Alive(w), RecordAttempt(w),
           WithinLimits(request[w])
    PROVE  AttemptInv'
<1> DEFINE r == request[w]
           n == Len(recorded) + 1
           row == [account |-> r.account, subject_key |-> SubjectKeyOf[r.content],
                   created_at |-> r.issued_at]
<1>1. /\ recorded' = Append(recorded, row)
      /\ attempts' = attempts \cup {n}
      /\ clock' = clock
      /\ r.pc = "attempt"
  BY DEF RecordAttempt, At
<1>2. r \in Requests /\ RequestInv(r) /\ r.issued_at \in Nat /\ clock \in Nat
  BY RequestTyped DEF IInv, Requests, TypeInv
<1>3. r.account \in Accounts /\ r.content \in Contents
  BY <1>1, <1>2 DEF RequestInv
<1>4. row \in Attempts
  BY <1>2, <1>3 DEF Attempts
<1>5. recorded \in Seq(Attempts) /\ attempts \subseteq DOMAIN recorded
  BY DEF AttemptInv
<1>6. /\ Len(recorded) \in Nat /\ DOMAIN recorded = 1 .. Len(recorded)
      /\ IsFiniteSet(DOMAIN recorded)
      /\ \A i \in DOMAIN recorded : recorded[i].created_at \in Nat
  BY <1>5, RecordedTyped
<1>7. row.account = r.account /\ row.subject_key = SubjectKeyOf[r.content]
      /\ row.created_at = r.issued_at
  OBVIOUS
<1>. HIDE DEF row
<1>8. /\ recorded' \in Seq(Attempts)
      /\ DOMAIN recorded' = DOMAIN recorded \cup {n}
      /\ recorded'[n] = row
      /\ \A i \in DOMAIN recorded : recorded'[i] = recorded[i]
      /\ n \notin DOMAIN recorded
  BY <1>1, <1>4, <1>5, <1>6
<1>. HIDE DEF n
<1>9. CountedRowsAreKept'
  BY <1>1, <1>8 DEF AttemptInv, CountedRowsAreKept
<1>10. {AccountLimit, DeveloperLimit, SubjectKeyLimit, RateWindow} \subseteq Nat
  BY IssuanceAssumption
<1>11. ASSUME NEW t \in 0 .. MaxTime
       PROVE  /\ Cardinality(During(t)') <= DeveloperLimit
              /\ \A a \in Accounts :
                    Cardinality(ByAccount(During(t), a)') <= AccountLimit
              /\ \A c \in Contents :
                    Cardinality(BySubjectKey(During(t), SubjectKeyOf[c])') <= SubjectKeyLimit
  <2>0. t \in Nat
    BY <1>11, IssuanceAssumption
  <2>1. /\ Cardinality(During(t)) <= DeveloperLimit
        /\ \A a \in Accounts : Cardinality(ByAccount(During(t), a)) <= AccountLimit
        /\ \A c \in Contents :
              Cardinality(BySubjectKey(During(t), SubjectKeyOf[c])) <= SubjectKeyLimit
    BY <1>11 DEF AttemptInv, RateLimitHolds, During
  <2>2. CASE r.issued_at <= t /\ t < r.issued_at + RateWindow
    <3> DEFINE S == Counted(r.issued_at)
    <3>1. During(t) \subseteq S
      BY <1>1, <2>0, <2>2, LiveCount
    <3>2. S \subseteq DOMAIN recorded
      BY <1>5 DEF Counted
    <3>3. /\ IsFiniteSet(S)
          /\ \A a \in Accounts : IsFiniteSet(ByAccount(S, a))
          /\ \A k : IsFiniteSet(BySubjectKey(S, k))
      BY <1>6, <3>2, FS_Subset DEF ByAccount, BySubjectKey
    <3>4. /\ Below(S, DeveloperLimit)
          /\ Below(ByAccount(S, r.account), AccountLimit)
          /\ Below(BySubjectKey(S, SubjectKeyOf[r.content]), SubjectKeyLimit)
      BY DEF WithinLimits
    <3>. HIDE DEF S
    <3>5. During(t)' \subseteq During(t) \cup {n}
      BY <1>8 DEF During
    <3>6. Cardinality(During(t)') <= DeveloperLimit
      BY <1>10, <3>1, <3>3, <3>4, <3>5, OneMore
    <3>7. ASSUME NEW a \in Accounts
          PROVE  Cardinality(ByAccount(During(t), a)') <= AccountLimit
      <4>1. CASE a = r.account
        <5>1. ByAccount(During(t), a)' \subseteq ByAccount(S, a) \cup {n}
          BY <1>8, <3>1, <3>2, <3>5 DEF ByAccount
        <5>. QED BY <1>10, <3>3, <3>4, <4>1, <5>1, OneMore
      <4>2. CASE a # r.account
        <5>1. ByAccount(During(t), a)' = ByAccount(During(t), a)
          BY <1>7, <1>8, <4>2 DEF ByAccount, During
        <5>. QED BY <2>1, <5>1
      <4>. QED BY <4>1, <4>2
    <3>8. ASSUME NEW c \in Contents
          PROVE  Cardinality(BySubjectKey(During(t), SubjectKeyOf[c])') <= SubjectKeyLimit
      <4>1. CASE SubjectKeyOf[c] = SubjectKeyOf[r.content]
        <5>1. BySubjectKey(During(t), SubjectKeyOf[c])'
                 \subseteq BySubjectKey(S, SubjectKeyOf[c]) \cup {n}
          BY <1>8, <3>1, <3>2, <3>5 DEF BySubjectKey
        <5>. QED BY <1>10, <3>3, <3>4, <4>1, <5>1, OneMore
      <4>2. CASE SubjectKeyOf[c] # SubjectKeyOf[r.content]
        <5>1. BySubjectKey(During(t), SubjectKeyOf[c])'
                 = BySubjectKey(During(t), SubjectKeyOf[c])
          BY <1>7, <1>8, <4>2 DEF BySubjectKey, During
        <5>. QED BY <2>1, <5>1
      <4>. QED BY <4>1, <4>2
    <3>. QED BY <3>6, <3>7, <3>8
  <2>3. CASE ~ (r.issued_at <= t /\ t < r.issued_at + RateWindow)
    <3>1. During(t)' = During(t)
      BY <1>7, <1>8, <2>3 DEF During
    <3>2. During(t) \subseteq DOMAIN recorded
      BY DEF During
    <3>3. /\ \A a \in Accounts : ByAccount(During(t), a)' = ByAccount(During(t), a)
          /\ \A c \in Contents : BySubjectKey(During(t), SubjectKeyOf[c])'
                                   = BySubjectKey(During(t), SubjectKeyOf[c])
      BY <1>8, <3>1, <3>2 DEF ByAccount, BySubjectKey
    <3>. QED BY <2>1, <3>1, <3>3
  <2>. QED BY <2>2, <2>3
<1>12. RateLimitHolds'
  BY <1>11 DEF RateLimitHolds, During
<1>. QED BY <1>1, <1>5, <1>8, <1>9, <1>12 DEF AttemptInv

LEMMA PurgeStep ==
    ASSUME IInv, AttemptInv, NEW w \in Workers, PurgeAttempts(w)
    PROVE  AttemptInv'
<1>1. /\ attempts' = Kept(request[w].issued_at)
      /\ recorded' = recorded /\ clock' = clock
  BY DEF PurgeAttempts
<1>2. request[w].issued_at \in Nat /\ request[w].issued_at <= clock /\ clock \in Nat
  BY RequestTyped DEF IInv, Requests, RequestInv, TypeInv
<1>3. \A i \in DOMAIN recorded : recorded[i].created_at \in Nat
  BY RecordedTyped DEF AttemptInv
<1>4. CountedRowsAreKept'
  <2> SUFFICES ASSUME NEW i \in DOMAIN recorded, i \notin attempts'
               PROVE  recorded[i].created_at + Retention <= clock
    BY <1>1 DEF CountedRowsAreKept
  <2>1. CASE i \notin attempts
    BY <2>1 DEF AttemptInv, CountedRowsAreKept
  <2>2. CASE i \in attempts
    <3>1. ~ recorded[i].created_at + Retention > request[w].issued_at
      BY <1>1, <2>2 DEF Kept
    <3>. QED BY <1>2, <1>3, <3>1, IssuanceAssumption
  <2>. QED BY <2>1, <2>2
<1>5. RateLimitHolds'
  BY <1>1 DEF AttemptInv, RateLimitHolds, ByAccount, BySubjectKey
<1>. QED BY <1>1, <1>4, <1>5 DEF AttemptInv, Kept

\* Time lets no row count longer.
LEMMA SameAttempts ==
    ASSUME IInv, AttemptInv, UNCHANGED <<recorded, attempts>>,
           clock' \in Nat, clock <= clock'
    PROVE  AttemptInv'
<1>1. recorded' = recorded /\ attempts' = attempts
  OBVIOUS
<1>2. clock \in Nat /\ Retention \in Nat
  BY IssuanceAssumption DEF IInv, TypeInv
<1>3. \A i \in DOMAIN recorded : recorded[i].created_at \in Nat
  BY RecordedTyped DEF AttemptInv
<1>4. CountedRowsAreKept'
  BY <1>1, <1>2, <1>3 DEF AttemptInv, CountedRowsAreKept
<1>5. RateLimitHolds'
  BY <1>1 DEF AttemptInv, RateLimitHolds, ByAccount, BySubjectKey
<1>. QED BY <1>1, <1>4, <1>5 DEF AttemptInv

\* Attempts are counted and kept as the limits need them.
THEOREM AttemptInvariance == Spec => []AttemptInv
<1>1. ASSUME Init
      PROVE  AttemptInv
  <2>1. recorded = <<>> /\ attempts = {} /\ DOMAIN recorded = {}
    BY <1>1 DEF Init
  <2>2. \A t : During(t) = {}
    BY <2>1 DEF During
  <2>3. RateLimitHolds
    <3>1. \A a : ByAccount({}, a) = {} /\ BySubjectKey({}, a) = {}
      BY DEF ByAccount, BySubjectKey
    <3>2. \A t \in 0 .. MaxTime :
             /\ Cardinality(During(t)) <= DeveloperLimit
             /\ \A a \in Accounts : Cardinality(ByAccount(During(t), a)) <= AccountLimit
             /\ \A c \in Contents :
                   Cardinality(BySubjectKey(During(t), SubjectKeyOf[c])) <= SubjectKeyLimit
      BY <2>2, <3>1, FS_EmptySet, IssuanceAssumption
    <3>. QED BY <3>2 DEF RateLimitHolds, During
  <2>. QED BY <2>1, <2>3 DEF AttemptInv, CountedRowsAreKept
<1>2. ASSUME IInv, AttemptInv, [Next]_vars
      PROVE  AttemptInv'
  <2>0. clock \in Nat
    BY <1>2, IssuanceAssumption DEF IInv, TypeInv
  <2>1. CASE Tick
    BY <1>2, <2>0, <2>1, SameAttempts DEF Tick, tables
  <2>2. CASE \E a \in Accounts : ChangeEligible(a)
    BY <1>2, <2>0, <2>2, SameAttempts DEF ChangeEligible
  <2>3. CASE \E w \in Workers : Step(w)
    <3>1. PICK w \in Workers : Step(w)
      BY <2>3
    <3>2. clock' = clock
      BY <3>1, TableStep
    <3>. QED BY <1>2, <2>0, <3>1, <3>2, AttemptCases, SameAttempts, PurgeStep, RecordStep
  <2>4. CASE UNCHANGED vars
    BY <1>2, <2>0, <2>4, SameAttempts DEF vars
  <2>. QED BY <1>2, <2>1, <2>2, <2>3, <2>4, NextCases
<1>. QED BY <1>1, <1>2, Invariance, PTL DEF Spec

\* In no period of RateWindow seconds more attempts are recorded than the limits
\* allow, whatever is deleted meanwhile (record_certificate_issue_attempt).
THEOREM RateLimits == Spec => []RateLimitHolds
<1>1. AttemptInv => RateLimitHolds
  BY DEF AttemptInv
<1>. QED BY <1>1, AttemptInvariance, PTL

\* Every variable keeps its type, and the two keys of the claims table hold.
THEOREM TypeCorrectness == Spec => []TypeOK
<1>1. IInv /\ AttemptInv => TypeOK
  BY IssuanceAssumption DEF IInv, TypeInv, AttemptInv, TypeOK
<1>. QED BY <1>1, Invariance, AttemptInvariance, PTL
===============================================================================
