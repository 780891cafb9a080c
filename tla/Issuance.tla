------------------------------- MODULE Issuance -------------------------------
(***************************************************************************)
(* Issuing a certificate: one developer, its members' concurrent and       *)
(* repeated POST requests.                                                 *)
(*                                                                         *)
(* A request claims its content in certificate_issue_idempotency, records  *)
(* an attempt against the rate limit, asks for an authorised signer,       *)
(* reserves a serial number, signs, and commits everything in one batch    *)
(* that checks developer and membership again.  Every await is a step of   *)
(* its own; a request may die at any of them and leave its claim pending.  *)
(*                                                                         *)
(* The answer of active_certificate_signer (module TrustRegistry) and the  *)
(* remaining validity of the issuer are either good or not.                *)
(***************************************************************************)
EXTENDS Naturals, Sequences, FiniteSets

CONSTANTS
    Accounts,         \* accounts that may be members of the developer
    Keys,             \* values of X-Idempotency-Key
    Contents,         \* certificate_request_hash of the possible contents
    SubjectKeyOf,     \* the subject key a content names
    Workers,
    Window,           \* seconds a claim lives (300)
    RateWindow,       \* seconds an attempt counts (3600)
    Retention,        \* seconds an attempt is kept (86400)
    AccountLimit,     \* 20
    DeveloperLimit,   \* 20
    SubjectKeyLimit,  \* 10
    MaxLifetime,      \* bound on the time a request takes
    MaxSerial,        \* last serial number
    MaxTime,          \* bound on the clock
    None              \* no account, key or content

ASSUME IssuanceAssumption ==
    /\ {Window, RateWindow, Retention, MaxLifetime, MaxSerial, MaxTime} \subseteq Nat
    /\ {AccountLimit, DeveloperLimit, SubjectKeyLimit} \subseteq Nat
    \* An attempt is kept until no request in flight counts it any more, and
    \* a claim outlives the request that made it.
    /\ Retention >= RateWindow + MaxLifetime
    /\ MaxLifetime < Window

VARIABLES
    eligible,    \* accounts with an active issuing membership of the
                 \* developer, while it is active and verified
    claims,      \* rows of certificate_issue_idempotency
    recorded,    \* every attempt ever inserted, in order
    attempts,    \* the rows left in certificate_issuance_attempts: a row's id
                 \* is its place in recorded
    nextSerial,  \* certificate_serial_sequence.next_serial
    certificates,
    request,
    clock

vars == <<eligible, claims, recorded, attempts, nextSerial, certificates,
          request, clock>>

Certificates == [serial: Nat, account: Accounts, content: Contents, issued_at: Nat]

\* A pending row has no certificate; a complete one has exactly one.
Claims == [account: Accounts, key: Keys, content: Contents,
           certificate: SUBSET Certificates, updated_at: Nat]

\* The request's hash, which nothing reads, is left out.
Attempts == [account: Accounts, subject_key: {SubjectKeyOf[c] : c \in Contents},
             created_at: Nat]

\* serial is 0 until one is reserved; answer is the certificate it returns.
Requests == [pc: {"idle", "read_developer", "expire", "find", "insert",
                  "find_content", "purge", "attempt", "signer", "reserve", "commit",
                  "abandon", "existing", "pending"},
             account: Accounts \cup {None}, key: Keys \cup {None},
             content: Contents \cup {None},
             issued_at: Nat, serial: Nat, answer: SUBSET Certificates]

IdleRequest == [pc |-> "idle", account |-> None, key |-> None, content |-> None,
                issued_at |-> 0, serial |-> 0, answer |-> {}]

At(w, pc) == request[w].pc = pc
Goto(w, pc) == request' = [request EXCEPT ![w].pc = pc]
Finish(w) == request' = [request EXCEPT ![w] = IdleRequest]

tables == <<eligible, claims, recorded, attempts, nextSerial, certificates>>

-------------------------------------------------------------------------------
(* Claims. *)

\* Mutated form: a claim lives one second longer.
Expired_Late(row, now) == row.updated_at + Window < now

Expired(row, now) == row.updated_at + Window <= now

\* Mutated form: no UNIQUE(developer_id, request_hash).
Collides_KeyOnly(row, r) == row.account = r.account /\ row.key = r.key

\* The two unique keys of the table.
Collides(row, r) ==
    \/ row.account = r.account /\ row.key = r.key
    \/ row.content = r.content

\* Mutated form: a key answers for whatever content it is sent with.
Answers_ByKey(row, r) == row.account = r.account /\ row.key = r.key

\* The row of a key answers only a request for the same content.
Answers(row, r) == row.content = r.content

\* The WHERE clause of abandon_certificate_issue and of the completion.
OwnClaim(row, r) ==
    /\ row.account = r.account
    /\ row.key = r.key
    /\ row.content = r.content
    /\ row.certificate = {}

PendingClaim(r) ==
    [account |-> r.account, key |-> r.key, content |-> r.content,
     certificate |-> {}, updated_at |-> r.issued_at]

-------------------------------------------------------------------------------
(* The rate limit. *)

Below(counted, limit) == Cardinality(counted) < limit

ByAccount(ids, account) == {i \in ids : recorded[i].account = account}

BySubjectKey(ids, key) == {i \in ids : recorded[i].subject_key = key}

\* The rows after now - RateWindow, those after now included.
Counted(now) == {i \in attempts : recorded[i].created_at + RateWindow > now}

WithinLimits(r) ==
    LET counted == Counted(r.issued_at)
    IN  /\ Below(ByAccount(counted, r.account), AccountLimit)
        /\ Below(counted, DeveloperLimit)
        /\ Below(BySubjectKey(counted, SubjectKeyOf[r.content]), SubjectKeyLimit)

\* Mutated form: what does not count for this request is deleted.
Kept_Counted(now) == Counted(now)

Kept(now) == {i \in attempts : recorded[i].created_at + Retention > now}

-------------------------------------------------------------------------------
Init ==
    /\ eligible = Accounts
    /\ claims = {}
    /\ recorded = <<>>
    /\ attempts = {}
    /\ nextSerial = 1
    /\ certificates = {}
    /\ request = [w \in Workers |-> IdleRequest]
    /\ clock = 0

Tick ==
    /\ clock < MaxTime
    /\ clock' = clock + 1
    /\ UNCHANGED <<tables, request>>

\* A membership or the developer changes (module Membership).
ChangeEligible(a) ==
    /\ eligible' = IF a \in eligible THEN eligible \ {a} ELSE eligible \cup {a}
    /\ UNCHANGED <<claims, recorded, attempts, nextSerial, certificates, request,
                   clock>>

\* issue_certificate: the membership is read, the request is found valid, and
\* issued_at is now.
StartIssue(w, a, k, c) ==
    /\ At(w, "idle")
    /\ a \in eligible
    /\ request' = [request EXCEPT ![w] =
          [pc |-> "read_developer", account |-> a, key |-> k, content |-> c,
           issued_at |-> clock, serial |-> 0, answer |-> {}]]
    /\ UNCHANGED <<tables, clock>>

ReadDeveloper(w) ==
    /\ At(w, "read_developer")
    /\ IF request[w].account \in eligible THEN Goto(w, "expire")
       ELSE Finish(w)
    /\ UNCHANGED <<tables, clock>>

-------------------------------------------------------------------------------
(* claim_certificate_issue, one step per statement. *)

ExpireClaims(w) ==
    /\ At(w, "expire")
    /\ claims' = {row \in claims : ~ Expired(row, request[w].issued_at)}
    /\ Goto(w, "find")
    /\ UNCHANGED <<eligible, recorded, attempts, nextSerial, certificates, clock>>

\* A complete row answers with its certificate, a pending one with 409.
AnswerFrom(w, row) ==
    request' = [request EXCEPT
        ![w].pc = IF row.certificate # {} THEN "existing" ELSE "pending",
        ![w].answer = row.certificate]

\* The same key with another content ends in 409 IDEMPOTENCY_KEY_CONFLICT.
FindClaim(w) ==
    LET r == request[w]
        Found == {row \in claims : row.account = r.account /\ row.key = r.key}
    IN  /\ At(w, "find")
        /\ \/ Found = {} /\ Goto(w, "insert")
           \/ \E row \in Found :
                 IF Answers(row, r) THEN AnswerFrom(w, row)
                 ELSE Finish(w)
        /\ UNCHANGED <<tables, clock>>

\* INSERT OR IGNORE
InsertClaim(w) ==
    LET r == request[w]
    IN  /\ At(w, "insert")
        /\ IF \E row \in claims : Collides(row, r)
           THEN claims' = claims /\ Goto(w, "find_content")
           ELSE claims' = claims \cup {PendingClaim(r)} /\ Goto(w, "purge")
        /\ UNCHANGED <<eligible, recorded, attempts, nextSerial, certificates,
                       clock>>

\* The row that stood in the way: 500 if it is gone or has another content.
FindContent(w) ==
    LET Found == {row \in claims : row.content = request[w].content}
    IN  /\ At(w, "find_content")
        /\ \/ Found = {} /\ Finish(w)
           \/ \E row \in Found : AnswerFrom(w, row)
        /\ UNCHANGED <<tables, clock>>

-------------------------------------------------------------------------------
(* From the claim to the certificate. *)

\* record_certificate_issue_attempt: old rows go first.
PurgeAttempts(w) ==
    /\ At(w, "purge")
    /\ attempts' = Kept(request[w].issued_at)
    /\ Goto(w, "attempt")
    /\ UNCHANGED <<eligible, claims, recorded, nextSerial, certificates, clock>>

\* Then one statement counts and inserts.
RecordAttempt(w) ==
    LET r == request[w]
        row == [account |-> r.account, subject_key |-> SubjectKeyOf[r.content],
                created_at |-> r.issued_at]
    IN  /\ At(w, "attempt")
        /\ IF WithinLimits(r)
           THEN /\ recorded' = Append(recorded, row)
                /\ attempts' = attempts \cup {Len(recorded) + 1}
                /\ Goto(w, "signer")
           ELSE UNCHANGED <<recorded, attempts>> /\ Goto(w, "abandon")
        /\ UNCHANGED <<eligible, claims, nextSerial, certificates,
                       clock>>

\* active_certificate_signer, and the validity left to the issuer.
FindSigner(w) ==
    /\ At(w, "signer")
    /\ Goto(w, "reserve") \/ Goto(w, "abandon")
    /\ UNCHANGED <<tables, clock>>

\* Mutated form: the next serial is counted from the certificates issued.
FreshSerial_Counted == Cardinality(certificates) + 1

FreshSerial == nextSerial

\* reserve_certificate_serial, then certificate::issue, which may fail.
ReserveSerial(w) ==
    /\ At(w, "reserve")
    /\ IF nextSerial <= MaxSerial
       THEN /\ nextSerial' = nextSerial + 1
            /\ \/ request' = [request EXCEPT ![w].pc = "commit",
                                             ![w].serial = FreshSerial]
               \/ Goto(w, "abandon")
       ELSE UNCHANGED nextSerial /\ Goto(w, "abandon")
    /\ UNCHANGED <<eligible, claims, recorded, attempts, certificates, clock>>

\* Mutated form: the batch trusts what was read before.
StillEligible_Skipped(r) == TRUE

StillEligible(r) == r.account \in eligible

\* The batch of store::issue_certificate: nothing is written unless developer
\* and membership are still good; the claim, if it is still there, completes.
CommitCertificate(w) ==
    LET r == request[w]
        certificate == [serial |-> r.serial, account |-> r.account,
                        content |-> r.content, issued_at |-> r.issued_at]
        Completed(row) == IF OwnClaim(row, r)
                          THEN [row EXCEPT !.certificate = {certificate},
                                           !.updated_at = r.issued_at]
                          ELSE row
    IN  /\ At(w, "commit")
        /\ IF StillEligible(r)
           THEN /\ certificates' = certificates \cup {certificate}
                /\ claims' = {Completed(row) : row \in claims}
                /\ Finish(w)
           ELSE /\ UNCHANGED <<certificates, claims>>
                /\ Goto(w, "abandon")
        /\ UNCHANGED <<eligible, recorded, attempts, nextSerial, clock>>

\* abandon_certificate_issue, then the error answer.
AbandonClaim(w) ==
    /\ At(w, "abandon")
    /\ claims' = {row \in claims : ~ OwnClaim(row, request[w])}
    /\ Finish(w)
    /\ UNCHANGED <<eligible, recorded, attempts, nextSerial, certificates, clock>>

\* The answer of a repeated request is sent; or the isolate dies, or an
\* awaited call fails, and the claim stays as it is.
End(w) ==
    /\ ~ At(w, "idle")
    /\ Finish(w)
    /\ UNCHANGED <<tables, clock>>

\* A request older than MaxLifetime has been ended by the platform.
Alive(w) == At(w, "idle") \/ clock <= request[w].issued_at + MaxLifetime

Next ==
    \/ Tick
    \/ \E a \in Accounts : ChangeEligible(a)
    \/ \E w \in Workers :
          \/ End(w)
          \/ /\ Alive(w)
             /\ \/ \E a \in Accounts, k \in Keys, c \in Contents :
                      StartIssue(w, a, k, c)
                \/ ReadDeveloper(w)
                \/ ExpireClaims(w)
                \/ FindClaim(w)
                \/ InsertClaim(w)
                \/ FindContent(w)
                \/ PurgeAttempts(w)
                \/ RecordAttempt(w)
                \/ FindSigner(w)
                \/ ReserveSerial(w)
                \/ CommitCertificate(w)
                \/ AbandonClaim(w)

Spec == Init /\ [][Next]_vars

-------------------------------------------------------------------------------
(* Properties. *)

\* Every variable keeps its type, and the two keys of the claims table hold.
TypeOK ==
    /\ eligible \subseteq Accounts
    /\ claims \subseteq Claims
    /\ recorded \in Seq(Attempts)
    /\ attempts \subseteq DOMAIN recorded
    /\ nextSerial \in 1 .. MaxSerial + 1
    /\ certificates \subseteq Certificates
    /\ request \in [Workers -> Requests]
    /\ clock \in Nat
    /\ \A row, other \in claims :
          (row.content = other.content
              \/ (row.account = other.account /\ row.key = other.key))
          => row = other

\* A request that has claimed its content and has not been answered.
Holds(w) ==
    \E pc \in {"purge", "attempt", "signer", "reserve", "commit", "abandon"} :
        At(w, pc)

\* Two requests that are both past their claim and still able to act never
\* work on the same content: expiry, abandonment and completion never hand a
\* claim to a second request while the first is alive.
ClaimIsExclusive ==
    \A v, w \in Workers :
        v # w /\ Holds(v) /\ Holds(w) /\ Alive(v) /\ Alive(w)
            => request[v].content # request[w].content

\* The same content is never issued twice within the window, whatever keys
\* and accounts ask for it, and whichever requests die on the way.  The window
\* is short by the age of the second request: when a third one, with a newer
\* clock, expires the claim, the second takes it with its older issued_at.
NoDuplicateIssue ==
    \A x, y \in certificates :
        x.content = y.content /\ x # y
            => \/ x.issued_at + Window <= y.issued_at + MaxLifetime
               \/ y.issued_at + Window <= x.issued_at + MaxLifetime

\* A request answered with an existing certificate gets one that was issued,
\* for the content it asked for, less than a window before it.
ReplayIsFaithful ==
    \A w \in Workers : At(w, "existing") =>
        \A x \in request[w].answer :
            /\ x \in certificates
            /\ x.content = request[w].content
            /\ request[w].issued_at < x.issued_at + Window

\* A serial number is used once, whatever fails after it was reserved: no two
\* certificates share one, and none has that of a request still to commit.
SerialNeverReused ==
    /\ \A x, y \in certificates : x.serial = y.serial => x = y
    /\ \A w \in Workers : At(w, "commit") =>
          /\ \A x \in certificates : x.serial # request[w].serial
          /\ \A v \in Workers : At(v, "commit") /\ v # w
                => request[v].serial # request[w].serial

\* In no period of RateWindow seconds are more attempts on one subject key (or
\* by one account, or for the developer) recorded than the limit, although
\* requests record attempts with clocks read earlier and out of order, and old
\* rows are deleted by others meanwhile.
RateLimitHolds ==
    \A t \in 0 .. MaxTime :
        LET during == {i \in DOMAIN recorded :
                          /\ recorded[i].created_at <= t
                          /\ t < recorded[i].created_at + RateWindow}
        IN  /\ Cardinality(during) <= DeveloperLimit
            /\ \A a \in Accounts : Cardinality(ByAccount(during, a)) <= AccountLimit
            /\ \A c \in Contents :
                  Cardinality(BySubjectKey(during, SubjectKeyOf[c])) <= SubjectKeyLimit

\* A claim left behind blocks its content for one window at most: a request is
\* told "pending" only by a claim less than a window older than itself, even if
\* a slower request with an older clock took the claim after the expiry.
DeadClaimBlocksOneWindow ==
    [][\A w \in Workers :
          At(w, "pending")' /\ ~ At(w, "pending")
              => \E row \in claims :
                    /\ row.content = request[w].content
                    /\ row.certificate = {}
                    /\ request[w].issued_at < row.updated_at + Window]_vars

Ledger == INSTANCE CertificateLedger WITH
    Period <- Window - MaxLifetime,
    Serials <- 1 .. MaxSerial,
    Times <- 0 .. MaxTime

\* Seen from the certificates table, a request is a single step of
\* CertificateLedger or none: however long ago it checked the developer, the
\* member, the claims and the serial sequence, and whatever it leaves behind
\* when it fails, the certificate is for an account eligible at that moment,
\* with a fresh serial, and not too soon after another for the same content.
ImplementsCertificateLedger == Ledger!Spec

\* docs/policy.md: a request for a content that is being issued, or was issued
\* within the window, gets the existing certificate.  The code answers 409
\* CERTIFICATE_ISSUANCE_PENDING while the claim is pending.
IdenticalRequestGetsCertificate == \A w \in Workers : ~ At(w, "pending")

===============================================================================
