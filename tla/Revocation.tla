------------------------------ MODULE Revocation ------------------------------
(***************************************************************************)
(* Certificate revocation, suspension and the signed cumulative revocation *)
(* snapshot.                                                               *)
(*                                                                         *)
(* Worker requests (admin revoke, rebuild, suspend and restore, and the    *)
(* cron refresh) interleave at every awaited database call and may die at  *)
(* any of them.  A db.batch is one atomic step.  The signed list a request *)
(* publishes is put together from three earlier reads, so what makes it    *)
(* correct is the primary key on snapshot_version, which refuses a list    *)
(* built on a snapshot that is no longer the current one.                  *)
(*                                                                         *)
(* The check of the issuer against the trust registry (module              *)
(* TrustRegistry) and the consumption of the admin token's jti may each    *)
(* succeed or fail.                                                        *)
(***************************************************************************)
EXTENDS Naturals, FiniteSets

CONSTANTS
    Certificates,   \* certificates.id, one serial number each
    Workers,        \* requests that can be in flight at the same time
    NoSnapshot,     \* "no row" of revocation_snapshots
    Ttl,            \* REVOCATION_SNAPSHOT_TTL_SECONDS
    RefreshWindow,  \* REVOCATION_SNAPSHOT_REFRESH_WINDOW_SECONDS
    MaxBytes,       \* MAX_SNAPSHOT_BYTES less what every list holds
    EntryBytes,     \* what one entry adds to the list's JSON
    DigitSteps,     \* versions one digit longer than their predecessor: 10, 100, ...
    MaxTime,        \* bound on the clock
    MaxVersion      \* no rebuild or refresh starts at or above this version

Entries == [certificate: Certificates, revoked_at: Nat]

\* A row of revocation_snapshots; the table's CHECKs ask for a positive
\* version and an expiry after the generation.
Snapshots == [version: Nat, generated_at: Nat, expires_at: Nat,
              entries: SUBSET Entries]

ASSUME RevocationAssumption ==
    /\ Ttl \in Nat \ {0}
    /\ RefreshWindow \in Nat
    /\ MaxBytes \in Nat
    /\ EntryBytes \in Nat
    /\ DigitSteps \subseteq Nat
    /\ IsFiniteSet(Certificates)
    /\ MaxTime \in Nat
    /\ MaxVersion \in Nat
    /\ NoSnapshot \notin Snapshots

VARIABLES
    status,       \* certificates.status
    suspended,    \* certificates with a row in certificate_suspensions
    revocations,  \* rows of revocations, as the entries a list shows
    versions,     \* primary keys of revocation_snapshots
    current,      \* the row with is_current = 1, or NoSnapshot
    auditLog,     \* audit rows about revocations: <<event, certificate>>
    request,      \* the request each worker is running
    clock         \* Date::now()

vars == <<status, suspended, revocations, versions, current, auditLog,
          request, clock>>

AuditRows == {"certificate.revoked", "admin.certificate.revoke"} \X Certificates

\* A request: the await it stands at, its kind, the certificate it names (none
\* for rebuild and cron), the clock it read, and the snapshots it holds.
Requests == [pc: {"idle", "refresh_check", "check_issuer", "read_current",
                  "read_revocations", "consume_jti", "save", "audit",
                  "apply_suspension"},
             kind: {"revoke", "rebuild", "cron", "suspend", "restore"},
             subject: SUBSET Certificates,
             now: Nat,
             base: Snapshots \cup {NoSnapshot},
             draft: Snapshots \cup {NoSnapshot}]

IdleRequest == [pc |-> "idle", kind |-> "rebuild", subject |-> {}, now |-> 0,
                base |-> NoSnapshot, draft |-> NoSnapshot]

Fresh(kind, subject, pc) ==
    [pc |-> pc, kind |-> kind, subject |-> subject, now |-> clock,
     base |-> NoSnapshot, draft |-> NoSnapshot]

At(w, pc) == request[w].pc = pc

Goto(w, pc) == request' = [request EXCEPT ![w].pc = pc]

Finish(w) == request' = [request EXCEPT ![w] = IdleRequest]

-------------------------------------------------------------------------------
(* The certificate's status as every reader sees it. *)

\* Mutated form: the suspension row is looked at before the status column.
EffectiveStatus_SuspensionFirst(c) ==
    IF c \in suspended THEN "suspended" ELSE status[c]

EffectiveStatus(c) ==
    IF status[c] = "revoked" THEN "revoked"
    ELSE IF c \in suspended THEN "suspended" ELSE status[c]

-------------------------------------------------------------------------------
(* Building a list: build_revocation_snapshot. *)

NeedsRefresh(row, time) ==
    row = NoSnapshot \/ row.expires_at <= time + RefreshWindow

\* Mutated form: the first list gets version 0.
NextVersion_FromZero(row) ==
    IF row = NoSnapshot THEN 0 ELSE row.version + 1

NextVersion(row) == IF row = NoSnapshot THEN 1 ELSE row.version + 1

\* Mutated form: the new list's time ignores the previous list's.
GenerationTime_OwnClock(row, time) == time

GenerationTime(row, time) ==
    IF row # NoSnapshot /\ row.generated_at > time THEN row.generated_at
    ELSE time

\* The revocation a revoke request adds to the list.
Additional(r) ==
    IF r.kind = "revoke"
    THEN [certificate: r.subject, revoked_at: {r.now}]
    ELSE {}

Build(r, rows) ==
    LET time == GenerationTime(r.base, r.now)
    IN  [version |-> NextVersion(r.base), generated_at |-> time,
         expires_at |-> time + Ttl, entries |-> rows \cup Additional(r)]

UniqueSerials(list) ==
    \A e, f \in list : e.certificate = f.certificate => e = f

Listed(list, c) == \E e \in list : e.certificate = c

\* validate_revocation_successor
ValidSuccessor(row, next) ==
    row # NoSnapshot =>
        /\ next.version > row.version
        /\ next.generated_at >= row.generated_at
        /\ row.entries \subseteq next.entries

\* The limit is on the bytes of the list's JSON.  Between one list and the next
\* only two parts of it change length: the entries, taken here as equally long,
\* and snapshot_version, which is written in decimal.
VersionDigits(version) == 1 + Cardinality(DigitSteps \cap (1 .. version))

Fits(list) ==
    EntryBytes * Cardinality(list.entries) + VersionDigits(list.version)
        <= MaxBytes

\* The list is signed only if no named certificate is already in the table
\* (REVOCATION_CONFLICT), it is well formed, it succeeds the list read before,
\* and it is within the size limit (REVOCATION_SNAPSHOT_TOO_LARGE).
Accepted(r, rows) ==
    LET next == Build(r, rows)
    IN  /\ \A e \in Additional(r) : ~ Listed(rows, e.certificate)
        /\ UniqueSerials(next.entries)
        /\ ValidSuccessor(r.base, next)
        /\ Fits(next)

-------------------------------------------------------------------------------
\* The service starts with any set of certificates revoked before signed
\* lists existed (migration 0001 precedes 0002) and with no list.
Init ==
    /\ \E legacy \in SUBSET Certificates :
          /\ status = [c \in Certificates |->
                          IF c \in legacy THEN "revoked" ELSE "active"]
          /\ revocations = [certificate: legacy, revoked_at: {0}]
    /\ suspended = {}
    /\ versions = {}
    /\ current = NoSnapshot
    /\ auditLog = {}
    /\ request = [w \in Workers |-> IdleRequest]
    /\ clock = 0

CurrentVersion == IF current = NoSnapshot THEN 0 ELSE current.version

Tick ==
    /\ clock < MaxTime
    /\ clock' = clock + 1
    /\ UNCHANGED <<status, suspended, revocations, versions, current, auditLog,
                   request>>

tables == <<status, suspended, revocations, versions, current, auditLog>>

\* admin_revoke up to its first read: only an active or suspended certificate
\* goes on, any other answers 409.
StartRevoke(w, c) ==
    /\ At(w, "idle")
    /\ EffectiveStatus(c) \in {"active", "suspended"}
    /\ request' = [request EXCEPT
                      ![w] = Fresh("revoke", {c}, "check_issuer")]
    /\ UNCHANGED <<tables, clock>>

\* admin_rebuild_revocation_snapshot
StartRebuild(w) ==
    /\ At(w, "idle")
    /\ CurrentVersion < MaxVersion
    /\ request' = [request EXCEPT ![w] = Fresh("rebuild", {}, "check_issuer")]
    /\ UNCHANGED <<tables, clock>>

\* scheduled: the clock is read, then the current list.
StartCron(w) ==
    /\ At(w, "idle")
    /\ CurrentVersion < MaxVersion
    /\ request' = [request EXCEPT ![w] = Fresh("cron", {}, "refresh_check")]
    /\ UNCHANGED <<tables, clock>>

\* refresh_revocation_snapshot
RefreshCheck(w) ==
    /\ At(w, "refresh_check")
    /\ IF NeedsRefresh(current, request[w].now)
       THEN Goto(w, "check_issuer")
       ELSE Finish(w)
    /\ UNCHANGED <<tables, clock>>

\* The first half of build_revocation_snapshot: the trust snapshot and the
\* issuer registry either authorise the online issuer or end the request.
CheckIssuer(w) ==
    /\ At(w, "check_issuer")
    /\ Goto(w, "read_current") \/ Finish(w)
    /\ UNCHANGED <<tables, clock>>

ReadCurrent(w) ==
    /\ At(w, "read_current")
    /\ request' = [request EXCEPT ![w].base = current,
                                  ![w].pc = "read_revocations"]
    /\ UNCHANGED <<tables, clock>>

\* A cron refresh has no token to consume.
AfterBuild(kind) == IF kind = "cron" THEN "save" ELSE "consume_jti"

ReadRevocations(w) ==
    /\ At(w, "read_revocations")
    /\ IF Accepted(request[w], revocations)
       THEN request' = [request EXCEPT
               ![w].draft = Build(request[w], revocations),
               ![w].pc = AfterBuild(request[w].kind)]
       ELSE Finish(w)
    /\ UNCHANGED <<tables, clock>>

ConsumeJti(w) ==
    /\ At(w, "consume_jti")
    /\ Goto(w, "save") \/ Finish(w)
    /\ UNCHANGED <<tables, clock>>

-------------------------------------------------------------------------------
(* The batches. *)

\* Mutated form: the version is not a key, so no insert conflicts.
VersionTaken_Never(row) == FALSE

\* PRIMARY KEY (snapshot_version): the insert fails and the batch is undone.
VersionTaken(row) == row.version \in versions

\* Mutated form: the failed batch is taken for a success.
AfterConflict_Ignored(w) == Goto(w, "audit")

AfterConflict(w) == Finish(w)

RefuseSave(w) ==
    /\ At(w, "save")
    /\ VersionTaken(request[w].draft)
    /\ AfterConflict(w)
    /\ UNCHANGED <<tables, clock>>

\* The statements both batches share: the row becomes the only current one.
InsertSnapshot(row) ==
    /\ versions' = versions \cup {row.version}
    /\ current' = row

\* save_revocation_snapshot
SaveSnapshot(w) ==
    /\ At(w, "save")
    /\ request[w].kind # "revoke"
    /\ ~ VersionTaken(request[w].draft)
    /\ InsertSnapshot(request[w].draft)
    /\ Finish(w)
    /\ UNCHANGED <<status, suspended, revocations, auditLog, clock>>

\* revoke_certificate: the status, the suspension row, the revocation row
\* (ON CONFLICT DO NOTHING), the snapshot and the audit row in one batch.
RevokeCertificate(w) ==
    LET r == request[w]
    IN  /\ At(w, "save")
        /\ r.kind = "revoke"
        /\ ~ VersionTaken(r.draft)
        /\ status' = [c \in Certificates |->
                         IF c \in r.subject THEN "revoked" ELSE status[c]]
        /\ suspended' = suspended \ r.subject
        /\ revocations' = revocations \cup
              {e \in Additional(r) : ~ Listed(revocations, e.certificate)}
        /\ InsertSnapshot(r.draft)
        /\ auditLog' = auditLog \cup ({"certificate.revoked"} \X r.subject)
        /\ Goto(w, "audit")
        /\ UNCHANGED clock

\* record_admin_audit, after which the request answers 200.
RecordAdminAudit(w) ==
    /\ At(w, "audit")
    /\ auditLog' = auditLog \cup
          ({"admin.certificate.revoke"} \X request[w].subject)
    /\ Finish(w)
    /\ UNCHANGED <<status, suspended, revocations, versions, current, clock>>

\* admin_set_certificate_suspension: the token is consumed, the certificate is
\* read, and a revoked one ends the request.
StartSuspension(w, c, kind) ==
    /\ At(w, "idle")
    /\ EffectiveStatus(c) # "revoked"
    /\ request' = [request EXCEPT ![w] = Fresh(kind, {c}, "apply_suspension")]
    /\ UNCHANGED <<tables, clock>>

\* The batch does not look at the certificate's status again.
ApplySuspension(w) ==
    /\ At(w, "apply_suspension")
    /\ suspended' = IF request[w].kind = "suspend"
                    THEN suspended \cup request[w].subject
                    ELSE suspended \ request[w].subject
    /\ Finish(w)
    /\ UNCHANGED <<status, revocations, versions, current, auditLog, clock>>

\* The isolate is killed, or an awaited call fails.
Crash(w) ==
    /\ ~ At(w, "idle")
    /\ Finish(w)
    /\ UNCHANGED <<tables, clock>>

Next ==
    \/ Tick
    \/ \E w \in Workers :
          \/ \E c \in Certificates : StartRevoke(w, c)
          \/ \E c \in Certificates, kind \in {"suspend", "restore"} :
                StartSuspension(w, c, kind)
          \/ StartRebuild(w)
          \/ StartCron(w)
          \/ RefreshCheck(w)
          \/ CheckIssuer(w)
          \/ ReadCurrent(w)
          \/ ReadRevocations(w)
          \/ ConsumeJti(w)
          \/ RefuseSave(w)
          \/ SaveSnapshot(w)
          \/ RevokeCertificate(w)
          \/ RecordAdminAudit(w)
          \/ ApplySuspension(w)
          \/ Crash(w)

Spec == Init /\ [][Next]_vars

-------------------------------------------------------------------------------
(* Properties. *)

\* Every variable keeps its type, and every stored list satisfies the CHECKs
\* of revocation_snapshots: a positive version, an expiry after generation.
TypeOK ==
    /\ status \in [Certificates -> {"active", "revoked"}]
    /\ suspended \subseteq Certificates
    /\ revocations \subseteq Entries
    /\ versions \subseteq Nat \ {0}
    /\ current \in Snapshots \cup {NoSnapshot}
    /\ auditLog \subseteq AuditRows
    /\ request \in [Workers -> Requests]
    /\ clock \in Nat
    /\ current # NoSnapshot => current.expires_at > current.generated_at

\* Once a list is published, the current signed list holds exactly the rows of
\* the revocations table, and these are exactly the revoked certificates, each
\* once: no interleaving of revocations, rebuilds and refreshes publishes a
\* list that misses a committed revocation.
ListIsComplete ==
    /\ current # NoSnapshot => current.entries = revocations
    /\ \A c \in Certificates :
          (status[c] = "revoked") <=> Listed(revocations, c)
    /\ UniqueSerials(revocations)

\* A certificate a request reported as revoked (its admin audit row is
\* written just before the 200) is on the current list and revoked.
ReportedRevocationIsListed ==
    \A row \in auditLog :
        /\ current # NoSnapshot
        /\ Listed(current.entries, row[2])
        /\ EffectiveStatus(row[2]) = "revoked"

\* A list too large to publish although it only renews the current one, whose
\* successor's version has one more digit, or although it is the first.
Outgrown(next) ==
    /\ ~ Fits(next)
    /\ current # NoSnapshot =>
          next.version = current.version + 1 /\ next.version \in DigitSteps

\* A rebuild or a refresh that got past the issuer check is turned down by the
\* list's own validation, however old its reads are, for one reason only: the
\* list was full to the last byte and its version gains a digit, or no list
\* ever held the revocations the service started with.
RenewalIsAccepted ==
    \A w \in Workers :
        At(w, "read_revocations") /\ request[w].kind # "revoke"
            => \/ Accepted(request[w], revocations)
               \/ Outgrown(Build(request[w], revocations))

\* Revocation is final: no step removes or changes a revocation row, and no
\* suspension or restore, whenever it lands, changes how the certificate is
\* seen.
RevocationIsFinal ==
    [][ /\ revocations \subseteq revocations'
        /\ \A c \in Certificates :
              EffectiveStatus(c) = "revoked" => EffectiveStatus(c)' = "revoked"
      ]_vars

\* What downloaders are promised: every published list is an acceptable
\* successor of the one before (module RevocationList).
List == INSTANCE RevocationList WITH
    version <- CurrentVersion,
    generatedAt <- IF current = NoSnapshot THEN 0 ELSE current.generated_at,
    entries <- IF current = NoSnapshot THEN {} ELSE current.entries

\* The published lists behave as RevocationList says.
ImplementsRevocationList == List!Spec

===============================================================================
