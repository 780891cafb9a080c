-------------------------- MODULE Revocation_proofs ---------------------------
(***************************************************************************)
(* Proofs about module Revocation, for any number of certificates and of   *)
(* concurrent requests and for every value of the other constants.         *)
(*                                                                         *)
(* The argument: stored versions are exactly 1..CurrentVersion, a request  *)
(* never holds a version above CurrentVersion + 1, and one that holds      *)
(* exactly CurrentVersion + 1 has read the current list and the whole      *)
(* table, because the table changes only in a batch that also publishes.   *)
(* Every other request is refused by the primary key.  A list that was     *)
(* published was within the size limit, and only a longer version makes a  *)
(* list of the same entries longer.                                        *)
(***************************************************************************)
EXTENDS Revocation, FiniteSetTheorems, TLAPS

VersionsAreContiguous ==
    /\ versions = 1 .. CurrentVersion
    /\ current # NoSnapshot => current.version >= 1

\* No list above the size limit was ever published.
CurrentFits == current # NoSnapshot => Fits(current)

AuditedAreListed ==
    \A row \in auditLog :
        current # NoSnapshot /\ Listed(revocations, row[2])

\* What a request knows while it stands at an await.
SubjectInv(r) ==
    /\ r.pc = "audit" =>
          /\ current # NoSnapshot
          /\ \A c \in r.subject : Listed(revocations, c)
    /\ r.pc \in {"refresh_check", "check_issuer", "read_current",
                 "read_revocations", "consume_jti", "save"}
          /\ r.kind # "revoke" => r.subject = {}

BaseInv(r) ==
    r.pc \in {"read_revocations", "consume_jti", "save"} =>
        /\ NextVersion(r.base) <= CurrentVersion + 1
        /\ NextVersion(r.base) = CurrentVersion + 1 => r.base = current
        /\ r.base # NoSnapshot => r.base.entries \subseteq revocations

DraftInv(r) ==
    r.pc \in {"consume_jti", "save"} =>
        /\ r.draft \in Snapshots
        /\ r.draft.version >= 1
        /\ r.draft.version <= CurrentVersion + 1
        /\ r.draft.expires_at > r.draft.generated_at
        /\ r.draft.version = CurrentVersion + 1 =>
              /\ r.draft.entries = revocations \cup Additional(r)
              /\ \A e \in Additional(r) : ~ Listed(revocations, e.certificate)
              /\ UniqueSerials(r.draft.entries)
              /\ Fits(r.draft)
              /\ current # NoSnapshot =>
                    r.draft.generated_at >= current.generated_at

RequestInv(r) == SubjectInv(r) /\ BaseInv(r) /\ DraftInv(r)

IInv ==
    /\ TypeOK
    /\ ListIsComplete
    /\ VersionsAreContiguous
    /\ CurrentFits
    /\ AuditedAreListed
    /\ \A w \in Workers : RequestInv(request[w])

-------------------------------------------------------------------------------
(* Facts about the values a request holds. *)

LEMMA IdleIsARequest ==
    ASSUME NEW kind \in {"revoke", "rebuild", "cron", "suspend", "restore"},
           NEW subject \in SUBSET Certificates, TypeOK,
           NEW pc \in {"idle", "refresh_check", "check_issuer", "read_current",
                       "read_revocations", "consume_jti", "save", "audit",
                       "apply_suspension"}
    PROVE  /\ IdleRequest \in Requests
           /\ Fresh(kind, subject, pc) \in Requests
           /\ Fresh(kind, subject, pc).pc = pc
           /\ Fresh(kind, subject, pc).kind = kind
           /\ Fresh(kind, subject, pc).subject = subject
BY DEF IdleRequest, Fresh, Requests, TypeOK

LEMMA VersionFacts ==
    ASSUME NEW row \in Snapshots \cup {NoSnapshot}, TypeOK
    PROVE  /\ NextVersion(row) \in Nat \ {0}
           /\ CurrentVersion \in Nat
           /\ NextVersion(current) = CurrentVersion + 1
BY RevocationAssumption DEF NextVersion, CurrentVersion, TypeOK, Snapshots

LEMMA BuildFacts ==
    ASSUME NEW r \in Requests, NEW rows \in SUBSET Entries
    PROVE  /\ Additional(r) \subseteq Entries
           /\ Build(r, rows) \in Snapshots
           /\ Build(r, rows).version = NextVersion(r.base)
           /\ Build(r, rows).version >= 1
           /\ Build(r, rows).entries = rows \cup Additional(r)
           /\ Build(r, rows).expires_at > Build(r, rows).generated_at
           /\ r.base # NoSnapshot =>
                 /\ Build(r, rows).version > r.base.version
                 /\ Build(r, rows).generated_at >= r.base.generated_at
<1> DEFINE time == GenerationTime(r.base, r.now)
<1>1. r.base \in Snapshots \cup {NoSnapshot} /\ r.now \in Nat
      /\ r.subject \subseteq Certificates
  BY DEF Requests
<1>2. time \in Nat /\ (r.base # NoSnapshot => time >= r.base.generated_at)
  BY <1>1 DEF GenerationTime, Snapshots
<1>3. NextVersion(r.base) \in Nat \ {0}
      /\ (r.base # NoSnapshot => NextVersion(r.base) > r.base.version)
  BY <1>1 DEF NextVersion, Snapshots
<1>4. Additional(r) \subseteq Entries
  BY <1>1 DEF Additional, Entries
<1>5. time + Ttl \in Nat /\ time + Ttl > time
  BY <1>2, RevocationAssumption
<1>. HIDE DEF time
<1>6. Build(r, rows) = [version |-> NextVersion(r.base), generated_at |-> time,
                        expires_at |-> time + Ttl,
                        entries |-> rows \cup Additional(r)]
  BY DEF Build, time
<1>. QED BY <1>2, <1>3, <1>4, <1>5, <1>6 DEF Snapshots

-------------------------------------------------------------------------------
(* The invariant holds initially and after every step. *)

\* The legacy state, before any signed list, satisfies the invariant.
LEMMA InitIInv == Init => IInv
<1> SUFFICES ASSUME Init PROVE IInv
  OBVIOUS
<1>1. PICK legacy \in SUBSET Certificates :
         /\ status = [c \in Certificates |->
                         IF c \in legacy THEN "revoked" ELSE "active"]
         /\ revocations = [certificate: legacy, revoked_at: {0}]
  BY DEF Init
<1>2. TypeOK
  BY <1>1 DEF Init, TypeOK, Entries, Requests, IdleRequest
<1>3. ListIsComplete
  <2>1. current = NoSnapshot
    BY DEF Init
  <2>2. ASSUME NEW c \in Certificates
        PROVE  (status[c] = "revoked") <=> Listed(revocations, c)
    <3>1. CASE c \in legacy
      <4>1. [certificate |-> c, revoked_at |-> 0] \in revocations
        BY <1>1, <3>1
      <4>2. Listed(revocations, c)
        BY <4>1 DEF Listed
      <4>. QED BY <1>1, <3>1, <4>2
    <3>2. CASE c \notin legacy
      BY <1>1, <3>2 DEF Listed
    <3>. QED BY <3>1, <3>2
  <2>3. UniqueSerials(revocations)
    BY <1>1 DEF UniqueSerials
  <2>. QED BY <2>1, <2>2, <2>3 DEF ListIsComplete
<1>4. VersionsAreContiguous /\ CurrentFits /\ AuditedAreListed
  BY <1>1 DEF Init, VersionsAreContiguous, CurrentFits, AuditedAreListed,
              CurrentVersion
<1>5. \A w \in Workers : RequestInv(request[w])
  BY DEF Init, RequestInv, SubjectInv, BaseInv, DraftInv, IdleRequest
<1>. QED BY <1>2, <1>3, <1>4, <1>5 DEF IInv

\* A step that only moves one request keeps the invariant if the request's new
\* value satisfies what is known of a request at that place.
LEMMA OnlyRequestChanges ==
    ASSUME IInv, NEW w \in Workers, NEW r \in Requests, RequestInv(r),
           request' = [request EXCEPT ![w] = r], UNCHANGED tables,
           clock' \in Nat
    PROVE  IInv'
<1>1. TypeOK'
  BY DEF IInv, TypeOK, tables
<1>2. ListIsComplete' /\ VersionsAreContiguous' /\ CurrentFits'
      /\ AuditedAreListed'
  BY DEF IInv, tables, ListIsComplete, VersionsAreContiguous, CurrentFits,
         AuditedAreListed, CurrentVersion
<1>3. \A v \in Workers : request'[v] = IF v = w THEN r ELSE request[v]
  BY DEF IInv, TypeOK
<1>4. ASSUME NEW q \in Requests, RequestInv(q)
      PROVE  RequestInv(q)'
  BY <1>4 DEF tables, RequestInv, SubjectInv, BaseInv, DraftInv, CurrentVersion,
              Additional
<1>5. \A v \in Workers : request[v] \in Requests /\ RequestInv(request[v])
  BY DEF IInv, TypeOK
<1>6. \A v \in Workers : RequestInv(request[v])'
  <2> SUFFICES ASSUME NEW v \in Workers PROVE RequestInv(request[v])'
    OBVIOUS
  <2>1. CASE v = w
    <3>1. request'[v] = r
      BY <1>3, <2>1
    <3>. QED BY <3>1, <1>4 DEF tables, RequestInv, SubjectInv, BaseInv, DraftInv,
                CurrentVersion, Additional
  <2>2. CASE v # w
    <3>1. request'[v] = request[v]
      BY <1>3, <2>2
    <3>. QED BY <3>1, <1>4, <1>5 DEF tables, RequestInv, SubjectInv, BaseInv,
                DraftInv, CurrentVersion, Additional
  <2>. QED BY <2>1, <2>2
<1>. QED BY <1>1, <1>2, <1>6 DEF IInv

\* Ending a request, by an early return, a refused save or a crash.
LEMMA FinishKeepsIInv ==
    ASSUME IInv, NEW w \in Workers, Finish(w), UNCHANGED <<tables, clock>>
    PROVE  IInv'
<1>1. IdleRequest \in Requests /\ RequestInv(IdleRequest)
  BY DEF IdleRequest, Requests, RequestInv, SubjectInv, BaseInv, DraftInv
<1>2. clock' \in Nat /\ UNCHANGED tables
  BY DEF IInv, TypeOK
<1>. QED BY <1>1, <1>2, OnlyRequestChanges DEF Finish

\* Starting a request.
LEMMA FreshKeepsIInv ==
    ASSUME IInv, NEW w \in Workers,
           NEW kind \in {"revoke", "rebuild", "cron", "suspend", "restore"},
           NEW subject \in SUBSET Certificates,
           NEW pc \in {"refresh_check", "check_issuer", "apply_suspension"},
           kind # "revoke" => subject = {} \/ pc = "apply_suspension",
           request' = [request EXCEPT ![w] = Fresh(kind, subject, pc)],
           UNCHANGED <<tables, clock>>
    PROVE  IInv'
<1>1. Fresh(kind, subject, pc) \in Requests
  BY IdleIsARequest DEF IInv
<1>2. RequestInv(Fresh(kind, subject, pc))
  BY DEF Fresh, RequestInv, SubjectInv, BaseInv, DraftInv
<1>3. clock' \in Nat /\ UNCHANGED tables
  BY DEF IInv, TypeOK
<1>. QED BY <1>1, <1>2, <1>3, OnlyRequestChanges

\* Moving on without a change of what the request holds.
LEMMA GotoKeepsIInv ==
    ASSUME IInv, NEW w \in Workers, NEW pc, Goto(w, pc),
           \/ At(w, "refresh_check") /\ pc = "check_issuer"
           \/ At(w, "check_issuer") /\ pc = "read_current"
           \/ At(w, "consume_jti") /\ pc = "save",
           UNCHANGED <<tables, clock>>
    PROVE  IInv'
<1> DEFINE r == [request[w] EXCEPT !.pc = pc]
<1>1. request[w] \in Requests /\ RequestInv(request[w])
  BY DEF IInv, TypeOK
<1>2. r \in Requests
  BY <1>1 DEF Requests
<1>3. /\ r.pc = pc /\ r.kind = request[w].kind /\ r.now = request[w].now
      /\ r.subject = request[w].subject /\ r.base = request[w].base
      /\ r.draft = request[w].draft
  BY <1>1 DEF Requests
<1>4. request' = [request EXCEPT ![w] = r]
  BY <1>1 DEF Goto
<1>5. clock' \in Nat /\ UNCHANGED tables
  BY DEF IInv, TypeOK
<1>6. Additional(r) = Additional(request[w])
  BY <1>3 DEF Additional
<1>. HIDE DEF r
<1>7. RequestInv(r)
  BY <1>1, <1>3, <1>6
     DEF RequestInv, SubjectInv, BaseInv, DraftInv, At
<1>. QED BY <1>2, <1>4, <1>5, <1>7, OnlyRequestChanges

LEMMA ReadCurrentKeepsIInv ==
    ASSUME IInv, NEW w \in Workers, ReadCurrent(w)
    PROVE  IInv'
<1> DEFINE r == [request[w] EXCEPT !.base = current, !.pc = "read_revocations"]
<1>1. request[w] \in Requests /\ RequestInv(request[w])
      /\ current \in Snapshots \cup {NoSnapshot}
  BY DEF IInv, TypeOK
<1>2. r \in Requests
  BY <1>1 DEF Requests
<1>3. /\ r.pc = "read_revocations" /\ r.base = current
      /\ r.kind = request[w].kind /\ r.subject = request[w].subject
  BY <1>1 DEF Requests
<1>4. request' = [request EXCEPT ![w] = r]
  BY <1>1 DEF ReadCurrent
<1>5. clock' \in Nat /\ UNCHANGED tables
  BY DEF IInv, TypeOK, ReadCurrent
<1>. HIDE DEF r
<1>6. NextVersion(current) = CurrentVersion + 1
  BY <1>1, VersionFacts DEF IInv
<1>7. current # NoSnapshot => current.entries \subseteq revocations
  BY DEF IInv, ListIsComplete
<1>8. CurrentVersion \in Nat
  BY <1>1, VersionFacts DEF IInv
<1>9. RequestInv(r)
  BY <1>1, <1>3, <1>6, <1>7, <1>8
     DEF RequestInv, SubjectInv, BaseInv, DraftInv, At, ReadCurrent
<1>. QED BY <1>2, <1>4, <1>5, <1>9, OnlyRequestChanges

\* The step that makes a list: what it holds is the table, provided the
\* snapshot it builds on is still the current one.
LEMMA ReadRevocationsKeepsIInv ==
    ASSUME IInv, NEW w \in Workers, ReadRevocations(w),
           Accepted(request[w], revocations)
    PROVE  IInv'
<1> DEFINE b == Build(request[w], revocations)
           r == [request[w] EXCEPT !.draft = b,
                                   !.pc = AfterBuild(request[w].kind)]
<1>1. /\ request[w] \in Requests /\ RequestInv(request[w])
      /\ At(w, "read_revocations") /\ revocations \in SUBSET Entries
  BY DEF IInv, TypeOK, ReadRevocations
<1>2. /\ b \in Snapshots
      /\ b.version = NextVersion(request[w].base)
      /\ b.version >= 1
      /\ b.entries = revocations \cup Additional(request[w])
      /\ b.expires_at > b.generated_at
      /\ request[w].base # NoSnapshot =>
            b.generated_at >= request[w].base.generated_at
  BY <1>1, BuildFacts
<1>3. /\ \A e \in Additional(request[w]) : ~ Listed(revocations, e.certificate)
      /\ UniqueSerials(b.entries)
      /\ Fits(b)
  BY DEF Accepted
<1>4. request' = [request EXCEPT ![w] = r]
  BY <1>1 DEF ReadRevocations
<1>5. clock' \in Nat /\ UNCHANGED tables
  BY DEF IInv, TypeOK, ReadRevocations
<1>. HIDE DEF b
<1>6. r \in Requests
  BY <1>1, <1>2 DEF Requests, AfterBuild
<1>7. /\ r.pc \in {"consume_jti", "save"} /\ r.draft = b
      /\ r.kind = request[w].kind /\ r.now = request[w].now
      /\ r.subject = request[w].subject /\ r.base = request[w].base
  BY <1>1 DEF Requests, AfterBuild
<1>8. Additional(r) = Additional(request[w])
  BY <1>7 DEF Additional
<1>. HIDE DEF r
<1>9. SubjectInv(r)
  BY <1>1, <1>7 DEF RequestInv, SubjectInv, At
<1>10. BaseInv(r)
  BY <1>1, <1>7 DEF RequestInv, BaseInv, At
<1>11. DraftInv(r)
  BY <1>1, <1>2, <1>3, <1>7, <1>8 DEF RequestInv, BaseInv, DraftInv, At
<1>. QED BY <1>4, <1>5, <1>6, <1>9, <1>10, <1>11, OnlyRequestChanges
         DEF RequestInv

-------------------------------------------------------------------------------
(* The two batches that publish. *)

\* The key on snapshot_version lets through only the successor of the current
\* list.
LEMMA UntakenIsNext ==
    ASSUME IInv, NEW w \in Workers, At(w, "save"),
           ~ VersionTaken(request[w].draft)
    PROVE  /\ request[w] \in Requests
           /\ request[w].draft \in Snapshots
           /\ request[w].draft.version = CurrentVersion + 1
           /\ CurrentVersion \in Nat
<1>1. request[w] \in Requests /\ RequestInv(request[w])
  BY DEF IInv, TypeOK
<1>2. CurrentVersion \in Nat /\ current \in Snapshots \cup {NoSnapshot}
  BY VersionFacts DEF IInv, TypeOK
<1>3. request[w].draft \in Snapshots
      /\ request[w].draft.version >= 1
      /\ request[w].draft.version <= CurrentVersion + 1
  BY <1>1 DEF RequestInv, DraftInv, At
<1>4. request[w].draft.version \in Nat
  BY <1>3 DEF Snapshots
<1>5. request[w].draft.version \notin 1 .. CurrentVersion
  BY DEF VersionTaken, IInv, VersionsAreContiguous
<1>. QED BY <1>1, <1>2, <1>3, <1>4, <1>5

LEMMA PublicationFacts ==
    ASSUME IInv, NEW row \in Snapshots, row.version = CurrentVersion + 1,
           InsertSnapshot(row)
    PROVE  /\ current' = row /\ current' # NoSnapshot
           /\ CurrentVersion' = CurrentVersion + 1
           /\ VersionsAreContiguous'
           /\ versions' \subseteq Nat \ {0}
<1>1. current' = row /\ current' # NoSnapshot
  BY RevocationAssumption DEF InsertSnapshot
<1>2. CurrentVersion' = CurrentVersion + 1
  BY <1>1 DEF CurrentVersion
<1>3. CurrentVersion \in Nat /\ versions = 1 .. CurrentVersion
  BY VersionFacts DEF IInv, TypeOK, VersionsAreContiguous
<1>4. versions' = 1 .. (CurrentVersion + 1)
  BY <1>3 DEF InsertSnapshot
<1>. QED BY <1>1, <1>2, <1>3, <1>4 DEF VersionsAreContiguous

\* After a publication every other request is behind, or one step behind, the
\* current list, so nothing is claimed of its draft any more.
LEMMA PublicationKeepsOthers ==
    ASSUME IInv, NEW v \in Workers, request'[v] = request[v],
           CurrentVersion' = CurrentVersion + 1, current' # NoSnapshot,
           revocations \subseteq revocations'
    PROVE  RequestInv(request[v])'
<1>1. request[v] \in Requests /\ RequestInv(request[v])
  BY DEF IInv, TypeOK
<1>2. CurrentVersion \in Nat
  BY VersionFacts DEF IInv, TypeOK
<1>3. NextVersion(request[v].base) \in Nat
  BY <1>1, VersionFacts DEF IInv, Requests
<1>4. SubjectInv(request[v])'
  BY <1>1 DEF RequestInv, SubjectInv, Listed
<1>5. BaseInv(request[v])'
  BY <1>1, <1>2, <1>3 DEF RequestInv, BaseInv, NextVersion
<1>6. DraftInv(request[v])'
  <2> SUFFICES ASSUME request[v].pc \in {"consume_jti", "save"}
               PROVE  /\ request[v].draft \in Snapshots
                      /\ request[v].draft.version >= 1
                      /\ request[v].draft.version <= CurrentVersion' + 1
                      /\ request[v].draft.expires_at > request[v].draft.generated_at
                      /\ request[v].draft.version # CurrentVersion' + 1
    BY DEF DraftInv
  <2>1. /\ request[v].draft \in Snapshots /\ request[v].draft.version >= 1
        /\ request[v].draft.version <= CurrentVersion + 1
        /\ request[v].draft.expires_at > request[v].draft.generated_at
    BY <1>1 DEF RequestInv, DraftInv
  <2>2. request[v].draft.version \in Nat
    BY <2>1 DEF Snapshots
  <2>. QED BY <1>2, <2>1, <2>2
<1>. QED BY <1>4, <1>5, <1>6 DEF RequestInv

LEMMA SaveSnapshotKeepsIInv ==
    ASSUME IInv, NEW w \in Workers, SaveSnapshot(w)
    PROVE  IInv'
<1> DEFINE row == request[w].draft
<1>1. /\ request[w] \in Requests /\ row \in Snapshots
      /\ row.version = CurrentVersion + 1
  BY UntakenIsNext DEF SaveSnapshot
<1>2. InsertSnapshot(row)
  BY DEF SaveSnapshot
<1>3. /\ current' = row /\ current' # NoSnapshot
      /\ CurrentVersion' = CurrentVersion + 1
      /\ VersionsAreContiguous' /\ versions' \subseteq Nat \ {0}
  BY <1>1, <1>2, PublicationFacts
<1>4. /\ row.entries = revocations \cup Additional(request[w])
      /\ row.expires_at > row.generated_at
      /\ Fits(row)
  BY <1>1 DEF IInv, RequestInv, DraftInv, SaveSnapshot, At
<1>5. Additional(request[w]) = {}
  BY DEF SaveSnapshot, Additional
<1>6. TypeOK'
  BY <1>1, <1>3, <1>4
     DEF IInv, TypeOK, SaveSnapshot, Finish, IdleRequest, Requests
<1>7. ListIsComplete'
  BY <1>3, <1>4, <1>5 DEF IInv, ListIsComplete, SaveSnapshot, Listed,
     UniqueSerials
<1>8. CurrentFits' /\ AuditedAreListed'
  BY <1>3, <1>4 DEF IInv, CurrentFits, AuditedAreListed, SaveSnapshot
<1>9. ASSUME NEW v \in Workers PROVE RequestInv(request[v])'
  <2>1. CASE v = w
    <3>1. request'[v] = IdleRequest
      BY <2>1 DEF IInv, TypeOK, SaveSnapshot, Finish
    <3>. QED BY <3>1 DEF IdleRequest, RequestInv, SubjectInv, BaseInv, DraftInv
  <2>2. CASE v # w
    <3>1. request'[v] = request[v]
      BY <2>2 DEF IInv, TypeOK, SaveSnapshot, Finish
    <3>. QED BY <3>1, <1>3, PublicationKeepsOthers DEF SaveSnapshot
  <2>. QED BY <2>1, <2>2
<1>. QED BY <1>3, <1>6, <1>7, <1>8, <1>9 DEF IInv

LEMMA RevokeCertificateKeepsIInv ==
    ASSUME IInv, NEW w \in Workers, RevokeCertificate(w)
    PROVE  IInv'
<1> DEFINE r == request[w]
           row == r.draft
<1>1. /\ r \in Requests /\ row \in Snapshots
      /\ row.version = CurrentVersion + 1
  BY UntakenIsNext DEF RevokeCertificate
<1>2. InsertSnapshot(row)
  BY DEF RevokeCertificate
<1>3. /\ current' = row /\ current' # NoSnapshot
      /\ CurrentVersion' = CurrentVersion + 1
      /\ VersionsAreContiguous' /\ versions' \subseteq Nat \ {0}
  BY <1>1, <1>2, PublicationFacts
<1>4. /\ row.entries = revocations \cup Additional(r)
      /\ \A e \in Additional(r) : ~ Listed(revocations, e.certificate)
      /\ UniqueSerials(row.entries)
      /\ Fits(row)
      /\ row.expires_at > row.generated_at
  BY <1>1 DEF IInv, RequestInv, DraftInv, RevokeCertificate, At
<1>5. revocations' = row.entries
  BY <1>4 DEF RevokeCertificate
<1>6. Additional(r) = [certificate: r.subject, revoked_at: {r.now}]
      /\ r.subject \subseteq Certificates /\ r.now \in Nat
  BY <1>1 DEF RevokeCertificate, Additional, Requests
<1>7. \A c \in Certificates :
         Listed(revocations', c) <=> Listed(revocations, c) \/ c \in r.subject
  <2> SUFFICES ASSUME NEW c \in Certificates
               PROVE  Listed(revocations', c)
                         <=> Listed(revocations, c) \/ c \in r.subject
    OBVIOUS
  <2>1. ASSUME c \in r.subject PROVE Listed(revocations', c)
    <3>1. [certificate |-> c, revoked_at |-> r.now] \in revocations'
      BY <1>4, <1>5, <1>6, <2>1
    <3>. QED BY <3>1 DEF Listed
  <2>2. ASSUME Listed(revocations, c) PROVE Listed(revocations', c)
    BY <1>4, <1>5, <2>2 DEF Listed
  <2>3. ASSUME Listed(revocations', c), c \notin r.subject
        PROVE  Listed(revocations, c)
    BY <1>4, <1>5, <1>6, <2>3 DEF Listed
  <2>. QED BY <2>1, <2>2, <2>3
<1>8. TypeOK'
  <2>1. status' \in [Certificates -> {"active", "revoked"}]
        /\ suspended' \subseteq Certificates
    BY DEF IInv, TypeOK, RevokeCertificate
  <2>2. revocations' \subseteq Entries
    BY <1>1, <1>5 DEF Snapshots
  <2>3. auditLog' \subseteq AuditRows
    BY <1>6 DEF IInv, TypeOK, RevokeCertificate, AuditRows
  <2>4. request' \in [Workers -> Requests]
    BY <1>1 DEF IInv, TypeOK, RevokeCertificate, Goto, Requests
  <2>. QED BY <1>1, <1>3, <1>4, <2>1, <2>2, <2>3, <2>4
       DEF IInv, TypeOK, RevokeCertificate
<1>9. ListIsComplete'
  <2>1. \A c \in Certificates :
           (status'[c] = "revoked") <=> Listed(revocations', c)
    BY <1>6, <1>7 DEF IInv, ListIsComplete, TypeOK, RevokeCertificate
  <2>. QED BY <1>3, <1>4, <1>5, <2>1 DEF ListIsComplete, UniqueSerials, Listed
<1>10. CurrentFits'
  BY <1>3, <1>4 DEF CurrentFits
<1>11. AuditedAreListed'
  <2> SUFFICES ASSUME NEW a \in auditLog' PROVE Listed(revocations', a[2])
    BY <1>3 DEF AuditedAreListed, Listed
  <2>1. CASE a \in auditLog
    <3>1. Listed(revocations, a[2]) /\ a[2] \in Certificates
      BY <2>1 DEF IInv, AuditedAreListed, TypeOK, AuditRows
    <3>. QED BY <3>1, <1>7
  <2>2. CASE a \in {"certificate.revoked"} \X r.subject
    BY <1>6, <1>7, <2>2
  <2>. QED BY <2>1, <2>2 DEF RevokeCertificate
<1>12. ASSUME NEW v \in Workers PROVE RequestInv(request[v])'
  <2>1. CASE v = w
    <3>1. /\ request'[v].pc = "audit" /\ request'[v].subject = r.subject
          /\ request'[v].kind = r.kind
      BY <1>1, <2>1 DEF IInv, TypeOK, RevokeCertificate, Goto, Requests
    <3>2. SubjectInv(request[v])'
      BY <1>3, <1>6, <1>7, <3>1 DEF SubjectInv
    <3>. QED BY <3>1, <3>2 DEF RequestInv, BaseInv, DraftInv
  <2>2. CASE v # w
    <3>1. request'[v] = request[v]
      BY <2>2 DEF IInv, TypeOK, RevokeCertificate, Goto
    <3>2. revocations \subseteq revocations'
      BY <1>4, <1>5
    <3>. QED BY <3>1, <3>2, <1>3, PublicationKeepsOthers
  <2>. QED BY <2>1, <2>2
<1>. QED BY <1>3, <1>8, <1>9, <1>10, <1>11, <1>12 DEF IInv

-------------------------------------------------------------------------------
(* The remaining steps. *)

LEMMA RecordAdminAuditKeepsIInv ==
    ASSUME IInv, NEW w \in Workers, RecordAdminAudit(w)
    PROVE  IInv'
<1>1. request[w] \in Requests /\ SubjectInv(request[w])
  BY DEF IInv, TypeOK, RequestInv
<1>2. request[w].subject \subseteq Certificates
  BY <1>1 DEF Requests
<1>3. TypeOK'
  BY <1>1, <1>2 DEF IInv, TypeOK, RecordAdminAudit, AuditRows, Finish,
     IdleRequest, Requests
<1>4. ListIsComplete' /\ VersionsAreContiguous' /\ CurrentFits'
  BY DEF IInv, RecordAdminAudit, ListIsComplete, VersionsAreContiguous,
     CurrentFits, CurrentVersion
<1>5. AuditedAreListed'
  BY <1>1 DEF IInv, AuditedAreListed, RecordAdminAudit, SubjectInv, At
<1>6. ASSUME NEW v \in Workers PROVE RequestInv(request[v])'
  <2>1. CASE v = w
    <3>1. request'[v] = IdleRequest
      BY <2>1 DEF IInv, TypeOK, RecordAdminAudit, Finish
    <3>. QED BY <3>1 DEF IdleRequest, RequestInv, SubjectInv, BaseInv, DraftInv
  <2>2. CASE v # w
    <3>1. request'[v] = request[v] /\ RequestInv(request[v])
      BY <2>2 DEF IInv, TypeOK, RecordAdminAudit, Finish
    <3>. QED BY <3>1 DEF RecordAdminAudit, RequestInv, SubjectInv, BaseInv,
                DraftInv, CurrentVersion
  <2>. QED BY <2>1, <2>2
<1>. QED BY <1>3, <1>4, <1>5, <1>6 DEF IInv

LEMMA ApplySuspensionKeepsIInv ==
    ASSUME IInv, NEW w \in Workers, ApplySuspension(w)
    PROVE  IInv'
<1>1. request[w] \in Requests /\ request[w].subject \subseteq Certificates
  BY DEF IInv, TypeOK, Requests
<1>2. TypeOK'
  BY <1>1 DEF IInv, TypeOK, ApplySuspension, Finish, IdleRequest, Requests
<1>3. /\ ListIsComplete' /\ VersionsAreContiguous' /\ CurrentFits'
      /\ AuditedAreListed'
  BY DEF IInv, ApplySuspension, ListIsComplete, VersionsAreContiguous,
     CurrentFits, AuditedAreListed, CurrentVersion
<1>4. ASSUME NEW v \in Workers PROVE RequestInv(request[v])'
  <2>1. CASE v = w
    <3>1. request'[v] = IdleRequest
      BY <2>1 DEF IInv, TypeOK, ApplySuspension, Finish
    <3>. QED BY <3>1 DEF IdleRequest, RequestInv, SubjectInv, BaseInv, DraftInv
  <2>2. CASE v # w
    <3>1. request'[v] = request[v] /\ RequestInv(request[v])
      BY <2>2 DEF IInv, TypeOK, ApplySuspension, Finish
    <3>. QED BY <3>1 DEF ApplySuspension, RequestInv, SubjectInv, BaseInv,
                DraftInv, CurrentVersion
  <2>. QED BY <2>1, <2>2
<1>. QED BY <1>2, <1>3, <1>4 DEF IInv

\* Time passing, or nothing at all.
LEMMA UnchangedKeepsIInv ==
    ASSUME IInv, UNCHANGED <<tables, request>>, clock' \in Nat
    PROVE  IInv'
<1>1. TypeOK' /\ ListIsComplete' /\ VersionsAreContiguous' /\ CurrentFits'
      /\ AuditedAreListed'
  BY DEF IInv, TypeOK, tables, ListIsComplete, VersionsAreContiguous, CurrentFits,
     AuditedAreListed, CurrentVersion
<1>2. \A v \in Workers : RequestInv(request[v])'
  BY DEF IInv, tables, RequestInv, SubjectInv, BaseInv, DraftInv, CurrentVersion
<1>. QED BY <1>1, <1>2 DEF IInv

LEMMA NextIInv == IInv /\ [Next]_vars => IInv'
<1> SUFFICES ASSUME IInv, [Next]_vars PROVE IInv'
  OBVIOUS
<1>1. CASE Tick
  BY <1>1, UnchangedKeepsIInv DEF Tick, tables, IInv, TypeOK
<1>2. ASSUME NEW w \in Workers, NEW c \in Certificates, StartRevoke(w, c)
      PROVE  IInv'
  BY <1>2, FreshKeepsIInv DEF StartRevoke
<1>3. ASSUME NEW w \in Workers, NEW c \in Certificates,
             NEW kind \in {"suspend", "restore"}, StartSuspension(w, c, kind)
      PROVE  IInv'
  BY <1>3, FreshKeepsIInv DEF StartSuspension
<1>4. ASSUME NEW w \in Workers, StartRebuild(w) PROVE IInv'
  BY <1>4, FreshKeepsIInv DEF StartRebuild
<1>5. ASSUME NEW w \in Workers, StartCron(w) PROVE IInv'
  BY <1>5, FreshKeepsIInv DEF StartCron
<1>6. ASSUME NEW w \in Workers, RefreshCheck(w) PROVE IInv'
  BY <1>6, FinishKeepsIInv, GotoKeepsIInv DEF RefreshCheck
<1>7. ASSUME NEW w \in Workers, CheckIssuer(w) PROVE IInv'
  BY <1>7, FinishKeepsIInv, GotoKeepsIInv DEF CheckIssuer
<1>8. ASSUME NEW w \in Workers, ReadCurrent(w) PROVE IInv'
  BY <1>8, ReadCurrentKeepsIInv
<1>9. ASSUME NEW w \in Workers, ReadRevocations(w) PROVE IInv'
  <2>1. CASE Accepted(request[w], revocations)
    BY <1>9, <2>1, ReadRevocationsKeepsIInv
  <2>2. CASE ~ Accepted(request[w], revocations)
    BY <1>9, <2>2, FinishKeepsIInv DEF ReadRevocations
  <2>. QED BY <2>1, <2>2
<1>10. ASSUME NEW w \in Workers, ConsumeJti(w) PROVE IInv'
  BY <1>10, FinishKeepsIInv, GotoKeepsIInv DEF ConsumeJti
<1>11. ASSUME NEW w \in Workers, RefuseSave(w) PROVE IInv'
  BY <1>11, FinishKeepsIInv DEF RefuseSave, AfterConflict
<1>12. ASSUME NEW w \in Workers, SaveSnapshot(w) PROVE IInv'
  BY <1>12, SaveSnapshotKeepsIInv
<1>13. ASSUME NEW w \in Workers, RevokeCertificate(w) PROVE IInv'
  BY <1>13, RevokeCertificateKeepsIInv
<1>14. ASSUME NEW w \in Workers, RecordAdminAudit(w) PROVE IInv'
  BY <1>14, RecordAdminAuditKeepsIInv
<1>15. ASSUME NEW w \in Workers, ApplySuspension(w) PROVE IInv'
  BY <1>15, ApplySuspensionKeepsIInv
<1>16. ASSUME NEW w \in Workers, Crash(w) PROVE IInv'
  BY <1>16, FinishKeepsIInv DEF Crash
<1>17. CASE UNCHANGED vars
  BY <1>17, UnchangedKeepsIInv DEF vars, tables, IInv, TypeOK
<1>. QED BY <1>1, <1>2, <1>3, <1>4, <1>5, <1>6, <1>7, <1>8, <1>9, <1>10, <1>11,
         <1>12, <1>13, <1>14, <1>15, <1>16, <1>17 DEF Next

\* The inductive invariant holds in every reachable state.
THEOREM Invariance == Spec => []IInv
BY InitIInv, NextIInv, PTL DEF Spec

-------------------------------------------------------------------------------
(* The properties of module Revocation. *)

\* Every variable keeps its type, and stored lists satisfy the table's CHECKs.
THEOREM TypeCorrectness == Spec => []TypeOK
<1>1. IInv => TypeOK
  BY DEF IInv
<1>. QED BY <1>1, Invariance, PTL

\* The current signed list is the revocations table, which holds exactly the
\* revoked certificates: no interleaving loses a revocation.
THEOREM ListCompleteness == Spec => []ListIsComplete
<1>1. IInv => ListIsComplete
  BY DEF IInv
<1>. QED BY <1>1, Invariance, PTL

\* A revocation that was answered 200 is on the current list.
THEOREM ReportedIsListed == Spec => []ReportedRevocationIsListed
<1>1. IInv => ReportedRevocationIsListed
  <2> SUFFICES ASSUME IInv, NEW row \in auditLog
               PROVE  /\ current # NoSnapshot
                      /\ Listed(current.entries, row[2])
                      /\ EffectiveStatus(row[2]) = "revoked"
    BY DEF ReportedRevocationIsListed
  <2>1. current # NoSnapshot /\ Listed(revocations, row[2])
        /\ row[2] \in Certificates
    BY DEF IInv, AuditedAreListed, TypeOK, AuditRows
  <2>. QED BY <2>1 DEF IInv, ListIsComplete, EffectiveStatus
<1>. QED BY <1>1, Invariance, PTL

\* A table with one row per certificate has finitely many rows.
LEMMA TableIsFinite ==
    ASSUME IInv
    PROVE  IsFiniteSet(revocations) /\ Cardinality(revocations) \in Nat
<1> DEFINE f == [e \in revocations |-> e.certificate]
<1>1. revocations \subseteq Entries /\ UniqueSerials(revocations)
  BY DEF IInv, TypeOK, ListIsComplete
<1>2. f \in [revocations -> Certificates]
  BY <1>1 DEF Entries
<1>3. \A e, g \in revocations : f[e] = f[g] => e = g
  BY <1>1 DEF UniqueSerials
<1>. HIDE DEF f
<1>4. f \in Injection(revocations, Certificates)
  BY <1>2, <1>3 DEF Injection, IsInjective
<1>5. IsFiniteSet(revocations)
  BY <1>4, FS_Injection, RevocationAssumption
<1>. QED BY <1>5, FS_CardinalityType

\* A later version is never written with fewer digits.
LEMMA DigitsGrow ==
    ASSUME NEW m \in Nat, NEW n \in Nat, m <= n
    PROVE  /\ VersionDigits(m) \in Nat
           /\ VersionDigits(n) \in Nat
           /\ VersionDigits(m) <= VersionDigits(n)
<1> DEFINE S == DigitSteps \cap (1 .. m)
           T == DigitSteps \cap (1 .. n)
<1>1. IsFiniteSet(1 .. n)
  BY FS_Interval
<1>2. IsFiniteSet(T)
  BY <1>1, FS_Intersection
<1>3. S \in SUBSET T
  OBVIOUS
<1>4. IsFiniteSet(S) /\ Cardinality(S) <= Cardinality(T)
  BY <1>2, <1>3, FS_Subset
<1>5. Cardinality(S) \in Nat /\ Cardinality(T) \in Nat
  BY <1>2, <1>4, FS_CardinalityType
<1>. HIDE DEF S, T
<1>6. VersionDigits(m) = 1 + Cardinality(S) /\ VersionDigits(n) = 1 + Cardinality(T)
  BY DEF VersionDigits, S, T
<1>. QED BY <1>4, <1>5, <1>6

\* A list of the same entries with no longer a version is no larger.
LEMMA SameEntriesFit ==
    ASSUME NEW list, NEW next, Fits(list),
           next.entries = list.entries,
           Cardinality(list.entries) \in Nat,
           VersionDigits(list.version) \in Nat,
           VersionDigits(next.version) \in Nat,
           VersionDigits(next.version) <= VersionDigits(list.version)
    PROVE  Fits(next)
<1> DEFINE bytes == EntryBytes * Cardinality(list.entries)
<1>1. bytes \in Nat
  BY RevocationAssumption
<1>2. bytes = EntryBytes * Cardinality(next.entries)
  OBVIOUS
<1>. HIDE DEF bytes
<1>3. bytes + VersionDigits(list.version) <= MaxBytes
  BY DEF Fits, bytes
<1>4. bytes + VersionDigits(next.version) <= MaxBytes
  BY <1>1, <1>3, RevocationAssumption
<1>. QED BY <1>2, <1>4 DEF Fits

\* A rebuild or refresh is refused by the validation of its own list only if
\* the list was full and its version gains a digit, or there never was a list.
THEOREM RenewalAcceptance == Spec => []RenewalIsAccepted
<1>1. IInv => RenewalIsAccepted
  <2> SUFFICES ASSUME IInv, NEW w \in Workers, At(w, "read_revocations"),
                      request[w].kind # "revoke",
                      ~ Outgrown(Build(request[w], revocations))
               PROVE  Accepted(request[w], revocations)
    BY DEF RenewalIsAccepted
  <2> DEFINE r == request[w]
             next == Build(r, revocations)
  <2>1. r \in Requests /\ BaseInv(r) /\ revocations \in SUBSET Entries
    BY DEF IInv, TypeOK, RequestInv
  <2>2. Additional(r) = {}
    BY DEF Additional
  <2>3. /\ next.entries = revocations
        /\ next.version = NextVersion(r.base)
        /\ next \in Snapshots
        /\ r.base # NoSnapshot => /\ next.version > r.base.version
                                  /\ next.generated_at >= r.base.generated_at
    BY <2>1, <2>2, BuildFacts
  <2>4. r.base # NoSnapshot => r.base.entries \subseteq revocations
    BY <2>1 DEF BaseInv, At
  <2>5. ~ Outgrown(next)
    OBVIOUS
  <2>. HIDE DEF next
  <2>6. ValidSuccessor(r.base, next)
    BY <2>3, <2>4 DEF ValidSuccessor
  <2>7. UniqueSerials(next.entries)
    BY <2>3 DEF IInv, ListIsComplete
  <2>8. ASSUME ~ Fits(next) PROVE FALSE
    <3>1. /\ current # NoSnapshot
          /\ ~ (next.version = current.version + 1 /\ next.version \in DigitSteps)
      BY <2>5, <2>8 DEF Outgrown
    <3>2. /\ Fits(current) /\ current.entries = revocations
          /\ current.version \in Nat /\ next.version \in Nat
          /\ next.version <= current.version + 1
      BY <2>1, <2>3, <3>1 DEF IInv, TypeOK, CurrentFits, ListIsComplete,
         Snapshots, BaseInv, At, CurrentVersion
    <3>3. /\ VersionDigits(next.version) \in Nat
          /\ VersionDigits(current.version) \in Nat
      BY <3>2, DigitsGrow
    <3>4. VersionDigits(next.version) <= VersionDigits(current.version)
      <4>1. CASE next.version <= current.version
        BY <3>2, <4>1, DigitsGrow
      <4>2. CASE next.version = current.version + 1
        <5>1. next.version \notin DigitSteps
          BY <3>1, <4>2
        <5>2. ASSUME NEW d \in DigitSteps
              PROVE  d \in 1 .. next.version <=> d \in 1 .. current.version
          <6>1. d \in Nat /\ d # next.version
            BY <5>1, RevocationAssumption
          <6>. QED BY <6>1, <3>2, <4>2
        <5>3. DigitSteps \cap (1 .. next.version)
                 = DigitSteps \cap (1 .. current.version)
          BY <5>2
        <5>4. VersionDigits(next.version) = VersionDigits(current.version)
          BY <5>3, Zenon DEF VersionDigits
        <5>. QED BY <3>3, <5>4
      <4>. QED BY <3>2, <4>1, <4>2
    <3>5. Cardinality(current.entries) \in Nat
      BY <3>2, TableIsFinite
    <3>. QED BY <2>3, <2>8, <3>2, <3>3, <3>4, <3>5, SameEntriesFit
  <2>. QED BY <2>2, <2>6, <2>7, <2>8 DEF Accepted, next
<1>. QED BY <1>1, Invariance, PTL

\* Only the two publishing batches touch revocations, statuses and lists.
LEMMA StepKinds ==
    ASSUME [Next]_vars
    PROVE  \/ UNCHANGED <<status, revocations, current>>
           \/ \E w \in Workers : SaveSnapshot(w)
           \/ \E w \in Workers : RevokeCertificate(w)
<1>1. CASE UNCHANGED vars
  BY <1>1 DEF vars
<1>2. CASE Tick
  BY <1>2 DEF Tick
<1>3. ASSUME NEW w \in Workers, NEW c \in Certificates,
             \/ StartRevoke(w, c)
             \/ \E kind \in {"suspend", "restore"} : StartSuspension(w, c, kind)
      PROVE  UNCHANGED <<status, revocations, current>>
  BY <1>3 DEF StartRevoke, StartSuspension, tables
<1>4. ASSUME NEW w \in Workers,
             \/ StartRebuild(w) \/ StartCron(w) \/ RefreshCheck(w)
             \/ CheckIssuer(w) \/ ReadCurrent(w) \/ ReadRevocations(w)
             \/ ConsumeJti(w) \/ RefuseSave(w) \/ RecordAdminAudit(w)
             \/ ApplySuspension(w) \/ Crash(w)
      PROVE  UNCHANGED <<status, revocations, current>>
  BY <1>4 DEF StartRebuild, StartCron, RefreshCheck, CheckIssuer, ReadCurrent,
     ReadRevocations, ConsumeJti, RefuseSave, RecordAdminAudit,
     ApplySuspension, Crash, tables
<1>. QED BY <1>1, <1>2, <1>3, <1>4 DEF Next

\* What a publishing batch does to the rows and to the list.
LEMMA PublicationStep ==
    ASSUME IInv, NEW w \in Workers, SaveSnapshot(w) \/ RevokeCertificate(w)
    PROVE  /\ revocations \subseteq revocations'
           /\ current' = request[w].draft
           /\ current' \in Snapshots
           /\ CurrentVersion' = CurrentVersion + 1
           /\ current # NoSnapshot =>
                 current'.generated_at >= current.generated_at
           /\ \A c \in Certificates :
                 status[c] = "revoked" => status'[c] = "revoked"
<1> DEFINE row == request[w].draft
<1>1. At(w, "save") /\ ~ VersionTaken(row) /\ InsertSnapshot(row)
  BY DEF SaveSnapshot, RevokeCertificate
<1>2. row \in Snapshots /\ row.version = CurrentVersion + 1
  BY <1>1, UntakenIsNext
<1>3. current' = row /\ CurrentVersion' = CurrentVersion + 1
  BY <1>1, <1>2, PublicationFacts
<1>4. current # NoSnapshot => row.generated_at >= current.generated_at
  BY <1>1, <1>2 DEF IInv, RequestInv, DraftInv, At
<1>5. revocations \subseteq revocations'
      /\ \A c \in Certificates :
            status[c] = "revoked" => status'[c] = "revoked"
  BY DEF SaveSnapshot, RevokeCertificate
<1>. QED BY <1>2, <1>3, <1>4, <1>5

\* A revocation is never undone, changed or masked by a suspension.
THEOREM RevocationFinality == Spec => RevocationIsFinal
<1>1. IInv /\ [Next]_vars
         => [ /\ revocations \subseteq revocations'
              /\ \A c \in Certificates :
                    EffectiveStatus(c) = "revoked"
                       => EffectiveStatus(c)' = "revoked" ]_vars
  <2> SUFFICES ASSUME IInv, [Next]_vars
               PROVE  /\ revocations \subseteq revocations'
                      /\ \A c \in Certificates :
                            status[c] = "revoked" => status'[c] = "revoked"
    BY DEF EffectiveStatus
  <2>. QED BY StepKinds, PublicationStep
<1>. QED BY <1>1, Invariance, PTL DEF Spec, RevocationIsFinal

\* The database and its requests implement the promise made to downloaders.
THEOREM Refinement == Spec => ImplementsRevocationList
<1>1. Init => List!Init
  BY DEF Init, List!Init, CurrentVersion
<1>2. IInv /\ IInv' /\ [Next]_vars => [List!Publish]_List!listVars
  <2> SUFFICES ASSUME IInv, IInv', [Next]_vars
               PROVE  List!Publish \/ UNCHANGED List!listVars
    OBVIOUS
  <2>1. CASE UNCHANGED <<status, revocations, current>>
    BY <2>1 DEF List!listVars, CurrentVersion
  <2>2. ASSUME NEW w \in Workers, SaveSnapshot(w) \/ RevokeCertificate(w)
        PROVE  List!Publish
    <3>1. /\ revocations \subseteq revocations'
          /\ current' \in Snapshots /\ current' # NoSnapshot
          /\ CurrentVersion' = CurrentVersion + 1
          /\ CurrentVersion \in Nat
          /\ current # NoSnapshot => current'.generated_at >= current.generated_at
      BY <2>2, PublicationStep, VersionFacts, RevocationAssumption
         DEF IInv, TypeOK
    <3>2. /\ current # NoSnapshot => current.entries = revocations
          /\ current'.entries = revocations'
          /\ UniqueSerials(current'.entries)
      BY <3>1 DEF IInv, ListIsComplete
    <3>3. current'.entries \subseteq Entries /\ current'.generated_at \in Nat
      BY <3>1 DEF Snapshots
    <3>4. CurrentVersion' > CurrentVersion
      BY <3>1
    <3>5. (IF current' = NoSnapshot THEN 0 ELSE current'.generated_at)
             >= (IF current = NoSnapshot THEN 0 ELSE current.generated_at)
      BY <3>1, <3>3
    <3>6. (IF current = NoSnapshot THEN {} ELSE current.entries)
             \subseteq current'.entries
      BY <3>1, <3>2
    <3>. QED BY <3>1, <3>2, <3>3, <3>4, <3>5, <3>6
         DEF List!Publish, List!UniqueSerials, UniqueSerials, List!Entries,
             Entries
  <2>. QED BY <2>1, <2>2, StepKinds
<1>. QED BY <1>1, <1>2, Invariance, PTL
     DEF Spec, ImplementsRevocationList, List!Spec
===============================================================================
