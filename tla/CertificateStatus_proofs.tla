----------------------- MODULE CertificateStatus_proofs ------------------------
(***************************************************************************)
(* Proofs about module CertificateStatus, for any number of status         *)
(* requests, of issuers, snapshots and concurrent administrative requests. *)
(*                                                                         *)
(* The argument: each read that lets a request go on finds a ground absent *)
(* at that moment, so the ground did not hold all along; what is left at   *)
(* the end is a revocation by the Root, which TrustRegistry's invariant    *)
(* excludes once the issuer's row has the version of the snapshot that was *)
(* read.  Its lemmas are used through an instance, TrustProofs.            *)
(***************************************************************************)
EXTENDS CertificateStatus, TLAPS

TrustProofs == INSTANCE TrustRegistry_proofs WITH
    Workers <- TrustWorkers, request <- trustRequest

InFlight == {"read_revocation", "read_developer", "read_trust", "read_issuer"}

\* Of a request and its history, what the reads so far have shown.
ReaderInv(q, h) ==
    /\ q.pc # "answered" => q.answer = "none"
    /\ q.pc = "read_revocation" =>
          /\ "revoked" \notin h.always
          /\ q.suspended \/ "suspended" \notin h.always
    /\ q.pc \in {"read_developer", "read_trust", "read_issuer"} =>
          {"revoked", "suspended", "expired"} \cap h.always = {}
    /\ q.pc \in {"read_trust", "read_issuer"} =>
          /\ {"developer suspended", "not verified"} \cap h.always = {}
          /\ source = "online_intermediate"
    /\ q.pc = "read_issuer" =>
          /\ {"no snapshot", "snapshot expired", "not vouched for"} \cap h.always = {}
          /\ q.snapshot \in registered
          /\ q.snapshot.issuers[Issuer] \in Trusted
    /\ q.answer = "VALID" /\ Trust!Disciplined(signed) => h.always = {}

\* Of a request nothing has spoken against so far.
GoodInv(q, h) ==
    h.good =>
        /\ q.pc \in InFlight => NothingAgainst(q.at)
        /\ q.pc = "read_revocation" => ~ q.suspended
        /\ q.pc = "read_issuer" => q.snapshot = current /\ TablesAgree
        /\ q.pc = "answered" => q.answer = "VALID"

IInv ==
    /\ TypeOK
    /\ TrustProofs!IInv
    /\ \A r \in Readers : ReaderInv(request[r], history[r])
    /\ \A r \in Readers : GoodInv(request[r], history[r])

-------------------------------------------------------------------------------
(* The instance of TrustRegistry. *)

LEMMA TrustAssumed == TrustProofs!TrustAssumption
BY StatusAssumption
   DEF TrustProofs!TrustAssumption, Trust!Snapshots, TrustProofs!Snapshots,
       Trust!Statuses, TrustProofs!Statuses

LEMMA TrustTypes ==
    ASSUME TrustProofs!IInv
    PROVE  Trust!TypeOK
BY DEF TrustProofs!IInv, TrustProofs!TypeOK, Trust!TypeOK,
       Trust!Snapshots, TrustProofs!Snapshots, Trust!Statuses, TrustProofs!Statuses,
       Trust!Registries, TrustProofs!Registries, Trust!Requests, TrustProofs!Requests

LEMMA TypesOfTrust ==
    ASSUME TrustProofs!IInv'
    PROVE  Trust!TypeOK'
BY DEF TrustProofs!IInv, TrustProofs!TypeOK, Trust!TypeOK,
       Trust!Snapshots, TrustProofs!Snapshots, Trust!Statuses, TrustProofs!Statuses,
       Trust!Registries, TrustProofs!Registries, Trust!Requests, TrustProofs!Requests

LEMMA TrustInit ==
    ASSUME Trust!Init
    PROVE  TrustProofs!IInv
<1>1. TrustProofs!Init
  BY DEF Trust!Init, TrustProofs!Init, TrustProofs!IdleRequest, Trust!IdleRequest
<1>. QED BY <1>1, TrustAssumed, TrustProofs!InitIInv

\* The steps of the instance are those of TrustRegistry.
LEMMA TrustSteps ==
    ASSUME ChangeTrust
    PROVE  TrustProofs!Next
<1> PICK w \in TrustWorkers :
        \/ \E s \in signed : Trust!StartRegister(w, s)
        \/ Trust!ValidateAgainstCurrent(w)
        \/ Trust!ValidateAgainstRegistry(w)
        \/ Trust!ConsumeJti(w)
        \/ Trust!RegisterTrustSnapshot(w)
        \/ Trust!RefuseRegister(w)
        \/ \E i \in Issuers, desired \in {"active", "retired", "revoked"} :
              Trust!StartStatusChange(w, i, desired)
        \/ Trust!SetIssuerStatus(w)
        \/ Trust!End(w)
  BY DEF ChangeTrust
<1>. USE DEF Trust!At, TrustProofs!At, Trust!Goto, TrustProofs!Goto, Trust!Finish,
             TrustProofs!Finish, Trust!IdleRequest, TrustProofs!IdleRequest,
             Trust!tables, TrustProofs!tables
<1>1. ASSUME NEW s \in signed, Trust!StartRegister(w, s)
      PROVE  TrustProofs!StartRegister(w, s)
  BY <1>1 DEF Trust!StartRegister, TrustProofs!StartRegister,
              Trust!AtMostOneActive, TrustProofs!AtMostOneActive
<1>2. ASSUME Trust!ValidateAgainstCurrent(w)
      PROVE  TrustProofs!ValidateAgainstCurrent(w)
  BY <1>2 DEF Trust!ValidateAgainstCurrent, TrustProofs!ValidateAgainstCurrent,
              Trust!ValidSuccessor, TrustProofs!ValidSuccessor,
              Trust!TransitionAllowed, TrustProofs!TransitionAllowed
<1>3. ASSUME Trust!ValidateAgainstRegistry(w)
      PROVE  TrustProofs!ValidateAgainstRegistry(w)
  BY <1>3 DEF Trust!ValidateAgainstRegistry, TrustProofs!ValidateAgainstRegistry,
              Trust!FitsRegistry, TrustProofs!FitsRegistry,
              Trust!TransitionAllowed, TrustProofs!TransitionAllowed
<1>4. ASSUME Trust!ConsumeJti(w)
      PROVE  TrustProofs!ConsumeJti(w)
  BY <1>4 DEF Trust!ConsumeJti, TrustProofs!ConsumeJti
<1>5. Trust!BatchFails(trustRequest[w].snapshot)
         <=> TrustProofs!BatchFails(trustRequest[w].snapshot)
  BY DEF Trust!BatchFails, TrustProofs!BatchFails, Trust!KeepsActiveIndex,
         TrustProofs!KeepsActiveIndex, Trust!AfterUpserts, TrustProofs!AfterUpserts,
         Trust!Upsert, TrustProofs!Upsert, Trust!AtMostOneActive,
         TrustProofs!AtMostOneActive
<1>6. ASSUME Trust!RegisterTrustSnapshot(w)
      PROVE  TrustProofs!RegisterTrustSnapshot(w)
  BY <1>5, <1>6 DEF Trust!RegisterTrustSnapshot, TrustProofs!RegisterTrustSnapshot,
                    Trust!Upsert, TrustProofs!Upsert
<1>7. ASSUME Trust!RefuseRegister(w)
      PROVE  TrustProofs!RefuseRegister(w)
  BY <1>5, <1>7 DEF Trust!RefuseRegister, TrustProofs!RefuseRegister
<1>8. ASSUME NEW i \in Issuers, NEW desired \in {"active", "retired", "revoked"},
             Trust!StartStatusChange(w, i, desired)
      PROVE  /\ desired \in TrustProofs!Statuses \ {"future"}
             /\ TrustProofs!StartStatusChange(w, i, desired)
  BY <1>8 DEF Trust!StartStatusChange, TrustProofs!StartStatusChange,
              Trust!SignedStatus, TrustProofs!SignedStatus, TrustProofs!Statuses
<1>9. ASSUME Trust!SetIssuerStatus(w)
      PROVE  TrustProofs!SetIssuerStatus(w)
  BY <1>9 DEF Trust!SetIssuerStatus, TrustProofs!SetIssuerStatus,
              Trust!StatusChanged, TrustProofs!StatusChanged,
              Trust!KeepsActiveIndex, TrustProofs!KeepsActiveIndex,
              Trust!AtMostOneActive, TrustProofs!AtMostOneActive
<1>10. ASSUME Trust!End(w)
       PROVE  TrustProofs!End(w)
  BY <1>10 DEF Trust!End, TrustProofs!End
<1>. QED BY <1>1, <1>2, <1>3, <1>4, <1>6, <1>7, <1>8, <1>9, <1>10
         DEF TrustProofs!Next

LEMMA TrustStep ==
    ASSUME TrustProofs!IInv, ChangeTrust \/ UNCHANGED trust
    PROVE  TrustProofs!IInv'
<1>1. [TrustProofs!Next]_(TrustProofs!vars)
  BY TrustSteps DEF trust, TrustProofs!vars
<1>. QED BY <1>1, TrustAssumed, TrustProofs!NextIInv

\* Rows of trust_snapshots are never removed, and the Root signs no more.
LEMMA TrustGrows ==
    ASSUME ChangeTrust \/ UNCHANGED trust
    PROVE  signed' = signed /\ registered \subseteq registered'
BY DEF ChangeTrust, trust, Trust!StartRegister, Trust!ValidateAgainstCurrent,
       Trust!ValidateAgainstRegistry, Trust!ConsumeJti, Trust!RegisterTrustSnapshot,
       Trust!RefuseRegister, Trust!StartStatusChange, Trust!SetIssuerStatus,
       Trust!End, Trust!tables

\* The comparison of versions keeps out an issuer the Root has revoked.
LEMMA AgreementExcludesRevoked ==
    ASSUME TrustProofs!IInv, Trust!Disciplined(signed),
           NEW s \in registered, s.issuers[Issuer] \in Trusted,
           Agrees(registry[Issuer], s)
    PROVE  Issuer \notin Trust!RevokedByRoot
<1> SUFFICES ASSUME NEW t \in registered, t.issuers[Issuer] = "revoked"
             PROVE  FALSE
  BY DEF Trust!RevokedByRoot
<1>1. registry[Issuer].version >= t.version
  BY StatusAssumption DEF TrustProofs!IInv, TrustProofs!RegistryNotBehind
<1>2. registry[Issuer].version = s.version
  BY DEF Agrees
<1>3. s \in Trust!Snapshots /\ t \in Trust!Snapshots /\ s \in signed /\ t \in signed
  BY TrustTypes DEF Trust!TypeOK
<1>4. s.version \in Nat /\ t.version \in Nat
  BY <1>3, StatusAssumption DEF Trust!Snapshots
<1>5. ~ Trust!ValidSuccessor(s, t)
  BY <1>1, <1>2, <1>4 DEF Trust!ValidSuccessor
<1>6. ~ Trust!ValidSuccessor(t, s)
  BY StatusAssumption DEF Trust!ValidSuccessor, Trust!TransitionAllowed, Trusted
<1>7. s # t
  BY DEF Trusted
<1>. QED BY <1>3, <1>5, <1>6, <1>7 DEF Trust!Disciplined

-------------------------------------------------------------------------------
(* Grounds and histories. *)

LEMMA GroundsMean ==
    ASSUME NEW now
    PROVE  /\ GroundsAt(now) \subseteq Grounds
           /\ "revoked" \in GroundsAt(now) => certificate.status = "revoked"
           /\ "suspended" \in GroundsAt(now) => certificate.suspended
           /\ "expired" \in GroundsAt(now) => NotAfter <= now
           /\ "developer suspended" \in GroundsAt(now) => developer.status = "suspended"
           /\ "not verified" \in GroundsAt(now) => ~ developer.verified
           /\ "no snapshot" \in GroundsAt(now) => current = NoSnapshot
           /\ "snapshot expired" \in GroundsAt(now) =>
                 current # NoSnapshot /\ TrustExpiry[current.version] <= now
           /\ "not vouched for" \in GroundsAt(now) =>
                 current # NoSnapshot /\ current.issuers[Issuer] \notin Trusted
           /\ "issuer revoked" \in GroundsAt(now) => Issuer \in Trust!RevokedByRoot
           /\ "not registered" \in GroundsAt(now) =>
                 registry[Issuer].status \notin Trusted
           /\ source = "legacy_root" =>
                 GroundsAt(now) \subseteq {"revoked", "suspended", "expired",
                                           "developer suspended", "not verified"}
BY DEF GroundsAt, CertificateGrounds, DeveloperGrounds, SnapshotGrounds,
       RegistryGrounds, Ground, Grounds

LEMMA NothingMeans ==
    ASSUME NEW now, NothingAgainst(now)
    PROVE  /\ certificate.status # "revoked" /\ ~ certificate.suspended
           /\ ~ NotAfter <= now
           /\ developer.status # "suspended" /\ developer.verified
           /\ source # "legacy_root" =>
                 /\ current # NoSnapshot
                 /\ ~ TrustExpiry[current.version] <= now
                 /\ current.issuers[Issuer] \in Trusted
<1>1. GroundsAt(now) = {}
  BY DEF NothingAgainst
<1>2. CertificateGrounds(now) = {} /\ DeveloperGrounds = {}
  BY <1>1 DEF GroundsAt
<1>3. source # "legacy_root" => SnapshotGrounds(now) = {}
  BY <1>1 DEF GroundsAt
<1>. QED BY <1>1, <1>2, <1>3 DEF CertificateGrounds, DeveloperGrounds, SnapshotGrounds,
              Ground

\* A read changes nothing the grounds are made of.
LEMMA SameGrounds ==
    ASSUME UNCHANGED tables, NEW r \in Readers, NEW now, request'[r].at = now
    PROVE  GroundsAt(request[r].at)' = GroundsAt(now)
BY DEF tables, trust, GroundsAt, CertificateGrounds, DeveloperGrounds, SnapshotGrounds,
       RegistryGrounds, Ground, Trust!RevokedByRoot

LEMMA SameNothing ==
    ASSUME UNCHANGED tables, NEW r \in Readers, NEW now, request'[r].at = now,
           NothingAgainst(now)
    PROVE  NothingAgainst(request[r].at)'
<1>1. GroundsAt(request[r].at)' = GroundsAt(now)
  BY SameGrounds
<1>. QED BY <1>1 DEF NothingAgainst

LEMMA HistoryTyped ==
    ASSUME TypeOK, Record
    PROVE  history' \in [Readers -> Histories]
<1>1. history' = [r \in Readers |-> Recorded(r)]
  BY DEF Record
<1>2. ASSUME NEW r \in Readers
      PROVE  Recorded(r) \in Histories
  <2>1. history[r] \in Histories
    BY DEF TypeOK
  <2>2. GroundsAt(clock) \in SUBSET Grounds
    BY GroundsMean
  <2>3. NothingAgainst(clock) \in BOOLEAN
    BY DEF NothingAgainst
  <2>4. history[r].always \cap GroundsAt(request[r].at)' \in SUBSET Grounds
    BY <2>1 DEF Histories
  <2>5. (/\ history[r].good
         /\ NothingAgainst(request[r].at)'
         /\ request'[r].pc = "read_issuer" => TablesAgree'
         /\ request[r].pc = "read_issuer" => UNCHANGED <<current, registry>>)
            \in BOOLEAN
    OBVIOUS
  <2>. HIDE DEF NothingAgainst, GroundsAt
  <2>6. CASE request'[r].pc = "idle"
    BY <2>6 DEF Recorded, NoHistory, Histories
  <2>7. CASE request'[r].pc # "idle" /\ request[r].pc = "idle"
    BY <2>2, <2>3, <2>7 DEF Recorded, Histories
  <2>8. CASE request'[r].pc # "idle" /\ request[r].pc = "answered"
    BY <2>1, <2>8 DEF Recorded
  <2>9. CASE request'[r].pc # "idle" /\ request[r].pc \notin {"idle", "answered"}
    BY <2>4, <2>5, <2>9 DEF Recorded, Histories
  <2>. QED BY <2>6, <2>7, <2>8, <2>9
<1>. QED BY <1>1, <1>2

\* What a read adds to the history of its request.
LEMMA HistoryOfRead ==
    ASSUME TypeOK, Record, UNCHANGED tables, NEW r \in Readers,
           request[r].pc \in InFlight, request'[r].pc # "idle",
           request'[r].at = request[r].at
    PROVE  /\ history'[r].always = history[r].always \cap GroundsAt(request[r].at)
           /\ history'[r].good =>
                 /\ history[r].good
                 /\ request'[r].pc = "read_issuer" => TablesAgree'
<1>1. history'[r] = Recorded(r)
  BY DEF Record
<1>2. request[r].pc \notin {"idle", "answered"}
  BY DEF InFlight
<1>3. GroundsAt(request[r].at)' = GroundsAt(request[r].at)
  BY SameGrounds
<1>4. /\ history'[r].always = history[r].always \cap GroundsAt(request[r].at)'
      /\ history'[r].good =>
            /\ history[r].good
            /\ request'[r].pc = "read_issuer" => TablesAgree'
  BY <1>1, <1>2 DEF Recorded
<1>. QED BY <1>3, <1>4

\* What anything else adds.
LEMMA HistoryOfOthers ==
    ASSUME TypeOK, Record, NEW r \in Readers, request'[r] = request[r]
    PROVE  /\ request[r].pc = "idle" => history'[r] = NoHistory
           /\ request[r].pc = "answered" => history'[r] = history[r]
           /\ request[r].pc \in InFlight =>
                 /\ history'[r].always \subseteq history[r].always
                 /\ history'[r].good =>
                       /\ history[r].good
                       /\ NothingAgainst(request[r].at)'
                       /\ request[r].pc = "read_issuer"
                             => current' = current /\ TablesAgree'
<1>1. history'[r] = Recorded(r)
  BY DEF Record
<1>2. request[r].pc \in InFlight => request[r].pc \notin {"idle", "answered"}
  BY DEF InFlight
<1>. QED BY <1>1, <1>2 DEF Recorded

LEMMA ReaderKept ==
    ASSUME IInv, Record, source' = source, ChangeTrust \/ UNCHANGED trust,
           NEW r \in Readers, request'[r] = request[r]
    PROVE  /\ ReaderInv(request[r], history[r])'
           /\ GoodInv(request[r], history[r])'
<1>1. /\ ReaderInv(request[r], history[r])
      /\ GoodInv(request[r], history[r])
      /\ TypeOK
  BY DEF IInv
<1>2. signed' = signed /\ registered \subseteq registered'
  BY TrustGrows
<1>3. request[r] \in Requests
  BY <1>1 DEF TypeOK
<1>4. CASE request[r].pc = "idle"
  <2>1. history'[r] = NoHistory
    BY <1>1, <1>4, HistoryOfOthers
  <2>. QED BY <1>1, <1>4, <2>1 DEF ReaderInv, GoodInv, NoHistory, InFlight
<1>5. CASE request[r].pc = "answered"
  <2>1. history'[r] = history[r]
    BY <1>1, <1>5, HistoryOfOthers
  <2>2. Trust!Disciplined(signed)' => Trust!Disciplined(signed)
    BY <1>2 DEF Trust!Disciplined, Trust!ValidSuccessor, Trust!TransitionAllowed
  <2>. QED BY <1>1, <1>5, <2>1, <2>2 DEF ReaderInv, GoodInv, InFlight
<1>6. CASE request[r].pc \in InFlight
  <2>1. /\ history'[r].always \subseteq history[r].always
        /\ history'[r].good =>
              /\ history[r].good
              /\ NothingAgainst(request[r].at)'
              /\ request[r].pc = "read_issuer" => current' = current /\ TablesAgree'
    BY <1>1, <1>6, HistoryOfOthers
  <2>2. request[r].answer = "none"
    BY <1>1, <1>6 DEF ReaderInv, InFlight
  <2>3. ReaderInv(request[r], history[r])'
    BY <1>1, <1>2, <2>1, <2>2 DEF ReaderInv
  <2>4. GoodInv(request[r], history[r])'
    BY <1>1, <1>6, <2>1 DEF GoodInv, InFlight
  <2>. QED BY <2>3, <2>4
<1>. QED BY <1>3, <1>4, <1>5, <1>6 DEF Requests, InFlight

-------------------------------------------------------------------------------
(* The reads of a request. *)

LEMMA AnswerFacts ==
    ASSUME TypeOK, NEW r \in Readers, NEW reason \in Reasons, Answer(r, reason)
    PROVE  /\ request' \in [Readers -> Requests]
           /\ request'[r].pc = "answered"
           /\ request'[r].answer = reason
           /\ request'[r].at = request[r].at
           /\ \A v \in Readers : v # r => request'[v] = request[v]
<1> DEFINE q == [pc |-> "answered", suspended |-> FALSE, at |-> request[r].at,
                 snapshot |-> NoSnapshot, answer |-> reason]
<1>1. q \in Requests
  BY DEF TypeOK, Requests
<1>2. request' = [request EXCEPT ![r] = q]
  BY DEF Answer
<1>3. q.pc = "answered" /\ q.answer = reason /\ q.at = request[r].at
  OBVIOUS
<1>. HIDE DEF q
<1>. QED BY <1>1, <1>2, <1>3 DEF TypeOK

LEMMA GotoFacts ==
    ASSUME TypeOK, NEW r \in Readers, NEW pc \in {"read_developer", "read_trust"},
           Goto(r, pc)
    PROVE  /\ request' \in [Readers -> Requests]
           /\ request'[r].pc = pc
           /\ request'[r].answer = request[r].answer
           /\ request'[r].at = request[r].at
           /\ \A v \in Readers : v # r => request'[v] = request[v]
<1>1. request[r] \in Requests
  BY DEF TypeOK
<1>2. PICK q : q = [request[r] EXCEPT !.pc = pc]
  OBVIOUS
<1>3. /\ q \in Requests /\ q.pc = pc /\ q.answer = request[r].answer
      /\ q.at = request[r].at
  BY <1>1, <1>2 DEF Requests
<1>4. request' = [request EXCEPT ![r] = q]
  BY <1>2 DEF Goto
<1>. QED BY <1>3, <1>4 DEF TypeOK

\* An answer other than VALID only has to be right about a good certificate.
LEMMA Refused ==
    ASSUME NEW r \in Readers, request'[r].pc = "answered",
           request'[r].answer # "VALID", ~ history'[r].good
    PROVE  /\ ReaderInv(request[r], history[r])'
           /\ GoodInv(request[r], history[r])'
BY DEF ReaderInv, GoodInv

\* What each read establishes.
Established(r) ==
    /\ request' \in [Readers -> Requests]
    /\ \A v \in Readers : v # r => request'[v] = request[v]
    /\ ReaderInv(request[r], history[r])'
    /\ GoodInv(request[r], history[r])'

LEMMA ReadCertificateStep ==
    ASSUME IInv, Record, NEW r \in Readers, ReadCertificate(r)
    PROVE  Established(r)
<1>1. TypeOK /\ request[r].pc = "idle" /\ UNCHANGED tables /\ UNCHANGED clock
  BY DEF IInv, ReadCertificate, At
<1>2. history'[r] = Recorded(r)
  BY DEF Record
<1>3. CASE certificate.status = "revoked"
  <2>1. Answer(r, "CERTIFICATE_REVOKED")
    BY <1>3 DEF ReadCertificate
  <2>2. /\ request' \in [Readers -> Requests]
        /\ request'[r].pc = "answered"
        /\ request'[r].answer = "CERTIFICATE_REVOKED"
        /\ \A v \in Readers : v # r => request'[v] = request[v]
    BY <1>1, <2>1, AnswerFacts DEF Reasons
  <2>3. ~ history'[r].good
    BY <1>1, <1>2, <1>3, <2>2, NothingMeans DEF Recorded
  <2>. QED BY <2>2, <2>3, Refused DEF Established
<1>4. CASE certificate.status # "revoked"
  <2> DEFINE q == [pc |-> "read_revocation", suspended |-> certificate.suspended,
                   at |-> clock, snapshot |-> NoSnapshot, answer |-> "none"]
  <2>1. request' = [request EXCEPT ![r] = q]
    BY <1>4 DEF ReadCertificate
  <2>2. q \in Requests
    BY <1>1 DEF TypeOK, Certificate, Requests
  <2>3. /\ q.pc = "read_revocation" /\ q.answer = "none" /\ q.at = clock
        /\ q.suspended = certificate.suspended
    OBVIOUS
  <2>. HIDE DEF q
  <2>4. /\ request' \in [Readers -> Requests]
        /\ request'[r] = q
        /\ \A v \in Readers : v # r => request'[v] = request[v]
    BY <1>1, <2>1, <2>2 DEF TypeOK
  <2>5. /\ history'[r].always = GroundsAt(clock)
        /\ history'[r].good = NothingAgainst(clock)
    BY <1>1, <1>2, <2>3, <2>4 DEF Recorded
  <2>6. "revoked" \notin history'[r].always
        /\ (q.suspended \/ "suspended" \notin history'[r].always)
    BY <1>4, <2>3, <2>5, GroundsMean
  <2>7. history'[r].good => NothingAgainst(clock) /\ ~ certificate.suspended
    BY <2>5, NothingMeans
  <2>8. NothingAgainst(clock) => NothingAgainst(request[r].at)'
    <3>1. request'[r].at = clock
      BY <2>3, <2>4
    <3>. QED BY <1>1, <3>1, SameNothing
  <2>9. ReaderInv(request[r], history[r])'
    BY <2>3, <2>4, <2>6 DEF ReaderInv
  <2>10. GoodInv(request[r], history[r])'
    BY <2>3, <2>4, <2>7, <2>8 DEF GoodInv
  <2>. QED BY <2>4, <2>9, <2>10 DEF Established
<1>. QED BY <1>3, <1>4

\* The facts a read starts from.
LEMMA ReadFacts ==
    ASSUME IInv, NEW r \in Readers, request[r].pc \in InFlight
    PROVE  /\ TypeOK
           /\ ReaderInv(request[r], history[r])
           /\ GoodInv(request[r], history[r])
           /\ request[r].answer = "none"
           /\ history[r].good => NothingAgainst(request[r].at)
           /\ source \in Sources
           /\ history[r].always \subseteq Grounds
BY DEF IInv, ReaderInv, GoodInv, InFlight, TypeOK, Histories

\* A refusal, at a read in flight, on a ground.
LEMMA RefusalStep ==
    ASSUME IInv, Record, UNCHANGED tables, NEW r \in Readers,
           request[r].pc \in InFlight, NEW reason \in Reasons \ {"VALID"},
           Answer(r, reason), ~ history[r].good
    PROVE  Established(r)
<1>1. TypeOK
  BY DEF IInv
<1>2. /\ request' \in [Readers -> Requests]
      /\ request'[r].pc = "answered"
      /\ request'[r].answer = reason
      /\ request'[r].at = request[r].at
      /\ \A v \in Readers : v # r => request'[v] = request[v]
  BY <1>1, AnswerFacts
<1>3. ~ history'[r].good
  BY <1>1, <1>2, HistoryOfRead
<1>. QED BY <1>2, <1>3, Refused DEF Established

LEMMA ReadRevocationStep ==
    ASSUME IInv, Record, NEW r \in Readers, ReadRevocation(r)
    PROVE  Established(r)
<1>1. request[r].pc = "read_revocation" /\ UNCHANGED tables
  BY DEF ReadRevocation, At
<1>2. request[r].pc \in InFlight
  BY <1>1 DEF InFlight
<1>3. /\ TypeOK
      /\ ReaderInv(request[r], history[r])
      /\ GoodInv(request[r], history[r])
      /\ request[r].answer = "none"
      /\ history[r].good => NothingAgainst(request[r].at)
  BY <1>2, ReadFacts
<1>4. history[r].good => /\ certificate.status # "revoked"
                         /\ ~ request[r].suspended
                         /\ ~ PastEnd(request[r].at)
  BY <1>1, <1>3, NothingMeans DEF GoodInv, PastEnd
<1>5. certificate.revocation <=> certificate.status = "revoked"
  BY <1>3 DEF TypeOK
<1>6. CASE certificate.revocation
  BY <1>1, <1>2, <1>4, <1>5, <1>6, RefusalStep DEF ReadRevocation, Reasons
<1>7. CASE ~ certificate.revocation /\ request[r].suspended
  BY <1>1, <1>2, <1>4, <1>7, RefusalStep DEF ReadRevocation, Reasons
<1>8. CASE ~ certificate.revocation /\ ~ request[r].suspended /\ PastEnd(request[r].at)
  BY <1>1, <1>2, <1>4, <1>8, RefusalStep DEF ReadRevocation, Reasons
<1>9. CASE /\ ~ certificate.revocation /\ ~ request[r].suspended
           /\ ~ PastEnd(request[r].at)
  <2>1. /\ request' \in [Readers -> Requests]
        /\ request'[r].pc = "read_developer"
        /\ request'[r].answer = "none"
        /\ request'[r].at = request[r].at
        /\ \A v \in Readers : v # r => request'[v] = request[v]
    BY <1>3, <1>9, GotoFacts DEF ReadRevocation
  <2>2. /\ history'[r].always = history[r].always \cap GroundsAt(request[r].at)
        /\ history'[r].good => history[r].good
    BY <1>1, <1>2, <1>3, <2>1, HistoryOfRead
  <2>3. {"revoked", "suspended", "expired"} \cap history'[r].always = {}
    <3>1. "expired" \notin GroundsAt(request[r].at)
      BY <1>9, GroundsMean DEF PastEnd
    <3>. QED BY <1>1, <1>3, <1>9, <2>2, <3>1 DEF ReaderInv
  <2>4. history'[r].good => NothingAgainst(request[r].at)'
    BY <1>1, <1>3, <2>1, <2>2, SameNothing
  <2>5. ReaderInv(request[r], history[r])'
    BY <2>1, <2>3 DEF ReaderInv
  <2>6. GoodInv(request[r], history[r])'
    BY <2>1, <2>4 DEF GoodInv
  <2>. QED BY <2>1, <2>5, <2>6 DEF Established
<1>. QED BY <1>6, <1>7, <1>8, <1>9

LEMMA ReadDeveloperStep ==
    ASSUME IInv, Record, NEW r \in Readers, ReadDeveloper(r)
    PROVE  Established(r)
<1>1. request[r].pc = "read_developer" /\ UNCHANGED tables
  BY DEF ReadDeveloper, At
<1>2. request[r].pc \in InFlight
  BY <1>1 DEF InFlight
<1>3. /\ TypeOK
      /\ ReaderInv(request[r], history[r])
      /\ GoodInv(request[r], history[r])
      /\ request[r].answer = "none"
      /\ history[r].good => NothingAgainst(request[r].at)
      /\ source \in Sources
      /\ history[r].always \subseteq Grounds
  BY <1>2, ReadFacts
<1>4. history[r].good => developer.status = "active" /\ developer.verified
  BY <1>3, NothingMeans DEF TypeOK, Developer
<1>5. CASE developer.status # "active"
  BY <1>1, <1>2, <1>4, <1>5, RefusalStep DEF ReadDeveloper, Reasons
<1>6. CASE developer.status = "active" /\ ~ developer.verified
  BY <1>1, <1>2, <1>4, <1>6, RefusalStep DEF ReadDeveloper, Reasons
<1>7. CASE developer.status = "active" /\ developer.verified
  <2>0. /\ "developer suspended" \notin GroundsAt(request[r].at)
        /\ "not verified" \notin GroundsAt(request[r].at)
    BY <1>7, GroundsMean
  <2>1. CASE source = "legacy_root"
    <3>1. Answer(r, "VALID")
      BY <1>7, <2>1 DEF ReadDeveloper
    <3>2. /\ request' \in [Readers -> Requests]
          /\ request'[r].pc = "answered"
          /\ request'[r].answer = "VALID"
          /\ request'[r].at = request[r].at
          /\ \A v \in Readers : v # r => request'[v] = request[v]
      BY <1>3, <3>1, AnswerFacts DEF Reasons
    <3>3. history'[r].always = history[r].always \cap GroundsAt(request[r].at)
      BY <1>1, <1>2, <1>3, <3>2, HistoryOfRead
    <3>4. GroundsAt(request[r].at) \subseteq {"revoked", "suspended", "expired",
                                              "developer suspended", "not verified"}
      BY <2>1, GroundsMean
    <3>5. history'[r].always = {}
      BY <1>1, <1>3, <2>0, <3>3, <3>4 DEF ReaderInv
    <3>6. ReaderInv(request[r], history[r])' /\ GoodInv(request[r], history[r])'
      BY <3>2, <3>5 DEF ReaderInv, GoodInv, InFlight
    <3>. QED BY <3>2, <3>6 DEF Established
  <2>2. CASE source # "legacy_root"
    <3>1. /\ request' \in [Readers -> Requests]
          /\ request'[r].pc = "read_trust"
          /\ request'[r].answer = "none"
          /\ request'[r].at = request[r].at
          /\ \A v \in Readers : v # r => request'[v] = request[v]
      BY <1>3, <1>7, <2>2, GotoFacts DEF ReadDeveloper
    <3>2. /\ history'[r].always = history[r].always \cap GroundsAt(request[r].at)
          /\ history'[r].good => history[r].good
      BY <1>1, <1>2, <1>3, <3>1, HistoryOfRead
    <3>3. /\ {"revoked", "suspended", "expired"} \cap history'[r].always = {}
          /\ {"developer suspended", "not verified"} \cap history'[r].always = {}
      BY <1>1, <1>3, <2>0, <3>2 DEF ReaderInv
    <3>4. source' = "online_intermediate"
      BY <1>1, <1>3, <2>2 DEF tables, Sources
    <3>5. history'[r].good => NothingAgainst(request[r].at)'
      BY <1>1, <1>3, <3>1, <3>2, SameNothing
    <3>6. ReaderInv(request[r], history[r])'
      BY <3>1, <3>3, <3>4 DEF ReaderInv
    <3>7. GoodInv(request[r], history[r])'
      BY <3>1, <3>5 DEF GoodInv
    <3>. QED BY <3>1, <3>6, <3>7 DEF Established
  <2>. QED BY <2>1, <2>2
<1>. QED BY <1>5, <1>6, <1>7

LEMMA ReadTrustStep ==
    ASSUME IInv, Record, NEW r \in Readers, ReadTrust(r)
    PROVE  Established(r)
<1> DEFINE at == request[r].at
<1>1. request[r].pc = "read_trust" /\ UNCHANGED tables
  BY DEF ReadTrust, At
<1>2. request[r].pc \in InFlight
  BY <1>1 DEF InFlight
<1>3. /\ TypeOK
      /\ ReaderInv(request[r], history[r])
      /\ GoodInv(request[r], history[r])
      /\ request[r].answer = "none"
      /\ history[r].good => NothingAgainst(at)
      /\ source \in Sources
  BY <1>2, ReadFacts
<1>4. source = "online_intermediate"
  BY <1>1, <1>3 DEF ReaderInv
<1>5. current # NoSnapshot => /\ current \in registered
                              /\ current \in Trust!Snapshots
                              /\ TrustExpiry[current.version] \in Nat
                              /\ at \in Nat
  BY <1>3, StatusAssumption DEF TypeOK, Trust!TypeOK, Trust!Snapshots, Requests
<1>6. history[r].good => /\ current # NoSnapshot
                         /\ Verifies(current, at)
                         /\ current.issuers[Issuer] # "revoked"
                         /\ Vouches(current)
  <2> SUFFICES ASSUME history[r].good
               PROVE  /\ current # NoSnapshot
                      /\ Verifies(current, at)
                      /\ current.issuers[Issuer] # "revoked"
                      /\ Vouches(current)
    OBVIOUS
  <2>1. /\ current # NoSnapshot
        /\ ~ TrustExpiry[current.version] <= at
        /\ current.issuers[Issuer] \in Trusted
    BY <1>3, <1>4, NothingMeans
  <2>. QED BY <1>5, <2>1 DEF Verifies, Vouches, Trusted
<1>7. CASE current = NoSnapshot
  BY <1>1, <1>2, <1>6, <1>7, RefusalStep DEF ReadTrust, Reasons
<1>8. CASE current # NoSnapshot /\ ~ Verifies(current, at)
  BY <1>1, <1>2, <1>6, <1>8, RefusalStep DEF ReadTrust, Reasons
<1>9. CASE /\ current # NoSnapshot /\ Verifies(current, at)
           /\ current.issuers[Issuer] = "revoked"
  BY <1>1, <1>2, <1>6, <1>9, RefusalStep DEF ReadTrust, Reasons
<1>10. CASE /\ current # NoSnapshot /\ Verifies(current, at)
            /\ current.issuers[Issuer] # "revoked" /\ ~ Vouches(current)
  BY <1>1, <1>2, <1>6, <1>10, RefusalStep DEF ReadTrust, Reasons
<1>11. CASE /\ current # NoSnapshot /\ Verifies(current, at)
            /\ current.issuers[Issuer] # "revoked" /\ Vouches(current)
  <2> DEFINE q == [pc |-> "read_issuer", suspended |-> request[r].suspended,
                   at |-> request[r].at, snapshot |-> current, answer |-> "none"]
  <2>1. request' = [request EXCEPT ![r] = q]
    BY <1>11 DEF ReadTrust
  <2>2. q \in Requests
    BY <1>3, <1>5, <1>11 DEF TypeOK, Requests
  <2>3. /\ q.pc = "read_issuer" /\ q.answer = "none" /\ q.at = at
        /\ q.snapshot = current
    OBVIOUS
  <2>. HIDE DEF q
  <2>4. /\ request' \in [Readers -> Requests]
        /\ request'[r] = q
        /\ \A v \in Readers : v # r => request'[v] = request[v]
    BY <1>3, <2>1, <2>2 DEF TypeOK
  <2>5. /\ history'[r].always = history[r].always \cap GroundsAt(at)
        /\ history'[r].good => history[r].good /\ TablesAgree'
    BY <1>1, <1>2, <1>3, <2>3, <2>4, HistoryOfRead
  <2>6. /\ "no snapshot" \notin GroundsAt(at)
        /\ "snapshot expired" \notin GroundsAt(at)
        /\ "not vouched for" \notin GroundsAt(at)
    <3>1. ~ TrustExpiry[current.version] <= at
      BY <1>5, <1>11 DEF Verifies
    <3>2. current.issuers[Issuer] \in Trusted
      BY <1>11 DEF Vouches, Trusted
    <3>. QED BY <1>11, <3>1, <3>2, GroundsMean
  <2>7. /\ {"revoked", "suspended", "expired"} \cap history'[r].always = {}
        /\ {"developer suspended", "not verified"} \cap history'[r].always = {}
        /\ {"no snapshot", "snapshot expired", "not vouched for"}
              \cap history'[r].always = {}
    BY <1>1, <1>3, <2>5, <2>6 DEF ReaderInv
  <2>8. /\ source' = source /\ registered' = registered /\ current' = current
    BY <1>1 DEF tables, trust
  <2>9. history'[r].good => NothingAgainst(request[r].at)'
    BY <1>1, <1>3, <2>3, <2>4, <2>5, SameNothing
  <2>10. current.issuers[Issuer] \in Trusted
    BY <1>11 DEF Vouches, Trusted
  <2>11. ReaderInv(request[r], history[r])'
    BY <1>4, <1>5, <1>11, <2>3, <2>4, <2>7, <2>8, <2>10 DEF ReaderInv
  <2>12. GoodInv(request[r], history[r])'
    BY <2>3, <2>4, <2>5, <2>8, <2>9 DEF GoodInv
  <2>. QED BY <2>4, <2>11, <2>12 DEF Established
<1>. QED BY <1>7, <1>8, <1>9, <1>10, <1>11

LEMMA ReadIssuerStep ==
    ASSUME IInv, Record, NEW r \in Readers, ReadIssuer(r)
    PROVE  Established(r)
<1> DEFINE at == request[r].at
           s == request[r].snapshot
           row == registry[Issuer]
<1>1. request[r].pc = "read_issuer" /\ UNCHANGED tables
  BY DEF ReadIssuer, At
<1>2. request[r].pc \in InFlight
  BY <1>1 DEF InFlight
<1>3. /\ TypeOK
      /\ ReaderInv(request[r], history[r])
      /\ GoodInv(request[r], history[r])
      /\ history[r].good => NothingAgainst(at)
      /\ history[r].always \subseteq Grounds
  BY <1>2, ReadFacts
<1>4. /\ s \in registered /\ s.issuers[Issuer] \in Trusted
      /\ source = "online_intermediate"
  BY <1>1, <1>3 DEF ReaderInv
<1>5. history[r].good => row.status \in Trusted /\ Agrees(row, s)
  <2> SUFFICES ASSUME history[r].good
               PROVE  row.status \in Trusted /\ Agrees(row, s)
    OBVIOUS
  <2>1. s = current /\ TablesAgree
    BY <1>1, <1>3 DEF GoodInv
  <2>2. row = [status |-> current.issuers[Issuer], version |-> current.version]
    BY <1>4, <2>1 DEF TablesAgree
  <2>. QED BY <1>4, <2>1, <2>2 DEF Agrees
<1>6. CASE row.status = "absent"
  BY <1>1, <1>2, <1>5, <1>6, RefusalStep DEF ReadIssuer, Reasons, Trusted
<1>7. CASE row.status = "revoked"
  BY <1>1, <1>2, <1>5, <1>7, RefusalStep DEF ReadIssuer, Reasons, Trusted
<1>8. CASE row.status \notin {"absent", "revoked"} /\ ~ Agrees(row, s)
  BY <1>1, <1>2, <1>5, <1>8, RefusalStep DEF ReadIssuer, Reasons
<1>9. CASE row.status \notin {"absent", "revoked"} /\ Agrees(row, s)
  <2>1. Answer(r, "VALID")
    BY <1>9 DEF ReadIssuer
  <2>2. /\ request' \in [Readers -> Requests]
        /\ request'[r].pc = "answered"
        /\ request'[r].answer = "VALID"
        /\ request'[r].at = at
        /\ \A v \in Readers : v # r => request'[v] = request[v]
    BY <1>3, <2>1, AnswerFacts DEF Reasons
  <2>3. history'[r].always = history[r].always \cap GroundsAt(at)
    BY <1>1, <1>2, <1>3, <2>2, HistoryOfRead
  <2>4. Trust!Disciplined(signed)' => Trust!Disciplined(signed)
    BY <1>1 DEF tables, trust
  <2>5. Trust!Disciplined(signed) => Issuer \notin Trust!RevokedByRoot
    BY <1>4, <1>9, AgreementExcludesRevoked DEF IInv
  <2>6. row.status \in Trusted
    BY <1>4, <1>9 DEF Agrees
  <2>7. Trust!Disciplined(signed) => /\ "issuer revoked" \notin GroundsAt(at)
                                     /\ "not registered" \notin GroundsAt(at)
    BY <2>5, <2>6, GroundsMean
  <2>8. Trust!Disciplined(signed) => history'[r].always = {}
    BY <1>1, <1>3, <2>3, <2>7 DEF ReaderInv, Grounds
  <2>9. ReaderInv(request[r], history[r])' /\ GoodInv(request[r], history[r])'
    BY <2>2, <2>4, <2>8 DEF ReaderInv, GoodInv, InFlight
  <2>. QED BY <2>2, <2>9 DEF Established
<1>. QED BY <1>6, <1>7, <1>8, <1>9

LEMMA EndStep ==
    ASSUME IInv, Record, NEW r \in Readers, End(r)
    PROVE  Established(r)
<1>1. request' = [request EXCEPT ![r] = IdleRequest] /\ TypeOK
  BY DEF End, IInv
<1>2. IdleRequest \in Requests /\ IdleRequest.pc = "idle" /\ IdleRequest.answer = "none"
  BY DEF IdleRequest, Requests
<1>3. request' \in [Readers -> Requests] /\ request'[r] = IdleRequest
  BY <1>1, <1>2 DEF TypeOK
<1>4. history'[r] = NoHistory
  BY <1>2, <1>3 DEF Record, Recorded
<1>5. ReaderInv(request[r], history[r])' /\ GoodInv(request[r], history[r])'
  BY <1>2, <1>3, <1>4 DEF ReaderInv, GoodInv, NoHistory
<1>6. \A v \in Readers : v # r => request'[v] = request[v]
  BY <1>1 DEF TypeOK
<1>. QED BY <1>3, <1>5, <1>6 DEF Established

-------------------------------------------------------------------------------
(* The theorems. *)

\* The initial states satisfy the inductive invariant.
THEOREM InitIInv ==
    ASSUME Init
    PROVE  IInv
<1>1. TrustProofs!IInv
  BY TrustInit DEF Init
<1>2. \A r \in Readers : request[r] = IdleRequest /\ history[r] = NoHistory
  BY DEF Init
<1>3. TypeOK
  <2>1. IdleRequest \in Requests /\ NoHistory \in Histories
    BY DEF IdleRequest, Requests, NoHistory, Histories
  <2>2. request \in [Readers -> Requests] /\ history \in [Readers -> Histories]
    BY <2>1 DEF Init
  <2>. QED BY <1>1, <2>2, TrustTypes DEF TypeOK, Init, Certificate, Developer
<1>4. ASSUME NEW r \in Readers
      PROVE  ReaderInv(request[r], history[r]) /\ GoodInv(request[r], history[r])
  <2>1. request[r].pc = "idle" /\ request[r].answer = "none" /\ ~ history[r].good
    BY <1>2 DEF IdleRequest, NoHistory
  <2>. QED BY <2>1 DEF ReaderInv, GoodInv, InFlight
<1>. QED BY <1>1, <1>3, <1>4 DEF IInv

\* What the batches and the clock leave to the requests.
LEMMA BatchStep ==
    ASSUME IInv, Record, UNCHANGED request, UNCHANGED source,
           ChangeTrust \/ UNCHANGED trust,
           certificate' \in Certificate, developer' \in Developer, clock' \in Nat,
           certificate'.revocation <=> certificate'.status = "revoked"
    PROVE  IInv'
<1>1. TypeOK /\ TrustProofs!IInv
  BY DEF IInv
<1>2. TrustProofs!IInv'
  BY <1>1, TrustStep
<1>3. TypeOK'
  BY <1>1, <1>2, TypesOfTrust, HistoryTyped DEF TypeOK
<1>4. ASSUME NEW r \in Readers
      PROVE  /\ ReaderInv(request[r], history[r])'
             /\ GoodInv(request[r], history[r])'
  BY ReaderKept
<1>. QED BY <1>2, <1>3, <1>4 DEF IInv

\* What a read leaves to the other requests.
LEMMA ReaderStep ==
    ASSUME IInv, Record, UNCHANGED <<tables, clock>>, NEW r \in Readers, Established(r)
    PROVE  IInv'
<1>1. TypeOK /\ TrustProofs!IInv
  BY DEF IInv
<1>2. UNCHANGED trust /\ source' = source
  BY DEF tables
<1>3. TrustProofs!IInv'
  BY <1>1, <1>2, TrustStep
<1>4. TypeOK'
  BY <1>1, <1>3, TypesOfTrust, HistoryTyped DEF TypeOK, Established, tables
<1>5. ASSUME NEW v \in Readers
      PROVE  /\ ReaderInv(request[v], history[v])'
             /\ GoodInv(request[v], history[v])'
  <2>1. CASE v = r
    BY <2>1 DEF Established
  <2>2. CASE v # r
    BY <1>2, <2>2, ReaderKept DEF Established
  <2>. QED BY <2>1, <2>2
<1>. QED BY <1>3, <1>4, <1>5 DEF IInv

LEMMA StutterKeeps ==
    ASSUME IInv, UNCHANGED vars, NEW r \in Readers
    PROVE  /\ ReaderInv(request[r], history[r])'
           /\ GoodInv(request[r], history[r])'
<1>1. ReaderInv(request[r], history[r]) /\ GoodInv(request[r], history[r])
  BY DEF IInv
<1>2. UNCHANGED trust /\ UNCHANGED <<certificate, source, developer, request, history>>
  BY DEF vars
<1>3. Trust!Disciplined(signed)' <=> Trust!Disciplined(signed)
  BY <1>2 DEF trust
<1>4. NothingAgainst(request[r].at)' <=> NothingAgainst(request[r].at)
  <2>1. GroundsAt(request[r].at)' = GroundsAt(request[r].at)
    BY <1>2, SameGrounds DEF tables
  <2>. QED BY <2>1 DEF NothingAgainst
<1>5. TablesAgree' <=> TablesAgree
  BY <1>2 DEF TablesAgree, trust
<1>. QED BY <1>1, <1>2, <1>3, <1>4, <1>5 DEF ReaderInv, GoodInv, trust

\* Every step keeps the inductive invariant.
THEOREM NextIInv ==
    ASSUME IInv, [Next]_vars
    PROVE  IInv'
<1>1. /\ certificate \in Certificate /\ developer \in Developer /\ clock \in Nat
      /\ certificate.revocation <=> certificate.status = "revoked"
  BY DEF IInv, TypeOK
<1>2. CASE Next
  <2>1. Record
    BY <1>2 DEF Next
  <2>2. CASE Tick
    BY <1>1, <2>1, <2>2, BatchStep DEF Tick
  <2>3. CASE RevokeCertificate
    <3>1. certificate' \in Certificate
          /\ (certificate'.revocation <=> certificate'.status = "revoked")
      BY <2>3 DEF RevokeCertificate, Revoked, Certificate
    <3>. QED BY <1>1, <2>1, <2>3, <3>1, BatchStep DEF RevokeCertificate
  <2>4. ASSUME NEW suspend \in BOOLEAN, SetCertificateSuspension(suspend)
        PROVE  IInv'
    <3>1. certificate' \in Certificate
          /\ (certificate'.revocation <=> certificate'.status = "revoked")
      BY <1>1, <2>4 DEF SetCertificateSuspension, Certificate
    <3>. QED BY <1>1, <2>1, <2>4, <3>1, BatchStep DEF SetCertificateSuspension
  <2>5. ASSUME NEW suspend \in BOOLEAN, SetDeveloperSuspension(suspend)
        PROVE  IInv'
    <3>1. developer' \in Developer
      BY <1>1, <2>5 DEF SetDeveloperSuspension, Developer
    <3>. QED BY <1>1, <2>1, <2>5, <3>1, BatchStep DEF SetDeveloperSuspension
  <2>6. ASSUME NEW verified \in BOOLEAN, UpdateVerification(verified)
        PROVE  IInv'
    <3>1. developer' \in Developer
      BY <1>1, <2>6 DEF UpdateVerification, Developer
    <3>. QED BY <1>1, <2>1, <2>6, <3>1, BatchStep DEF UpdateVerification
  <2>7. CASE ChangeTrust
    <3>1. UNCHANGED <<certificate, source, developer, request, clock>>
      BY <2>7 DEF ChangeTrust
    <3>. QED BY <1>1, <2>1, <2>7, <3>1, BatchStep
  <2>8. ASSUME NEW r \in Readers,
               \/ ReadCertificate(r) \/ ReadRevocation(r) \/ ReadDeveloper(r)
               \/ ReadTrust(r) \/ ReadIssuer(r) \/ End(r)
        PROVE  IInv'
    <3>1. Established(r)
      BY <2>1, <2>8, ReadCertificateStep, ReadRevocationStep, ReadDeveloperStep,
         ReadTrustStep, ReadIssuerStep, EndStep
    <3>2. UNCHANGED <<tables, clock>>
      BY <2>8 DEF ReadCertificate, ReadRevocation, ReadDeveloper, ReadTrust, ReadIssuer,
                  End
    <3>. QED BY <2>1, <3>1, <3>2, ReaderStep
  <2>. QED BY <1>2, <2>2, <2>3, <2>4, <2>5, <2>6, <2>7, <2>8 DEF Next, Step
<1>3. CASE UNCHANGED vars
  <2>1. TrustProofs!IInv'
    BY <1>3, TrustStep DEF IInv, vars
  <2>2. Trust!TypeOK'
    BY <2>1, TypesOfTrust
  <2>3. TypeOK'
    BY <1>3, <2>2 DEF IInv, TypeOK, vars
  <2>4. ASSUME NEW r \in Readers
        PROVE  /\ ReaderInv(request[r], history[r])'
               /\ GoodInv(request[r], history[r])'
    BY <1>3, StutterKeeps
  <2>. QED BY <2>1, <2>3, <2>4 DEF IInv
<1>. QED BY <1>2, <1>3

\* The inductive invariant always holds.
THEOREM Invariance == Spec => []IInv
<1>. QED BY InitIInv, NextIInv, PTL DEF Spec

\* The types, those of the trust tables included, and the status column of the
\* certificate, which agrees with its row of revocations.
THEOREM TypeCorrectness == Spec => []TypeOK
<1>1. IInv => TypeOK
  BY DEF IInv
<1>. QED BY <1>1, Invariance, PTL

\* VALID is never answered of a certificate that one ground spoke against from
\* the first read to the last, however many batches commit in between.
THEOREM ValidIsGrounded == Spec => []ValidOnlyIfOnceGood
<1>1. IInv => ValidOnlyIfOnceGood
  BY DEF IInv, ReaderInv, ValidOnlyIfOnceGood
<1>. QED BY <1>1, Invariance, PTL

\* A certificate that nothing speaks against during the request is not refused
\* (certificate_status), unless the snapshot and the registry disagreed when it
\* read the one, or a batch changed them before it read the other.
THEOREM GoodIsAnsweredValid == Spec => []GoodIsValid
<1>1. IInv => GoodIsValid
  BY DEF IInv, ReaderInv, GoodInv, GoodIsValid
<1>. QED BY <1>1, Invariance, PTL
===============================================================================
