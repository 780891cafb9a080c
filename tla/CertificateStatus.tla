--------------------------- MODULE CertificateStatus ---------------------------
(***************************************************************************)
(* The public answer about one certificate: certificate_status.            *)
(*                                                                         *)
(* A status request makes up to five reads (certificate, revocation,       *)
(* developer, trust snapshot, issuer) with nothing to hold them together,  *)
(* while the batches of administrative requests commit in between:         *)
(* revocation and suspension of the certificate (module Revocation),       *)
(* suspension and verification of its developer, and everything the        *)
(* instance Trust of TrustRegistry does to snapshots and issuers.          *)
(*                                                                         *)
(* The audit rows of these requests are left out: nothing reads them.      *)
(***************************************************************************)
EXTENDS Naturals

CONSTANTS
    Readers,       \* status requests in flight
    Issuer,        \* the issuer of an "online_intermediate" certificate
    NotAfter,      \* the certificate's not_after
    TrustExpiry,   \* expires_at of a snapshot, by its version
    MaxTime,       \* bound on the clock
    \* Of TrustRegistry:
    Issuers, TrustWorkers, SignedSets, MaxVersion, NoSnapshot

VARIABLES
    certificate,  \* its status column, suspension row and revocation row
    source,       \* issuance_source
    developer,    \* status and verification_status
    signed, registered, current, registry, trustRequest,  \* of TrustRegistry
    request,
    clock,
    history       \* per reader, for the properties only

Trust == INSTANCE TrustRegistry WITH
    Workers <- TrustWorkers, request <- trustRequest

ASSUME StatusAssumption ==
    /\ Issuer \in Issuers
    /\ NotAfter \in Nat
    /\ TrustExpiry \in [1 .. MaxVersion -> Nat]
    /\ MaxTime \in Nat
    \* What TrustRegistry assumes.
    /\ Issuers \subseteq Nat
    /\ MaxVersion \in Nat
    /\ \A S \in SignedSets : S \subseteq Trust!Snapshots
    /\ NoSnapshot \notin Trust!Snapshots

trust == <<signed, registered, current, registry, trustRequest>>

vars == <<certificate, source, developer, trust, request, clock, history>>

Certificate == [status: {"active", "revoked"},
                suspended: BOOLEAN, revocation: BOOLEAN]

Sources == {"online_intermediate", "legacy_root"}

\* "pending" and "rejected" are not told apart by any reader.
Developer == [status: {"active", "suspended"}, verified: BOOLEAN]

Reasons == {"CERTIFICATE_REVOKED", "CERTIFICATE_SUSPENDED",
            "CERTIFICATE_EXPIRED", "DEVELOPER_SUSPENDED",
            "DEVELOPER_NOT_VERIFIED", "ISSUER_UNKNOWN", "ISSUER_REVOKED",
            "METADATA_MISMATCH", "VALID"}

\* A request: the await it stands at, whether the row it read was suspended,
\* the clock it read, the snapshot it read, and its answer.
Requests == [pc: {"idle", "read_revocation", "read_developer", "read_trust",
                  "read_issuer", "answered"},
             suspended: BOOLEAN, at: Nat,
             snapshot: Trust!Snapshots \cup {NoSnapshot},
             answer: Reasons \cup {"none"}]

IdleRequest == [pc |-> "idle", suspended |-> FALSE, at |-> 0,
                snapshot |-> NoSnapshot, answer |-> "none"]

At(r, pc) == request[r].pc = pc

Goto(r, pc) == request' = [request EXCEPT ![r].pc = pc]

Answer(r, reason) ==
    request' = [request EXCEPT
        ![r] = [pc |-> "answered", suspended |-> FALSE, at |-> request[r].at,
                snapshot |-> NoSnapshot, answer |-> reason]]

-------------------------------------------------------------------------------
(* What speaks against a certificate, of the tables as they are now and of  *)
(* the time a request takes for now.  The reference the answer is compared  *)
(* with; the program has no such moment.                                    *)

Ground(name, holds) == IF holds THEN {name} ELSE {}

CertificateGrounds(now) ==
    Ground("revoked", certificate.status = "revoked")
        \cup Ground("suspended", certificate.suspended)
        \cup Ground("expired", NotAfter <= now)

DeveloperGrounds ==
    Ground("developer suspended", developer.status = "suspended")
        \cup Ground("not verified", ~ developer.verified)

Trusted == {"active", "retired"}

SnapshotGrounds(now) ==
    IF current = NoSnapshot THEN {"no snapshot"}
    ELSE Ground("snapshot expired", TrustExpiry[current.version] <= now)
            \cup Ground("not vouched for", current.issuers[Issuer] \notin Trusted)

RegistryGrounds ==
    Ground("issuer revoked", Issuer \in Trust!RevokedByRoot)
        \cup Ground("not registered", registry[Issuer].status \notin Trusted)

\* The Root answers itself for the certificates it signed.
GroundsAt(now) ==
    CertificateGrounds(now) \cup DeveloperGrounds \cup
    (IF source = "legacy_root" THEN {} ELSE SnapshotGrounds(now) \cup RegistryGrounds)

Grounds == {"revoked", "suspended", "expired", "developer suspended",
            "not verified", "no snapshot", "snapshot expired",
            "not vouched for", "issuer revoked", "not registered"}

\* The two tables of issuers say the same of this one.
TablesAgree ==
    source = "legacy_root" \/
    registry[Issuer] = [status |-> current.issuers[Issuer],
                        version |-> current.version]

NothingAgainst(now) == GroundsAt(now) = {}

\* Of a request's reads, from the first to the last.  always: the grounds that
\* held at every moment; good: there was never one, the two trust tables agreed
\* when the request read the first of them, and neither changed before it read
\* the second.  Batches may change them at any other moment.
Histories == [always: SUBSET Grounds, good: BOOLEAN]

NoHistory == [always |-> {}, good |-> FALSE]

Recorded(r) ==
    IF request'[r].pc = "idle" THEN NoHistory
    ELSE IF request[r].pc = "idle"
    THEN [always |-> GroundsAt(clock), good |-> NothingAgainst(clock)]
    ELSE IF request[r].pc = "answered" THEN history[r]
    ELSE [always |-> history[r].always \cap GroundsAt(request[r].at)',
          good |-> /\ history[r].good
                   /\ NothingAgainst(request[r].at)'
                   /\ request'[r].pc = "read_issuer" => TablesAgree'
                   /\ request[r].pc = "read_issuer" => UNCHANGED <<current, registry>>]

\* A conjunct of every step.
Record == history' = [r \in Readers |-> Recorded(r)]

-------------------------------------------------------------------------------
Init ==
    /\ certificate = [status |-> "active", suspended |-> FALSE,
                      revocation |-> FALSE]
    /\ source \in Sources
    /\ developer = [status |-> "active", verified |-> TRUE]
    /\ Trust!Init
    /\ request = [r \in Readers |-> IdleRequest]
    /\ clock = 0
    /\ history = [r \in Readers |-> NoHistory]

Tick ==
    /\ clock < MaxTime
    /\ clock' = clock + 1
    /\ UNCHANGED <<certificate, source, developer, trust, request>>

-------------------------------------------------------------------------------
(* The batches that commit meanwhile. *)

\* Mutated form: the batch lacks the row of revocations.
Revoked_NoRow == [status |-> "revoked", suspended |-> FALSE, revocation |-> FALSE]

Revoked == [status |-> "revoked", suspended |-> FALSE, revocation |-> TRUE]

\* store::revoke_certificate
RevokeCertificate ==
    /\ certificate.status = "active"
    /\ certificate' = Revoked
    /\ UNCHANGED <<source, developer, trust, request, clock>>

\* store::set_certificate_suspension, whose request may have read the status
\* long before: it may suspend what has been revoked since.
SetCertificateSuspension(suspend) ==
    /\ certificate' = [certificate EXCEPT !.suspended = suspend]
    /\ UNCHANGED <<source, developer, trust, request, clock>>

\* admin_set_developer_suspension
SetDeveloperSuspension(suspend) ==
    /\ developer' = [developer EXCEPT
                        !.status = IF suspend THEN "suspended" ELSE "active"]
    /\ UNCHANGED <<certificate, source, trust, request, clock>>

\* admin_verification
UpdateVerification(verified) ==
    /\ developer' = [developer EXCEPT !.verified = verified]
    /\ UNCHANGED <<certificate, source, trust, request, clock>>

\* Registrations and status changes of issuers.
ChangeTrust ==
    /\ \E w \in TrustWorkers :
          \/ \E s \in signed : Trust!StartRegister(w, s)
          \/ Trust!ValidateAgainstCurrent(w)
          \/ Trust!ValidateAgainstRegistry(w)
          \/ Trust!ConsumeJti(w)
          \/ Trust!RegisterTrustSnapshot(w)
          \/ Trust!RefuseRegister(w)
          \/ \E i \in Issuers, desired \in {"active", "retired", "revoked"} :
                Trust!StartStatusChange(w, i, desired)
          \/ Trust!SetIssuerStatus(w)
          \/ Trust!End(w)
    /\ UNCHANGED <<certificate, source, developer, request, clock>>

-------------------------------------------------------------------------------
(* certificate_status, read by read. *)

tables == <<certificate, source, developer, trust>>

\* The certificate's row is read (in it "revoked" comes before "suspended"),
\* then the clock.
ReadCertificate(r) ==
    /\ At(r, "idle")
    /\ IF certificate.status = "revoked"
       THEN Answer(r, "CERTIFICATE_REVOKED")
       ELSE request' = [request EXCEPT
               ![r] = [pc |-> "read_revocation", suspended |-> certificate.suspended,
                       at |-> clock, snapshot |-> NoSnapshot, answer |-> "none"]]
    /\ UNCHANGED <<tables, clock>>

\* Mutated form: a certificate is good to the end of its last second.
PastEnd_Late(at) == NotAfter < at

PastEnd(at) == NotAfter <= at

ReadRevocation(r) ==
    /\ At(r, "read_revocation")
    /\ IF certificate.revocation THEN Answer(r, "CERTIFICATE_REVOKED")
       ELSE IF request[r].suspended THEN Answer(r, "CERTIFICATE_SUSPENDED")
       ELSE IF PastEnd(request[r].at) THEN Answer(r, "CERTIFICATE_EXPIRED")
       ELSE Goto(r, "read_developer")
    /\ UNCHANGED <<tables, clock>>

\* A legacy certificate is verified with the Root's key and answered here.
ReadDeveloper(r) ==
    /\ At(r, "read_developer")
    /\ IF developer.status # "active" THEN Answer(r, "DEVELOPER_SUSPENDED")
       ELSE IF ~ developer.verified THEN Answer(r, "DEVELOPER_NOT_VERIFIED")
       ELSE IF source = "legacy_root" THEN Answer(r, "VALID")
       ELSE Goto(r, "read_trust")
    /\ UNCHANGED <<tables, clock>>

\* Mutated form: a retired issuer vouches no longer.
Vouches_ActiveOnly(s) == s.issuers[Issuer] = "active"

Vouches(s) == s.issuers[Issuer] \in {"active", "retired"}

\* TrustSnapshot::verify refuses an expired snapshot.
Verifies(s, at) == TrustExpiry[s.version] > at

\* The issuer's key usages and validity are left out.
ReadTrust(r) ==
    /\ At(r, "read_trust")
    /\ IF current = NoSnapshot THEN Answer(r, "ISSUER_UNKNOWN")
       ELSE IF ~ Verifies(current, request[r].at) THEN Answer(r, "ISSUER_UNKNOWN")
       ELSE IF current.issuers[Issuer] = "revoked" THEN Answer(r, "ISSUER_REVOKED")
       ELSE IF ~ Vouches(current) THEN Answer(r, "ISSUER_UNKNOWN")
       ELSE request' = [request EXCEPT
               ![r] = [pc |-> "read_issuer", suspended |-> request[r].suspended,
                       at |-> request[r].at, snapshot |-> current,
                       answer |-> "none"]]
    /\ UNCHANGED <<tables, clock>>

\* Mutated form: the row's version is not compared with the snapshot's.
Agrees_AnyVersion(row, s) == row.status = s.issuers[Issuer]

Agrees(row, s) == row.status = s.issuers[Issuer] /\ row.version = s.version

ReadIssuer(r) ==
    LET row == registry[Issuer]
    IN  /\ At(r, "read_issuer")
        /\ IF row.status = "absent" THEN Answer(r, "ISSUER_UNKNOWN")
           ELSE IF row.status = "revoked" THEN Answer(r, "ISSUER_REVOKED")
           ELSE IF ~ Agrees(row, request[r].snapshot) THEN Answer(r, "METADATA_MISMATCH")
           ELSE Answer(r, "VALID")
        /\ UNCHANGED <<tables, clock>>

\* The answer is sent, or the isolate dies or a call fails at any await.
End(r) ==
    /\ ~ At(r, "idle")
    /\ request' = [request EXCEPT ![r] = IdleRequest]
    /\ UNCHANGED <<tables, clock>>

Step ==
    \/ Tick
    \/ RevokeCertificate
    \/ \E suspend \in BOOLEAN : SetCertificateSuspension(suspend)
    \/ \E suspend \in BOOLEAN : SetDeveloperSuspension(suspend)
    \/ \E verified \in BOOLEAN : UpdateVerification(verified)
    \/ ChangeTrust
    \/ \E r \in Readers :
          \/ ReadCertificate(r)
          \/ ReadRevocation(r)
          \/ ReadDeveloper(r)
          \/ ReadTrust(r)
          \/ ReadIssuer(r)
          \/ End(r)

Next == Step /\ Record

Spec == Init /\ [][Next]_vars

-------------------------------------------------------------------------------
(* Properties. *)

\* Every variable keeps its type; the trust tables satisfy TrustRegistry's
\* type invariant, and the status column agrees with the revocation row.
TypeOK ==
    /\ certificate \in Certificate
    /\ source \in Sources
    /\ developer \in Developer
    /\ Trust!TypeOK
    /\ request \in [Readers -> Requests]
    /\ clock \in Nat
    /\ history \in [Readers -> Histories]
    /\ certificate.revocation <=> certificate.status = "revoked"

\* VALID is never answered of a certificate that one and the same ground spoke
\* against from the first read to the last: a revocation, a suspension, the end
\* of its validity, its developer, a snapshot that has expired or does not vouch
\* for its issuer, a registered snapshot that revoked the issuer, an issuer that
\* is not registered as good.  Registrations and status changes may race and roll
\* back meanwhile; only of the Root is it assumed that it signs successors.
ValidOnlyIfOnceGood ==
    Trust!Disciplined(signed) =>
        \A r \in Readers :
            request[r].answer = "VALID" => history[r].always = {}

\* The other direction: a certificate that nothing speaks against at any
\* moment of the request is answered VALID, whatever commits between its reads
\* (registrations that replace the snapshot or retire the issuer included),
\* unless a trust batch commits between the reads of the snapshot and of the
\* issuer, or the two disagreed already.
GoodIsValid ==
    \A r \in Readers :
        history[r].good => request[r].answer \in {"none", "VALID"}
===============================================================================
