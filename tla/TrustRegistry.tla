----------------------------- MODULE TrustRegistry -----------------------------
(***************************************************************************)
(* Root-signed trust snapshots, the issuer registry kept beside them, and  *)
(* the check every use of an issuer makes against both.                    *)
(*                                                                         *)
(* Registering a snapshot validates it against two reads (the current      *)
(* snapshot, then the registry) and commits later, in one batch whose only *)
(* guard is the key on snapshot_version.  Changing an issuer's status      *)
(* reads the current snapshot and later updates the registry without a     *)
(* guard.  Signing a certificate, building a revocation list and answering *)
(* a status query read the snapshot, then the registry, and compare.       *)
(***************************************************************************)
EXTENDS Naturals

CONSTANTS
    Issuers,      \* issuers.key_id, numbered in the order of the keys
    Workers,      \* requests in flight at the same time
    SignedSets,   \* what the Root may have signed: sets of snapshots
    MaxVersion,   \* bound on snapshot_version
    NoSnapshot

Statuses == {"future", "active", "retired", "revoked"}

\* What a trust snapshot says: its version and each issuer's status.
Snapshots == [version: 1 .. MaxVersion,
              issuers: [Issuers -> Statuses \cup {"absent"}]]

ASSUME TrustAssumption ==
    /\ Issuers \subseteq Nat
    /\ MaxVersion \in Nat
    /\ \A S \in SignedSets : S \subseteq Snapshots
    /\ NoSnapshot \notin Snapshots

VARIABLES
    signed,      \* the snapshots the Root has signed
    registered,  \* rows of trust_snapshots
    current,     \* the row with is_current = 1, or NoSnapshot
    registry,    \* rows of issuers: status and trust_snapshot_version
    request

vars == <<signed, registered, current, registry, request>>

Registries == [Issuers -> [status: Statuses \cup {"absent"},
                           version: 0 .. MaxVersion]]

\* A request: the await it stands at, the snapshot it submits or has read, and
\* for a request about one issuer that issuer, the status it needs, and
\* (observed, not stored by the program) the issuers that a registered
\* snapshot had revoked when the request read the current one.
Requests == [pc: {"idle", "read_current", "read_issuers", "consume_register",
                  "register", "consume_status", "set_status", "read_registry",
                  "accepted"},
             snapshot: Snapshots \cup {NoSnapshot},
             issuer: Issuers \cup {0},
             desired: Statuses,
             knownRevoked: SUBSET Issuers]

IdleRequest == [pc |-> "idle", snapshot |-> NoSnapshot, issuer |-> 0,
                desired |-> "future", knownRevoked |-> {}]

At(w, pc) == request[w].pc = pc
Goto(w, pc) == request' = [request EXCEPT ![w].pc = pc]
Finish(w) == request' = [request EXCEPT ![w] = IdleRequest]

tables == <<signed, registered, current, registry>>

-------------------------------------------------------------------------------
(* Validation. *)

\* issuer_transition_allowed and transition_allowed
TransitionAllowed(old, new) ==
    \/ old = new
    \/ old = "future" /\ new \in {"active", "revoked"}
    \/ old = "active" /\ new \in {"retired", "revoked"}
    \/ old = "retired" /\ new = "revoked"

AtMostOneActive(status) ==
    \A i, j \in Issuers :
        status[i] = "active" /\ status[j] = "active" => i = j

\* validate_trust_successor.  The generation time, which must not decrease
\* either, is left out.
ValidSuccessor(old, new) ==
    /\ new.version > old.version
    /\ \A i \in Issuers : old.issuers[i] # "absent" =>
          /\ new.issuers[i] # "absent"
          /\ TransitionAllowed(old.issuers[i], new.issuers[i])

\* The loop over the registry's rows in admin_register_trust_snapshot.
FitsRegistry(snapshot, rows) ==
    \A i \in Issuers : rows[i].status # "absent" =>
        /\ snapshot.issuers[i] # "absent"
        /\ TransitionAllowed(rows[i].status, snapshot.issuers[i])

\* A Root operator who signs each version once, as a successor of all the
\* versions signed before.  The offline tool does not enforce it.
Disciplined(S) ==
    \A s, t \in S : s = t \/ ValidSuccessor(s, t) \/ ValidSuccessor(t, s)

-------------------------------------------------------------------------------
Init ==
    /\ signed \in SignedSets
    /\ registered = {}
    /\ current = NoSnapshot
    /\ registry = [i \in Issuers |-> [status |-> "absent", version |-> 0]]
    /\ request = [w \in Workers |-> IdleRequest]

\* admin_register_trust_snapshot: the signature is the Root's, and
\* validate_trust holds of the content.
StartRegister(w, s) ==
    /\ At(w, "idle")
    /\ AtMostOneActive(s.issuers)
    /\ request' = [request EXCEPT ![w].pc = "read_current",
                                  ![w].snapshot = s]
    /\ UNCHANGED tables

\* Mutated form: the current snapshot is not looked at.
ValidateAgainstCurrent_Skipped(w) ==
    At(w, "read_current") /\ Goto(w, "read_issuers") /\ UNCHANGED tables

ValidateAgainstCurrent(w) ==
    /\ At(w, "read_current")
    /\ IF current # NoSnapshot => ValidSuccessor(current, request[w].snapshot)
       THEN Goto(w, "read_issuers")
       ELSE Finish(w)
    /\ UNCHANGED tables

ValidateAgainstRegistry(w) ==
    /\ At(w, "read_issuers")
    /\ IF FitsRegistry(request[w].snapshot, registry)
       THEN Goto(w, "consume_register")
       ELSE Finish(w)
    /\ UNCHANGED tables

\* The admin token's jti is consumed, or was already used.
ConsumeJti(w) ==
    /\ \/ At(w, "consume_register") /\ Goto(w, "register")
       \/ At(w, "consume_status") /\ Goto(w, "set_status")
       \/ (At(w, "consume_register") \/ At(w, "consume_status")) /\ Finish(w)
    /\ UNCHANGED tables

\* Mutated form: a row is replaced whatever version it comes from.
Upsert_Unconditional(s, i, row) ==
    IF s.issuers[i] # "absent"
    THEN [status |-> s.issuers[i], version |-> s.version]
    ELSE row

\* Mutated form: the statement forgets trust_snapshot_version.
Upsert_KeepsVersion(s, i, row) ==
    IF s.issuers[i] # "absent" /\ (row.status = "absent" \/ row.version < s.version)
    THEN [status |-> s.issuers[i], version |-> row.version]
    ELSE row

\* INSERT ... ON CONFLICT(key_id) DO UPDATE ... WHERE the row's
\* trust_snapshot_version is lower.
Upsert(s, i, row) ==
    IF s.issuers[i] # "absent" /\ (row.status = "absent" \/ row.version < s.version)
    THEN [status |-> s.issuers[i], version |-> s.version]
    ELSE row

\* The registry after the statements for the issuers up to last.
AfterUpserts(s, last) ==
    [i \in Issuers |-> IF i <= last THEN Upsert(s, i, registry[i])
                       ELSE registry[i]]

\* idx_issuers_single_active, checked at the end of every statement.
KeepsActiveIndex(rows) ==
    AtMostOneActive([i \in Issuers |-> rows[i].status])

\* A violated key or index anywhere in the batch undoes all of it.
BatchFails(s) ==
    \/ \E t \in registered : t.version = s.version
    \/ \E last \in Issuers : ~ KeepsActiveIndex(AfterUpserts(s, last))

RegisterTrustSnapshot(w) ==
    LET s == request[w].snapshot
    IN  /\ At(w, "register")
        /\ ~ BatchFails(s)
        /\ registered' = registered \cup {s}
        /\ current' = s
        /\ registry' = [i \in Issuers |-> Upsert(s, i, registry[i])]
        /\ Finish(w)
        /\ UNCHANGED signed

RefuseRegister(w) ==
    /\ At(w, "register")
    /\ BatchFails(request[w].snapshot)
    /\ Finish(w)
    /\ UNCHANGED tables

\* Mutated form: the signed status is not asked for.
SignedStatus_Any(i, desired) == TRUE

SignedStatus(i, desired) == current.issuers[i] = desired

\* admin_change_issuer_status: the current snapshot must give the issuer the
\* desired status.
StartStatusChange(w, i, desired) ==
    /\ At(w, "idle")
    /\ current # NoSnapshot
    /\ SignedStatus(i, desired)
    /\ request' = [request EXCEPT ![w].pc = "consume_status",
                                  ![w].issuer = i, ![w].desired = desired]
    /\ UNCHANGED tables

\* set_issuer_status: an UPDATE by key alone.  The index refuses a second
\* active issuer, and an unknown key updates nothing.
StatusChanged(i, new) ==
    IF registry[i].status = "absent" THEN registry
    ELSE [registry EXCEPT ![i].status = new]

SetIssuerStatus(w) ==
    LET rows == StatusChanged(request[w].issuer, request[w].desired)
    IN  /\ At(w, "set_status")
        /\ registry' = IF KeepsActiveIndex(rows) THEN rows ELSE registry
        /\ Finish(w)
        /\ UNCHANGED <<signed, registered, current>>

-------------------------------------------------------------------------------
(* Using an issuer: active_certificate_signer (needs "active"), the first   *)
(* half of build_revocation_snapshot and the last of certificate_status     *)
(* ("active" or "retired").                                                 *)

RevokedByRoot == {i \in Issuers :
                     \E s \in registered : s.issuers[i] = "revoked"}

\* The current snapshot is read, and gives the issuer the needed status.
StartUse(w, i, needed) ==
    /\ At(w, "idle")
    /\ current # NoSnapshot
    /\ current.issuers[i] \in needed
    /\ request' = [request EXCEPT ![w] =
          [pc |-> "read_registry", snapshot |-> current, issuer |-> i,
           desired |-> current.issuers[i], knownRevoked |-> RevokedByRoot]]
    /\ UNCHANGED tables

\* Mutated form: the row's version is not compared with the snapshot's.
RegistryAgrees_AnyVersion(s, i) == registry[i].status = s.issuers[i]

RegistryAgrees(s, i) ==
    registry[i].status = s.issuers[i] /\ registry[i].version = s.version

\* The registry's row is read and compared with the snapshot read before.
FinishUse(w) ==
    /\ At(w, "read_registry")
    /\ IF RegistryAgrees(request[w].snapshot, request[w].issuer)
       THEN Goto(w, "accepted")
       ELSE Finish(w)
    /\ UNCHANGED tables

\* The answer is sent, or the isolate dies or a call fails at any await.
End(w) ==
    /\ ~ At(w, "idle")
    /\ Finish(w)
    /\ UNCHANGED tables

Next ==
    \E w \in Workers :
        \/ \E s \in signed : StartRegister(w, s)
        \/ ValidateAgainstCurrent(w)
        \/ ValidateAgainstRegistry(w)
        \/ ConsumeJti(w)
        \/ RegisterTrustSnapshot(w)
        \/ RefuseRegister(w)
        \/ \E i \in Issuers, desired \in Statuses \ {"future"} :
              StartStatusChange(w, i, desired)
        \/ SetIssuerStatus(w)
        \/ \E i \in Issuers, needed \in {{"active"}, {"active", "retired"}} :
              StartUse(w, i, needed)
        \/ FinishUse(w)
        \/ End(w)

Spec == Init /\ [][Next]_vars

-------------------------------------------------------------------------------
(* Properties. *)

\* Every variable keeps its type; the current row is a registered one, no two
\* registered rows have the same version, and an issuer's row names a version.
TypeOK ==
    /\ signed \subseteq Snapshots
    /\ registered \subseteq signed
    /\ current \in registered \cup {NoSnapshot}
    /\ registry \in Registries
    /\ request \in [Workers -> Requests]
    /\ \A i \in Issuers : registry[i].status = "absent" <=> registry[i].version = 0
    /\ \A s, t \in registered : s.version = t.version => s = t

\* The registry never lags behind a registered snapshot: whatever order
\* concurrent registrations commit in, an issuer named by a registered
\* snapshot has a row at least as recent.
RegistryNotBehind ==
    \A s \in registered, i \in Issuers :
        s.issuers[i] # "absent" => /\ registry[i].status # "absent"
                                   /\ registry[i].version >= s.version

\* Once a snapshot revoking an issuer has been registered, no later use of
\* that issuer is accepted, even when concurrent requests make an older
\* snapshot current again or set its registry row back to active, as long as
\* the Root signed the versions as successors of each other.
RevokedIssuerIsRefused ==
    Disciplined(signed) =>
        \A w \in Workers :
            At(w, "accepted") => request[w].issuer \notin request[w].knownRevoked

Registering(w) ==
    request[w].pc \in {"read_current", "read_issuers", "consume_register", "register"}

ChangingStatus(w) == request[w].pc \in {"consume_status", "set_status"}

OneRegistration ==
    \A v, w \in Workers : Registering(v) /\ Registering(w) => v = w

\* No two administrative requests at a time; uses of issuers run beside them.
OneAdministrator ==
    LET Administers(w) == Registering(w) \/ ChangingStatus(w)
    IN  \A v, w \in Workers : Administers(v) /\ Administers(w) => v = w

SerialSpec == Init /\ [][Next /\ OneAdministrator']_vars

\* The current snapshot is only replaced by a valid successor: no rollback, no
\* omitted issuer, no return from revoked.
TrustNeverRollsBack ==
    [][current # NoSnapshot =>
          current' = current \/ ValidSuccessor(current, current')]_vars

\* The registry's rows are exactly the current snapshot's issuers, with its
\* version: one administrative request at a time leaves nothing to disagree about.
RegistryMatchesCurrent ==
    \A i \in Issuers :
        IF current = NoSnapshot \/ current.issuers[i] = "absent"
        THEN registry[i].status = "absent"
        ELSE registry[i] = [status |-> current.issuers[i],
                            version |-> current.version]

\* With one administrative request at a time, a registration that passed both
\* validations is undone by its own batch in one case only: it activates an
\* issuer whose key sorts before that of the issuer it takes over from.  The
\* rows are written in the order of the keys, and the index is checked after
\* each.
UndoneByKeyOrder ==
    \A w \in Workers : At(w, "register") =>
        LET s == request[w].snapshot
        IN  BatchFails(s) <=> \E i, j \in Issuers :
                /\ i < j
                /\ s.issuers[i] = "active"
                /\ registry[j].status = "active"

===============================================================================
