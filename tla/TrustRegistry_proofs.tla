------------------------- MODULE TrustRegistry_proofs --------------------------
(***************************************************************************)
(* Proofs about module TrustRegistry, for any set of issuers, of signed    *)
(* snapshots and of concurrent requests.                                   *)
(*                                                                         *)
(* The argument for revoked issuers: an issuer's registry row is never     *)
(* older than a registered snapshot that names it.  A use of the issuer    *)
(* compares the row's version with the snapshot it read, so that snapshot  *)
(* is at least as recent as the one that revoked the issuer, and a         *)
(* successor of that one revokes the issuer too.                           *)
(***************************************************************************)
EXTENDS TrustRegistry, TLAPS

OneActiveIssuer == AtMostOneActive([i \in Issuers |-> registry[i].status])

RequestInv(r) ==
    /\ r.pc \in {"read_current", "read_issuers", "consume_register", "register"}
          => r.snapshot \in signed
    /\ r.pc \in {"consume_status", "set_status"} => r.issuer \in Issuers
    /\ r.pc = "read_registry" =>
          /\ r.snapshot \in registered
          /\ r.issuer \in Issuers
          /\ r.snapshot.issuers[r.issuer] # "revoked"
          /\ r.snapshot.issuers[r.issuer] # "absent"
          /\ r.knownRevoked \subseteq RevokedByRoot
    /\ r.pc = "accepted" /\ Disciplined(signed) => r.issuer \notin r.knownRevoked

IInv ==
    /\ TypeOK
    /\ RegistryNotBehind
    /\ OneActiveIssuer
    /\ \A w \in Workers : RequestInv(request[w])

-------------------------------------------------------------------------------
LEMMA InitIInv == Init => IInv
<1> SUFFICES ASSUME Init PROVE IInv
  OBVIOUS
<1>1. TypeOK
  BY TrustAssumption DEF Init, TypeOK, Registries, Requests, IdleRequest, Statuses
<1>2. RegistryNotBehind /\ OneActiveIssuer
  BY DEF Init, RegistryNotBehind, OneActiveIssuer, AtMostOneActive
<1>3. \A w \in Workers : RequestInv(request[w])
  BY DEF Init, IdleRequest, RequestInv
<1>. QED BY <1>1, <1>2, <1>3 DEF IInv

\* A step that only moves one request.
LEMMA OnlyRequestChanges ==
    ASSUME IInv, NEW w \in Workers, NEW r \in Requests, RequestInv(r),
           request' = [request EXCEPT ![w] = r], UNCHANGED tables
    PROVE  IInv'
<1>1. TypeOK'
  BY DEF IInv, TypeOK, tables
<1>2. RegistryNotBehind' /\ OneActiveIssuer'
  BY DEF IInv, tables, RegistryNotBehind, OneActiveIssuer, AtMostOneActive
<1>3. ASSUME NEW v \in Workers PROVE RequestInv(request[v])'
  <2>1. request'[v] = IF v = w THEN r ELSE request[v]
    BY DEF IInv, TypeOK
  <2>2. RequestInv(request[v])
    BY DEF IInv
  <2>. QED BY <2>1, <2>2 DEF RequestInv, tables, RevokedByRoot
<1>. QED BY <1>1, <1>2, <1>3 DEF IInv

LEMMA FinishKeepsIInv ==
    ASSUME IInv, NEW w \in Workers, Finish(w), UNCHANGED tables
    PROVE  IInv'
<1>1. IdleRequest \in Requests /\ RequestInv(IdleRequest)
  BY DEF IdleRequest, Requests, RequestInv, Statuses
<1>. QED BY <1>1, OnlyRequestChanges DEF Finish

\* Moving on without a change of what the request holds.
LEMMA GotoKeepsIInv ==
    ASSUME IInv, NEW w \in Workers, NEW pc, Goto(w, pc), UNCHANGED tables,
           \/ At(w, "read_current") /\ pc = "read_issuers"
           \/ At(w, "read_issuers") /\ pc = "consume_register"
           \/ At(w, "consume_register") /\ pc = "register"
           \/ At(w, "consume_status") /\ pc = "set_status"
           \/ /\ At(w, "read_registry") /\ pc = "accepted"
              /\ Disciplined(signed) =>
                    request[w].issuer \notin request[w].knownRevoked
    PROVE  IInv'
<1> DEFINE r == [request[w] EXCEPT !.pc = pc]
<1>1. request[w] \in Requests /\ RequestInv(request[w])
  BY DEF IInv, TypeOK
<1>2. r \in Requests
  BY <1>1 DEF Requests
<1>3. /\ r.pc = pc /\ r.snapshot = request[w].snapshot
      /\ r.issuer = request[w].issuer
      /\ r.knownRevoked = request[w].knownRevoked
  BY <1>1 DEF Requests
<1>4. request' = [request EXCEPT ![w] = r]
  BY <1>1 DEF Goto
<1>. HIDE DEF r
<1>5. RequestInv(r)
  BY <1>1, <1>3 DEF RequestInv, At
<1>. QED BY <1>2, <1>4, <1>5, OnlyRequestChanges

\* The version comparison is what keeps a revoked issuer out.
LEMMA AgreementExcludesRevoked ==
    ASSUME IInv, NEW w \in Workers, At(w, "read_registry"),
           RegistryAgrees(request[w].snapshot, request[w].issuer),
           Disciplined(signed)
    PROVE  request[w].issuer \notin request[w].knownRevoked
<1> DEFINE s == request[w].snapshot
           i == request[w].issuer
<1>1. /\ s \in registered /\ i \in Issuers
      /\ s.issuers[i] # "revoked" /\ s.issuers[i] # "absent"
      /\ request[w].knownRevoked \subseteq RevokedByRoot
  BY DEF IInv, RequestInv, At
<1>2. SUFFICES ASSUME NEW t \in registered, t.issuers[i] = "revoked"
               PROVE  FALSE
  BY <1>1 DEF RevokedByRoot
<1>3. registry[i].version >= t.version
  BY <1>1, <1>2 DEF IInv, RegistryNotBehind
<1>4. registry[i].version = s.version
  BY DEF RegistryAgrees
<1>5. s \in Snapshots /\ t \in Snapshots /\ s \in signed /\ t \in signed
  BY <1>1, <1>2 DEF IInv, TypeOK
<1>6. s.version \in Nat /\ t.version \in Nat
  BY <1>5, TrustAssumption DEF Snapshots
<1>7. ~ ValidSuccessor(s, t)
  BY <1>3, <1>4, <1>6 DEF ValidSuccessor
<1>8. ~ ValidSuccessor(t, s)
  BY <1>1, <1>2 DEF ValidSuccessor, TransitionAllowed
<1>9. s # t
  BY <1>1, <1>2
<1>. QED BY <1>5, <1>7, <1>8, <1>9 DEF Disciplined

-------------------------------------------------------------------------------
(* The two steps that write. *)

LEMMA UpsertFacts ==
    ASSUME NEW s \in Snapshots, NEW i \in Issuers, NEW row,
           row \in [status: Statuses \cup {"absent"}, version: 0 .. MaxVersion],
           row.status = "absent" <=> row.version = 0
    PROVE  LET new == Upsert(s, i, row)
           IN  /\ new \in [status: Statuses \cup {"absent"},
                           version: 0 .. MaxVersion]
               /\ new.status = "absent" <=> new.version = 0
               /\ new.version >= row.version
               /\ s.issuers[i] # "absent" => /\ new.status # "absent"
                                             /\ new.version >= s.version
BY TrustAssumption DEF Upsert, Snapshots

LEMMA RegisterKeepsIInv ==
    ASSUME IInv, NEW w \in Workers, RegisterTrustSnapshot(w)
    PROVE  IInv'
<1> DEFINE s == request[w].snapshot
<1>1. s \in signed /\ s \in Snapshots
  BY DEF RegisterTrustSnapshot, At, IInv, RequestInv, TypeOK
<1>2. /\ registered' = registered \cup {s} /\ current' = s /\ signed' = signed
      /\ registry' = [i \in Issuers |-> Upsert(s, i, registry[i])]
      /\ Finish(w) /\ ~ BatchFails(s)
  BY DEF RegisterTrustSnapshot
<1>. HIDE DEF s
<1>3. ASSUME NEW i \in Issuers
      PROVE  /\ registry'[i] \in [status: Statuses \cup {"absent"},
                                  version: 0 .. MaxVersion]
             /\ registry'[i].status = "absent" <=> registry'[i].version = 0
             /\ registry'[i].version >= registry[i].version
             /\ s.issuers[i] # "absent" => /\ registry'[i].status # "absent"
                                           /\ registry'[i].version >= s.version
  <2>1. /\ registry[i] \in [status: Statuses \cup {"absent"},
                            version: 0 .. MaxVersion]
        /\ registry[i].status = "absent" <=> registry[i].version = 0
    BY DEF IInv, TypeOK, Registries
  <2>2. registry'[i] = Upsert(s, i, registry[i])
    BY <1>2
  <2>. QED BY <1>1, <2>1, <2>2, UpsertFacts
<1>4. TypeOK'
  <2>1. registry' \in Registries
    BY <1>2, <1>3 DEF Registries
  <2>2. request' \in [Workers -> Requests]
    BY <1>2 DEF Finish, IInv, TypeOK, Requests, IdleRequest, Statuses
  <2>3. \A t, u \in registered' : t.version = u.version => t = u
    BY <1>2 DEF IInv, TypeOK, BatchFails
  <2>. QED BY <1>1, <1>2, <1>3, <2>1, <2>2, <2>3 DEF IInv, TypeOK
<1>5. RegistryNotBehind'
  <2> SUFFICES ASSUME NEW t \in registered', NEW i \in Issuers,
                      t.issuers[i] # "absent"
               PROVE  registry'[i].status # "absent"
                      /\ registry'[i].version >= t.version
    BY DEF RegistryNotBehind
  <2>1. CASE t = s
    BY <2>1, <1>3
  <2>2. CASE t \in registered
    <3>1. registry[i].version >= t.version /\ registry[i].status # "absent"
      BY <2>2 DEF IInv, RegistryNotBehind
    <3>2. /\ registry[i].version \in 0 .. MaxVersion
          /\ registry'[i].version \in 0 .. MaxVersion
          /\ registry[i].status = "absent" <=> registry[i].version = 0
      BY <1>3 DEF IInv, TypeOK, Registries
    <3>3. t.version \in Nat
      BY <2>2, TrustAssumption DEF IInv, TypeOK, Snapshots
    <3>. QED BY <3>1, <3>2, <3>3, <1>3, TrustAssumption
  <2>. QED BY <1>2, <2>1, <2>2
<1>6. OneActiveIssuer'
  <2> SUFFICES ASSUME NEW i \in Issuers, NEW j \in Issuers,
                      registry'[i].status = "active",
                      registry'[j].status = "active"
               PROVE  i = j
    BY DEF OneActiveIssuer, AtMostOneActive
  <2>1. PICK last \in Issuers : i <= last /\ j <= last
    BY TrustAssumption
  <2> DEFINE rows == AfterUpserts(s, last)
  <2>2. KeepsActiveIndex(rows)
    BY <1>2 DEF BatchFails
  <2>3. rows[i] = registry'[i] /\ rows[j] = registry'[j]
    BY <1>2, <2>1 DEF AfterUpserts
  <2>. HIDE DEF rows
  <2>. QED BY <2>2, <2>3 DEF KeepsActiveIndex, AtMostOneActive
<1>7. ASSUME NEW v \in Workers PROVE RequestInv(request[v])'
  <2>1. CASE v = w
    <3>1. request'[v] = IdleRequest
      BY <1>2, <2>1 DEF Finish, IInv, TypeOK
    <3>. QED BY <3>1 DEF IdleRequest, RequestInv
  <2>2. CASE v # w
    <3>1. request'[v] = request[v] /\ RequestInv(request[v])
      BY <1>2, <2>2 DEF Finish, IInv, TypeOK
    <3>2. RevokedByRoot \subseteq RevokedByRoot'
      BY <1>2 DEF RevokedByRoot
    <3>. QED BY <1>2, <3>1, <3>2 DEF RequestInv
  <2>. QED BY <2>1, <2>2
<1>. QED BY <1>4, <1>5, <1>6, <1>7 DEF IInv

LEMMA SetIssuerStatusKeepsIInv ==
    ASSUME IInv, NEW w \in Workers, SetIssuerStatus(w)
    PROVE  IInv'
<1> DEFINE i == request[w].issuer
           new == request[w].desired
<1>1. /\ i \in Issuers /\ new \in Statuses
  BY DEF SetIssuerStatus, At, IInv, RequestInv, TypeOK, Requests
<1>2. /\ Finish(w) /\ UNCHANGED <<signed, registered, current>>
      /\ registry' = registry \/ registry' = StatusChanged(i, new)
      /\ registry' # registry => KeepsActiveIndex(registry')
  BY DEF SetIssuerStatus
<1>. HIDE DEF i, new
<1>3. registry \in Registries
  BY DEF IInv, TypeOK
<1>4. \A j \in Issuers : /\ registry'[j].version = registry[j].version
                         /\ registry'[j].status = "absent"
                               <=> registry[j].status = "absent"
  BY <1>1, <1>2, <1>3 DEF StatusChanged, Registries, Statuses
<1>5. registry' \in Registries
  BY <1>1, <1>2, <1>3 DEF StatusChanged, Registries
<1>6. TypeOK'
  BY <1>2, <1>4, <1>5 DEF Finish, IInv, TypeOK, Requests, IdleRequest, Statuses
<1>7. RegistryNotBehind'
  BY <1>2, <1>4 DEF IInv, RegistryNotBehind
<1>8. OneActiveIssuer'
  BY <1>2 DEF IInv, OneActiveIssuer, KeepsActiveIndex
<1>9. ASSUME NEW v \in Workers PROVE RequestInv(request[v])'
  <2>1. CASE v = w
    <3>1. request'[v] = IdleRequest
      BY <1>2, <2>1 DEF Finish, IInv, TypeOK
    <3>. QED BY <3>1 DEF IdleRequest, RequestInv
  <2>2. CASE v # w
    <3>1. request'[v] = request[v] /\ RequestInv(request[v])
      BY <1>2, <2>2 DEF Finish, IInv, TypeOK
    <3>. QED BY <1>2, <3>1 DEF RequestInv, RevokedByRoot
  <2>. QED BY <2>1, <2>2
<1>. QED BY <1>6, <1>7, <1>8, <1>9 DEF IInv

-------------------------------------------------------------------------------
LEMMA NextIInv == IInv /\ [Next]_vars => IInv'
<1> SUFFICES ASSUME IInv, [Next]_vars PROVE IInv'
  OBVIOUS
<1>1. ASSUME NEW w \in Workers, NEW s \in signed, StartRegister(w, s)
      PROVE  IInv'
  <2> DEFINE r == [request[w] EXCEPT !.pc = "read_current", !.snapshot = s]
  <2>1. request[w] \in Requests /\ s \in Snapshots
    BY DEF IInv, TypeOK
  <2>2. r \in Requests /\ r.pc = "read_current" /\ r.snapshot = s
    BY <2>1 DEF Requests
  <2>3. request' = [request EXCEPT ![w] = r] /\ UNCHANGED tables
    BY <1>1, <2>1 DEF StartRegister
  <2>. HIDE DEF r
  <2>4. RequestInv(r)
    BY <2>2 DEF RequestInv
  <2>. QED BY <2>2, <2>3, <2>4, OnlyRequestChanges
<1>2. ASSUME NEW w \in Workers, ValidateAgainstCurrent(w) PROVE IInv'
  BY <1>2, FinishKeepsIInv, GotoKeepsIInv DEF ValidateAgainstCurrent
<1>3. ASSUME NEW w \in Workers, ValidateAgainstRegistry(w) PROVE IInv'
  BY <1>3, FinishKeepsIInv, GotoKeepsIInv DEF ValidateAgainstRegistry
<1>4. ASSUME NEW w \in Workers, ConsumeJti(w) PROVE IInv'
  BY <1>4, FinishKeepsIInv, GotoKeepsIInv DEF ConsumeJti
<1>5. ASSUME NEW w \in Workers, RegisterTrustSnapshot(w) PROVE IInv'
  BY <1>5, RegisterKeepsIInv
<1>6. ASSUME NEW w \in Workers, RefuseRegister(w) PROVE IInv'
  BY <1>6, FinishKeepsIInv DEF RefuseRegister
<1>7. ASSUME NEW w \in Workers, NEW i \in Issuers,
             NEW desired \in Statuses \ {"future"},
             StartStatusChange(w, i, desired)
      PROVE  IInv'
  <2> DEFINE r == [request[w] EXCEPT !.pc = "consume_status", !.issuer = i,
                                     !.desired = desired]
  <2>1. request[w] \in Requests
    BY DEF IInv, TypeOK
  <2>2. r \in Requests /\ r.pc = "consume_status" /\ r.issuer = i
    BY <2>1 DEF Requests
  <2>3. request' = [request EXCEPT ![w] = r] /\ UNCHANGED tables
    BY <1>7, <2>1 DEF StartStatusChange
  <2>. HIDE DEF r
  <2>4. RequestInv(r)
    BY <2>2 DEF RequestInv
  <2>. QED BY <2>2, <2>3, <2>4, OnlyRequestChanges
<1>8. ASSUME NEW w \in Workers, SetIssuerStatus(w) PROVE IInv'
  BY <1>8, SetIssuerStatusKeepsIInv
<1>9. ASSUME NEW w \in Workers, NEW i \in Issuers,
             NEW needed \in {{"active"}, {"active", "retired"}},
             StartUse(w, i, needed)
      PROVE  IInv'
  <2> DEFINE r == [pc |-> "read_registry", snapshot |-> current, issuer |-> i,
                   desired |-> current.issuers[i],
                   knownRevoked |-> RevokedByRoot]
  <2>1. current \in registered /\ current \in Snapshots
        /\ current.issuers[i] \in {"active", "retired"}
    BY <1>9 DEF StartUse, IInv, TypeOK
  <2>2. r \in Requests
    BY <2>1 DEF Requests, Statuses, RevokedByRoot
  <2>3. RequestInv(r)
    BY <2>1 DEF RequestInv
  <2>. QED BY <1>9, <2>2, <2>3, OnlyRequestChanges DEF StartUse
<1>10. ASSUME NEW w \in Workers, FinishUse(w) PROVE IInv'
  <2>1. CASE RegistryAgrees(request[w].snapshot, request[w].issuer)
    <3>1. At(w, "read_registry") /\ Goto(w, "accepted") /\ UNCHANGED tables
      BY <1>10, <2>1 DEF FinishUse
    <3>2. Disciplined(signed)
             => request[w].issuer \notin request[w].knownRevoked
      BY <2>1, <3>1, AgreementExcludesRevoked
    <3>. QED BY <3>1, <3>2, GotoKeepsIInv
  <2>2. CASE ~ RegistryAgrees(request[w].snapshot, request[w].issuer)
    BY <1>10, <2>2, FinishKeepsIInv DEF FinishUse
  <2>. QED BY <2>1, <2>2
<1>11. ASSUME NEW w \in Workers, End(w) PROVE IInv'
  BY <1>11, FinishKeepsIInv DEF End
<1>12. CASE UNCHANGED vars
  BY <1>12 DEF vars, IInv, TypeOK, RegistryNotBehind, OneActiveIssuer,
     AtMostOneActive, RequestInv, RevokedByRoot
<1>. QED BY <1>1, <1>2, <1>3, <1>4, <1>5, <1>6, <1>7, <1>8, <1>9, <1>10, <1>11,
         <1>12 DEF Next

\* The inductive invariant holds in every reachable state.
THEOREM Invariance == Spec => []IInv
BY InitIInv, NextIInv, PTL DEF Spec

\* Every registry row, registered snapshot and request in flight keeps its type.
THEOREM TypeCorrectness == Spec => []TypeOK
<1>1. IInv => TypeOK
  BY DEF IInv
<1>. QED BY <1>1, Invariance, PTL

\* The registry never lags behind a registered snapshot.
THEOREM RegistryFreshness == Spec => []RegistryNotBehind
<1>1. IInv => RegistryNotBehind
  BY DEF IInv
<1>. QED BY <1>1, Invariance, PTL

\* An issuer the Root revoked is not accepted by any later use.
THEOREM RevocationOfIssuers == Spec => []RevokedIssuerIsRefused
<1>1. IInv => RevokedIssuerIsRefused
  BY DEF IInv, RequestInv, RevokedIssuerIsRefused, At
<1>. QED BY <1>1, Invariance, PTL

-------------------------------------------------------------------------------
(* Registrations one at a time.  What a registration was validated against  *)
(* is then still there when it commits, whatever status changes and uses    *)
(* run beside it.                                                            *)

Validated == {"read_issuers", "consume_register", "register"}

SuccessorInv ==
    \A w \in Workers : request[w].pc \in Validated /\ current # NoSnapshot =>
        ValidSuccessor(current, request[w].snapshot)

StatusInv ==
    \A w \in Workers : ChangingStatus(w) =>
        current # NoSnapshot /\ SignedStatus(request[w].issuer, request[w].desired)

\* What a step makes of one request.
LEMMA RequestSteps ==
    ASSUME IInv, Next, NEW v \in Workers
    PROVE  /\ \/ UNCHANGED <<current, registry>>
              \/ \E w \in Workers : RegisterTrustSnapshot(w) \/ SetIssuerStatus(w)
           /\ request'[v].pc \in Validated =>
                 /\ request'[v].snapshot = request[v].snapshot
                 /\ \/ request[v].pc \in Validated
                    \/ /\ current # NoSnapshot
                              => ValidSuccessor(current, request[v].snapshot)
                       /\ current' = current
           /\ ChangingStatus(v)' =>
                 \/ /\ ChangingStatus(v)
                    /\ request'[v].issuer = request[v].issuer
                    /\ request'[v].desired = request[v].desired
                 \/ /\ current # NoSnapshot
                    /\ SignedStatus(request'[v].issuer, request'[v].desired)
                    /\ current' = current
<1> PICK w \in Workers :
        \/ \E s \in signed : StartRegister(w, s)
        \/ ValidateAgainstCurrent(w)
        \/ ValidateAgainstRegistry(w)
        \/ ConsumeJti(w)
        \/ RegisterTrustSnapshot(w)
        \/ RefuseRegister(w)
        \/ \E i \in Issuers, desired \in Statuses \ {"future"} :
              StartStatusChange(w, i, desired)
        \/ SetIssuerStatus(w)
        \/ \E i \in Issuers, needed \in {{"active"}, {"active", "retired"}} :
              StartUse(w, i, needed)
        \/ FinishUse(w)
        \/ End(w)
  BY DEF Next
<1> DEFINE q == request[v]
           Claim == /\ request'[v].pc \in Validated =>
                          /\ request'[v].snapshot = q.snapshot
                          /\ \/ q.pc \in Validated
                             \/ /\ current # NoSnapshot => ValidSuccessor(current, q.snapshot)
                                /\ current' = current
                    /\ ChangingStatus(v)' =>
                          \/ /\ ChangingStatus(v)
                             /\ request'[v].issuer = q.issuer
                             /\ request'[v].desired = q.desired
                          \/ /\ current # NoSnapshot
                             /\ SignedStatus(request'[v].issuer, request'[v].desired)
                             /\ current' = current
<1>1. request \in [Workers -> Requests] /\ q \in Requests
  BY DEF IInv, TypeOK
<1>2. \/ UNCHANGED <<current, registry>>
      \/ \E u \in Workers : RegisterTrustSnapshot(u) \/ SetIssuerStatus(u)
  BY DEF StartRegister, ValidateAgainstCurrent, ValidateAgainstRegistry, ConsumeJti,
         RefuseRegister, StartStatusChange, StartUse, FinishUse, End, tables
<1>3. SUFFICES Claim
  BY <1>2
<1>4. CASE v # w
  <2>1. request'[v] = q
    BY <1>1, <1>4 DEF StartRegister, ValidateAgainstCurrent, ValidateAgainstRegistry,
       ConsumeJti, RegisterTrustSnapshot, RefuseRegister, StartStatusChange,
       SetIssuerStatus, StartUse, FinishUse, End, Goto, Finish
  <2>. QED BY <2>1 DEF ChangingStatus
<1>5. CASE v = w
  <2>1. ASSUME Finish(w)
        PROVE  Claim
    <3>1. request'[v].pc = "idle"
      BY <1>1, <1>5, <2>1 DEF Finish, IdleRequest
    <3>. QED BY <3>1 DEF Validated, ChangingStatus
  <2>2. ASSUME NEW pc, Goto(w, pc)
        PROVE  /\ request'[v].pc = pc
               /\ request'[v].snapshot = q.snapshot
               /\ request'[v].issuer = q.issuer
               /\ request'[v].desired = q.desired
    <3>1. PICK r : r = [q EXCEPT !.pc = pc]
      OBVIOUS
    <3>2. /\ r.pc = pc /\ r.snapshot = q.snapshot /\ r.issuer = q.issuer
          /\ r.desired = q.desired
      BY <1>1, <3>1 DEF Requests
    <3>3. request'[v] = r
      BY <1>1, <1>5, <2>2, <3>1 DEF Goto
    <3>. QED BY <3>2, <3>3
  <2>3. CASE \E s \in signed : StartRegister(w, s)
    <3>1. request'[v].pc = "read_current"
      BY <1>1, <1>5, <2>3 DEF StartRegister, Requests
    <3>. QED BY <3>1 DEF Validated, ChangingStatus
  <2>4. CASE ValidateAgainstCurrent(w)
    <3>1. current' = current
      BY <2>4 DEF ValidateAgainstCurrent, tables
    <3>. QED BY <1>5, <2>1, <2>2, <2>4, <3>1
             DEF ValidateAgainstCurrent, Validated, ChangingStatus
  <2>5. CASE ValidateAgainstRegistry(w)
    BY <1>5, <2>1, <2>2, <2>5 DEF ValidateAgainstRegistry, At, Validated, ChangingStatus
  <2>6. CASE ConsumeJti(w)
    BY <1>5, <2>1, <2>2, <2>6 DEF ConsumeJti, At, Validated, ChangingStatus
  <2>7. CASE RegisterTrustSnapshot(w) \/ RefuseRegister(w) \/ SetIssuerStatus(w) \/ End(w)
    BY <2>1, <2>7 DEF RegisterTrustSnapshot, RefuseRegister, SetIssuerStatus, End
  <2>8. CASE \E i \in Issuers, desired \in Statuses \ {"future"} :
                StartStatusChange(w, i, desired)
    <3>1. PICK i \in Issuers, desired \in Statuses \ {"future"} :
              StartStatusChange(w, i, desired)
      BY <2>8
    <3>2. /\ request'[v].pc = "consume_status"
          /\ request'[v].issuer = i /\ request'[v].desired = desired
      BY <1>1, <1>5, <3>1 DEF StartStatusChange, Requests
    <3>. QED BY <3>1, <3>2 DEF StartStatusChange, tables, Validated
  <2>9. CASE \E i \in Issuers, needed \in {{"active"}, {"active", "retired"}} :
                StartUse(w, i, needed)
    <3>1. request'[v].pc = "read_registry"
      BY <1>1, <1>5, <2>9 DEF StartUse
    <3>. QED BY <3>1 DEF Validated, ChangingStatus
  <2>10. CASE FinishUse(w)
    BY <1>5, <2>1, <2>2, <2>10 DEF FinishUse, Validated, ChangingStatus
  <2>. QED BY <2>3, <2>4, <2>5, <2>6, <2>7, <2>8, <2>9, <2>10
<1>. QED BY <1>4, <1>5

\* The request that commits is the one whose registration it was.
LEMMA RegisterAlone ==
    ASSUME IInv, NEW w \in Workers, RegisterTrustSnapshot(w)
    PROVE  /\ request[w].pc = "register" /\ request'[w].pc = "idle"
           /\ \A v \in Workers : v # w => request'[v] = request[v]
BY DEF RegisterTrustSnapshot, At, Finish, IdleRequest, IInv, TypeOK

LEMMA SuccessorStep ==
    ASSUME IInv, OneRegistration, SuccessorInv, [Next]_vars
    PROVE  SuccessorInv'
<1>1. CASE UNCHANGED vars
  BY <1>1 DEF vars, SuccessorInv, ValidSuccessor, TransitionAllowed
<1>2. CASE Next
  <2> SUFFICES ASSUME NEW v \in Workers, request'[v].pc \in Validated,
                      current' # NoSnapshot
               PROVE  ValidSuccessor(current', request'[v].snapshot)
    BY DEF SuccessorInv, ValidSuccessor, TransitionAllowed
  <2>1. /\ request'[v].snapshot = request[v].snapshot
        /\ \/ request[v].pc \in Validated
           \/ /\ current # NoSnapshot => ValidSuccessor(current, request[v].snapshot)
              /\ current' = current
    BY <1>2, RequestSteps
  <2>2. ASSUME request[v].pc \in Validated
        PROVE  current' = current
    <3>1. \A w \in Workers : RegisterTrustSnapshot(w) => v = w
      BY <2>2, RegisterAlone DEF OneRegistration, Registering, Validated
    <3>2. \A w \in Workers : ~ RegisterTrustSnapshot(w)
      BY <3>1, RegisterAlone DEF Validated
    <3>. QED BY <1>2, <3>2, RequestSteps DEF SetIssuerStatus
  <2>. QED BY <2>1, <2>2 DEF SuccessorInv
<1>. QED BY <1>1, <1>2

\* The specification a run checks is an instance of the theorems' premise.
LEMMA SerialIsSpec == SerialSpec => Spec /\ []OneAdministrator
<1>1. Init => OneAdministrator
  BY DEF Init, OneAdministrator, Registering, ChangingStatus, IdleRequest
<1>2. OneAdministrator /\ [Next /\ OneAdministrator']_vars => OneAdministrator'
  BY DEF OneAdministrator, Registering, ChangingStatus, vars
<1>3. [Next /\ OneAdministrator']_vars => [Next]_vars
  OBVIOUS
<1>. QED BY <1>1, <1>2, <1>3, PTL DEF SerialSpec, Spec

LEMMA SuccessorInit == Init => SuccessorInv
BY DEF Init, SuccessorInv, IdleRequest, Validated

\* The current snapshot is replaced by a valid successor only
\* (admin_register_trust_snapshot), if registrations run one at a time: no
\* status change, use or crash beside them makes it roll back.
THEOREM NoRollback == Spec /\ []OneRegistration => TrustNeverRollsBack
<1>1. ASSUME IInv, SuccessorInv, [Next]_vars
      PROVE  [current # NoSnapshot =>
                 current' = current \/ ValidSuccessor(current, current')]_vars
  <2>1. CASE \E w \in Workers : RegisterTrustSnapshot(w)
    BY <1>1, <2>1 DEF RegisterTrustSnapshot, At, SuccessorInv, Validated
  <2>2. CASE \A w \in Workers : ~ RegisterTrustSnapshot(w)
    <3>1. CASE UNCHANGED vars
      BY <3>1
    <3>2. CASE Next
      <4>1. current' = current
        BY <1>1, <2>2, <3>2, RequestSteps DEF SetIssuerStatus, Next
      <4>. QED BY <4>1
    <3>. QED BY <1>1, <3>1, <3>2
  <2>. QED BY <2>1, <2>2
<1>. QED BY <1>1, SuccessorInit, SuccessorStep, Invariance, PTL
         DEF Spec, TrustNeverRollsBack

MatchInv == RegistryMatchesCurrent /\ SuccessorInv /\ StatusInv

LEMMA MatchInit == Init => MatchInv
<1> SUFFICES ASSUME Init
             PROVE  MatchInv
  OBVIOUS
<1>1. RegistryMatchesCurrent
  BY DEF Init, RegistryMatchesCurrent
<1>2. StatusInv
  BY DEF Init, StatusInv, ChangingStatus, IdleRequest
<1>. QED BY <1>1, <1>2, SuccessorInit DEF MatchInv

\* The row of an issuer the current snapshot names.
LEMMA RowOfNamed ==
    ASSUME RegistryMatchesCurrent, NEW i \in Issuers, current # NoSnapshot,
           current.issuers[i] # "absent"
    PROVE  registry[i].status = current.issuers[i] /\ registry[i].version = current.version
<1>1. registry[i] = [status |-> current.issuers[i], version |-> current.version]
  BY DEF RegistryMatchesCurrent
<1>. QED BY <1>1

\* A validated registration replaces every row of the registry.
LEMMA RegisterMatches ==
    ASSUME IInv, MatchInv, NEW w \in Workers, RegisterTrustSnapshot(w)
    PROVE  RegistryMatchesCurrent'
<1> DEFINE s == request[w].snapshot
<1>1. /\ s \in Snapshots
      /\ current' = s
      /\ registry' = [i \in Issuers |-> Upsert(s, i, registry[i])]
      /\ current # NoSnapshot => ValidSuccessor(current, s)
  BY DEF RegisterTrustSnapshot, At, IInv, TypeOK, RequestInv, MatchInv, SuccessorInv,
         Validated
<1>2. s # NoSnapshot
  BY <1>1, TrustAssumption
<1>. HIDE DEF s
<1> SUFFICES ASSUME NEW i \in Issuers
             PROVE  IF s.issuers[i] = "absent"
                    THEN registry'[i].status = "absent"
                    ELSE registry'[i] = [status |-> s.issuers[i], version |-> s.version]
  BY <1>1, <1>2 DEF RegistryMatchesCurrent
<1>3. registry'[i] = Upsert(s, i, registry[i])
  BY <1>1
<1>4. CASE current = NoSnapshot \/ current.issuers[i] = "absent"
  <2>1. registry[i].status = "absent"
    BY <1>4 DEF MatchInv, RegistryMatchesCurrent
  <2>. QED BY <1>3, <2>1 DEF Upsert
<1>5. CASE current # NoSnapshot /\ current.issuers[i] # "absent"
  <2>1. registry[i].version = current.version
    BY <1>5, RowOfNamed DEF MatchInv
  <2>2. current.version < s.version /\ s.issuers[i] # "absent"
    <3>1. current \in Snapshots
      BY <1>5 DEF IInv, TypeOK
    <3>. QED BY <1>1, <1>5, <3>1, TrustAssumption DEF ValidSuccessor, Snapshots
  <2>. QED BY <1>3, <2>1, <2>2 DEF Upsert
<1>. QED BY <1>4, <1>5

\* A status that was signed is already there.
LEMMA StatusMatches ==
    ASSUME IInv, MatchInv, NEW w \in Workers, SetIssuerStatus(w)
    PROVE  registry' = registry
<1> DEFINE i == request[w].issuer
           new == request[w].desired
<1>1. ChangingStatus(w)
  BY DEF SetIssuerStatus, At, ChangingStatus
<1>2. /\ i \in Issuers /\ new \in Statuses
      /\ current # NoSnapshot /\ current.issuers[i] = new
  BY <1>1 DEF ChangingStatus, IInv, TypeOK, Requests, RequestInv, MatchInv, StatusInv,
              SignedStatus
<1>3. registry[i].status = new
  BY <1>2, RowOfNamed DEF MatchInv, Statuses
<1>4. StatusChanged(i, new) = registry
  <2>1. registry \in Registries
    BY DEF IInv, TypeOK
  <2>2. [registry[i] EXCEPT !.status = new] = registry[i]
    BY <1>2, <1>3, <2>1 DEF Registries
  <2>. QED BY <1>2, <2>1, <2>2 DEF StatusChanged, Registries
<1>. QED BY <1>4 DEF SetIssuerStatus

LEMMA MatchStep ==
    ASSUME IInv, OneAdministrator, MatchInv, [Next]_vars
    PROVE  MatchInv'
<1>1. OneRegistration
  BY DEF OneAdministrator, OneRegistration
<1>2. SuccessorInv'
  BY <1>1, SuccessorStep DEF MatchInv
<1>3. CASE UNCHANGED vars
  BY <1>2, <1>3 DEF vars, MatchInv, RegistryMatchesCurrent, StatusInv, ChangingStatus,
                    SignedStatus
<1>4. CASE Next
  <2>1. RegistryMatchesCurrent'
    <3>1. CASE \E w \in Workers : RegisterTrustSnapshot(w)
      BY <3>1, RegisterMatches
    <3>2. CASE \A w \in Workers : ~ RegisterTrustSnapshot(w)
      <4>1. current' = current /\ registry' = registry
        BY <1>4, <3>2, RequestSteps, StatusMatches DEF SetIssuerStatus, Next
      <4>. QED BY <4>1 DEF MatchInv, RegistryMatchesCurrent
    <3>. QED BY <3>1, <3>2
  <2>2. StatusInv'
    <3> SUFFICES ASSUME NEW v \in Workers, ChangingStatus(v)'
                 PROVE  /\ current' # NoSnapshot
                        /\ current'.issuers[request'[v].issuer] = request'[v].desired
      BY DEF StatusInv, SignedStatus
    <3>1. \/ /\ ChangingStatus(v)
             /\ request'[v].issuer = request[v].issuer
             /\ request'[v].desired = request[v].desired
          \/ /\ current # NoSnapshot
             /\ SignedStatus(request'[v].issuer, request'[v].desired)
             /\ current' = current
      BY <1>4, RequestSteps
    <3>2. ASSUME ChangingStatus(v)
          PROVE  current' = current
      <4>1. \A w \in Workers : RegisterTrustSnapshot(w) => v = w
        BY <3>2, RegisterAlone DEF OneAdministrator, Registering, Validated
      <4>2. \A w \in Workers : ~ RegisterTrustSnapshot(w)
        BY <3>2, <4>1, RegisterAlone DEF ChangingStatus
      <4>. QED BY <1>4, <4>2, RequestSteps DEF SetIssuerStatus
    <3>. QED BY <3>1, <3>2 DEF MatchInv, StatusInv, SignedStatus
  <2>. QED BY <1>2, <2>1, <2>2 DEF MatchInv
<1>. QED BY <1>3, <1>4

\* The registry is the current snapshot's issuers, with its version
\* (admin_register_trust_snapshot and admin_change_issuer_status), if
\* administrative requests run one at a time.
THEOREM RegistryInStep == Spec /\ []OneAdministrator => []RegistryMatchesCurrent
<1>1. MatchInv => RegistryMatchesCurrent
  BY DEF MatchInv
<1>. QED BY <1>1, MatchInit, MatchStep, Invariance, PTL DEF Spec

-------------------------------------------------------------------------------
(* What can undo a validated registration.  Its version is above every      *)
(* registered one and every row it names gives way to it, so the rows after *)
(* some of its statements are its own up to a key and the old ones above.   *)

UndoInv ==
    /\ \A w \in Workers : Registering(w) => AtMostOneActive(request[w].snapshot.issuers)
    /\ \A t \in registered : current # NoSnapshot /\ t.version <= current.version

\* A request registers what it was started with.
LEMMA RegisteringSteps ==
    ASSUME IInv, Next, NEW v \in Workers, Registering(v)'
    PROVE  \/ Registering(v) /\ request'[v].snapshot = request[v].snapshot
           \/ AtMostOneActive(request'[v].snapshot.issuers)
<1> PICK w \in Workers :
        \/ \E s \in signed : StartRegister(w, s)
        \/ ValidateAgainstCurrent(w) \/ ValidateAgainstRegistry(w) \/ ConsumeJti(w)
        \/ RegisterTrustSnapshot(w) \/ RefuseRegister(w)
        \/ \E i \in Issuers, desired \in Statuses \ {"future"} :
              StartStatusChange(w, i, desired)
        \/ SetIssuerStatus(w)
        \/ \E i \in Issuers, needed \in {{"active"}, {"active", "retired"}} :
              StartUse(w, i, needed)
        \/ FinishUse(w) \/ End(w)
  BY DEF Next
<1> DEFINE q == request[v]
<1>1. request \in [Workers -> Requests] /\ q \in Requests
  BY DEF IInv, TypeOK
<1>2. CASE v # w
  <2>1. request'[v] = q
    BY <1>1, <1>2 DEF StartRegister, ValidateAgainstCurrent, ValidateAgainstRegistry,
       ConsumeJti, RegisterTrustSnapshot, RefuseRegister, StartStatusChange,
       SetIssuerStatus, StartUse, FinishUse, End, Goto, Finish
  <2>. QED BY <2>1 DEF Registering
<1>3. CASE v = w
  <2>1. ASSUME Finish(w) PROVE FALSE
    <3>1. request'[v].pc = "idle"
      BY <1>1, <1>3, <2>1 DEF Finish, IdleRequest
    <3>. QED BY <3>1 DEF Registering
  <2>2. ASSUME NEW pc, Goto(w, pc)
        PROVE  request'[v].pc = pc /\ request'[v].snapshot = q.snapshot
    <3>1. PICK r : r = [q EXCEPT !.pc = pc]
      OBVIOUS
    <3>2. r.pc = pc /\ r.snapshot = q.snapshot
      BY <1>1, <3>1 DEF Requests
    <3>3. request'[v] = r
      BY <1>1, <1>3, <2>2, <3>1 DEF Goto
    <3>. QED BY <3>2, <3>3
  <2>3. CASE \E s \in signed : StartRegister(w, s)
    <3>1. PICK s \in signed : StartRegister(w, s)
      BY <2>3
    <3>2. request'[v].snapshot = s
      BY <1>1, <1>3, <3>1 DEF StartRegister, Requests
    <3>. QED BY <3>1, <3>2 DEF StartRegister
  <2>4. CASE ValidateAgainstCurrent(w) \/ ValidateAgainstRegistry(w)
    BY <1>3, <2>1, <2>2, <2>4 DEF ValidateAgainstCurrent, ValidateAgainstRegistry, At,
       Registering
  <2>5. CASE ConsumeJti(w)
    BY <1>3, <2>1, <2>2, <2>5 DEF ConsumeJti, At, Registering
  <2>6. CASE RegisterTrustSnapshot(w) \/ RefuseRegister(w) \/ SetIssuerStatus(w) \/ End(w)
    BY <2>1, <2>6 DEF RegisterTrustSnapshot, RefuseRegister, SetIssuerStatus, End
  <2>7. CASE \E i \in Issuers, desired \in Statuses \ {"future"} :
                StartStatusChange(w, i, desired)
    <3>1. PICK i \in Issuers, desired \in Statuses \ {"future"} :
              StartStatusChange(w, i, desired)
      BY <2>7
    <3>2. request'[v].pc = "consume_status"
      BY <1>1, <1>3, <3>1 DEF StartStatusChange, Requests
    <3>. QED BY <3>2 DEF Registering
  <2>8. CASE \E i \in Issuers, needed \in {{"active"}, {"active", "retired"}} :
                StartUse(w, i, needed)
    <3>1. request'[v].pc = "read_registry"
      BY <1>1, <1>3, <2>8 DEF StartUse
    <3>. QED BY <3>1 DEF Registering
  <2>9. CASE FinishUse(w)
    <3>1. request'[v].pc \in {"accepted", "idle"}
      BY <1>1, <1>3, <2>1, <2>2, <2>9 DEF FinishUse
    <3>. QED BY <3>1 DEF Registering
  <2>. QED BY <2>3, <2>4, <2>5, <2>6, <2>7, <2>8, <2>9
<1>. QED BY <1>2, <1>3

\* Only a registration adds a row, and then its own becomes the current one.
LEMMA RegisteredSteps ==
    ASSUME Next, \A w \in Workers : ~ RegisterTrustSnapshot(w)
    PROVE  registered' = registered /\ current' = current
BY DEF Next, StartRegister, ValidateAgainstCurrent, ValidateAgainstRegistry, ConsumeJti,
       RefuseRegister, StartStatusChange, SetIssuerStatus, StartUse, FinishUse, End, tables

LEMMA UndoInit == Init => UndoInv
BY DEF Init, UndoInv, Registering, IdleRequest

LEMMA UndoStep ==
    ASSUME IInv, SuccessorInv, UndoInv, [Next]_vars
    PROVE  UndoInv'
<1>1. CASE UNCHANGED vars
  BY <1>1 DEF vars, UndoInv, Registering, AtMostOneActive
<1>2. CASE Next
  <2>1. ASSUME NEW v \in Workers, Registering(v)'
        PROVE  AtMostOneActive(request'[v].snapshot.issuers)
    BY <1>2, <2>1, RegisteringSteps DEF UndoInv
  <2>2. ASSUME NEW t \in registered'
        PROVE  current' # NoSnapshot /\ t.version <= current'.version
    <3>1. CASE \A w \in Workers : ~ RegisterTrustSnapshot(w)
      BY <1>2, <3>1, RegisteredSteps DEF UndoInv
    <3>2. ASSUME NEW w \in Workers, RegisterTrustSnapshot(w)
          PROVE  current' # NoSnapshot /\ t.version <= current'.version
      <4> DEFINE s == request[w].snapshot
      <4>1. /\ s \in Snapshots /\ current' = s /\ registered' = registered \cup {s}
            /\ current # NoSnapshot => s.version > current.version
        BY <3>2 DEF RegisterTrustSnapshot, At, IInv, TypeOK, RequestInv, SuccessorInv,
           Validated, ValidSuccessor
      <4>. HIDE DEF s
      <4>2. s # NoSnapshot /\ s.version \in Nat
        BY <4>1, TrustAssumption DEF Snapshots
      <4>3. CASE t = s
        BY <4>1, <4>2, <4>3
      <4>4. CASE t \in registered
        <5>1. current # NoSnapshot /\ t.version <= current.version
          BY <4>4 DEF UndoInv
        <5>2. current \in Snapshots /\ t \in Snapshots
          BY <4>4, <5>1 DEF IInv, TypeOK
        <5>3. current.version \in Nat /\ t.version \in Nat
          BY <5>2, TrustAssumption DEF Snapshots
        <5>. QED BY <4>1, <4>2, <5>1, <5>3
      <4>. QED BY <4>1, <4>3, <4>4
    <3>. QED BY <3>1, <3>2
  <2>. QED BY <2>1, <2>2 DEF UndoInv, AtMostOneActive, Registering
<1>. QED BY <1>1, <1>2

\* A row gives way to the status of a validated successor.
LEMMA RowGivesWay ==
    ASSUME IInv, MatchInv, NEW s \in Snapshots, NEW i \in Issuers,
           current # NoSnapshot => ValidSuccessor(current, s)
    PROVE  Upsert(s, i, registry[i]).status = s.issuers[i]
<1>1. CASE current = NoSnapshot \/ current.issuers[i] = "absent"
  <2>1. registry[i].status = "absent"
    BY <1>1 DEF MatchInv, RegistryMatchesCurrent
  <2>. QED BY <2>1 DEF Upsert
<1>2. CASE current # NoSnapshot /\ current.issuers[i] # "absent"
  <2>1. registry[i].version = current.version
    BY <1>2, RowOfNamed DEF MatchInv
  <2>2. current \in Snapshots
    BY <1>2 DEF IInv, TypeOK
  <2>3. current.version < s.version /\ s.issuers[i] # "absent"
    BY <1>2, <2>2, TrustAssumption DEF ValidSuccessor, Snapshots
  <2>. QED BY <2>1, <2>3 DEF Upsert
<1>. QED BY <1>1, <1>2

\* A validated registration (admin_register_trust_snapshot) is undone by its
\* batch exactly when it activates a key sorting before the one still active,
\* if administrative requests run one at a time.
THEOREM KeyOrderUndoes == Spec /\ []OneAdministrator => []UndoneByKeyOrder
<1>1. ASSUME IInv, MatchInv, UndoInv
      PROVE  UndoneByKeyOrder
  <2> SUFFICES ASSUME NEW w \in Workers, At(w, "register")
               PROVE  BatchFails(request[w].snapshot) <=>
                         \E i, j \in Issuers :
                            /\ i < j
                            /\ request[w].snapshot.issuers[i] = "active"
                            /\ registry[j].status = "active"
    BY DEF UndoneByKeyOrder
  <2> DEFINE s == request[w].snapshot
  <2>1. /\ s \in Snapshots
        /\ current # NoSnapshot => ValidSuccessor(current, s)
        /\ AtMostOneActive(s.issuers)
    BY <1>1 DEF At, IInv, TypeOK, RequestInv, MatchInv, SuccessorInv, Validated, UndoInv,
       Registering
  <2>. HIDE DEF s
  <2>2. ASSUME NEW t \in registered
        PROVE  t.version # s.version
    <3>1. current # NoSnapshot /\ t.version <= current.version
      BY <1>1 DEF UndoInv
    <3>2. current \in Snapshots /\ t \in Snapshots
      BY <1>1, <3>1 DEF IInv, TypeOK
    <3>3. {current.version, t.version, s.version} \subseteq Nat
      BY <2>1, <3>2, TrustAssumption DEF Snapshots
    <3>4. s.version > current.version
      BY <2>1, <3>1 DEF ValidSuccessor
    <3>. QED BY <3>1, <3>3, <3>4
  <2>3. ASSUME NEW last \in Issuers, NEW i \in Issuers
        PROVE  AfterUpserts(s, last)[i].status =
                  IF i <= last THEN s.issuers[i] ELSE registry[i].status
    BY <1>1, <2>1, RowGivesWay DEF AfterUpserts
  <2>4. ASSUME NEW last \in Issuers
        PROVE  KeepsActiveIndex(AfterUpserts(s, last)) <=>
                  \A i, j \in Issuers :
                     /\ (IF i <= last THEN s.issuers[i] ELSE registry[i].status) = "active"
                     /\ (IF j <= last THEN s.issuers[j] ELSE registry[j].status) = "active"
                     => i = j
    BY <2>3 DEF KeepsActiveIndex, AtMostOneActive
  <2>5. ASSUME NEW i \in Issuers, NEW j \in Issuers, i < j,
               s.issuers[i] = "active", registry[j].status = "active"
        PROVE  ~ KeepsActiveIndex(AfterUpserts(s, i))
    <3>1. i <= i /\ ~ (j <= i) /\ i # j
      BY <2>5, TrustAssumption
    <3>. QED BY <2>4, <2>5, <3>1
  <2>6. ASSUME NEW last \in Issuers, ~ KeepsActiveIndex(AfterUpserts(s, last))
        PROVE  \E i, j \in Issuers : /\ i < j
                                     /\ s.issuers[i] = "active"
                                     /\ registry[j].status = "active"
    <3>1. PICK i \in Issuers, j \in Issuers :
              /\ (IF i <= last THEN s.issuers[i] ELSE registry[i].status) = "active"
              /\ (IF j <= last THEN s.issuers[j] ELSE registry[j].status) = "active"
              /\ i # j
      BY <2>4, <2>6
    <3>2. ~ (i <= last /\ j <= last)
      BY <2>1, <3>1 DEF AtMostOneActive
    <3>3. i <= last \/ j <= last
      BY <1>1, <3>1 DEF IInv, OneActiveIssuer, AtMostOneActive
    <3>4. {i, j, last} \subseteq Nat
      BY TrustAssumption
    <3>5. CASE i <= last /\ ~ (j <= last)
      <4>1. i < j /\ s.issuers[i] = "active" /\ registry[j].status = "active"
        BY <3>1, <3>4, <3>5
      <4>. QED BY <4>1
    <3>6. CASE j <= last /\ ~ (i <= last)
      <4>1. j < i /\ s.issuers[j] = "active" /\ registry[i].status = "active"
        BY <3>1, <3>4, <3>6
      <4>. QED BY <4>1
    <3>. QED BY <3>2, <3>3, <3>5, <3>6
  <2>7. BatchFails(s) <=> \E i, j \in Issuers : /\ i < j
                                                /\ s.issuers[i] = "active"
                                                /\ registry[j].status = "active"
    BY <2>2, <2>5, <2>6 DEF BatchFails
  <2>. QED BY <2>7 DEF s
<1>2. MatchInv => SuccessorInv
  BY DEF MatchInv
<1>. QED BY <1>1, <1>2, MatchInit, MatchStep, UndoInit, UndoStep, Invariance, PTL DEF Spec

\* A registry administered by one request at a time: no rollback, and the two
\* tables (trust_snapshots and issuers) agree at every moment.
THEOREM SerialIsSound == SerialSpec => TrustNeverRollsBack /\ []RegistryMatchesCurrent
<1>1. OneAdministrator => OneRegistration
  BY DEF OneAdministrator, OneRegistration
<1>2. []OneAdministrator => []OneRegistration
  BY <1>1, PTL
<1>. QED BY <1>2, SerialIsSpec, NoRollback, RegistryInStep, PTL
===============================================================================
