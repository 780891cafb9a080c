-------------------------- MODULE Membership_proofs ---------------------------
(***************************************************************************)
(* Proofs about module Membership, for any accounts and any number of      *)
(* concurrent requests.                                                    *)
(*                                                                         *)
(* The trigger alone keeps an active owner, whatever the writers believe.  *)
(* Ownership needs more: a request that is about to write the role "owner" *)
(* was begun by an owner, which the reads before the write make sure of.   *)
(***************************************************************************)
EXTENDS Membership, TLAPS

\* What a request past its reads may write.
RequestInv(r) ==
    /\ r.pc \in {"check_account", "add"} => r.change.role \in Roles
    /\ r.pc \in {"check_account", "add", "read_target", "update"}
          => r.target \in Accounts
    /\ r.pc \in {"check_account", "add", "update"} /\ r.change.role = "owner"
          => r.actorRole = "owner"

IInv ==
    /\ TypeOK
    /\ ActiveOwnerRemains
    /\ \A w \in Workers : RequestInv(request[w])

-------------------------------------------------------------------------------
LEMMA InitIInv == Init => IInv
<1> SUFFICES ASSUME Init PROVE IInv
  OBVIOUS
<1>1. TypeOK
  BY MembershipAssumption DEF Init, TypeOK, Members, Roles, MemberStatuses,
     Requests, IdleRequest, NoChange, Changes, At
<1>2. ActiveOwnerRemains
  BY MembershipAssumption DEF Init, ActiveOwnerRemains, ActiveOwner
<1>3. \A w \in Workers : RequestInv(request[w])
  BY DEF Init, IdleRequest, NoChange, RequestInv
<1>. QED BY <1>1, <1>2, <1>3 DEF IInv

\* A step that only moves one request.
LEMMA OnlyRequestChanges ==
    ASSUME IInv, NEW w \in Workers, NEW r \in Requests, RequestInv(r),
           r.pc = "update" => members[r.target].status # "absent",
           request' = [request EXCEPT ![w] = r], UNCHANGED members
    PROVE  IInv'
<1>1. ASSUME NEW v \in Workers
      PROVE  request'[v] = IF v = w THEN r ELSE request[v]
  BY DEF IInv, TypeOK
<1>2. TypeOK'
  BY <1>1 DEF IInv, TypeOK, At
<1>3. ActiveOwnerRemains'
  BY DEF IInv, ActiveOwnerRemains, ActiveOwner
<1>4. \A v \in Workers : RequestInv(request[v])'
  BY <1>1 DEF IInv, RequestInv
<1>. QED BY <1>2, <1>3, <1>4 DEF IInv

LEMMA FinishKeepsIInv ==
    ASSUME IInv, NEW w \in Workers, Finish(w), UNCHANGED members
    PROVE  IInv'
<1>1. IdleRequest \in Requests /\ RequestInv(IdleRequest)
      /\ IdleRequest.pc = "idle"
  BY DEF IdleRequest, NoChange, Requests, RequestInv, Changes, Roles
<1>. QED BY <1>1, OnlyRequestChanges DEF Finish

LEMMA GotoKeepsIInv ==
    ASSUME IInv, NEW w \in Workers, NEW pc, Goto(w, pc), UNCHANGED members,
           \/ At(w, "check_account") /\ pc = "add"
           \/ /\ At(w, "read_target") /\ pc = "update"
              /\ members[request[w].target].status # "absent"
              /\ request[w].change.role = "owner" => request[w].actorRole = "owner"
    PROVE  IInv'
<1> DEFINE r == [request[w] EXCEPT !.pc = pc]
<1>1. request[w] \in Requests /\ RequestInv(request[w])
  BY DEF IInv, TypeOK
<1>2. r \in Requests
  BY <1>1 DEF Requests
<1>3. /\ r.pc = pc /\ r.actorRole = request[w].actorRole
      /\ r.target = request[w].target /\ r.change = request[w].change
  BY <1>1 DEF Requests
<1>4. request' = [request EXCEPT ![w] = r]
  BY <1>1 DEF Goto
<1>. HIDE DEF r
<1>5. RequestInv(r)
  BY <1>1, <1>3 DEF RequestInv, At
<1>6. r.pc = "update" => members[r.target].status # "absent"
  BY <1>3
<1>. QED BY <1>2, <1>4, <1>5, <1>6, OnlyRequestChanges

\* A write of a whole row keeps an active owner: the trigger sees to it.
LEMMA WriteKeepsIInv ==
    ASSUME IInv, NEW w \in Workers, NEW a \in Accounts, NEW row \in Members,
           row.status # "absent", Write(a, row), Finish(w)
    PROVE  IInv'
<1>1. members' \in [Accounts -> Members]
      /\ \A b \in Accounts : members'[b] = members[b] \/ members'[b].status # "absent"
  BY DEF IInv, TypeOK, Write
<1>2. IdleRequest \in Requests /\ RequestInv(IdleRequest)
      /\ IdleRequest.pc = "idle"
  BY DEF IdleRequest, NoChange, Requests, RequestInv, Changes, Roles
<1>3. ASSUME NEW v \in Workers
      PROVE  request'[v] = IF v = w THEN IdleRequest ELSE request[v]
  BY DEF IInv, TypeOK, Finish
<1>4. request' \in [Workers -> Requests]
  BY <1>2 DEF IInv, TypeOK, Finish
<1>5. ASSUME NEW v \in Workers, At(v, "update")'
      PROVE  members'[request'[v].target].status # "absent"
  BY <1>1, <1>2, <1>3, <1>5 DEF IInv, TypeOK, At, RequestInv
<1>6. TypeOK'
  BY <1>1, <1>4, <1>5 DEF TypeOK
<1>7. ActiveOwnerRemains'
  <2>1. CASE TriggerAborts(a, row)
    BY <2>1 DEF IInv, Write, ActiveOwnerRemains, ActiveOwner
  <2>2. CASE ~ TriggerAborts(a, row)
    <3>1. members' = [members EXCEPT ![a] = row]
      BY <2>2 DEF Write
    <3>2. PICK b \in Accounts : ActiveOwner(members, b)
      BY DEF IInv, ActiveOwnerRemains
    <3>3. CASE b # a
      BY <3>1, <3>2, <3>3 DEF ActiveOwnerRemains, ActiveOwner, IInv, TypeOK
    <3>4. CASE b = a /\ row.role = "owner" /\ row.status = "active"
      BY <3>1, <3>4 DEF ActiveOwnerRemains, ActiveOwner, IInv, TypeOK
    <3>5. CASE b = a /\ ~ LastOwner(a)
      BY <3>1, <3>5 DEF ActiveOwnerRemains, ActiveOwner, IInv, TypeOK, LastOwner
    <3>. QED BY <2>2, <3>2, <3>3, <3>4, <3>5 DEF TriggerAborts
  <2>. QED BY <2>1, <2>2
<1>8. \A v \in Workers : RequestInv(request[v])'
  BY <1>2, <1>3 DEF IInv, RequestInv
<1>. QED BY <1>6, <1>7, <1>8 DEF IInv

-------------------------------------------------------------------------------
\* A request that has been begun is a well-typed request that satisfies its
\* invariant.
LEMMA StartAddKeepsIInv ==
    ASSUME IInv, NEW w \in Workers, NEW actor \in Accounts,
           NEW target \in Accounts, NEW role \in InputRoles,
           StartAdd(w, actor, target, role)
    PROVE  IInv'
<1> DEFINE r == [pc |-> "check_account", actorRole |-> members[actor].role,
                 target |-> target,
                 change |-> [role |-> role, status |-> "active"]]
<1>1. members[actor].role \in Roles /\ role \in Roles
  BY MembershipAssumption DEF IInv, TypeOK, Members
<1>2. r \in Requests
  BY <1>1 DEF Requests, Changes, MemberStatuses
<1>3. RequestInv(r) /\ r.pc # "update"
  BY <1>1 DEF RequestInv, StartAdd
<1>4. request' = [request EXCEPT ![w] = r] /\ UNCHANGED members
  BY DEF StartAdd
<1>. HIDE DEF r
<1>. QED BY <1>2, <1>3, <1>4, OnlyRequestChanges

LEMMA StartUpdateKeepsIInv ==
    ASSUME IInv, NEW w \in Workers, NEW actor \in Accounts,
           NEW target \in Accounts, NEW change \in Changes,
           StartUpdate(w, actor, target, change)
    PROVE  IInv'
<1> DEFINE r == [pc |-> "read_target", actorRole |-> members[actor].role,
                 target |-> target, change |-> change]
<1>1. members[actor].role \in Roles
  BY DEF IInv, TypeOK, Members
<1>2. r \in Requests
  BY <1>1 DEF Requests
<1>3. RequestInv(r) /\ r.pc # "update"
  BY DEF RequestInv
<1>4. request' = [request EXCEPT ![w] = r] /\ UNCHANGED members
  BY DEF StartUpdate
<1>. HIDE DEF r
<1>. QED BY <1>2, <1>3, <1>4, OnlyRequestChanges

LEMMA AddKeepsIInv ==
    ASSUME IInv, NEW w \in Workers, AddMember(w)
    PROVE  IInv'
<1> DEFINE row == [role |-> request[w].change.role, status |-> "active"]
<1>1. request[w].change.role \in Roles /\ request[w].target \in Accounts
  BY DEF IInv, RequestInv, AddMember, At
<1>2. row \in Members /\ row.status # "absent"
  BY <1>1 DEF Members, MemberStatuses
<1>3. Write(request[w].target, row) /\ Finish(w)
  BY DEF AddMember
<1>. HIDE DEF row
<1>. QED BY <1>1, <1>2, <1>3, WriteKeepsIInv

LEMMA UpdateKeepsIInv ==
    ASSUME IInv, NEW w \in Workers, UpdateMember(w)
    PROVE  IInv'
<1> DEFINE old == members[request[w].target]
           row == [role |-> Coalesce(request[w].change.role, old.role),
                   status |-> Coalesce(request[w].change.status, old.status)]
<1>1. request[w].target \in Accounts /\ request[w] \in Requests
      /\ old \in Members /\ old.status # "absent"
  BY DEF IInv, TypeOK, RequestInv, UpdateMember, At
<1>2. /\ row.role \in Roles
      /\ row.status \in MemberStatuses
  BY <1>1 DEF Members, Requests, Changes, Coalesce
<1>3. row \in Members /\ row.status # "absent"
  BY <1>2 DEF Members, MemberStatuses
<1>4. Write(request[w].target, row) /\ Finish(w)
  BY DEF UpdateMember
<1>. HIDE DEF row
<1>. QED BY <1>1, <1>3, <1>4, WriteKeepsIInv

LEMMA NextKeepsIInv == IInv /\ [Next]_vars => IInv'
<1> SUFFICES ASSUME IInv, [Next]_vars PROVE IInv'
  OBVIOUS
<1>1. CASE UNCHANGED vars
  BY <1>1 DEF vars, IInv, TypeOK, ActiveOwnerRemains, ActiveOwner, RequestInv, At
<1>2. ASSUME NEW w \in Workers, NEW actor \in Accounts, NEW target \in Accounts,
             NEW role \in InputRoles, StartAdd(w, actor, target, role)
      PROVE  IInv'
  BY <1>2, StartAddKeepsIInv
<1>3. ASSUME NEW w \in Workers, NEW actor \in Accounts, NEW target \in Accounts,
             NEW role \in InputRoles \cup {""},
             NEW status \in InputStatuses \cup {""},
             StartUpdate(w, actor, target, [role |-> role, status |-> status])
      PROVE  IInv'
  <2>1. [role |-> role, status |-> status] \in Changes
    BY MembershipAssumption DEF Changes
  <2>. QED BY <1>3, <2>1, StartUpdateKeepsIInv
<1>4. ASSUME NEW w \in Workers, CheckAccount(w) PROVE IInv'
  BY <1>4, GotoKeepsIInv, FinishKeepsIInv DEF CheckAccount
<1>5. ASSUME NEW w \in Workers, ReadTarget(w) PROVE IInv'
  BY <1>5, GotoKeepsIInv, FinishKeepsIInv DEF ReadTarget, OwnershipChange
<1>6. ASSUME NEW w \in Workers, AddMember(w) PROVE IInv'
  BY <1>6, AddKeepsIInv
<1>7. ASSUME NEW w \in Workers, UpdateMember(w) PROVE IInv'
  BY <1>7, UpdateKeepsIInv
<1>8. ASSUME NEW w \in Workers, Crash(w) PROVE IInv'
  BY <1>8, FinishKeepsIInv DEF Crash
<1>. QED BY <1>1, <1>2, <1>3, <1>4, <1>5, <1>6, <1>7, <1>8 DEF Next

\* Every reachable state of the membership satisfies the inductive invariant.
THEOREM Invariance == Spec => []IInv
<1>. QED BY InitIInv, NextKeepsIInv, PTL DEF Spec

\* Every account, membership row and request in flight keeps its type.
THEOREM TypeCorrectness == Spec => []TypeOK
<1>1. IInv => TypeOK
  BY DEF IInv
<1>. QED BY <1>1, Invariance, PTL

\* add_member, patch_member and delete_member, in any interleaving, leave the
\* developer with an active owner.
THEOREM OwnerRemains == Spec => []ActiveOwnerRemains
<1>1. IInv => ActiveOwnerRemains
  BY DEF IInv
<1>. QED BY <1>1, Invariance, PTL

\* A role turns into "owner" only in the write of a request begun by an owner.
LEMMA OwnershipStep ==
    ASSUME IInv, Next, NEW a \in Accounts,
           members'[a].role = "owner", members[a].role # "owner"
    PROVE  \E w \in Workers : /\ request'[w] # request[w]
                              /\ request[w].actorRole = "owner"
<1>1. ASSUME NEW w \in Workers, Finish(w), ~ At(w, "idle")
      PROVE  request'[w] # request[w]
  BY <1>1 DEF Finish, IdleRequest, At, IInv, TypeOK
<1>2. ASSUME NEW w \in Workers, AddMember(w)
      PROVE  request'[w] # request[w] /\ request[w].actorRole = "owner"
  <2>1. Finish(w) /\ At(w, "add") /\ request[w].change.role = "owner"
    BY <1>2 DEF AddMember, Write, IInv, TypeOK
  <2>2. request[w].actorRole = "owner"
    BY <2>1 DEF IInv, RequestInv, At
  <2>. QED BY <1>1, <2>1, <2>2 DEF At
<1>3. ASSUME NEW w \in Workers, UpdateMember(w)
      PROVE  request'[w] # request[w] /\ request[w].actorRole = "owner"
  <2>1. Finish(w) /\ At(w, "update") /\ request[w].change.role = "owner"
    BY <1>3 DEF UpdateMember, Write, Coalesce, IInv, TypeOK
  <2>2. request[w].actorRole = "owner"
    BY <2>1 DEF IInv, RequestInv, At
  <2>. QED BY <1>1, <2>1, <2>2 DEF At
<1>4. UNCHANGED members \/ \E w \in Workers : AddMember(w) \/ UpdateMember(w)
  BY DEF Next, StartAdd, StartUpdate, CheckAccount, ReadTarget, Crash
<1>. QED BY <1>2, <1>3, <1>4

\* Nobody becomes an owner but through an owner, however stale the reads.
THEOREM OwnershipFromOwners == Spec => OwnershipComesFromOwners
<1>1. IInv /\ [Next]_vars =>
        [\A a \in Accounts :
            members'[a].role = "owner" /\ members[a].role # "owner"
                => \E w \in Workers : /\ request'[w] # request[w]
                                      /\ request[w].actorRole = "owner"]_vars
  BY OwnershipStep
<1>. QED BY <1>1, Invariance, PTL DEF Spec, OwnershipComesFromOwners
===============================================================================
