------------------------------ MODULE Membership ------------------------------
(***************************************************************************)
(* The members of one developer: who may change whom, and the trigger that *)
(* keeps an active owner.                                                  *)
(*                                                                         *)
(* A request reads the actor's membership, then the target's, decides, and *)
(* only later writes, by the target's id alone.  Both reads may be stale   *)
(* when the write runs, and the trigger is all that is checked with it.    *)
(***************************************************************************)
EXTENDS Naturals

CONSTANTS
    Accounts,
    Founder,        \* the owner created with the developer
    Workers,
    InputRoles,     \* the roles and
    InputStatuses,  \* the statuses that requests ask for
    None            \* no account

Roles == {"owner", "admin", "developer", "viewer"}
MemberStatuses == {"active", "invited", "suspended", "removed"}

ASSUME MembershipAssumption ==
    /\ Founder \in Accounts
    /\ InputRoles \subseteq Roles
    /\ InputStatuses \subseteq MemberStatuses

\* A row of developer_members; an account without one is "absent".
Members == [role: Roles, status: MemberStatuses \cup {"absent"}]

\* What a write sets; "" leaves a column as it is (COALESCE).
Changes == [role: Roles \cup {""}, status: MemberStatuses \cup {""}]

VARIABLES members, request

vars == <<members, request>>

\* actorRole is the role read for the actor.
Requests == [pc: {"idle", "check_account", "add", "read_target", "update"},
             actorRole: Roles, target: Accounts \cup {None}, change: Changes]

NoChange == [role |-> "", status |-> ""]

IdleRequest == [pc |-> "idle", actorRole |-> "viewer", target |-> None,
                change |-> NoChange]

At(w, pc) == request[w].pc = pc
Goto(w, pc) == request' = [request EXCEPT ![w].pc = pc]
Finish(w) == request' = [request EXCEPT ![w] = IdleRequest]

\* member_for_account
ActiveMember(a) == members[a].status = "active"

CanManage(role) == role \in {"owner", "admin"}

ActiveOwner(rows, a) == rows[a].role = "owner" /\ rows[a].status = "active"

Init ==
    /\ members = [a \in Accounts |->
          IF a = Founder THEN [role |-> "owner", status |-> "active"]
          ELSE [role |-> "viewer", status |-> "absent"]]
    /\ request = [w \in Workers |-> IdleRequest]

\* add_member up to the question to Accounts: only an owner adds an owner.
StartAdd(w, actor, target, role) ==
    /\ At(w, "idle")
    /\ ActiveMember(actor)
    /\ CanManage(members[actor].role)
    /\ role = "owner" => members[actor].role = "owner"
    /\ request' = [request EXCEPT ![w] =
          [pc |-> "check_account", actorRole |-> members[actor].role,
           target |-> target, change |-> [role |-> role, status |-> "active"]]]
    /\ UNCHANGED members

\* account_is_active
CheckAccount(w) ==
    /\ At(w, "check_account")
    /\ Goto(w, "add") \/ Finish(w)
    /\ UNCHANGED members

\* patch_member and delete_member (a change to "removed") up to the read of
\* the target.
StartUpdate(w, actor, target, change) ==
    /\ At(w, "idle")
    /\ ActiveMember(actor)
    /\ request' = [request EXCEPT ![w] =
          [pc |-> "read_target", actorRole |-> members[actor].role,
           target |-> target, change |-> change]]
    /\ UNCHANGED members

\* Mutated form: only the target's present role is looked at.
OwnershipChange_TargetOnly(row, change) == row.role = "owner"

OwnershipChange(row, change) == row.role = "owner" \/ change.role = "owner"

ReadTarget(w) ==
    LET r == request[w]
        row == members[r.target]
    IN  /\ At(w, "read_target")
        /\ IF /\ row.status \notin {"absent", "removed"}
              /\ CanManage(r.actorRole)
              /\ OwnershipChange(row, r.change) => r.actorRole = "owner"
           THEN Goto(w, "update")
           ELSE Finish(w)
        /\ UNCHANGED members

-------------------------------------------------------------------------------
(* The writes. *)

\* Mutated form: the trigger counts owners whatever their status.
LastOwner_AnyStatus(a) ==
    ~ \E b \in Accounts \ {a} : members[b].role = "owner"

LastOwner(a) == ~ \E b \in Accounts \ {a} : ActiveOwner(members, b)

\* prevent_last_owner_removal raises, and the batch is undone.
TriggerAborts(a, row) ==
    /\ ActiveOwner(members, a)
    /\ row.role # "owner" \/ row.status # "active"
    /\ LastOwner(a)

Write(a, row) ==
    members' = IF TriggerAborts(a, row) THEN members
               ELSE [members EXCEPT ![a] = row]

\* store::add_member: a new row, or the role and status of the one there is,
\* whatever it holds.
AddMember(w) ==
    LET r == request[w]
    IN  /\ At(w, "add")
        /\ Write(r.target, [role |-> r.change.role, status |-> "active"])
        /\ Finish(w)

\* Mutated form: a column that is not given is overwritten.
Coalesce_Overwrites(new, old) == new

Coalesce(new, old) == IF new = "" THEN old ELSE new

\* store::update_member
UpdateMember(w) ==
    LET r == request[w]
        row == members[r.target]
    IN  /\ At(w, "update")
        /\ Write(r.target, [role |-> Coalesce(r.change.role, row.role),
                            status |-> Coalesce(r.change.status, row.status)])
        /\ Finish(w)

\* The isolate dies, or an awaited call fails.
Crash(w) ==
    /\ ~ At(w, "idle")
    /\ Finish(w)
    /\ UNCHANGED members

Next ==
    \E w \in Workers :
        \/ \E actor, target \in Accounts, role \in InputRoles :
              StartAdd(w, actor, target, role)
        \/ \E actor, target \in Accounts, role \in InputRoles \cup {""},
              status \in InputStatuses \cup {""} :
              StartUpdate(w, actor, target, [role |-> role, status |-> status])
        \/ CheckAccount(w)
        \/ ReadTarget(w)
        \/ AddMember(w)
        \/ UpdateMember(w)
        \/ Crash(w)

Spec == Init /\ [][Next]_vars

-------------------------------------------------------------------------------
(* Properties. *)

\* Every variable keeps its type, and a request past its checks names a member
\* row to write.
TypeOK ==
    /\ members \in [Accounts -> Members]
    /\ request \in [Workers -> Requests]
    /\ \A w \in Workers : At(w, "update")
          => members[request[w].target].status # "absent"

\* The developer always has an active owner, although two owners may be
\* demoting or removing each other at the same time, on reads that saw both.
ActiveOwnerRemains == \E a \in Accounts : ActiveOwner(members, a)

\* Nobody becomes an owner, active or not, but by a request whose actor was an
\* active owner when it began, however stale its reads of the target are.
OwnershipComesFromOwners ==
    [][\A a \in Accounts :
          members'[a].role = "owner" /\ members[a].role # "owner"
              => \E w \in Workers : /\ request'[w] # request[w]
                                    /\ request[w].actorRole = "owner"]_vars

===============================================================================
