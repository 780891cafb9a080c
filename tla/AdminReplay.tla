----------------------------- MODULE AdminReplay ------------------------------
(***************************************************************************)
(* One use per administrative token: auth::admin and                       *)
(* consume_authentication_jti.                                             *)
(*                                                                         *)
(* An action arrives with a delegated token, whose expiry is signed, or    *)
(* from the admin service with an action id, which expires ServiceTtl      *)
(* after each arrival.  It is verified, the actor's account is looked up,  *)
(* and only later is the jti consumed, in three statements that share one  *)
(* reading of the clock.                                                   *)
(***************************************************************************)
EXTENDS Naturals, Sequences, FiniteSets

CONSTANTS
    Tokens,      \* jtis of delegated tokens
    ActionIds,   \* X-Admin-Action-ID values, which serve as jtis
    Issued,      \* iat of each token, signed with it
    Expiry,      \* exp of each token, signed with it
    Workers,
    ServiceTtl,  \* 300
    MaxTokenLifetime,  \* 900
    Skew,        \* how far ahead of the clock a token may be issued (30)
    Capacity,    \* rows an eviction keeps (9999)
    MaxUses,     \* bound on the actions
    MaxTime,     \* bound on the clock
    None         \* no jti

Jtis == Tokens \cup ActionIds

ASSUME ReplayAssumption ==
    /\ Issued \in [Tokens -> Nat]
    /\ Expiry \in [Tokens -> Nat]
    /\ {MaxTokenLifetime, Skew} \subseteq Nat
    /\ ServiceTtl \in 1 .. MaxTokenLifetime
    /\ Capacity \in Nat
    /\ None \notin Jtis

VARIABLES
    cache,    \* rows of authentication_replay_cache
    uses,     \* the consumptions that succeeded, in their order (observed)
    request,
    clock

vars == <<cache, uses, request, clock>>

Rows == [jti: Jtis, expires_at: Nat]

Requests == [pc: {"idle", "accounts", "consume", "purge", "evict", "insert",
                  "consumed"},
             jti: Jtis \cup {None}, expires_at: Nat, now: Nat]

IdleRequest == [pc |-> "idle", jti |-> None, expires_at |-> 0, now |-> 0]

At(w, pc) == request[w].pc = pc
Goto(w, pc) == request' = [request EXCEPT ![w].pc = pc]
Finish(w) == request' = [request EXCEPT ![w] = IdleRequest]

Init ==
    /\ cache = {}
    /\ uses = <<>>
    /\ request = [w \in Workers |-> IdleRequest]
    /\ clock = 0

Tick ==
    /\ clock < MaxTime
    /\ clock' = clock + 1
    /\ UNCHANGED <<cache, uses, request>>

Begin(w, j, expires, pc) ==
    /\ request' = [request EXCEPT ![w] =
          [pc |-> pc, jti |-> j, expires_at |-> expires, now |-> clock]]
    /\ UNCHANGED <<cache, uses, clock>>

\* Mutated form: a token may be signed for any length of time.
ValidClaims_AnyLifetime(j, now) == Issued[j] <= now + Skew /\ now < Expiry[j]

\* validate_claims; the texts it also checks are those of a known token.
ValidClaims(j, now) ==
    /\ Issued[j] < Expiry[j]
    /\ Expiry[j] - Issued[j] <= MaxTokenLifetime
    /\ Issued[j] <= now + Skew
    /\ now < Expiry[j]

\* delegation: the token is the Console's, and its claims are valid now.
StartDelegated(w, j) ==
    /\ At(w, "idle")
    /\ Len(uses) < MaxUses
    /\ ValidClaims(j, clock)
    /\ Begin(w, j, Expiry[j], "accounts")

\* admin_service: the service token is the shared secret.
StartService(w, j) ==
    /\ At(w, "idle")
    /\ Len(uses) < MaxUses
    /\ Begin(w, j, clock + ServiceTtl, "consume")

\* account_is_active
CheckAccount(w) ==
    /\ At(w, "accounts")
    /\ Goto(w, "consume") \/ Finish(w)
    /\ UNCHANGED <<cache, uses, clock>>

\* consume_admin_action, after what the operation itself reads and refuses.
Consume(w) ==
    /\ At(w, "consume")
    /\ request' = [request EXCEPT ![w].pc = "purge", ![w].now = clock]
    /\ UNCHANGED <<cache, uses, clock>>

\* Mutated form: a row goes one second before its token expires.
Outlived_Early(row, now) == row.expires_at <= now + 1

Outlived(row, now) == row.expires_at <= now

PurgeExpired(w) ==
    /\ At(w, "purge")
    /\ cache' = {row \in cache : ~ Outlived(row, request[w].now)}
    /\ Goto(w, "evict")
    /\ UNCHANGED <<uses, clock>>

\* The Capacity rows that expire last are kept (used_at, which only breaks
\* ties, is left out: any choice among equals).
Evict(w) ==
    /\ At(w, "evict")
    /\ \E Kept \in SUBSET cache :
          /\ \/ Kept = cache /\ Cardinality(cache) <= Capacity
             \/ Cardinality(cache) > Capacity /\ Cardinality(Kept) = Capacity
          /\ \A row \in Kept, gone \in cache \ Kept :
                gone.expires_at <= row.expires_at
          /\ cache' = Kept
    /\ Goto(w, "insert")
    /\ UNCHANGED <<uses, clock>>

\* INSERT OR IGNORE: a row with the jti is in the way.
Replayed(j) == \E row \in cache : row.jti = j

InsertJti(w) ==
    LET r == request[w]
    IN  /\ At(w, "insert")
        /\ IF Replayed(r.jti)
           THEN UNCHANGED <<cache, uses>> /\ Finish(w)
           ELSE /\ cache' = cache \cup
                      {[jti |-> r.jti, expires_at |-> r.expires_at]}
                /\ uses' = Append(uses, [jti |-> r.jti, at |-> clock,
                                         expires_at |-> r.expires_at])
                /\ Goto(w, "consumed")
        /\ UNCHANGED clock

\* The action is carried out; or the isolate dies, or an awaited call fails.
End(w) ==
    /\ ~ At(w, "idle")
    /\ Finish(w)
    /\ UNCHANGED <<cache, uses, clock>>

Next ==
    \/ Tick
    \/ \E w \in Workers :
          \/ \E j \in Tokens : StartDelegated(w, j)
          \/ \E j \in ActionIds : StartService(w, j)
          \/ CheckAccount(w)
          \/ Consume(w)
          \/ PurgeExpired(w)
          \/ Evict(w)
          \/ InsertJti(w)
          \/ End(w)

Spec == Init /\ [][Next]_vars

-------------------------------------------------------------------------------
(* Properties. *)

\* Every variable keeps its type, jti is the primary key of the cache, and no
\* row of a token stays there longer than a token may live and be ahead.
TypeOK ==
    /\ cache \subseteq Rows
    /\ uses \in Seq([jti: Jtis, at: Nat, expires_at: Nat])
    /\ request \in [Workers -> Requests]
    /\ clock \in Nat
    /\ \A row, other \in cache : row.jti = other.jti => row = other
    /\ \A row \in cache : row.jti \in Tokens =>
          row.expires_at <= clock + MaxTokenLifetime + Skew

\* A jti is consumed again only once the expiry noted at the earlier use has
\* passed, or as many others that expire no sooner have been consumed as the
\* cache holds: no interleaving of two consumptions, with clocks read earlier,
\* lets both through before that, and eviction forgets no other jti.
UsedOnceWhileValid ==
    \A m, n \in DOMAIN uses :
        LET Outlasting == {uses[k].jti : k \in {i \in 1 .. n - 1 :
                              /\ uses[i].jti # uses[m].jti
                              /\ uses[i].expires_at >= uses[m].expires_at}}
        IN  m < n /\ uses[m].jti = uses[n].jti
                => \/ uses[m].expires_at <= uses[n].at
                   \/ Cardinality(Outlasting) >= Capacity

\* docs/security.md and docs/deployment.md: the jti of an administrative token
\* is used once.  The code checks expiry on arrival only, and forgets a jti
\* when it expires: a request that is verified before and consumes after is a
\* second use.
TokenUsedOnce ==
    \A m, n \in DOMAIN uses :
        uses[m].jti = uses[n].jti /\ uses[m].jti \in Tokens => m = n
===============================================================================
