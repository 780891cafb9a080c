---------------------------- MODULE SnapshotRefresh ----------------------------
(***************************************************************************)
(* Keeping the revocation list unexpired: the cron trigger against the     *)
(* list's lifetime, failing refreshes, and the revocations and rebuilds    *)
(* that publish lists of their own at any moment.                          *)
(*                                                                         *)
(* What a list says is module Revocation's; here only its age counts.      *)
(* Times are kept as ages, the seconds since the time in question, so that *)
(* the clock may run for ever: every age grows with a Tick.                *)
(***************************************************************************)
EXTENDS Naturals

CONSTANTS
    Cron,           \* the request of the cron trigger
    Workers,        \* the requests that revoke or rebuild
    Ttl,            \* REVOCATION_SNAPSHOT_TTL_SECONDS (3600)
    RefreshWindow,  \* REVOCATION_SNAPSHOT_REFRESH_WINDOW_SECONDS (1800)
    Period,         \* between two cron triggers (900)
    MaxLifetime,    \* bound on the time a request takes
    MaxFailures     \* failed triggers in a row are counted up to here

\* A request ends before the next trigger, and a refresh that is tried as soon
\* as the window opens has a trigger and its own time left.
ASSUME RefreshAssumption ==
    /\ {Ttl, RefreshWindow, Period, MaxLifetime, MaxFailures} \subseteq Nat
    /\ MaxLifetime < Period
    /\ Period + MaxLifetime <= RefreshWindow
    /\ RefreshWindow + MaxLifetime < Ttl
    /\ Cron \notin Workers

\* Ages are told apart up to here; a list that does not exist is as old.
Ancient == Ttl + Period * MaxFailures

Ages == 0 .. Ancient

VARIABLES
    phase,     \* seconds since the last time a trigger was due
    fired,     \* the trigger due at phase 0 has fired
    age,       \* since generated_at of the current list
    outage,    \* something makes refreshes fail: issuer, key, database or size
    failures,  \* triggers in a row whose refresh failed
    request

vars == <<phase, fired, age, outage, failures, request>>

\* A request: the await it stands at, the age of the time it read, the age of
\* the list it builds on, and whether that list has been replaced since.
Requests == [pc: {"idle", "check", "read", "save"},
             age: 0 .. MaxLifetime, base: Ages, overtaken: BOOLEAN]

IdleRequest == [pc |-> "idle", age |-> 0, base |-> 0, overtaken |-> FALSE]

All == {Cron} \cup Workers

At(w, pc) == request[w].pc = pc
Goto(w, pc) == request' = [request EXCEPT ![w].pc = pc]
Finish(w) == request' = [request EXCEPT ![w] = IdleRequest]

Older(a) == IF a < Ancient THEN a + 1 ELSE a

-------------------------------------------------------------------------------
\* The service starts without a list.
Init ==
    /\ phase = 0
    /\ fired = FALSE
    /\ age = Ancient
    /\ outage \in BOOLEAN
    /\ failures = MaxFailures
    /\ request = [w \in All |-> IdleRequest]

\* No trigger is missed, and no request outlives MaxLifetime.
Tick ==
    /\ phase = 0 => fired
    /\ \A w \in All : ~ At(w, "idle") => request[w].age < MaxLifetime
    /\ phase' = IF phase + 1 = Period THEN 0 ELSE phase + 1
    /\ fired' = FALSE
    /\ age' = Older(age)
    /\ request' = [w \in All |->
          IF At(w, "idle") THEN IdleRequest
          ELSE [request[w] EXCEPT !.age = @ + 1, !.base = Older(@)]]
    /\ UNCHANGED <<outage, failures>>

ChangeOutage ==
    /\ outage' = ~ outage
    /\ UNCHANGED <<phase, fired, age, failures, request>>

\* scheduled: now() is read.
Trigger ==
    /\ phase = 0
    /\ ~ fired
    /\ At(Cron, "idle")
    /\ fired' = TRUE
    /\ Goto(Cron, "check")
    /\ UNCHANGED <<phase, age, outage, failures>>

\* Mutated form: the refresh starts one second late.
NeedsRefresh_Late(a) == a > Ttl - RefreshWindow

\* Mutated form: a list is renewed only while it is valid.
NeedsRefresh_WhileValid(a) == a >= Ttl - RefreshWindow /\ a < Ttl

\* revocation_snapshot_needs_refresh, of the list's age at the time read.
NeedsRefresh(a) == a >= Ttl - RefreshWindow

\* refresh_revocation_snapshot looks at the current list.
RefreshCheck ==
    /\ At(Cron, "check")
    /\ IF age >= request[Cron].age /\ NeedsRefresh(age - request[Cron].age)
       THEN Goto(Cron, "read") /\ UNCHANGED failures
       ELSE Finish(Cron) /\ failures' = 0
    /\ UNCHANGED <<phase, fired, age, outage>>

\* admin_revoke or admin_rebuild_revocation_snapshot, its time read.
Start(w) ==
    /\ At(w, "idle")
    /\ Goto(w, "read")
    /\ UNCHANGED <<phase, fired, age, outage, failures>>

\* build_revocation_snapshot reads the current list, and signs.
Build(w) ==
    /\ At(w, "read")
    /\ request' = [request EXCEPT ![w].pc = "save", ![w].base = age,
                                  ![w].overtaken = FALSE]
    /\ UNCHANGED <<phase, fired, age, outage, failures>>

\* Mutated form: generated_at is the request's own time.
DraftAge_OwnTime(r) == r.age

\* generated_at is not before that of the list it replaces.
DraftAge(r) == IF r.base < r.age THEN r.base ELSE r.age

\* Only the cron's own outcomes count for or against it.
Succeeded(w) == failures' = IF w = Cron THEN 0 ELSE failures

\* Mutated form: no key on the version, a batch overtakes none.
Overtake_None(w) == Finish(w)

\* Every other list built on the one that is replaced has now a taken version.
Overtake(w) ==
    request' = [v \in All |->
        IF v = w THEN IdleRequest
        ELSE [request[v] EXCEPT !.overtaken = @ \/ At(v, "save")]]

\* save_revocation_snapshot or revoke_certificate
Save(w) ==
    /\ At(w, "save")
    /\ ~ request[w].overtaken
    /\ age' = DraftAge(request[w])
    /\ Overtake(w)
    /\ Succeeded(w)
    /\ UNCHANGED <<phase, fired, outage>>

\* The version is taken: the batch fails.  Another list has been published.
RefuseSave(w) ==
    /\ At(w, "save")
    /\ request[w].overtaken
    /\ Finish(w)
    /\ Succeeded(w)
    /\ UNCHANGED <<phase, fired, age, outage>>

\* Any request may end at any await; the cron's does so in an outage.
FailWorker(w) ==
    /\ ~ At(w, "idle")
    /\ Finish(w)
    /\ UNCHANGED <<phase, fired, age, outage, failures>>

FailCron ==
    /\ outage
    /\ ~ At(Cron, "idle")
    /\ Finish(Cron)
    /\ failures' = IF failures < MaxFailures THEN failures + 1 ELSE failures
    /\ UNCHANGED <<phase, fired, age, outage>>

Step(w) == Build(w) \/ Save(w) \/ RefuseSave(w)

Next ==
    \/ Tick
    \/ ChangeOutage
    \/ Trigger
    \/ RefreshCheck
    \/ FailCron
    \/ \E w \in Workers : Start(w) \/ FailWorker(w)
    \/ \E w \in All : Step(w)

\* Time passes, the platform fires its triggers, and runs what it has started.
Fairness ==
    /\ WF_vars(Tick)
    /\ WF_vars(Trigger)
    /\ WF_vars(RefreshCheck)
    /\ \A w \in All : WF_vars(Step(w))

Spec == Init /\ [][Next]_vars /\ Fairness

-------------------------------------------------------------------------------
(* Properties. *)

\* Every variable keeps its type, and a list whose base has not been overtaken
\* is built on the list that is still current.
TypeOK ==
    /\ phase \in 0 .. Period - 1
    /\ fired \in BOOLEAN
    /\ age \in Ages
    /\ outage \in BOOLEAN
    /\ failures \in 0 .. MaxFailures
    /\ request \in [All -> Requests]
    /\ \A w \in All :
          At(w, "save") /\ ~ request[w].overtaken => request[w].base = age

\* The age at which the window opens, and so many periods later.
Deadline(periods) == Ttl - RefreshWindow + Period * periods

\* A list is renewed in time, whoever publishes and whichever batches collide:
\* while fewer than MaxFailures triggers have failed in a row, the list is
\* no older than when the window opens, plus a period for every failure and one
\* for the trigger, plus the time a request takes.  With no failure that is
\* before it expires (Period + MaxLifetime <= RefreshWindow); with the
\* deployed numbers (Period = 900 = RefreshWindow / 2) a single failure may
\* already leave it expired, for less than MaxLifetime seconds.
RenewedInTime ==
    failures < MaxFailures =>
        age < Deadline(failures + 1) + MaxLifetime

\* A list, once published, is only replaced by one that expires no earlier,
\* although requests publish with clocks read before others published.
ExpiryNeverMovesBack == [][Tick \/ age' <= age]_vars

\* Once an outage is over, the list becomes valid and stays so, however long
\* it had been expired or missing and however many requests collide with the
\* refresh.
ListRecovers == <>[](~ outage) => <>[](age < Ttl)
===============================================================================
