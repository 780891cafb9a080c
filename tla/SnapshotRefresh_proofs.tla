------------------------ MODULE SnapshotRefresh_proofs -------------------------
(***************************************************************************)
(* The list is renewed in time, for all lifetimes, windows and periods     *)
(* that satisfy RefreshAssumption and any number of publishers.            *)
(*                                                                         *)
(* Along a period the bound moves with the phase: right after the trigger  *)
(* has been dealt with, the list is younger than the deadline of the       *)
(* failures so far plus the phase; while the trigger's request runs it is  *)
(* a period older at most.  A publication never makes the list older,      *)
(* because its base is the current list or it is refused.                  *)
(***************************************************************************)
EXTENDS SnapshotRefresh, TLAPS

\* The trigger of this period has not been dealt with.
Due == (phase = 0 /\ ~ fired) \/ ~ At(Cron, "idle")

\* The bound on the list's age in every state, tighter than RenewedInTime.
YoungEnough ==
    failures < MaxFailures =>
        age < Deadline(failures) + phase + (IF Due THEN Period ELSE 0)

\* The cron's request began with the phase, and the lists that overtake it
\* were not older than a request when they were published.
CronInStep ==
    ~ At(Cron, "idle") =>
        /\ request[Cron].age = phase
        /\ phase = 0 => fired
        /\ At(Cron, "save") /\ request[Cron].overtaken => age <= MaxLifetime + phase

\* A worker that is done has forgotten its request.
IdleIsIdle == \A w \in All : At(w, "idle") => request[w] = IdleRequest

IInv == TypeOK /\ YoungEnough /\ CronInStep /\ IdleIsIdle

-------------------------------------------------------------------------------
(* Arithmetic. *)

\* A deadline is a number, and one period more is one period later.
LEMMA DeadlineSteps ==
    ASSUME NEW n \in Nat
    PROVE  /\ Deadline(n) \in Nat
           /\ Deadline(n + 1) = Deadline(n) + Period
           /\ MaxLifetime < Deadline(n)
<1>1. Period * n \in Nat /\ Period * (n + 1) = Period * n + Period
  BY RefreshAssumption
<1>. QED BY <1>1, RefreshAssumption DEF Deadline

\* Ages stay in range and grow by one at most.
LEMMA OlderGrows ==
    ASSUME NEW a \in Ages
    PROVE  Older(a) \in Ages /\ Older(a) <= a + 1
<1>1. Ancient \in Nat
  <2>1. Period * MaxFailures \in Nat
    BY RefreshAssumption
  <2>. QED BY <2>1, RefreshAssumption DEF Ancient
<1>. QED BY <1>1 DEF Older, Ages

\* MaxLifetime is an age.
LEMMA LifetimeIsAnAge == 0 .. MaxLifetime \subseteq Ages
<1>1. Period * MaxFailures \in Nat
  BY RefreshAssumption
<1>. QED BY <1>1, RefreshAssumption DEF Ancient, Ages

-------------------------------------------------------------------------------
LEMMA InitIInv == Init => IInv
<1>. SUFFICES ASSUME Init PROVE IInv
  OBVIOUS
<1>1. Ancient \in Ages
  <2>1. Period * MaxFailures \in Nat
    BY RefreshAssumption
  <2>. QED BY <2>1, RefreshAssumption DEF Ancient, Ages
<1>2. TypeOK
  <2>1. IdleRequest \in Requests
    BY LifetimeIsAnAge, RefreshAssumption DEF IdleRequest, Requests
  <2>2. request \in [All -> Requests] /\ \A w \in All : ~ At(w, "save")
    BY <2>1 DEF Init, At, IdleRequest
  <2>3. phase \in 0 .. Period - 1 /\ failures \in 0 .. MaxFailures
    BY RefreshAssumption DEF Init
  <2>. QED BY <1>1, <2>2, <2>3 DEF Init, TypeOK
<1>3. YoungEnough /\ CronInStep /\ IdleIsIdle
  BY RefreshAssumption
     DEF Init, YoungEnough, CronInStep, IdleIsIdle, At, IdleRequest, All
<1>. QED BY <1>2, <1>3 DEF IInv

\* An idle request is one.
LEMMA IdleRequestType == IdleRequest \in Requests
BY LifetimeIsAnAge, RefreshAssumption DEF IdleRequest, Requests

LEMMA TickKeepsIInv == IInv /\ Tick => IInv'
<1>. SUFFICES ASSUME IInv, Tick PROVE IInv'
  OBVIOUS
<1>1. Cron \in All
  BY DEF All
<1>2. phase \in 0 .. Period - 1 /\ phase' \in 0 .. Period - 1
  <2>1. phase \in 0 .. Period - 1 /\ Period \in Nat
    BY RefreshAssumption DEF IInv, TypeOK
  <2>2. phase' = IF phase + 1 = Period THEN 0 ELSE phase + 1
    BY DEF Tick
  <2>. QED BY <2>1, <2>2
<1>3. age \in Ages /\ age' \in Ages /\ age' <= age + 1
  BY OlderGrows DEF IInv, TypeOK, Tick
<1>4. ASSUME NEW w \in All, At(w, "idle")
      PROVE  request'[w] = IdleRequest
  BY <1>4 DEF Tick
<1>5. ASSUME NEW w \in All, ~ At(w, "idle")
      PROVE  /\ request'[w] \in Requests
             /\ request'[w].pc = request[w].pc
             /\ request'[w].overtaken = request[w].overtaken
             /\ request'[w].age = request[w].age + 1
             /\ request'[w].base = Older(request[w].base)
  <2> DEFINE aged == [request[w] EXCEPT !.age = request[w].age + 1]
             grown == [aged EXCEPT !.base = Older(request[w].base)]
  <2>1. request[w] \in Requests /\ request[w].age < MaxLifetime
    BY <1>5 DEF Tick, IInv, TypeOK
  <2>2. request'[w] = grown
    BY <1>5, <2>1 DEF Tick, Requests
  <2>3. Older(request[w].base) \in Ages
    BY <2>1, OlderGrows DEF Requests
  <2>4. aged \in Requests /\ aged.age = request[w].age + 1
        /\ aged.pc = request[w].pc /\ aged.overtaken = request[w].overtaken
    BY <2>1, RefreshAssumption DEF Requests
  <2>. HIDE DEF aged
  <2>. QED BY <2>2, <2>3, <2>4 DEF Requests
<1>6. TypeOK'
  <2>1. request' \in [All -> Requests]
    <3>1. \A w \in All : request'[w] \in Requests
      BY <1>4, <1>5, IdleRequestType
    <3>. QED BY <3>1 DEF Tick
  <2>2. ASSUME NEW w \in All, At(w, "save")', ~ request'[w].overtaken
        PROVE  request'[w].base = age'
    <3>1. ~ At(w, "idle")
      BY <2>2, <1>4 DEF At, IdleRequest
    <3>2. At(w, "save") /\ ~ request[w].overtaken
      BY <2>2, <3>1, <1>5 DEF At
    <3>3. request[w].base = age
      BY <3>2 DEF IInv, TypeOK
    <3>. QED BY <3>1, <3>3, <1>5 DEF Tick
  <2>. QED BY <1>2, <1>3, <2>1, <2>2 DEF IInv, TypeOK, Tick
<1>7. IdleIsIdle'
  BY <1>4, <1>5 DEF IdleIsIdle, At
<1>8. CASE At(Cron, "idle")
  <2>1. At(Cron, "idle")'
    BY <1>1, <1>4, <1>8 DEF At, IdleRequest
  <2>2. CronInStep'
    BY <2>1 DEF CronInStep
  <2>3. ~ Due
    BY <1>8 DEF Tick, Due
  <2>4. YoungEnough'
    <3>. SUFFICES ASSUME failures < MaxFailures
                  PROVE  age' < Deadline(failures)
                                  + phase' + (IF Due' THEN Period ELSE 0)
      BY DEF YoungEnough, Tick, Deadline
    <3>1. age < Deadline(failures) + phase
      BY <2>3, DeadlineSteps, <1>2, <1>3 DEF IInv, YoungEnough, TypeOK
    <3>2. Deadline(failures) \in Nat /\ Period \in Nat
      BY DeadlineSteps, RefreshAssumption DEF IInv, TypeOK
    <3>3. CASE phase + 1 = Period
      <4>1. phase' = 0 /\ Due'
        BY <3>3 DEF Tick, Due
      <4>. QED BY <3>1, <3>2, <3>3, <4>1, <1>2, <1>3 DEF Ages
    <3>4. CASE phase + 1 # Period
      <4>1. phase' = phase + 1
        BY <3>4 DEF Tick
      <4>. QED BY <3>1, <3>2, <4>1, <1>2, <1>3 DEF Ages
    <3>. QED BY <3>3, <3>4
  <2>. QED BY <1>6, <1>7, <2>2, <2>4 DEF IInv
<1>9. CASE ~ At(Cron, "idle")
  <2>1. request[Cron].age = phase /\ request[Cron].age < MaxLifetime
    BY <1>1, <1>9 DEF IInv, CronInStep, Tick
  <2>2. phase' = phase + 1
    <3>1. phase < MaxLifetime /\ MaxLifetime < Period
      BY <2>1, RefreshAssumption
    <3>2. phase' = IF phase + 1 = Period THEN 0 ELSE phase + 1
      BY DEF Tick
    <3>3. phase \in Nat /\ Period \in Nat /\ MaxLifetime \in Nat
      BY <1>2, RefreshAssumption
    <3>. QED BY <3>1, <3>2, <3>3
  <2>3. ~ At(Cron, "idle")'
    BY <1>1, <1>5, <1>9 DEF At
  <2>4. CronInStep'
    <3>1. request'[Cron].age = phase'
      BY <1>1, <1>5, <1>9, <2>1, <2>2
    <3>2. phase' # 0
      BY <2>2, <1>2
    <3>3. ASSUME At(Cron, "save")', request'[Cron].overtaken
          PROVE  age' <= MaxLifetime + phase'
      <4>1. age <= MaxLifetime + phase
        BY <3>3, <1>1, <1>5, <1>9 DEF At, IInv, CronInStep
      <4>. QED BY <4>1, <2>2, <1>2, <1>3, RefreshAssumption DEF Ages
    <3>. QED BY <3>1, <3>2, <3>3 DEF CronInStep
  <2>5. YoungEnough'
    <3>. SUFFICES ASSUME failures < MaxFailures
                  PROVE  age' < Deadline(failures)
                                  + phase' + (IF Due' THEN Period ELSE 0)
      BY DEF YoungEnough, Tick, Deadline
    <3>1. Due /\ Due'
      BY <1>9, <2>3 DEF Due
    <3>2. age < Deadline(failures) + phase + Period
      BY <3>1 DEF IInv, YoungEnough
    <3>3. Deadline(failures) \in Nat /\ Period \in Nat
      BY DeadlineSteps, RefreshAssumption DEF IInv, TypeOK
    <3>. QED BY <3>1, <3>2, <3>3, <2>2, <1>2, <1>3 DEF Ages
  <2>. QED BY <1>6, <1>7, <2>4, <2>5 DEF IInv
<1>. QED BY <1>8, <1>9

-------------------------------------------------------------------------------
(* The steps in which no time passes. *)

\* A step that leaves clock, list and the cron's request alone, and keeps the
\* types, keeps the invariant.
LEMMA QuietStep ==
    ASSUME IInv, TypeOK', IdleIsIdle',
           UNCHANGED <<phase, fired, age, failures>>,
           request'[Cron] = request[Cron]
    PROVE  IInv'
<1>1. YoungEnough'
  BY DEF IInv, YoungEnough, Due, At, Deadline
<1>2. CronInStep'
  BY DEF IInv, CronInStep, At
<1>. QED BY <1>1, <1>2 DEF IInv

\* Replacing one request keeps the types and the idle ones.
LEMMA ReplaceRequest ==
    ASSUME IInv, NEW w \in All, NEW r \in Requests,
           request' = [request EXCEPT ![w] = r],
           r.pc = "idle" => r = IdleRequest,
           r.pc = "save" /\ ~ r.overtaken => r.base = age,
           UNCHANGED <<phase, age>>,
           fired' \in BOOLEAN, outage' \in BOOLEAN, failures' \in 0 .. MaxFailures
    PROVE  TypeOK' /\ IdleIsIdle'
<1>1. request' \in [All -> Requests] /\ request'[w] = r
      /\ \A v \in All \ {w} : request'[v] = request[v]
  BY DEF IInv, TypeOK
<1>2. TypeOK'
  BY <1>1 DEF IInv, TypeOK, At
<1>3. IdleIsIdle'
  BY <1>1 DEF IInv, IdleIsIdle, At
<1>. QED BY <1>2, <1>3

LEMMA TriggerKeepsIInv == IInv /\ Trigger => IInv'
<1>. SUFFICES ASSUME IInv, Trigger PROVE IInv'
  OBVIOUS
<1> DEFINE r == [request[Cron] EXCEPT !.pc = "check"]
<1>1. Cron \in All /\ request[Cron] \in Requests /\ request[Cron] = IdleRequest
  BY DEF All, IInv, TypeOK, IdleIsIdle, Trigger
<1>2. r \in Requests /\ r.pc = "check" /\ r.age = 0
  <2>1. request[Cron].age = 0
    BY <1>1 DEF IdleRequest
  <2>. QED BY <1>1, <2>1 DEF Requests
<1>3. request' = [request EXCEPT ![Cron] = r]
  BY DEF Trigger, Goto
<1>4. TypeOK' /\ IdleIsIdle'
  <2>1. failures' \in 0 .. MaxFailures /\ outage' \in BOOLEAN
    BY DEF Trigger, IInv, TypeOK
  <2>. HIDE DEF r
  <2>. QED BY <1>1, <1>2, <1>3, <2>1, ReplaceRequest DEF Trigger
<1>5. request'[Cron] = r
  BY <1>1, <1>3 DEF IInv, TypeOK
<1>6. CronInStep'
  BY <1>2, <1>5 DEF CronInStep, At, Trigger
<1>7. YoungEnough'
  <2>1. Due /\ Due'
    BY <1>2, <1>5 DEF Due, Trigger, At
  <2>. QED BY <2>1 DEF Trigger, IInv, YoungEnough, Deadline
<1>. QED BY <1>4, <1>6, <1>7 DEF IInv

\* The end of the cron's request with the list young enough for the failures
\* counted so far.
LEMMA CronEnds ==
    ASSUME IInv, ~ At(Cron, "idle"), request' = [request EXCEPT ![Cron] = IdleRequest],
           UNCHANGED <<phase, fired, age>>, outage' = outage,
           failures' \in 0 .. MaxFailures,
           failures' < MaxFailures => age < Deadline(failures') + phase
    PROVE  IInv'
<1>1. Cron \in All
  BY DEF All
<1>2. TypeOK' /\ IdleIsIdle'
  <2>1. fired' \in BOOLEAN /\ outage' \in BOOLEAN
    BY DEF IInv, TypeOK
  <2>2. IdleRequest.pc = "idle"
    BY DEF IdleRequest
  <2>. QED BY <1>1, <2>1, <2>2, IdleRequestType, ReplaceRequest
<1>3. request'[Cron] = IdleRequest
  BY <1>1 DEF IInv, TypeOK
<1>4. CronInStep'
  BY <1>3 DEF CronInStep, At, IdleRequest
<1>5. ~ Due'
  <2>1. phase = 0 => fired
    BY DEF IInv, CronInStep
  <2>. QED BY <1>3, <2>1 DEF Due, At, IdleRequest
<1>6. YoungEnough'
  <2>. SUFFICES ASSUME failures' < MaxFailures
                PROVE  age < Deadline(failures') + phase + 0
    BY <1>5 DEF YoungEnough, Deadline
  <2>1. Deadline(failures') \in Nat /\ phase \in Nat
    BY DeadlineSteps, RefreshAssumption DEF IInv, TypeOK
  <2>. QED BY <2>1
<1>. QED BY <1>2, <1>4, <1>6 DEF IInv

LEMMA RefreshCheckKeepsIInv == IInv /\ RefreshCheck => IInv'
<1>. SUFFICES ASSUME IInv, RefreshCheck PROVE IInv'
  OBVIOUS
<1>1. Cron \in All /\ request[Cron] \in Requests /\ request[Cron].pc = "check"
      /\ age \in Ages /\ phase \in Nat /\ failures \in 0 .. MaxFailures
      /\ outage' \in BOOLEAN /\ fired' \in BOOLEAN
  BY RefreshAssumption DEF All, IInv, TypeOK, RefreshCheck, At
<1>2. request[Cron].age = phase
  BY <1>1 DEF IInv, CronInStep, At
<1>3. CASE age >= request[Cron].age /\ NeedsRefresh(age - request[Cron].age)
  <2> DEFINE r == [request[Cron] EXCEPT !.pc = "read"]
  <2>1. r \in Requests /\ r.pc = "read" /\ r.age = phase
    BY <1>1, <1>2 DEF Requests
  <2>2. request' = [request EXCEPT ![Cron] = r] /\ failures' = failures
    BY <1>3 DEF RefreshCheck, Goto
  <2>3. TypeOK' /\ IdleIsIdle'
    <3>. HIDE DEF r
    <3>. QED BY <1>1, <2>1, <2>2, ReplaceRequest DEF RefreshCheck
  <2>4. request'[Cron] = r
    BY <1>1, <2>2 DEF IInv, TypeOK
  <2>5. CronInStep'
    BY <1>1, <2>1, <2>4 DEF IInv, CronInStep, At, RefreshCheck
  <2>6. YoungEnough'
    <3>1. Due /\ Due'
      BY <1>1, <2>1, <2>4 DEF Due, At
    <3>. QED BY <2>2, <3>1 DEF RefreshCheck, IInv, YoungEnough, Deadline
  <2>. QED BY <2>3, <2>5, <2>6 DEF IInv
<1>4. CASE ~ (age >= request[Cron].age /\ NeedsRefresh(age - request[Cron].age))
  <2>1. request' = [request EXCEPT ![Cron] = IdleRequest] /\ failures' = 0
    BY <1>4 DEF RefreshCheck, Finish
  <2>2. age < Deadline(0) + phase
    <3>1. Deadline(0) = Ttl - RefreshWindow /\ Deadline(0) \in Nat
          /\ MaxLifetime < Deadline(0)
      BY DeadlineSteps, RefreshAssumption DEF Deadline
    <3>2. age \in Nat
      BY <1>1 DEF Ages
    <3>3. CASE age >= phase
      <4>1. ~ (age - phase >= Ttl - RefreshWindow)
        BY <1>2, <1>4, <3>3 DEF NeedsRefresh
      <4>. QED BY <1>1, <3>1, <3>2, <4>1, RefreshAssumption
    <3>4. CASE ~ (age >= phase)
      BY <1>1, <3>1, <3>2, <3>4, RefreshAssumption
    <3>. QED BY <3>3, <3>4
  <2>3. 0 \in 0 .. MaxFailures /\ ~ At(Cron, "idle")
    BY <1>1, RefreshAssumption DEF At
  <2>. QED BY <2>1, <2>2, <2>3, CronEnds DEF RefreshCheck
<1>. QED BY <1>3, <1>4

LEMMA FailCronKeepsIInv == IInv /\ FailCron => IInv'
<1>. SUFFICES ASSUME IInv, FailCron PROVE IInv'
  OBVIOUS
<1>1. failures \in 0 .. MaxFailures /\ failures' \in 0 .. MaxFailures
      /\ age \in Nat /\ phase \in Nat
  BY RefreshAssumption DEF FailCron, IInv, TypeOK, Ages
<1>2. ASSUME failures' < MaxFailures
      PROVE  age < Deadline(failures') + phase
  <2>1. failures < MaxFailures /\ failures' = failures + 1
    BY <1>1, <1>2, RefreshAssumption DEF FailCron
  <2>2. age < Deadline(failures) + phase + Period
    BY <2>1 DEF IInv, YoungEnough, FailCron, Due
  <2>3. Deadline(failures) \in Nat /\ Deadline(failures + 1) = Deadline(failures) + Period
    BY <1>1, DeadlineSteps
  <2>. QED BY <1>1, <2>1, <2>2, <2>3, RefreshAssumption
<1>3. ~ At(Cron, "idle") /\ request' = [request EXCEPT ![Cron] = IdleRequest]
      /\ UNCHANGED <<phase, fired, age>> /\ outage' = outage
  BY DEF FailCron, Finish
<1>. QED BY <1>1, <1>2, <1>3, CronEnds

\* Start and FailWorker are about other requests than the cron's.
LEMMA WorkersKeepIInv ==
    ASSUME IInv, NEW w \in Workers, Start(w) \/ FailWorker(w)
    PROVE  IInv'
<1>1. w \in All /\ w # Cron /\ Cron \in All /\ request[w] \in Requests
  BY RefreshAssumption DEF All, IInv, TypeOK
<1>2. UNCHANGED <<phase, fired, age, failures>> /\ outage' = outage
      /\ outage \in BOOLEAN /\ fired \in BOOLEAN /\ failures \in 0 .. MaxFailures
  BY DEF Start, FailWorker, IInv, TypeOK
<1>3. PICK r \in Requests :
          /\ request' = [request EXCEPT ![w] = r]
          /\ r.pc = "idle" => r = IdleRequest
          /\ r.pc # "save"
  <2>1. CASE Start(w)
    <3> DEFINE r == [request[w] EXCEPT !.pc = "read"]
    <3>1. r \in Requests /\ r.pc = "read"
      BY <1>1 DEF Requests
    <3>2. request' = [request EXCEPT ![w] = r]
      BY <2>1 DEF Start, Goto
    <3>. QED BY <3>1, <3>2
  <2>2. CASE FailWorker(w)
    <3>1. request' = [request EXCEPT ![w] = IdleRequest] /\ IdleRequest.pc = "idle"
      BY <2>2 DEF FailWorker, Finish, IdleRequest
    <3>. QED BY <3>1, IdleRequestType
  <2>. QED BY <2>1, <2>2
<1>4. TypeOK' /\ IdleIsIdle'
  BY <1>1, <1>2, <1>3, ReplaceRequest
<1>5. request'[Cron] = request[Cron]
  BY <1>1, <1>3 DEF IInv, TypeOK
<1>. QED BY <1>2, <1>4, <1>5, QuietStep

\* Building keeps the request's age and makes it a save.
LEMMA BuildKeepsIInv ==
    ASSUME IInv, NEW w \in All, Build(w)
    PROVE  IInv'
<1> DEFINE r == [request[w] EXCEPT !.pc = "save", !.base = age, !.overtaken = FALSE]
<1>1. request[w] \in Requests /\ age \in Ages /\ request[w].pc = "read"
  BY DEF IInv, TypeOK, Build, At
<1>2. r \in Requests /\ r.pc = "save" /\ ~ r.overtaken /\ r.base = age
      /\ r.age = request[w].age
  BY <1>1 DEF Requests
<1>3. request' = [request EXCEPT ![w] = r]
  BY <1>1 DEF Build, IInv, TypeOK
<1>4. UNCHANGED <<phase, fired, age, failures>> /\ outage' = outage
      /\ outage \in BOOLEAN /\ fired \in BOOLEAN /\ failures \in 0 .. MaxFailures
  BY DEF Build, IInv, TypeOK
<1>5. TypeOK' /\ IdleIsIdle'
  <2>. HIDE DEF r
  <2>. QED BY <1>2, <1>3, <1>4, ReplaceRequest
<1>6. CASE w # Cron
  <2>1. request'[Cron] = request[Cron]
    BY <1>3, <1>6 DEF IInv, TypeOK, All
  <2>. QED BY <1>4, <1>5, <2>1, QuietStep
<1>7. CASE w = Cron
  <2>1. request'[Cron] = r
    BY <1>3, <1>7 DEF IInv, TypeOK
  <2>2. CronInStep'
    BY <1>1, <1>2, <1>4, <1>7, <2>1 DEF IInv, CronInStep, At
  <2>3. YoungEnough'
    <3>1. Due /\ Due'
      BY <1>1, <1>2, <1>7, <2>1 DEF Due, At
    <3>. QED BY <1>4, <3>1 DEF IInv, YoungEnough, Deadline
  <2>. QED BY <1>5, <2>2, <2>3 DEF IInv
<1>. QED BY <1>6, <1>7

LEMMA SaveKeepsIInv ==
    ASSUME IInv, NEW w \in All, Save(w)
    PROVE  IInv'
<1>1. request[w] \in Requests /\ age \in Ages /\ phase \in Nat /\ Cron \in All
      /\ request[w].base = age /\ request[w].pc = "save"
      /\ request[w].age \in 0 .. MaxLifetime /\ failures \in 0 .. MaxFailures
  BY RefreshAssumption DEF IInv, TypeOK, Save, At, Requests, All
<1>2. age' \in Ages /\ age' <= age /\ age' <= request[w].age
  <2>1. age' = IF age < request[w].age THEN age ELSE request[w].age
    BY <1>1 DEF Save, DraftAge
  <2>2. age \in Nat /\ request[w].age \in Nat /\ request[w].age \in Ages
    BY <1>1, LifetimeIsAnAge, RefreshAssumption DEF Ages
  <2>. QED BY <1>1, <2>1, <2>2
<1>3. age' \in Nat /\ age \in Nat
  BY <1>1, <1>2 DEF Ages
<1>4. ASSUME NEW v \in All, v # w
      PROVE  /\ request'[v] \in Requests
             /\ request'[v].pc = request[v].pc
             /\ request'[v].age = request[v].age
             /\ request[v].pc = "save" => request'[v].overtaken
             /\ request[v].pc # "save" => request'[v] = request[v]
  <2>1. request'[v] = [request[v] EXCEPT !.overtaken = @ \/ At(v, "save")]
    BY <1>4 DEF Save, Overtake
  <2>2. request[v] \in Requests /\ request[v].overtaken \in BOOLEAN
    BY DEF IInv, TypeOK, Requests
  <2>. QED BY <2>1, <2>2 DEF Requests, At
<1>5. request'[w] = IdleRequest /\ IdleRequest.pc = "idle"
  BY DEF Save, Overtake, IdleRequest
<1>6. TypeOK'
  <2>1. request' \in [All -> Requests]
    <3>1. \A v \in All : request'[v] \in Requests
      BY <1>4, <1>5, IdleRequestType
    <3>. QED BY <3>1 DEF Save, Overtake
  <2>2. \A v \in All : At(v, "save")' => request'[v].overtaken
    BY <1>4, <1>5 DEF At
  <2>3. failures' \in 0 .. MaxFailures
    BY <1>1, RefreshAssumption DEF Save, Succeeded
  <2>. QED BY <1>2, <2>1, <2>2, <2>3 DEF IInv, TypeOK, Save
<1>7. IdleIsIdle'
  BY <1>4, <1>5 DEF IInv, IdleIsIdle, At
<1>8. CASE w = Cron
  <2>1. At(Cron, "idle")' /\ failures' = 0
    BY <1>5, <1>8 DEF At, Save, Succeeded
  <2>2. phase = 0 => fired
    BY <1>1, <1>8 DEF IInv, CronInStep, At
  <2>3. age' < Deadline(0) + phase + 0
    BY <1>1, <1>2, <1>3, DeadlineSteps, RefreshAssumption
  <2>4. YoungEnough'
    BY <2>1, <2>2, <2>3 DEF YoungEnough, Due, Save, Deadline
  <2>. QED BY <1>6, <1>7, <2>1, <2>4 DEF IInv, CronInStep
<1>9. CASE w # Cron
  <2>1. failures' = failures /\ UNCHANGED <<phase, fired>>
    BY <1>9 DEF Save, Succeeded
  <2>2. request'[Cron].pc = request[Cron].pc /\ request'[Cron].age = request[Cron].age
    BY <1>1, <1>4, <1>9
  <2>3. age' <= MaxLifetime + phase
    BY <1>1, <1>2, <1>3, RefreshAssumption
  <2>4. CronInStep'
    BY <2>1, <2>2, <2>3 DEF IInv, CronInStep, At
  <2>5. YoungEnough'
    <3>. SUFFICES ASSUME failures < MaxFailures
                  PROVE  age' < Deadline(failures)
                                  + phase + (IF Due THEN Period ELSE 0)
      BY <2>1, <2>2 DEF YoungEnough, Due, At, Deadline
    <3>1. age < Deadline(failures) + phase + (IF Due THEN Period ELSE 0)
      BY DEF IInv, YoungEnough
    <3>2. Deadline(failures) \in Nat /\ Period \in Nat
      BY <1>1, DeadlineSteps, RefreshAssumption
    <3>. QED BY <1>1, <1>2, <1>3, <3>1, <3>2
  <2>. QED BY <1>6, <1>7, <2>4, <2>5 DEF IInv
<1>. QED BY <1>8, <1>9

LEMMA RefuseSaveKeepsIInv ==
    ASSUME IInv, NEW w \in All, RefuseSave(w)
    PROVE  IInv'
<1>1. request' = [request EXCEPT ![w] = IdleRequest]
      /\ UNCHANGED <<phase, fired, age>> /\ outage' = outage
      /\ request[w].pc = "save" /\ request[w].overtaken
  BY DEF RefuseSave, Finish, At
<1>2. CASE w = Cron
  <2>1. failures' = 0 /\ 0 \in 0 .. MaxFailures
    BY <1>2, RefreshAssumption DEF RefuseSave, Succeeded
  <2>2. age <= MaxLifetime + phase
    BY <1>1, <1>2 DEF IInv, CronInStep, At
  <2>3. age < Deadline(0) + phase
    <3>1. age \in Nat /\ phase \in Nat
      BY RefreshAssumption DEF IInv, TypeOK, Ages
    <3>. QED BY <2>2, <3>1, DeadlineSteps, RefreshAssumption
  <2>4. ~ At(Cron, "idle")
    BY <1>1, <1>2 DEF At
  <2>. QED BY <1>1, <1>2, <2>1, <2>3, <2>4, CronEnds
<1>3. CASE w # Cron
  <2>1. failures' = failures
    BY <1>3 DEF RefuseSave, Succeeded
  <2>2. fired \in BOOLEAN /\ outage \in BOOLEAN /\ failures \in 0 .. MaxFailures
    BY DEF IInv, TypeOK
  <2>3. TypeOK' /\ IdleIsIdle'
    <3>1. IdleRequest.pc = "idle"
      BY DEF IdleRequest
    <3>. QED BY <1>1, <2>1, <2>2, <3>1, IdleRequestType, ReplaceRequest
  <2>4. request'[Cron] = request[Cron]
    BY <1>1, <1>3 DEF IInv, TypeOK, All
  <2>. QED BY <1>1, <2>1, <2>3, <2>4, QuietStep
<1>. QED BY <1>2, <1>3

-------------------------------------------------------------------------------
LEMMA NextIInv == IInv /\ [Next]_vars => IInv'
<1>. SUFFICES ASSUME IInv, [Next]_vars PROVE IInv'
  OBVIOUS
<1>1. CASE Tick
  BY <1>1, TickKeepsIInv
<1>2. CASE ChangeOutage
  <2>1. TypeOK' /\ IdleIsIdle'
    BY <1>2 DEF ChangeOutage, IInv, TypeOK, IdleIsIdle, At
  <2>. QED BY <1>2, <2>1, QuietStep DEF ChangeOutage
<1>3. CASE Trigger
  BY <1>3, TriggerKeepsIInv
<1>4. CASE RefreshCheck
  BY <1>4, RefreshCheckKeepsIInv
<1>5. CASE FailCron
  BY <1>5, FailCronKeepsIInv
<1>6. ASSUME NEW w \in Workers, Start(w) \/ FailWorker(w) PROVE IInv'
  BY <1>6, WorkersKeepIInv
<1>7. ASSUME NEW w \in All, Step(w) PROVE IInv'
  BY <1>7, BuildKeepsIInv, SaveKeepsIInv, RefuseSaveKeepsIInv DEF Step
<1>8. CASE UNCHANGED vars
  <2>1. TypeOK' /\ IdleIsIdle'
    BY <1>8 DEF vars, IInv, TypeOK, IdleIsIdle, At
  <2>. QED BY <1>8, <2>1, QuietStep DEF vars
<1>. QED BY <1>1, <1>2, <1>3, <1>4, <1>5, <1>6, <1>7, <1>8 DEF Next

\* The inductive invariant holds in every reachable state.
THEOREM Invariance == Spec => []IInv
<1>. QED BY InitIInv, NextIInv, PTL DEF Spec

\* Every variable keeps its type, and a list that was not overtaken is built
\* on the current one.
THEOREM TypeCorrectness == Spec => []TypeOK
<1>1. IInv => TypeOK
  BY DEF IInv
<1>. QED BY <1>1, Invariance, PTL

\* The age of the list is bounded by the failed triggers in a row, whatever
\* else is published and whichever requests collide.
THEOREM Renewal == Spec => []RenewedInTime
<1>1. IInv => RenewedInTime
  <2>. SUFFICES ASSUME IInv, failures < MaxFailures
                PROVE  age < Deadline(failures + 1) + MaxLifetime
    BY DEF RenewedInTime
  <2>1. age \in Nat /\ phase \in 0 .. Period - 1 /\ failures \in Nat
    BY DEF IInv, TypeOK, Ages
  <2>2. Deadline(failures) \in Nat /\ Deadline(failures + 1) = Deadline(failures) + Period
    BY <2>1, DeadlineSteps
  <2>3. age < Deadline(failures) + phase + (IF Due THEN Period ELSE 0)
    BY DEF IInv, YoungEnough
  <2>4. CASE At(Cron, "idle")
    <3>1. Due => phase = 0
      BY <2>4 DEF Due
    <3>. QED BY <2>1, <2>2, <2>3, <3>1, RefreshAssumption
  <2>5. CASE ~ At(Cron, "idle")
    <3>1. phase <= MaxLifetime
      BY <2>5, RefreshAssumption DEF IInv, CronInStep, TypeOK, Requests, All
    <3>. QED BY <2>1, <2>2, <2>3, <3>1, RefreshAssumption
  <2>. QED BY <2>4, <2>5
<1>. QED BY <1>1, Invariance, PTL

\* As long as no trigger fails, the list never expires: a period and a
\* request fit into the refresh window.
THEOREM HealthyListIsValid ==
    Spec => [](failures = 0 /\ MaxFailures > 0 => age < Ttl)
<1>1. TypeOK /\ RenewedInTime => (failures = 0 /\ MaxFailures > 0 => age < Ttl)
  <2>. SUFFICES ASSUME TypeOK, RenewedInTime, failures = 0, MaxFailures > 0
                PROVE  age < Ttl
    OBVIOUS
  <2>1. age < Deadline(0 + 1) + MaxLifetime
    BY DEF RenewedInTime
  <2>2. Deadline(0 + 1) = Ttl - RefreshWindow + Period
    BY DeadlineSteps, RefreshAssumption DEF Deadline
  <2>3. age \in Nat
    BY DEF TypeOK, Ages
  <2>. QED BY <2>1, <2>2, <2>3, RefreshAssumption
<1>. QED BY <1>1, TypeCorrectness, Renewal, PTL

\* No publication moves the expiry back.
THEOREM ExpiryMonotone == Spec => ExpiryNeverMovesBack
<1>1. IInv /\ [Next]_vars => [Tick \/ age' <= age]_vars
  <2>. SUFFICES ASSUME IInv, Next PROVE Tick \/ age' <= age
    OBVIOUS
  <2>1. age \in Nat
    BY DEF IInv, TypeOK, Ages
  <2>2. ASSUME NEW w \in All, Save(w) PROVE age' <= age
    <3>1. request[w].base = age /\ request[w].age \in Nat
      BY <2>2, RefreshAssumption DEF IInv, TypeOK, Save, Requests
    <3>. QED BY <2>1, <2>2, <3>1 DEF Save, DraftAge
  <2>3. Tick \/ UNCHANGED age \/ \E w \in All : Save(w)
    BY DEF Next, ChangeOutage, Trigger, RefreshCheck, FailCron, Start,
           FailWorker, Step, Build, RefuseSave
  <2>. QED BY <2>1, <2>2, <2>3
<1>. QED BY <1>1, Invariance, PTL DEF Spec, ExpiryNeverMovesBack
===============================================================================
