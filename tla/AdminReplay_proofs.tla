-------------------------- MODULE AdminReplay_proofs --------------------------
(***************************************************************************)
(* Proofs about module AdminReplay, for any tokens, action ids, lifetimes, *)
(* capacity and number of concurrent actions, without bounds on the clock  *)
(* or the uses.                                                            *)
(*                                                                         *)
(* The argument: a use has its row in the cache until it has expired, or   *)
(* until an eviction kept Capacity rows in its stead, each of another jti  *)
(* that was used before and expires no sooner.  The primary key, and not   *)
(* the order of the three statements, refuses a second use.                *)
(***************************************************************************)
EXTENDS AdminReplay, FiniteSetTheorems, TLAPS

\* What a request knows while it stands at an await.
RequestInv(r) ==
    r.pc # "idle" =>
        /\ r.jti \in Jtis
        /\ r.now <= clock
        /\ r.jti \in Tokens => r.expires_at <= clock + MaxTokenLifetime + Skew

\* The jtis that outlast use m, among the uses up to the n-th.
Outlasting(m, n) ==
    {uses[k].jti : k \in {i \in 1 .. n : /\ uses[i].jti # uses[m].jti
                                         /\ uses[i].expires_at >= uses[m].expires_at}}

\* A row of the cache remembers a use.
RowsAreUses ==
    /\ IsFiniteSet(cache)
    /\ \A row \in cache : \E k \in DOMAIN uses :
          uses[k].jti = row.jti /\ uses[k].expires_at = row.expires_at

\* A use is remembered, has expired, or has given way to Capacity others.
UsesAreRemembered ==
    \A m \in DOMAIN uses :
        \/ \E row \in cache : /\ row.jti = uses[m].jti
                              /\ row.expires_at = uses[m].expires_at
        \/ uses[m].expires_at <= clock
        \/ Cardinality(Outlasting(m, Len(uses))) >= Capacity

IInv ==
    /\ TypeOK
    /\ \A w \in Workers : RequestInv(request[w])
    /\ RowsAreUses
    /\ UsesAreRemembered
    /\ UsedOnceWhileValid

-------------------------------------------------------------------------------
Uses == [jti: Jtis, at: Nat, expires_at: Nat]

LEMMA UsesTyped ==
    ASSUME TypeOK
    PROVE  /\ uses \in Seq(Uses)
           /\ DOMAIN uses = 1 .. Len(uses) /\ Len(uses) \in Nat
           /\ \A m \in DOMAIN uses : /\ uses[m].jti \in Jtis
                                     /\ uses[m].at \in Nat
                                     /\ uses[m].expires_at \in Nat
<1>1. uses \in Seq(Uses)
  BY DEF TypeOK, Uses
<1>2. /\ DOMAIN uses = 1 .. Len(uses) /\ Len(uses) \in Nat
      /\ \A m \in DOMAIN uses : uses[m] \in Uses
  BY <1>1
<1>. QED BY <1>1, <1>2 DEF Uses

LEMMA OutlastingIsFinite ==
    ASSUME TypeOK, NEW m \in DOMAIN uses, NEW n \in 0 .. Len(uses)
    PROVE  IsFiniteSet(Outlasting(m, n)) /\ Cardinality(Outlasting(m, n)) \in Nat
<1> DEFINE I == {i \in 1 .. n : /\ uses[i].jti # uses[m].jti
                                /\ uses[i].expires_at >= uses[m].expires_at}
           f == [k \in I |-> uses[k].jti]
<1>1. n \in Nat
  BY UsesTyped
<1>2. IsFiniteSet(1 .. n)
  BY <1>1, FS_Interval
<1>3. IsFiniteSet(I)
  BY <1>2, FS_Subset
<1>4. f \in Surjection(I, Outlasting(m, n))
  BY DEF Surjection, Outlasting
<1>5. IsFiniteSet(Outlasting(m, n))
  BY <1>3, <1>4, FS_Surjection
<1>. QED BY <1>5, FS_CardinalityType

\* An eviction that makes a row go has kept Capacity jtis that outlast it.
LEMMA KeptOutlast ==
    ASSUME TypeOK, RowsAreUses, NEW m \in DOMAIN uses,
           NEW gone \in cache, NEW Kept \in SUBSET cache, gone \notin Kept,
           gone.jti = uses[m].jti, gone.expires_at = uses[m].expires_at,
           \A row \in Kept : gone.expires_at <= row.expires_at
    PROVE  Cardinality(Kept) <= Cardinality(Outlasting(m, Len(uses)))
<1> DEFINE T == Outlasting(m, Len(uses))
           f == [row \in Kept |-> row.jti]
<1>1. ASSUME NEW row \in Kept
      PROVE  row.jti \in T
  <2>1. PICK k \in DOMAIN uses :
           uses[k].jti = row.jti /\ uses[k].expires_at = row.expires_at
    BY DEF RowsAreUses
  <2>2. row.jti # gone.jti
    BY DEF TypeOK
  <2>3. row.expires_at >= gone.expires_at
    BY DEF TypeOK, Rows
  <2>4. k \in 1 .. Len(uses)
    BY UsesTyped
  <2>. QED BY <2>1, <2>2, <2>3, <2>4 DEF Outlasting
<1>2. \A row, other \in Kept : row.jti = other.jti => row = other
  BY DEF TypeOK
<1>3. f \in Injection(Kept, T)
  BY <1>1, <1>2 DEF Injection, IsInjective
<1>4. IsFiniteSet(T)
  BY UsesTyped, OutlastingIsFinite
<1>. QED BY <1>3, <1>4, FS_Injection

LEMMA AppendFacts ==
    ASSUME TypeOK, NEW u \in Uses, uses' = Append(uses, u)
    PROVE  /\ uses' \in Seq(Uses)
           /\ Len(uses') = Len(uses) + 1
           /\ DOMAIN uses' = DOMAIN uses \cup {Len(uses) + 1}
           /\ Len(uses) + 1 \notin DOMAIN uses
           /\ \A k \in DOMAIN uses : uses'[k] = uses[k]
           /\ uses'[Len(uses) + 1] = u
BY UsesTyped

\* Of a use, as many are outlasting later as have been so far, and those are
\* the same.
LEMMA OutlastingGrows ==
    ASSUME TypeOK, TypeOK', NEW u \in Uses, uses' = Append(uses, u),
           NEW m \in DOMAIN uses
    PROVE  /\ \A n \in 0 .. Len(uses) : Outlasting(m, n)' = Outlasting(m, n)
           /\ Cardinality(Outlasting(m, Len(uses))) \in Nat
           /\ Cardinality(Outlasting(m, Len(uses))') \in Nat
           /\ Cardinality(Outlasting(m, Len(uses)))
                 <= Cardinality(Outlasting(m, Len(uses))')
<1>1. \A k \in 1 .. Len(uses) : uses'[k] = uses[k]
  BY AppendFacts, UsesTyped
<1>2. ASSUME NEW n \in 0 .. Len(uses)
      PROVE  Outlasting(m, n)' = Outlasting(m, n)
  <2>1. 1 .. n \subseteq 1 .. Len(uses) /\ m \in 1 .. Len(uses)
    BY UsesTyped
  <2>. QED BY <1>1, <2>1 DEF Outlasting
<1>3. Outlasting(m, Len(uses)) \subseteq Outlasting(m, Len(uses))'
  <2>1. Len(uses') = Len(uses) + 1 /\ 1 .. Len(uses) \subseteq 1 .. Len(uses')
        /\ m \in 1 .. Len(uses)
    BY AppendFacts, UsesTyped
  <2>. QED BY <1>1, <2>1 DEF Outlasting
<1>4. IsFiniteSet(Outlasting(m, Len(uses))')
  <2>1. m \in DOMAIN uses' /\ Len(uses') \in 0 .. Len(uses')
    BY AppendFacts, UsesTyped
  <2>2. ASSUME NEW n, n = Len(uses')
        PROVE  IsFiniteSet(Outlasting(m, n)')
    <3> DEFINE I == {i \in 1 .. n : /\ uses'[i].jti # uses'[m].jti
                                    /\ uses'[i].expires_at >= uses'[m].expires_at}
               f == [k \in I |-> uses'[k].jti]
    <3>1. n \in Nat
      BY <2>2, AppendFacts, UsesTyped
    <3>2. IsFiniteSet(I)
      <4>1. IsFiniteSet(1 .. n)
        BY <3>1, FS_Interval
      <4>. QED BY <4>1, FS_Subset
    <3>3. f \in Surjection(I, Outlasting(m, n)')
      BY DEF Surjection, Outlasting
    <3>. QED BY <3>2, <3>3, FS_Surjection
  <2>3. ASSUME NEW n, n = Len(uses')
        PROVE  Outlasting(m, n)' = Outlasting(m, Len(uses))'
    BY <2>3 DEF Outlasting
  <2>. QED BY <2>2, <2>3
<1>5. Cardinality(Outlasting(m, Len(uses))) \in Nat
  BY UsesTyped, OutlastingIsFinite
<1>. QED BY <1>2, <1>3, <1>4, <1>5, FS_Subset, FS_CardinalityType

-------------------------------------------------------------------------------
(* Requests. *)

LEMMA RequestKept ==
    ASSUME IInv, NEW w \in Workers, NEW r \in Requests, RequestInv(r)',
           request' = [request EXCEPT ![w] = r], clock' = clock
    PROVE  /\ request' \in [Workers -> Requests]
           /\ \A v \in Workers : request'[v] = IF v = w THEN r ELSE request[v]
           /\ \A v \in Workers : RequestInv(request[v])'
<1>1. /\ request' \in [Workers -> Requests]
      /\ \A v \in Workers : request'[v] = IF v = w THEN r ELSE request[v]
  BY DEF IInv, TypeOK
<1>. QED BY <1>1 DEF IInv, RequestInv

LEMMA GotoFacts ==
    ASSUME IInv, NEW w \in Workers, ~ At(w, "idle"),
           NEW pc \in {"consume", "evict", "insert", "consumed"},
           Goto(w, pc), clock' = clock
    PROVE  /\ request' \in [Workers -> Requests]
           /\ \A v \in Workers : RequestInv(request[v])'
<1>1. request[w] \in Requests /\ RequestInv(request[w]) /\ request[w].pc # "idle"
  BY DEF IInv, TypeOK, At
<1>2. [request[w] EXCEPT !.pc = pc] \in Requests
  BY <1>1 DEF Requests
<1>3. PICK r \in Requests : r = [request[w] EXCEPT !.pc = pc]
  BY <1>2
<1>4. /\ r.pc = pc /\ r.jti = request[w].jti
      /\ r.expires_at = request[w].expires_at /\ r.now = request[w].now
  BY <1>1, <1>3 DEF Requests
<1>5. request' = [request EXCEPT ![w] = r]
  BY <1>1, <1>3 DEF Goto
<1>6. RequestInv(r)'
  BY <1>1, <1>4 DEF RequestInv
<1>. QED BY <1>5, <1>6, RequestKept

LEMMA FinishFacts ==
    ASSUME IInv, NEW w \in Workers, Finish(w), clock' = clock
    PROVE  /\ request' \in [Workers -> Requests]
           /\ \A v \in Workers : RequestInv(request[v])'
<1>1. IdleRequest \in Requests /\ IdleRequest.pc = "idle"
  BY DEF IdleRequest, Requests
<1>2. RequestInv(IdleRequest)'
  BY <1>1 DEF RequestInv
<1>. QED BY <1>1, <1>2, RequestKept DEF Finish

LEMMA BeginFacts ==
    ASSUME IInv, NEW w \in Workers, NEW j \in Jtis, NEW expires \in Nat,
           NEW pc \in {"accounts", "consume"}, Begin(w, j, expires, pc),
           j \in Tokens => expires <= clock + MaxTokenLifetime + Skew
    PROVE  /\ request' \in [Workers -> Requests]
           /\ \A v \in Workers : RequestInv(request[v])'
<1> DEFINE r == [pc |-> pc, jti |-> j, expires_at |-> expires, now |-> clock]
<1>1. clock \in Nat /\ clock' = clock
  BY DEF IInv, TypeOK, Begin
<1>2. r \in Requests
  BY <1>1 DEF Requests
<1>3. RequestInv(r)'
  BY <1>1 DEF RequestInv
<1>4. request' = [request EXCEPT ![w] = r]
  BY DEF Begin
<1>. QED BY <1>1, <1>2, <1>3, <1>4, RequestKept

\* A step that leaves the cache and the uses alone.
LEMMA OnlyRequestChanges ==
    ASSUME IInv, UNCHANGED <<cache, uses, clock>>,
           request' \in [Workers -> Requests],
           \A v \in Workers : RequestInv(request[v])'
    PROVE  IInv'
<1>1. TypeOK'
  BY DEF IInv, TypeOK
<1>2. RowsAreUses' /\ UsesAreRemembered' /\ UsedOnceWhileValid'
  BY DEF IInv, RowsAreUses, UsesAreRemembered, Outlasting, UsedOnceWhileValid
<1>. QED BY <1>1, <1>2 DEF IInv

-------------------------------------------------------------------------------
(* Rows go, time passes. *)

\* What is left of the cache may be any part that still remembers the uses.
LEMMA RowsGo ==
    ASSUME IInv, cache' \subseteq cache, UNCHANGED <<uses, clock>>,
           request' \in [Workers -> Requests],
           \A v \in Workers : RequestInv(request[v])',
           \A row \in cache \ cache', m \in DOMAIN uses :
              row.jti = uses[m].jti /\ row.expires_at = uses[m].expires_at
                 => \/ uses[m].expires_at <= clock
                    \/ Cardinality(Outlasting(m, Len(uses))) >= Capacity
    PROVE  IInv'
<1>1. TypeOK'
  BY DEF IInv, TypeOK
<1>2. RowsAreUses'
  BY FS_Subset DEF IInv, RowsAreUses
<1>3. UsedOnceWhileValid'
  BY DEF IInv, UsedOnceWhileValid
<1>4. UsesAreRemembered'
  <2> SUFFICES ASSUME NEW m \in DOMAIN uses
               PROVE  \/ \E row \in cache' : /\ row.jti = uses[m].jti
                                             /\ row.expires_at = uses[m].expires_at
                      \/ uses[m].expires_at <= clock
                      \/ Cardinality(Outlasting(m, Len(uses))) >= Capacity
    BY DEF UsesAreRemembered, Outlasting
  <2>. QED BY DEF IInv, UsesAreRemembered
<1>. QED BY <1>1, <1>2, <1>3, <1>4 DEF IInv

LEMMA TickKeepsIInv ==
    ASSUME IInv, Tick
    PROVE  IInv'
<1>1. /\ UNCHANGED <<cache, uses, request>>
      /\ clock \in Nat /\ clock' = clock + 1
  BY DEF Tick, IInv, TypeOK
<1>2. \A row \in cache : row.expires_at \in Nat
  BY DEF IInv, TypeOK, Rows
<1>3. TypeOK'
  BY <1>1, <1>2, ReplayAssumption DEF IInv, TypeOK
<1>4. \A w \in Workers : RequestInv(request[w])'
  <2> SUFFICES ASSUME NEW w \in Workers
               PROVE  RequestInv(request[w])'
    OBVIOUS
  <2>1. request[w].expires_at \in Nat /\ request[w].now \in Nat
    BY DEF IInv, TypeOK, Requests
  <2>2. RequestInv(request[w])
    BY DEF IInv
  <2>. QED BY <1>1, <2>1, <2>2, ReplayAssumption DEF RequestInv
<1>5. RowsAreUses' /\ UsedOnceWhileValid'
  BY <1>1 DEF IInv, RowsAreUses, UsedOnceWhileValid
<1>6. UsesAreRemembered'
  <2>1. \A m \in DOMAIN uses : uses[m].expires_at \in Nat
    BY UsesTyped DEF IInv
  <2>2. \A m \in DOMAIN uses : uses[m].expires_at <= clock =>
                               uses[m].expires_at <= clock'
    BY <1>1, <2>1
  <2>. QED BY <1>1, <2>2 DEF IInv, UsesAreRemembered, Outlasting
<1>. QED BY <1>3, <1>4, <1>5, <1>6 DEF IInv

LEMMA PurgeKeepsIInv ==
    ASSUME IInv, NEW w \in Workers, PurgeExpired(w)
    PROVE  IInv'
<1>1. /\ ~ At(w, "idle") /\ UNCHANGED <<uses, clock>>
      /\ request' \in [Workers -> Requests]
      /\ \A v \in Workers : RequestInv(request[v])'
  BY GotoFacts DEF PurgeExpired, At
<1>2. /\ cache' \subseteq cache
      /\ \A row \in cache \ cache' : row.expires_at <= request[w].now
  BY DEF PurgeExpired, Outlived
<1>3. /\ request[w].now <= clock /\ request[w].now \in Nat /\ clock \in Nat
      /\ \A row \in cache : row.expires_at \in Nat
  BY <1>1 DEF IInv, TypeOK, RequestInv, At, Requests, Rows
<1>4. \A row \in cache \ cache' : row.expires_at <= clock
  BY <1>2, <1>3
<1>. QED BY <1>1, <1>2, <1>4, RowsGo

LEMMA EvictKeepsIInv ==
    ASSUME IInv, NEW w \in Workers, Evict(w)
    PROVE  IInv'
<1>1. /\ ~ At(w, "idle") /\ UNCHANGED <<uses, clock>>
      /\ request' \in [Workers -> Requests]
      /\ \A v \in Workers : RequestInv(request[v])'
  BY GotoFacts DEF Evict, At
<1>2. /\ cache' \in SUBSET cache
      /\ cache' = cache \/ Cardinality(cache') = Capacity
      /\ \A row \in cache', gone \in cache \ cache' : gone.expires_at <= row.expires_at
  BY DEF Evict
<1>3. ASSUME NEW gone \in cache \ cache', NEW m \in DOMAIN uses,
             gone.jti = uses[m].jti, gone.expires_at = uses[m].expires_at
      PROVE  Cardinality(Outlasting(m, Len(uses))) >= Capacity
  <2>1. Cardinality(cache') <= Cardinality(Outlasting(m, Len(uses)))
    BY <1>2, <1>3, KeptOutlast DEF IInv
  <2>2. Cardinality(cache') = Capacity
    BY <1>2
  <2>3. Cardinality(Outlasting(m, Len(uses))) \in Nat
    BY UsesTyped, OutlastingIsFinite DEF IInv
  <2>. QED BY <2>1, <2>2, <2>3, ReplayAssumption
<1>. QED BY <1>1, <1>2, <1>3, RowsGo

-------------------------------------------------------------------------------
(* A use. *)

LEMMA UseKeepsIInv ==
    ASSUME IInv, NEW w \in Workers, At(w, "insert"), ~ Replayed(request[w].jti),
           Goto(w, "consumed"), clock' = clock,
           cache' = cache \cup {[jti |-> request[w].jti,
                                 expires_at |-> request[w].expires_at]},
           uses' = Append(uses, [jti |-> request[w].jti, at |-> clock,
                                 expires_at |-> request[w].expires_at])
    PROVE  IInv'
<1> DEFINE r == request[w]
           row == [jti |-> r.jti, expires_at |-> r.expires_at]
           u == [jti |-> r.jti, at |-> clock, expires_at |-> r.expires_at]
           n == Len(uses) + 1
<1>1. /\ r.jti \in Jtis /\ r.expires_at \in Nat /\ clock \in Nat
      /\ r.jti \in Tokens => r.expires_at <= clock + MaxTokenLifetime + Skew
  BY DEF IInv, TypeOK, RequestInv, At, Requests
<1>2. /\ request' \in [Workers -> Requests]
      /\ \A v \in Workers : RequestInv(request[v])'
  BY GotoFacts DEF At
<1>3. row \in Rows /\ u \in Uses /\ uses' = Append(uses, u)
      /\ row.jti = r.jti /\ row.expires_at = r.expires_at
      /\ u.jti = r.jti /\ u.expires_at = r.expires_at /\ u.at = clock
      /\ cache' = cache \cup {row}
  BY <1>1 DEF Rows, Uses
<1>4. \A other \in cache : other.jti # r.jti
  BY DEF Replayed
<1>. HIDE DEF row, u
<1>5. /\ uses' \in Seq(Uses)
      /\ Len(uses') = n
      /\ DOMAIN uses' = DOMAIN uses \cup {n}
      /\ n \notin DOMAIN uses
      /\ \A k \in DOMAIN uses : uses'[k] = uses[k]
      /\ uses'[n] = u
  BY <1>3, AppendFacts DEF IInv
<1>6. TypeOK'
  <2>1. \A a, b \in cache' : a.jti = b.jti => a = b
    BY <1>3, <1>4 DEF IInv, TypeOK
  <2>2. \A a \in cache' : a.jti \in Tokens =>
           a.expires_at <= clock' + MaxTokenLifetime + Skew
    BY <1>1, <1>3 DEF IInv, TypeOK
  <2>3. uses' \in Seq([jti: Jtis, at: Nat, expires_at: Nat])
    BY <1>5 DEF Uses
  <2>. QED BY <1>1, <1>2, <1>3, <2>1, <2>2, <2>3 DEF IInv, TypeOK
<1>7. RowsAreUses'
  <2>1. IsFiniteSet(cache')
    BY <1>3, FS_AddElement DEF IInv, RowsAreUses
  <2>2. ASSUME NEW a \in cache'
        PROVE  \E k \in DOMAIN uses' :
                  uses'[k].jti = a.jti /\ uses'[k].expires_at = a.expires_at
    <3>1. CASE a = row
      BY <1>3, <1>5, <3>1
    <3>2. CASE a \in cache
      BY <1>5, <3>2 DEF IInv, RowsAreUses
    <3>. QED BY <1>3, <3>1, <3>2
  <2>. QED BY <2>1, <2>2 DEF RowsAreUses
<1>8. UsesAreRemembered'
  <2> SUFFICES ASSUME NEW m \in DOMAIN uses'
               PROVE  \/ \E a \in cache' : /\ a.jti = uses'[m].jti
                                           /\ a.expires_at = uses'[m].expires_at
                      \/ uses'[m].expires_at <= clock'
                      \/ Cardinality(Outlasting(m, Len(uses))') >= Capacity
    BY DEF UsesAreRemembered, Outlasting
  <2>1. CASE m = n
    BY <1>3, <1>5, <2>1
  <2>2. CASE m \in DOMAIN uses
    <3>1. \/ \E a \in cache : /\ a.jti = uses[m].jti
                             /\ a.expires_at = uses[m].expires_at
          \/ uses[m].expires_at <= clock
          \/ Cardinality(Outlasting(m, Len(uses))) >= Capacity
      BY <2>2 DEF IInv, UsesAreRemembered
    <3>2. /\ Cardinality(Outlasting(m, Len(uses)))
                <= Cardinality(Outlasting(m, Len(uses))')
          /\ Cardinality(Outlasting(m, Len(uses))) \in Nat
          /\ Cardinality(Outlasting(m, Len(uses))') \in Nat
      BY <1>3, <1>6, <2>2, OutlastingGrows DEF IInv
    <3>. QED BY <1>3, <1>5, <2>2, <3>1, <3>2, ReplayAssumption
  <2>. QED BY <1>5, <2>1, <2>2
<1>9. UsedOnceWhileValid'
  <2> SUFFICES ASSUME NEW m \in DOMAIN uses', NEW k \in DOMAIN uses',
                      m < k, uses'[m].jti = uses'[k].jti
               PROVE  \/ uses'[m].expires_at <= uses'[k].at
                      \/ Cardinality(Outlasting(m, k - 1)') >= Capacity
    BY DEF UsedOnceWhileValid, Outlasting
  <2>1. /\ DOMAIN uses = 1 .. Len(uses) /\ Len(uses) \in Nat
        /\ m \in DOMAIN uses /\ k - 1 \in 0 .. Len(uses)
    BY <1>5, UsesTyped DEF IInv
  <2>2. Outlasting(m, k - 1)' = Outlasting(m, k - 1)
    BY <1>3, <1>6, <2>1, OutlastingGrows DEF IInv
  <2>3. CASE k \in DOMAIN uses
    BY <1>5, <2>1, <2>2, <2>3 DEF IInv, UsedOnceWhileValid, Outlasting
  <2>4. CASE k = n
    <3>1. uses[m].jti = r.jti /\ k - 1 = Len(uses)
      BY <1>3, <1>5, <2>1, <2>4
    <3>2. \/ uses[m].expires_at <= clock
          \/ Cardinality(Outlasting(m, Len(uses))) >= Capacity
      BY <1>4, <2>1, <3>1 DEF IInv, UsesAreRemembered
    <3>. QED BY <1>3, <1>5, <2>1, <2>2, <2>4, <3>1, <3>2
  <2>. QED BY <1>5, <2>3, <2>4
<1>. QED BY <1>2, <1>6, <1>7, <1>8, <1>9 DEF IInv

-------------------------------------------------------------------------------
LEMMA StartKeepsIInv ==
    ASSUME IInv, NEW w \in Workers, NEW j,
           \/ j \in Tokens /\ StartDelegated(w, j)
           \/ j \in ActionIds /\ StartService(w, j)
    PROVE  IInv'
<1>1. clock \in Nat
  BY DEF IInv, TypeOK
<1>2. CASE j \in Tokens /\ StartDelegated(w, j)
  <2>1. Begin(w, j, Expiry[j], "accounts") /\ ValidClaims(j, clock)
    BY <1>2 DEF StartDelegated
  <2>2. Expiry[j] \in Nat /\ Issued[j] \in Nat
    BY <1>2, ReplayAssumption
  <2>3. Expiry[j] <= clock + MaxTokenLifetime + Skew
    BY <1>1, <2>1, <2>2, ReplayAssumption DEF ValidClaims
  <2>4. /\ request' \in [Workers -> Requests]
        /\ \A v \in Workers : RequestInv(request[v])'
    BY <1>2, <2>1, <2>2, <2>3, BeginFacts DEF Jtis
  <2>. QED BY <2>1, <2>4, OnlyRequestChanges DEF Begin
<1>3. CASE j \in ActionIds /\ StartService(w, j)
  <2>1. Begin(w, j, clock + ServiceTtl, "consume")
    BY <1>3 DEF StartService
  <2>2. clock + ServiceTtl \in Nat
        /\ clock + ServiceTtl <= clock + MaxTokenLifetime + Skew
    BY <1>1, ReplayAssumption
  <2>3. /\ request' \in [Workers -> Requests]
        /\ \A v \in Workers : RequestInv(request[v])'
    BY <1>3, <2>1, <2>2, BeginFacts DEF Jtis
  <2>. QED BY <2>1, <2>3, OnlyRequestChanges DEF Begin
<1>. QED BY <1>2, <1>3

LEMMA ConsumeKeepsIInv ==
    ASSUME IInv, NEW w \in Workers, Consume(w)
    PROVE  IInv'
<1>1. /\ request[w] \in Requests /\ RequestInv(request[w])
      /\ request[w].pc = "consume" /\ clock \in Nat
      /\ UNCHANGED <<cache, uses, clock>>
  BY DEF IInv, TypeOK, Consume, At
<1>2. PICK r \in Requests :
         r = [pc |-> "purge", jti |-> request[w].jti,
              expires_at |-> request[w].expires_at, now |-> clock]
  BY <1>1 DEF Requests
<1>3. r.jti = request[w].jti /\ r.now = clock /\ r.expires_at = request[w].expires_at
  BY <1>2
<1>4. request' = [request EXCEPT ![w] = r]
  <2>1. ASSUME NEW x \in Requests, NEW now \in Nat
        PROVE  [[x EXCEPT !.pc = "purge"] EXCEPT !.now = now]
                  = [pc |-> "purge", jti |-> x.jti, expires_at |-> x.expires_at,
                     now |-> now]
    <3>1. ASSUME NEW y \in Requests
          PROVE  /\ [y EXCEPT !.pc = "purge"] \in Requests
                 /\ [y EXCEPT !.pc = "purge"].pc = "purge"
                 /\ [y EXCEPT !.pc = "purge"].jti = y.jti
                 /\ [y EXCEPT !.pc = "purge"].expires_at = y.expires_at
      BY DEF Requests
    <3>2. ASSUME NEW y \in Requests
          PROVE  [y EXCEPT !.now = now]
                    = [pc |-> y.pc, jti |-> y.jti, expires_at |-> y.expires_at,
                       now |-> now]
      BY DEF Requests
    <3>. DEFINE z == [x EXCEPT !.pc = "purge"]
    <3>3. z \in Requests /\ z.pc = "purge" /\ z.jti = x.jti
          /\ z.expires_at = x.expires_at
      BY <3>1
    <3>. HIDE DEF z
    <3>4. [z EXCEPT !.now = now]
             = [pc |-> "purge", jti |-> x.jti, expires_at |-> x.expires_at,
                now |-> now]
      BY <3>2, <3>3
    <3>. QED BY <3>4 DEF z
  <2>2. request' = [request EXCEPT ![w] =
           [[request[w] EXCEPT !.pc = "purge"] EXCEPT !.now = clock]]
    BY DEF Consume, IInv, TypeOK
  <2>. QED BY <1>1, <1>2, <2>1, <2>2
<1>5. RequestInv(r)'
  BY <1>1, <1>3 DEF RequestInv
<1>. QED BY <1>1, <1>4, <1>5, RequestKept, OnlyRequestChanges

LEMMA InitIInv == Init => IInv
<1> SUFFICES ASSUME Init PROVE IInv
  OBVIOUS
<1>1. IdleRequest \in Requests /\ IdleRequest.pc = "idle"
  BY DEF IdleRequest, Requests
<1>2. TypeOK /\ \A w \in Workers : RequestInv(request[w])
  BY <1>1 DEF Init, TypeOK, RequestInv
<1>3. RowsAreUses
  BY FS_EmptySet DEF Init, RowsAreUses
<1>4. UsesAreRemembered /\ UsedOnceWhileValid
  BY DEF Init, UsesAreRemembered, UsedOnceWhileValid
<1>. QED BY <1>2, <1>3, <1>4 DEF IInv

LEMMA NextKeepsIInv == IInv /\ [Next]_vars => IInv'
<1> SUFFICES ASSUME IInv, [Next]_vars
             PROVE  IInv'
  OBVIOUS
<1>1. CASE UNCHANGED vars
  <2>1. UNCHANGED <<cache, uses, clock, request>>
    BY <1>1 DEF vars
  <2>2. /\ request' \in [Workers -> Requests]
        /\ \A v \in Workers : RequestInv(request[v])'
    BY <2>1 DEF IInv, TypeOK, RequestInv
  <2>. QED BY <2>1, <2>2, OnlyRequestChanges
<1>2. CASE Tick
  BY <1>2, TickKeepsIInv
<1>3. ASSUME NEW w \in Workers,
             \/ \E j \in Tokens : StartDelegated(w, j)
             \/ \E j \in ActionIds : StartService(w, j)
      PROVE  IInv'
  BY <1>3, StartKeepsIInv
<1>4. ASSUME NEW w \in Workers, CheckAccount(w)
      PROVE  IInv'
  <2>1. ~ At(w, "idle") /\ UNCHANGED <<cache, uses, clock>>
        /\ (Goto(w, "consume") \/ Finish(w))
    BY <1>4 DEF CheckAccount, At
  <2>. QED BY <2>1, GotoFacts, FinishFacts, OnlyRequestChanges
<1>5. ASSUME NEW w \in Workers, InsertJti(w)
      PROVE  IInv'
  <2>1. CASE Replayed(request[w].jti)
    <3>1. Finish(w) /\ UNCHANGED <<cache, uses, clock>>
      BY <1>5, <2>1 DEF InsertJti
    <3>. QED BY <3>1, FinishFacts, OnlyRequestChanges
  <2>2. CASE ~ Replayed(request[w].jti)
    BY <1>5, <2>2, UseKeepsIInv DEF InsertJti
  <2>. QED BY <2>1, <2>2
<1>6. ASSUME NEW w \in Workers, End(w)
      PROVE  IInv'
  BY <1>6, FinishFacts, OnlyRequestChanges DEF End
<1>. QED BY <1>1, <1>2, <1>3, <1>4, <1>5, <1>6, ConsumeKeepsIInv, PurgeKeepsIInv,
        EvictKeepsIInv DEF Next

\* The inductive invariant holds of every reachable state of the replay cache.
THEOREM Invariance == Spec => []IInv
BY InitIInv, NextKeepsIInv, PTL DEF Spec

\* The jti is the primary key of authentication_replay_cache, and no row of a
\* token outstays the lifetime that validate_claims allows.
THEOREM TypeCorrectness == Spec => []TypeOK
BY Invariance, PTL DEF IInv

\* consume_authentication_jti lets a jti through again only once it has expired,
\* or once an eviction had as many others to keep as the cache holds.
THEOREM UsedOnce == Spec => []UsedOnceWhileValid
BY Invariance, PTL DEF IInv
===============================================================================
