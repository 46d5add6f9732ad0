------------------------- MODULE UsageLedgerProofs -------------------------
(***************************************************************************)
(* Theorems about UsageLedger, for any callers, limits, days and bounds.   *)
(***************************************************************************)
EXTENDS UsageLedger, FiniteSetTheorems, TLAPS

-----------------------------------------------------------------------------
(* The inductive invariant *)

\* A paid call reserved before, and its reservation is durable.
PaidInv ==
  \A c \in paid :
    /\ call[c].step \notin {"new", "over", "creating", "undoing", "refused"}
    /\ Row(c, call[c].day, "reserved") \in events

\* The calls that INCR let pass and that paid or still may.
Admitted(k) ==
  {c \in Call : counterKey(c) = k /\ (c \in paid \/ At(c, "creating"))}
BudgetInv ==
  Undisturbed =>
    \A k \in Key : /\ Cardinality(Holding(k)) <= counter[k]
                   /\ Cardinality(Admitted(k)) <= Limit[k[1]]

IInv ==
  /\ TypeOK
  /\ IsFiniteSet(events)
  /\ rebuild # NoRebuild => rebuilds > 0
  /\ PaidInv
  /\ BudgetInv

-----------------------------------------------------------------------------
(* Lemmas *)

\* The sets that are counted are finite.
LEMMA Finite ==
  ASSUME NEW k
  PROVE  /\ IsFiniteSet(Holding(k)) /\ Cardinality(Holding(k)) \in Nat
         /\ IsFiniteSet(Admitted(k)) /\ Cardinality(Admitted(k)) \in Nat
         /\ Cardinality(Admitted(k)) <= Cardinality(Holding(k))
<1>1. Holding(k) \in SUBSET Call /\ Admitted(k) \in SUBSET Holding(k)
  BY DEF Holding, Admitted, At
<1>2. IsFiniteSet(Holding(k))
  BY <1>1, FS_Subset, CallAssumption
<1>3. IsFiniteSet(Admitted(k)) /\ Cardinality(Admitted(k)) <= Cardinality(Holding(k))
  BY <1>1, <1>2, FS_Subset
<1> QED
  BY <1>2, <1>3, FS_CardinalityType

\* The same, after a step.
LEMMA FinitePrime ==
  ASSUME NEW k
  PROVE  /\ IsFiniteSet(Holding(k)') /\ Cardinality(Holding(k)') \in Nat
         /\ IsFiniteSet(Admitted(k)') /\ Cardinality(Admitted(k)') \in Nat
         /\ Cardinality(Admitted(k)') <= Cardinality(Holding(k)')
<1>1. Holding(k)' \in SUBSET Call /\ Admitted(k)' \in SUBSET Holding(k)'
  BY DEF Holding, Admitted, At
<1>2. IsFiniteSet(Holding(k)')
  BY <1>1, FS_Subset, CallAssumption
<1>3. IsFiniteSet(Admitted(k)') /\ Cardinality(Admitted(k)') <= Cardinality(Holding(k)')
  BY <1>1, <1>2, FS_Subset
<1> QED
  BY <1>2, <1>3, FS_CardinalityType

\* A step after which no more calls hold a slot or are admitted, and which
\* lowers no counter, keeps the budget.
LEMMA NoMoreHolding ==
  ASSUME IInv, Undisturbed' => Undisturbed, counter' \in [Key -> Int],
         Undisturbed' =>
           \A k \in Key : /\ Holding(k)' \subseteq Holding(k)
                          /\ Admitted(k)' \subseteq Admitted(k)
                          /\ counter[k] <= counter'[k]
  PROVE  BudgetInv'
<1> SUFFICES ASSUME Undisturbed', NEW k \in Key
             PROVE  /\ Cardinality(Holding(k)') <= counter'[k]
                    /\ Cardinality(Admitted(k)') <= Limit[k[1]]
  BY DEF BudgetInv
<1>1. Cardinality(Holding(k)) <= counter[k] /\ Cardinality(Admitted(k)) <= Limit[k[1]]
  BY DEF IInv, BudgetInv
<1>2. Holding(k)' \in SUBSET Holding(k) /\ Admitted(k)' \in SUBSET Admitted(k)
  OBVIOUS
<1>3. /\ Cardinality(Holding(k)') <= Cardinality(Holding(k))
      /\ Cardinality(Admitted(k)') <= Cardinality(Admitted(k))
  BY <1>2, Finite, FS_Subset
<1>4. counter[k] \in Int /\ counter'[k] \in Int /\ Limit[k[1]] \in Nat
  BY LimitAssumption DEF IInv, TypeOK, Key
<1> QED
  BY <1>1, <1>3, <1>4, Finite, FinitePrime

\* A call that moves on keeps its day.
LEMMA CallEffect ==
  ASSUME TypeOK, NEW c \in Call, NEW step \in Step, Goes(c, step)
  PROVE  /\ call' \in [Call -> [step : Step, day : Day]]
         /\ call'[c].step = step /\ call'[c].day = call[c].day
         /\ \A d \in Call \ {c} : call'[d] = call[d]
         /\ \A d \in Call : call'[d].day = call[d].day
<1>1. call \in [Call -> [step : Step, day : Day]]
  BY DEF TypeOK
<1>2. call' = [call EXCEPT ![c] = [call[c] EXCEPT !.step = step]]
  BY DEF Goes
<1>3. [call[c] EXCEPT !.step = step] \in [step : Step, day : Day]
  BY <1>1
<1> QED
  BY <1>1, <1>2, <1>3

\* The steps a call can be at.
LEMMA Steps ==
  \A step \in {"new", "over", "creating", "undoing", "paying", "succeeded",
               "failing", "refused", "done", "crashed"} : step \in Step
BY DEF Step

\* The row of an outcome is a usage_event.
LEMMA RowType ==
  ASSUME NEW c \in Call, NEW d \in Day, NEW s \in {"reserved", "actual", "failed"}
  PROVE  Row(c, d, s) \in UsageEvent
BY DEF Row, UsageEvent

\* An insert, acknowledged or not, keeps the rows and adds at most one.
LEMMA InsertEffect ==
  ASSUME IInv, NEW e \in UsageEvent, Insert(e) \/ InsertThrows(e)
  PROVE  /\ events \subseteq events' /\ events' \subseteq UsageEvent
         /\ IsFiniteSet(events') /\ faults' \in 0..MaxFaults
<1>1. events' = events \cup {e} \/ events' = events
  BY DEF Insert, InsertThrows
<1>2. IsFiniteSet(events) /\ IsFiniteSet(events \cup {e})
  BY FS_AddElement DEF IInv
<1>3. events \subseteq UsageEvent
  BY DEF IInv, TypeOK
<1>4. faults' \in 0..MaxFaults
  BY BoundAssumption DEF IInv, TypeOK, Insert, InsertThrows, Fault
<1>5. IsFiniteSet(events')
  BY <1>1, <1>2
<1> QED
  BY <1>1, <1>3, <1>4, <1>5

LEMMA Initially == Init => IInv
<1> SUFFICES ASSUME Init PROVE IInv
  OBVIOUS
<1> USE DEF Init
<1>1. TypeOK
  BY BoundAssumption DEF TypeOK, Day, Step
<1>2. IsFiniteSet(events)
  BY FS_EmptySet
<1>3. PaidInv
  BY DEF PaidInv
<1>4. BudgetInv
  <2> SUFFICES ASSUME NEW k \in Key
               PROVE  /\ Cardinality(Holding(k)) <= counter[k]
                      /\ Cardinality(Admitted(k)) <= Limit[k[1]]
    BY DEF BudgetInv
  <2>1. Holding(k) = {} /\ Admitted(k) = {}
    BY DEF Holding, Admitted, At
  <2>2. Cardinality(Holding(k)) = 0 /\ Cardinality(Admitted(k)) = 0
    BY <2>1, FS_EmptySet
  <2>3. counter[k] = 0 /\ Limit[k[1]] \in Nat
    BY LimitAssumption DEF Key
  <2> QED
    BY <2>2, <2>3
<1> QED
  BY <1>1, <1>2, <1>3, <1>4 DEF IInv

-----------------------------------------------------------------------------
(* The steps of reserve *)

LEMMA ReserveStep ==
  ASSUME IInv, NEW c \in Call, reserve(c)
  PROVE  IInv'
<1> DEFINE q == <<ProviderOf[c], today>>
           next == counter[q] + 1
           step == IF next > Limit[ProviderOf[c]] THEN "over" ELSE "creating"
<1> USE DEF IInv
<1>1. /\ call[c].step = "new" /\ q \in Key /\ today \in Day
      /\ call \in [Call -> [step : Step, day : Day]]
      /\ counter \in [Key -> Int] /\ Limit[ProviderOf[c]] \in Nat
      /\ UNCHANGED <<today, events, paid, rebuild, losses, rebuilds>>
  BY CallAssumption, LimitAssumption DEF reserve, At, Key, TypeOK
<1>2. c \notin paid
  BY <1>1 DEF PaidInv
<1>3. CASE Redis(q, next) /\ call' = [call EXCEPT ![c] = [step |-> step, day |-> today]]
  <2>1. /\ counter' \in [Key -> Int] /\ counter'[q] = next
        /\ \A k \in Key \ {q} : counter'[k] = counter[k]
    BY <1>1, <1>3 DEF Redis
  <2>2. /\ call' \in [Call -> [step : Step, day : Day]]
        /\ call'[c].step = step /\ call'[c].day = today
        /\ \A d \in Call \ {c} : call'[d] = call[d]
    BY <1>1, <1>3, Steps
  <2>3. step \in {"over", "creating"}
    OBVIOUS
  <2> HIDE DEF next, step
  <2>4. TypeOK'
    BY <1>1, <1>3, <2>1, <2>2 DEF TypeOK, Redis
  <2>5. PaidInv'
    BY <1>1, <1>2, <2>2 DEF PaidInv, TypeOK
  <2>6. BudgetInv'
    <3> SUFFICES ASSUME Undisturbed', NEW k \in Key
                 PROVE  /\ Cardinality(Holding(k)') <= counter'[k]
                        /\ Cardinality(Admitted(k)') <= Limit[k[1]]
      BY DEF BudgetInv
    <3>1. /\ Cardinality(Holding(k)) <= counter[k]
          /\ Cardinality(Admitted(k)) <= Limit[k[1]]
      BY <1>1 DEF BudgetInv, Undisturbed
    <3>2. CASE k = q
      <4>1. Holding(k)' = Holding(k) \cup {c}
        BY <1>1, <1>2, <2>2, <2>3, <3>2 DEF Holding, counterKey
      <4>2. c \notin Holding(k)
        BY <1>1, <1>2 DEF Holding
      <4>3. Cardinality(Holding(k)') = Cardinality(Holding(k)) + 1
        BY <4>1, <4>2, Finite, FS_AddElement
      <4>4. Cardinality(Holding(k)') <= counter'[k]
        BY <1>1, <2>1, <3>1, <3>2, <4>3, Finite DEF next
      <4>5. CASE step = "creating"
        <5>1. counter'[k] <= Limit[k[1]] /\ counter'[k] \in Int /\ Limit[k[1]] \in Int
          BY <1>1, <2>1, <3>2, <4>5 DEF step, next
        <5> QED
          BY <4>4, <5>1, FinitePrime
      <4>6. CASE step = "over"
        <5>1. Admitted(k)' = Admitted(k)
          BY <1>1, <1>2, <2>2, <4>6 DEF Admitted, At, counterKey
        <5> QED
          BY <3>1, <4>4, <5>1
      <4> QED
        BY <2>3, <4>5, <4>6
    <3>3. CASE k # q
      <4>1. Holding(k)' = Holding(k)
        BY <1>1, <1>2, <2>2, <3>3 DEF Holding, counterKey
      <4>2. Admitted(k)' = Admitted(k)
        BY <1>1, <1>2, <2>2, <3>3 DEF Admitted, At, counterKey
      <4> QED
        BY <2>1, <3>1, <3>3, <4>1, <4>2
    <3> QED
      BY <3>2, <3>3
  <2> QED
    BY <1>1, <2>4, <2>5, <2>6
<1>4. CASE RedisThrows(q, next) /\ Goes(c, "refused")
  <2>1. /\ counter' \in [Key -> Int] /\ \A k \in Key : counter[k] <= counter'[k]
        /\ faults' \in 0..MaxFaults
    BY <1>1, <1>4, BoundAssumption DEF RedisThrows, Fault, TypeOK
  <2>2. /\ call' \in [Call -> [step : Step, day : Day]]
        /\ call'[c].step = "refused"
        /\ \A d \in Call \ {c} : call'[d] = call[d]
    BY <1>4, CallEffect, Steps
  <2>3. TypeOK'
    BY <1>1, <2>1, <2>2 DEF TypeOK
  <2>4. PaidInv'
    BY <1>1, <1>2, <2>2 DEF PaidInv, TypeOK
  <2>5. \A k \in Key : Holding(k)' \subseteq Holding(k) /\ Admitted(k)' \subseteq Admitted(k)
    BY <1>1, <1>2, <2>2 DEF Holding, Admitted, At, counterKey
  <2>6. BudgetInv'
    BY <1>1, <2>1, <2>5, NoMoreHolding DEF Undisturbed
  <2> QED
    BY <1>1, <2>3, <2>4, <2>6
<1> QED
  BY <1>3, <1>4 DEF reserve

LEMMA TakeBackStep ==
  ASSUME IInv, NEW c \in Call, takeBack(c)
  PROVE  IInv'
<1> DEFINE q == counterKey(c)
<1> USE DEF IInv
<1>1. /\ call[c].step \in {"over", "undoing"} /\ q \in Key
      /\ counter \in [Key -> Int] /\ call[c].day \in Day
      /\ UNCHANGED <<today, events, paid, rebuild, losses, rebuilds>>
  BY CallAssumption DEF takeBack, counterKey, Key, TypeOK
<1>2. c \notin paid
  BY <1>1 DEF PaidInv
<1>3. /\ call' \in [Call -> [step : Step, day : Day]]
      /\ call'[c].step = "refused"
      /\ \A d \in Call \ {c} : call'[d] = call[d]
  BY CallEffect, Steps DEF takeBack
<1>4. /\ counter' \in [Key -> Int]
      /\ counter'[q] \in {counter[q], counter[q] - 1}
      /\ \A k \in Key \ {q} : counter'[k] = counter[k]
      /\ faults' \in 0..MaxFaults
  BY <1>1, BoundAssumption DEF takeBack, Redis, RedisThrows, Fault, TypeOK
<1>5. TypeOK'
  BY <1>1, <1>3, <1>4 DEF TypeOK
<1>6. PaidInv'
  BY <1>1, <1>2, <1>3 DEF PaidInv, TypeOK
<1>7. BudgetInv'
  <2> SUFFICES ASSUME Undisturbed', NEW k \in Key
               PROVE  /\ Cardinality(Holding(k)') <= counter'[k]
                      /\ Cardinality(Admitted(k)') <= Limit[k[1]]
    BY DEF BudgetInv
  <2>1. /\ Cardinality(Holding(k)) <= counter[k]
        /\ Cardinality(Admitted(k)) <= Limit[k[1]]
    BY <1>1 DEF BudgetInv, Undisturbed
  <2>2. Admitted(k)' = Admitted(k)
    BY <1>1, <1>2, <1>3 DEF Admitted, At, counterKey
  <2>3. CASE k = q
    <3>1. Holding(k)' = Holding(k) \ {c}
      BY <1>1, <1>2, <1>3 DEF Holding, counterKey
    <3>2. c \in Holding(k)
      BY <1>1, <2>3 DEF Holding
    <3>3. Cardinality(Holding(k)') = Cardinality(Holding(k)) - 1
      BY <3>1, <3>2, Finite, FS_RemoveElement
    <3> QED
      BY <1>1, <1>4, <2>1, <2>2, <2>3, <3>3, Finite
  <2>4. CASE k # q
    <3>1. Holding(k)' = Holding(k)
      BY <1>1, <1>2, <1>3, <2>4 DEF Holding, counterKey
    <3> QED
      BY <1>4, <2>1, <2>2, <2>4, <3>1
  <2> QED
    BY <2>3, <2>4
<1> QED
  BY <1>1, <1>5, <1>6, <1>7

LEMMA CreateReservedStep ==
  ASSUME IInv, NEW c \in Call, createReserved(c)
  PROVE  IInv'
<1> DEFINE e == Row(c, call[c].day, "reserved")
<1> USE DEF IInv
<1>1. /\ call[c].step = "creating" /\ call[c].day \in Day
      /\ Insert(e) \/ InsertThrows(e)
      /\ UNCHANGED <<today, counter, rebuild, losses, rebuilds>>
  BY DEF createReserved, At, TypeOK
<1>2. c \notin paid
  BY <1>1 DEF PaidInv
<1>3. /\ events \subseteq events' /\ events' \subseteq UsageEvent
      /\ IsFiniteSet(events') /\ faults' \in 0..MaxFaults
  BY <1>1, RowType, InsertEffect
<1>4. /\ call' \in [Call -> [step : Step, day : Day]]
      /\ \A d \in Call \ {c} : call'[d] = call[d]
      /\ \A d \in Call : call'[d].day = call[d].day
      /\ \/ call'[c].step = "paying" /\ paid' = paid \cup {c} /\ e \in events'
         \/ call'[c].step = "undoing" /\ paid' = paid
  BY CallEffect, Steps DEF createReserved, Insert
<1>5. TypeOK'
  BY <1>1, <1>3, <1>4 DEF TypeOK
<1>6. PaidInv'
  <2> SUFFICES ASSUME NEW d \in paid'
               PROVE  /\ call'[d].step \notin {"new", "over", "creating", "undoing", "refused"}
                      /\ Row(d, call'[d].day, "reserved") \in events'
    BY DEF PaidInv, Row
  <2>1. CASE d = c
    BY <1>2, <1>4, <2>1
  <2>2. CASE d # c
    <3>1. d \in paid /\ d \in Call
      BY <1>4, <2>2 DEF TypeOK
    <3> QED
      BY <1>3, <1>4, <2>2, <3>1 DEF PaidInv
  <2> QED
    BY <2>1, <2>2
<1>7. \A k \in Key : Holding(k)' \subseteq Holding(k) /\ Admitted(k)' \subseteq Admitted(k)
  BY <1>1, <1>4 DEF Holding, Admitted, At, counterKey
<1>8. BudgetInv'
  BY <1>1, <1>7, NoMoreHolding DEF Undisturbed, TypeOK
<1> QED
  BY <1>1, <1>3, <1>5, <1>6, <1>8

-----------------------------------------------------------------------------
(* The steps of the crawlers *)

\* A step of a call that neither takes nor gives back a slot.
LEMMA OtherCallStep ==
  ASSUME IInv, NEW c \in Call, NEW step \in Step, Goes(c, step),
         call[c].step \notin {"new", "refused"},
         step \notin {"new", "over", "creating", "undoing", "refused"},
         UNCHANGED <<counter, paid, losses, rebuilds>>,
         events \subseteq events'
  PROVE  PaidInv' /\ BudgetInv'
<1> USE DEF IInv
<1>1. /\ call' \in [Call -> [step : Step, day : Day]]
      /\ call'[c].step = step
      /\ \A d \in Call \ {c} : call'[d] = call[d]
      /\ \A d \in Call : call'[d].day = call[d].day
  BY CallEffect
<1>2. PaidInv'
  <2> SUFFICES ASSUME NEW d \in paid
               PROVE  /\ call'[d].step \notin {"new", "over", "creating", "undoing", "refused"}
                      /\ Row(d, call'[d].day, "reserved") \in events'
    BY DEF PaidInv, Row
  <2>1. d \in Call
    BY DEF TypeOK
  <2> QED
    BY <1>1, <2>1 DEF PaidInv
<1>3. \A k \in Key : Holding(k)' \subseteq Holding(k) /\ Admitted(k)' \subseteq Admitted(k)
  BY <1>1 DEF Holding, Admitted, At, counterKey
<1>4. BudgetInv'
  BY <1>3, NoMoreHolding DEF Undisturbed, TypeOK
<1> QED
  BY <1>2, <1>4

LEMMA CrawlerStep ==
  ASSUME IInv, NEW c \in Call,
         providerAnswers(c) \/ recordActual(c) \/ recordFailed(c) \/ crash(c)
  PROVE  IInv'
<1> USE DEF IInv
<1>1. RecordDay(c) \in Day
  BY DEF RecordDay, TypeOK
<1>2. PICK step \in {"succeeded", "failing", "done", "crashed"} : Goes(c, step)
  BY DEF providerAnswers, recordActual, recordFailed, crash
<1>3. step \in Step
  BY Steps
<1>4. call[c].step \notin {"new", "refused"}
  BY DEF providerAnswers, recordActual, recordFailed, crash, At, Ended
<1>5. UNCHANGED <<today, counter, paid, rebuild, losses, rebuilds>>
  BY DEF providerAnswers, recordActual, recordFailed, crash
<1>6. /\ events \subseteq events' /\ events' \subseteq UsageEvent
      /\ IsFiniteSet(events') /\ faults' \in 0..MaxFaults
  <2>1. CASE providerAnswers(c) \/ crash(c)
    BY <2>1, BoundAssumption DEF providerAnswers, crash, Fault, TypeOK
  <2>2. CASE recordActual(c)
    BY <1>1, <2>2, RowType, InsertEffect DEF recordActual
  <2>3. CASE recordFailed(c)
    BY <1>1, <2>3, RowType, InsertEffect DEF recordFailed
  <2> QED
    BY <2>1, <2>2, <2>3
<1>7. call' \in [Call -> [step : Step, day : Day]]
  BY <1>2, <1>3, CallEffect
<1>8. TypeOK'
  BY <1>5, <1>6, <1>7 DEF TypeOK
<1>9. PaidInv' /\ BudgetInv'
  BY <1>2, <1>3, <1>4, <1>5, <1>6, OtherCallStep
<1> QED
  BY <1>5, <1>6, <1>8, <1>9

-----------------------------------------------------------------------------
(* The rebuild and the environment *)

LEMMA RebuildStep ==
  ASSUME IInv, (\E d \in Day : rebuildReads(d)) \/ rebuildSets \/ rebuildEnds
  PROVE  IInv'
<1> USE DEF IInv
<1>1. UNCHANGED <<today, events, call, paid, faults, losses>>
  BY DEF rebuildReads, rebuildSets, rebuildEnds
<1>2. PaidInv'
  BY <1>1 DEF PaidInv, Row
<1>3. CASE \E d \in Day : rebuildReads(d)
  <2>1. PICK d \in Day : rebuildReads(d)
    BY <1>3
  <2>2. \A p \in UsageProvider : Cardinality(RowsOf(p, d)) \in Nat
    <3> SUFFICES ASSUME NEW p \in UsageProvider
                 PROVE  Cardinality(RowsOf(p, d)) \in Nat
      OBVIOUS
    <3>1. RowsOf(p, d) \in SUBSET events
      BY DEF RowsOf
    <3> QED
      BY <3>1, FS_Subset, FS_CardinalityType
  <2>3. rebuild' \in Rebuild
    BY <2>1, <2>2 DEF rebuildReads, Rebuild
  <2>4. rebuilds' \in 0..MaxRebuilds /\ rebuilds' > 0 /\ counter' = counter
    BY <2>1, BoundAssumption DEF rebuildReads, TypeOK
  <2>5. TypeOK' /\ BudgetInv'
    BY <1>1, <2>3, <2>4 DEF TypeOK, BudgetInv, Undisturbed
  <2> QED
    BY <1>1, <1>2, <2>4, <2>5
<1>4. CASE rebuildSets
  <2>1. rebuild \in Rebuild /\ rebuilds > 0 /\ rebuilds' = rebuilds
    BY <1>4 DEF rebuildSets, TypeOK
  <2>2. PICK p \in rebuild.left :
          /\ counter' = [counter EXCEPT ![<<p, rebuild.day>>] = rebuild.sum[p]]
          /\ rebuild' = [rebuild EXCEPT !.left = @ \ {p}]
    BY <1>4 DEF rebuildSets
  <2>3. rebuild.sum[p] \in Int /\ counter \in [Key -> Int]
    BY <2>1 DEF Rebuild, TypeOK
  <2>4. counter' \in [Key -> Int] /\ rebuild' \in Rebuild
    BY <2>1, <2>2, <2>3 DEF Rebuild
  <2>5. TypeOK' /\ BudgetInv'
    BY <1>1, <2>1, <2>4 DEF TypeOK, BudgetInv, Undisturbed
  <2> QED
    BY <1>1, <1>2, <2>1, <2>5
<1>5. CASE rebuildEnds
  <2>1. rebuild' = NoRebuild /\ rebuilds > 0 /\ UNCHANGED <<counter, rebuilds>>
    BY <1>5 DEF rebuildEnds
  <2>2. TypeOK' /\ BudgetInv'
    BY <1>1, <2>1 DEF TypeOK, BudgetInv, Undisturbed
  <2> QED
    BY <1>1, <1>2, <2>1, <2>2
<1> QED
  BY <1>3, <1>4, <1>5

LEMMA EnvironmentStep ==
  ASSUME IInv, redisLoses \/ midnight \/ UNCHANGED vars
  PROVE  IInv'
<1> USE DEF IInv
<1>1. UNCHANGED <<events, call, paid, rebuild, faults, rebuilds>>
  BY DEF redisLoses, midnight, vars
<1>2. PaidInv'
  BY <1>1 DEF PaidInv, Row
<1>3. CASE redisLoses
  <2>1. counter' \in [Key -> Int] /\ losses' \in 1..MaxLosses /\ today' = today
    BY <1>3, BoundAssumption DEF redisLoses, TypeOK
  <2>2. TypeOK' /\ BudgetInv'
    BY <1>1, <2>1 DEF TypeOK, BudgetInv, Undisturbed
  <2> QED
    BY <1>1, <1>2, <2>2
<1>4. CASE midnight \/ UNCHANGED vars
  <2>1. today' \in Day /\ UNCHANGED <<counter, losses>>
    BY <1>4, BoundAssumption DEF midnight, vars, TypeOK, Day
  <2>2. TypeOK'
    BY <1>1, <2>1 DEF TypeOK
  <2>3. \A k \in Key : Holding(k)' = Holding(k) /\ Admitted(k)' = Admitted(k)
    BY <1>1 DEF Holding, Admitted, At, counterKey
  <2>4. BudgetInv'
    BY <1>1, <2>1, <2>3 DEF BudgetInv, Undisturbed
  <2> QED
    BY <1>1, <1>2, <2>2, <2>4
<1> QED
  BY <1>3, <1>4

LEMMA NextStep == IInv /\ [Next]_vars => IInv'
<1> SUFFICES ASSUME IInv, [Next]_vars PROVE IInv'
  OBVIOUS
<1>1. ASSUME NEW c \in Call, reserve(c) \/ Continue(c) \/ crash(c) PROVE IInv'
  BY <1>1, ReserveStep, TakeBackStep, CreateReservedStep, CrawlerStep DEF Continue
<1> QED
  BY <1>1, RebuildStep, EnvironmentStep DEF Next

-----------------------------------------------------------------------------
(* The theorems *)

\* The inductive invariant holds throughout.
THEOREM Inductive == Spec => []IInv
BY Initially, NextStep, PTL DEF Spec

\* The types of TypeOK hold for any callers, limits, days and bounds.
THEOREM TypeCorrect == Spec => []TypeOK
<1>1. IInv => TypeOK
  BY DEF IInv
<1> QED
  BY <1>1, Inductive, PTL

\* reserve fails closed: whatever Redis, PG, a crash or a rebuild does, a paid
\* request was preceded by a durable reserved row.
THEOREM PaidSafety == Spec => []PaidIsReserved
<1>1. IInv => PaidIsReserved
  BY DEF IInv, PaidInv, PaidIsReserved
<1> QED
  BY <1>1, Inductive, PTL

\* Without a rebuild or a loss of the Redis data no counter falls below the
\* slots it stands for, failed Redis operations and crashes included.
THEOREM SlotSafety == Spec => []SlotsAreCounted
<1>1. IInv => SlotsAreCounted
  BY DEF IInv, BudgetInv, SlotsAreCounted
<1> QED
  BY <1>1, Inductive, PTL

\* In an environment that never loses the Redis data and never rebuilds, no
\* day's paid calls exceed the provider's hard limit.
THEOREM BudgetSafety == MaxLosses = 0 /\ MaxRebuilds = 0 => (Spec => []BudgetHolds)
<1> SUFFICES ASSUME MaxLosses = 0, MaxRebuilds = 0 PROVE Spec => []BudgetHolds
  OBVIOUS
<1>1. IInv => BudgetHolds
  <2> SUFFICES ASSUME IInv, NEW k \in Key PROVE Cardinality(PaidOn(k)) <= Limit[k[1]]
    BY DEF BudgetHolds
  <2>1. losses = 0 /\ rebuilds = 0
    BY DEF IInv, TypeOK
  <2>2. Cardinality(Admitted(k)) <= Limit[k[1]]
    BY <2>1 DEF IInv, BudgetInv, Undisturbed
  <2>3. PaidOn(k) \in SUBSET Admitted(k)
    BY DEF IInv, TypeOK, PaidOn, Admitted
  <2>4. /\ IsFiniteSet(PaidOn(k)) /\ Cardinality(PaidOn(k)) \in Nat
        /\ Cardinality(PaidOn(k)) <= Cardinality(Admitted(k))
    BY <2>3, Finite, FS_Subset, FS_CardinalityType
  <2>5. Limit[k[1]] \in Nat
    BY LimitAssumption DEF Key
  <2> QED
    BY <2>2, <2>4, <2>5, Finite
<1> QED
  BY <1>1, Inductive, PTL

-----------------------------------------------------------------------------
(* The books: how calls that nothing failed end.  A second invariant, proved   *)
(* inductive relative to IInv.                                                *)

\* Without a fault a call is past its reservation exactly when it paid, and has
\* one outcome row from the step that ends it and none before.
SettledOK(c) ==
  /\ call[c].step \notin {"undoing", "crashed"}
  /\ c \in paid <=> call[c].step \in {"paying", "succeeded", "failing", "done"}
  /\ call[c].step # "done" => Outcome(c) = {}
  /\ call[c].step = "done" => \E e \in events : Outcome(c) = {e}

\* ... and a counter that nothing else wrote is the number of slots held.
BalanceInv ==
  faults = 0 =>
    /\ \A c \in Call : SettledOK(c)
    /\ Undisturbed => \A k \in Key : Cardinality(Holding(k)) = counter[k]

\* A row changes the outcome of its own call, and only when it is an outcome.
LEMMA OutcomeEffect ==
  ASSUME NEW c \in Call, NEW d \in Call, NEW day \in Day,
         NEW s \in {"reserved", "actual", "failed"},
         events' = events \cup {Row(c, day, s)}
  PROVE  Outcome(d)' = IF d = c /\ s # "reserved"
                       THEN Outcome(d) \cup {Row(c, day, s)} ELSE Outcome(d)
<1>1. Row(c, day, s).call = c /\ Row(c, day, s).status = s
  BY DEF Row
<1> HIDE DEF Row
<1>2. CASE d = c /\ s # "reserved"
  BY <1>1, <1>2 DEF Outcome
<1>3. CASE ~(d = c /\ s # "reserved")
  BY <1>1, <1>3 DEF Outcome
<1> QED
  BY <1>2, <1>3

\* The calls are as settled after a step as before it when it changed nothing
\* that SettledOK reads of them.
LEMMA SettledKept ==
  ASSUME NEW d \in Call, SettledOK(d), call'[d] = call[d], Outcome(d)' = Outcome(d),
         d \in paid' <=> d \in paid
  PROVE  SettledOK(d)'
<1>1. call[d].step = "done" => \E e \in events' : Outcome(d)' = {e}
  <2> SUFFICES ASSUME call[d].step = "done" PROVE \E e \in events' : Outcome(d)' = {e}
    OBVIOUS
  <2>1. PICK e : Outcome(d) = {e}
    BY DEF SettledOK
  <2>2. e \in events'
    BY <2>1 DEF Outcome
  <2> QED
    BY <2>1, <2>2
<1> QED
  BY <1>1 DEF SettledOK

LEMMA BooksStart == Init => BalanceInv
<1> SUFFICES ASSUME Init PROVE BalanceInv
  OBVIOUS
<1>1. \A c \in Call : SettledOK(c)
  BY DEF Init, SettledOK, Outcome
<1>2. \A k \in Key : Cardinality(Holding(k)) = counter[k]
  <2> SUFFICES ASSUME NEW k \in Key PROVE Cardinality(Holding(k)) = counter[k]
    OBVIOUS
  <2>1. Holding(k) = {}
    BY DEF Init, Holding
  <2> QED
    BY <2>1, FS_EmptySet DEF Init
<1> QED
  BY <1>1, <1>2 DEF BalanceInv

LEMMA ReserveBooks ==
  ASSUME IInv, BalanceInv, NEW c \in Call, reserve(c), faults' = 0
  PROVE  BalanceInv'
<1> DEFINE q == <<ProviderOf[c], today>>
           next == counter[q] + 1
           step == IF next > Limit[ProviderOf[c]] THEN "over" ELSE "creating"
<1> USE DEF IInv
<1>1. /\ call[c].step = "new" /\ q \in Key
      /\ call \in [Call -> [step : Step, day : Day]]
      /\ counter \in [Key -> Int] /\ faults \in Nat
      /\ UNCHANGED <<events, paid, losses, rebuilds>>
  BY CallAssumption, BoundAssumption DEF reserve, At, Key, TypeOK
<1>2. Redis(q, next) /\ call' = [call EXCEPT ![c] = [step |-> step, day |-> today]]
  BY <1>1 DEF reserve, RedisThrows, Fault
<1>3. /\ faults = 0 /\ counter'[q] = counter[q] + 1
      /\ \A k \in Key \ {q} : counter'[k] = counter[k]
  BY <1>1, <1>2 DEF Redis
<1>4. /\ call'[c].step \in {"over", "creating"} /\ call'[c].day = today
      /\ \A d \in Call \ {c} : call'[d] = call[d]
  BY <1>1, <1>2
<1>5. c \notin paid /\ Outcome(c) = {} /\ \A d \in Call : SettledOK(d)
  BY <1>1, <1>3 DEF BalanceInv, SettledOK
<1>6. \A d \in Call : Outcome(d)' = Outcome(d)
  BY <1>1 DEF Outcome
<1>7. \A d \in Call : SettledOK(d)'
  <2> SUFFICES ASSUME NEW d \in Call PROVE SettledOK(d)'
    OBVIOUS
  <2>1. CASE d = c
    BY <1>1, <1>4, <1>5, <1>6, <2>1 DEF SettledOK
  <2>2. CASE d # c
    BY <1>1, <1>4, <1>5, <1>6, <2>2, SettledKept
  <2> QED
    BY <2>1, <2>2
<1>8. ASSUME Undisturbed', NEW k \in Key PROVE Cardinality(Holding(k)') = counter'[k]
  <2>1. Cardinality(Holding(k)) = counter[k]
    BY <1>1, <1>3, <1>8 DEF BalanceInv, Undisturbed
  <2>2. CASE k = q
    <3>1. Holding(k)' = Holding(k) \cup {c}
      BY <1>1, <1>4, <1>5, <2>2 DEF Holding, counterKey
    <3>2. c \notin Holding(k)
      BY <1>1, <1>5 DEF Holding
    <3>3. Cardinality(Holding(k)') = Cardinality(Holding(k)) + 1
      BY <3>1, <3>2, Finite, FS_AddElement
    <3> QED
      BY <1>3, <2>1, <2>2, <3>3
  <2>3. CASE k # q
    <3>1. Holding(k)' = Holding(k)
      BY <1>1, <1>4, <1>5, <2>3 DEF Holding, counterKey
    <3> QED
      BY <1>3, <2>1, <2>3, <3>1
  <2> QED
    BY <2>2, <2>3
<1> QED
  BY <1>7, <1>8 DEF BalanceInv

LEMMA TakeBackBooks ==
  ASSUME IInv, BalanceInv, NEW c \in Call, takeBack(c), faults' = 0
  PROVE  BalanceInv'
<1> DEFINE q == counterKey(c)
<1> USE DEF IInv
<1>1. /\ call[c].step \in {"over", "undoing"} /\ q \in Key
      /\ counter \in [Key -> Int] /\ call[c].day \in Day /\ faults \in Nat
      /\ UNCHANGED <<events, paid, losses, rebuilds>>
  BY CallAssumption, BoundAssumption DEF takeBack, counterKey, Key, TypeOK
<1>2. Redis(q, counter[q] - 1)
  BY <1>1 DEF takeBack, RedisThrows, Fault
<1>3. /\ faults = 0 /\ counter'[q] = counter[q] - 1
      /\ \A k \in Key \ {q} : counter'[k] = counter[k]
  BY <1>1, <1>2 DEF Redis
<1>4. /\ call'[c].step = "refused"
      /\ \A d \in Call \ {c} : call'[d] = call[d]
  BY CallEffect, Steps DEF takeBack
<1>5. c \notin paid /\ Outcome(c) = {} /\ \A d \in Call : SettledOK(d)
  BY <1>1, <1>3 DEF BalanceInv, SettledOK
<1>6. \A d \in Call : Outcome(d)' = Outcome(d)
  BY <1>1 DEF Outcome
<1>7. \A d \in Call : SettledOK(d)'
  <2> SUFFICES ASSUME NEW d \in Call PROVE SettledOK(d)'
    OBVIOUS
  <2>1. CASE d = c
    BY <1>1, <1>4, <1>5, <1>6, <2>1 DEF SettledOK
  <2>2. CASE d # c
    BY <1>1, <1>4, <1>5, <1>6, <2>2, SettledKept
  <2> QED
    BY <2>1, <2>2
<1>8. ASSUME Undisturbed', NEW k \in Key PROVE Cardinality(Holding(k)') = counter'[k]
  <2>1. Cardinality(Holding(k)) = counter[k]
    BY <1>1, <1>3, <1>8 DEF BalanceInv, Undisturbed
  <2>2. CASE k = q
    <3>1. Holding(k)' = Holding(k) \ {c}
      BY <1>1, <1>4, <1>5 DEF Holding, counterKey
    <3>2. c \in Holding(k)
      BY <1>1, <2>2 DEF Holding
    <3>3. Cardinality(Holding(k)') = Cardinality(Holding(k)) - 1
      BY <3>1, <3>2, Finite, FS_RemoveElement
    <3> QED
      BY <1>3, <2>1, <2>2, <3>3
  <2>3. CASE k # q
    <3>1. Holding(k)' = Holding(k)
      BY <1>1, <1>4, <1>5, <2>3 DEF Holding, counterKey
    <3> QED
      BY <1>3, <2>1, <2>3, <3>1
  <2> QED
    BY <2>2, <2>3
<1> QED
  BY <1>7, <1>8 DEF BalanceInv

\* A step of one call that leaves the counters alone and the slots held.
LEMMA SlotsKept ==
  ASSUME IInv, BalanceInv, faults = 0, UNCHANGED <<counter, losses, rebuilds>>,
         NEW c \in Call, NEW step \in Step, Goes(c, step),
         c \in paid \/ call[c].step = "creating",
         paid' = paid \cup {c}
  PROVE  Undisturbed' => \A k \in Key : Cardinality(Holding(k)') = counter'[k]
<1>1. /\ \A d \in Call \ {c} : call'[d] = call[d]
      /\ \A d \in Call : call'[d].day = call[d].day
  BY CallEffect DEF IInv
<1>2. \A k \in Key : Holding(k)' = Holding(k)
  BY <1>1 DEF Holding, counterKey
<1> QED
  BY <1>2 DEF BalanceInv, Undisturbed

LEMMA CreateReservedBooks ==
  ASSUME IInv, BalanceInv, NEW c \in Call, createReserved(c), faults' = 0
  PROVE  BalanceInv'
<1> DEFINE day == call[c].day
<1>1. /\ call[c].step = "creating" /\ faults \in Nat /\ day \in Day
      /\ UNCHANGED <<counter, losses, rebuilds>>
  BY BoundAssumption DEF createReserved, At, IInv, TypeOK
<1>2. Insert(Row(c, day, "reserved")) /\ Goes(c, "paying") /\ paid' = paid \cup {c}
  BY <1>1 DEF createReserved, InsertThrows, Fault
<1>3. /\ faults = 0 /\ call'[c].step = "paying"
      /\ \A d \in Call \ {c} : call'[d] = call[d]
  BY <1>1, <1>2, CallEffect, Steps DEF Insert, IInv
<1>4. events' = events \cup {Row(c, day, "reserved")}
  BY <1>2 DEF Insert
<1> HIDE DEF day
<1>5. \A d \in Call : Outcome(d)' = Outcome(d)
  BY <1>1, <1>4, OutcomeEffect
<1>6. Outcome(c) = {} /\ \A d \in Call : SettledOK(d)
  BY <1>1, <1>3 DEF BalanceInv, SettledOK
<1>7. \A d \in Call : SettledOK(d)'
  <2> SUFFICES ASSUME NEW d \in Call PROVE SettledOK(d)'
    OBVIOUS
  <2>1. CASE d = c
    BY <1>2, <1>3, <1>5, <1>6, <2>1 DEF SettledOK
  <2>2. CASE d # c
    BY <1>2, <1>3, <1>5, <1>6, <2>2, SettledKept
  <2> QED
    BY <2>1, <2>2
<1>8. Undisturbed' => \A k \in Key : Cardinality(Holding(k)') = counter'[k]
  BY <1>1, <1>2, <1>3, Steps, SlotsKept
<1> QED
  BY <1>7, <1>8 DEF BalanceInv

LEMMA AnswerBooks ==
  ASSUME IInv, BalanceInv, NEW c \in Call, providerAnswers(c), faults' = 0
  PROVE  BalanceInv'
<1>1. /\ call[c].step = "paying" /\ faults = 0
      /\ UNCHANGED <<counter, events, paid, losses, rebuilds>>
  BY DEF providerAnswers, At
<1>2. PICK step \in {"succeeded", "failing"} : Goes(c, step)
  BY DEF providerAnswers
<1>3. /\ step \in Step /\ call'[c].step = step
      /\ \A d \in Call \ {c} : call'[d] = call[d]
  BY <1>2, CallEffect, Steps DEF IInv
<1>4. c \in paid /\ Outcome(c) = {} /\ \A d \in Call : SettledOK(d)
  BY <1>1 DEF BalanceInv, SettledOK
<1>5. \A d \in Call : Outcome(d)' = Outcome(d)
  BY <1>1 DEF Outcome
<1>6. \A d \in Call : SettledOK(d)'
  <2> SUFFICES ASSUME NEW d \in Call PROVE SettledOK(d)'
    OBVIOUS
  <2>1. CASE d = c
    BY <1>1, <1>3, <1>4, <1>5, <2>1 DEF SettledOK
  <2>2. CASE d # c
    BY <1>1, <1>3, <1>4, <1>5, <2>2, SettledKept
  <2> QED
    BY <2>1, <2>2
<1>7. paid' = paid \cup {c}
  BY <1>1, <1>4
<1>8. Undisturbed' => \A k \in Key : Cardinality(Holding(k)') = counter'[k]
  BY <1>1, <1>2, <1>3, <1>4, <1>7, SlotsKept
<1> QED
  BY <1>6, <1>8 DEF BalanceInv

LEMMA RecordBooks ==
  ASSUME IInv, BalanceInv, NEW c \in Call, recordActual(c) \/ recordFailed(c), faults' = 0
  PROVE  BalanceInv'
<1> DEFINE day == RecordDay(c)
<1>1. /\ call[c].step \in {"succeeded", "failing"} /\ faults \in Nat /\ day \in Day
      /\ UNCHANGED <<counter, paid, losses, rebuilds>>
  BY BoundAssumption DEF recordActual, recordFailed, At, IInv, TypeOK, RecordDay
<1>2. PICK s \in {"actual", "failed"} : Insert(Row(c, day, s)) /\ Goes(c, "done")
  BY <1>1 DEF recordActual, recordFailed, InsertThrows, Fault
<1>3. /\ faults = 0 /\ call'[c].step = "done" /\ events' = events \cup {Row(c, day, s)}
      /\ \A d \in Call \ {c} : call'[d] = call[d]
  BY <1>1, <1>2, CallEffect, Steps DEF Insert, IInv
<1>4. c \in paid /\ Outcome(c) = {} /\ \A d \in Call : SettledOK(d)
  BY <1>1, <1>3 DEF BalanceInv, SettledOK
<1> HIDE DEF day
<1>5. Outcome(c)' = {Row(c, day, s)} /\ \A d \in Call \ {c} : Outcome(d)' = Outcome(d)
  BY <1>1, <1>3, <1>4, OutcomeEffect
<1>6. \A d \in Call : SettledOK(d)'
  <2> SUFFICES ASSUME NEW d \in Call PROVE SettledOK(d)'
    OBVIOUS
  <2>1. CASE d = c
    BY <1>1, <1>3, <1>4, <1>5, <2>1 DEF SettledOK
  <2>2. CASE d # c
    BY <1>1, <1>3, <1>4, <1>5, <2>2, SettledKept
  <2> QED
    BY <2>1, <2>2
<1>7. paid' = paid \cup {c}
  BY <1>1, <1>4
<1>8. Undisturbed' => \A k \in Key : Cardinality(Holding(k)') = counter'[k]
  BY <1>1, <1>2, <1>3, <1>4, <1>7, Steps, SlotsKept
<1> QED
  BY <1>6, <1>8 DEF BalanceInv

\* What is not a step of a call: a rebuild, a loss of the Redis data, midnight.
LEMMA EnvironmentBooks ==
  ASSUME IInv, BalanceInv, faults' = 0,
         \/ \E d \in Day : rebuildReads(d)
         \/ rebuildSets \/ rebuildEnds \/ redisLoses \/ midnight \/ UNCHANGED vars
  PROVE  BalanceInv'
<1>1. faults = 0 /\ UNCHANGED <<events, call, paid>>
  BY DEF rebuildReads, rebuildSets, rebuildEnds, redisLoses, midnight, vars
<1>2. \A d \in Call : SettledOK(d)'
  BY <1>1 DEF BalanceInv, SettledOK, Outcome
<1>3. Undisturbed' => Undisturbed /\ counter' = counter
  BY BoundAssumption
  DEF IInv, TypeOK, Undisturbed, rebuildReads, rebuildSets, rebuildEnds, redisLoses,
      midnight, vars
<1>4. \A k \in Key : Holding(k)' = Holding(k)
  BY <1>1 DEF Holding, counterKey
<1> QED
  BY <1>1, <1>2, <1>3, <1>4 DEF BalanceInv

LEMMA BooksNext == IInv /\ BalanceInv /\ [Next]_vars => BalanceInv'
<1> SUFFICES ASSUME IInv, BalanceInv, [Next]_vars, faults' = 0 PROVE BalanceInv'
  BY DEF BalanceInv
<1>1. ASSUME NEW c \in Call, reserve(c) \/ Continue(c) PROVE BalanceInv'
  BY <1>1, ReserveBooks, TakeBackBooks, CreateReservedBooks, AnswerBooks, RecordBooks
  DEF Continue
<1>2. ASSUME NEW c \in Call, crash(c) PROVE FALSE
  BY <1>2, BoundAssumption DEF crash, Fault, IInv, TypeOK
<1> QED
  BY <1>1, <1>2, EnvironmentBooks DEF Next

LEMMA BooksInductive == Spec => []BalanceInv
BY Inductive, BooksStart, BooksNext, PTL DEF Spec

\* When every call has ended and no operation failed, a paid call has exactly
\* one outcome row, any other has none, and every slot that a refused call took
\* was given back: no interleaving of the callers leaks a slot or a row.
THEOREM BooksAreBalanced == Spec => []BooksBalance
<1>1. IInv /\ BalanceInv => BooksBalance
  <2> SUFFICES ASSUME IInv, BalanceInv, Quiet, Undisturbed
               PROVE  /\ \A c \in Call : Cardinality(Outcome(c)) = IF c \in paid THEN 1 ELSE 0
                      /\ \A k \in Key : counter[k] = Cardinality(PaidOn(k))
    BY DEF BooksBalance
  <2>1. faults = 0 /\ \A c \in Call : call[c].step \in {"refused", "done", "crashed", "new"}
    BY DEF Quiet, Ended
  <2>2. \A c \in Call : SettledOK(c)
    BY <2>1 DEF BalanceInv
  <2>3. ASSUME NEW c \in Call
        PROVE  Cardinality(Outcome(c)) = IF c \in paid THEN 1 ELSE 0
    <3>1. CASE c \in paid
      <4>1. PICK e : Outcome(c) = {e}
        BY <2>1, <2>2, <3>1 DEF SettledOK
      <4> QED
        BY <3>1, <4>1, FS_Singleton
    <3>2. CASE c \notin paid
      <4>1. Outcome(c) = {}
        BY <2>1, <2>2, <3>2 DEF SettledOK
      <4> QED
        BY <3>2, <4>1, FS_EmptySet
    <3> QED
      BY <3>1, <3>2
  <2>4. ASSUME NEW k \in Key PROVE counter[k] = Cardinality(PaidOn(k))
    <3>1. Holding(k) = PaidOn(k)
      BY <2>1 DEF Holding, PaidOn, IInv, TypeOK
    <3>2. Cardinality(Holding(k)) = counter[k]
      BY <2>1 DEF BalanceInv
    <3> QED
      BY <3>1, <3>2
  <2> QED
    BY <2>3, <2>4
<1> QED
  BY <1>1, Inductive, BooksInductive, PTL

-----------------------------------------------------------------------------
(* The refinement *)

\* A step that pays for no call grants none.
LEMMA NothingGranted ==
  ASSUME IInv, paid' = paid, \A c \in paid : call'[c].day = call[c].day
  PROVE  grantedBar' = grantedBar
<1>1. \A k \in Key : PaidOn(k)' = PaidOn(k)
  BY DEF PaidOn, counterKey
<1> QED
  BY <1>1 DEF grantedBar

\* Sending the request of an admitted call is a grant.
LEMMA PaysGrants ==
  ASSUME IInv, losses = 0, rebuilds = 0, NEW c \in Call, createReserved(c), paid' # paid
  PROVE  Budget!Grant(c, ProviderOf[c], call[c].day)
<1> DEFINE q == <<ProviderOf[c], call[c].day>>
<1> USE DEF IInv
<1>1. /\ call[c].step = "creating" /\ paid' = paid \cup {c} /\ Goes(c, "paying")
      /\ q \in Key /\ q[1] = ProviderOf[c] /\ paid \subseteq Call
  BY CallAssumption DEF createReserved, At, TypeOK, Key
<1>2. \A d \in Call : call'[d].day = call[d].day
  BY <1>1, CallEffect, Steps
<1>3. c \notin paid
  BY <1>1 DEF PaidInv
<1>4. \A k \in Key : c \notin grantedBar[k]
  BY <1>3 DEF grantedBar, PaidOn
<1>5. Cardinality(PaidOn(q)) < Limit[q[1]]
  <2>1. Cardinality(Admitted(q)) <= Limit[q[1]] /\ Limit[q[1]] \in Nat
    BY <1>1, LimitAssumption DEF BudgetInv, Undisturbed, Key
  <2>2. PaidOn(q) \in SUBSET (Admitted(q) \ {c})
    BY <1>1, <1>3 DEF PaidOn, Admitted
  <2>3. c \in Admitted(q)
    BY <1>1 DEF Admitted, At, counterKey
  <2>4. /\ IsFiniteSet(Admitted(q) \ {c})
        /\ Cardinality(Admitted(q) \ {c}) = Cardinality(Admitted(q)) - 1
    BY <2>3, Finite, FS_RemoveElement
  <2>5. /\ Cardinality(PaidOn(q)) <= Cardinality(Admitted(q) \ {c})
        /\ Cardinality(PaidOn(q)) \in Nat
    BY <2>2, <2>4, FS_Subset, FS_CardinalityType
  <2> QED
    BY <2>1, <2>4, <2>5, Finite
<1>6. grantedBar' = [grantedBar EXCEPT ![q] = @ \cup {c}]
  <2>1. \A k \in Key : PaidOn(k)' = IF k = q THEN PaidOn(k) \cup {c} ELSE PaidOn(k)
    BY <1>1, <1>2 DEF PaidOn, counterKey
  <2> QED
    BY <1>1, <2>1 DEF grantedBar
<1>7. grantedBar[q] = PaidOn(q)
  BY <1>1 DEF grantedBar
<1> QED
  BY <1>1, <1>4, <1>5, <1>6, <1>7 DEF Budget!Grant, Key, Budget!Cardinality, Cardinality

\* In the same environment the ledger and its callers implement DailyBudget:
\* every paid request is a grant below the day's limit, no call is granted twice.
THEOREM RefinesDailyBudget ==
  MaxLosses = 0 /\ MaxRebuilds = 0 => (Spec => ImplementsDailyBudget)
<1> SUFFICES ASSUME MaxLosses = 0, MaxRebuilds = 0 PROVE Spec => ImplementsDailyBudget
  OBVIOUS
<1>1. Init => Budget!Init
  BY DEF Init, Budget!Init, grantedBar, PaidOn, Key
<1>2. ASSUME IInv, [Next]_vars PROVE [Budget!Next]_grantedBar
  <2> USE DEF IInv
  <2>1. losses = 0 /\ rebuilds = 0
    BY <1>2 DEF TypeOK
  <2>2. ASSUME NEW c \in Call, createReserved(c), paid' # paid PROVE Budget!Next
    <3>1. Budget!Grant(c, ProviderOf[c], call[c].day)
      BY <1>2, <2>1, <2>2, PaysGrants
    <3>2. ProviderOf[c] \in UsageProvider /\ call[c].day \in Day
      BY <1>2, CallAssumption DEF TypeOK
    <3> QED
      BY <3>1, <3>2 DEF Budget!Next
  <2>3. ASSUME NEW c \in Call, reserve(c) PROVE grantedBar' = grantedBar
    <3>1. c \notin paid /\ paid' = paid
      BY <1>2, <2>3 DEF reserve, At, PaidInv
    <3>2. \A d \in Call \ {c} : call'[d] = call[d]
      BY <1>2, <2>3 DEF reserve, Goes, TypeOK
    <3> QED
      BY <1>2, <3>1, <3>2, NothingGranted DEF TypeOK
  <2>4. ASSUME NEW c \in Call, Continue(c) \/ crash(c), paid' = paid
        PROVE  grantedBar' = grantedBar
    <3>1. \E step \in Step : Goes(c, step)
      BY <2>4, Steps DEF Continue, crash, takeBack, createReserved, providerAnswers,
                         recordActual, recordFailed
    <3>2. \A d \in Call : call'[d].day = call[d].day
      BY <1>2, <3>1, CallEffect
    <3> QED
      BY <1>2, <2>4, <3>2, NothingGranted DEF TypeOK
  <2>5. ASSUME NEW c \in Call, Continue(c) \/ crash(c), paid' # paid PROVE createReserved(c)
    BY <2>5 DEF Continue, crash, takeBack, providerAnswers, recordActual, recordFailed
  <2>6. ASSUME \/ \E d \in Day : rebuildReads(d)
               \/ rebuildSets \/ rebuildEnds \/ redisLoses \/ midnight \/ UNCHANGED vars
        PROVE  grantedBar' = grantedBar
    <3>1. UNCHANGED <<paid, call>>
      BY <2>6 DEF rebuildReads, rebuildSets, rebuildEnds, redisLoses, midnight, vars
    <3> QED
      BY <1>2, <3>1, NothingGranted
  <2> QED
    BY <1>2, <2>2, <2>3, <2>4, <2>5, <2>6 DEF Next
<1> QED
  BY <1>1, <1>2, Inductive, PTL DEF Spec, ImplementsDailyBudget, Budget!Spec

=============================================================================
