----------------------- MODULE TradeLifecycleProofs -----------------------
(***************************************************************************)
(* Theorems about TradeLifecycle, for any trades, calls, chains, executors *)
(* and number of faults.                                                   *)
(***************************************************************************)
EXTENDS TradeLifecycle, FiniteSetTheorems, TLAPS

-----------------------------------------------------------------------------
(* The inductive invariant: how the handlers' frames, the table and the feed  *)
(* fit together.                                                             *)

\* A call that was admitted holds a plan its row still has, and only such a
\* call sends an order.
CallOK(c) ==
  /\ CallAt(c, "new") => call[c].trade = NoTrade
  /\ call[c].chain # NoPlan =>
       /\ call[c].trade \in Trade
       /\ call[c].chain \in Executor
       /\ HasExecutionPlan(call[c].trade, call[c].chain)
  /\ call[c].step \in {"executing", "sent"} \/ orders[c] > 0 => call[c].chain # NoPlan
  /\ call[c].step \in {"new", "executing"} => orders[c] = 0
  /\ CallAt(c, "confirming") => call[c].trade \in Trade
  /\ CallAt(c, "announcing") =>
       /\ call[c].trade \in Trade
       /\ call[c].status \in Range(written[call[c].trade])
CallInv == \A c \in Call : CallOK(c)

\* A prepare handler owns its row until the plan is attached.
PrepareInv ==
  \A t \in Trade :
    /\ PrepareAt(t, "new") => ~Exists(t)
    /\ prepare[t].step \notin {"new", "done"} => Exists(t)
    /\ prepare[t].step \in {"received", "planning", "attaching"} =>
         row[t].plan = NoPlan /\ "REJECTED" \notin Range(written[t])
    /\ PrepareAt(t, "attaching") => prepare[t].chain \in Chain
    /\ PrepareAt(t, "received") => "PENDING" \in Range(written[t])
    /\ PrepareAt(t, "planned") => "READY" \in Range(written[t])
    /\ PrepareAt(t, "rejected") => "REJECTED" \in Range(written[t])
    /\ Exists(t) \/ Range(written[t]) = {}

\* Without a failing write, a plan that is stored was announced or will be, and
\* an order whose confirmation was written shows in the row.
CallRecorded(c) ==
  orders[c] > 0 /\ call[c].step \in {"announcing", "done"} =>
    row[call[c].trade].status \in ExecutionStatus
PlanAnnounced(t) ==
  Exists(t) /\ row[t].plan # NoPlan =>
    /\ prepare[t].step \in {"planned", "done"}
    /\ "REJECTED" \notin Range(written[t])
FaultFreeInv ==
  faults = 0 =>
    /\ \A t \in Trade : PlanAnnounced(t)
    /\ \A c \in Call : CallRecorded(c)

IInv == TypeOK /\ CallInv /\ PrepareInv /\ FaultFreeInv /\ AnnouncedWasWritten

-----------------------------------------------------------------------------
(* Lemmas *)

\* A value appended to a sequence joins its range.
LEMMA AppendRange ==
  ASSUME NEW S, NEW s \in Seq(S), NEW e \in S
  PROVE  /\ Append(s, e) \in Seq(S)
         /\ Range(Append(s, e)) = Range(s) \cup {e}
<1>1. Append(s, e) \in Seq(S)
  OBVIOUS
<1>2. DOMAIN Append(s, e) = (DOMAIN s) \cup {Len(s) + 1}
  OBVIOUS
<1>3. \A i \in DOMAIN s : Append(s, e)[i] = s[i]
  OBVIOUS
<1>4. Append(s, e)[Len(s) + 1] = e
  OBVIOUS
<1> QED
  BY <1>1, <1>2, <1>3, <1>4 DEF Range

\* The events are the six EventType names.
LEMMA EventTypes ==
  /\ DOMAIN EventType = RealtimeTradeStatus
  /\ \A s \in RealtimeTradeStatus : EventType[s] \in Range(EventType)
<1>1. DOMAIN EventType = RealtimeTradeStatus
  BY DEF EventType, RealtimeTradeStatus
<1> QED
  BY <1>1 DEF Range

\* What a write leaves behind, in terms of ranges.
LEMMA StoreEffect ==
  ASSUME TypeOK, NEW t \in Trade, NEW r \in RealtimeTrade, Store(t, r)
  PROVE  /\ row' \in [Trade -> RealtimeTrade \cup {NoRow}]
         /\ row'[t] = r /\ \A u \in Trade \ {t} : row'[u] = row[u]
         /\ written' \in [Trade -> Seq(RealtimeTradeStatus)]
         /\ Range(written'[t]) = Range(written[t]) \cup {r.status}
         /\ \A u \in Trade \ {t} : written'[u] = written[u]
<1>1. written[t] \in Seq(RealtimeTradeStatus) /\ r.status \in RealtimeTradeStatus
  BY DEF TypeOK, RealtimeTrade
<1>2. Append(written[t], r.status) \in Seq(RealtimeTradeStatus)
      /\ Range(Append(written[t], r.status)) = Range(written[t]) \cup {r.status}
  BY <1>1, AppendRange
<1>3. written'[t] = Append(written[t], r.status)
  BY DEF Store, TypeOK
<1> QED
  BY <1>2, <1>3 DEF Store, TypeOK

\* What an emit leaves behind.
LEMMA EmitEffect ==
  ASSUME TypeOK, NEW t \in Trade, NEW s \in RealtimeTradeStatus, emit(t, s)
  PROVE  /\ feed' \in [Trade -> Seq(Range(EventType))]
         /\ Range(feed'[t]) = Range(feed[t]) \cup {EventType[s]}
         /\ \A u \in Trade \ {t} : feed'[u] = feed[u]
<1>1. feed[t] \in Seq(Range(EventType)) /\ EventType[s] \in Range(EventType)
  BY EventTypes DEF TypeOK
<1>2. Append(feed[t], EventType[s]) \in Seq(Range(EventType))
      /\ Range(Append(feed[t], EventType[s])) = Range(feed[t]) \cup {EventType[s]}
  BY <1>1, AppendRange
<1>3. feed'[t] = Append(feed[t], EventType[s])
  BY DEF emit, TypeOK
<1> QED
  BY <1>2, <1>3 DEF emit, TypeOK

-----------------------------------------------------------------------------
(* The initial states *)

LEMMA Initially == Init => IInv
<1> SUFFICES ASSUME Init PROVE IInv
  OBVIOUS
<1> USE DEF Init
<1>1. TypeOK
  BY MaxFaultsAssumption
  DEF TypeOK, Frame, CallStep, PrepareStep, ExecutionStatus
<1>2. CallInv
  BY DEF CallInv, CallOK, CallAt
<1>3. PrepareInv
  BY DEF PrepareInv, PrepareAt, Exists, Range
<1>4. FaultFreeInv
  BY DEF FaultFreeInv, PlanAnnounced, CallRecorded, Exists
<1>5. AnnouncedWasWritten
  BY DEF AnnouncedWasWritten, Range
<1> QED
  BY <1>1, <1>2, <1>3, <1>4, <1>5 DEF IInv

\* A write changes one row, and adds its status to that row's history; a write
\* that throws may also change nothing.
LEMMA WriteEffect ==
  ASSUME TypeOK, NEW t \in Trade, NEW r \in RealtimeTrade,
         Store(t, r) \/ UNCHANGED <<row, written>>
  PROVE  /\ row' \in [Trade -> RealtimeTrade \cup {NoRow}]
         /\ written' \in [Trade -> Seq(RealtimeTradeStatus)]
         /\ \A u \in Trade \ {t} : row'[u] = row[u] /\ written'[u] = written[u]
         /\ \/ /\ row'[t] = r
               /\ Range(written'[t]) = Range(written[t]) \cup {r.status}
            \/ row'[t] = row[t] /\ written'[t] = written[t]
<1>1. CASE Store(t, r)
  BY <1>1, StoreEffect
<1>2. CASE UNCHANGED <<row, written>>
  BY <1>2 DEF TypeOK
<1> QED
  BY <1>1, <1>2

\* A handler that moves on keeps the route it found.
LEMMA PrepareEffect ==
  ASSUME TypeOK, NEW t \in Trade, NEW step \in PrepareStep, PrepareGoes(t, step)
  PROVE  /\ prepare' \in [Trade -> [step : PrepareStep, chain : Chain \cup {NoPlan}]]
         /\ prepare'[t].step = step /\ prepare'[t].chain = prepare[t].chain
         /\ \A u \in Trade \ {t} : prepare'[u] = prepare[u]
<1>1. prepare \in [Trade -> [step : PrepareStep, chain : Chain \cup {NoPlan}]]
  BY DEF TypeOK
<1>2. prepare' = [prepare EXCEPT ![t] = [prepare[t] EXCEPT !.step = step]]
  BY DEF PrepareGoes
<1>3. [prepare[t] EXCEPT !.step = step]
        \in [step : PrepareStep, chain : Chain \cup {NoPlan}]
  BY <1>1
<1>4. prepare'[t] = [prepare[t] EXCEPT !.step = step]
  BY <1>1, <1>2
<1> QED
  BY <1>1, <1>2, <1>3, <1>4

\* The steps a handler can be at.
LEMMA PrepareSteps ==
  \A step \in {"new", "received", "planning", "attaching", "planned", "rejecting",
               "rejected", "done"} : step \in PrepareStep
  BY DEF PrepareStep

-----------------------------------------------------------------------------
(* The steps of prepareTrade *)

LEMMA CreateTradeStep ==
  ASSUME IInv, NEW t \in Trade, createTrade(t)
  PROVE  IInv'
<1> DEFINE r == [status |-> "PENDING", plan |-> NoPlan]
<1> USE DEF IInv
<1>1. r \in RealtimeTrade /\ r # NoRow /\ r.status = "PENDING" /\ r.plan = NoPlan
  BY NoRowAssumption DEF RealtimeTrade, RealtimeTradeStatus, TypeOK, PrepareInv,
     PrepareAt, Exists, createTrade
<1>2. /\ Store(t, r) \/ UNCHANGED <<row, written>>
      /\ \/ Store(t, r) /\ PrepareGoes(t, "received") /\ faults' = faults
         \/ PrepareGoes(t, "done") /\ faults' = faults + 1 /\ faults < MaxFaults
      /\ UNCHANGED <<call, orders, feed>>
  BY DEF createTrade, Acknowledged, Throws
<1> HIDE DEF r
<1>3. /\ row' \in [Trade -> RealtimeTrade \cup {NoRow}]
      /\ written' \in [Trade -> Seq(RealtimeTradeStatus)]
      /\ \A u \in Trade \ {t} : row'[u] = row[u] /\ written'[u] = written[u]
      /\ \/ /\ row'[t] = r
            /\ Range(written'[t]) = Range(written[t]) \cup {r.status}
         \/ row'[t] = row[t] /\ written'[t] = written[t]
  BY <1>1, <1>2, WriteEffect
<1>4. /\ prepare' \in [Trade -> [step : PrepareStep, chain : Chain \cup {NoPlan}]]
      /\ \A u \in Trade \ {t} : prepare'[u] = prepare[u]
      /\ \/ /\ prepare'[t].step = "received" /\ faults' = faults
            /\ row'[t] = r
            /\ Range(written'[t]) = Range(written[t]) \cup {r.status}
         \/ prepare'[t].step = "done" /\ faults' = faults + 1 /\ faults < MaxFaults
  BY <1>1, <1>2, StoreEffect, PrepareEffect, PrepareSteps
<1>5. prepare[t].step = "new"
  BY DEF createTrade, PrepareAt
<1>6. TypeOK'
  BY <1>2, <1>3, <1>4, MaxFaultsAssumption DEF TypeOK
<1>7. CallInv'
  <2> SUFFICES ASSUME NEW c \in Call PROVE CallOK(c)'
    BY DEF CallInv
  <2>1. CASE call[c].trade = t
    BY <1>1, <1>2, <1>3, <1>5, <2>1, ChainAssumption
    DEF CallInv, CallOK, PrepareInv, HasExecutionPlan, Exists, CallAt, PrepareAt
  <2>2. CASE call[c].trade # t
    BY <1>2, <1>3, <2>2 DEF CallInv, CallOK, HasExecutionPlan, Exists, CallAt
  <2> QED
    BY <2>1, <2>2
<1>8. PrepareInv'
  <2> SUFFICES ASSUME NEW u \in Trade PROVE PrepareInv!(u)'
    BY DEF PrepareInv
  <2>1. CASE u = t
    BY <1>1, <1>3, <1>4, <1>5, <2>1 DEF PrepareInv, PrepareAt, Exists
  <2>2. CASE u # t
    BY <1>3, <1>4, <2>2 DEF PrepareInv, PrepareAt, Exists
  <2> QED
    BY <2>1, <2>2
<1>9. FaultFreeInv'
  <2> SUFFICES ASSUME faults' = 0 PROVE FaultFreeInv'
    BY DEF FaultFreeInv
  <2>1. faults = 0 /\ prepare'[t].step = "received" /\ row'[t] = r
        /\ Range(written'[t]) = Range(written[t]) \cup {r.status}
    BY <1>4 DEF TypeOK
  <2>2. \A c \in Call : orders[c] > 0 => call[c].trade # t /\ call[c].trade \in Trade
    BY <2>1, <1>5, ChainAssumption
    DEF CallInv, CallOK, PrepareInv, FaultFreeInv, PlanAnnounced, CallRecorded, PrepareAt, HasExecutionPlan, Exists
  <2> QED
    BY <2>1, <2>2, <1>1, <1>2, <1>3, <1>4, <1>5
    DEF FaultFreeInv, PlanAnnounced, CallRecorded, PrepareInv, PrepareAt, Exists
<1>10. AnnouncedWasWritten'
  BY <1>2, <1>3 DEF AnnouncedWasWritten
<1> QED
  BY <1>6, <1>7, <1>8, <1>9, <1>10

LEMMA AttachPlanStep ==
  ASSUME IInv, NEW t \in Trade, attachPlan(t)
  PROVE  IInv'
<1> DEFINE r == [status |-> "READY", plan |-> prepare[t].chain]
<1> USE DEF IInv
<1>1. r \in RealtimeTrade /\ r # NoRow /\ r.status = "READY" /\ r.plan = prepare[t].chain
  BY NoRowAssumption DEF RealtimeTrade, RealtimeTradeStatus, TypeOK, PrepareInv,
     PrepareAt, Exists, attachPlan
<1>2. /\ Store(t, r) \/ UNCHANGED <<row, written>>
      /\ \/ Store(t, r) /\ PrepareGoes(t, "planned") /\ faults' = faults
         \/ PrepareGoes(t, "rejecting") /\ faults' = faults + 1 /\ faults < MaxFaults
      /\ UNCHANGED <<call, orders, feed>>
  BY DEF attachPlan, Acknowledged, Throws
<1> HIDE DEF r
<1>3. /\ row' \in [Trade -> RealtimeTrade \cup {NoRow}]
      /\ written' \in [Trade -> Seq(RealtimeTradeStatus)]
      /\ \A u \in Trade \ {t} : row'[u] = row[u] /\ written'[u] = written[u]
      /\ \/ /\ row'[t] = r
            /\ Range(written'[t]) = Range(written[t]) \cup {r.status}
         \/ row'[t] = row[t] /\ written'[t] = written[t]
  BY <1>1, <1>2, WriteEffect
<1>4. /\ prepare' \in [Trade -> [step : PrepareStep, chain : Chain \cup {NoPlan}]]
      /\ \A u \in Trade \ {t} : prepare'[u] = prepare[u]
      /\ \/ /\ prepare'[t].step = "planned" /\ faults' = faults
            /\ row'[t] = r
            /\ Range(written'[t]) = Range(written[t]) \cup {r.status}
         \/ prepare'[t].step = "rejecting" /\ faults' = faults + 1 /\ faults < MaxFaults
  BY <1>1, <1>2, StoreEffect, PrepareEffect, PrepareSteps
<1>5. prepare[t].step = "attaching"
  BY DEF attachPlan, PrepareAt
<1>6. TypeOK'
  BY <1>2, <1>3, <1>4, MaxFaultsAssumption DEF TypeOK
<1>7. CallInv'
  <2> SUFFICES ASSUME NEW c \in Call PROVE CallOK(c)'
    BY DEF CallInv
  <2>1. CASE call[c].trade = t
    BY <1>1, <1>2, <1>3, <1>5, <2>1, ChainAssumption
    DEF CallInv, CallOK, PrepareInv, HasExecutionPlan, Exists, CallAt, PrepareAt
  <2>2. CASE call[c].trade # t
    BY <1>2, <1>3, <2>2 DEF CallInv, CallOK, HasExecutionPlan, Exists, CallAt
  <2> QED
    BY <2>1, <2>2
<1>8. PrepareInv'
  <2> SUFFICES ASSUME NEW u \in Trade PROVE PrepareInv!(u)'
    BY DEF PrepareInv
  <2>1. CASE u = t
    BY <1>1, <1>3, <1>4, <1>5, <2>1 DEF PrepareInv, PrepareAt, Exists
  <2>2. CASE u # t
    BY <1>3, <1>4, <2>2 DEF PrepareInv, PrepareAt, Exists
  <2> QED
    BY <2>1, <2>2
<1>9. FaultFreeInv'
  <2> SUFFICES ASSUME faults' = 0 PROVE FaultFreeInv'
    BY DEF FaultFreeInv
  <2>1. faults = 0 /\ prepare'[t].step = "planned" /\ row'[t] = r
        /\ Range(written'[t]) = Range(written[t]) \cup {r.status}
    BY <1>4 DEF TypeOK
  <2>2. \A c \in Call : orders[c] > 0 => call[c].trade # t /\ call[c].trade \in Trade
    BY <2>1, <1>5, ChainAssumption
    DEF CallInv, CallOK, PrepareInv, FaultFreeInv, PlanAnnounced, CallRecorded, PrepareAt, HasExecutionPlan, Exists
  <2> QED
    BY <2>1, <2>2, <1>1, <1>2, <1>3, <1>4, <1>5
    DEF FaultFreeInv, PlanAnnounced, CallRecorded, PrepareInv, PrepareAt, Exists
<1>10. AnnouncedWasWritten'
  BY <1>2, <1>3 DEF AnnouncedWasWritten
<1> QED
  BY <1>6, <1>7, <1>8, <1>9, <1>10

LEMMA MarkRejectedStep ==
  ASSUME IInv, NEW t \in Trade, markRejected(t)
  PROVE  IInv'
<1> DEFINE r == [row[t] EXCEPT !.status = "REJECTED"]
<1> USE DEF IInv
<1>1. r \in RealtimeTrade /\ r # NoRow /\ r.status = "REJECTED" /\ r.plan = row[t].plan
  <2>1. row[t] \in RealtimeTrade
    BY DEF markRejected, TypeOK, PrepareInv, PrepareAt, Exists
  <2> QED
    BY <2>1, NoRowAssumption DEF RealtimeTrade, RealtimeTradeStatus
<1>2. /\ Store(t, r) \/ UNCHANGED <<row, written>>
      /\ \/ Store(t, r) /\ PrepareGoes(t, "rejected") /\ faults' = faults
         \/ PrepareGoes(t, "done") /\ faults' = faults + 1 /\ faults < MaxFaults
      /\ UNCHANGED <<call, orders, feed>>
  BY DEF markRejected, Acknowledged, Throws
<1> HIDE DEF r
<1>3. /\ row' \in [Trade -> RealtimeTrade \cup {NoRow}]
      /\ written' \in [Trade -> Seq(RealtimeTradeStatus)]
      /\ \A u \in Trade \ {t} : row'[u] = row[u] /\ written'[u] = written[u]
      /\ \/ /\ row'[t] = r
            /\ Range(written'[t]) = Range(written[t]) \cup {r.status}
         \/ row'[t] = row[t] /\ written'[t] = written[t]
  BY <1>1, <1>2, WriteEffect
<1>4. /\ prepare' \in [Trade -> [step : PrepareStep, chain : Chain \cup {NoPlan}]]
      /\ \A u \in Trade \ {t} : prepare'[u] = prepare[u]
      /\ \/ /\ prepare'[t].step = "rejected" /\ faults' = faults
            /\ row'[t] = r
            /\ Range(written'[t]) = Range(written[t]) \cup {r.status}
         \/ prepare'[t].step = "done" /\ faults' = faults + 1 /\ faults < MaxFaults
  BY <1>1, <1>2, StoreEffect, PrepareEffect, PrepareSteps
<1>5. prepare[t].step = "rejecting"
  BY DEF markRejected, PrepareAt
<1>6. TypeOK'
  BY <1>2, <1>3, <1>4, MaxFaultsAssumption DEF TypeOK
<1>7. CallInv'
  <2> SUFFICES ASSUME NEW c \in Call PROVE CallOK(c)'
    BY DEF CallInv
  <2>1. CASE call[c].trade = t
    BY <1>1, <1>2, <1>3, <1>5, <2>1, ChainAssumption
    DEF CallInv, CallOK, PrepareInv, HasExecutionPlan, Exists, CallAt, PrepareAt
  <2>2. CASE call[c].trade # t
    BY <1>2, <1>3, <2>2 DEF CallInv, CallOK, HasExecutionPlan, Exists, CallAt
  <2> QED
    BY <2>1, <2>2
<1>8. PrepareInv'
  <2> SUFFICES ASSUME NEW u \in Trade PROVE PrepareInv!(u)'
    BY DEF PrepareInv
  <2>1. CASE u = t
    BY <1>1, <1>3, <1>4, <1>5, <2>1 DEF PrepareInv, PrepareAt, Exists
  <2>2. CASE u # t
    BY <1>3, <1>4, <2>2 DEF PrepareInv, PrepareAt, Exists
  <2> QED
    BY <2>1, <2>2
<1>9. FaultFreeInv'
  <2> SUFFICES ASSUME faults' = 0 PROVE FaultFreeInv'
    BY DEF FaultFreeInv
  <2>1. faults = 0 /\ prepare'[t].step = "rejected" /\ row'[t] = r
        /\ Range(written'[t]) = Range(written[t]) \cup {r.status}
    BY <1>4 DEF TypeOK
  <2>2. \A c \in Call : orders[c] > 0 => call[c].trade # t /\ call[c].trade \in Trade
    BY <2>1, <1>5, ChainAssumption
    DEF CallInv, CallOK, PrepareInv, FaultFreeInv, PlanAnnounced, CallRecorded, PrepareAt, HasExecutionPlan, Exists
  <2> QED
    BY <2>1, <2>2, <1>1, <1>2, <1>3, <1>4, <1>5
    DEF FaultFreeInv, PlanAnnounced, CallRecorded, PrepareInv, PrepareAt, Exists
<1>10. AnnouncedWasWritten'
  BY <1>2, <1>3 DEF AnnouncedWasWritten
<1> QED
  BY <1>6, <1>7, <1>8, <1>9, <1>10

LEMMA AnnounceIntentStep ==
  ASSUME IInv, NEW t \in Trade, announceIntent(t)
  PROVE  IInv'
<1> USE DEF IInv
<1>1. "PENDING" \in RealtimeTradeStatus
  BY DEF RealtimeTradeStatus
<1>2. TypeOK'
  BY <1>1, EmitEffect, PrepareEffect, PrepareSteps DEF TypeOK, announceIntent
<1>3. CallInv' /\ PrepareInv' /\ FaultFreeInv'
  BY DEF announceIntent, CallInv, CallOK, PrepareInv, FaultFreeInv, PlanAnnounced, CallRecorded, TypeOK, PrepareGoes, PrepareAt,
     CallAt, Exists, HasExecutionPlan
<1>4. AnnouncedWasWritten'
  <2>1. "PENDING" \in Range(written[t])
    BY DEF announceIntent, PrepareInv, PrepareAt
  <2>2. Range(feed'[t]) = Range(feed[t]) \cup {EventType["PENDING"]}
        /\ \A u \in Trade \ {t} : feed'[u] = feed[u]
    BY <1>1, EmitEffect DEF announceIntent
  <2>3. written' = written
    BY DEF announceIntent
  <2> QED
    BY <2>1, <2>2, <2>3 DEF AnnouncedWasWritten
<1> QED
  BY <1>2, <1>3, <1>4

LEMMA AnnouncePlanStep ==
  ASSUME IInv, NEW t \in Trade, announcePlan(t)
  PROVE  IInv'
<1> USE DEF IInv
<1>1. "READY" \in RealtimeTradeStatus
  BY DEF RealtimeTradeStatus
<1>2. TypeOK'
  BY <1>1, EmitEffect, PrepareEffect, PrepareSteps DEF TypeOK, announcePlan
<1>3. CallInv' /\ PrepareInv' /\ FaultFreeInv'
  BY DEF announcePlan, CallInv, CallOK, PrepareInv, FaultFreeInv, PlanAnnounced, CallRecorded, TypeOK, PrepareGoes, PrepareAt,
     CallAt, Exists, HasExecutionPlan
<1>4. AnnouncedWasWritten'
  <2>1. "READY" \in Range(written[t])
    BY DEF announcePlan, PrepareInv, PrepareAt
  <2>2. Range(feed'[t]) = Range(feed[t]) \cup {EventType["READY"]}
        /\ \A u \in Trade \ {t} : feed'[u] = feed[u]
    BY <1>1, EmitEffect DEF announcePlan
  <2>3. written' = written
    BY DEF announcePlan
  <2> QED
    BY <2>1, <2>2, <2>3 DEF AnnouncedWasWritten
<1> QED
  BY <1>2, <1>3, <1>4

LEMMA AnnounceErrorStep ==
  ASSUME IInv, NEW t \in Trade, announceError(t)
  PROVE  IInv'
<1> USE DEF IInv
<1>1. "REJECTED" \in RealtimeTradeStatus
  BY DEF RealtimeTradeStatus
<1>2. TypeOK'
  BY <1>1, EmitEffect, PrepareEffect, PrepareSteps DEF TypeOK, announceError
<1>3. CallInv' /\ PrepareInv' /\ FaultFreeInv'
  BY DEF announceError, CallInv, CallOK, PrepareInv, FaultFreeInv, PlanAnnounced, CallRecorded, TypeOK, PrepareGoes, PrepareAt,
     CallAt, Exists, HasExecutionPlan
<1>4. AnnouncedWasWritten'
  <2>1. "REJECTED" \in Range(written[t])
    BY DEF announceError, PrepareInv, PrepareAt
  <2>2. Range(feed'[t]) = Range(feed[t]) \cup {EventType["REJECTED"]}
        /\ \A u \in Trade \ {t} : feed'[u] = feed[u]
    BY <1>1, EmitEffect DEF announceError
  <2>3. written' = written
    BY DEF announceError
  <2> QED
    BY <2>1, <2>2, <2>3 DEF AnnouncedWasWritten
<1> QED
  BY <1>2, <1>3, <1>4

LEMMA CorePrepareTradeStep ==
  ASSUME IInv, NEW t \in Trade, corePrepareTrade(t)
  PROVE  IInv'
<1> USE DEF IInv
<1>1. TypeOK'
  <2>1. CASE PrepareGoes(t, "rejecting")
    BY <2>1, PrepareEffect, PrepareSteps DEF TypeOK, corePrepareTrade
  <2>2. CASE \E chain \in Chain :
               prepare' = [prepare EXCEPT ![t] = [step |-> "attaching", chain |-> chain]]
    BY <2>2, PrepareSteps DEF TypeOK, corePrepareTrade
  <2> QED
    BY <2>1, <2>2 DEF corePrepareTrade
<1>2. /\ prepare[t].step = "planning"
      /\ \A u \in Trade \ {t} : prepare'[u] = prepare[u]
      /\ \/ prepare'[t].step = "rejecting"
         \/ prepare'[t].step = "attaching" /\ prepare'[t].chain \in Chain
  BY PrepareSteps DEF corePrepareTrade, PrepareAt, PrepareGoes, TypeOK
<1>3. UNCHANGED <<row, call, orders, written, faults>>
  BY DEF corePrepareTrade
<1>4. CallInv'
  BY <1>3 DEF CallInv, CallOK, CallAt, HasExecutionPlan, Exists
<1>5. PrepareInv'
  BY <1>2, <1>3 DEF PrepareInv, PrepareAt, Exists
<1>6. FaultFreeInv'
  BY <1>2, <1>3 DEF FaultFreeInv, PlanAnnounced, CallRecorded, PrepareInv, PrepareAt, Exists
<1>7. AnnouncedWasWritten'
  BY DEF corePrepareTrade, AnnouncedWasWritten
<1> QED
  BY <1>1, <1>4, <1>5, <1>6, <1>7

-----------------------------------------------------------------------------
(* The steps of an execution and of a confirmation *)

\* The table, the feed and the prepare handlers do not move in the steps that
\* only concern a call's frame and its order.
LEMMA FrameStep ==
  ASSUME IInv, UNCHANGED <<row, prepare, written, feed, faults>>
  PROVE  PrepareInv' /\ AnnouncedWasWritten'
BY DEF IInv, PrepareInv, PrepareAt, Exists, AnnouncedWasWritten

\* Only one call moves, and the table stays: the other calls are as they were.
LEMMA OtherCalls ==
  ASSUME IInv, NEW c \in Call, UNCHANGED <<row, prepare, written, faults>>,
         \A d \in Call \ {c} : call'[d] = call[d] /\ orders'[d] = orders[d],
         CallOK(c)', faults = 0 => CallRecorded(c)'
  PROVE  CallInv' /\ FaultFreeInv'
<1>1. \A d \in Call \ {c} : CallOK(d)'
  BY DEF IInv, CallInv, CallOK, CallAt, HasExecutionPlan, Exists
<1>2. faults = 0 => \A d \in Call \ {c} : CallRecorded(d)'
  BY DEF IInv, FaultFreeInv, CallRecorded
<1>3. faults = 0 => \A t \in Trade : PlanAnnounced(t)'
  BY DEF IInv, FaultFreeInv, PlanAnnounced, Exists
<1>4. CallInv'
  BY <1>1 DEF CallInv
<1>5. FaultFreeInv'
  BY <1>2, <1>3 DEF FaultFreeInv
<1> QED
  BY <1>4, <1>5

\* A frame that moves on keeps its trade, chain and status.
LEMMA CallEffect ==
  ASSUME TypeOK, NEW c \in Call, NEW step \in CallStep, CallGoes(c, step)
  PROVE  /\ call' \in [Call -> Frame]
         /\ call'[c].step = step
         /\ call'[c].trade = call[c].trade
         /\ call'[c].chain = call[c].chain
         /\ call'[c].status = call[c].status
         /\ \A d \in Call \ {c} : call'[d] = call[d]
<1>1. call \in [Call -> Frame]
  BY DEF TypeOK
<1>2. call' = [call EXCEPT ![c] = [call[c] EXCEPT !.step = step]]
  BY DEF CallGoes
<1>3. [call[c] EXCEPT !.step = step] \in Frame
  BY <1>1 DEF Frame
<1>4. call'[c] = [call[c] EXCEPT !.step = step]
  BY <1>1, <1>2
<1>5. call[c] \in Frame
  BY <1>1
<1> QED
  BY <1>1, <1>2, <1>3, <1>4, <1>5 DEF Frame

\* The steps a call can be at.
LEMMA CallSteps ==
  \A step \in {"new", "executing", "sent", "confirming", "announcing", "done"} :
    step \in CallStep
BY DEF CallStep

LEMMA ExecuteTradeStep ==
  ASSUME IInv, NEW c \in Call, NEW t \in Trade, NEW chain \in Chain,
         executeTrade(c, t, chain)
  PROVE  IInv'
<1> USE DEF IInv
<1>1. /\ call[c].step = "new" /\ chain \in Executor
      /\ call \in [Call -> Frame]
      /\ UNCHANGED <<row, prepare, orders, written, feed, faults>>
  BY DEF executeTrade, CallAt, TypeOK
<1>2. orders[c] = 0 /\ CallOK(c)
  BY <1>1 DEF CallInv, CallOK
<1>3. CASE HasExecutionPlan(t, chain)
  <2>1. call' = [call EXCEPT ![c] = [call[c] EXCEPT !.step = "executing",
                                       !.trade = t, !.chain = chain]]
    BY <1>3 DEF executeTrade
  <2>2. [call[c] EXCEPT !.step = "executing", !.trade = t, !.chain = chain] \in Frame
    BY <1>1, CallSteps DEF Frame
  <2>3. call' \in [Call -> Frame] /\ \A d \in Call \ {c} : call'[d] = call[d]
    BY <1>1, <2>1, <2>2
  <2>4. /\ call'[c].step = "executing" /\ call'[c].trade = t
        /\ call'[c].chain = chain
    BY <1>1, <2>1 DEF Frame
  <2>5. TypeOK'
    BY <1>1, <2>3 DEF TypeOK
  <2>6. CallOK(c)' /\ CallRecorded(c)'
    BY <1>1, <1>2, <1>3, <2>4, ChainAssumption
    DEF CallOK, CallRecorded, CallAt, HasExecutionPlan, Exists
  <2> QED
    BY <1>1, <2>3, <2>5, <2>6, OtherCalls, FrameStep
<1>4. CASE ~HasExecutionPlan(t, chain)
  <2>1. CallGoes(c, "done")
    BY <1>4 DEF executeTrade
  <2>2. /\ call' \in [Call -> Frame] /\ \A d \in Call \ {c} : call'[d] = call[d]
        /\ call'[c].step = "done" /\ call'[c].chain = call[c].chain
        /\ call'[c].trade = call[c].trade
    BY <2>1, CallEffect, CallSteps
  <2>3. TypeOK'
    BY <1>1, <2>2 DEF TypeOK
  <2>4. CallOK(c)' /\ CallRecorded(c)'
    BY <1>1, <1>2, <2>2 DEF CallOK, CallRecorded, CallAt, HasExecutionPlan, Exists
  <2> QED
    BY <1>1, <2>2, <2>3, <2>4, OtherCalls, FrameStep
<1> QED
  BY <1>3, <1>4

LEMMA SendOrderStep ==
  ASSUME IInv, NEW c \in Call, sendOrder(c)
  PROVE  IInv'
<1> USE DEF IInv
<1>1. /\ call[c].step = "executing" /\ CallGoes(c, "sent")
      /\ orders' = [orders EXCEPT ![c] = orders[c] + 1]
      /\ UNCHANGED <<row, prepare, written, feed, faults>>
  BY DEF sendOrder, CallAt
<1>2. orders \in [Call -> 0..1] /\ orders[c] = 0 /\ CallOK(c)
  BY <1>1 DEF CallInv, CallOK, TypeOK
<1>3. /\ call' \in [Call -> Frame] /\ \A d \in Call \ {c} : call'[d] = call[d]
      /\ call'[c].step = "sent" /\ call'[c].chain = call[c].chain
      /\ call'[c].trade = call[c].trade
  BY <1>1, CallEffect, CallSteps
<1>4. /\ orders' \in [Call -> 0..1]
      /\ \A d \in Call \ {c} : orders'[d] = orders[d]
  BY <1>1, <1>2
<1>5. TypeOK'
  BY <1>1, <1>3, <1>4 DEF TypeOK
<1>6. CallOK(c)' /\ CallRecorded(c)'
  BY <1>1, <1>2, <1>3 DEF CallOK, CallRecorded, CallAt, HasExecutionPlan, Exists
<1> QED
  BY <1>1, <1>3, <1>4, <1>5, <1>6, OtherCalls, FrameStep

LEMMA ExecutorReturnsStep ==
  ASSUME IInv, NEW c \in Call, executorReturns(c)
  PROVE  IInv'
<1> USE DEF IInv
<1>1. PICK status \in {"SUBMITTED", "FAILED"} :
        call' = [call EXCEPT ![c] = [call[c] EXCEPT !.step = "confirming",
                                       !.status = status]]
  BY DEF executorReturns
<1>2. /\ call[c].step \in {"executing", "sent"} /\ call \in [Call -> Frame]
      /\ UNCHANGED <<row, prepare, orders, written, feed, faults>>
  BY DEF executorReturns, TypeOK
<1>3. CallOK(c)
  BY DEF CallInv
<1>4. [call[c] EXCEPT !.step = "confirming", !.status = status] \in Frame
  BY <1>2, CallSteps DEF Frame, ExecutionStatus
<1>5. call' \in [Call -> Frame] /\ \A d \in Call \ {c} : call'[d] = call[d]
  BY <1>1, <1>2, <1>4
<1>6. /\ call'[c].step = "confirming" /\ call'[c].trade = call[c].trade
      /\ call'[c].chain = call[c].chain
  BY <1>1, <1>2 DEF Frame
<1>7. TypeOK'
  BY <1>2, <1>5 DEF TypeOK
<1>8. CallOK(c)' /\ CallRecorded(c)'
  BY <1>2, <1>3, <1>6 DEF CallOK, CallRecorded, CallAt, HasExecutionPlan, Exists
<1> QED
  BY <1>2, <1>5, <1>7, <1>8, OtherCalls, FrameStep

LEMMA ExecutorThrowsStep ==
  ASSUME IInv, NEW c \in Call, executorThrows(c)
  PROVE  IInv'
<1> USE DEF IInv
<1>1. /\ call[c].step = "executing" /\ CallGoes(c, "done")
      /\ UNCHANGED <<row, prepare, orders, written, feed, faults>>
  BY DEF executorThrows, CallAt
<1>2. CallOK(c)
  BY DEF CallInv
<1>3. /\ call' \in [Call -> Frame] /\ \A d \in Call \ {c} : call'[d] = call[d]
      /\ call'[c].step = "done" /\ call'[c].chain = call[c].chain
      /\ call'[c].trade = call[c].trade
  BY <1>1, CallEffect, CallSteps
<1>4. TypeOK'
  BY <1>1, <1>3 DEF TypeOK
<1>5. CallOK(c)' /\ CallRecorded(c)'
  BY <1>1, <1>2, <1>3 DEF CallOK, CallRecorded, CallAt, HasExecutionPlan, Exists
<1> QED
  BY <1>1, <1>3, <1>4, <1>5, OtherCalls, FrameStep

LEMMA ConfirmTradeStep ==
  ASSUME IInv, NEW c \in Call, NEW t \in Trade, NEW status \in ExecutionStatus,
         confirmTrade(c, t, status)
  PROVE  IInv'
<1> USE DEF IInv
<1>1. /\ call[c].step = "new" /\ call \in [Call -> Frame]
      /\ call' = [call EXCEPT ![c] = [call[c] EXCEPT !.step = "confirming",
                                        !.trade = t, !.status = status]]
      /\ UNCHANGED <<row, prepare, orders, written, feed, faults>>
  BY DEF confirmTrade, CallAt, TypeOK
<1>2. CallOK(c) /\ call[c].trade = NoTrade /\ call[c].chain = NoPlan /\ orders[c] = 0
  BY <1>1, TradeAssumption DEF CallInv, CallOK, CallAt
<1>3. [call[c] EXCEPT !.step = "confirming", !.trade = t, !.status = status] \in Frame
  BY <1>1, CallSteps DEF Frame
<1>4. call' \in [Call -> Frame] /\ \A d \in Call \ {c} : call'[d] = call[d]
  BY <1>1, <1>3
<1>5. /\ call'[c].step = "confirming" /\ call'[c].trade = t
      /\ call'[c].chain = NoPlan
  BY <1>1, <1>2 DEF Frame
<1>6. TypeOK'
  BY <1>1, <1>4 DEF TypeOK
<1>7. CallOK(c)' /\ CallRecorded(c)'
  BY <1>1, <1>2, <1>5 DEF CallOK, CallRecorded, CallAt, HasExecutionPlan, Exists
<1> QED
  BY <1>1, <1>4, <1>6, <1>7, OtherCalls, FrameStep

LEMMA AnnounceExecutionStep ==
  ASSUME IInv, NEW c \in Call, announceExecution(c)
  PROVE  IInv'
<1> USE DEF IInv
<1> DEFINE t == call[c].trade
           s == call[c].status
<1>1. /\ call[c].step = "announcing" /\ CallGoes(c, "done") /\ emit(t, s)
      /\ UNCHANGED <<row, prepare, orders, written, faults>>
  BY DEF announceExecution, CallAt
<1>2. CallOK(c) /\ (faults = 0 => CallRecorded(c))
  BY DEF CallInv, FaultFreeInv
<1>3. t \in Trade /\ s \in Range(written[t]) /\ s \in RealtimeTradeStatus
  <2>1. call[c] \in Frame
    BY DEF TypeOK
  <2> QED
    BY <1>1, <1>2, <2>1
    DEF CallOK, CallAt, Frame, ExecutionStatus, RealtimeTradeStatus
<1>4. /\ call' \in [Call -> Frame] /\ \A d \in Call \ {c} : call'[d] = call[d]
      /\ call'[c].step = "done" /\ call'[c].chain = call[c].chain
      /\ call'[c].trade = call[c].trade
  BY <1>1, CallEffect, CallSteps
<1> HIDE DEF t, s
<1>5. /\ feed' \in [Trade -> Seq(Range(EventType))]
      /\ Range(feed'[t]) = Range(feed[t]) \cup {EventType[s]}
      /\ \A u \in Trade \ {t} : feed'[u] = feed[u]
  BY <1>1, <1>3, EmitEffect
<1>6. TypeOK'
  BY <1>1, <1>4, <1>5 DEF TypeOK
<1>7. CallOK(c)' /\ (faults = 0 => CallRecorded(c)')
  BY <1>1, <1>2, <1>4 DEF CallOK, CallRecorded, CallAt, HasExecutionPlan, Exists
<1>8. CallInv' /\ FaultFreeInv'
  BY <1>1, <1>4, <1>7, OtherCalls
<1>9. PrepareInv'
  BY <1>1 DEF PrepareInv, PrepareAt, Exists
<1>10. AnnouncedWasWritten'
  BY <1>1, <1>3, <1>5 DEF AnnouncedWasWritten
<1> QED
  BY <1>6, <1>8, <1>9, <1>10

LEMMA MarkExecutionStep ==
  ASSUME IInv, NEW c \in Call, markExecution(c)
  PROVE  IInv'
<1> USE DEF IInv
<1> DEFINE t == call[c].trade
           r == [row[t] EXCEPT !.status = call[c].status]
<1>1. t \in Trade /\ call[c] \in Frame /\ call[c].step = "confirming"
  BY DEF markExecution, CallInv, CallOK, CallAt, TypeOK
<1>2. CASE Missing(t) /\ CallGoes(c, "done")
  <2>1. /\ call' \in [Call -> Frame] /\ \A d \in Call \ {c} : call'[d] = call[d]
        /\ call'[c].step = "done" /\ call'[c].chain = call[c].chain
        /\ call'[c].trade = call[c].trade
    BY <1>2, CallEffect, CallSteps
  <2>2. UNCHANGED <<row, prepare, orders, written, feed, faults>>
    BY <1>2 DEF markExecution, Missing
  <2>3. TypeOK'
    BY <2>1, <2>2 DEF TypeOK
  <2>4. CallOK(c)' /\ CallRecorded(c)'
    BY <1>1, <1>2, <2>1, <2>2
    DEF CallInv, CallOK, CallRecorded, CallAt, HasExecutionPlan, Exists, Missing
  <2> QED
    BY <2>1, <2>2, <2>3, <2>4, OtherCalls, FrameStep
<1>3. CASE /\ Exists(t)
           /\ \/ Acknowledged(t, r) /\ CallGoes(c, "announcing")
              \/ Throws(t, r) /\ CallGoes(c, "done")
  <2>1. /\ r \in RealtimeTrade /\ r # NoRow /\ r.plan = row[t].plan
        /\ r.status = call[c].status /\ r.status \in ExecutionStatus
    <3>1. row[t] \in RealtimeTrade
      BY <1>1, <1>3 DEF TypeOK, Exists
    <3> QED
      BY <1>1, <3>1, NoRowAssumption
      DEF RealtimeTrade, RealtimeTradeStatus, Frame, ExecutionStatus
  <2>2. /\ Store(t, r) \/ UNCHANGED <<row, written>>
        /\ \/ Store(t, r) /\ CallGoes(c, "announcing") /\ faults' = faults
           \/ CallGoes(c, "done") /\ faults' = faults + 1 /\ faults < MaxFaults
        /\ UNCHANGED <<prepare, orders, feed>>
    BY <1>3 DEF Acknowledged, Throws, markExecution
  <2> HIDE DEF r, t
  <2>3. /\ row' \in [Trade -> RealtimeTrade \cup {NoRow}]
        /\ written' \in [Trade -> Seq(RealtimeTradeStatus)]
        /\ \A u \in Trade \ {t} : row'[u] = row[u] /\ written'[u] = written[u]
        /\ \/ /\ row'[t] = r
              /\ Range(written'[t]) = Range(written[t]) \cup {r.status}
           \/ row'[t] = row[t] /\ written'[t] = written[t]
    BY <1>1, <2>1, <2>2, WriteEffect
  <2>4. /\ call' \in [Call -> Frame] /\ \A d \in Call \ {c} : call'[d] = call[d]
        /\ call'[c].chain = call[c].chain /\ call'[c].trade = call[c].trade
        /\ call'[c].status = call[c].status
        /\ \/ /\ call'[c].step = "announcing" /\ faults' = faults
              /\ row'[t] = r
              /\ Range(written'[t]) = Range(written[t]) \cup {r.status}
           \/ call'[c].step = "done" /\ faults' = faults + 1 /\ faults < MaxFaults
    BY <1>1, <2>1, <2>2, StoreEffect, CallEffect, CallSteps
  <2>5. \A u \in Trade :
          /\ row'[u] # NoRow <=> row[u] # NoRow
          /\ row[u] # NoRow => row'[u].plan = row[u].plan
          /\ Range(written[u]) \subseteq Range(written'[u])
          /\ "REJECTED" \in Range(written'[u]) => "REJECTED" \in Range(written[u])
    <3> TAKE u \in Trade
    <3>1. CASE u = t
      BY <1>3, <2>1, <2>3, <3>1 DEF Exists, ExecutionStatus
    <3>2. CASE u # t
      BY <2>3, <3>2
    <3> QED
      BY <3>1, <3>2
  <2>6. TypeOK'
    BY <2>2, <2>3, <2>4, MaxFaultsAssumption DEF TypeOK
  <2>7. CallInv'
    <3>1. CallOK(c)'
      BY <1>1, <2>1, <2>2, <2>4, <2>5
      DEF CallInv, CallOK, CallAt, HasExecutionPlan, Exists, t
    <3>2. ASSUME NEW d \in Call \ {c} PROVE CallOK(d)'
      <4>1. CallOK(d) /\ call'[d] = call[d] /\ orders'[d] = orders[d]
        BY <2>2, <2>4 DEF CallInv
      <4>2. call[d].trade \in Trade =>
              /\ row'[call[d].trade] # NoRow <=> row[call[d].trade] # NoRow
              /\ row[call[d].trade] # NoRow =>
                   row'[call[d].trade].plan = row[call[d].trade].plan
              /\ Range(written[call[d].trade]) \subseteq Range(written'[call[d].trade])
        BY <2>5
      <4> QED
        BY <4>1, <4>2 DEF CallOK, CallAt, HasExecutionPlan, Exists
    <3> QED
      BY <3>1, <3>2 DEF CallInv
  <2>8. PrepareInv'
    BY <1>3, <2>2, <2>3, <2>5 DEF PrepareInv, PrepareAt, Exists, t
  <2>9. FaultFreeInv'
    <3> SUFFICES ASSUME faults' = 0
                 PROVE  /\ (\A u \in Trade : PlanAnnounced(u))'
                        /\ (\A d \in Call : CallRecorded(d))'
      BY DEF FaultFreeInv
    <3>1. faults = 0 /\ row'[t] = r /\ call'[c].step = "announcing"
      BY <2>4 DEF TypeOK
    <3>2. (\A u \in Trade : PlanAnnounced(u))'
      BY <2>2, <2>5, <3>1 DEF FaultFreeInv, PlanAnnounced, Exists
    <3>3. \A d \in Call : row'[call[d].trade].status \in ExecutionStatus
                            \/ call[d].trade \notin Trade
                            \/ row'[call[d].trade] = row[call[d].trade]
      BY <2>1, <2>3, <3>1
    <3>4. \A d \in Call : orders[d] > 0 => call[d].trade \in Trade
      BY DEF CallInv, CallOK
    <3>5. CallRecorded(c)'
      BY <2>1, <2>4, <3>1 DEF CallRecorded, t
    <3>6. \A d \in Call \ {c} : CallRecorded(d)'
      BY <2>2, <2>4, <3>1, <3>3, <3>4 DEF FaultFreeInv, CallRecorded
    <3>7. (\A d \in Call : CallRecorded(d))'
      BY <3>5, <3>6
    <3> QED
      BY <3>2, <3>7
  <2>10. AnnouncedWasWritten'
    BY <2>2, <2>5 DEF AnnouncedWasWritten
  <2> QED
    BY <2>6, <2>7, <2>8, <2>9, <2>10
<1> QED
  BY <1>2, <1>3 DEF markExecution

LEMMA CrashStep ==
  ASSUME IInv, crash
  PROVE  IInv'
<1> USE DEF IInv
<1>1. /\ faults' = faults + 1 /\ faults < MaxFaults
      /\ UNCHANGED <<row, orders, written, feed>>
  BY DEF crash
<1>2. /\ prepare' \in [Trade -> [step : PrepareStep, chain : Chain \cup {NoPlan}]]
      /\ \A t \in Trade : prepare'[t] = prepare[t] \/ prepare'[t].step = "done"
  BY PrepareSteps DEF crash, Interrupted, TypeOK
<1>3. /\ call' \in [Call -> Frame]
      /\ \A c \in Call :
           \/ call'[c] = call[c]
           \/ /\ call'[c].step = "done" /\ call'[c].trade = call[c].trade
              /\ call'[c].chain = call[c].chain
  <2>1. call \in [Call -> Frame] /\ call' = [c \in Call |-> Interrupted(call[c])]
    BY DEF crash, TypeOK
  <2>2. \A f \in Frame : /\ Interrupted(f) \in Frame
                         /\ \/ Interrupted(f) = f
                            \/ /\ Interrupted(f).step = "done"
                               /\ Interrupted(f).trade = f.trade
                               /\ Interrupted(f).chain = f.chain
    BY CallSteps DEF Interrupted, Frame
  <2> QED
    BY <2>1, <2>2
<1>4. TypeOK'
  BY <1>1, <1>2, <1>3, MaxFaultsAssumption DEF TypeOK
<1>5. CallInv'
  BY <1>1, <1>3 DEF CallInv, CallOK, CallAt, HasExecutionPlan, Exists
<1>6. PrepareInv'
  BY <1>1, <1>2 DEF PrepareInv, PrepareAt, Exists
<1>7. FaultFreeInv'
  BY <1>1 DEF FaultFreeInv, TypeOK
<1>8. AnnouncedWasWritten'
  BY <1>1 DEF AnnouncedWasWritten
<1> QED
  BY <1>4, <1>5, <1>6, <1>7, <1>8

LEMMA StutteringStep ==
  ASSUME IInv, UNCHANGED vars
  PROVE  IInv'
<1> USE DEF IInv, vars
<1>1. TypeOK' /\ AnnouncedWasWritten'
  BY DEF TypeOK, AnnouncedWasWritten
<1>2. CallInv'
  BY DEF CallInv, CallOK, CallAt, HasExecutionPlan, Exists
<1>3. PrepareInv' /\ FaultFreeInv'
  BY DEF PrepareInv, FaultFreeInv, PlanAnnounced, CallRecorded, PrepareAt, Exists
<1> QED
  BY <1>1, <1>2, <1>3

-----------------------------------------------------------------------------
(* Theorems *)

\* The invariant holds of every state the service can reach.
THEOREM Inductive == Spec => []IInv
<1>1. ASSUME IInv, [Next]_vars PROVE IInv'
  <2>1. ASSUME NEW t \in Trade, Prepare(t) PROVE IInv'
    BY <1>1, <2>1, CreateTradeStep, AnnounceIntentStep, CorePrepareTradeStep,
       AttachPlanStep, AnnouncePlanStep, MarkRejectedStep, AnnounceErrorStep
    DEF Prepare
  <2>2. ASSUME NEW c \in Call, Execution(c) PROVE IInv'
    BY <1>1, <2>2, ExecuteTradeStep, SendOrderStep, ExecutorReturnsStep,
       ExecutorThrowsStep, ConfirmTradeStep, MarkExecutionStep, AnnounceExecutionStep
    DEF Execution
  <2> QED
    BY <1>1, <2>1, <2>2, CrashStep, StutteringStep DEF Next
<1> QED
  BY Initially, <1>1, PTL DEF Spec

\* Every reachable state is well typed, and a call never holds two orders.
THEOREM TypeCorrect == Spec => []TypeOK
BY Inductive, PTL DEF IInv

\* An order always belongs to a trade that still has the plan it was sent for.
THEOREM OrderSafety == Spec => []OrderHasPlan
<1>1. IInv => OrderHasPlan
  BY DEF IInv, CallInv, CallOK, OrderHasPlan
<1> QED
  BY Inductive, <1>1, PTL

\* Events announce only what the table has had.
THEOREM FeedSafety == Spec => []AnnouncedWasWritten
BY Inductive, PTL DEF IInv

\* Without faults, an order whose call has ended shows in the trade's row.
THEOREM OrdersAreRecorded == Spec => []OrderIsRecorded
<1>1. IInv => OrderIsRecorded
  BY DEF IInv, FaultFreeInv, CallRecorded, OrderIsRecorded, CallAt
<1> QED
  BY Inductive, <1>1, PTL

-----------------------------------------------------------------------------
(* A plan that was announced, with faults: a trade told to be ready is never   *)
(* rejected, because only the handler that announces could reject it.          *)

\* The handler of t is done once it announced the plan, and a plan it announced
\* or is about to announce was not rejected.
ReadyOK(t) ==
  /\ "trade.plan.ready" \in Range(feed[t]) => PrepareAt(t, "done")
  /\ "trade.plan.ready" \in Range(feed[t]) \/ PrepareAt(t, "planned") =>
       "REJECTED" \notin Range(written[t])
ReadyInv == \A t \in Trade : ReadyOK(t)

\* A handler's step of another trade, or of none, keeps what t has.
LEMMA ReadyKept ==
  ASSUME NEW t \in Trade, ReadyOK(t), prepare'[t].step = prepare[t].step,
         UNCHANGED <<written[t], feed[t]>>
  PROVE  ReadyOK(t)'
BY DEF ReadyOK, PrepareAt

\* The prepare handler writes: it was not at "planned" and had not announced.
LEMMA PrepareWritesReady ==
  ASSUME IInv, ReadyInv, NEW t \in Trade,
         createTrade(t) \/ attachPlan(t) \/ markRejected(t)
  PROVE  ReadyInv'
<1> USE DEF IInv
<1> DEFINE pending == [status |-> "PENDING", plan |-> NoPlan]
           ready == [status |-> "READY", plan |-> prepare[t].chain]
           rejected == [row[t] EXCEPT !.status = "REJECTED"]
<1>1. prepare \in [Trade -> [step : PrepareStep, chain : Chain \cup {NoPlan}]]
  BY DEF TypeOK
<1>2. /\ PrepareAt(t, "new") => "REJECTED" \notin Range(written[t])
      /\ PrepareAt(t, "attaching") => "REJECTED" \notin Range(written[t])
      /\ PrepareAt(t, "rejecting") => row[t] \in RealtimeTrade
  BY DEF PrepareInv, PrepareAt, TypeOK, Exists
<1>3. /\ prepare[t].step \in {"new", "attaching", "rejecting"}
      /\ UNCHANGED feed
  BY DEF createTrade, attachPlan, markRejected, PrepareAt
<1>4. PICK r \in RealtimeTrade, step \in {"received", "planned", "rejecting", "rejected",
                                           "done"} :
        /\ Store(t, r) \/ UNCHANGED <<row, written>>
        /\ PrepareGoes(t, step)
        /\ step = "planned" =>
             "REJECTED" \notin Range(written[t]) /\ r.status # "REJECTED"
  <2>1. CASE createTrade(t)
    <3>1. pending \in RealtimeTrade
      BY DEF RealtimeTrade, RealtimeTradeStatus
    <3> QED
      BY <2>1, <3>1 DEF createTrade, Acknowledged, Throws
  <2>2. CASE attachPlan(t)
    <3>1. ready \in RealtimeTrade /\ ready.status = "READY"
      BY <1>1 DEF RealtimeTrade, RealtimeTradeStatus
    <3>2. \/ Store(t, ready) /\ PrepareGoes(t, "planned")
          \/ (Store(t, ready) \/ UNCHANGED <<row, written>>) /\ PrepareGoes(t, "rejecting")
      BY <2>2 DEF attachPlan, Acknowledged, Throws
    <3>3. "REJECTED" \notin Range(written[t])
      BY <1>2, <2>2 DEF attachPlan
    <3> HIDE DEF ready
    <3> QED
      BY <3>1, <3>2, <3>3
  <2>3. CASE markRejected(t)
    <3>1. rejected \in RealtimeTrade
      BY <1>2, <2>3 DEF markRejected, RealtimeTrade, RealtimeTradeStatus
    <3>2. \/ Store(t, rejected) /\ PrepareGoes(t, "rejected")
          \/ (Store(t, rejected) \/ UNCHANGED <<row, written>>) /\ PrepareGoes(t, "done")
      BY <2>3 DEF markRejected, Acknowledged, Throws
    <3> HIDE DEF rejected
    <3> QED
      BY <3>1, <3>2
  <2> QED
    BY <2>1, <2>2, <2>3
<1>5. /\ \A u \in Trade \ {t} : written'[u] = written[u] /\ prepare'[u] = prepare[u]
      /\ Range(written'[t]) \subseteq Range(written[t]) \cup {r.status}
      /\ prepare'[t].step = step
  BY <1>4, WriteEffect, PrepareEffect, PrepareSteps
<1>6. ReadyOK(t)'
  BY <1>3, <1>4, <1>5 DEF ReadyInv, ReadyOK, PrepareAt
<1>7. \A u \in Trade \ {t} : ReadyOK(u)'
  BY <1>3, <1>5, ReadyKept DEF ReadyInv
<1> QED
  BY <1>6, <1>7 DEF ReadyInv

\* The other steps of the prepare handler write nothing.
LEMMA PrepareReady ==
  ASSUME IInv, ReadyInv, NEW t \in Trade, Prepare(t)
  PROVE  ReadyInv'
<1> USE DEF IInv
<1>1. prepare \in [Trade -> [step : PrepareStep, chain : Chain \cup {NoPlan}]]
  BY DEF TypeOK
<1>2. CASE createTrade(t) \/ attachPlan(t) \/ markRejected(t)
  BY <1>2, PrepareWritesReady
<1>3. CASE announceIntent(t) \/ announcePlan(t) \/ announceError(t)
  <2>1. PICK p \in {<<"received", "PENDING", "planning">>, <<"planned", "READY", "done">>,
                    <<"rejected", "REJECTED", "done">>} :
          /\ prepare[t].step = p[1] /\ emit(t, p[2]) /\ PrepareGoes(t, p[3])
          /\ UNCHANGED written
    BY <1>3 DEF announceIntent, announcePlan, announceError, PrepareAt
  <2>2. prepare'[t].step = p[3] /\ \A u \in Trade \ {t} : prepare'[u] = prepare[u]
    BY <2>1, PrepareEffect, PrepareSteps
  <2>3. /\ Range(feed'[t]) = Range(feed[t]) \cup {EventType[p[2]]}
        /\ \A u \in Trade \ {t} : feed'[u] = feed[u]
    <3>1. p[2] \in RealtimeTradeStatus
      BY DEF RealtimeTradeStatus
    <3> QED
      BY <2>1, <3>1, EmitEffect
  <2>4. EventType[p[2]] = "trade.plan.ready" => p[1] = "planned" /\ p[3] = "done"
    BY DEF EventType
  <2>5. ReadyOK(t)'
    BY <2>1, <2>2, <2>3, <2>4 DEF ReadyInv, ReadyOK, PrepareAt
  <2>6. \A u \in Trade \ {t} : ReadyOK(u)'
    BY <2>1, <2>2, <2>3, ReadyKept DEF ReadyInv
  <2> QED
    BY <2>5, <2>6 DEF ReadyInv
<1>4. CASE corePrepareTrade(t)
  <2>1. /\ prepare[t].step = "planning" /\ prepare'[t].step \in {"attaching", "rejecting"}
        /\ \A u \in Trade \ {t} : prepare'[u] = prepare[u]
        /\ UNCHANGED <<written, feed>>
    BY <1>1, <1>4, PrepareSteps DEF corePrepareTrade, PrepareAt, PrepareGoes
  <2>2. ReadyOK(t)'
    BY <2>1 DEF ReadyInv, ReadyOK, PrepareAt
  <2>3. \A u \in Trade \ {t} : ReadyOK(u)'
    BY <2>1, ReadyKept DEF ReadyInv
  <2> QED
    BY <2>2, <2>3 DEF ReadyInv
<1> QED
  BY <1>2, <1>3, <1>4 DEF Prepare

\* A call writes and announces only statuses of an execution.
LEMMA ExecutionReady ==
  ASSUME IInv, ReadyInv, NEW c \in Call, Execution(c)
  PROVE  ReadyInv'
<1> USE DEF IInv
<1> DEFINE t == call[c].trade
           r == [row[t] EXCEPT !.status = call[c].status]
<1>1. call[c] \in Frame /\ UNCHANGED prepare
  BY DEF TypeOK, Execution, executeTrade, sendOrder, executorReturns, executorThrows,
         confirmTrade, markExecution, announceExecution
<1>2. call[c].status \in RealtimeTradeStatus /\ call[c].status # "REJECTED"
      /\ EventType[call[c].status] # "trade.plan.ready"
  BY <1>1 DEF Frame, ExecutionStatus, RealtimeTradeStatus, EventType
<1>3. CASE markExecution(c) /\ Exists(t)
  <2>1. t \in Trade
    BY <1>3 DEF markExecution, CallInv, CallOK
  <2>2. r \in RealtimeTrade /\ r.status = call[c].status
    <3>1. row[t] \in RealtimeTrade
      BY <1>3, <2>1 DEF TypeOK, Exists
    <3> QED
      BY <1>2, <3>1 DEF RealtimeTrade
  <2>3. (Store(t, r) \/ UNCHANGED <<row, written>>) /\ UNCHANGED feed
    BY <1>3 DEF markExecution, Acknowledged, Throws, Missing
  <2> HIDE DEF t, r
  <2>4. /\ \A u \in Trade \ {t} : written'[u] = written[u]
        /\ Range(written'[t]) \subseteq Range(written[t]) \cup {r.status}
    BY <2>1, <2>2, <2>3, WriteEffect
  <2> QED
    BY <1>1, <1>2, <2>2, <2>3, <2>4 DEF ReadyInv, ReadyOK, PrepareAt
<1>4. CASE announceExecution(c)
  <2>1. t \in Trade /\ emit(t, call[c].status) /\ UNCHANGED written
    BY <1>4 DEF announceExecution, CallInv, CallOK
  <2> HIDE DEF t
  <2>2. /\ Range(feed'[t]) = Range(feed[t]) \cup {EventType[call[c].status]}
        /\ \A u \in Trade \ {t} : feed'[u] = feed[u]
    BY <1>2, <2>1, EmitEffect
  <2> QED
    BY <1>1, <1>2, <2>1, <2>2 DEF ReadyInv, ReadyOK, PrepareAt
<1>5. CASE UNCHANGED <<prepare, written, feed>>
  BY <1>5 DEF ReadyInv, ReadyOK, PrepareAt
<1> QED
  BY <1>1, <1>3, <1>4, <1>5
  DEF Execution, executeTrade, sendOrder, executorReturns, executorThrows, confirmTrade,
      markExecution, Missing

LEMMA ReadyInductive == Spec => []ReadyInv
<1>1. Init => ReadyInv
  BY DEF Init, ReadyInv, ReadyOK, PrepareAt, Range
<1>2. IInv /\ ReadyInv /\ [Next]_vars => ReadyInv'
  <2> SUFFICES ASSUME IInv, ReadyInv, [Next]_vars PROVE ReadyInv'
    OBVIOUS
  <2>1. CASE crash
    <3>1. prepare' = [t \in Trade |-> Interrupted(prepare[t])] /\ UNCHANGED <<written, feed>>
      BY <2>1 DEF crash
    <3>2. \A t \in Trade :
            prepare'[t].step = IF prepare[t].step = "new" THEN "new" ELSE "done"
      BY <3>1 DEF IInv, TypeOK, Interrupted
    <3> QED
      BY <3>1, <3>2 DEF ReadyInv, ReadyOK, PrepareAt
  <2>2. CASE UNCHANGED vars
    BY <2>2 DEF vars, ReadyInv, ReadyOK, PrepareAt
  <2> QED
    BY <2>1, <2>2, PrepareReady, ExecutionReady DEF Next
<1> QED
  BY Inductive, <1>1, <1>2, PTL DEF Spec

\* A trade that was rejected and yet has an order had a fault, and its plan was
\* never announced, whatever the interleaving.
THEOREM RejectedIsFinal == Spec => []RejectedNeverOrdered
<1>1. IInv /\ ReadyInv => RejectedNeverOrdered
  <2> SUFFICES ASSUME IInv, ReadyInv, NEW c \in Call, orders[c] > 0,
                      "REJECTED" \in Range(written[call[c].trade])
               PROVE  /\ faults > 0
                      /\ "trade.plan.ready" \notin Range(feed[call[c].trade])
    BY DEF RejectedNeverOrdered
  <2>1. call[c].trade \in Trade /\ HasExecutionPlan(call[c].trade, call[c].chain)
        /\ call[c].chain # NoPlan
    BY DEF IInv, CallInv, CallOK
  <2>2. faults # 0
    BY <2>1 DEF IInv, FaultFreeInv, PlanAnnounced, HasExecutionPlan
  <2>3. faults \in Nat
    BY MaxFaultsAssumption DEF IInv, TypeOK
  <2> QED
    BY <2>1, <2>2, <2>3 DEF ReadyInv, ReadyOK
<1> QED
  BY Inductive, ReadyInductive, <1>1, PTL

-----------------------------------------------------------------------------
(* The feed against the table: a second invariant, proved inductive relative to *)
(* IInv.  It counts, so the calls that still owe an event are counted too, and  *)
(* only finitely many do although Call may be infinite.                        *)

Announcing(t, s) ==
  {c \in Call : CallAt(c, "announcing") /\ call[c].trade = t /\ call[c].status = s}

\* The status the prepare handler of t has written and not announced.
Due(t, s) ==
  \/ PrepareAt(t, "received") /\ s = "PENDING"
  \/ PrepareAt(t, "planned") /\ s = "READY"
  \/ PrepareAt(t, "rejected") /\ s = "REJECTED"

\* Each status written was announced, or a handler is about to.
Accounted(t, s) ==
  /\ IsFiniteSet(Announcing(t, s))
  /\ Count(written[t], s) =
       Count(feed[t], EventType[s]) + Cardinality(Announcing(t, s))
         + (IF Due(t, s) THEN 1 ELSE 0)
CompleteInv ==
  faults = 0 => \A t \in Trade, s \in RealtimeTradeStatus : Accounted(t, s)

\* Counting the occurrences of a value in a sequence.
LEMMA CountType ==
  ASSUME NEW S, NEW q \in Seq(S), NEW x
  PROVE  /\ IsFiniteSet({i \in DOMAIN q : q[i] = x})
         /\ Count(q, x) \in Nat
<1>1. DOMAIN q = 1..Len(q) /\ Len(q) \in Nat
  OBVIOUS
<1>2. IsFiniteSet(1..Len(q))
  BY <1>1, FS_Interval
<1>3. {i \in DOMAIN q : q[i] = x} \in SUBSET (1..Len(q))
  BY <1>1
<1>4. IsFiniteSet({i \in DOMAIN q : q[i] = x})
  BY <1>2, <1>3, FS_Subset
<1> QED
  BY <1>4, FS_CardinalityType DEF Count

\* An appended value is one more occurrence of itself and of nothing else.
LEMMA CountAppend ==
  ASSUME NEW S, NEW q \in Seq(S), NEW e \in S, NEW x
  PROVE  Count(Append(q, e), x) = Count(q, x) + (IF e = x THEN 1 ELSE 0)
<1> DEFINE n == Len(q) + 1
           p == Append(q, e)
           A == {i \in DOMAIN q : q[i] = x}
           B == {i \in DOMAIN p : p[i] = x}
<1>1. /\ DOMAIN q = 1..Len(q) /\ Len(q) \in Nat
      /\ DOMAIN p = (DOMAIN q) \cup {n} /\ n \notin DOMAIN q
      /\ p[n] = e /\ \A i \in DOMAIN q : p[i] = q[i]
  OBVIOUS
<1>2. IsFiniteSet(A) /\ Count(q, x) \in Nat /\ Count(q, x) = Cardinality(A)
  BY CountType DEF Count
<1>3. Count(p, x) = Cardinality(B)
  BY DEF Count
<1> HIDE DEF n, p
<1>4. CASE e = x
  <2>1. B = A \cup {n} /\ n \notin A
    BY <1>1, <1>4
  <2>2. Cardinality(B) = Cardinality(A) + 1
    BY <1>2, <2>1, FS_AddElement
  <2> QED
    BY <1>2, <1>3, <1>4, <2>2 DEF p
<1>5. CASE e # x
  <2>1. Cardinality(B) = Cardinality(A)
    <3>1. B = A
      BY <1>1, <1>5
    <3> QED
      BY <3>1
  <2> HIDE DEF A, B
  <2> QED
    BY <1>2, <1>3, <1>5, <2>1 DEF p
<1> QED
  BY <1>4, <1>5

\* Different statuses are announced by different events.
LEMMA EventsDiffer ==
  \A r, s \in RealtimeTradeStatus : EventType[r] = EventType[s] => r = s
BY DEF EventType, RealtimeTradeStatus

\* What a write and an emit add to the counts.
LEMMA StoreCount ==
  ASSUME TypeOK, NEW t \in Trade, NEW r \in RealtimeTrade, Store(t, r)
  PROVE  /\ \A s : Count(written'[t], s) =
                     Count(written[t], s) + (IF r.status = s THEN 1 ELSE 0)
         /\ \A u \in Trade \ {t} : written'[u] = written[u]
<1>1. written[t] \in Seq(RealtimeTradeStatus) /\ r.status \in RealtimeTradeStatus
  BY DEF TypeOK, RealtimeTrade
<1>2. written'[t] = Append(written[t], r.status)
  BY DEF Store, TypeOK
<1>3. \A u \in Trade \ {t} : written'[u] = written[u]
  BY DEF Store, TypeOK
<1> QED
  BY <1>1, <1>2, <1>3, CountAppend

LEMMA EmitCount ==
  ASSUME TypeOK, NEW t \in Trade, NEW r \in RealtimeTradeStatus, emit(t, r)
  PROVE  /\ \A s \in RealtimeTradeStatus :
              Count(feed'[t], EventType[s]) =
                Count(feed[t], EventType[s]) + (IF r = s THEN 1 ELSE 0)
         /\ \A u \in Trade \ {t} : feed'[u] = feed[u]
<1>1. feed[t] \in Seq(Range(EventType)) /\ EventType[r] \in Range(EventType)
  BY EventTypes DEF TypeOK
<1>2. feed'[t] = Append(feed[t], EventType[r])
  BY DEF emit, TypeOK
<1>3. \A u \in Trade \ {t} : feed'[u] = feed[u]
  BY DEF emit, TypeOK
<1>4. \A x : Count(feed'[t], x) =
               Count(feed[t], x) + (IF EventType[r] = x THEN 1 ELSE 0)
  BY <1>1, <1>2, CountAppend
<1> QED
  BY <1>3, <1>4, EventsDiffer

\* The counts are numbers, and those of Announcing too where it is finite.
LEMMA CountsAreNat ==
  ASSUME TypeOK, NEW t \in Trade, NEW s
  PROVE  /\ Count(written[t], s) \in Nat
         /\ Count(feed[t], EventType[s]) \in Nat
         /\ IsFiniteSet(Announcing(t, s)) => Cardinality(Announcing(t, s)) \in Nat
<1>1. written[t] \in Seq(RealtimeTradeStatus) /\ feed[t] \in Seq(Range(EventType))
  BY DEF TypeOK
<1> QED
  BY <1>1, CountType, FS_CardinalityType

\* A trade that nothing of Accounted changed is accounted for as before.
LEMMA AccountKept ==
  ASSUME NEW t, NEW s, Accounted(t, s), written'[t] = written[t], feed'[t] = feed[t],
         Announcing(t, s)' = Announcing(t, s), Due(t, s)' <=> Due(t, s)
  PROVE  Accounted(t, s)'
BY DEF Accounted

\* Calls that do not start or stop to owe an event.
LEMMA AnnouncingKept ==
  ASSUME NEW c \in Call, \A d \in Call \ {c} : call'[d] = call[d],
         call[c].step # "announcing", call'[c].step # "announcing"
  PROVE  \A t, s : Announcing(t, s)' = Announcing(t, s)
BY DEF Announcing, CallAt

-----------------------------------------------------------------------------
(* CompleteInv is inductive *)

LEMMA CompleteStart == Init => CompleteInv
<1> SUFFICES ASSUME Init, NEW t \in Trade, NEW s \in RealtimeTradeStatus
             PROVE  Accounted(t, s)
  BY DEF CompleteInv
<1>1. Announcing(t, s) = {} /\ ~Due(t, s)
  BY DEF Init, Announcing, CallAt, Due, PrepareAt
<1>2. written[t] = << >> /\ feed[t] = << >>
  BY DEF Init
<1>3. \A x : {i \in DOMAIN << >> : << >>[i] = x} = {}
  OBVIOUS
<1>4. Count(written[t], s) = 0 /\ Count(feed[t], EventType[s]) = 0
  BY <1>2, <1>3, FS_EmptySet DEF Count
<1> QED
  BY <1>1, <1>4, FS_EmptySet DEF Accounted

\* The prepare handler writes a status that it then owes.
LEMMA PrepareWrites ==
  ASSUME IInv, CompleteInv, faults = 0, NEW t \in Trade, NEW r \in RealtimeTrade,
         Store(t, r), UNCHANGED <<call, feed>>,
         \A u \in Trade \ {t} : prepare'[u] = prepare[u],
         \A s : ~Due(t, s), \A s : Due(t, s)' <=> s = r.status
  PROVE  CompleteInv'
<1> SUFFICES ASSUME NEW u \in Trade, NEW s \in RealtimeTradeStatus
             PROVE  Accounted(u, s)'
  BY DEF CompleteInv
<1>1. Accounted(u, s)
  BY DEF CompleteInv
<1>2. Announcing(u, s)' = Announcing(u, s)
  BY DEF Announcing, CallAt
<1>3. CASE u = t
  <2>1. Count(written'[t], s) = Count(written[t], s) + (IF r.status = s THEN 1 ELSE 0)
    BY StoreCount DEF IInv
  <2> QED
    BY <1>1, <1>2, <1>3, <2>1, CountsAreNat DEF Accounted, IInv
<1>4. CASE u # t
  <2>1. written'[u] = written[u]
    BY <1>4, StoreCount DEF IInv
  <2>2. Due(u, s)' <=> Due(u, s)
    BY <1>4 DEF Due, PrepareAt
  <2> QED
    BY <1>1, <1>2, <2>1, <2>2, AccountKept
<1> QED
  BY <1>3, <1>4

\* The prepare handler announces the status it owes.
LEMMA PrepareAnnounces ==
  ASSUME IInv, CompleteInv, faults = 0, NEW t \in Trade, NEW r \in RealtimeTradeStatus,
         emit(t, r), UNCHANGED <<call, written>>,
         \A u \in Trade \ {t} : prepare'[u] = prepare[u],
         \A s : Due(t, s) <=> s = r, \A s : ~Due(t, s)'
  PROVE  CompleteInv'
<1> SUFFICES ASSUME NEW u \in Trade, NEW s \in RealtimeTradeStatus
             PROVE  Accounted(u, s)'
  BY DEF CompleteInv
<1>1. Accounted(u, s)
  BY DEF CompleteInv
<1>2. Announcing(u, s)' = Announcing(u, s)
  BY DEF Announcing, CallAt
<1>3. CASE u = t
  <2>1. Count(feed'[t], EventType[s]) =
          Count(feed[t], EventType[s]) + (IF r = s THEN 1 ELSE 0)
    BY EmitCount DEF IInv
  <2> QED
    BY <1>1, <1>2, <1>3, <2>1, CountsAreNat DEF Accounted, IInv
<1>4. CASE u # t
  <2>1. feed'[u] = feed[u]
    BY <1>4, EmitCount DEF IInv
  <2>2. Due(u, s)' <=> Due(u, s)
    BY <1>4 DEF Due, PrepareAt
  <2> QED
    BY <1>1, <1>2, <2>1, <2>2, AccountKept
<1> QED
  BY <1>3, <1>4

LEMMA PrepareCompletes ==
  ASSUME IInv, CompleteInv, NEW t \in Trade, Prepare(t), faults' = 0
  PROVE  CompleteInv'
<1> USE DEF IInv
<1>1. faults \in Nat /\ prepare \in [Trade -> [step : PrepareStep, chain : Chain \cup {NoPlan}]]
  BY MaxFaultsAssumption DEF TypeOK
<1>2. CASE createTrade(t)
  <2> DEFINE r == [status |-> "PENDING", plan |-> NoPlan]
  <2>1. Store(t, r) /\ faults = 0 /\ PrepareGoes(t, "received")
        /\ UNCHANGED <<call, feed>> /\ prepare[t].step = "new"
    BY <1>1, <1>2 DEF createTrade, Acknowledged, Throws, PrepareAt
  <2>2. r \in RealtimeTrade /\ r.status = "PENDING"
    BY DEF RealtimeTrade, RealtimeTradeStatus
  <2> HIDE DEF r
  <2>3. prepare'[t].step = "received" /\ \A u \in Trade \ {t} : prepare'[u] = prepare[u]
    BY <2>1, PrepareEffect, PrepareSteps
  <2>4. (\A s : ~Due(t, s)) /\ (\A s : Due(t, s)' <=> s = r.status)
    BY <2>1, <2>2, <2>3 DEF Due, PrepareAt
  <2> QED
    BY <2>1, <2>2, <2>3, <2>4, PrepareWrites
<1>3. CASE attachPlan(t)
  <2> DEFINE r == [status |-> "READY", plan |-> prepare[t].chain]
  <2>1. Store(t, r) /\ faults = 0 /\ PrepareGoes(t, "planned")
        /\ UNCHANGED <<call, feed>> /\ prepare[t].step = "attaching"
    BY <1>1, <1>3 DEF attachPlan, Acknowledged, Throws, PrepareAt
  <2>2. r \in RealtimeTrade /\ r.status = "READY"
    BY <1>1 DEF RealtimeTrade, RealtimeTradeStatus
  <2> HIDE DEF r
  <2>3. prepare'[t].step = "planned" /\ \A u \in Trade \ {t} : prepare'[u] = prepare[u]
    BY <2>1, PrepareEffect, PrepareSteps
  <2>4. (\A s : ~Due(t, s)) /\ (\A s : Due(t, s)' <=> s = r.status)
    BY <2>1, <2>2, <2>3 DEF Due, PrepareAt
  <2> QED
    BY <2>1, <2>2, <2>3, <2>4, PrepareWrites
<1>4. CASE markRejected(t)
  <2> DEFINE r == [row[t] EXCEPT !.status = "REJECTED"]
  <2>1. Store(t, r) /\ faults = 0 /\ PrepareGoes(t, "rejected")
        /\ UNCHANGED <<call, feed>> /\ prepare[t].step = "rejecting"
    BY <1>1, <1>4 DEF markRejected, Acknowledged, Throws, PrepareAt
  <2>2. r \in RealtimeTrade /\ r.status = "REJECTED"
    <3>1. row[t] \in RealtimeTrade
      BY <2>1 DEF TypeOK, PrepareInv, Exists
    <3> QED
      BY <3>1 DEF RealtimeTrade, RealtimeTradeStatus
  <2> HIDE DEF r
  <2>3. prepare'[t].step = "rejected" /\ \A u \in Trade \ {t} : prepare'[u] = prepare[u]
    BY <2>1, PrepareEffect, PrepareSteps
  <2>4. (\A s : ~Due(t, s)) /\ (\A s : Due(t, s)' <=> s = r.status)
    BY <2>1, <2>2, <2>3 DEF Due, PrepareAt
  <2> QED
    BY <2>1, <2>2, <2>3, <2>4, PrepareWrites
<1>5. CASE announceIntent(t) \/ announcePlan(t) \/ announceError(t)
  <2>1. PICK p \in {<<"received", "PENDING", "planning">>, <<"planned", "READY", "done">>,
                    <<"rejected", "REJECTED", "done">>} :
          /\ prepare[t].step = p[1] /\ emit(t, p[2]) /\ PrepareGoes(t, p[3])
          /\ UNCHANGED <<call, written, faults>>
    BY <1>5 DEF announceIntent, announcePlan, announceError, PrepareAt
  <2>2. prepare'[t].step = p[3] /\ \A u \in Trade \ {t} : prepare'[u] = prepare[u]
    BY <2>1, PrepareEffect, PrepareSteps
  <2>3. p[2] \in RealtimeTradeStatus
    BY DEF RealtimeTradeStatus
  <2>4. (\A s : Due(t, s) <=> s = p[2]) /\ (\A s : ~Due(t, s)')
    BY <2>1, <2>2 DEF Due, PrepareAt
  <2>5. faults = 0
    BY <2>1
  <2> QED
    BY <2>1, <2>2, <2>3, <2>4, <2>5, PrepareAnnounces
<1>6. CASE corePrepareTrade(t)
  <2>1. /\ prepare[t].step = "planning" /\ prepare'[t].step \in {"attaching", "rejecting"}
        /\ \A u \in Trade \ {t} : prepare'[u] = prepare[u]
        /\ UNCHANGED <<call, written, feed, faults>>
    BY <1>1, <1>6, PrepareSteps DEF corePrepareTrade, PrepareAt, PrepareGoes
  <2>2. \A u \in Trade, s \in RealtimeTradeStatus :
          /\ Due(u, s)' <=> Due(u, s)
          /\ Announcing(u, s)' = Announcing(u, s)
    BY <2>1 DEF Due, PrepareAt, Announcing, CallAt
  <2> QED
    BY <2>1, <2>2, AccountKept DEF CompleteInv
<1> QED
  BY <1>2, <1>3, <1>4, <1>5, <1>6 DEF Prepare

\* A confirmation is written, and its call owes the event.
LEMMA MarkCompletes ==
  ASSUME IInv, CompleteInv, NEW c \in Call, markExecution(c), faults' = 0
  PROVE  CompleteInv'
<1> USE DEF IInv
<1> DEFINE t == call[c].trade
           r == [row[t] EXCEPT !.status = call[c].status]
<1>1. /\ t \in Trade /\ call[c] \in Frame /\ call[c].step = "confirming"
      /\ faults \in Nat /\ UNCHANGED <<prepare, feed>>
  BY MaxFaultsAssumption DEF markExecution, CallInv, CallOK, CallAt, TypeOK
<1>2. \A u, s : Due(u, s)' <=> Due(u, s)
  BY <1>1 DEF Due, PrepareAt
<1>3. CASE Missing(t) /\ CallGoes(c, "done")
  <2>1. call'[c].step = "done" /\ \A d \in Call \ {c} : call'[d] = call[d]
    BY <1>3, CallEffect, CallSteps
  <2>2. \A u, s : Announcing(u, s)' = Announcing(u, s)
    BY <1>1, <2>1, AnnouncingKept
  <2>3. UNCHANGED <<written, faults>>
    BY <1>3 DEF Missing
  <2> QED
    BY <1>1, <1>2, <2>2, <2>3, AccountKept DEF CompleteInv
<1>4. CASE Exists(t) /\ Acknowledged(t, r) /\ CallGoes(c, "announcing")
  <2>1. /\ call'[c].step = "announcing" /\ call'[c].trade = t
        /\ call'[c].status = call[c].status
        /\ \A d \in Call \ {c} : call'[d] = call[d]
    BY <1>4, CallEffect, CallSteps
  <2>2. r \in RealtimeTrade /\ r.status = call[c].status
    <3>1. row[t] \in RealtimeTrade
      BY <1>1, <1>4 DEF TypeOK, Exists
    <3> QED
      BY <1>1, <3>1 DEF RealtimeTrade, Frame, ExecutionStatus, RealtimeTradeStatus
  <2>3. Store(t, r) /\ faults = 0
    BY <1>4 DEF Acknowledged
  <2> HIDE DEF t, r
  <2>4. SUFFICES ASSUME NEW u \in Trade, NEW s \in RealtimeTradeStatus
                 PROVE  Accounted(u, s)'
    BY DEF CompleteInv
  <2>5. Accounted(u, s)
    BY <2>3 DEF CompleteInv
  <2>6. CASE u = t /\ s = r.status
    <3>1. Announcing(u, s)' = Announcing(u, s) \cup {c} /\ c \notin Announcing(u, s)
      BY <1>1, <2>1, <2>2, <2>6 DEF Announcing, CallAt
    <3>2. /\ IsFiniteSet(Announcing(u, s)')
          /\ Cardinality(Announcing(u, s)') = Cardinality(Announcing(u, s)) + 1
      BY <2>5, <3>1, FS_AddElement DEF Accounted
    <3>3. Count(written'[u], s) = Count(written[u], s) + 1
      BY <1>1, <2>2, <2>3, <2>6, StoreCount
    <3>4. feed'[u] = feed[u]
      BY <1>1
    <3> QED
      BY <1>2, <2>5, <3>2, <3>3, <3>4, CountsAreNat DEF Accounted
  <2>7. CASE ~(u = t /\ s = r.status)
    <3>1. Announcing(u, s)' = Announcing(u, s)
      BY <1>1, <2>1, <2>2, <2>7 DEF Announcing, CallAt, t
    <3>2. Count(written'[u], s) = Count(written[u], s)
      <4>1. CASE u = t
        <5>1. Count(written'[t], s) =
                Count(written[t], s) + (IF r.status = s THEN 1 ELSE 0)
          BY <1>1, <2>2, <2>3, StoreCount
        <5>2. Count(written[t], s) \in Nat
          BY <1>1, CountsAreNat
        <5> QED
          BY <2>7, <4>1, <5>1, <5>2
      <4>2. CASE u # t
        BY <1>1, <2>2, <2>3, <4>2, StoreCount
      <4> QED
        BY <4>1, <4>2
    <3>3. feed'[u] = feed[u]
      BY <1>1
    <3> QED
      BY <1>2, <2>5, <3>1, <3>2, <3>3 DEF Accounted
  <2> QED
    BY <2>6, <2>7
<1> QED
  BY <1>1, <1>3, <1>4 DEF markExecution, Throws

\* The event of a confirmation is emitted, and its call owes none.
LEMMA AnnounceCompletes ==
  ASSUME IInv, CompleteInv, NEW c \in Call, announceExecution(c), faults' = 0
  PROVE  CompleteInv'
<1> USE DEF IInv
<1> DEFINE t == call[c].trade
           r == call[c].status
<1>1. /\ t \in Trade /\ call[c] \in Frame /\ call[c].step = "announcing"
      /\ emit(t, r) /\ CallGoes(c, "done")
      /\ UNCHANGED <<prepare, written>> /\ faults = 0
  BY DEF announceExecution, CallInv, CallOK, CallAt, TypeOK
<1>2. r \in RealtimeTradeStatus
  BY <1>1 DEF Frame, ExecutionStatus, RealtimeTradeStatus
<1>3. call'[c].step = "done" /\ \A d \in Call \ {c} : call'[d] = call[d]
  BY <1>1, CallEffect, CallSteps
<1>4. \A u, s : Due(u, s)' <=> Due(u, s)
  BY <1>1 DEF Due, PrepareAt
<1>5. SUFFICES ASSUME NEW u \in Trade, NEW s \in RealtimeTradeStatus
               PROVE  Accounted(u, s)'
  BY DEF CompleteInv
<1>6. Accounted(u, s)
  BY <1>1 DEF CompleteInv
<1>7. CASE u = t /\ s = r
  <2>1. Announcing(u, s)' = Announcing(u, s) \ {c} /\ c \in Announcing(u, s)
    BY <1>1, <1>3, <1>7 DEF Announcing, CallAt
  <2>2. /\ IsFiniteSet(Announcing(u, s)')
        /\ Cardinality(Announcing(u, s)') = Cardinality(Announcing(u, s)) - 1
    BY <1>6, <2>1, FS_RemoveElement DEF Accounted
  <2> HIDE DEF t, r
  <2>3. Count(feed'[u], EventType[s]) = Count(feed[u], EventType[s]) + 1
    BY <1>1, <1>2, <1>7, EmitCount
  <2>4. written'[u] = written[u]
    BY <1>1
  <2> QED
    BY <1>4, <1>6, <2>2, <2>3, <2>4, CountsAreNat DEF Accounted
<1>8. CASE ~(u = t /\ s = r)
  <2>1. Announcing(u, s)' = Announcing(u, s)
    BY <1>1, <1>3, <1>8 DEF Announcing, CallAt
  <2> HIDE DEF t, r
  <2>2. Count(feed'[u], EventType[s]) = Count(feed[u], EventType[s])
    <3>1. CASE u = t
      BY <1>1, <1>2, <1>8, <3>1, EmitCount, CountsAreNat
    <3>2. CASE u # t
      BY <1>1, <1>2, <3>2, EmitCount
    <3> QED
      BY <3>1, <3>2
  <2>3. written'[u] = written[u]
    BY <1>1
  <2> QED
    BY <1>4, <1>6, <2>1, <2>2, <2>3 DEF Accounted
<1> QED
  BY <1>7, <1>8

\* The other steps of a call write nothing and owe nothing.
LEMMA FrameCompletes ==
  ASSUME IInv, CompleteInv, NEW c \in Call, faults' = 0,
         \/ \E t \in Trade, chain \in Chain : executeTrade(c, t, chain)
         \/ sendOrder(c) \/ executorReturns(c) \/ executorThrows(c)
         \/ \E t \in Trade, status \in ExecutionStatus : confirmTrade(c, t, status)
  PROVE  CompleteInv'
<1>1. UNCHANGED <<prepare, written, feed, faults>>
  BY DEF executeTrade, sendOrder, executorReturns, executorThrows, confirmTrade
<1>2. call \in [Call -> Frame]
  BY DEF IInv, TypeOK
<1>3. call[c].step \in {"new", "executing", "sent"}
  BY DEF executeTrade, sendOrder, executorReturns, executorThrows, confirmTrade, CallAt
<1>4. PICK f : call' = [call EXCEPT ![c] = f] /\ f.step # "announcing"
  <2>1. ASSUME NEW t \in Trade, NEW chain \in Chain, executeTrade(c, t, chain)
        PROVE  \E f : call' = [call EXCEPT ![c] = f] /\ f.step # "announcing"
    <3> DEFINE f == [call[c] EXCEPT !.step = "executing", !.trade = t, !.chain = chain]
               g == [call[c] EXCEPT !.step = "done"]
    <3>1. f.step = "executing" /\ g.step = "done"
      BY <1>2 DEF Frame
    <3>2. call' = [call EXCEPT ![c] = f] \/ call' = [call EXCEPT ![c] = g]
      BY <2>1 DEF executeTrade, CallGoes
    <3> HIDE DEF f, g
    <3> QED
      BY <3>1, <3>2
  <2>2. ASSUME sendOrder(c) \/ executorThrows(c)
        PROVE  \E f : call' = [call EXCEPT ![c] = f] /\ f.step # "announcing"
    <3> DEFINE f == [call[c] EXCEPT !.step = "sent"]
               g == [call[c] EXCEPT !.step = "done"]
    <3>1. f.step = "sent" /\ g.step = "done"
      BY <1>2 DEF Frame
    <3>2. call' = [call EXCEPT ![c] = f] \/ call' = [call EXCEPT ![c] = g]
      BY <2>2 DEF sendOrder, executorThrows, CallGoes
    <3> HIDE DEF f, g
    <3> QED
      BY <3>1, <3>2
  <2>3. ASSUME executorReturns(c)
        PROVE  \E f : call' = [call EXCEPT ![c] = f] /\ f.step # "announcing"
    <3>1. PICK status \in {"SUBMITTED", "FAILED"} :
            call' = [call EXCEPT ![c] = [call[c] EXCEPT !.step = "confirming",
                                                        !.status = status]]
      BY <2>3 DEF executorReturns
    <3> DEFINE f == [call[c] EXCEPT !.step = "confirming", !.status = status]
    <3>2. f.step = "confirming"
      BY <1>2 DEF Frame
    <3> HIDE DEF f
    <3> QED
      BY <3>1, <3>2 DEF f
  <2>4. ASSUME NEW t \in Trade, NEW status \in ExecutionStatus, confirmTrade(c, t, status)
        PROVE  \E f : call' = [call EXCEPT ![c] = f] /\ f.step # "announcing"
    <3> DEFINE f == [call[c] EXCEPT !.step = "confirming", !.trade = t, !.status = status]
    <3>1. f.step = "confirming"
      BY <1>2 DEF Frame
    <3>2. call' = [call EXCEPT ![c] = f]
      BY <2>4 DEF confirmTrade
    <3> HIDE DEF f
    <3> QED
      BY <3>1, <3>2
  <2> QED
    BY <2>1, <2>2, <2>3, <2>4
<1>5. call'[c] = f /\ \A d \in Call \ {c} : call'[d] = call[d]
  BY <1>2, <1>4
<1>6. \A u, s : Announcing(u, s)' = Announcing(u, s)
  BY <1>3, <1>4, <1>5, AnnouncingKept
<1>7. \A u, s : Due(u, s)' <=> Due(u, s)
  BY <1>1 DEF Due, PrepareAt
<1> QED
  BY <1>1, <1>6, <1>7, AccountKept DEF CompleteInv

LEMMA CompleteNext == IInv /\ CompleteInv /\ [Next]_vars => CompleteInv'
<1> SUFFICES ASSUME IInv, CompleteInv, [Next]_vars, faults' = 0 PROVE CompleteInv'
  BY DEF CompleteInv
<1>1. ASSUME NEW t \in Trade, Prepare(t) PROVE CompleteInv'
  BY <1>1, PrepareCompletes
<1>2. ASSUME NEW c \in Call, Execution(c) PROVE CompleteInv'
  BY <1>2, FrameCompletes, MarkCompletes, AnnounceCompletes DEF Execution
<1>3. CASE crash
  BY <1>3, MaxFaultsAssumption DEF crash, IInv, TypeOK
<1>4. CASE UNCHANGED vars
  BY <1>4 DEF vars, CompleteInv, Accounted, Announcing, CallAt, Due, PrepareAt
<1> QED
  BY <1>1, <1>2, <1>3, <1>4 DEF Next

LEMMA CompleteInductive == Spec => []CompleteInv
BY Inductive, CompleteStart, CompleteNext, PTL DEF Spec

\* When a trade's handlers have ended and nothing failed, its feed holds one
\* event for each status its row went through, however many confirmations of it
\* ran at the same time: no announcement is lost and none is repeated.
THEOREM FeedCompleteness == Spec => []FeedIsComplete
<1>1. IInv /\ CompleteInv => FeedIsComplete
  <2> SUFFICES ASSUME IInv, CompleteInv, NEW t \in Trade, faults = 0, Quiet(t),
                      NEW s \in RealtimeTradeStatus
               PROVE  Count(feed[t], EventType[s]) = Count(written[t], s)
    BY DEF FeedIsComplete
  <2>1. Accounted(t, s)
    BY DEF CompleteInv
  <2>2. Announcing(t, s) = {} /\ ~Due(t, s)
    BY DEF Quiet, Announcing, CallAt, Due, PrepareAt
  <2>3. Cardinality(Announcing(t, s)) = 0
    BY <2>2, FS_EmptySet
  <2> QED
    BY <2>1, <2>2, <2>3, CountsAreNat DEF Accounted, IInv
<1> QED
  BY <1>1, Inductive, CompleteInductive, PTL

-----------------------------------------------------------------------------
(* Refinement of ExplicitExecution *)

\* The plan ExplicitExecution sees moves only when a plan is attached.
LEMMA PlanBarStep ==
  ASSUME IInv, NEW t \in Trade, NEW r \in RealtimeTrade,
         Store(t, r) \/ UNCHANGED <<row, written>>, r # NoRow
  PROVE  \/ planBar' = planBar
         \/ planBar' = [planBar EXCEPT ![t] = r.plan]
<1>1. row \in [Trade -> RealtimeTrade \cup {NoRow}]
  BY DEF IInv, TypeOK
<1>2. CASE row' = row
  BY <1>2 DEF planBar, Exists
<1>3. CASE row' = [row EXCEPT ![t] = r]
  BY <1>1, <1>3 DEF planBar, Exists
<1> QED
  BY <1>2, <1>3 DEF Store

LEMMA AttachRefines ==
  ASSUME IInv, NEW t \in Trade, attachPlan(t)
  PROVE  [Explicit!Next]_Explicit!vars
<1> DEFINE r == [status |-> "READY", plan |-> prepare[t].chain]
<1>1. /\ row[t].plan = NoPlan /\ Exists(t) /\ prepare[t].chain \in Chain
      /\ UNCHANGED <<call, orders>>
      /\ Store(t, r) \/ UNCHANGED <<row, written>>
  BY DEF attachPlan, IInv, PrepareInv, PrepareAt, Acknowledged, Throws
<1>2. r \in RealtimeTrade /\ r # NoRow /\ r.plan = prepare[t].chain
  BY <1>1, NoRowAssumption DEF RealtimeTrade, RealtimeTradeStatus
<1> HIDE DEF r
<1>3. requestBar' = requestBar /\ orders' = orders
  BY <1>1 DEF requestBar
<1>4. planBar[t] = NoPlan
  BY <1>1 DEF planBar
<1>5. CASE planBar' = planBar
  BY <1>3, <1>5 DEF Explicit!vars
<1>6. CASE planBar' = [planBar EXCEPT ![t] = prepare[t].chain]
  <2>1. Explicit!Planned(t, prepare[t].chain)
    BY <1>3, <1>4, <1>6 DEF Explicit!Planned
  <2> QED
    BY <1>1, <2>1 DEF Explicit!Next
<1> QED
  BY <1>1, <1>2, <1>5, <1>6, PlanBarStep

\* Every other step of prepareTrade is invisible.
LEMMA PrepareRefines ==
  ASSUME IInv, NEW t \in Trade, Prepare(t)
  PROVE  [Explicit!Next]_Explicit!vars
<1>1. CASE attachPlan(t)
  BY <1>1, AttachRefines
<1>2. CASE createTrade(t)
  <2> DEFINE r == [status |-> "PENDING", plan |-> NoPlan]
  <2>1. /\ ~Exists(t) /\ UNCHANGED <<call, orders>>
        /\ Store(t, r) \/ UNCHANGED <<row, written>>
    BY <1>2 DEF createTrade, IInv, PrepareInv, PrepareAt, Acknowledged, Throws
  <2>2. r \in RealtimeTrade /\ r # NoRow /\ r.plan = NoPlan
    BY NoRowAssumption DEF RealtimeTrade, RealtimeTradeStatus
  <2> HIDE DEF r
  <2>3. planBar[t] = NoPlan
    BY <2>1 DEF planBar
  <2>4. planBar' = planBar
    BY <2>1, <2>2, <2>3, PlanBarStep DEF planBar
  <2> QED
    BY <2>1, <2>4 DEF Explicit!vars, requestBar
<1>3. CASE markRejected(t)
  <2> DEFINE r == [row[t] EXCEPT !.status = "REJECTED"]
  <2>1. /\ Exists(t) /\ UNCHANGED <<call, orders>>
        /\ Store(t, r) \/ UNCHANGED <<row, written>>
    BY <1>3 DEF markRejected, IInv, PrepareInv, PrepareAt, Acknowledged, Throws
  <2>2. row[t] \in RealtimeTrade
    BY <2>1 DEF IInv, TypeOK, Exists
  <2>3. r \in RealtimeTrade /\ r # NoRow /\ r.plan = row[t].plan
    BY <2>2, NoRowAssumption DEF RealtimeTrade, RealtimeTradeStatus
  <2> HIDE DEF r
  <2>4. planBar[t] = row[t].plan
    BY <2>1 DEF planBar
  <2>5. planBar' = planBar
    BY <2>1, <2>3, <2>4, PlanBarStep DEF planBar
  <2> QED
    BY <2>1, <2>5 DEF Explicit!vars, requestBar
<1>4. CASE UNCHANGED <<row, call, orders>>
  BY <1>4 DEF Explicit!vars, planBar, requestBar, Exists
<1> QED
  BY <1>1, <1>2, <1>3, <1>4
  DEF Prepare, announceIntent, corePrepareTrade, announcePlan, announceError

\* executeTrade is Admitted when it finds the plan, sendOrder is Sent, and the
\* rest of a call is invisible.
LEMMA ExecutionRefines ==
  ASSUME IInv, NEW c \in Call, Execution(c)
  PROVE  [Explicit!Next]_Explicit!vars
<1>1. call \in [Call -> Frame] /\ CallOK(c)
  BY DEF IInv, TypeOK, CallInv
<1>2. ASSUME NEW t \in Trade, NEW chain \in Chain, executeTrade(c, t, chain),
             HasExecutionPlan(t, chain)
      PROVE  Explicit!Admitted(c, t)
  <2>1. /\ call[c].step = "new" /\ chain \in Executor
        /\ call' = [call EXCEPT ![c] = [call[c] EXCEPT !.step = "executing",
                                          !.trade = t, !.chain = chain]]
        /\ UNCHANGED <<row, orders>>
    BY <1>2 DEF executeTrade, CallAt
  <2>2. call[c].chain = NoPlan
    BY <1>1, <2>1, TradeAssumption DEF CallOK, CallAt
  <2>3. planBar' = planBar /\ planBar[t] = chain /\ chain # NoPlan
    BY <1>2, <2>1, ChainAssumption DEF planBar, Exists, HasExecutionPlan
  <2>4. requestBar[c] = << >>
    BY <2>2 DEF requestBar
  <2>5. requestBar' = [requestBar EXCEPT ![c] = <<t, chain>>]
    <3>1. call'[c].trade = t /\ call'[c].chain = chain
      BY <1>1, <2>1 DEF Frame
    <3>2. \A d \in Call \ {c} : call'[d] = call[d]
      BY <1>1, <2>1
    <3> QED
      BY <2>3, <3>1, <3>2 DEF requestBar
  <2> QED
    BY <2>1, <2>3, <2>4, <2>5 DEF Explicit!Admitted
<1>3. CASE sendOrder(c)
  <2>1. /\ call[c].step = "executing" /\ CallGoes(c, "sent")
        /\ orders' = [orders EXCEPT ![c] = orders[c] + 1]
        /\ UNCHANGED row
    BY <1>3 DEF sendOrder, CallAt
  <2>2. orders[c] = 0 /\ call[c].chain # NoPlan /\ call[c].trade \in Trade
    BY <1>1, <2>1 DEF CallOK
  <2>3. \A d \in Call : call'[d].trade = call[d].trade /\ call'[d].chain = call[d].chain
    BY <2>1, CallEffect, CallSteps DEF IInv
  <2>4. requestBar' = requestBar /\ planBar' = planBar
    BY <2>1, <2>3 DEF requestBar, planBar, Exists
  <2>5. requestBar[c] # << >>
    BY <2>2 DEF requestBar
  <2>6. Explicit!Sent(c)
    BY <2>1, <2>2, <2>4, <2>5 DEF Explicit!Sent
  <2> QED
    BY <2>6 DEF Explicit!Next
<1>4. CASE UNCHANGED <<planBar, requestBar, orders>>
  BY <1>4 DEF Explicit!vars
<1>5. ASSUME UNCHANGED <<row, orders>>, NEW step \in CallStep, CallGoes(c, step)
      PROVE  UNCHANGED <<planBar, requestBar, orders>>
  <2>1. \A d \in Call : call'[d].trade = call[d].trade /\ call'[d].chain = call[d].chain
    BY <1>5, CallEffect DEF IInv
  <2> QED
    BY <1>5, <2>1 DEF planBar, requestBar, Exists
<1>6. CASE executorReturns(c)
  <2>1. PICK status \in {"SUBMITTED", "FAILED"} :
          call' = [call EXCEPT ![c] = [call[c] EXCEPT !.step = "confirming",
                                         !.status = status]]
    BY <1>6 DEF executorReturns
  <2>2. \A d \in Call : call'[d].trade = call[d].trade /\ call'[d].chain = call[d].chain
    BY <1>1, <2>1 DEF Frame
  <2> QED
    BY <1>4, <1>6, <2>2 DEF executorReturns, planBar, requestBar, Exists
<1>7. ASSUME NEW t \in Trade, NEW status \in ExecutionStatus, confirmTrade(c, t, status)
      PROVE  UNCHANGED <<planBar, requestBar, orders>>
  <2>1. /\ call[c].chain = NoPlan
        /\ call' = [call EXCEPT ![c] = [call[c] EXCEPT !.step = "confirming",
                                          !.trade = t, !.status = status]]
        /\ UNCHANGED <<row, orders>>
    BY <1>1, <1>7, TradeAssumption DEF confirmTrade, CallOK, CallAt
  <2>2. \A d \in Call : /\ call'[d].chain = call[d].chain
                        /\ call[d].chain # NoPlan => call'[d].trade = call[d].trade
    BY <1>1, <2>1 DEF Frame
  <2> QED
    BY <2>1, <2>2 DEF planBar, requestBar, Exists
<1>8. CASE markExecution(c)
  <2> DEFINE t == call[c].trade
             r == [row[t] EXCEPT !.status = call[c].status]
  <2>1. t \in Trade /\ call[c] \in Frame /\ UNCHANGED orders
    BY <1>1, <1>8 DEF CallOK, markExecution
  <2>2. \A d \in Call : call'[d].trade = call[d].trade /\ call'[d].chain = call[d].chain
    BY <1>8, CallEffect, CallSteps DEF markExecution, IInv
  <2>3. requestBar' = requestBar
    BY <2>2 DEF requestBar
  <2>4. CASE Missing(t)
    BY <1>4, <2>1, <2>3, <2>4 DEF Missing, planBar, Exists
  <2>5. CASE Exists(t) /\ (Store(t, r) \/ UNCHANGED <<row, written>>)
    <3>1. row[t] \in RealtimeTrade
      BY <2>1, <2>5 DEF IInv, TypeOK, Exists
    <3>2. r \in RealtimeTrade /\ r # NoRow /\ r.plan = row[t].plan
      BY <2>1, <3>1, NoRowAssumption
      DEF RealtimeTrade, RealtimeTradeStatus, Frame, ExecutionStatus
    <3> HIDE DEF r, t
    <3>3. planBar[t] = row[t].plan
      BY <2>1, <2>5 DEF planBar
    <3>4. planBar' = planBar
      BY <2>1, <2>5, <3>2, <3>3, PlanBarStep DEF planBar
    <3> QED
      BY <1>4, <2>1, <2>3, <3>4
  <2> QED
    BY <1>8, <2>4, <2>5 DEF markExecution, Acknowledged, Throws
<1>9. CASE executorThrows(c) \/ announceExecution(c)
  BY <1>4, <1>5, <1>9, CallSteps DEF executorThrows, announceExecution
<1>10. ASSUME NEW t \in Trade, NEW chain \in Chain, executeTrade(c, t, chain)
       PROVE  [Explicit!Next]_Explicit!vars
  <2>1. CASE HasExecutionPlan(t, chain)
    BY <1>2, <1>10, <2>1 DEF Explicit!Next
  <2>2. CASE ~HasExecutionPlan(t, chain)
    BY <1>4, <1>5, <1>10, <2>2, CallSteps DEF executeTrade
  <2> QED
    BY <2>1, <2>2
<1> QED
  BY <1>3, <1>4, <1>6, <1>7, <1>8, <1>9, <1>10 DEF Execution

\* However prepares, executions, confirmations, failing writes and crashes mix,
\* a trade gets one plan and a request one order, for the plan it found.
THEOREM RefinesExplicitExecution == Spec => ImplementsExplicitExecution
<1>1. Init => Explicit!Init
  BY DEF Init, Explicit!Init, planBar, requestBar, Exists
<1>2. ASSUME IInv, [Next]_vars PROVE [Explicit!Next]_Explicit!vars
  <2>1. CASE crash
    <3>1. UNCHANGED <<row, orders>> /\ call' = [c \in Call |-> Interrupted(call[c])]
      BY <2>1 DEF crash
    <3>2. \A c \in Call : call'[c].trade = call[c].trade /\ call'[c].chain = call[c].chain
      <4>1. \A f \in Frame : /\ Interrupted(f).trade = f.trade
                             /\ Interrupted(f).chain = f.chain
        BY DEF Interrupted, Frame
      <4> QED
        BY <1>2, <3>1, <4>1 DEF IInv, TypeOK
    <3> QED
      BY <3>1, <3>2 DEF Explicit!vars, planBar, requestBar, Exists
  <2>2. CASE UNCHANGED vars
    BY <2>2 DEF vars, Explicit!vars, planBar, requestBar, Exists
  <2> QED
    BY <1>2, <2>1, <2>2, PrepareRefines, ExecutionRefines DEF Next
<1> QED
  BY Inductive, <1>1, <1>2, PTL DEF Spec, Explicit!Spec, ImplementsExplicitExecution

=============================================================================
