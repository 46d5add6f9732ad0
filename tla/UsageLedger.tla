---------------------------- MODULE UsageLedger ----------------------------
(***************************************************************************)
(* UsageLedgerService and the two crawlers that pay for calls through it:  *)
(* DuneCrawlerService.executeSql and                                       *)
(* CoinmarketcapCrawlerService.tryFetchFromCoinmarketcap, with the ledger  *)
(* enabled and an API key configured.                                      *)
(*                                                                         *)
(* Redis holds a counter per provider and UTC day, PG the usage_event rows. *)
(* Callers may be in one process or in several: each await is a step, and  *)
(* the steps of different callers interleave.  Every call reserves, and    *)
(* uses, one unit, so a sum of units is a number of rows.                  *)
(*                                                                         *)
(* Mut_X, before a definition it mutates, is that definition with a bug a  *)
(* change of the code could introduce; no action refers to it.             *)
(***************************************************************************)
EXTENDS Integers, FiniteSets

CONSTANTS
  Call,          \* crawler runs that reach the ledger
  ProviderOf,    \* ProviderOf[c]: the provider call c is for
  Limit,         \* Limit[p]: hardLimitPerDay of provider p
  LastDay,       \* the days are 0..LastDay
  MaxFaults,     \* bound on Redis and PG errors and crashes
  MaxLosses,     \* bound on losses of the Redis data
  MaxRebuilds,   \* bound on calls of rebuildCounters
  NoRebuild

\* The providers whose callers reserve.  "llm" and "jev" only append rows.
UsageProvider == {"dune", "coinmarketcap"}
Day == 0..LastDay
Key == UsageProvider \X Day

ASSUME CallAssumption == IsFiniteSet(Call) /\ ProviderOf \in [Call -> UsageProvider]
ASSUME LimitAssumption == Limit \in [UsageProvider -> Nat]
ASSUME BoundAssumption ==
  /\ LastDay \in Nat
  /\ MaxFaults \in Nat
  /\ MaxLosses \in Nat
  /\ MaxRebuilds \in Nat

\* Where a call stands: what it does next, or how it ended.
Step == {"new", "over", "creating", "undoing", "paying", "succeeded", "failing",
         "refused", "done", "crashed"}
Ended == {"refused", "done", "crashed"}

UsageEvent ==
  [call : Call, day : Day, status : {"reserved", "actual", "failed"}]

Rebuild == [day : Day, sum : [UsageProvider -> Nat], left : SUBSET UsageProvider]
ASSUME NoRebuildAssumption == NoRebuild \notin Rebuild

VARIABLES
  today,      \* the UTC day
  counter,    \* counter[<<p, d>>]: the Redis key usage:<p>:<d>
  events,     \* the usage_event rows
  call,       \* call[c]: the step and the day of call c's reservation
  paid,       \* calls whose request was sent to the provider
  rebuild,    \* the running rebuildCounters, or NoRebuild
  faults, losses, rebuilds

vars == <<today, counter, events, call, paid, rebuild, faults, losses, rebuilds>>

counterKey(c) == <<ProviderOf[c], call[c].day>>
At(c, step) == call[c].step = step
Goes(c, step) == call' = [call EXCEPT ![c].step = step]

Init ==
  /\ today = 0
  /\ counter = [k \in Key |-> 0]
  /\ events = {}
  /\ call = [c \in Call |-> [step |-> "new", day |-> 0]]
  /\ paid = {}
  /\ rebuild = NoRebuild
  /\ faults = 0
  /\ losses = 0
  /\ rebuilds = 0

Fault == faults < MaxFaults /\ faults' = faults + 1

\* An operation on Redis: it is done and acknowledged, or it throws before or
\* after it was done.
Redis(k, n) == counter' = [counter EXCEPT ![k] = n] /\ UNCHANGED faults
RedisThrows(k, n) ==
  Fault /\ (counter' = [counter EXCEPT ![k] = n] \/ UNCHANGED counter)

\* An insert of a usage_event row, likewise.
Insert(e) == events' = events \cup {e} /\ UNCHANGED faults
InsertThrows(e) == Fault /\ (events' = events \cup {e} \/ UNCHANGED events)

Row(c, day, status) == [call |-> c, day |-> day, status |-> status]

-----------------------------------------------------------------------------
(* reserve *)

\* INCR, with `next` the answer: past the limit the call takes it back.  The
\* date is the crawler's new Date().
reserve(c) ==
  LET k == <<ProviderOf[c], today>>
      next == counter[k] + 1
      step == IF next > Limit[ProviderOf[c]] THEN "over" ELSE "creating"
  IN  /\ At(c, "new")
      /\ \/ /\ Redis(k, next)
            /\ call' = [call EXCEPT ![c] = [step |-> step, day |-> today]]
         \/ /\ RedisThrows(k, next)
            /\ Goes(c, "refused")
      /\ UNCHANGED <<today, events, paid, rebuild, losses, rebuilds>>

Mut_ReturnMissing(c) ==
  /\ At(c, "over")
  /\ Redis(counterKey(c), counter[counterKey(c)] - 1)
  /\ Goes(c, "creating")
  /\ UNCHANGED <<today, events, paid, rebuild, losses, rebuilds>>

\* DECR, after which reserve returns allowed = false or rethrows.
takeBack(c) ==
  LET k == counterKey(c)
  IN  /\ call[c].step \in {"over", "undoing"}
      /\ Redis(k, counter[k] - 1) \/ RedisThrows(k, counter[k] - 1)
      /\ Goes(c, "refused")
      /\ UNCHANGED <<today, events, paid, rebuild, losses, rebuilds>>

Mut_InsertErrorIgnored(c) ==
  LET e == Row(c, call[c].day, "reserved")
  IN  /\ At(c, "creating")
      /\ Insert(e) \/ InsertThrows(e)
      /\ Goes(c, "paying")
      /\ paid' = paid \cup {c}
      /\ UNCHANGED <<today, counter, rebuild, losses, rebuilds>>

\* The reserved row; once it is written the crawler sends the paid request.
createReserved(c) ==
  LET e == Row(c, call[c].day, "reserved")
  IN  /\ At(c, "creating")
      /\ \/ Insert(e) /\ Goes(c, "paying") /\ paid' = paid \cup {c}
         \/ InsertThrows(e) /\ Goes(c, "undoing") /\ UNCHANGED paid
      /\ UNCHANGED <<today, counter, rebuild, losses, rebuilds>>

-----------------------------------------------------------------------------
(* The crawlers, after reserve *)

\* The provider's answer: data, or an error, a timeout, a failed execution.
providerAnswers(c) ==
  /\ At(c, "paying")
  /\ Goes(c, "succeeded") \/ Goes(c, "failing")
  /\ UNCHANGED <<today, counter, events, paid, rebuild, faults, losses, rebuilds>>

Mut_LocalDay(c) == call[c].day + 1

\* The date a crawler passes to recordActual and recordFailed: Dune the one it
\* reserved with, CoinMarketCap another new Date().
RecordDay(c) == IF ProviderOf[c] = "dune" THEN call[c].day ELSE today

Mut_AlwaysFails(c) ==
  /\ At(c, "succeeded")
  /\ Insert(Row(c, RecordDay(c), "actual"))
  /\ Goes(c, "failing")
  /\ UNCHANGED <<today, counter, paid, rebuild, losses, rebuilds>>

\* recordActual is inside the try block of both crawlers.
recordActual(c) ==
  LET e == Row(c, RecordDay(c), "actual")
  IN  /\ At(c, "succeeded")
      /\ \/ Insert(e) /\ Goes(c, "done")
         \/ InsertThrows(e) /\ Goes(c, "failing")
      /\ UNCHANGED <<today, counter, paid, rebuild, losses, rebuilds>>

\* The catch block; the counter keeps the slot.
recordFailed(c) ==
  LET e == Row(c, RecordDay(c), "failed")
  IN  /\ At(c, "failing")
      /\ Insert(e) \/ InsertThrows(e)
      /\ Goes(c, "done")
      /\ UNCHANGED <<today, counter, paid, rebuild, losses, rebuilds>>

-----------------------------------------------------------------------------
(* rebuildCounters, and what happens around the ledger *)

RowsOf(p, d) ==
  {e \in events : /\ ProviderOf[e.call] = p
                  /\ e.day = d
                  /\ e.status \in {"reserved", "actual"}}

\* The groupBy: one query, providers without rows are not in its answer.
rebuildReads(d) ==
  /\ rebuild = NoRebuild
  /\ rebuilds < MaxRebuilds
  /\ rebuilds' = rebuilds + 1
  /\ rebuild' = [day |-> d,
                 sum |-> [p \in UsageProvider |-> Cardinality(RowsOf(p, d))],
                 left |-> {p \in UsageProvider : RowsOf(p, d) # {}}]
  /\ UNCHANGED <<today, counter, events, call, paid, faults, losses>>

\* One SET of the loop.
rebuildSets ==
  /\ rebuild # NoRebuild
  /\ \E p \in rebuild.left :
       /\ counter' = [counter EXCEPT ![<<p, rebuild.day>>] = rebuild.sum[p]]
       /\ rebuild' = [rebuild EXCEPT !.left = @ \ {p}]
  /\ UNCHANGED <<today, events, call, paid, faults, losses, rebuilds>>

rebuildEnds ==
  /\ rebuild # NoRebuild
  /\ rebuild.left = {}
  /\ rebuild' = NoRebuild
  /\ UNCHANGED <<today, counter, events, call, paid, faults, losses, rebuilds>>

\* Redis restarts without its data.  Nothing calls rebuildCounters then.
redisLoses ==
  /\ losses < MaxLosses
  /\ losses' = losses + 1
  /\ counter' = [k \in Key |-> 0]
  /\ UNCHANGED <<today, events, call, paid, rebuild, faults, rebuilds>>

midnight ==
  /\ today < LastDay
  /\ today' = today + 1
  /\ UNCHANGED <<counter, events, call, paid, rebuild, faults, losses, rebuilds>>

\* The process of call c stops.
crash(c) ==
  /\ call[c].step \notin Ended \cup {"new"}
  /\ Fault
  /\ Goes(c, "crashed")
  /\ UNCHANGED <<today, counter, events, paid, rebuild, losses, rebuilds>>

Continue(c) ==
  \/ takeBack(c) \/ createReserved(c) \/ providerAnswers(c)
  \/ recordActual(c) \/ recordFailed(c)

Next ==
  \/ \E c \in Call : reserve(c) \/ Continue(c) \/ crash(c)
  \/ \E d \in Day : rebuildReads(d)
  \/ rebuildSets
  \/ rebuildEnds
  \/ redisLoses
  \/ midnight

Spec == Init /\ [][Next]_vars

-----------------------------------------------------------------------------
(* Properties *)

\* Counters, rows and frames have their types; no row is dated outside the days.
TypeOK ==
  /\ today \in Day
  /\ counter \in [Key -> Int]
  /\ events \subseteq UsageEvent
  /\ call \in [Call -> [step : Step, day : Day]]
  /\ paid \subseteq Call
  /\ rebuild \in Rebuild \cup {NoRebuild}
  /\ faults \in 0..MaxFaults
  /\ losses \in 0..MaxLosses
  /\ rebuilds \in 0..MaxRebuilds

Undisturbed == losses = 0 /\ rebuilds = 0
Holding(k) ==
  {c \in Call : /\ counterKey(c) = k
                /\ c \in paid \/ call[c].step \in {"over", "creating", "undoing"}}

\* While nothing else writes the counters, none is below the slots it stands
\* for: those of paid calls, kept even when the call fails, and those of calls
\* that have not given theirs back yet.
SlotsAreCounted ==
  Undisturbed =>
    \A k \in Key : Cardinality(Holding(k)) <= counter[k]

PaidOn(k) == {c \in paid : counterKey(c) = k}

\* No day's paid calls exceed the provider's hard limit, however many callers
\* reserve at once, fail, crash or straddle midnight.
BudgetHolds == \A k \in Key : Cardinality(PaidOn(k)) <= Limit[k[1]]

\* The ledger fails closed: a request goes out only after its reservation is
\* durable, whatever happens to Redis, PG or a rebuild.
PaidIsReserved ==
  \A c \in paid : Row(c, call[c].day, "reserved") \in events

Outcome(c) == {e \in events : e.call = c /\ e.status # "reserved"}
Quiet == faults = 0 /\ \A c \in Call : call[c].step \in Ended \cup {"new"}

\* When the calls have ended and nothing failed, every paid call has exactly
\* one outcome, no other call has one, and every slot a refused call took is
\* back.
BooksBalance ==
  Quiet /\ Undisturbed =>
    /\ \A c \in Call : Cardinality(Outcome(c)) = IF c \in paid THEN 1 ELSE 0
    /\ \A k \in Key : counter[k] = Cardinality(PaidOn(k))

\* The ledger seen as DailyBudget sees it: a call is granted when it pays.
grantedBar == [k \in Key |-> PaidOn(k)]
Budget == INSTANCE DailyBudget WITH Provider <- UsageProvider, granted <- grantedBar

\* The reservations of all callers together hand out at most the day's limit.
ImplementsDailyBudget == Budget!Spec

=============================================================================
