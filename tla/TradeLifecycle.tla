-------------------------- MODULE TradeLifecycle --------------------------
(***************************************************************************)
(* RealtimeService: prepareTrade, executeInjectiveTrade, executeMonadTrade *)
(* and confirmExecution over the realtime_trade table, the venues and the  *)
(* event feed.                                                             *)
(*                                                                         *)
(* The service runs on one event loop, so the code between two awaits is   *)
(* one action.  A database write is an action of its own, at the moment    *)
(* the row changes; the handler continues with a later action, and other   *)
(* handlers run in between.  No write tests the status it overwrites.      *)
(*                                                                         *)
(* Mut_X, before a definition it mutates, is that definition with a bug a  *)
(* change of the code could introduce; no action refers to it.             *)
(***************************************************************************)
EXTENDS Integers, Sequences, FiniteSets, Functions

CONSTANTS
  Trade,       \* row ids createTrade hands out
  Call,        \* HTTP or MCP requests to execute or confirm a trade
  Chain,       \* chains a selected route may be on
  Executor,    \* chains whose executor is enabled in this deployment
  MaxFaults,   \* bound on crashes and failing writes
  NoRow, NoPlan, NoTrade

ASSUME ChainAssumption == Executor \subseteq Chain /\ NoPlan \notin Chain
ASSUME TradeAssumption == NoTrade \notin Trade
ASSUME MaxFaultsAssumption == MaxFaults \in Nat

RealtimeTradeStatus ==
  {"PENDING", "READY", "REJECTED", "SUBMITTED", "CONFIRMED", "FAILED"}

\* The statuses markExecution writes.
ExecutionStatus == {"SUBMITTED", "CONFIRMED", "FAILED"}

\* The event that announces a status.
EventType ==
  [PENDING   |-> "trade.intent.received", READY     |-> "trade.plan.ready",
   REJECTED  |-> "trade.error",           SUBMITTED |-> "trade.submitted",
   CONFIRMED |-> "trade.confirmed",       FAILED    |-> "trade.failed"]

\* Where the handler of a prepare request stands: what it does next.
PrepareStep ==
  {"new", "received", "planning", "attaching", "planned", "rejecting",
   "rejected", "done"}

\* Where a call stands.
CallStep == {"new", "executing", "sent", "confirming", "announcing", "done"}

RealtimeTrade == [status : RealtimeTradeStatus, plan : Chain \cup {NoPlan}]

ASSUME NoRowAssumption == NoRow \notin RealtimeTrade

Frame ==
  [step : CallStep, trade : Trade \cup {NoTrade}, chain : Chain \cup {NoPlan},
   status : ExecutionStatus]

VARIABLES
  row,       \* row[t]: the persisted trade
  prepare,   \* prepare[t]: the handler that created t and the route it found
  call,      \* call[c]: the stack frame of call c
  orders,    \* orders[c]: orders the venue holds because of call c
  written,   \* written[t]: every status the row of t has had, oldest first
  feed,      \* feed[t]: the events the gateway emitted for t, oldest first
  faults     \* crashes and failing writes so far

vars == <<row, prepare, call, orders, written, feed, faults>>

Exists(t) == row[t] # NoRow

Init ==
  /\ row = [t \in Trade |-> NoRow]
  /\ prepare = [t \in Trade |-> [step |-> "new", chain |-> NoPlan]]
  /\ call = [c \in Call |-> [step |-> "new", trade |-> NoTrade,
                             chain |-> NoPlan, status |-> "SUBMITTED"]]
  /\ orders = [c \in Call |-> 0]
  /\ written = [t \in Trade |-> << >>]
  /\ feed = [t \in Trade |-> << >>]
  /\ faults = 0

-----------------------------------------------------------------------------
(* The table and the feed *)

\* prisma.realtimeTrade.create / update: the row of t becomes r.
Store(t, r) ==
  /\ row' = [row EXCEPT ![t] = r]
  /\ written' = [written EXCEPT ![t] = Append(@, r.status)]

\* A write ends in one of three ways: it is committed and acknowledged; or it
\* throws, and the row was not changed; or it throws after the commit.
Acknowledged(t, r) == Store(t, r) /\ UNCHANGED faults
Throws(t, r) ==
  /\ faults < MaxFaults
  /\ faults' = faults + 1
  /\ Store(t, r) \/ UNCHANGED <<row, written>>

\* An UPDATE of an id that has no row throws and is no fault.
Missing(t) == ~Exists(t) /\ UNCHANGED <<row, written, faults>>

emit(t, status) == feed' = [feed EXCEPT ![t] = Append(@, EventType[status])]

PrepareAt(t, step) == prepare[t].step = step
PrepareGoes(t, step) == prepare' = [prepare EXCEPT ![t].step = step]

CallAt(c, step) == call[c].step = step
CallGoes(c, step) == call' = [call EXCEPT ![c].step = step]

-----------------------------------------------------------------------------
(* prepareTrade *)

\* createTrade is outside the try block: when it throws the handler ends.
createTrade(t) ==
  LET r == [status |-> "PENDING", plan |-> NoPlan]
  IN  /\ PrepareAt(t, "new")
      /\ \/ Acknowledged(t, r) /\ PrepareGoes(t, "received")
         \/ Throws(t, r) /\ PrepareGoes(t, "done")
      /\ UNCHANGED <<call, orders, feed>>

announceIntent(t) ==
  /\ PrepareAt(t, "received")
  /\ emit(t, "PENDING")
  /\ PrepareGoes(t, "planning")
  /\ UNCHANGED <<row, call, orders, written, faults>>

Mut_CoreOutsideTry(t) ==
  /\ PrepareAt(t, "planning")
  /\ \/ \E chain \in Chain :
          prepare' = [prepare EXCEPT ![t] = [step |-> "attaching", chain |-> chain]]
     \/ PrepareGoes(t, "done")
  /\ UNCHANGED <<row, call, orders, written, feed, faults>>

\* RealTimeAgentCore.prepareTrade returns a plan, always "ready" and for the
\* chain of the selected route, or throws: no oracle price, no executable
\* quote, a risk limit, an adapter or builder that failed.
corePrepareTrade(t) ==
  /\ PrepareAt(t, "planning")
  /\ \/ \E chain \in Chain :
          prepare' = [prepare EXCEPT ![t] = [step |-> "attaching", chain |-> chain]]
     \/ PrepareGoes(t, "rejecting")
  /\ UNCHANGED <<row, call, orders, written, feed, faults>>

Mut_AttachAlwaysRejects(t) ==
  LET r == [status |-> "READY", plan |-> prepare[t].chain]
  IN  /\ PrepareAt(t, "attaching")
      /\ Acknowledged(t, r)
      /\ PrepareGoes(t, "rejecting")
      /\ UNCHANGED <<call, orders, feed>>

attachPlan(t) ==
  LET r == [status |-> "READY", plan |-> prepare[t].chain]
  IN  /\ PrepareAt(t, "attaching")
      /\ \/ Acknowledged(t, r) /\ PrepareGoes(t, "planned")
         \/ Throws(t, r) /\ PrepareGoes(t, "rejecting")
      /\ UNCHANGED <<call, orders, feed>>

announcePlan(t) ==
  /\ PrepareAt(t, "planned")
  /\ emit(t, "READY")
  /\ PrepareGoes(t, "done")
  /\ UNCHANGED <<row, call, orders, written, faults>>

\* The catch block; when markRejected throws nothing is emitted.
markRejected(t) ==
  LET r == [row[t] EXCEPT !.status = "REJECTED"]
  IN  /\ PrepareAt(t, "rejecting")
      /\ \/ Acknowledged(t, r) /\ PrepareGoes(t, "rejected")
         \/ Throws(t, r) /\ PrepareGoes(t, "done")
      /\ UNCHANGED <<call, orders, feed>>

announceError(t) ==
  /\ PrepareAt(t, "rejected")
  /\ emit(t, "REJECTED")
  /\ PrepareGoes(t, "done")
  /\ UNCHANGED <<row, call, orders, written, faults>>

Prepare(t) ==
  \/ createTrade(t)  \/ announceIntent(t) \/ corePrepareTrade(t)
  \/ attachPlan(t)   \/ announcePlan(t)
  \/ markRejected(t) \/ announceError(t)

-----------------------------------------------------------------------------
(* executeInjectiveTrade, executeMonadTrade, confirmExecution *)

Mut_AnyPlan(t, chain) == Exists(t) /\ row[t].plan # NoPlan
HasExecutionPlan(t, chain) == Exists(t) /\ row[t].plan = chain

\* The executor is enabled, findById finds a row with a plan for its chain:
\* the plan read here is the one that is executed.  The status is not read.
executeTrade(c, t, chain) ==
  /\ CallAt(c, "new")
  /\ chain \in Executor
  /\ IF HasExecutionPlan(t, chain)
     THEN call' = [call EXCEPT ![c].step = "executing", ![c].trade = t,
                               ![c].chain = chain]
     ELSE CallGoes(c, "done")
  /\ UNCHANGED <<row, prepare, orders, written, feed, faults>>

Mut_OrderRetried(c) ==
  /\ CallAt(c, "executing")
  /\ orders' = [orders EXCEPT ![c] = @ + 1]
  /\ UNCHANGED <<row, prepare, call, written, feed, faults>>

\* The venue accepts the order that the executor sent.
sendOrder(c) ==
  /\ CallAt(c, "executing")
  /\ orders' = [orders EXCEPT ![c] = @ + 1]
  /\ CallGoes(c, "sent")
  /\ UNCHANGED <<row, prepare, written, feed, faults>>

Mut_FailureThrown(c) ==
  /\ call[c].step \in {"executing", "sent"}
  /\ \/ call' = [call EXCEPT ![c].step = "confirming", ![c].status = "SUBMITTED"]
     \/ CallGoes(c, "done")
  /\ UNCHANGED <<row, prepare, orders, written, feed, faults>>

Mut_NoTimeout(c) ==
  /\ CallAt(c, "executing")
  /\ \E status \in {"SUBMITTED", "FAILED"} :
       call' = [call EXCEPT ![c].step = "confirming", ![c].status = status]
  /\ UNCHANGED <<row, prepare, orders, written, feed, faults>>

\* The executor's result.  "submitted" is what the MCP client returns for any
\* answer, an error result included, and "simulated" is mapped to it; "failed"
\* covers a timeout or an exit of the MCP server after the order was accepted.
\* No executor of the repository returns "confirmed".
executorReturns(c) ==
  /\ call[c].step \in {"executing", "sent"}
  /\ \E status \in {"SUBMITTED", "FAILED"} :
       call' = [call EXCEPT ![c].step = "confirming", ![c].status = status]
  /\ UNCHANGED <<row, prepare, orders, written, feed, faults>>

\* The MCP server does not start or the calldata's value does not parse: the
\* call ends, with no order and no confirmation.
executorThrows(c) ==
  /\ CallAt(c, "executing")
  /\ CallGoes(c, "done")
  /\ UNCHANGED <<row, prepare, orders, written, feed, faults>>

\* POST trade/confirm: any status, for any trade id.
confirmTrade(c, t, status) ==
  /\ CallAt(c, "new")
  /\ call' = [call EXCEPT ![c].step = "confirming", ![c].trade = t,
                          ![c].status = status]
  /\ UNCHANGED <<row, prepare, orders, written, feed, faults>>

Mut_ErrorSwallowed(c) ==
  LET t == call[c].trade
      r == [row[t] EXCEPT !.status = call[c].status]
  IN  /\ CallAt(c, "confirming")
      /\ \/ Exists(t) /\ (Acknowledged(t, r) \/ Throws(t, r))
         \/ Missing(t)
      /\ CallGoes(c, "announcing")
      /\ UNCHANGED <<prepare, orders, feed>>

Mut_RepeatNotAnnounced(c) ==
  LET t == call[c].trade
      r == [row[t] EXCEPT !.status = call[c].status]
  IN  /\ CallAt(c, "confirming")
      /\ Exists(t)
      /\ Acknowledged(t, r)
      /\ CallGoes(c, IF row[t] = r THEN "done" ELSE "announcing")
      /\ UNCHANGED <<prepare, orders, feed>>

\* markExecution overwrites whatever status it finds.
markExecution(c) ==
  LET t == call[c].trade
      r == [row[t] EXCEPT !.status = call[c].status]
  IN  /\ CallAt(c, "confirming")
      /\ \/ Exists(t) /\ Acknowledged(t, r) /\ CallGoes(c, "announcing")
         \/ Exists(t) /\ Throws(t, r) /\ CallGoes(c, "done")
         \/ Missing(t) /\ CallGoes(c, "done")
      /\ UNCHANGED <<prepare, orders, feed>>

announceExecution(c) ==
  /\ CallAt(c, "announcing")
  /\ emit(call[c].trade, call[c].status)
  /\ CallGoes(c, "done")
  /\ UNCHANGED <<row, prepare, orders, written, faults>>

Execution(c) ==
  \/ \E t \in Trade, chain \in Chain : executeTrade(c, t, chain)
  \/ sendOrder(c)
  \/ executorReturns(c) \/ executorThrows(c)
  \/ \E t \in Trade, status \in ExecutionStatus : confirmTrade(c, t, status)
  \/ markExecution(c) \/ announceExecution(c)

-----------------------------------------------------------------------------

\* The process stops: every handler is lost, the table and the venue stay.
\* onModuleInit resumes nothing.
Interrupted(f) == IF f.step = "new" THEN f ELSE [f EXCEPT !.step = "done"]
crash ==
  /\ faults < MaxFaults
  /\ faults' = faults + 1
  /\ prepare' = [t \in Trade |-> Interrupted(prepare[t])]
  /\ call' = [c \in Call |-> Interrupted(call[c])]
  /\ UNCHANGED <<row, orders, written, feed>>

Next ==
  \/ \E t \in Trade : Prepare(t)
  \/ \E c \in Call : Execution(c)
  \/ crash

Spec == Init /\ [][Next]_vars

\* A handler that has begun runs on: every promise it awaits settles (the
\* database client, the HTTP client and the MCP client have timeouts).  No
\* client has to send a request and no venue has to accept an order.
Runs(t) == prepare[t].step # "new" /\ Prepare(t)
Continues(c) ==
  executorReturns(c) \/ executorThrows(c) \/ markExecution(c) \/ announceExecution(c)
FairSpec ==
  /\ Spec
  /\ \A t \in Trade : WF_vars(Runs(t))
  /\ \A c \in Call : WF_vars(Continues(c))

-----------------------------------------------------------------------------
(* Properties *)

\* Rows, frames and feeds hold values of their types, and a call holds at most
\* one order: no layer of the service repeats an execution.
TypeOK ==
  /\ row \in [Trade -> RealtimeTrade \cup {NoRow}]
  /\ prepare \in [Trade -> [step : PrepareStep, chain : Chain \cup {NoPlan}]]
  /\ call \in [Call -> Frame]
  /\ orders \in [Call -> 0..1]
  /\ written \in [Trade -> Seq(RealtimeTradeStatus)]
  /\ feed \in [Trade -> Seq(Range(EventType))]
  /\ faults \in 0..MaxFaults

\* An order at a venue belongs to a trade whose stored plan is still the plan
\* for that venue's chain, however handlers interleave, writes fail or the
\* process restarts: nothing replaces or drops a plan once it can be executed.
OrderHasPlan ==
  \A c \in Call :
    orders[c] > 0 =>
      /\ call[c].chain \in Executor
      /\ HasExecutionPlan(call[c].trade, call[c].chain)

\* The feed never announces a status the table has not had: every emit comes
\* after its write, and a write that throws is not announced.
AnnouncedWasWritten ==
  \A t \in Trade :
    Range(feed[t]) \subseteq {EventType[s] : s \in Range(written[t])}

Quiet(t) ==
  /\ prepare[t].step \in {"new", "done"}
  /\ \A c \in Call : call[c].trade = t => CallAt(c, "done")
Count(s, x) == Cardinality({i \in DOMAIN s : s[i] = x})

\* When the handlers of a trade have ended and nothing failed, the feed holds
\* one event for each status the row went through, no fewer and no more.
FeedIsComplete ==
  \A t \in Trade :
    faults = 0 /\ Quiet(t) =>
      \A s \in RealtimeTradeStatus :
        Count(feed[t], EventType[s]) = Count(written[t], s)

\* No order is forgotten: when its call has ended and nothing failed, the row
\* says the trade was executed, whatever confirmations arrived meanwhile.
OrderIsRecorded ==
  \A c \in Call :
    faults = 0 /\ orders[c] > 0 /\ CallAt(c, "done") =>
      row[call[c].trade].status \in ExecutionStatus

\* A trade that was rejected and yet has an order at a venue had a fault, the lost
\* acknowledgement of attachPlan, and its client was never told that the plan was
\* ready: no interleaving alone lets the catch block and an execution meet on one
\* trade, although execution reads no status.
RejectedNeverOrdered ==
  \A c \in Call :
    orders[c] > 0 /\ "REJECTED" \in Range(written[call[c].trade]) =>
      /\ faults > 0
      /\ "trade.plan.ready" \notin Range(feed[call[c].trade])

\* The service seen as ExplicitExecution sees it.
planBar == [t \in Trade |-> IF Exists(t) THEN row[t].plan ELSE NoPlan]
requestBar ==
  [c \in Call |-> IF call[c].chain # NoPlan
                  THEN <<call[c].trade, call[c].chain>> ELSE << >>]

Explicit == INSTANCE ExplicitExecution WITH
  Request <- Call, NoRequest <- << >>,
  plan <- planBar, request <- requestBar, sent <- orders

\* Prepares, executions, confirmations, failing writes and crashes together do
\* what ExplicitExecution allows: one plan per trade, one order per request.
ImplementsExplicitExecution == Explicit!Spec

\* An order is followed by an event that tells the client how it went, even if
\* the venue or the MCP server never answers.
OrderIsAnnounced ==
  \A c \in Call :
    orders[c] > 0 ~>
      \/ faults > 0
      \/ \E t \in Trade :
           /\ CallAt(c, "done")
           /\ call[c].trade = t
           /\ Range(feed[t]) \cap {"trade.submitted", "trade.failed"} # {}

\* A stored intent is followed by the news of its plan or of its error.
IntentIsAnswered ==
  \A t \in Trade :
    Exists(t) ~>
      \/ faults > 0
      \/ Range(feed[t]) \cap {"trade.plan.ready", "trade.error"} # {}

=============================================================================
