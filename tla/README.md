# Verification of sol_trade_agents

TLA+ models of the trading agent in this repository, the TLC configurations
that check them on small instances, and TLAPS proofs of what matters most for
every instance. Paths below are relative to the repository's root; `backend/`
stands for `backend/src/`.

Tools: `tlc -config <cfg> <module>` for a run, `tlapm <module>.tla` for a proof
module. PROJECT.json lists the runs, the lines every definition models, the
mutants, the findings, the hazards and the theorems.

## The system

Traders ask a NestJS backend for a trade plan; the plan is made from an oracle
price and the quotes of several DEXes, stored, announced over a socket, and
executed only on a second, explicit request. Beside that runs an offline
pipeline that crawls market data through paid APIs, lets an LLM and a quality
gate judge it and stores signals. A web client shows both live. An Anchor
program on Solana keeps the multisig guardrail and the history of trades.

| Component | State | Operations | Talks to |
|---|---|---|---|
| `contracts/programs/trade_execution` | multisig and trade accounts | `initialize_multisig`, `update_policy`, `open_trade`, `approve_trade`, `execute_trade`, `cancel_trade` | signers; each instruction is a transaction |
| `backend/realtime/realtime.service.ts`, `realtime-trade.repository.ts` | table `realtime_trade`, stack frames of handlers | `prepareTrade`, `executeInjectiveTrade`, `executeMonadTrade`, `confirmExecution`, market queries | PG, the core, the executors, the gateway |
| `backend/agent/realtime-agent-core.ts`, `risk/`, `nbbo/`, `dex/` | stack frames of a plan in the making | prices, quotes, best route, risk limits, plan | price feed, DEX adapters |
| `backend/oracle/`, `CachedFallbackPriceFeed` | price cache, stream, choice of live or mock | `getLatest`, `subscribe`, the probe of the boot | Hermes |
| `backend/transactions/injective-mcp-client.ts` | child process, pending requests, buffer, start promise | `ensureInitialized`, `rpc`, line handling, exit | MCP server over stdio |
| `backend/transactions/monad-executor.ts` | none | `executeTrade` | Monad RPC |
| `backend/usage-ledger/` | Redis day counters, `usage_event` rows | `reserve`, `recordActual`, `recordFailed`, `recordCacheHit`, `checkBudget`, `rebuildCounters` | Redis, PG |
| `backend/crawlers/` | caches, promises of running fetches, Dune's day counter | `run`, `fetch…` | the ledger, Dune, CoinMarketCap, CoinGecko |
| `backend/scheduler/`, `decision/`, `agents/`, `strategy/`, `data/` | BullMQ queue, analysis and signal rows | `runPipeline`, `evaluate` | crawlers, LLM, PG, gateway |
| `backend/realtime/realtime.gateway.ts`, `scheduler/offline-agent.gateway.ts` | rooms | emit, subscribe | browsers |
| `frontend/src/lib/websocket.ts`, its two live pages | shared sockets, subscriptions, event store, lists | connect, subscribe, store, refresh | gateways, REST |
| `backend/agent/injective-*` | identity file, registry | register an agent | a chain |

What is hard: handlers of one trade interleave at every await and no write
tests the status it overwrites; a write may commit and still throw; a venue may
accept an order whose request timed out; several processes share the daily
counters, which are raised before the durable row is written; days change while
a paid call runs; an MCP server may die in the middle of a line; the policy of a
multisig changes between the opening and the execution of a trade; a price is
cached by two writers and read after the feed has failed; quotes come in after
the round gave up on them; pipeline runs overlap and share requests, and the
process restarts under a job; sockets reconnect under subscriptions.

What makes each part correct:

- contract: an execution has its quorum, a proposal is decided once and is never
  rewritten, a pending trade can still be decided, prices stay near the oracle;
- lifecycle: an order only for a stored plan of its chain, one per request; the
  feed says what the table says; an order is recorded; every intent is answered;
- ledger: no day's budget is exceeded; nothing is paid that is not reserved;
  slots are neither lost nor kept by refused calls; the books balance;
- MCP client: a tool call is performed at most once and gets its own answer, one
  server at a time holds the mnemonic, every call ends;
- price feed: two chains of one feed agree, the cache ends on the last price;
- planning: only quotes in time count, a plan is worth the trade at the oracle's
  price, rests on a recent price, and every request ends;
- pipeline: one request per crawler, fresh rows, a bounded bill, signals only
  with their reasons, queued runs end over restarts;
- live pages: events once and in order, a list that has the row it was loaded
  for, subscriptions that survive reconnections.

## The modules

| Module | Models | Uses |
|---|---|---|
| `TradeExecution` | the Anchor program | refines `QuorumDecision` |
| `TradeLifecycle` | prepare, execute, confirm over table, venues and feed | refines `ExplicitExecution` |
| `UsageLedger` | the ledger and the two paying crawlers | refines `DailyBudget` |
| `McpClient` | the Injective MCP client, its server process and the pipe between them | refines `AtMostOnceCall` |
| `PriceFeed` | Hermes by REST and by stream, the mock, the boot, the cache | |
| `Quotes` | amounts, prices, best bid and offer, risk limits: no state | |
| `TradePlan` | `RealTimeAgentCore.prepareTrade` and the DEX adapters | extends `PriceFeed`, `Quotes` |
| `Crawlers` | caches, single flight and process budget of the two crawlers | |
| `OfflinePipeline` | scheduler, queue, worker, runs, quality gate | extends `Crawlers` |
| `LiveFeed` | gateways, shared sockets, event store and page | |
| `MC…` | the instances for TLC | |
| `…Proofs` | theorems | |

A definition named `Mut_X` is a mutated form of the definition after it, with a
bug that a change of the code could introduce. No action refers to it; it is
there to show that a property can fail.

The backend is one event loop per process: in every module of it the code
between two awaits is one action, and actions of different handlers interleave.

**TradeExecution.** One action per instruction, with the account constraints as
guards: accounts at program-derived addresses are functions from their seeds,
`NoAccount` where nothing is initialised. A failing `require!` rolls back and is
a disabled action. `allowed_dex_mask` is a set of bits. Prices, amounts and
mints are small sets; the deviation is computed as in `verify_price_deviation`.

**TradeLifecycle.** Each handler has a program counter (`prepare[t].step`,
`call[c].step`) and one action per stretch of code between two awaits. A
database write is an action at its commit and ends acknowledged, thrown before
the commit, or thrown after it. `orders` is what the venue holds, `written` and
`feed` are histories of the row's statuses and of the emitted events. The core
is the choice between a plan for a chain and an error (`TradePlan` is what is
behind it); the executor's answer is `SUBMITTED` or `FAILED` in any case the
code allows, including a timeout after the venue accepted the order. An order
that reaches the venue only after the executor gave up is not modelled.

**UsageLedger.** One action per await of `reserve`, `recordActual`,
`recordFailed` and of the crawlers around them. Redis operations and inserts
succeed, fail before or fail after taking effect. `rebuildCounters` reads in one
step and sets the counters one by one. Every call reserves and uses one unit, as
both crawlers do, so a sum of units is a number of rows. `RecordDay` is the date
each crawler passes: Dune that of its reservation, CoinMarketCap a new
`Date()`, although `usage-ledger.service.ts:207` asks for the first; a call that
crosses midnight is then counted on another day than it was reserved on. A
rebuild counts reserved and actual rows, a call twice. Both are listed as
hazards; no property of the runs is about the day of an outcome. `checkBudget`
reads and `recordCacheHit` appends rows that no sum counts; they are left out.

**McpClient.** A stdout chunk, the exit event, a timer and a new call are one
action each, guarded by `Idle`; what they resolve continues before the next of
them (`callTool`). `pending[i]` names the
call that waits for request `i`; `Start` stands for the `initialize` request of
`start()`, on which all calls that came meanwhile wait. The server is external:
it handles requests in any order, at once or after the client gave up, answers
with a result or an error, or never; it exits at any time, which loses what it
has not read, and leaves in the pipe a part of its lines, the last perhaps cut.
The buffer is one bit, whether it holds a part of a line: after an exit that
part stays there and spoils the first line of the next server. If that is the
answer to `initialize`, the start times out and its rejected promise is kept, so
every call throws until that server exits too; the model shows it and no text
of the repository forbids it. A failing `spawn` or write is an unhandled event
that ends the process and is left out, as are `isAvailable`, which has no caller,
and the contents of results.

**PriceFeed.** `hermes` is what the server last published of each feed, an
update with price 0 standing for one that is not sound (not positive, or with a
confidence interval too wide): one such makes `parseHermesPayload` throw for the
whole response. `fetch[w]` is the REST request of a reader, of the boot's probe
or of the cache's warm-up, `wire` the stream. The boot chooses between live and
mock; the cache is filled by `warm` and `onmessage`, which race. An update keeps
the `isStale` computed when it was received. `feedOf` is a deployment's
registry, as shipped or completed. *As shipped MON has no feed id, the probe asks
for all pairs, and every boot ends on the mock* (run `price_boot_mock`): what the
models show of Hermes, its stream and the fallback to the cache is what the code
does once `tokens.ts:77` is done, and the runs have both registries. Not
modelled: the shutdown and `injective-pyth-adapter.ts`, which nothing
constructs. A REST request has no timeout of its own in the code; that it
settles is assumed for liveness only.

**TradePlan** composes the feed with one stack frame per request: the price with
its retries and the fallback to the cache (`Thrown`), `validateIntent`, a round
of quotes in which each adapter answers, throws or is given up at
`QuoteTimeout`, the best executable quote, `validateRoute`, the plan, and for
Jupiter the transaction of a known user. `Quotes(r, a)` is the set of quote lists
adapter `a` may return: an offer of the venue, no market, or the synthetic quote
that Helix and Monad fall back to, from the cached price or a reference. Prices
are integers in thousandths of the quote token and amounts native units; the
roundings are those of `amounts.ts`. `Unit[p]` is the power of ten between the
decimals of a pair's base and quote, of which the base never has fewer
(`tokens.ts`). A venue's offer has its price, liquidity and impact, but where the
code makes these up the model does: Raydium's impact is estimated from the pool's
liquidity and the amount, the demo's venue always states 2 bps and 1 ms. The
delays between HTTP retries are collapsed, and a plan's instructions left out.

**Crawlers** is the deployment without the usage ledger: `pending[c]` is the
promise that callers share, `flight[c][j]` how far the request that run `j`
started is, `executionsToday` the budget of the process, which is asserted
before an await and raised after it. `billed` is what Dune started: a post whose
answer was lost is billed and not counted. CoinMarketCap falls back to CoinGecko
and then to fixed listings, but throws on an answer without listings; Dune falls
back to its mock only with `DUNE_USE_MOCK`.

**OfflinePipeline** composes the crawlers with the runs: queued by the
scheduler, initial, or over REST, with one worker for the queued. The worker
runs from its construction on, so it may take a job that an earlier process left
before `queue.add` returns; when that throws, `shutdown` waits for the job the
worker has. `restart` ends the process at any point; the queue survives, BullMQ
gives the worker's job back once (its default `maxStalledCount`) and fails it
the next time, other runs are gone. The gate is absent with mode `disabled` and
with provider `none`, which approves everything in any mode; its provider
answers, fails or has no key. A run's analysis and signals are writes that may
fail. The LLM returns a text whatever happens; cleaning, normalising and the
texts are left out. Of the momentum strategy the thresholds are kept; the
shipped TradingView rows have RSI 55 and 48 and yield no signal, so the instance
uses rows of 25 and 30, on both sides of the bound.

**LiveFeed** follows one page, `LiveTradingPage` with `/realtime` or
`InsightsPage` with `/offline`, and its sockets: `toServer` and `toClient` are
what is on the way and is lost with the connection; `topics` is what the client
has ever subscribed to and subscribes to again on every connection; `rooms` is
the server's end. A row is any write of the server that is announced, and the
page loads its list on every such event; answers may come back in any order, and
the last is shown, which may be the older.

## The runs

| Run | Instance | Shows |
|---|---|---|
| `contract_decisions` | two multisigs sharing owners, six owner vectors up to `MaxOwners` = 2 (one too long, three invalid), a trade each; policies and prices at, inside and outside every bound | `TypeOK`, `PendingCanReachQuorum`, `ExecutedNearOracle`, `ExecutedByQuorum`, `HistoryIsImmutable`, refinement of `QuorumDecision` |
| `lifecycle_races` | one trade, two requests, three chains, one crash or failing write, fairness | `TypeOK`, `AnnouncedWasWritten`, `FeedIsComplete`, `OrderIsRecorded`, `RejectedNeverOrdered`, refinement of `ExplicitExecution`, `OrderIsAnnounced`, `IntentIsAnswered` |
| `ledger_reserve` | three callers, two providers with limit 1, two days, two faults | `TypeOK`, `BooksBalance`, refinement of `DailyBudget` |
| `ledger_redis` | three callers, one loss of the Redis data, one rebuild, one fault | `PaidIsReserved` |
| `mcp_restart` | three calls, six request ids, two exits, kills or error answers, fairness | `TypeOK`, `OwnAnswer`, `OneServer`, refinement of `AtMostOnceCall`, `CallEnds` |
| `price_feed` | four pairs on two feeds, two registries, two prices, three instants, fairness | `SameFeedSamePrice`, `CacheConverges` |
| `plan_trade` | one request out of two intents, two registries, pairs of equal and of different decimals, four deployments, two offers, one retry, fairness | `TypeOK`, `EveryAnswerCounted`, `PlanIsWorth`, `PlanPriceIsRecent`, `PrepareEnds` |
| `offline_runs` | two runs, four setups, two restarts, two rows and two answers of the provider, fairness | `TypeOK`, `SignalsAreVouched`, `QueuedRunsEnd` |
| `crawler_caches` | two runs, two setups, three days, caches of two days and none, one restart, a budget of 1, one lost answer | `SingleFlight`, `DataIsFresh`, `BudgetIsBounded` |
| `live_pages` | both pages, two sockets, a drop, two rows, three events, two loads, a store of 2, fairness | `TypeOK`, `FeedInOrder`, `AnswerShowsItsEvent`, `SubscriptionsArrive` |

Properties without faults. `FeedIsComplete`, `OrderIsRecorded` and
`BooksBalance` speak of behaviours in which no write failed: after a fault the
code reconciles nothing, and the models show it. They do not catch what a fault
does, so the hazards at `realtime.service.ts:620` and
`dune-crawler.service.ts:268` are listed without a property.
`RejectedNeverOrdered` speaks of faults too: `attachPlan` that commits and throws
leaves a rejected trade which a client may execute, and the property says that
nothing else does and that the plan was not announced as ready.

`PlanPriceIsRecent` covers both ways to a price, by REST and from the cache. It
excepts the cache of a deployment whose every pair has a feed: there the fallback
returns prices of any age with the `isStale` they were received with, and a plan
may rest on one. As shipped that fallback is never taken.

Two runs expect a violation; each shows that a text of the repository is not
what the code does:

| Run | Text | Code |
|---|---|---|
| `ledger_cold_start` | counters are rebuilt from PG on cold start (`usage-ledger.service.ts:38-40`, `docs/usage-ledger-design.md:26`) | nothing calls `rebuildCounters`: after Redis loses its data the day's calls exceed the limit |
| `price_boot_mock` | the mock's prices are "Last-resort reference USD prices used when the live Pyth feed is unreachable." (`realtime.service.ts:79`), and `PYTH_USE_MOCK="false"` is "to attempt the live Pyth feed" (`backend/.env.example:133-134`) | MON has no feed id (`tokens.ts:79`), so the probe of all pairs throws before a request is sent and the feed becomes the mock, although Hermes was not asked |

Bounds. In `TradeExecution` multisigs meet only in their owners and in
`cancel_trade`, so two of them with one owner in common and a trade each show how
one could decide for the other; a threshold of 2 of 2 is the least that a
repeated approval could reach alone. Policies are the initial one and all pairs
of 100 and 5000 bps; 1015 is at the initial deviation of 150 bps from 1000, 1500
at `PolicyCap` and 1501 beyond. `HistoryComplete` is proved for any number of
trades. Trades do not share state in `TradeLifecycle`, so one trade shows every
race between a prepare and its requests; two requests let executions and
confirmations overlap in every order. One fault is enough for a commit whose
acknowledgement is lost and for a crash between any two steps. Two calls at a
limit of one are the fewest that overflow a counter, and the third is of the
other provider with the other rule for dates. `MaxFaults`, `MaxLosses` and
`MaxRebuilds` bound the environment, `LastDay` the calendar.

In `McpClient` three calls are the fewest with one answered late, one given up
and one on a new server; with two exits the lines of two dead servers meet in
one pipe. `MaxId` is twice the calls, so that each can have a start of its own.

In `PriceFeed` two instants after the first let a price grow stale and change
once more while an older answer is on its way, and a message of the stream may
overtake the warm-up; two feeds are the fewest of which one is unsound. In
`TradePlan` planning of different requests meets only in the cache, which they
read, so one request suffices; the intents have both sides and both notations of
an amount, the offers lie on either side of every risk limit, and the
deployments (`Demo`: mock, Helix and Monad; `Live`: the Solana venues; two of
Monad's modes) include every adapter. `LastTime` = 2 with a staleness of 0 and a
timeout of 1 lets a round end late and a fallback be old. In `OfflinePipeline`
two runs are the fewest that share a request. Two questions are asked of it
apart, as a clock and a gate together are too many states: `offline_runs` stops
the clock and has `Full` (scheduler, keys, enforcing gate), `Demo` (fixtures,
shadow gate), `Bare` (an enforcing gate whose provider has no key) and `Open`
(an enforcing gate without a provider), and two restarts, as a job is given back
once; `crawler_caches` has no gate and three days of one instant, so that Dune's
rows of two days are used on the next and expire on the third, and a restart
with a budget of 1 shows all that is billed above it. In `LiveFeed` two sockets
are the double mount of development, and a drop comes while events and a
subscription are on their way; a store of two with three events is cut once.

Deadlock is not checked: each instance has bounded work and may stop, as the cfg
says.

Fairness, weak throughout. `TradeLifecycle!FairSpec` is about the steps of a
handler that has begun: the promises it awaits settle, since the database, HTTP
and MCP clients have timeouts. Nobody is assumed to send a request or a venue to
accept an order. `McpClient!FairSpec`: microtasks run and timers fire; nothing
of the server, so a call ends through its 30 s timer if not before.
`PriceFeed!FairFeedSpec`: the event loop runs, Hermes answers or fails, and
streams; `CacheConverges` needs it since a dropped message is made up for only
by the next. `TradePlan!FairSpec`: time passes, the request's own steps and
timers run, Hermes answers or fails; no venue has to answer, which is what the
timeout of a quote is for. `OfflinePipeline!FairSpec`: a request, a call or a
write returns or fails, the process comes up and its worker takes jobs; nobody
has to enqueue one. `LiveFeed!FairSpec`: sockets reconnect and what they carry
arrives, one assumption for all of them, as one client is used at a time.

## The proofs

Each proof module states an inductive invariant, proves that `Init` implies it
and that every action preserves it (one lemma per action), and draws the
properties from it.

- `TradeExecutionProofs`: for any keys, owner vectors, prices and policies.
  `IInv` adds to `TypeOK` that owners are different and as many as the threshold
  allows, that approvals are different owners of the record's own multisig, and
  that `Approved` records have the quorum: `ExecutedByQuorum` alone is not
  inductive, as it says nothing of a trade about to be executed. Proved:
  `TypeOK`, `ExecutedByQuorum`, `PendingCanReachQuorum`, `ExecutedNearOracle`,
  `HistoryIsImmutable`, the refinement of `QuorumDecision`, and
  `HistoryComplete`: the indices a multisig has given its trades are the numbers
  below its `trade_count`, each once.
- `TradeLifecycleProofs`: for any trades, requests, chains and faults. `IInv`
  ties each program counter to the row it has read or written: a plan exists
  from attach on, an executing call's plan is the row's, an announcing handler's
  status has been written. Proved: `TypeOK`, `OrderHasPlan`,
  `AnnouncedWasWritten`, `OrderIsRecorded`, `RejectedNeverOrdered`, the
  refinement of `ExplicitExecution`. `RejectedNeverOrdered` rests on `ReadyInv`:
  a trade whose plan is announced or about to be was never rejected, and its
  handler, which alone could, ends with the announcement. `FeedIsComplete`
  compares two counts at the end of the handlers, and is inductive only as an
  account kept at every step: `CompleteInv` says that a status was written as
  often as it was announced, plus the calls and the prepare handler that are
  about to announce it. The calls are counted as a set, of which only finitely
  many ever announce.
- `UsageLedgerProofs`: for any callers, limits, days and faults. `IInv` adds
  that paid calls are past their reservation and that the calls admitted on a
  day, paid or about to be, are within the limit because the counter is at least
  the number of slots held. Proved: `TypeOK`, `PaidIsReserved`,
  `SlotsAreCounted`; and, where the Redis data is neither lost nor rebuilt
  (`MaxLosses = 0` and `MaxRebuilds = 0`), `BudgetHolds` and the refinement of
  `DailyBudget`. The run `ledger_cold_start` shows the assumption is needed.
  `BooksBalance` rests on `BalanceInv`: as long as nothing failed, a paid call is
  in one of four steps, has one outcome row from the step that ends it and none
  before, and the slots held, by paid and by refused calls, are exactly the
  counter, where `IInv` has only that they are not more.
- `McpClientProofs`: for any calls, ids, exits and timeouts. `IInv` adds that
  ids not given out are nowhere, that a request and its answer name the caller
  pending under their id (`OwnAnswer` rests on it), that who waits is pending
  and the reverse, and that a call is requested once and not performed before.
  Proved: `TypeOK`, `OwnAnswer`, `OneServer`, `NoLostCaller`, the refinement of
  `AtMostOnceCall`.
- `PriceFeedProofs`: for any pairs, feeds, registries and prices. `FeedInv` adds
  that a request's answer is of its type and that nothing is cached of a pair
  without a feed; with it `SameFeedSamePrice` is inductive, as every writer
  writes all the pairs of a feed or none. Proved: `FeedTypeOK`,
  `SameFeedSamePrice`.
- `TradePlanProofs`, over the former: for any requests, intents, offers,
  deployments and timeouts. `PlanInv` ties the frame of a round to the clock (it
  is never past its timeout, and a price by REST was not stale when the round
  began) and each quote to an adapter that answered; a request that awaits
  Hermes is one that asked for a pair with a feed. `CachedInv` says that a
  request took the cache's price only where the feed is live, which takes a
  registry without gaps: the exception of `PlanPriceIsRecent`. `RoundInv`, on
  top of it, says of what the intent, the adapters asked, the quotes and the
  plan are, and that each quote of a round is *for the amount the round spends*:
  its amount follows from some price p, and the price it states is p, is
  computed from the amounts, or is the inverse of p. From that and
  `validateRoute` the lemmas on the arithmetic of quotes (products, `\div`, both
  sides of the market) derive that the amount is at least what the trade is
  worth at the oracle's price less the deviation. Proved: `TypeOK` with
  `FeedTypeOK` of the composition, `EveryAnswerCounted`, `PlanPriceIsRecent`,
  and `PlanIsWorth`. `PlanWorth` has one hypothesis, `InverseIsFar`. For a
  purchase, `fetchZerox` states 0x's price as it comes, bought per sold token,
  the inverse of the pair's price; nothing but its distance from the oracle's
  rejects it. Where no deployment uses 0x the hypothesis says nothing and the
  theorem is unconditional; where one does, prices are at least 2 and the
  deviation at most half, as the configured 150 bps is. It is needed: with 0x, a
  price of 1 and a deviation of 10 %, TLC finds a plan that buys 11 % above the
  oracle's price, whose inverse is 10 % below it. Rounding costs the plan
  nothing, as the venue's amount and the fair one are rounded the same way.
- `OfflinePipelineProofs`: for any runs, setups, budgets and restarts. `Inv` is
  four parts. The crawlers': who leads, who shares, and that a post on its way
  was asserted against the budget of its day, so that a day's bill is at most
  what the processes before allowed, what this one has counted, the lost answers
  and one post over midnight; `BudgetIsBounded` alone says nothing of a post
  that is not answered yet. The queue's: a queued run is in it once. The
  counts': how many analyses and signals a run has stored at each step, by how
  often it was given back. The cache's: what it holds expires a time to live
  after it was fetched. Proved: `TypeOK`, `SingleFlight`, `DataIsFresh`,
  `BudgetIsBounded`, `SignalsAreVouched`.
- `LiveFeedProofs`: for any sockets, topics, rows and bounds. `Inv` adds that
  only a connection that is up carries events, that they are numbered in order
  and above all that the page has stored, and that loads and events name rows
  that are written; that at most one socket is in use is what makes the order of
  one connection the order of the store. Proved: `TypeOK`, `FeedInOrder`,
  `AnswerShowsItsEvent`.

Assumptions are the ASSUMEs of the component modules, each about constants:
finite sets of calls, sorts of numbers, model values outside the types, intents
as `TradeIntentSchema` admits them (known pairs, a side, any integer amount, a
slippage of 1 to 5000 bps), mock prices that agree where feeds do.

Only model-checked: the liveness properties (`OrderIsAnnounced`,
`IntentIsAnswered`, `CallEnds`, `CacheConverges`, `PrepareEnds`,
`QueuedRunsEnd`, `SubscriptionsArrive`), which with fairness are out of the
prover's reach. Every other property of the passing runs is stated by a theorem.

## Not modelled

- The market queries `getMarketNbbo` and `getCrossChainArb`, the arbitrage scan,
  cleaning and normalising: pure functions over one answer, without state.
- The agent identity registry: one write to an external chain and one to a file,
  on whose outcome nothing else depends.
- The MCP server endpoint of the backend: it calls the handlers that REST calls.
- Callers of the ledger that only append rows (LLM, Jev), texts and prompts.
- The crawlers' rows in PG, the SDK objects of Raydium and Orca, instructions
  inside a plan, signing and calldata.
- Presentation, forms and the other pages of the client; configuration and
  client wrappers, whose choices are the deployments and setups above and whose
  failures are the faults of the modules.

PROJECT.json names every component with its status and the reason.
