------------------------------ MODULE Crawlers ------------------------------
(***************************************************************************)
(* The Dune and CoinMarketCap crawlers: a cache with a time to live, one   *)
(* request in flight that every caller shares, the fallbacks, and Dune's   *)
(* budget of executions per day and process.                               *)
(*                                                                         *)
(* This is the deployment without the usage ledger; UsageLedger has the    *)
(* other.  The service runs on one event loop: code between two awaits is  *)
(* one action, and the clock stands while it has work.  OfflinePipeline    *)
(* composes this module with the runs that call the crawlers.              *)
(*                                                                         *)
(* Mut_X, before a definition it mutates, is that definition with a bug a  *)
(* change of the code could introduce; no action refers to it.             *)
(***************************************************************************)
EXTENDS Integers, FiniteSets

CONSTANTS
  Job,            \* pipeline runs
  NoJob,
  Setup,          \* the configurations to check
  Ttl,            \* cacheTtlMs of each crawler
  MaxExecutions,  \* maxExecutionsPerDay
  DayLength,
  LastTime,       \* bound on the clock
  MaxLost         \* bound on posts that Dune accepts and whose answer is lost

Crawler == {"coinmarketcap", "dune"}
Time == 0..LastTime
Day == 0..(LastTime \div DayLength)

ASSUME CrawlerAssumption ==
  /\ NoJob \notin Job
  /\ Ttl \in [Crawler -> Nat]
  /\ MaxExecutions \in Nat \ {0} /\ DayLength \in Nat \ {0}
  /\ LastTime \in Nat /\ MaxLost \in Nat
  /\ \A s \in Setup : {s.duneKey, s.duneMock, s.cmcKey} \subseteq BOOLEAN

\* What a crawler returns: the source it is from and when it was fetched.
Value == [source : {"coinmarketcap", "coingecko", "dune", "mock"}, at : Time]
NoValue == [source |-> "none", at |-> 0]
Empty == [expiresAt |-> 0, value |-> NoValue]

VARIABLES
  setup,           \* the configuration, which nothing changes
  now,
  cached,          \* cachedRows, cachedListings
  pending,         \* rowsRequest, listingsRequests: the run that started it
  flight,          \* flight[c][j]: how far the request that j started is
  crawl,           \* crawl[c][j]: where j stands in the crawler's run()
  executionDay, executionsToday,
  billed,          \* billed[d]: the executions Dune started on day d
  lost             \* posts that Dune accepted and whose answer was lost

budgetVars == <<executionDay, executionsToday, billed, lost>>
crawlVars == <<setup, now, cached, pending, flight, crawl, budgetVars>>

\* step: not called, leading or sharing a request, returned rows, or threw.
Call == [step : {"idle", "leads", "shares", "has", "failed"}, value : Value \cup {NoValue}]
NoCall == [step |-> "idle", value |-> NoValue]

CrawlTypeOK ==
  /\ setup \in Setup
  /\ now \in Time
  /\ cached \in [Crawler -> [expiresAt : Nat, value : Value \cup {NoValue}]]
  /\ pending \in [Crawler -> Job \cup {NoJob}]
  /\ flight \in [Crawler -> [Job -> {"none", "start", "post", "poll", "cmc", "gecko"}]]
  /\ crawl \in [Crawler -> [Job -> Call]]
  /\ executionDay \in Day /\ executionsToday \in 0..MaxExecutions
  /\ billed \in [Day -> Nat]
  /\ lost \in 0..MaxLost

\* The state of a process that has just started.
FreshProcess ==
  [cached |-> [c \in Crawler |-> Empty],
   pending |-> [c \in Crawler |-> NoJob],
   flight |-> [c \in Crawler |-> [j \in Job |-> "none"]],
   crawl |-> [c \in Crawler |-> [j \in Job |-> NoCall]]]

CrawlInit ==
  /\ setup \in Setup
  /\ now = 0
  /\ cached = FreshProcess.cached
  /\ pending = FreshProcess.pending
  /\ flight = FreshProcess.flight
  /\ crawl = FreshProcess.crawl
  /\ executionDay = 0 /\ executionsToday = 0
  /\ billed = [d \in Day |-> 0]
  /\ lost = 0

today == now \div DayLength

-----------------------------------------------------------------------------
(* fetchOnChainData and fetchListings, up to their first await *)

\* The rows in the cache, while they last.
Mut_NeverExpires(c) == cached[c].value # NoValue
Hits(c) == cached[c].expiresAt > now

\* No rows and no request in flight: the caller starts one.
Leads(c) == ~Hits(c) /\ pending[c] = NoJob

\* What a call gives a run before its first await.
Called(c) ==
  IF Hits(c) THEN [step |-> "has", value |-> cached[c].value]
  ELSE [step |-> IF Leads(c) THEN "leads" ELSE "shares", value |-> NoValue]

\* A run calls both crawlers in one turn.
callCrawlers(j) ==
  /\ crawl' = [c \in Crawler |-> [crawl[c] EXCEPT ![j] = Called(c)]]
  /\ flight' = [c \in Crawler |-> IF Leads(c) THEN [flight[c] EXCEPT ![j] = "start"]
                                  ELSE flight[c]]
  /\ pending' = [c \in Crawler |-> IF Leads(c) THEN j ELSE pending[c]]

-----------------------------------------------------------------------------
(* The end of a request *)

\* Every run that awaits the request of j; the others of c are not concerned.
Awaits(c, j, k) == k = j \/ (crawl[c][k].step = "shares" /\ pending[c] = j)

Ends(c, j, call) ==
  /\ flight' = [flight EXCEPT ![c][j] = "none"]
  /\ crawl' = [crawl EXCEPT ![c] = [k \in Job |->
                 IF Awaits(c, j, k) THEN call ELSE crawl[c][k]]]

\* The leader fills the cache and clears the request in one turn, before any of
\* the runs that share it goes on.
Settles(c, j, source) ==
  LET value == [source |-> source, at |-> now]
  IN  /\ Ends(c, j, [step |-> "has", value |-> value])
      /\ cached' = [cached EXCEPT ![c] = [expiresAt |-> now + Ttl[c], value |-> value]]
      /\ pending' = [pending EXCEPT ![c] = NoJob]

Mut_FailureIsKept(c, j) ==
  /\ Ends(c, j, [step |-> "failed", value |-> NoValue])
  /\ UNCHANGED <<cached, pending>>

\* A request that throws leaves neither rows nor a promise.
Throws(c, j) ==
  /\ Ends(c, j, [step |-> "failed", value |-> NoValue])
  /\ pending' = [pending EXCEPT ![c] = NoJob]
  /\ UNCHANGED cached

-----------------------------------------------------------------------------
(* Dune *)

\* The mock answers for a failure only when DUNE_USE_MOCK asks for it.
duneFails(j) == IF setup.duneMock THEN Settles("dune", j, "mock") ELSE Throws("dune", j)

\* assertExecutionBudget, with the counter of the last day it was asked.
executionsOf(day) == IF executionDay = day THEN executionsToday ELSE 0

executeSql(j) ==
  /\ flight["dune"][j] = "start"
  /\ IF setup.duneKey
     THEN /\ executionDay' = today
          /\ executionsToday' = executionsOf(today)
          /\ IF executionsOf(today) >= MaxExecutions THEN duneFails(j)
             ELSE /\ flight' = [flight EXCEPT !["dune"][j] = "post"]
                  /\ UNCHANGED <<cached, pending, crawl>>
     ELSE duneFails(j) /\ UNCHANGED <<executionDay, executionsToday>>
  /\ UNCHANGED <<setup, now, billed, lost>>

Mut_CountsResults(j) ==
  /\ flight["dune"][j] = "post"
  /\ \/ duneFails(j) /\ UNCHANGED <<executionsToday, billed, lost>>
     \/ /\ billed' = [billed EXCEPT ![today] = @ + 1]
        /\ flight' = [flight EXCEPT !["dune"][j] = "poll"]
        /\ UNCHANGED <<cached, pending, crawl, executionsToday, lost>>
     \/ /\ billed' = [billed EXCEPT ![today] = @ + 1]
        /\ lost < MaxLost /\ lost' = lost + 1
        /\ duneFails(j) /\ UNCHANGED executionsToday
  /\ UNCHANGED <<setup, now, executionDay>>

\* The post fails; it is answered, and counted, whatever day it is by now; or
\* Dune starts the execution and the answer does not come.
post(j) ==
  /\ flight["dune"][j] = "post"
  /\ \/ duneFails(j) /\ UNCHANGED <<executionsToday, billed, lost>>
     \/ /\ billed' = [billed EXCEPT ![today] = @ + 1]
        /\ executionsToday' = executionsToday + 1
        /\ flight' = [flight EXCEPT !["dune"][j] = "poll"]
        /\ UNCHANGED <<cached, pending, crawl, lost>>
     \/ /\ billed' = [billed EXCEPT ![today] = @ + 1]
        /\ lost < MaxLost /\ lost' = lost + 1
        /\ duneFails(j) /\ UNCHANGED executionsToday
  /\ UNCHANGED <<setup, now, executionDay>>

\* The execution completes and its rows are fetched; or it fails, times out, or
\* one of the requests does.
pollAndFetchResults(j) ==
  /\ flight["dune"][j] = "poll"
  /\ Settles("dune", j, "dune") \/ duneFails(j)
  /\ UNCHANGED <<setup, now, budgetVars>>

-----------------------------------------------------------------------------
(* CoinMarketCap *)

Goes(j, phase) ==
  /\ flight' = [flight EXCEPT !["coinmarketcap"][j] = phase]
  /\ UNCHANGED <<cached, pending, crawl>>

\* Without a key CoinMarketCap is not asked; a failure falls back to CoinGecko,
\* and its failure to the static listings, which are cached like any other.  An
\* answer of CoinMarketCap without listings is no failure to the fallback: it
\* throws when the listings are counted.
fetchFreshListings(j) ==
  /\ \/ flight["coinmarketcap"][j] = "start" /\ Goes(j, IF setup.cmcKey THEN "cmc" ELSE "gecko")
     \/ /\ flight["coinmarketcap"][j] = "cmc"
        /\ \/ Settles("coinmarketcap", j, "coinmarketcap")
           \/ Goes(j, "gecko")
           \/ Throws("coinmarketcap", j)
     \/ /\ flight["coinmarketcap"][j] = "gecko"
        /\ Settles("coinmarketcap", j, "coingecko") \/ Settles("coinmarketcap", j, "mock")
  /\ UNCHANGED <<setup, now, budgetVars>>

Request(j) == executeSql(j) \/ post(j) \/ pollAndFetchResults(j) \/ fetchFreshListings(j)

\* The clock stands while a request has not reached its first await.
tick ==
  /\ now < LastTime
  /\ \A c \in Crawler, j \in Job : flight[c][j] # "start"
  /\ now' = now + 1
  /\ UNCHANGED <<setup, cached, pending, flight, crawl, budgetVars>>

\* A new process: what was in memory is gone, and the day's counter with it.  A
\* post on its way may still reach Dune.
crawlersRestart ==
  /\ cached' = FreshProcess.cached
  /\ pending' = FreshProcess.pending
  /\ flight' = FreshProcess.flight
  /\ crawl' = FreshProcess.crawl
  /\ executionDay' = 0 /\ executionsToday' = 0
  /\ \/ UNCHANGED billed
     \/ /\ \E j \in Job : flight["dune"][j] = "post"
        /\ billed' = [billed EXCEPT ![today] = @ + 1]
  /\ UNCHANGED <<setup, now, lost>>

-----------------------------------------------------------------------------
(* Properties *)

\* At most one request of a crawler is in flight, it is the one new callers
\* share, and no run waits for one that has ended: a failure leaves no promise
\* behind that would fail every later run.
SingleFlight ==
  \A c \in Crawler :
    /\ \A j \in Job : flight[c][j] # "none" <=> pending[c] = j
    /\ \A j \in Job : crawl[c][j].step = "shares" => pending[c] # NoJob

=============================================================================
