------------------------ MODULE OfflinePipelineProofs ------------------------
(***************************************************************************)
(* Theorems about OfflinePipeline and the crawlers in it, for any runs,    *)
(* times to live, budgets, clocks, answers and restarts.                   *)
(***************************************************************************)
EXTENDS OfflinePipeline, TLAPS

-----------------------------------------------------------------------------
(* The inductive invariants *)

\* The types of what the crawlers keep in memory.
MemoryOK ==
  /\ cached \in [Crawler -> [expiresAt : Nat, value : Value \cup {NoValue}]]
  /\ pending \in [Crawler -> Job \cup {NoJob}]
  /\ flight \in [Crawler -> [Job -> {"none", "start", "post", "poll", "cmc", "gecko"}]]
  /\ crawl \in [Crawler -> [Job -> Call]]

FlightInv == MemoryOK /\ SingleFlight

\* What the processes before this one may have spent.
Allowance == restarts * MaxExecutions

\* A post on its way was asserted against the budget of the day it was sent on,
\* and is the first of a day that began meanwhile.
BudgetInv ==
  /\ executionDay \in Day /\ executionsToday \in 0..MaxExecutions
  /\ billed \in [Day -> Nat] /\ lost \in 0..MaxLost /\ restarts \in 0..MaxRestarts
  /\ executionDay <= today
  /\ \A j \in Job : flight["dune"][j] = "post" =>
       /\ executionsToday < MaxExecutions
       /\ executionDay < today => billed[today] = 0
  /\ \A d \in Day : d > today => billed[d] = 0
  /\ billed[today] <= Allowance + executionsOf(today) + lost + (IF today = 0 THEN 0 ELSE 1)
  /\ \A d \in Day : d < today =>
       billed[d] <= Allowance + MaxExecutions + lost + (IF d = 0 THEN 0 ELSE 1)

CrawlInv == setup \in Setup /\ now \in Time /\ FlightInv /\ BudgetInv

-----------------------------------------------------------------------------
(* Lemmas on days *)

\* The day of a later instant is not earlier.
LEMMA DivMono ==
  ASSUME NEW a \in Nat, NEW b \in Nat, NEW k \in Nat \ {0}, a <= b
  PROVE  a \div k \in Nat /\ b \div k \in Nat /\ a \div k <= b \div k
OBVIOUS

\* Every instant has a day, and none before the first.
LEMMA DayOfTime ==
  ASSUME NEW n \in Time
  PROVE  n \div DayLength \in Day /\ n \div DayLength \in Nat
<1>1. n \in Nat /\ LastTime \in Nat /\ n <= LastTime /\ DayLength \in Nat \ {0}
  BY CrawlerAssumption DEF Time
<1>2. n \div DayLength \in Nat /\ LastTime \div DayLength \in Nat
       /\ n \div DayLength <= LastTime \div DayLength
  BY <1>1, DivMono
<1> QED
  BY <1>2 DEF Day

\* 0 \div k is 0.
LEMMA DayZero == 0 \div DayLength = 0 /\ 0 \in Day
<1>1. DayLength \in Nat \ {0} /\ 0 \in Time
  BY CrawlerAssumption DEF Time
<1>2. 0 \div DayLength = 0
  BY <1>1
<1> QED
  BY <1>1, <1>2, DayOfTime

-----------------------------------------------------------------------------
(* The end of a request *)

\* Settles and Throws end the request of the run whose it is, and leave the
\* invariant of the memory.
LEMMA SettlesKeeps ==
  ASSUME FlightInv, now \in Time, NEW c \in Crawler, NEW j \in Job,
         flight[c][j] # "none", NEW s \in {"coinmarketcap", "coingecko", "dune", "mock"},
         Settles(c, j, s)
  PROVE  FlightInv'
<1> DEFINE v == [source |-> s, at |-> now]
<1>1. v \in Value /\ [step |-> "has", value |-> v] \in Call
  BY DEF Value, Call
<1>2. cached' = [cached EXCEPT ![c] = [expiresAt |-> now + Ttl[c], value |-> v]]
      /\ pending' = [pending EXCEPT ![c] = NoJob]
      /\ flight' = [flight EXCEPT ![c][j] = "none"]
      /\ crawl' = [crawl EXCEPT ![c] = [k \in Job |->
                 IF Awaits(c, j, k) THEN [step |-> "has", value |-> v] ELSE crawl[c][k]]]
  BY DEF Settles, Ends
<1>3. now + Ttl[c] \in Nat
  BY CrawlerAssumption DEF Time
<1>4. MemoryOK'
  BY <1>1, <1>2, <1>3 DEF FlightInv, MemoryOK
<1>5. pending[c] = j /\ \A k \in Job : flight[c][k] # "none" => k = j
  BY DEF FlightInv, SingleFlight
<1>6. \A d \in Crawler, k \in Job : flight'[d][k] # "none" <=> pending'[d] = k
  <2> TAKE d \in Crawler, k \in Job
  <2>1. CASE d = c
    BY <2>1, <1>2, <1>5, CrawlerAssumption DEF FlightInv, MemoryOK
  <2>2. CASE d # c
    BY <2>2, <1>2 DEF FlightInv, MemoryOK, SingleFlight
  <2> QED
    BY <2>1, <2>2
<1>7. \A d \in Crawler, k \in Job : crawl'[d][k].step = "shares" => pending'[d] # NoJob
  <2> TAKE d \in Crawler, k \in Job
  <2>1. CASE d = c
    <3>1. crawl'[c][k] = IF Awaits(c, j, k) THEN [step |-> "has", value |-> v] ELSE crawl[c][k]
      BY <1>2 DEF FlightInv, MemoryOK
    <3> QED
      BY <2>1, <3>1, <1>5 DEF Awaits
  <2>2. CASE d # c
    BY <2>2, <1>2 DEF FlightInv, MemoryOK, SingleFlight
  <2> QED
    BY <2>1, <2>2
<1> QED
  BY <1>4, <1>6, <1>7 DEF FlightInv, SingleFlight

LEMMA ThrowsKeeps ==
  ASSUME FlightInv, NEW c \in Crawler, NEW j \in Job,
         flight[c][j] # "none", Throws(c, j)
  PROVE  FlightInv'
<1> DEFINE f == [step |-> "failed", value |-> NoValue]
<1>1. f \in Call
  BY DEF Call
<1>2. cached' = cached
      /\ pending' = [pending EXCEPT ![c] = NoJob]
      /\ flight' = [flight EXCEPT ![c][j] = "none"]
      /\ crawl' = [crawl EXCEPT ![c] = [k \in Job |->
                 IF Awaits(c, j, k) THEN f ELSE crawl[c][k]]]
  BY DEF Throws, Ends
<1>3. MemoryOK'
  BY <1>1, <1>2 DEF FlightInv, MemoryOK
<1>4. pending[c] = j /\ \A k \in Job : flight[c][k] # "none" => k = j
  BY DEF FlightInv, SingleFlight
<1>5. \A d \in Crawler, k \in Job : flight'[d][k] # "none" <=> pending'[d] = k
  <2> TAKE d \in Crawler, k \in Job
  <2>1. CASE d = c
    BY <2>1, <1>2, <1>4, CrawlerAssumption DEF FlightInv, MemoryOK
  <2>2. CASE d # c
    BY <2>2, <1>2 DEF FlightInv, MemoryOK, SingleFlight
  <2> QED
    BY <2>1, <2>2
<1>6. \A d \in Crawler, k \in Job : crawl'[d][k].step = "shares" => pending'[d] # NoJob
  <2> TAKE d \in Crawler, k \in Job
  <2>1. CASE d = c
    <3>1. crawl'[c][k] = IF Awaits(c, j, k) THEN f ELSE crawl[c][k]
      BY <1>2 DEF FlightInv, MemoryOK
    <3> QED
      BY <2>1, <3>1, <1>4 DEF Awaits
  <2>2. CASE d # c
    BY <2>2, <1>2 DEF FlightInv, MemoryOK, SingleFlight
  <2> QED
    BY <2>1, <2>2
<1> QED
  BY <1>3, <1>5, <1>6 DEF FlightInv, SingleFlight

-----------------------------------------------------------------------------
(* The memory: each action *)

\* A run that calls the crawlers leads a request only where none is in flight.
LEMMA CallKeeps ==
  ASSUME FlightInv, now \in Time, NEW j \in Job, callCrawlers(j), cached' = cached
  PROVE  FlightInv'
<1>1. crawl' = [c \in Crawler |-> [crawl[c] EXCEPT ![j] = Called(c)]]
      /\ flight' = [c \in Crawler |-> IF Leads(c) THEN [flight[c] EXCEPT ![j] = "start"]
                                       ELSE flight[c]]
      /\ pending' = [c \in Crawler |-> IF Leads(c) THEN j ELSE pending[c]]
  BY DEF callCrawlers
<1>2. \A c \in Crawler : Called(c) \in Call
  BY DEF FlightInv, MemoryOK, Call, Called
<1>3. MemoryOK'
  <2>1. crawl' \in [Crawler -> [Job -> Call]]
    BY <1>1, <1>2 DEF FlightInv, MemoryOK
  <2>2. flight' \in [Crawler -> [Job -> {"none", "start", "post", "poll", "cmc", "gecko"}]]
    BY <1>1 DEF FlightInv, MemoryOK
  <2> QED
    BY <1>1, <2>1, <2>2 DEF FlightInv, MemoryOK
<1>4. ASSUME NEW c \in Crawler, NEW k \in Job
      PROVE  /\ flight'[c][k] # "none" <=> pending'[c] = k
             /\ crawl'[c][k].step = "shares" => pending'[c] # NoJob
  <2>1. crawl'[c][k] = IF k = j THEN Called(c) ELSE crawl[c][k]
    BY <1>1 DEF FlightInv, MemoryOK
  <2>2. CASE Leads(c)
    <3>1. \A i \in Job : flight[c][i] = "none"
      BY <2>2, CrawlerAssumption DEF FlightInv, SingleFlight, MemoryOK, Leads
    <3>2. pending'[c] = j /\ flight'[c] = [flight[c] EXCEPT ![j] = "start"]
      BY <2>2, <1>1
    <3> QED
      BY <3>1, <3>2, CrawlerAssumption DEF FlightInv, MemoryOK
  <2>3. CASE ~Leads(c)
    <3>1. pending'[c] = pending[c] /\ flight'[c] = flight[c]
      BY <2>3, <1>1
    <3>2. Called(c).step = "shares" => pending[c] # NoJob
      BY <2>3 DEF Called, Leads
    <3> QED
      BY <2>1, <3>1, <3>2 DEF FlightInv, SingleFlight
  <2> QED
    BY <2>2, <2>3
<1> QED
  BY <1>3, <1>4 DEF FlightInv, SingleFlight

\* A request that only goes on to its next await.
LEMMA PhaseKeeps ==
  ASSUME FlightInv, NEW c \in Crawler, NEW j \in Job, flight[c][j] # "none",
         NEW phase \in {"start", "post", "poll", "cmc", "gecko"},
         flight' = [flight EXCEPT ![c][j] = phase],
         UNCHANGED <<cached, pending, crawl>>
  PROVE  FlightInv'
<1>1. MemoryOK'
  BY DEF FlightInv, MemoryOK
<1>2. \A d \in Crawler, k \in Job :
        flight'[d][k] = IF d = c /\ k = j THEN phase ELSE flight[d][k]
  BY DEF FlightInv, MemoryOK
<1> QED
  BY <1>1, <1>2 DEF FlightInv, SingleFlight

\* A failure of Dune ends in the mock's rows or in an exception.
LEMMA DuneFails ==
  ASSUME FlightInv, now \in Time, NEW j \in Job, flight["dune"][j] # "none", duneFails(j)
  PROVE  FlightInv'
<1>1. "dune" \in Crawler
  BY DEF Crawler
<1>2. CASE Settles("dune", j, "mock")
  BY <1>1, <1>2, SettlesKeeps
<1>3. CASE Throws("dune", j)
  BY <1>1, <1>3, ThrowsKeeps
<1> QED
  BY <1>2, <1>3 DEF duneFails

\* Whatever a request does, it keeps the memory in order.
LEMMA RequestKeeps ==
  ASSUME FlightInv, now \in Time, NEW j \in Job, Request(j)
  PROVE  FlightInv'
<1>1. "dune" \in Crawler /\ "coinmarketcap" \in Crawler
  BY DEF Crawler
<1>2. CASE executeSql(j)
  <2>1. flight["dune"][j] # "none"
    BY <1>2 DEF executeSql
  <2>2. duneFails(j) \/ (/\ flight' = [flight EXCEPT !["dune"][j] = "post"]
                         /\ UNCHANGED <<cached, pending, crawl>>)
    BY <1>2 DEF executeSql
  <2> QED
    BY <1>1, <2>1, <2>2, DuneFails, PhaseKeeps
<1>3. CASE post(j)
  <2>1. flight["dune"][j] # "none"
    BY <1>3 DEF post
  <2>2. duneFails(j) \/ (/\ flight' = [flight EXCEPT !["dune"][j] = "poll"]
                         /\ UNCHANGED <<cached, pending, crawl>>)
    BY <1>3 DEF post
  <2> QED
    BY <1>1, <2>1, <2>2, DuneFails, PhaseKeeps
<1>4. CASE pollAndFetchResults(j)
  <2>1. flight["dune"][j] # "none" /\ (Settles("dune", j, "dune") \/ duneFails(j))
    BY <1>4 DEF pollAndFetchResults
  <2> QED
    BY <1>1, <2>1, DuneFails, SettlesKeeps
<1>5. CASE fetchFreshListings(j)
  <2>1. flight["coinmarketcap"][j] # "none"
    BY <1>5 DEF fetchFreshListings
  <2>2. \/ \E phase \in {"cmc", "gecko"} : Goes(j, phase)
        \/ \E s \in {"coinmarketcap", "coingecko", "mock"} : Settles("coinmarketcap", j, s)
        \/ Throws("coinmarketcap", j)
    BY <1>5 DEF fetchFreshListings
  <2>3. CASE \E phase \in {"cmc", "gecko"} : Goes(j, phase)
    BY <1>1, <2>1, <2>3, PhaseKeeps DEF Goes
  <2>4. CASE \E s \in {"coinmarketcap", "coingecko", "mock"} : Settles("coinmarketcap", j, s)
    BY <1>1, <2>1, <2>4, SettlesKeeps
  <2>5. CASE Throws("coinmarketcap", j)
    BY <1>1, <2>1, <2>5, ThrowsKeeps
  <2> QED
    BY <2>2, <2>3, <2>4, <2>5
<1> QED
  BY <1>2, <1>3, <1>4, <1>5 DEF Request

\* A new process has no request in flight.
LEMMA FreshMemory ==
  ASSUME cached' = FreshProcess.cached, pending' = FreshProcess.pending,
         flight' = FreshProcess.flight, crawl' = FreshProcess.crawl
  PROVE  FlightInv'
BY CrawlerAssumption
   DEF FlightInv, MemoryOK, SingleFlight, FreshProcess, Empty, NoCall, NoValue, Call

\* A run that takes its rows waits for nobody any more.
LEMMA CrawledKeeps ==
  ASSUME FlightInv, NEW j \in Job, crawled(j)
  PROVE  FlightInv'
<1>1. crawl' = [c \in Crawler |-> [crawl[c] EXCEPT ![j] = NoCall]]
      /\ UNCHANGED <<cached, pending, flight>>
  BY DEF crawled
<1>2. NoCall \in Call /\ NoCall.step = "idle"
  BY DEF NoCall, Call
<1>3. \A c \in Crawler, k \in Job : crawl'[c][k] = IF k = j THEN NoCall ELSE crawl[c][k]
  BY <1>1 DEF FlightInv, MemoryOK
<1>4. MemoryOK'
  BY <1>1, <1>2 DEF FlightInv, MemoryOK
<1> QED
  BY <1>1, <1>2, <1>3, <1>4 DEF FlightInv, SingleFlight

-----------------------------------------------------------------------------
(* The budget: each action *)

\* What has to be multiplied.
LEMMA AllowanceType ==
  ASSUME restarts \in Nat
  PROVE  /\ Allowance \in Nat
         /\ (restarts + 1) * MaxExecutions = Allowance + MaxExecutions
         /\ restarts' = restarts => Allowance' = Allowance
         /\ restarts' = restarts + 1 => Allowance' = Allowance + MaxExecutions
<1>1. MaxExecutions \in Nat
  BY CrawlerAssumption
<1> QED
  BY <1>1 DEF Allowance

\* Where a request's phase is all that changes, and it is not on its way to Dune.
LEMMA BudgetIdle ==
  ASSUME BudgetInv, now' = now, restarts' = restarts, UNCHANGED budgetVars,
         \A k \in Job : flight'["dune"][k] = "post" => flight["dune"][k] = "post"
  PROVE  BudgetInv'
<1>1. today' = today /\ executionsOf(today)' = executionsOf(today) /\ Allowance' = Allowance
  BY DEF today, executionsOf, budgetVars, Allowance
<1> QED
  BY <1>1 DEF BudgetInv, budgetVars

\* The end of a request takes it out of flight.
LEMMA EndsFlight ==
  ASSUME MemoryOK, NEW c \in Crawler, NEW j \in Job,
         \/ Throws(c, j) \/ \E s : Settles(c, j, s)
  PROVE  \A k \in Job : flight'["dune"][k] = "post" => flight["dune"][k] = "post"
<1>1. flight' = [flight EXCEPT ![c][j] = "none"]
  BY DEF Throws, Settles, Ends
<1> QED
  BY <1>1 DEF MemoryOK, Crawler

LEMMA BudgetExecute ==
  ASSUME CrawlInv, NEW j \in Job, executeSql(j), restarts' = restarts
  PROVE  BudgetInv'
<1>1. "dune" \in Crawler /\ MemoryOK /\ now' = now /\ UNCHANGED <<billed, lost>>
  BY DEF Crawler, CrawlInv, FlightInv, executeSql
<1>2. today' = today /\ Allowance' = Allowance
  BY <1>1 DEF today, Allowance
<1>3. CASE duneFails(j) /\ UNCHANGED <<executionDay, executionsToday>>
  BY <1>1, <1>3, EndsFlight, BudgetIdle DEF CrawlInv, duneFails, budgetVars
<1>4. CASE /\ executionDay' = today /\ executionsToday' = executionsOf(today)
           /\ \/ duneFails(j)
              \/ /\ executionsOf(today) < MaxExecutions
                 /\ flight' = [flight EXCEPT !["dune"][j] = "post"]
  <2>1. executionsOf(today)' = executionsOf(today)
    BY <1>2, <1>4 DEF executionsOf
  <2>2. today \in Day /\ today \in Nat
    BY DayOfTime DEF today, CrawlInv
  <2>3. executionsOf(today) \in 0..MaxExecutions
    BY CrawlerAssumption DEF executionsOf, CrawlInv, BudgetInv
  <2>4. \A k \in Job : flight'["dune"][k] = "post" => executionsToday' < MaxExecutions
    <3>1. CASE duneFails(j)
      <4>1. \A k \in Job : flight["dune"][k] = "none" \/ k = j
        BY <1>1 DEF CrawlInv, FlightInv, SingleFlight, executeSql
      <4>2. flight' = [flight EXCEPT !["dune"][j] = "none"]
        BY <3>1 DEF duneFails, Throws, Settles, Ends
      <4> QED
        BY <1>1, <4>1, <4>2 DEF MemoryOK
    <3>2. CASE executionsOf(today) < MaxExecutions
      BY <3>2, <1>4
    <3> QED
      BY <3>1, <3>2, <1>4
  <2> QED
    BY <1>1, <1>2, <1>4, <2>1, <2>2, <2>3, <2>4 DEF CrawlInv, BudgetInv
<1>5. executionsOf(today) \in Int /\ MaxExecutions \in Int
  BY CrawlerAssumption DEF executionsOf, CrawlInv, BudgetInv
<1> QED
  BY <1>3, <1>4, <1>5 DEF executeSql

LEMMA BudgetPost ==
  ASSUME CrawlInv, NEW j \in Job, post(j), restarts' = restarts
  PROVE  BudgetInv'
<1>1. "dune" \in Crawler /\ MemoryOK /\ now' = now /\ executionDay' = executionDay
      /\ flight["dune"][j] = "post"
  BY DEF Crawler, CrawlInv, FlightInv, post
<1>2. today' = today /\ Allowance' = Allowance /\ today \in Day /\ today \in Nat
  BY <1>1, DayOfTime DEF today, Allowance, CrawlInv
<1>3. \A k \in Job : flight'["dune"][k] # "post"
  <2>1. \A k \in Job : flight["dune"][k] = "none" \/ k = j
    BY <1>1 DEF CrawlInv, FlightInv, SingleFlight
  <2>2. \E p \in {"none", "poll"} : flight' = [flight EXCEPT !["dune"][j] = p]
    BY DEF post, duneFails, Throws, Settles, Ends
  <2> QED
    BY <1>1, <2>1, <2>2 DEF MemoryOK
<1>4. executionsToday < MaxExecutions /\ (executionDay < today => billed[today] = 0)
  BY <1>1 DEF CrawlInv, BudgetInv
<1>5. MaxExecutions \in Nat /\ MaxLost \in Nat /\ Allowance \in Nat
  BY CrawlerAssumption, AllowanceType DEF CrawlInv, BudgetInv
<1>6. CASE UNCHANGED <<executionsToday, billed, lost>>
  BY <1>1, <1>3, <1>6, BudgetIdle DEF CrawlInv, budgetVars
<1>d. \A d \in Day : d \in Nat
  BY DEF Day
<1>o. executionsOf(today) \in Nat
  BY DEF executionsOf, CrawlInv, BudgetInv
<1>b. ASSUME billed' = [billed EXCEPT ![today] = @ + 1], lost' \in Nat, lost' >= lost
      PROVE  /\ billed' \in [Day -> Nat] /\ billed'[today] = billed[today] + 1
             /\ \A d \in Day : d > today => billed'[d] = 0
             /\ \A d \in Day : d < today =>
                  billed'[d] <= Allowance + MaxExecutions + lost' + (IF d = 0 THEN 0 ELSE 1)
  <2>1. billed \in [Day -> Nat]
    BY DEF CrawlInv, BudgetInv
  <2>2. billed' \in [Day -> Nat] /\ billed'[today] = billed[today] + 1
        /\ \A d \in Day : d # today => billed'[d] = billed[d]
    BY <1>2, <1>b, <2>1
  <2>3. \A d \in Day : d > today => billed'[d] = 0
    BY <1>2, <1>d, <2>2 DEF CrawlInv, BudgetInv
  <2>4. ASSUME NEW d \in Day, d < today
        PROVE  billed'[d] <= Allowance + MaxExecutions + lost' + (IF d = 0 THEN 0 ELSE 1)
    <3>1. billed'[d] = billed[d] /\ billed[d] \in Nat /\ lost \in Nat
      BY <1>2, <1>d, <2>1, <2>2, <2>4 DEF CrawlInv, BudgetInv
    <3>2. billed[d] <= Allowance + MaxExecutions + lost + (IF d = 0 THEN 0 ELSE 1)
      BY <2>4 DEF CrawlInv, BudgetInv
    <3> QED
      BY <1>5, <1>b, <3>1, <3>2
  <2> QED
    BY <2>2, <2>3, <2>4
<1>7. CASE /\ billed' = [billed EXCEPT ![today] = @ + 1]
           /\ executionsToday' = executionsToday + 1 /\ lost' = lost
  <2>1. executionDay = today => executionsOf(today)' = executionsOf(today) + 1
    BY <1>1, <1>2, <1>7 DEF executionsOf
  <2>2. executionDay # today => executionsOf(today)' = 0 /\ executionsOf(today) = 0
    BY <1>1, <1>2 DEF executionsOf
  <2>3. executionDay \in Nat /\ executionDay <= today /\ billed[today] \in Nat /\ lost \in Nat
    BY <1>2, <1>d DEF CrawlInv, BudgetInv
  <2>4. billed[today] <= Allowance + executionsOf(today) + lost + (IF today = 0 THEN 0 ELSE 1)
    BY DEF CrawlInv, BudgetInv
  <2>5. billed[today] + 1
          <= Allowance + executionsOf(today)' + lost + (IF today = 0 THEN 0 ELSE 1)
    BY <1>2, <1>4, <1>5, <1>o, <2>1, <2>2, <2>3, <2>4
  <2>6. executionsToday' \in 0..MaxExecutions /\ lost' \in Nat /\ lost' >= lost
        /\ lost' \in 0..MaxLost /\ restarts' \in 0..MaxRestarts
    BY <1>4, <1>5, <1>7, <2>3 DEF CrawlInv, BudgetInv
  <2>7. billed' \in [Day -> Nat] /\ billed'[today] = billed[today] + 1
        /\ (\A d \in Day : d > today => billed'[d] = 0)
        /\ \A d \in Day : d < today =>
             billed'[d] <= Allowance + MaxExecutions + lost' + (IF d = 0 THEN 0 ELSE 1)
    BY <1>7, <1>b, <2>6
  <2>8. executionDay' \in Day
    BY <1>1 DEF CrawlInv, BudgetInv
  <2> QED
    BY <1>1, <1>2, <1>3, <1>7, <2>3, <2>5, <2>6, <2>7, <2>8 DEF BudgetInv
<1>8. CASE /\ billed' = [billed EXCEPT ![today] = @ + 1]
           /\ lost < MaxLost /\ lost' = lost + 1 /\ executionsToday' = executionsToday
  <2>1. executionsOf(today)' = executionsOf(today)
    BY <1>1, <1>2, <1>8 DEF executionsOf
  <2>2. lost \in Nat /\ lost' \in 0..MaxLost /\ lost' \in Nat /\ lost' >= lost
        /\ billed[today] \in Nat /\ executionsToday' \in 0..MaxExecutions
        /\ restarts' \in 0..MaxRestarts /\ executionDay' \in Day /\ executionDay' <= today
    BY <1>1, <1>2, <1>5, <1>8 DEF CrawlInv, BudgetInv
  <2>3. billed' \in [Day -> Nat] /\ billed'[today] = billed[today] + 1
        /\ (\A d \in Day : d > today => billed'[d] = 0)
        /\ \A d \in Day : d < today =>
             billed'[d] <= Allowance + MaxExecutions + lost' + (IF d = 0 THEN 0 ELSE 1)
    BY <1>8, <1>b, <2>2
  <2>4. billed[today] <= Allowance + executionsOf(today) + lost + (IF today = 0 THEN 0 ELSE 1)
    BY DEF CrawlInv, BudgetInv
  <2>5. billed[today] + 1
          <= Allowance + executionsOf(today)' + lost' + (IF today = 0 THEN 0 ELSE 1)
    BY <1>2, <1>5, <1>8, <1>o, <2>1, <2>2, <2>4
  <2> QED
    BY <1>1, <1>2, <1>3, <1>8, <2>2, <2>3, <2>5 DEF BudgetInv
<1> QED
  BY <1>6, <1>7, <1>8 DEF post

LEMMA BudgetRequest ==
  ASSUME CrawlInv, NEW j \in Job, Request(j), restarts' = restarts
  PROVE  BudgetInv'
<1>1. "dune" \in Crawler /\ "coinmarketcap" \in Crawler /\ MemoryOK
  BY DEF Crawler, CrawlInv, FlightInv
<1>2. CASE pollAndFetchResults(j)
  BY <1>1, <1>2, EndsFlight, BudgetIdle DEF CrawlInv, pollAndFetchResults, duneFails
<1>3. CASE fetchFreshListings(j)
  <2>1. \A k \in Job : flight'["dune"][k] = flight["dune"][k]
    <3>1. \E p : flight' = [flight EXCEPT !["coinmarketcap"][j] = p]
      BY <1>3 DEF fetchFreshListings, Goes, Settles, Throws, Ends
    <3> QED
      BY <1>1, <3>1 DEF MemoryOK
  <2> QED
    BY <1>3, <2>1, BudgetIdle DEF CrawlInv, fetchFreshListings
<1> QED
  BY <1>2, <1>3, BudgetExecute, BudgetPost DEF Request

\* Midnight: nothing is billed yet on the new day.
LEMMA BudgetTick ==
  ASSUME CrawlInv, tick, restarts' = restarts
  PROVE  BudgetInv'
<1>1. now \in Nat /\ now' = now + 1 /\ now' \in Time /\ now' \in Nat
      /\ UNCHANGED <<flight, executionDay, executionsToday, billed, lost>>
  BY CrawlerAssumption DEF tick, CrawlInv, Time, budgetVars
<1>2. today \in Day /\ today \in Nat /\ today' \in Day /\ today' \in Nat
  BY <1>1, DayOfTime DEF today, CrawlInv
<1>3. today <= today'
  BY <1>1, DivMono, CrawlerAssumption DEF today
<1>4. Allowance' = Allowance /\ Allowance \in Nat /\ MaxExecutions \in Nat
  BY AllowanceType, CrawlerAssumption DEF CrawlInv, BudgetInv
<1>5. \A d \in Day : d \in Nat /\ billed[d] \in Nat
  BY DEF Day, CrawlInv, BudgetInv
<1>6. executionsOf(today) \in 0..MaxExecutions /\ lost \in Nat
  BY <1>4 DEF executionsOf, CrawlInv, BudgetInv
<1>7. executionDay \in Nat /\ executionDay <= today
  BY <1>5 DEF CrawlInv, BudgetInv
<1>8. CASE today' = today
  <2>1. executionsOf(today)' = executionsOf(today)
    BY <1>1, <1>8 DEF executionsOf
  <2> QED
    BY <1>1, <1>4, <1>8, <2>1 DEF CrawlInv, BudgetInv
<1>9. CASE today' > today
  <2>1. billed'[today'] = 0
    BY <1>1, <1>2, <1>9 DEF CrawlInv, BudgetInv
  <2>2. executionsOf(today)' = 0
    BY <1>1, <1>2, <1>7, <1>9 DEF executionsOf
  <2>3. \A d \in Day : d > today' => billed'[d] = 0
    BY <1>1, <1>2, <1>5, <1>9 DEF CrawlInv, BudgetInv
  <2>4. ASSUME NEW d \in Day, d < today'
        PROVE  billed'[d] <= Allowance' + MaxExecutions + lost' + (IF d = 0 THEN 0 ELSE 1)
    <3>1. CASE d < today
      BY <1>1, <1>4, <3>1 DEF CrawlInv, BudgetInv
    <3>2. CASE d = today
      <4>1. billed[today] <= Allowance + executionsOf(today) + lost + (IF today = 0 THEN 0 ELSE 1)
        BY DEF CrawlInv, BudgetInv
      <4> QED
        BY <1>1, <1>2, <1>4, <1>5, <1>6, <3>2, <4>1
    <3>3. CASE d > today
      <4>1. billed[d] = 0
        BY <3>3 DEF CrawlInv, BudgetInv
      <4> QED
        BY <1>1, <1>4, <1>6, <4>1
    <3> QED
      BY <1>2, <1>5, <3>1, <3>2, <3>3
  <2> QED
    BY <1>1, <1>2, <1>4, <1>6, <1>7, <1>9, <2>1, <2>2, <2>3, <2>4 DEF CrawlInv, BudgetInv
<1> QED
  BY <1>2, <1>3, <1>8, <1>9

\* A new process has its own budget, and a post on its way is in the old one's.
LEMMA BudgetRestart ==
  ASSUME CrawlInv, crawlersRestart, restarts' = restarts + 1, restarts < MaxRestarts
  PROVE  BudgetInv'
<1>1. now' = now /\ lost' = lost /\ executionDay' = 0 /\ executionsToday' = 0
      /\ flight' = FreshProcess.flight
  BY DEF crawlersRestart
<1>2. today' = today /\ today \in Day /\ today \in Nat
  BY <1>1, DayOfTime DEF today, CrawlInv
<1>3. Allowance' = Allowance + MaxExecutions /\ Allowance \in Nat /\ MaxExecutions \in Nat \ {0}
  BY AllowanceType, CrawlerAssumption DEF CrawlInv, BudgetInv
<1>4. executionsOf(today)' = 0
  BY <1>1, <1>2 DEF executionsOf
<1>5. \A k \in Job : flight'["dune"][k] # "post"
  BY <1>1 DEF FreshProcess, Crawler
<1>6. \A d \in Day : d \in Nat /\ billed[d] \in Nat
  BY DEF Day, CrawlInv, BudgetInv
<1>7. executionsOf(today) \in 0..MaxExecutions /\ lost \in Nat
  BY <1>3 DEF executionsOf, CrawlInv, BudgetInv
<1>8. billed[today] <= Allowance + executionsOf(today) + lost + (IF today = 0 THEN 0 ELSE 1)
  BY DEF CrawlInv, BudgetInv
<1>9. /\ billed' \in [Day -> Nat]
      /\ \A d \in Day : d # today => billed'[d] = billed[d]
      /\ billed'[today] <= Allowance + MaxExecutions + lost + (IF today = 0 THEN 0 ELSE 1)
  <2>1. CASE billed' = billed
    BY <1>2, <1>3, <1>6, <1>7, <1>8, <2>1 DEF CrawlInv, BudgetInv
  <2>2. CASE /\ \E j \in Job : flight["dune"][j] = "post"
             /\ billed' = [billed EXCEPT ![today] = @ + 1]
    <3>1. billed \in [Day -> Nat]
      BY DEF CrawlInv, BudgetInv
    <3>2. billed' \in [Day -> Nat] /\ billed'[today] = billed[today] + 1
          /\ \A d \in Day : d # today => billed'[d] = billed[d]
      BY <1>2, <2>2, <3>1
    <3>3. executionsToday < MaxExecutions /\ executionsToday \in Nat
      BY <2>2 DEF CrawlInv, BudgetInv
    <3>4. executionsOf(today) < MaxExecutions
      BY <1>3, <3>3 DEF executionsOf
    <3>5. billed[today] + 1 <= Allowance + MaxExecutions + lost + (IF today = 0 THEN 0 ELSE 1)
      BY <1>2, <1>3, <1>6, <1>7, <1>8, <3>4
    <3> QED
      BY <3>2, <3>5
  <2> QED
    BY <2>1, <2>2 DEF crawlersRestart
<1>10. \A d \in Day : d > today => billed'[d] = 0
  BY <1>2, <1>6, <1>9 DEF CrawlInv, BudgetInv
<1>11. ASSUME NEW d \in Day, d < today
       PROVE  billed'[d] <= Allowance' + MaxExecutions + lost' + (IF d = 0 THEN 0 ELSE 1)
  <2>1. billed'[d] = billed[d]
    BY <1>2, <1>6, <1>9, <1>11
  <2>2. billed[d] <= Allowance + MaxExecutions + lost + (IF d = 0 THEN 0 ELSE 1)
    BY <1>11 DEF CrawlInv, BudgetInv
  <2> QED
    BY <1>1, <1>3, <1>6, <1>7, <2>1, <2>2
<1>12. restarts' \in 0..MaxRestarts /\ lost' \in 0..MaxLost /\ executionDay' \in Day
  BY <1>1, DayZero, PipelineAssumption DEF CrawlInv, BudgetInv
<1> QED
  BY <1>1, <1>2, <1>3, <1>4, <1>5, <1>9, <1>10, <1>11, <1>12 DEF BudgetInv

-----------------------------------------------------------------------------
(* The crawlers: every step *)

\* The steps, as far as the crawlers are concerned.
LEMMA CrawlSteps ==
  ASSUME [Next]_vars, queue \in Seq(Job)
  PROVE  \/ /\ \E j \in Job : callCrawlers(j)
            /\ UNCHANGED <<setup, now, cached, budgetVars, restarts>>
         \/ \E j \in Job : Request(j) /\ restarts' = restarts
         \/ \E j \in Job : crawled(j)
         \/ crawlersRestart /\ restarts < MaxRestarts /\ restarts' = restarts + 1
         \/ tick /\ restarts' = restarts
         \/ UNCHANGED <<crawlVars, restarts>>
<1>1. CASE UNCHANGED vars
  BY <1>1 DEF vars, runVars
<1>2. CASE Start
  BY <1>2 DEF Start, onModuleInit, initFails, shutdown, initialRun, runPipeline
<1>3. CASE work
  <2>1. Head(queue) \in Job
    BY <1>3 DEF work
  <2> QED
    BY <1>3, <2>1 DEF work, runPipeline
<1>4. CASE restart
  BY <1>4 DEF restart
<1>5. ASSUME NEW j \in Job, enqueue(j) \/ runInline(j)
      PROVE  \/ callCrawlers(j) /\ UNCHANGED <<setup, now, cached, budgetVars, restarts>>
             \/ UNCHANGED <<crawlVars, restarts>>
  BY <1>5 DEF enqueue, runInline, runPipeline
<1>6. ASSUME NEW j \in Job, Step(j)
      PROVE  \/ Request(j) /\ restarts' = restarts
             \/ crawled(j)
             \/ UNCHANGED <<crawlVars, restarts>>
  BY <1>6 DEF Step, generateAnalysis, evaluate, storeAnalysis, persistSignals, complete, runVars
<1>7. CASE tick /\ UNCHANGED runVars
  BY <1>7 DEF runVars
<1> QED
  BY <1>1, <1>2, <1>3, <1>4, <1>5, <1>6, <1>7 DEF Next

LEMMA CrawlInvInit == Init => CrawlInv
<1> SUFFICES ASSUME Init PROVE CrawlInv
  OBVIOUS
<1>1. FlightInv
  BY CrawlerAssumption
     DEF Init, CrawlInit, FlightInv, MemoryOK, SingleFlight, FreshProcess, Empty, NoCall, NoValue, Call
<1>2. now = 0 /\ 0 \in Time /\ today = 0
  BY DayZero, CrawlerAssumption DEF Init, CrawlInit, today, Time
<1>3. Allowance = 0 /\ executionsOf(today) = 0
  BY CrawlerAssumption DEF Init, CrawlInit, Allowance, executionsOf
<1>4. \A k \in Job : flight["dune"][k] # "post"
  BY DEF Init, CrawlInit, FreshProcess, Crawler
<1>5. BudgetInv
  BY <1>2, <1>3, <1>4, DayZero, CrawlerAssumption, PipelineAssumption
     DEF Init, CrawlInit, BudgetInv, Day
<1> QED
  BY <1>1, <1>2, <1>5 DEF CrawlInv, Init, CrawlInit

LEMMA CrawlInvNext ==
  ASSUME CrawlInv, [Next]_vars, queue \in Seq(Job)
  PROVE  CrawlInv'
<1> USE DEF CrawlInv
<1>1. ASSUME NEW j \in Job, callCrawlers(j),
             UNCHANGED <<setup, now, cached, budgetVars, restarts>>
      PROVE  CrawlInv'
  <2>1. FlightInv'
    BY <1>1, CallKeeps
  <2>2. \A k \in Job : flight'["dune"][k] = "post" => flight["dune"][k] = "post"
    BY <1>1 DEF callCrawlers, FlightInv, MemoryOK, Crawler
  <2> QED
    BY <1>1, <2>1, <2>2, BudgetIdle
<1>2. ASSUME NEW j \in Job, Request(j), restarts' = restarts
      PROVE  CrawlInv'
  <2>1. setup' = setup /\ now' = now
    BY <1>2 DEF Request, executeSql, post, pollAndFetchResults, fetchFreshListings
  <2> QED
    BY <1>2, <2>1, RequestKeeps, BudgetRequest
<1>3. ASSUME NEW j \in Job, crawled(j)
      PROVE  CrawlInv'
  <2>1. UNCHANGED <<setup, now, flight, budgetVars, restarts>>
    BY <1>3 DEF crawled
  <2> QED
    BY <1>3, <2>1, CrawledKeeps, BudgetIdle
<1>4. ASSUME crawlersRestart, restarts < MaxRestarts, restarts' = restarts + 1
      PROVE  CrawlInv'
  <2>1. setup' = setup /\ now' = now
    BY <1>4 DEF crawlersRestart
  <2>2. FlightInv'
    BY <1>4, FreshMemory DEF crawlersRestart
  <2> QED
    BY <1>4, <2>1, <2>2, BudgetRestart
<1>5. ASSUME tick, restarts' = restarts
      PROVE  CrawlInv'
  <2>1. setup' = setup /\ now' \in Time /\ UNCHANGED <<cached, pending, flight, crawl>>
    BY <1>5, CrawlerAssumption DEF tick, Time
  <2>2. FlightInv'
    BY <2>1 DEF FlightInv, MemoryOK, SingleFlight
  <2> QED
    BY <1>5, <2>1, <2>2, BudgetTick
<1>6. ASSUME UNCHANGED <<crawlVars, restarts>>
      PROVE  CrawlInv'
  <2>1. UNCHANGED <<setup, now, cached, pending, flight, crawl, budgetVars, restarts>>
    BY <1>6 DEF crawlVars
  <2>2. FlightInv'
    BY <2>1 DEF FlightInv, MemoryOK, SingleFlight
  <2> QED
    BY <2>1, <2>2, BudgetIdle
<1> QED
  BY <1>1, <1>2, <1>3, <1>4, <1>5, <1>6, CrawlSteps

-----------------------------------------------------------------------------
(* The queue, the worker and the runs *)

Frames == [step : {"new", "queued"} \cup Running \cup Ended, since : Time,
           answer : Answer \cup {NoAnswer}, approved : BOOLEAN, todo : SUBSET Rsi]

SchedulerStates == {"off", "starting", "up", "closing", "manual"}

QueueInv ==
  /\ scheduler \in SchedulerStates
  /\ queue \in Seq(Job)
  /\ \A i, k \in DOMAIN queue : queue[i] = queue[k] => i = k
  /\ \A j \in Job : At(j, "queued") <=> \E i \in DOMAIN queue : queue[i] = j
  /\ active \in Job \cup {NoJob}
  /\ active \in Job => run[active].step \in Running
  /\ run \in [Job -> Frames]

\* A frame that begins, and one that ends.
LEMMA FrameType ==
  ASSUME NEW step \in {"new", "queued"} \cup Running \cup Ended, NEW n \in Time
  PROVE  /\ Frame(step, n) \in Frames /\ Frame(step, n).step = step /\ Frame(step, n).since = n
         /\ Frame(step, n).todo = {} /\ ~Frame(step, n).approved
BY DEF Frame, Frames

\* 0 is an instant.
LEMMA ZeroTime == 0 \in Time
BY CrawlerAssumption DEF Time

\* A run that goes on or ends, the worker's or another.
LEMMA FrameKeeps ==
  ASSUME QueueInv, NEW j \in Job, NEW f \in Frames, run' = [run EXCEPT ![j] = f],
         run[j].step # "queued", f.step # "queued", queue' = queue,
         scheduler' \in SchedulerStates,
         \/ active' = active /\ (active = j => f.step \in Running)
         \/ active' = IF active = j THEN NoJob ELSE active
  PROVE  QueueInv'
<1>1. run' \in [Job -> Frames] /\ run'[j] = f /\ \A k \in Job : k # j => run'[k] = run[k]
  BY DEF QueueInv
<1>2. \A k \in Job : run'[k].step = "queued" <=> run[k].step = "queued"
  BY <1>1
<1>3. active' \in Job \cup {NoJob} /\ (active' \in Job => run'[active'].step \in Running)
  BY <1>1, CrawlerAssumption DEF QueueInv
<1> QED
  BY <1>1, <1>2, <1>3 DEF QueueInv, At

\* What is left of the runs of a process that ended.
LEMMA LeftBehindFrame ==
  ASSUME QueueInv, NEW j \in Job
  PROVE  /\ LeftBehind(j) \in Frames
         /\ LeftBehind(j).step = "queued" <=>
              (j = active /\ GivenBack) \/ run[j].step = "queued"
         /\ \/ LeftBehind(j) = run[j] /\ run[j].step \notin Running
            \/ /\ LeftBehind(j).since = 0 /\ LeftBehind(j).todo = {} /\ ~LeftBehind(j).approved
               /\ LeftBehind(j).step = IF j = active /\ GivenBack THEN "queued" ELSE "failed"
<1>1. /\ Frame("queued", 0) \in Frames /\ Frame("queued", 0).step = "queued"
      /\ Frame("queued", 0).since = 0 /\ Frame("queued", 0).todo = {}
      /\ ~Frame("queued", 0).approved
      /\ Frame("failed", 0) \in Frames /\ Frame("failed", 0).step = "failed"
      /\ Frame("failed", 0).since = 0 /\ Frame("failed", 0).todo = {}
      /\ ~Frame("failed", 0).approved
  BY FrameType, ZeroTime DEF Ended
<1>2. run[j] \in Frames /\ (j = active => run[j].step \in Running)
  BY DEF QueueInv
<1>3. CASE run[j].step \notin Running
  BY <1>2, <1>3 DEF LeftBehind
<1>4. CASE run[j].step \in Running /\ j = active /\ GivenBack
  BY <1>1, <1>4 DEF LeftBehind
<1>5. CASE run[j].step \in Running /\ ~(j = active /\ GivenBack)
  <2>1. run[j].step # "queued" /\ LeftBehind(j) = Frame("failed", 0)
    BY <1>5 DEF LeftBehind, Running
  <2> QED
    BY <1>1, <1>5, <2>1
<1> QED
  BY <1>3, <1>4, <1>5

LEMMA RestartQueue ==
  ASSUME QueueInv, restart
  PROVE  QueueInv'
<1>1. scheduler' = "off" /\ active' = NoJob
      /\ queue' = (IF GivenBack THEN <<active>> \o queue ELSE queue)
      /\ run' = [j \in Job |-> LeftBehind(j)]
  BY DEF restart
<1>2. run' \in [Job -> Frames]
  BY <1>1, LeftBehindFrame
<1>3. \A j \in Job : run'[j].step = "queued" <=>
                      (j = active /\ GivenBack) \/ run[j].step = "queued"
  BY <1>1, LeftBehindFrame
<1>4. CASE ~GivenBack
  BY <1>1, <1>2, <1>3, <1>4, CrawlerAssumption DEF QueueInv, At, SchedulerStates
<1>5. CASE GivenBack
  <2>1. active \in Job /\ run[active].step \in Running
    BY <1>5 DEF QueueInv, GivenBack
  <2>2. \A i \in DOMAIN queue : queue[i] # active
    BY <2>1 DEF QueueInv, At, Running
  <2>3. queue' \in Seq(Job) /\ Len(queue') = Len(queue) + 1 /\ DOMAIN queue' = 1..(Len(queue) + 1)
        /\ queue'[1] = active /\ DOMAIN queue = 1..Len(queue)
        /\ \A i \in 1..Len(queue) : queue'[i + 1] = queue[i]
    BY <1>1, <1>5, <2>1 DEF QueueInv
  <2>4. \A i \in DOMAIN queue' : i = 1 \/ (i - 1 \in DOMAIN queue /\ queue'[i] = queue[i - 1])
    <3> TAKE i \in DOMAIN queue'
    <3>1. i \in Int /\ Len(queue) \in Nat /\ i >= 1 /\ i <= Len(queue) + 1
      BY <2>3 DEF QueueInv
    <3>2. i = 1 \/ i - 1 \in 1..Len(queue)
      BY <3>1
    <3>3. i - 1 \in 1..Len(queue) => queue'[(i - 1) + 1] = queue[i - 1]
      BY <2>3
    <3>4. (i - 1) + 1 = i
      BY <3>1
    <3> QED
      BY <2>3, <3>2, <3>3, <3>4
  <2>5. \A i, k \in DOMAIN queue' : queue'[i] = queue'[k] => i = k
    <3> SUFFICES ASSUME NEW i \in DOMAIN queue', NEW k \in DOMAIN queue', queue'[i] = queue'[k]
                 PROVE  i = k
      OBVIOUS
    <3>1. i \in Int /\ k \in Int
      BY <2>3
    <3>2. CASE i = 1 \/ k = 1
      BY <2>2, <2>3, <2>4, <3>2
    <3>3. CASE i # 1 /\ k # 1
      <4>1. i - 1 = k - 1
        BY <2>4, <3>3 DEF QueueInv
      <4> QED
        BY <3>1, <4>1
    <3> QED
      BY <3>2, <3>3
  <2>6. \A j \in Job : (\E i \in DOMAIN queue' : queue'[i] = j)
                        <=> (j = active \/ \E i \in DOMAIN queue : queue[i] = j)
    <3> TAKE j \in Job
    <3>1. ASSUME NEW i \in DOMAIN queue, queue[i] = j PROVE \E n \in DOMAIN queue' : queue'[n] = j
      <4>1. i \in 1..Len(queue) /\ Len(queue) \in Nat
        BY <2>3 DEF QueueInv
      <4>2. i + 1 \in 1..(Len(queue) + 1)
        BY <4>1
      <4> QED
        BY <2>3, <3>1, <4>1, <4>2
    <3>2. 1 \in DOMAIN queue'
      BY <2>3 DEF QueueInv
    <3> QED
      BY <2>3, <2>4, <3>1, <3>2
  <2>7. \A j \in Job : run'[j].step = "queued" <=> \E i \in DOMAIN queue' : queue'[i] = j
    BY <1>3, <1>5, <2>6 DEF QueueInv, At
  <2>8. active' \notin Job
    BY <1>1, CrawlerAssumption
  <2> QED
    BY <1>1, <1>2, <2>3, <2>5, <2>7, <2>8 DEF QueueInv, At, SchedulerStates
<1> QED
  BY <1>4, <1>5

LEMMA EnqueueQueue ==
  ASSUME QueueInv, NEW j \in Job, enqueue(j)
  PROVE  QueueInv'
<1>1. scheduler' = scheduler /\ active' = active /\ queue' = Append(queue, j)
      /\ run' = [run EXCEPT ![j].step = "queued"] /\ run[j].step = "new"
  BY DEF enqueue, Becomes, At
<1>2. run' \in [Job -> Frames]
      /\ \A k \in Job : run'[k].step = IF k = j THEN "queued" ELSE run[k].step
  <2>1. run[j] \in Frames
    BY DEF QueueInv
  <2>2. [run[j] EXCEPT !.step = "queued"] \in Frames /\ [run[j] EXCEPT !.step = "queued"].step = "queued"
    BY <2>1 DEF Frames
  <2>3. run' = [run EXCEPT ![j] = [run[j] EXCEPT !.step = "queued"]]
    BY <1>1
  <2> QED
    BY <2>2, <2>3 DEF QueueInv
<1>3. queue' \in Seq(Job) /\ DOMAIN queue' = 1..(Len(queue) + 1) /\ DOMAIN queue = 1..Len(queue)
      /\ queue'[Len(queue) + 1] = j /\ \A i \in 1..Len(queue) : queue'[i] = queue[i]
  BY <1>1 DEF QueueInv
<1>4. \A i \in DOMAIN queue : queue[i] # j
  BY <1>1 DEF QueueInv, At
<1>5. Len(queue) \in Nat
  BY DEF QueueInv
<1>6. \A i, k \in DOMAIN queue' : queue'[i] = queue'[k] => i = k
  BY <1>3, <1>4, <1>5 DEF QueueInv
<1>7. \A k \in Job : (\E i \in DOMAIN queue' : queue'[i] = k)
                      <=> (k = j \/ \E i \in DOMAIN queue : queue[i] = k)
  BY <1>3, <1>5
<1>8. active' \in Job => active # j
  BY <1>1 DEF QueueInv, Running
<1> QED
  BY <1>1, <1>2, <1>3, <1>6, <1>7, <1>8 DEF QueueInv, At

LEMMA WorkQueue ==
  ASSUME QueueInv, now \in Time, work
  PROVE  QueueInv'
<1> DEFINE j == Head(queue)
<1>1. active' = j /\ queue' = Tail(queue) /\ queue # << >> /\ scheduler' = scheduler
      /\ run' = [run EXCEPT ![j] = Frame("crawling", now)]
  BY DEF work, runPipeline
<1>2. j \in Job /\ Len(queue) \in Nat /\ Len(queue) >= 1 /\ j = queue[1] /\ DOMAIN queue = 1..Len(queue)
  BY <1>1 DEF QueueInv
<1>3. queue' \in Seq(Job) /\ DOMAIN queue' = 1..(Len(queue) - 1)
      /\ \A i \in 1..(Len(queue) - 1) : queue'[i] = queue[i + 1]
  BY <1>1, <1>2 DEF QueueInv
<1> HIDE DEF j
<1>4. run' \in [Job -> Frames]
      /\ \A k \in Job : run'[k].step = IF k = j THEN "crawling" ELSE run[k].step
  BY <1>1, <1>2, FrameType DEF QueueInv, Running
<1>5. \A i, k \in DOMAIN queue' : queue'[i] = queue'[k] => i = k
  <2> SUFFICES ASSUME NEW i \in DOMAIN queue', NEW k \in DOMAIN queue', queue'[i] = queue'[k]
               PROVE  i = k
    OBVIOUS
  <2>1. i + 1 \in DOMAIN queue /\ k + 1 \in DOMAIN queue /\ i \in Int /\ k \in Int
    BY <1>2, <1>3
  <2>2. i + 1 = k + 1
    BY <1>3, <2>1 DEF QueueInv
  <2> QED
    BY <2>1, <2>2
<1>6. \A i \in DOMAIN queue' : queue'[i] # j
  <2> TAKE i \in DOMAIN queue'
  <2>1. i + 1 \in DOMAIN queue /\ 1 \in DOMAIN queue /\ i + 1 # 1
    BY <1>2, <1>3
  <2> QED
    BY <1>2, <1>3, <2>1 DEF QueueInv
<1>7. ASSUME NEW k \in Job, k # j
      PROVE  (\E i \in DOMAIN queue' : queue'[i] = k) <=> (\E i \in DOMAIN queue : queue[i] = k)
  <2>1. ASSUME NEW i \in DOMAIN queue, queue[i] = k PROVE \E n \in DOMAIN queue' : queue'[n] = k
    <3>1. i \in Int /\ i # 1 /\ i - 1 \in 1..(Len(queue) - 1) /\ (i - 1) + 1 = i
      BY <1>2, <1>7, <2>1
    <3> QED
      BY <1>3, <2>1, <3>1
  <2>2. ASSUME NEW i \in DOMAIN queue', queue'[i] = k PROVE \E n \in DOMAIN queue : queue[n] = k
    <3>1. i + 1 \in 1..Len(queue)
      BY <1>2, <1>3
    <3> QED
      BY <1>2, <1>3, <2>2, <3>1
  <2> QED
    BY <2>1, <2>2
<1> QED
  BY <1>1, <1>2, <1>3, <1>4, <1>5, <1>6, <1>7 DEF QueueInv, At, Running

-----------------------------------------------------------------------------
(* What a run does, action by action *)

\* The frame f that a step of run j makes of its frame.
Proceeds(j, f) ==
  /\ run' = [run EXCEPT ![j] = f]
  /\ run[j].step \in Running /\ f.step # "crawling" /\ f.step # "queued"
  /\ f.since \in {run[j].since, 0}
  /\ UNCHANGED <<queue, stalled, scheduler, restarts, setup, now>>
  /\ \/ active' = active /\ f.step \in Running
     \/ active' = IF active = j THEN NoJob ELSE active

\* A configuration whose gate withholds what its provider did not vouch for.
Strict(config) == config.mode = "enforce" /\ config.provider # "none"

\* Before the analysis is stored: an approval is the gate's.
Prepares(j, f) ==
  /\ UNCHANGED <<analyses, stored>>
  /\ f.step \in {"analysing", "gating", "storing"} /\ run[j].step # "persisting"
  /\ f.todo = run[j].todo
  /\ f.approved => \/ run[j].approved /\ f.answer = run[j].answer
                   \/ Strict(setup) => status(f.answer) = "pass"

Stores(j, f) ==
  /\ run[j].step = "storing" /\ f.step = "persisting"
  /\ analyses' = [analyses EXCEPT ![j] = @ + 1] /\ stored' = stored
  /\ f.answer = run[j].answer /\ f.approved = run[j].approved
  /\ f.todo = {} \/ f.approved

Persists(j, f) ==
  /\ run[j].step = "persisting" /\ f.step = "persisting"
  /\ analyses' = analyses
  /\ f.answer = run[j].answer /\ f.approved = run[j].approved
  /\ \E s \in run[j].todo :
       /\ f.todo = run[j].todo \ {s}
       /\ stored' = [stored EXCEPT ![j][s] = @ + 1] \/ stored' = stored

Finishes(j, f) ==
  /\ UNCHANGED <<analyses, stored>>
  /\ f.step \in Ended /\ f.todo = {} /\ ~f.approved

LEMMA CrawledFrame ==
  ASSUME QueueInv, NEW j \in Job, crawled(j)
  PROVE  \E f \in Frames : Proceeds(j, f) /\ Prepares(j, f)
<1> DEFINE f == [run[j] EXCEPT !.step = "analysing", !.since = 0]
<1>1. run[j] \in Frames /\ run[j].step = "crawling" /\ run' = [run EXCEPT ![j] = f]
  BY DEF crawled, At, QueueInv
<1>2. f \in Frames /\ f.step = "analysing" /\ f.since = 0 /\ f.answer = run[j].answer
      /\ f.approved = run[j].approved /\ f.todo = run[j].todo
  BY <1>1, ZeroTime DEF Frames, Running
<1>3. UNCHANGED <<queue, stalled, scheduler, restarts, setup, now, active, analyses, stored>>
  BY DEF crawled
<1> HIDE DEF f
<1> QED
  BY <1>1, <1>2, <1>3 DEF Proceeds, Prepares, Running

LEMMA AnalysisFrame ==
  ASSUME QueueInv, NEW j \in Job, generateAnalysis(j)
  PROVE  \E f \in Frames : Proceeds(j, f) /\ Prepares(j, f)
<1>1. run[j] \in Frames /\ run[j].step = "analysing"
      /\ UNCHANGED <<queue, stalled, scheduler, restarts, setup, now, active, analyses, stored>>
  BY DEF generateAnalysis, At, QueueInv, crawlVars
<1>2. CASE run' = [run EXCEPT ![j].step = "gating"]
  <2> DEFINE f == [run[j] EXCEPT !.step = "gating"]
  <2>1. f \in Frames /\ f.step = "gating" /\ f.since = run[j].since /\ f.answer = run[j].answer
        /\ f.approved = run[j].approved /\ f.todo = run[j].todo
    BY <1>1 DEF Frames, Running
  <2>2. run' = [run EXCEPT ![j] = f]
    BY <1>2
  <2> HIDE DEF f
  <2> QED
    BY <1>1, <2>1, <2>2 DEF Proceeds, Prepares, Running
<1>3. CASE run' = [run EXCEPT ![j].step = "storing",
                              ![j].approved = ~Gated \/ setup.mode # "enforce"]
  <2> DEFINE ok == ~Gated \/ setup.mode # "enforce"
             f == [run[j] EXCEPT !.step = "storing", !.approved = ok]
  <2>1. ok \in BOOLEAN /\ (ok => ~Strict(setup))
    BY DEF Gated, Strict
  <2>2. run' = [run EXCEPT ![j] = f]
    BY <1>3
  <2> HIDE DEF ok
  <2>3. f \in Frames /\ f.step = "storing" /\ f.since = run[j].since /\ f.todo = run[j].todo
        /\ f.approved = ok
    BY <1>1, <2>1 DEF Frames, Running
  <2> HIDE DEF f
  <2> QED
    BY <1>1, <2>1, <2>2, <2>3 DEF Proceeds, Prepares, Running
<1> QED
  BY <1>2, <1>3 DEF generateAnalysis, Becomes

LEMMA GateFrame ==
  ASSUME QueueInv, NEW j \in Job, evaluate(j)
  PROVE  \E f \in Frames : Proceeds(j, f) /\ Prepares(j, f)
<1>1. run[j] \in Frames /\ run[j].step = "gating"
      /\ UNCHANGED <<queue, stalled, scheduler, restarts, setup, now, active, analyses, stored>>
  BY DEF evaluate, At, QueueInv, crawlVars
<1>2. PICK answer \in Answer \cup {NoAnswer} :
        run' = [run EXCEPT ![j].step = "storing", ![j].answer = answer,
                           ![j].approved = approves(answer)]
  BY DEF evaluate
<1> DEFINE ok == approves(answer)
           f == [run[j] EXCEPT !.step = "storing", !.answer = answer, !.approved = ok]
<1>3. ok \in BOOLEAN /\ (ok => (Strict(setup) => status(answer) = "pass"))
  BY DEF approves, Strict
<1>4. run' = [run EXCEPT ![j] = f]
  BY <1>2
<1> HIDE DEF ok
<1>5. f \in Frames /\ f.step = "storing" /\ f.since = run[j].since /\ f.answer = answer
      /\ f.approved = ok /\ f.todo = run[j].todo
  BY <1>1, <1>3 DEF Frames, Running
<1> HIDE DEF f
<1> QED
  BY <1>1, <1>3, <1>4, <1>5 DEF Proceeds, Prepares, Running

\* A run that is over.
LEMMA EndFrame ==
  ASSUME QueueInv, NEW j \in Job, NEW step \in Ended, End(j, step), run[j].step \in Running,
         UNCHANGED <<queue, stalled, scheduler, restarts, setup, now, analyses, stored>>
  PROVE  \E f \in Frames : Proceeds(j, f) /\ Finishes(j, f)
<1>0. step \in {"new", "queued"} \cup Running \cup Ended /\ 0 \in Time
  BY ZeroTime
<1>1. Frame(step, 0) \in Frames /\ Frame(step, 0).step = step /\ Frame(step, 0).since = 0
      /\ Frame(step, 0).todo = {} /\ ~Frame(step, 0).approved
  BY <1>0, FrameType
<1>2. run' = [run EXCEPT ![j] = Frame(step, 0)] /\ active' = IF active = j THEN NoJob ELSE active
  BY DEF End
<1>3. step # "crawling" /\ step # "queued"
  BY DEF Ended
<1> QED
  BY <1>1, <1>2, <1>3 DEF Proceeds, Finishes

LEMMA StoreFrame ==
  ASSUME QueueInv, NEW j \in Job, storeAnalysis(j)
  PROVE  \E f \in Frames : Proceeds(j, f) /\ (Stores(j, f) \/ Finishes(j, f))
<1>1. run[j] \in Frames /\ run[j].step = "storing" /\ run[j].step \in Running
      /\ UNCHANGED <<queue, stalled, scheduler, restarts, setup, now, stored>>
  BY DEF storeAnalysis, At, QueueInv, crawlVars, Running
<1>2. CASE End(j, "failed") /\ UNCHANGED analyses
  <2>1. "failed" \in Ended
    BY DEF Ended
  <2> QED
    BY <1>1, <1>2, <2>1, EndFrame
<1>3. CASE /\ analyses' = [analyses EXCEPT ![j] = @ + 1]
           /\ run' = [run EXCEPT ![j].step = "persisting",
                        ![j].todo = IF run[j].approved THEN generateSignals ELSE {}]
           /\ UNCHANGED active
  <2> DEFINE todo == IF run[j].approved THEN generateSignals ELSE {}
             f == [run[j] EXCEPT !.step = "persisting", !.todo = todo]
  <2>1. todo \in SUBSET Rsi /\ (todo = {} \/ run[j].approved)
    BY DEF generateSignals
  <2>2. run' = [run EXCEPT ![j] = f]
    BY <1>3
  <2> HIDE DEF todo
  <2>3. f \in Frames /\ f.step = "persisting" /\ f.since = run[j].since /\ f.answer = run[j].answer
        /\ f.approved = run[j].approved /\ f.todo = todo
    BY <1>1, <2>1 DEF Frames, Running
  <2> HIDE DEF f
  <2> QED
    BY <1>1, <1>3, <2>1, <2>2, <2>3 DEF Proceeds, Stores, Running
<1> QED
  BY <1>2, <1>3 DEF storeAnalysis

LEMMA PersistFrame ==
  ASSUME QueueInv, NEW j \in Job, persistSignals(j)
  PROVE  \E f \in Frames : Proceeds(j, f) /\ Persists(j, f)
<1>1. run[j] \in Frames /\ run[j].step = "persisting"
      /\ UNCHANGED <<queue, stalled, scheduler, restarts, setup, now, active, analyses>>
  BY DEF persistSignals, At, QueueInv, crawlVars
<1>2. PICK s \in run[j].todo :
        /\ run' = [run EXCEPT ![j].todo = @ \ {s}]
        /\ stored' = [stored EXCEPT ![j][s] = @ + 1] \/ stored' = stored
  BY DEF persistSignals
<1> DEFINE f == [run[j] EXCEPT !.todo = run[j].todo \ {s}]
<1>3. run' = [run EXCEPT ![j] = f]
  BY <1>2
<1>4. f \in Frames /\ f.step = "persisting" /\ f.since = run[j].since /\ f.answer = run[j].answer
      /\ f.approved = run[j].approved /\ f.todo = run[j].todo \ {s}
  BY <1>1 DEF Frames
<1> HIDE DEF f
<1> QED
  BY <1>1, <1>2, <1>3, <1>4 DEF Proceeds, Persists, Running

LEMMA StepFrame ==
  ASSUME QueueInv, NEW j \in Job, Step(j)
  PROVE  \/ Request(j) /\ UNCHANGED runVars
         \/ \E f \in Frames :
              /\ Proceeds(j, f)
              /\ Prepares(j, f) \/ Stores(j, f) \/ Persists(j, f) \/ Finishes(j, f)
<1>1. CASE complete(j)
  <2>1. "completed" \in Ended /\ run[j].step \in Running
    BY <1>1 DEF Ended, complete, At, Running
  <2>2. End(j, "completed") /\ UNCHANGED <<queue, stalled, scheduler, restarts, setup, now, analyses, stored>>
    BY <1>1 DEF complete, crawlVars
  <2> QED
    BY <2>1, <2>2, EndFrame
<1> QED
  BY <1>1, CrawledFrame, AnalysisFrame, GateFrame, StoreFrame, PersistFrame DEF Step

-----------------------------------------------------------------------------
(* The counts of a run, and how fresh its rows are *)

\* An analysis more than the job stalled only while or after its signals are
\* stored; a signal still to be stored is stored for earlier analyses at most;
\* and an approval is the gate's.
Counts(f, n, rows, stalls, config) ==
  /\ n <= stalls + (IF f.step \in {"persisting"} \cup Ended THEN 1 ELSE 0)
  /\ f.todo # {} => f.step = "persisting" /\ f.approved
  /\ f.approved => (Strict(config) => status(f.answer) = "pass")
  /\ \A s \in Rsi : rows[s] + (IF s \in f.todo THEN 1 ELSE 0) <= n

CountInv ==
  /\ stalled \in [Job -> 0..MaxStalledCount]
  /\ analyses \in [Job -> Nat] /\ stored \in [Job -> [Rsi -> Nat]]
  /\ \A j \in Job : Counts(run[j], analyses[j], stored[j], stalled[j], setup)

\* What is in a cache lasts no longer than its time to live after the fetch,
\* and no run began in the future.
FreshInv ==
  /\ \A c \in Crawler : \/ cached[c].expiresAt = 0
                        \/ cached[c].expiresAt = cached[c].value.at + Ttl[c]
  /\ \A j \in Job : run[j].since <= now
  /\ DataIsFresh

\* Only the counts of run j are concerned by a step of it.
LEMMA CountsOf ==
  ASSUME CountInv, QueueInv, NEW j \in Job, NEW f \in Frames, Proceeds(j, f),
         analyses' \in [Job -> Nat], stored' \in [Job -> [Rsi -> Nat]],
         \A k \in Job : k # j => analyses'[k] = analyses[k] /\ stored'[k] = stored[k],
         Counts(f, analyses'[j], stored'[j], stalled[j], setup)
  PROVE  CountInv'
<1>1. run'[j] = f /\ (\A k \in Job : k # j => run'[k] = run[k])
      /\ UNCHANGED <<setup, stalled>>
  BY DEF Proceeds, QueueInv
<1>2. \A k \in Job : Counts(run'[k], analyses'[k], stored'[k], stalled'[k], setup')
  BY <1>1 DEF CountInv
<1> QED
  BY <1>1, <1>2 DEF CountInv

\* A step of run j that changes neither counts nor what its frame allows.
LEMMA PrepareCounts ==
  ASSUME CountInv, QueueInv, NEW j \in Job, NEW f \in Frames,
         Proceeds(j, f), Prepares(j, f)
  PROVE  CountInv'
<1>1. Counts(run[j], analyses[j], stored[j], stalled[j], setup)
      /\ analyses[j] \in Nat /\ stalled[j] \in Nat
  BY DEF CountInv, MaxStalledCount
<1>2. f.step \notin {"persisting"} \cup Ended /\ run[j].step \notin {"persisting"} \cup Ended
  BY DEF Prepares, Proceeds, Ended, Running
<1>3. f.todo = run[j].todo /\ run[j].todo = {}
  BY <1>1, <1>2 DEF Prepares, Counts
<1>4. f.approved => (Strict(setup) => status(f.answer) = "pass")
  BY <1>1 DEF Prepares, Counts
<1>5. Counts(f, analyses[j], stored[j], stalled[j], setup)
  BY <1>1, <1>2, <1>3, <1>4 DEF Counts
<1> QED
  BY <1>5, CountsOf DEF Prepares, CountInv

LEMMA StoreCounts ==
  ASSUME CountInv, QueueInv, NEW j \in Job, NEW f \in Frames,
         Proceeds(j, f), Stores(j, f)
  PROVE  CountInv'
<1>1. Counts(run[j], analyses[j], stored[j], stalled[j], setup)
      /\ analyses[j] \in Nat /\ stalled[j] \in Nat /\ stored[j] \in [Rsi -> Nat]
  BY DEF CountInv, MaxStalledCount
<1>2. run[j].step = "storing" /\ f.step = "persisting" /\ f.answer = run[j].answer
      /\ f.approved = run[j].approved /\ (f.todo = {} \/ f.approved)
      /\ analyses' = [analyses EXCEPT ![j] = analyses[j] + 1] /\ stored' = stored
  BY DEF Stores
<1>3. analyses' \in [Job -> Nat] /\ analyses'[j] = analyses[j] + 1
      /\ \A k \in Job : k # j => analyses'[k] = analyses[k]
  BY <1>1, <1>2 DEF CountInv
<1>4. run[j].step \notin {"persisting"} \cup Ended /\ f.step \in {"persisting"} \cup Ended
  BY <1>2 DEF Ended
<1>5. analyses[j] <= stalled[j] /\ \A s \in Rsi : stored[j][s] <= analyses[j]
  BY <1>1, <1>4 DEF Counts
<1>6. \A s \in Rsi : stored[j][s] + (IF s \in f.todo THEN 1 ELSE 0) <= analyses[j] + 1
  BY <1>1, <1>5
<1>7. Counts(f, analyses[j] + 1, stored[j], stalled[j], setup)
  BY <1>1, <1>2, <1>4, <1>5, <1>6 DEF Counts
<1> QED
  BY <1>2, <1>3, <1>7, CountsOf DEF CountInv

LEMMA PersistCounts ==
  ASSUME CountInv, QueueInv, NEW j \in Job, NEW f \in Frames,
         Proceeds(j, f), Persists(j, f)
  PROVE  CountInv'
<1>1. Counts(run[j], analyses[j], stored[j], stalled[j], setup)
      /\ analyses[j] \in Nat /\ stalled[j] \in Nat /\ stored[j] \in [Rsi -> Nat]
  BY DEF CountInv, MaxStalledCount
<1>2. run[j].step = "persisting" /\ f.step = "persisting" /\ f.answer = run[j].answer
      /\ f.approved = run[j].approved /\ analyses' = analyses
  BY DEF Persists
<1>3. PICK s \in run[j].todo :
        /\ f.todo = run[j].todo \ {s}
        /\ stored' = [stored EXCEPT ![j][s] = @ + 1] \/ stored' = stored
  BY DEF Persists
<1>4. s \in Rsi /\ run[j].todo # {} /\ run[j].approved
  BY <1>1, <1>3 DEF QueueInv, Frames, Counts
<1>5. stored' \in [Job -> [Rsi -> Nat]] /\ stored'[j][s] \in {stored[j][s], stored[j][s] + 1}
      /\ (\A r \in Rsi : r # s => stored'[j][r] = stored[j][r])
      /\ (\A k \in Job : k # j => stored'[k] = stored[k])
  BY <1>1, <1>3, <1>4 DEF CountInv
<1>6. \A r \in Rsi : stored'[j][r] + (IF r \in f.todo THEN 1 ELSE 0) <= analyses[j]
  <2> TAKE r \in Rsi
  <2>1. stored[j][r] + (IF r \in run[j].todo THEN 1 ELSE 0) <= analyses[j]
    BY <1>1 DEF Counts
  <2>2. stored[j][r] \in Nat
    BY <1>1
  <2>3. CASE r = s
    BY <2>1, <2>2, <2>3, <1>1, <1>3, <1>5
  <2>4. CASE r # s
    BY <2>1, <2>4, <1>3, <1>5
  <2> QED
    BY <2>3, <2>4
<1>7. analyses[j] <= stalled[j] + (IF f.step \in {"persisting"} \cup Ended THEN 1 ELSE 0)
  BY <1>1, <1>2 DEF Counts
<1>8. f.approved => (Strict(setup) => status(f.answer) = "pass")
  BY <1>1, <1>2 DEF Counts
<1>9. Counts(f, analyses[j], stored'[j], stalled[j], setup)
  BY <1>2, <1>4, <1>6, <1>7, <1>8 DEF Counts
<1> QED
  BY <1>2, <1>5, <1>9, CountsOf DEF CountInv

LEMMA FinishCounts ==
  ASSUME CountInv, QueueInv, NEW j \in Job, NEW f \in Frames,
         Proceeds(j, f), Finishes(j, f)
  PROVE  CountInv'
<1>1. Counts(run[j], analyses[j], stored[j], stalled[j], setup)
      /\ analyses[j] \in Nat /\ stalled[j] \in Nat /\ stored[j] \in [Rsi -> Nat]
  BY DEF CountInv, MaxStalledCount
<1>2. f.step \in {"persisting"} \cup Ended /\ f.todo = {} /\ ~f.approved
      /\ analyses' = analyses /\ stored' = stored
  BY DEF Finishes
<1>3. analyses[j] <= stalled[j] + 1 /\ \A s \in Rsi : stored[j][s] <= analyses[j]
  BY <1>1 DEF Counts
<1>4. Counts(f, analyses[j], stored[j], stalled[j], setup)
  BY <1>1, <1>2, <1>3 DEF Counts
<1> QED
  BY <1>2, <1>4, CountsOf DEF CountInv

-----------------------------------------------------------------------------
(* Every step *)

\* A run begins: the worker's, the initial one or one started over REST.
Begins(j) ==
  /\ runPipeline(j) /\ run[j].step \in {"new", "queued"}
  /\ UNCHANGED <<setup, now, cached, stalled, analyses, stored, restarts>>
  /\ \/ work
     \/ /\ run[j].step = "new" /\ UNCHANGED <<queue, active>>
        /\ scheduler' \in SchedulerStates

\* A run goes on or ends.
GoesOn(j) ==
  /\ \E f \in Frames :
       /\ Proceeds(j, f)
       /\ Prepares(j, f) \/ Stores(j, f) \/ Persists(j, f) \/ Finishes(j, f)
  /\ crawled(j) \/ UNCHANGED crawlVars

LEMMA RunSteps ==
  ASSUME QueueInv, [Next]_vars
  PROVE  \/ \E j \in Job :
              Begins(j) \/ GoesOn(j) \/ enqueue(j) \/ (Request(j) /\ UNCHANGED runVars)
         \/ restart
         \/ tick /\ UNCHANGED runVars
         \/ /\ UNCHANGED <<crawlVars, queue, active, stalled, run, analyses, stored, restarts>>
            /\ scheduler' \in SchedulerStates
<1>1. CASE UNCHANGED vars
  BY <1>1 DEF vars, runVars, QueueInv
<1>2. CASE onModuleInit \/ initFails \/ shutdown
  BY <1>2 DEF onModuleInit, initFails, shutdown, crawlVars, SchedulerStates
<1>3. ASSUME NEW j \in Job, initialRun(j) \/ runInline(j)
      PROVE  Begins(j)
  <2>1. run[j].step = "new" /\ runPipeline(j)
        /\ UNCHANGED <<setup, now, cached, stalled, analyses, stored, restarts, queue, active>>
    BY <1>3 DEF initialRun, runInline, At
  <2>2. scheduler' \in SchedulerStates
    BY <1>3 DEF initialRun, runInline, QueueInv, SchedulerStates
  <2> QED
    BY <2>1, <2>2 DEF Begins
<1>4. ASSUME work
      PROVE  \E j \in Job : Begins(j)
  <2>1. queue \in Seq(Job) /\ queue # << >>
    BY <1>4 DEF work, QueueInv
  <2>2. Head(queue) \in Job /\ 1 \in DOMAIN queue /\ queue[1] = Head(queue)
    BY <2>1
  <2>3. run[Head(queue)].step = "queued"
    BY <2>2 DEF QueueInv, At
  <2>4. runPipeline(Head(queue))
        /\ UNCHANGED <<setup, now, cached, stalled, analyses, stored, restarts>>
    BY <1>4 DEF work
  <2> QED
    BY <1>4, <2>2, <2>3, <2>4 DEF Begins
<1>5. ASSUME NEW j \in Job, Step(j)
      PROVE  GoesOn(j) \/ (Request(j) /\ UNCHANGED runVars)
  <2>1. crawled(j) \/ UNCHANGED crawlVars \/ (Request(j) /\ UNCHANGED runVars)
    BY <1>5 DEF Step, generateAnalysis, evaluate, storeAnalysis, persistSignals, complete
  <2> QED
    BY <1>5, <2>1, StepFrame DEF GoesOn
<1>6. \/ UNCHANGED vars \/ onModuleInit \/ initFails \/ shutdown \/ work \/ restart
      \/ tick /\ UNCHANGED runVars
      \/ \E j \in Job : initialRun(j) \/ runInline(j) \/ enqueue(j) \/ Step(j)
  BY Zenon DEF Next, Start
<1>7. ASSUME NEW j \in Job, initialRun(j) \/ runInline(j) \/ enqueue(j) \/ Step(j)
      PROVE  Begins(j) \/ GoesOn(j) \/ enqueue(j) \/ (Request(j) /\ UNCHANGED runVars)
  <2>1. CASE initialRun(j) \/ runInline(j)
    BY <2>1, <1>3
  <2>2. CASE enqueue(j)
    BY <2>2
  <2>3. CASE Step(j)
    BY <2>3, <1>5
  <2> QED
    BY <1>7, <2>1, <2>2, <2>3
<1> QED
  BY <1>1, <1>2, <1>4, <1>6, <1>7

\* The queue and the worker.
LEMMA QueueInvNext ==
  ASSUME QueueInv, now \in Time, [Next]_vars
  PROVE  QueueInv'
<1>1. ASSUME NEW j \in Job, Begins(j)
      PROVE  QueueInv'
  <2>1. CASE work
    BY <2>1, WorkQueue
  <2>2. CASE /\ run[j].step = "new" /\ UNCHANGED <<queue, active>>
             /\ scheduler' \in SchedulerStates
    <3>1. run' = [run EXCEPT ![j] = Frame("crawling", now)] /\ "crawling" \in Running
      BY <1>1 DEF Begins, runPipeline, Running
    <3>2. Frame("crawling", now) \in Frames /\ Frame("crawling", now).step = "crawling"
      BY <3>1, FrameType
    <3> QED
      BY <2>2, <3>1, <3>2, FrameKeeps
  <2> QED
    BY <1>1, <2>1, <2>2 DEF Begins
<1>2. ASSUME NEW j \in Job, GoesOn(j)
      PROVE  QueueInv'
  <2>1. PICK f \in Frames : Proceeds(j, f)
    BY <1>2 DEF GoesOn
  <2>2. run' = [run EXCEPT ![j] = f] /\ run[j].step # "queued" /\ f.step # "queued"
        /\ queue' = queue /\ scheduler' \in SchedulerStates
    BY <2>1 DEF Proceeds, Running, QueueInv
  <2>3. \/ active' = active /\ (active = j => f.step \in Running)
        \/ active' = IF active = j THEN NoJob ELSE active
    BY <2>1 DEF Proceeds
  <2> QED
    BY <2>2, <2>3, FrameKeeps
<1>3. ASSUME UNCHANGED <<queue, active, run>>,
             scheduler' \in SchedulerStates
      PROVE  QueueInv'
  BY <1>3 DEF QueueInv, At
<1>4. ASSUME UNCHANGED runVars
      PROVE  QueueInv'
  BY <1>3, <1>4 DEF runVars, QueueInv
<1> QED
  BY <1>1, <1>2, <1>3, <1>4, RunSteps, EnqueueQueue, RestartQueue

\* What a run may have stored, at the first state and after every step.
LEMMA QueueInvInit == Init => QueueInv
<1> SUFFICES ASSUME Init PROVE QueueInv
  OBVIOUS
<1>1. Frame("new", 0) \in Frames /\ Frame("new", 0).step = "new"
  BY FrameType, ZeroTime
<1>2. run = [j \in Job |-> Frame("new", 0)] /\ queue = << >> /\ scheduler = "off" /\ active = NoJob
  BY DEF Init
<1>3. queue \in Seq(Job) /\ DOMAIN queue = {}
  BY <1>2
<1> QED
  BY <1>1, <1>2, <1>3, CrawlerAssumption DEF QueueInv, At, SchedulerStates

LEMMA CountInvInit == Init => CountInv
<1> SUFFICES ASSUME Init PROVE CountInv
  OBVIOUS
<1>1. Frame("new", 0).step = "new" /\ Frame("new", 0).todo = {} /\ ~Frame("new", 0).approved
  BY FrameType, ZeroTime
<1>2. run = [j \in Job |-> Frame("new", 0)] /\ analyses = [j \in Job |-> 0]
      /\ stored = [j \in Job |-> [r \in Rsi |-> 0]] /\ stalled = [j \in Job |-> 0]
  BY DEF Init
<1>3. \A j \in Job : run[j] = Frame("new", 0) /\ analyses[j] = 0 /\ stalled[j] = 0
                     /\ \A s \in Rsi : stored[j][s] = 0
  BY <1>2
<1>4. \A j \in Job : Counts(run[j], analyses[j], stored[j], stalled[j], setup)
  BY <1>1, <1>2, <1>3 DEF Counts, Ended
<1> QED
  BY <1>2, <1>4 DEF CountInv, MaxStalledCount

\* A step that changes no count, and lets no frame store more.
LEMMA SameCounts ==
  ASSUME CountInv, UNCHANGED <<setup, analyses, stored>>,
         stalled' \in [Job -> 0..MaxStalledCount],
         \A k \in Job :
           \/ run'[k] = run[k] /\ stalled'[k] = stalled[k]
           \/ /\ run'[k].todo = {} /\ ~run'[k].approved
              /\ stalled'[k] \in {stalled[k], stalled[k] + 1}
              /\ \/ stalled[k] < stalled'[k] \/ run'[k].step \in Ended
                 \/ run[k].step \notin {"persisting"} \cup Ended
           \/ /\ run[k].step = "new" /\ stalled'[k] = stalled[k] /\ run'[k].todo = run[k].todo
              /\ run'[k].approved = run[k].approved /\ run'[k].answer = run[k].answer
  PROVE  CountInv'
<1>1. ASSUME NEW k \in Job
      PROVE  Counts(run'[k], analyses[k], stored[k], stalled'[k], setup)
  <2>1. Counts(run[k], analyses[k], stored[k], stalled[k], setup)
        /\ stalled[k] \in Nat /\ stalled'[k] \in Nat /\ analyses[k] \in Nat /\ stored[k] \in [Rsi -> Nat]
    BY DEF CountInv, MaxStalledCount
  <2>2. analyses[k] <= stalled[k] + 1 /\ \A s \in Rsi : stored[k][s] <= analyses[k]
    BY <2>1 DEF Counts
  <2>3. run[k].step \notin {"persisting"} \cup Ended => analyses[k] <= stalled[k] /\ run[k].todo = {}
    BY <2>1 DEF Counts
  <2>4. CASE run'[k] = run[k] /\ stalled'[k] = stalled[k]
    BY <2>1, <2>4 DEF Counts
  <2>5. CASE /\ run'[k].todo = {} /\ ~run'[k].approved
             /\ stalled'[k] \in {stalled[k], stalled[k] + 1}
             /\ \/ stalled[k] < stalled'[k] \/ run'[k].step \in Ended
                \/ run[k].step \notin {"persisting"} \cup Ended
    <3>1. analyses[k] <= stalled'[k] + (IF run'[k].step \in {"persisting"} \cup Ended THEN 1 ELSE 0)
      BY <2>1, <2>2, <2>3, <2>5
    <3> QED
      BY <2>1, <2>2, <2>5, <3>1 DEF Counts
  <2>6. CASE /\ run[k].step = "new" /\ stalled'[k] = stalled[k] /\ run'[k].todo = run[k].todo
             /\ run'[k].approved = run[k].approved /\ run'[k].answer = run[k].answer
    <3>1. run[k].step \notin {"persisting"} \cup Ended
      BY <2>6 DEF Ended
    <3>2. (run'[k].approved => (Strict(setup) => status(run'[k].answer) = "pass"))
      BY <2>1, <2>6 DEF Counts
    <3>3. analyses[k] <= stalled'[k] /\ run'[k].todo = {}
      BY <2>1, <2>3, <2>6, <3>1
    <3> QED
      BY <2>1, <2>2, <3>2, <3>3 DEF Counts
  <2> QED
    BY <2>4, <2>5, <2>6
<1> QED
  BY <1>1 DEF CountInv

LEMMA CountInvNext ==
  ASSUME CountInv, QueueInv, now \in Time, [Next]_vars
  PROVE  CountInv'
<1>n. stalled \in [Job -> 0..MaxStalledCount]
  BY DEF CountInv
<1>1. ASSUME NEW j \in Job, Begins(j)
      PROVE  CountInv'
  <2>1. run' = [run EXCEPT ![j] = Frame("crawling", now)] /\ "crawling" \in Running
        /\ run[j].step \notin {"persisting"} \cup Ended
        /\ UNCHANGED <<setup, stalled, analyses, stored>>
    BY <1>1 DEF Begins, runPipeline, Running, Ended
  <2>2. Frame("crawling", now).todo = {} /\ ~Frame("crawling", now).approved
    BY <2>1, FrameType
  <2>3. run'[j] = Frame("crawling", now) /\ \A k \in Job : k # j => run'[k] = run[k]
    BY <2>1 DEF QueueInv
  <2> QED
    BY <1>n, <2>1, <2>2, <2>3, SameCounts
<1>2. ASSUME NEW j \in Job, GoesOn(j)
      PROVE  CountInv'
  BY <1>2, PrepareCounts, StoreCounts, PersistCounts, FinishCounts DEF GoesOn
<1>3. ASSUME NEW j \in Job, enqueue(j)
      PROVE  CountInv'
  <2>1. run' = [run EXCEPT ![j].step = "queued"] /\ run[j].step = "new" /\ run[j] \in Frames
        /\ UNCHANGED <<setup, stalled, analyses, stored>>
    BY <1>3 DEF enqueue, Becomes, At, crawlVars, QueueInv
  <2>2. run'[j].todo = run[j].todo /\ run'[j].approved = run[j].approved
        /\ run'[j].answer = run[j].answer /\ \A k \in Job : k # j => run'[k] = run[k]
    BY <2>1 DEF QueueInv, Frames
  <2> QED
    BY <1>n, <2>1, <2>2, SameCounts
<1>4. ASSUME restart
      PROVE  CountInv'
  <2>1. /\ run' = [j \in Job |-> LeftBehind(j)] /\ UNCHANGED <<setup, analyses, stored>>
        /\ stalled' = [j \in Job |-> IF j = active /\ GivenBack THEN stalled[j] + 1
                                     ELSE stalled[j]]
    BY <1>4 DEF restart, crawlersRestart
  <2>2. stalled' \in [Job -> 0..MaxStalledCount]
    <3>1. \A j \in Job : j = active /\ GivenBack => stalled[j] < MaxStalledCount
      BY DEF GivenBack
    <3> QED
      BY <1>n, <2>1, <3>1 DEF MaxStalledCount
  <2>3. ASSUME NEW k \in Job
        PROVE  \/ run'[k] = run[k] /\ stalled'[k] = stalled[k]
               \/ /\ run'[k].todo = {} /\ ~run'[k].approved
                  /\ stalled'[k] \in {stalled[k], stalled[k] + 1}
                  /\ stalled[k] < stalled'[k] \/ run'[k].step \in Ended
    <3>1. stalled[k] \in Int /\ run'[k] = LeftBehind(k)
          /\ stalled'[k] = IF k = active /\ GivenBack THEN stalled[k] + 1 ELSE stalled[k]
      BY <1>n, <2>1 DEF MaxStalledCount
    <3>2. CASE LeftBehind(k) = run[k] /\ run[k].step \notin Running
      BY <3>1, <3>2 DEF QueueInv
    <3>3. CASE /\ LeftBehind(k).todo = {} /\ ~LeftBehind(k).approved
               /\ LeftBehind(k).step = IF k = active /\ GivenBack THEN "queued" ELSE "failed"
      BY <3>1, <3>3 DEF Ended
    <3> QED
      BY <3>2, <3>3, LeftBehindFrame
  <2> QED
    BY <2>1, <2>2, <2>3, SameCounts
<1>5. ASSUME UNCHANGED <<setup, stalled, run, analyses, stored>>
      PROVE  CountInv'
  BY <1>5 DEF CountInv
<1>6. ASSUME NEW j \in Job, Request(j), UNCHANGED runVars
      PROVE  CountInv'
  <2>1. setup' = setup
    BY <1>6 DEF Request, executeSql, post, pollAndFetchResults, fetchFreshListings
  <2> QED
    BY <1>5, <1>6, <2>1 DEF runVars
<1>7. ASSUME tick, UNCHANGED runVars
      PROVE  CountInv'
  BY <1>5, <1>7 DEF tick, runVars
<1> QED
  BY <1>1, <1>2, <1>3, <1>4, <1>5, <1>6, <1>7, RunSteps DEF crawlVars

-----------------------------------------------------------------------------
(* Freshness *)

LEMMA FreshInvInit == Init => FreshInv
<1> SUFFICES ASSUME Init PROVE FreshInv
  OBVIOUS
<1>1. \A j \in Job : run[j] = Frame("new", 0)
  BY DEF Init
<1>2. Frame("new", 0).step = "new" /\ Frame("new", 0).since = 0 /\ now = 0
  BY FrameType, ZeroTime DEF Init, CrawlInit
<1>3. \A c \in Crawler : cached[c].expiresAt = 0
  BY DEF Init, CrawlInit, FreshProcess, Empty
<1> QED
  BY <1>1, <1>2, <1>3 DEF FreshInv, DataIsFresh, At

\* What a request does to the caches and to the runs that await it.
LEMMA RequestEffect ==
  ASSUME NEW j \in Job, Request(j)
  PROVE  /\ now' = now
         /\ \/ \E c \in Crawler, s \in {"coinmarketcap", "coingecko", "dune", "mock"} :
                 Settles(c, j, s)
            \/ \E c \in Crawler : Throws(c, j)
            \/ UNCHANGED <<cached, crawl>>
<1>1. "dune" \in Crawler /\ "coinmarketcap" \in Crawler
  BY DEF Crawler
<1>2. CASE executeSql(j) \/ post(j) \/ pollAndFetchResults(j)
  BY <1>1, <1>2 DEF executeSql, post, pollAndFetchResults, duneFails
<1>3. CASE fetchFreshListings(j)
  BY <1>1, <1>3 DEF fetchFreshListings, Goes
<1> QED
  BY <1>2, <1>3 DEF Request

\* A step that leaves the caches, and gives no run that crawls other rows.
LEMMA SameFresh ==
  ASSUME FreshInv, UNCHANGED <<cached, now>>,
         \A k \in Job :
           \/ /\ run'[k].since = run[k].since
              /\ run'[k].step = "crawling" => run[k].step = "crawling"
              /\ \A c \in Crawler : crawl'[c][k] = crawl[c][k]
           \/ run'[k].since \in {run[k].since, 0} /\ run'[k].step # "crawling",
         now \in Nat
  PROVE  FreshInv'
<1>1. \A k \in Job : run'[k].since <= now
  BY DEF FreshInv
<1>2. \A c \in Crawler, k \in Job :
        run'[k].step = "crawling" /\ crawl'[c][k].step = "has" =>
          \/ crawl'[c][k].value.at >= run'[k].since
          \/ crawl'[c][k].value.at + Ttl[c] > run'[k].since
  BY DEF FreshInv, DataIsFresh, At
<1> QED
  BY <1>1, <1>2 DEF FreshInv, DataIsFresh, At

LEMMA BeginsFresh ==
  ASSUME FreshInv, FlightInv, QueueInv, now \in Time, NEW j \in Job, Begins(j)
  PROVE  FreshInv'
<1>1. /\ run' = [run EXCEPT ![j] = Frame("crawling", now)]
      /\ now' = now /\ cached' = cached /\ callCrawlers(j)
  BY DEF Begins, runPipeline
<1>2. Frame("crawling", now).since = now /\ now \in Nat /\ "crawling" \in Running
  BY FrameType, CrawlerAssumption DEF Running, Time
<1>3. run'[j] = Frame("crawling", now) /\ \A k \in Job : k # j => run'[k] = run[k]
  BY <1>1 DEF QueueInv
<1>4. \A c \in Crawler, k \in Job :
        /\ k # j => crawl'[c][k] = crawl[c][k]
        /\ crawl'[c][j].step = "has" => Hits(c) /\ crawl'[c][j].value = cached[c].value
  <2> TAKE c \in Crawler, k \in Job
  <2>1. crawl'[c] = [crawl[c] EXCEPT ![j] = Called(c)]
    BY <1>1 DEF callCrawlers
  <2>2. crawl'[c][j] = Called(c) /\ (k # j => crawl'[c][k] = crawl[c][k])
    BY <2>1 DEF FlightInv, MemoryOK
  <2>3. Called(c).step = "has" => Hits(c) /\ Called(c).value = cached[c].value
    BY DEF Called
  <2> QED
    BY <2>2, <2>3
<1>5. \A c \in Crawler : Hits(c) => cached[c].value.at + Ttl[c] > now
  <2> SUFFICES ASSUME NEW c \in Crawler, Hits(c) PROVE cached[c].value.at + Ttl[c] > now
    OBVIOUS
  <2>1. cached[c].expiresAt \in Nat /\ cached[c].expiresAt > now
    BY DEF FlightInv, MemoryOK, Hits
  <2>2. cached[c].expiresAt = cached[c].value.at + Ttl[c]
    BY <2>1, <1>2 DEF FreshInv
  <2> QED
    BY <1>2, <2>1, <2>2
<1>6. \A k \in Job : run'[k].since <= now
  BY <1>2, <1>3 DEF FreshInv
<1>7. \A c \in Crawler, k \in Job :
        run'[k].step = "crawling" /\ crawl'[c][k].step = "has" =>
          \/ crawl'[c][k].value.at >= run'[k].since
          \/ crawl'[c][k].value.at + Ttl[c] > run'[k].since
  <2> TAKE c \in Crawler, k \in Job
  <2>1. CASE k = j
    BY <2>1, <1>2, <1>3, <1>4, <1>5
  <2>2. CASE k # j
    BY <2>2, <1>3, <1>4 DEF FreshInv, DataIsFresh, At
  <2> QED
    BY <2>1, <2>2
<1> QED
  BY <1>1, <1>6, <1>7 DEF FreshInv, DataIsFresh, At

LEMMA RequestFresh ==
  ASSUME FreshInv, FlightInv, QueueInv, now \in Time, NEW j \in Job, Request(j), run' = run
  PROVE  FreshInv'
<1>n. now \in Nat /\ Ttl \in [Crawler -> Nat]
  BY CrawlerAssumption DEF Time
<1>1. CASE UNCHANGED <<cached, crawl>>
  BY <1>1, <1>n, RequestEffect DEF FreshInv, DataIsFresh, At
<1>2. ASSUME NEW c \in Crawler, Throws(c, j)
      PROVE  FreshInv'
  <2>1. cached' = cached
        /\ \A d \in Crawler, k \in Job :
             crawl'[d][k] = crawl[d][k] \/ crawl'[d][k].step = "failed"
    BY <1>2 DEF Throws, Ends, FlightInv, MemoryOK
  <2>2. now' = now
    BY RequestEffect
  <2> QED
    BY <2>1, <2>2 DEF FreshInv, DataIsFresh, At
<1>3. ASSUME NEW c \in Crawler, NEW s \in {"coinmarketcap", "coingecko", "dune", "mock"},
             Settles(c, j, s)
      PROVE  FreshInv'
  <2> DEFINE v == [source |-> s, at |-> now]
             new == [expiresAt |-> now + Ttl[c], value |-> v]
             call == [step |-> "has", value |-> v]
  <2>1. now' = now
    BY RequestEffect
  <2>2. cached' = [cached EXCEPT ![c] = new]
        /\ crawl' = [crawl EXCEPT ![c] = [k \in Job |->
                       IF Awaits(c, j, k) THEN call ELSE crawl[c][k]]]
    BY <1>3 DEF Settles, Ends
  <2>3. new.expiresAt = new.value.at + Ttl[c] /\ call.value.at = now
    OBVIOUS
  <2> HIDE DEF new, call
  <2>4. \A d \in Crawler : cached'[d] = cached[d] \/ (d = c /\ cached'[d] = new)
    BY <2>2 DEF FlightInv, MemoryOK
  <2>5. \A d \in Crawler, k \in Job : crawl'[d][k] = crawl[d][k] \/ crawl'[d][k] = call
    BY <2>2 DEF FlightInv, MemoryOK
  <2>6. \A k \in Job : run[k].since <= now /\ run[k].since \in Int
    BY CrawlerAssumption DEF FreshInv, QueueInv, Frames, Time
  <2>7. \A d \in Crawler, k \in Job :
          run[k].step = "crawling" /\ crawl'[d][k].step = "has" =>
            \/ crawl'[d][k].value.at >= run[k].since
            \/ crawl'[d][k].value.at + Ttl[d] > run[k].since
    <3> TAKE d \in Crawler, k \in Job
    <3>1. CASE crawl'[d][k] = crawl[d][k]
      BY <3>1 DEF FreshInv, DataIsFresh, At
    <3>2. CASE crawl'[d][k] = call
      BY <3>2, <1>n, <2>3, <2>6
    <3> QED
      BY <2>5, <3>1, <3>2
  <2>8. \A d \in Crawler : \/ cached'[d].expiresAt = 0
                          \/ cached'[d].expiresAt = cached'[d].value.at + Ttl[d]
    BY <2>3, <2>4 DEF FreshInv
  <2> QED
    BY <2>1, <2>6, <2>7, <2>8 DEF FreshInv, DataIsFresh, At
<1> QED
  BY <1>1, <1>2, <1>3, RequestEffect

LEMMA FreshInvNext ==
  ASSUME FreshInv, FlightInv, QueueInv, now \in Time, [Next]_vars
  PROVE  FreshInv'
<1>n. now \in Nat
  BY CrawlerAssumption DEF Time
<1>1. ASSUME NEW j \in Job, GoesOn(j)
      PROVE  FreshInv'
  <2>1. PICK f \in Frames : Proceeds(j, f)
    BY <1>1 DEF GoesOn
  <2>2. run'[j] = f /\ f.since \in {run[j].since, 0} /\ f.step # "crawling" /\ now' = now
        /\ \A k \in Job : k # j => run'[k] = run[k]
    BY <2>1 DEF Proceeds, QueueInv
  <2>3. cached' = cached
        /\ \A c \in Crawler, k \in Job : k # j => crawl'[c][k] = crawl[c][k]
    BY <1>1 DEF GoesOn, crawled, crawlVars, FlightInv, MemoryOK
  <2> QED
    BY <1>n, <2>2, <2>3, SameFresh
<1>2. ASSUME NEW j \in Job, enqueue(j)
      PROVE  FreshInv'
  <2>1. run' = [run EXCEPT ![j].step = "queued"] /\ run[j] \in Frames
        /\ UNCHANGED <<cached, now, crawl>>
    BY <1>2 DEF enqueue, Becomes, crawlVars, QueueInv
  <2>2. run'[j].since = run[j].since /\ run'[j].step = "queued"
        /\ \A k \in Job : k # j => run'[k] = run[k]
    BY <2>1 DEF QueueInv, Frames
  <2> QED
    BY <1>n, <2>1, <2>2, SameFresh
<1>3. ASSUME restart
      PROVE  FreshInv'
  <2>1. /\ run' = [j \in Job |-> LeftBehind(j)]
        /\ now' = now /\ cached' = FreshProcess.cached
    BY <1>3 DEF restart, crawlersRestart
  <2>2. ASSUME NEW k \in Job
        PROVE  run'[k].since <= now /\ run'[k].step # "crawling"
    <3>1. run'[k] = LeftBehind(k) /\ run[k].since <= now
      BY <2>1 DEF FreshInv
    <3>2. CASE LeftBehind(k) = run[k] /\ run[k].step \notin Running
      BY <3>1, <3>2 DEF Running
    <3>3. CASE /\ LeftBehind(k).since = 0
               /\ LeftBehind(k).step = IF k = active /\ GivenBack THEN "queued" ELSE "failed"
      BY <1>n, <3>1, <3>3
    <3> QED
      BY <3>2, <3>3, LeftBehindFrame
  <2>3. \A k \in Job : run'[k].since <= now /\ run'[k].step # "crawling"
    BY <2>2
  <2>4. \A c \in Crawler : cached'[c].expiresAt = 0
    BY <2>1 DEF FreshProcess, Empty
  <2> QED
    BY <2>1, <2>3, <2>4 DEF FreshInv, DataIsFresh, At
<1>4. ASSUME tick, UNCHANGED runVars
      PROVE  FreshInv'
  <2>1. now' = now + 1 /\ UNCHANGED <<cached, crawl, run>>
    BY <1>4 DEF tick, runVars
  <2>2. \A k \in Job : run[k].since \in Int
    BY CrawlerAssumption DEF QueueInv, Frames, Time
  <2> QED
    BY <1>n, <2>1, <2>2 DEF FreshInv, DataIsFresh, At
<1>5. ASSUME UNCHANGED <<crawlVars, run>>
      PROVE  FreshInv'
  BY <1>5 DEF FreshInv, DataIsFresh, At, crawlVars
<1>6. ASSUME NEW j \in Job, Request(j), UNCHANGED runVars
      PROVE  FreshInv'
  BY <1>6, RequestFresh DEF runVars
<1> QED
  BY <1>1, <1>2, <1>3, <1>4, <1>5, <1>6, BeginsFresh, RunSteps

-----------------------------------------------------------------------------
(* Theorems *)

Inv == CrawlInv /\ QueueInv /\ CountInv /\ FreshInv

LEMMA Inductive == Spec => []Inv
<1>1. Init => Inv
  BY CrawlInvInit, QueueInvInit, CountInvInit, FreshInvInit DEF Inv
<1>2. ASSUME Inv, [Next]_vars PROVE Inv'
  <2>1. CrawlInv /\ QueueInv /\ CountInv /\ FreshInv /\ FlightInv /\ now \in Time
        /\ queue \in Seq(Job)
    BY <1>2 DEF Inv, CrawlInv, QueueInv
  <2> QED
    BY <1>2, <2>1, CrawlInvNext, QueueInvNext, CountInvNext, FreshInvNext DEF Inv
<1> QED
  BY <1>1, <1>2, PTL DEF Spec

\* The crawlers, the queue and the runs hold values of their types, a job is
\* queued once and the worker's job runs; no run stores more analyses than the
\* queue gives it to a worker, however often the process restarts.
THEOREM TypeCorrect == Spec => []TypeOK
<1>1. ASSUME Inv PROVE TypeOK
  <2>1. CrawlTypeOK
    BY <1>1 DEF Inv, CrawlInv, FlightInv, MemoryOK, BudgetInv, CrawlTypeOK
  <2>2. restarts \in 0..MaxRestarts /\ stalled \in [Job -> 0..MaxStalledCount]
    BY <1>1 DEF Inv, CrawlInv, BudgetInv, CountInv
  <2>3. analyses \in [Job -> 0..(1 + MaxStalledCount)]
    <3>1. ASSUME NEW j \in Job PROVE analyses[j] \in 0..(1 + MaxStalledCount)
      <4>1. Counts(run[j], analyses[j], stored[j], stalled[j], setup)
            /\ analyses[j] \in Nat /\ stalled[j] \in 0..MaxStalledCount
        BY <1>1 DEF Inv, CountInv
      <4>2. analyses[j] <= stalled[j] + 1
        BY <4>1 DEF Counts, MaxStalledCount
      <4> QED
        BY <4>1, <4>2 DEF MaxStalledCount
    <3> QED
      BY <1>1, <3>1 DEF Inv, CountInv
  <2>4. stored \in [Job -> [Rsi -> Nat]]
    BY <1>1 DEF Inv, CountInv
  <2> QED
    BY <1>1, <2>1, <2>2, <2>3, <2>4 DEF TypeOK, Inv, QueueInv, Frames, SchedulerStates
<1> QED
  BY <1>1, Inductive, PTL

\* A crawler has at most one request in flight, new callers share that one, and
\* none waits for a request that has ended, however requests, failures and
\* restarts interleave.
THEOREM SingleFlightSafety == Spec => []SingleFlight
<1>1. Inv => SingleFlight
  BY DEF Inv, CrawlInv, FlightInv
<1> QED
  BY <1>1, Inductive, PTL

\* No run works on rows that were older than their time to live when it began.
THEOREM FreshSafety == Spec => []DataIsFresh
<1>1. Inv => DataIsFresh
  BY DEF Inv, FreshInv
<1> QED
  BY <1>1, Inductive, PTL

\* Dune bills on a day at most a budget for each process, the posts whose answer
\* was lost and one that crossed midnight, whatever the number of runs.
THEOREM BudgetSafety == Spec => []BudgetIsBounded
<1>1. ASSUME Inv PROVE BudgetIsBounded
  <2>1. BudgetInv /\ now \in Time /\ MaxExecutions \in Nat
    BY <1>1, CrawlerAssumption DEF Inv, CrawlInv
  <2>2. restarts \in Nat /\ Allowance \in Nat /\ (restarts + 1) * MaxExecutions = Allowance + MaxExecutions
    BY <2>1, AllowanceType, PipelineAssumption DEF BudgetInv, Allowance
  <2>3. today \in Day /\ today \in Nat /\ Day \subseteq Int /\ lost \in Nat
        /\ executionsOf(today) \in Nat /\ executionsOf(today) <= MaxExecutions
    BY <2>1, DayOfTime, CrawlerAssumption DEF today, Day, BudgetInv, executionsOf
  <2>4. ASSUME NEW d \in Day
        PROVE  billed[d] <= Allowance + MaxExecutions + lost + (IF d = 0 THEN 0 ELSE 1)
    <3>1. CASE d > today
      <4>1. billed[d] = 0
        BY <3>1, <2>1 DEF BudgetInv
      <4> QED
        BY <4>1, <2>1, <2>2, <2>3
    <3>2. CASE d = today
      <4>1. billed[today] <= Allowance + executionsOf(today) + lost + (IF today = 0 THEN 0 ELSE 1)
            /\ billed[today] \in Nat
        BY <2>1, <2>3 DEF BudgetInv
      <4> QED
        BY <3>2, <4>1, <2>1, <2>2, <2>3
    <3>3. CASE d < today
      BY <3>3, <2>1 DEF BudgetInv
    <3> QED
      BY <3>1, <3>2, <3>3, <2>3
  <2> QED
    BY <2>2, <2>4 DEF BudgetIsBounded
<1> QED
  BY <1>1, Inductive, PTL

\* The step that stores a signal.
LEMMA StoringStep ==
  ASSUME Inv, [Next]_vars, NEW j \in Job, NEW s \in Rsi, stored'[j][s] # stored[j][s]
  PROVE  /\ stored'[j][s] <= analyses[j]
         /\ Gated /\ setup.mode = "enforce" => status(run[j].answer) = "pass"
<1>1. QueueInv /\ CountInv
  BY DEF Inv
<1>2. PICK k \in Job, f \in Frames : Proceeds(k, f) /\ Persists(k, f)
  <2>1. stored' # stored
    OBVIOUS
  <2>2. \A k \in Job : ~Begins(k) /\ ~enqueue(k) /\ ~UNCHANGED runVars
    BY <2>1 DEF Begins, enqueue, runVars
  <2>3. ~restart /\ ~UNCHANGED runVars
    BY <2>1 DEF restart, runVars
  <2>4. \E k \in Job : GoesOn(k)
    BY <1>1, <2>1, <2>2, <2>3, RunSteps
  <2> QED
    BY <2>1, <2>4 DEF GoesOn, Prepares, Stores, Finishes
<1>3. PICK r \in run[k].todo :
        stored' = [stored EXCEPT ![k][r] = @ + 1] \/ stored' = stored
  BY <1>2 DEF Persists
<1>4. r \in Rsi /\ run[k].todo # {} /\ stored \in [Job -> [Rsi -> Nat]]
  BY <1>1, <1>3 DEF QueueInv, Frames, CountInv
<1>5. j = k /\ s = r /\ stored'[j][s] = stored[j][s] + 1
  BY <1>3, <1>4
<1>6. Counts(run[j], analyses[j], stored[j], stalled[j], setup)
  BY <1>1 DEF CountInv
<1>7. stored[j][s] + 1 <= analyses[j]
  BY <1>3, <1>5, <1>6 DEF Counts
<1>8. Strict(setup) => status(run[j].answer) = "pass"
  BY <1>4, <1>5, <1>6 DEF Counts
<1> QED
  BY <1>5, <1>7, <1>8 DEF Gated, Strict

\* A run stores a signal only with an analysis to explain it that it has not
\* stored the signal for, also where a restart made the worker run it again; and
\* where a gate enforces, only if the provider vouched for the research.
THEOREM SignalsVouched == Spec => SignalsAreVouched
<1>1. ASSUME Inv, [Next]_vars
      PROVE  \A j \in Job : \A s \in Rsi : stored'[j][s] # stored[j][s] =>
               /\ stored'[j][s] <= analyses[j]
               /\ Gated /\ setup.mode = "enforce" => status(run[j].answer) = "pass"
  BY <1>1, StoringStep
<1> QED
  BY <1>1, Inductive, PTL DEF Spec, SignalsAreVouched

=============================================================================
