------------------------------ MODULE TradePlan ------------------------------
(***************************************************************************)
(* RealTimeAgentCore.prepareTrade over the price feed: an oracle price with *)
(* retries and the cache as fallback, risk limits of the intent, a quote   *)
(* from every DEX adapter in parallel with a timeout, the best of them,    *)
(* risk limits of the route, and the plan.                                 *)
(*                                                                         *)
(* TradeLifecycle has the handler around it, and abstracts it to a choice. *)
(***************************************************************************)
EXTENDS PriceFeed, Quotes

CONSTANTS
  Intent,        \* what requests may ask for
  Deployment,    \* the configurations to check
  Unit,          \* 10 to the decimals a pair's base token has more than its quote
  Addressed,     \* pairs both of whose tokens have an ERC-20 address
  Policy,        \* RiskPolicy
  Retries,
  QuoteTimeout,
  FallbackMid,   \* the mock adapter's price of a pair the cache has not
  Offer,         \* what a live venue may offer: price, liquidity, impact
  MaxPools,
  NoPlan

ASSUME DeploymentAssumption ==
  \A d \in Deployment :
    /\ {d.realDex, d.injective, d.monad} \subseteq BOOLEAN
    /\ d.monadMode \in {"mock", "0x", "1inch", "uniswap_v3"}
    /\ d.helixMarkets \subseteq Pair /\ d.orcaPools \subseteq Pair
\* getTokenPair throws for any other pair; TradeIntentSchema has the rest, and
\* bounds the amount by nothing.
ASSUME IntentAssumption ==
  \A i \in Intent :
    /\ i.pair \in Pair /\ i.side \in {"buy", "sell"}
    /\ i.amount \in Int /\ i.decimals \in Nat
    /\ i.maxSlippageBps \in 1..5000
ASSUME PolicyAssumption == Policy.maxOracleDeviationBps \in Nat
ASSUME UnitAssumption == Unit \in [Pair -> Nat \ {0}]
ASSUME BoundAssumption ==
  /\ Retries \in Nat /\ QuoteTimeout \in Nat \ {0} /\ MaxPools \in Nat
  /\ FallbackMid \in Nat
  /\ Offer \subseteq [price : Nat, liquidity : Nat, impact : Nat]

Adapter == {"mock", "jupiter", "raydium", "orca", "injective_helix", "monad_dex"}

VARIABLES
  deployment,   \* the configuration, which nothing changes
  req,          \* req[r]: the stack frame of core.prepareTrade
  ask,          \* ask[r][a]: adapter a's part in the round of r
  quotes,       \* quotes[r]: the quotes of the round so far
  plan          \* plan[r]: the plan returned

planVars == <<deployment, req, ask, quotes, plan>>
vars == <<feedVars, planVars>>

\* A stack frame with nothing but its step and the intent.
Frame(step, intent) ==
  [step |-> step, intent |-> intent, attempt |-> 0, oracle |-> NoPrice,
   via |-> "none", started |-> 0]
NoRound == [a \in Adapter |-> "idle"]

chainOf(a) == CASE a = "injective_helix" -> "injective"
                [] a = "monad_dex" -> "monad"
                [] OTHER -> "solana"

\* The adapters onModuleInit builds, and the DEXes the policy allows.
Adapters ==
  (IF deployment.realDex THEN {"jupiter", "raydium", "orca"} ELSE {"mock"})
    \cup (IF deployment.injective THEN {"injective_helix"} ELSE {})
    \cup (IF deployment.monad THEN {"monad_dex"} ELSE {})
allowedDexes == Adapters \cup (IF deployment.realDex THEN {"mock"} ELSE {})

Init ==
  /\ FeedInit
  /\ deployment \in Deployment
  /\ req = [r \in Request |-> Frame("new", NoPlan)]
  /\ ask = [r \in Request |-> NoRound]
  /\ quotes = [r \in Request |-> {}]
  /\ plan = [r \in Request |-> NoPlan]

At(r, step) == req[r].step = step
Goes(r, step) == req' = [req EXCEPT ![r].step = step]

\* prepareTrade: an integer string is native units, a decimal one is tokens.
nativeAmount(intent) ==
  IF intent.unit = "native" THEN intent.amount
  ELSE (intent.amount * intent.decimals) \div 10

-----------------------------------------------------------------------------
(* The oracle price *)

prepareTrade(r) ==
  /\ boot = "up" /\ At(r, "new")
  /\ \E intent \in Intent :
       req' = [req EXCEPT ![r] = Frame("pricing", intent)]
  /\ UNCHANGED <<feedVars, deployment, ask, quotes, plan>>

\* validateIntent, then queryAll asks every adapter.
Priced(r, update, via) ==
  LET intent == req[r].intent
  IN  IF validateIntent(intent, nativeAmount(intent), update, Policy, Unit[intent.pair])
      THEN /\ req' = [req EXCEPT ![r].step = "quoting", ![r].oracle = update,
                                 ![r].via = via, ![r].started = now]
           /\ ask' = [ask EXCEPT ![r] =
                [a \in Adapter |-> IF a \in Adapters THEN "asked" ELSE "idle"]]
      ELSE Goes(r, "rejected") /\ UNCHANGED ask

Mut_OneMoreRetry(r) ==
  LET cached == cache[req[r].intent.pair]
  IN  IF cached # NoPrice THEN Priced(r, cached, "cache")
      ELSE /\ req' = IF req[r].attempt > Retries
                     THEN [req EXCEPT ![r].step = "rejected"]
                     ELSE [req EXCEPT ![r].attempt = @ + 1]
           /\ UNCHANGED ask

\* The inner feed threw: the cached price, as it was received; without one the
\* operation is retried.
Thrown(r) ==
  LET cached == cache[req[r].intent.pair]
  IN  IF cached # NoPrice THEN Priced(r, cached, "cache")
      ELSE /\ req' = IF req[r].attempt = Retries
                     THEN [req EXCEPT ![r].step = "rejected"]
                     ELSE [req EXCEPT ![r].attempt = @ + 1]
           /\ UNCHANGED ask

getLatest(r) ==
  LET pair == req[r].intent.pair
  IN  /\ At(r, "pricing") /\ fetch[r].state = "none"
      /\ IF source = "live" /\ Resolves({pair})
         THEN fetch' = [fetch EXCEPT ![r].state = "sent"] /\ UNCHANGED <<req, ask>>
         ELSE /\ IF Resolves({pair}) THEN Priced(r, MockPrice(pair), "mock") ELSE Thrown(r)
              /\ UNCHANGED fetch
      /\ UNCHANGED <<feedOf, useMock, now, hermes, source, boot, cache, wire>>
      /\ UNCHANGED <<deployment, quotes, plan>>

priceArrives(r) ==
  LET pair == req[r].intent.pair
  IN  /\ At(r, "pricing") /\ fetch[r].state \in {"answered", "failed"}
      /\ IF Answered(r, {pair})
         THEN Priced(r, Parsed(pair, fetch[r].response), "rest")
         ELSE Thrown(r)
      /\ fetch' = [fetch EXCEPT ![r] = NoFetch]
      /\ UNCHANGED <<feedOf, useMock, now, hermes, source, boot, cache, wire>>
      /\ UNCHANGED <<deployment, quotes, plan>>

-----------------------------------------------------------------------------
(* Quotes *)

QuoteOf(r, a, price, outAmount, liquidity, impact) ==
  [source |-> a, chain |-> chainOf(a), price |-> price, outAmount |-> outAmount,
   liquidity |-> liquidity, impact |-> impact, latency |-> now - req[r].started,
   at |-> now]

side(r) == sideOf(req[r].intent)
amountIn(r) == nativeAmount(req[r].intent)
unitOf(r) == Unit[req[r].intent.pair]
AmountAt(r, price) == outputAmountFromPrice(side(r), amountIn(r), price, unitOf(r))

\* A quote at a price, and one whose price follows from the amounts.
AtPrice(r, a, price, liquidity, impact) ==
  QuoteOf(r, a, price, AmountAt(r, price), liquidity, impact)
AtAmount(r, a, outAmount, liquidity, impact) ==
  QuoteOf(r, a, calculatePairPrice(side(r), amountIn(r), outAmount, unitOf(r)), outAmount,
          liquidity, impact)
VenueOut(r, o) == AmountAt(r, o.price)
Priceable == {o \in Offer : o.price > 0}
Fillable(r) == {o \in Offer : VenueOut(r, o) > 0}

\* What the mock and the fallbacks of Helix and Monad quote: the cached price of
\* the stream, or a reference, with a premium and a spread.
Synthetic(r, a, reference, premium, bidSpread, askSpread, liquidity) ==
  LET pair == req[r].intent.pair
      mid == IF cache[pair] # NoPrice THEN cache[pair].price ELSE reference
  IN  AtPrice(r, a, executablePrice(mid * Scale, premium, side(r),
                      IF side(r) = "bid" THEN bidSpread ELSE askSpread), liquidity, 0)
Fallback(r, a, premium) ==
  {Synthetic(r, a, ReferencePrice[req[r].intent.pair], premium, 12, 14, 2)}

\* The set of the quote lists an adapter's quote() may return now.
\* The mock gives fixed figures for its latency and its impact.
oracleMockQuote(r) ==
  {{[Synthetic(r, "mock", FallbackMid, 0, 8, 10, 5) EXCEPT !.impact = 2, !.latency = 1]}}

\* No market, no book or no level: no quote.  A request that fails or times out
\* is answered with a synthetic quote.
helixQuote(r) ==
  IF req[r].intent.pair \notin deployment.helixMarkets THEN {{}}
  ELSE {{}, Fallback(r, "injective_helix", 60)}
         \cup {{AtPrice(r, "injective_helix", o.price, o.liquidity, 0)} : o \in Priceable}

\* 0x gives its price in bought per sold tokens, which is inverted for an ask.
zeroxQuote(r, o) ==
  QuoteOf(r, "monad_dex", IF side(r) = "bid" THEN o.price ELSE (Scale * Scale) \div o.price,
          VenueOut(r, o), 2, o.impact)
oneinchQuote(r, o) == AtAmount(r, "monad_dex", VenueOut(r, o), 2, 0)
monadQuote(r) ==
  {Fallback(r, "monad_dex", 30)} \cup
    CASE req[r].intent.pair \notin Addressed -> {}
      [] deployment.monadMode = "0x" -> {{zeroxQuote(r, o)} : o \in Fillable(r)}
      [] deployment.monadMode = "1inch" -> {{oneinchQuote(r, o)} : o \in Fillable(r)}
      [] OTHER -> {}

\* Jupiter estimates the liquidity as the trade's own size.
jupiterQuote(r) ==
  {{AtAmount(r, "jupiter", VenueOut(r, o),
             IF side(r) = "ask" THEN amountIn(r) ELSE (amountIn(r) * o.price) \div (Scale * unitOf(r)),
             o.impact)} : o \in Offer}

\* A quote for each of the first maxPools pools, at its mid less the fee, with an
\* estimate of the impact.
raydiumQuote(r) ==
  {{AtPrice(r, "raydium", executablePrice(o.price, 0, side(r), 25), o.liquidity,
            estimatePriceImpactBps(o.liquidity, amountIn(r))) : o \in pools} :
     pools \in {s \in SUBSET Priceable : Cardinality(s) <= MaxPools}}

orcaQuote(r) ==
  IF req[r].intent.pair \notin deployment.orcaPools THEN {{}}
  ELSE {{AtAmount(r, "orca", VenueOut(r, o), o.liquidity, 0)} : o \in Offer}

Quotes(r, a) ==
  CASE a = "mock" -> oracleMockQuote(r)   [] a = "injective_helix" -> helixQuote(r)
    [] a = "monad_dex" -> monadQuote(r)   [] a = "jupiter" -> jupiterQuote(r)
    [] a = "raydium" -> raydiumQuote(r)   [] a = "orca" -> orcaQuote(r)

Mut_LateAnswerCounts(r, a) ==
  /\ At(r, "quoting") /\ ask[r][a] \in {"asked", "failed"}
  /\ \E qs \in Quotes(r, a) : quotes' = [quotes EXCEPT ![r] = @ \cup qs]
  /\ ask' = [ask EXCEPT ![r][a] = IF @ = "asked" THEN "answered" ELSE @]
  /\ UNCHANGED <<feedVars, deployment, req, plan>>

adapterAnswers(r, a) ==
  /\ At(r, "quoting") /\ ask[r][a] = "asked"
  /\ \E qs \in Quotes(r, a) : quotes' = [quotes EXCEPT ![r] = @ \cup qs]
  /\ ask' = [ask EXCEPT ![r][a] = "answered"]
  /\ UNCHANGED <<feedVars, deployment, req, plan>>

\* The mock and the fallbacks of the others never throw.
adapterThrows(r, a) ==
  /\ At(r, "quoting") /\ ask[r][a] = "asked"
  /\ a \in {"jupiter", "raydium", "orca"}
  /\ ask' = [ask EXCEPT ![r][a] = "failed"]
  /\ UNCHANGED <<feedVars, deployment, req, quotes, plan>>

Mut_NeverTimesOut(r, a) ==
  /\ At(r, "quoting") /\ ask[r][a] = "asked"
  /\ now > req[r].started + QuoteTimeout
  /\ ask' = [ask EXCEPT ![r][a] = "failed"]
  /\ UNCHANGED <<feedVars, deployment, req, quotes, plan>>

\* withTimeout gives an adapter up; what it answers later is lost.  A timer that
\* runs when the clock reaches its bound fires then.
quoteTimeout(r, a) ==
  /\ At(r, "quoting") /\ ask[r][a] = "asked"
  /\ now = req[r].started + QuoteTimeout \/ now = LastTime
  /\ ask' = [ask EXCEPT ![r][a] = "failed"]
  /\ UNCHANGED <<feedVars, deployment, req, quotes, plan>>

-----------------------------------------------------------------------------
(* The route and the plan *)

\* The round is over when no adapter is awaited.
Settled(r) == At(r, "quoting") /\ \A a \in Adapter : ask[r][a] # "asked"

\* The plan for a chain: buildInjectivePlan and buildMonadPlan are synchronous,
\* and buildMonadPlan guards no minimum; a Jupiter route of a known user waits
\* for its transaction.
PlanOf(r, q) ==
  [quote |-> q, oracle |-> req[r].oracle, via |-> req[r].via, intent |-> req[r].intent,
   minOutAmount |-> applyBps(q.outAmount, req[r].intent.maxSlippageBps),
   createdAt |-> now]

Ends(r, step) ==
  /\ req' = [req EXCEPT ![r] = Frame(step, NoPlan)]
  /\ ask' = [ask EXCEPT ![r] = NoRound]
  /\ quotes' = [quotes EXCEPT ![r] = {}]

selectRoute(r) ==
  /\ Settled(r)
  /\ LET best == Best(side(r), quotes[r])
     IN  \/ best = {} /\ Ends(r, "rejected") /\ UNCHANGED plan
         \/ \E q \in best :
              IF validateRoute(q, req[r].oracle, allowedDexes, Policy, now)
              THEN /\ Ends(r, IF q.source = "jupiter" /\ req[r].intent.user
                              THEN "building" ELSE "ready")
                   /\ plan' = [plan EXCEPT ![r] = PlanOf(r, q)]
              ELSE Ends(r, "rejected") /\ UNCHANGED plan
  /\ UNCHANGED <<feedVars, deployment>>

buildSwapTransaction(r) ==
  /\ At(r, "building")
  /\ \/ Goes(r, "ready") /\ UNCHANGED plan
     \/ Goes(r, "rejected") /\ plan' = [plan EXCEPT ![r] = NoPlan]
  /\ UNCHANGED <<feedVars, deployment, ask, quotes>>

\* A timer fires before the clock passes it, and a settled round goes on.
Tick ==
  /\ \A r \in Request :
       At(r, "quoting") => now < req[r].started + QuoteTimeout /\ ~Settled(r)
  /\ tick
  /\ UNCHANGED planVars

\* What the event loop and its timers do of themselves.
Proceed(r) ==
  \/ getLatest(r) \/ priceArrives(r) \/ selectRoute(r) \/ buildSwapTransaction(r)
  \/ \E a \in Adapter : quoteTimeout(r, a)

Next ==
  \/ FeedNext /\ UNCHANGED planVars
  \/ Tick
  \/ \E r \in Request :
       \/ prepareTrade(r) \/ Proceed(r)
       \/ \E a \in Adapter : adapterAnswers(r, a) \/ adapterThrows(r, a)

Spec == Init /\ [][Next]_vars

\* The event loop runs on, time passes and Hermes answers or fails.  No venue has
\* to answer.
FairSpec ==
  /\ Spec
  /\ WF_vars(Tick)
  /\ \A r \in Request :
       WF_vars(serve(r) /\ UNCHANGED planVars) /\ WF_vars(Proceed(r))

-----------------------------------------------------------------------------
(* Properties *)

Plan ==
  [quote : [source : Adapter, chain : {"solana", "injective", "monad"}, price : Nat,
            outAmount : Nat \ {0}, liquidity : Nat, impact : Nat, latency : Nat, at : Time],
   oracle : Update, via : {"mock", "cache", "rest"}, intent : Intent,
   minOutAmount : Nat, createdAt : Time]

\* The feed, frames and plans hold values of their types, and a plan's venue is
\* one of the deployment's.
TypeOK ==
  /\ FeedTypeOK
  /\ deployment \in Deployment
  /\ \A r \in Request :
       /\ req[r].step \in {"new", "pricing", "quoting", "building", "ready", "rejected"}
       /\ req[r].attempt \in 0..Retries
       /\ ask[r] \in [Adapter -> {"idle", "asked", "answered", "failed"}]
       /\ plan[r] \in Plan \cup {NoPlan}
       /\ plan[r] # NoPlan => plan[r].quote.source \in Adapters

\* While a round runs, each quote is of an adapter that answered in time, one
\* given up by the timeout has none, however late its answer comes.
EveryAnswerCounted ==
  \A r \in Request : \A q \in quotes[r] :
    ask[r][q.source] = "answered" /\ q.at - req[r].started <= QuoteTimeout

\* The least a plan promises is worth the trade at the oracle's price, less the
\* policy's deviation and the intent's slippage; it holds for every venue, although
\* only the price is compared with the oracle's.
PlanIsWorth ==
  \A r \in Request : plan[r] # NoPlan =>
    LET p == plan[r]
        amount == nativeAmount(p.intent)
        unit == Unit[p.intent.pair]
        dev == Policy.maxOracleDeviationBps
        fair == IF p.intent.side = "sell"
                THEN applyBps(amount * p.oracle.price, dev) \div unit
                ELSE (amount * unit * Bps) \div (p.oracle.price * (Bps + dev))
    IN  p.minOutAmount >= applyBps(fair, p.intent.maxSlippageBps)

\* A plan's price is no older than the limit and the time a round of quotes may
\* take.  Only the cached copy of the fallback may be older, and that is reached
\* only where every pair has a feed: otherwise the boot has ended on the mock.
PlanPriceIsRecent ==
  \A r \in Request : plan[r] # NoPlan =>
    \/ plan[r].via = "cache" /\ Resolves(Pair)
    \/ plan[r].createdAt - plan[r].oracle.time <= StaleAge + QuoteTimeout

\* A trade that is being planned ends as a plan or as a rejection, whatever
\* Hermes, the venues and the builder do.
PrepareEnds ==
  \A r \in Request : At(r, "pricing") ~> At(r, "ready") \/ At(r, "rejected")

=============================================================================
