--------------------------- MODULE TradePlanProofs ---------------------------
(***************************************************************************)
(* Theorems about the planning of trades, for any requests, intents,       *)
(* deployments, offers, limits and clocks: the answers a round counts, and *)
(* the age of the price a plan rests on.                                   *)
(***************************************************************************)
EXTENDS TradePlan, PriceFeedProofs

-----------------------------------------------------------------------------
(* The inductive invariant *)

Frames ==
  [step : {"new", "pricing", "quoting", "building", "ready", "rejected"},
   intent : Intent \cup {NoPlan}, attempt : 0..Retries, oracle : Update \cup {NoPrice},
   via : {"none", "mock", "cache", "rest"}, started : Time]

FrameInv ==
  /\ req \in [Request -> Frames]
  /\ ask \in [Request -> [Adapter -> {"idle", "asked", "answered", "failed"}]]
  /\ DOMAIN quotes = Request /\ DOMAIN plan = Request

\* What holds at instant n of a frame f, its adapters, its quotes and its plan.
\* A round that rests on anything but the cache began while that was not stale.
Sound(f, asks, answers, made, n) ==
  /\ f.step = "pricing" => f.intent \in Intent
  /\ f.step # "quoting" => answers = {}
  /\ f.step = "quoting" =>
       /\ f.started <= n /\ n <= f.started + QuoteTimeout
       /\ f.via # "cache" => f.started - f.oracle.time <= StaleAge
  /\ \A q \in answers : asks[q.source] = "answered" /\ q.at - f.started <= QuoteTimeout
  /\ made # NoPlan /\ made.via # "cache" =>
       made.createdAt - made.oracle.time <= StaleAge + QuoteTimeout

SoundInv == \A r \in Request : Sound(req[r], ask[r], quotes[r], plan[r], now)

\* Hermes is asked only for a pair that has a feed, by a request that waits.
AskedInv ==
  \A r \in Request : fetch[r].state # "none" =>
    req[r].step = "pricing" /\ feedOf[req[r].intent.pair] # NoFeed

PlanInv == FeedInv /\ FrameInv /\ SoundInv /\ AskedInv

-----------------------------------------------------------------------------
(* Lemmas *)

\* A frame that begins or is over.
LEMMA FrameType ==
  ASSUME NEW step \in {"new", "pricing", "quoting", "building", "ready", "rejected"},
         NEW intent \in Intent \cup {NoPlan}
  PROVE  Frame(step, intent) \in Frames /\ Frame(step, intent).step = step
         /\ Frame(step, intent).intent = intent
<1>1. 0 \in Time /\ 0 \in 0..Retries
  BY TimeAssumption, BoundAssumption DEF Time
<1> QED
  BY <1>1 DEF Frame, Frames

\* A step that concerns request r alone.
LEMMA OneRequest ==
  ASSUME FrameInv, SoundInv, now' = now, NEW r \in Request, NEW f \in Frames,
         req' = [req EXCEPT ![r] = f],
         ask' \in [Request -> [Adapter -> {"idle", "asked", "answered", "failed"}]],
         DOMAIN quotes' = Request, DOMAIN plan' = Request,
         \A k \in Request : k # r => ask'[k] = ask[k] /\ quotes'[k] = quotes[k] /\ plan'[k] = plan[k],
         Sound(f, ask'[r], quotes'[r], plan'[r], now)
  PROVE  FrameInv' /\ SoundInv'
<1>1. req' \in [Request -> Frames] /\ req'[r] = f /\ \A k \in Request : k # r => req'[k] = req[k]
  BY DEF FrameInv
<1>2. \A k \in Request : Sound(req'[k], ask'[k], quotes'[k], plan'[k], now')
  BY <1>1 DEF SoundInv
<1> QED
  BY <1>1, <1>2 DEF FrameInv, SoundInv

\* What the feed does of itself leaves the clock.
LEMMA FeedClock ==
  ASSUME FeedNext
  PROVE  now' = now
BY DEF FeedNext, publish, serve, push, startProbe, endProbe, warm, onmessage

\* Every quote is of the adapter that gives it, and of this instant.
LEMMA QuoteIs ==
  ASSUME NEW r \in Request, NEW a \in Adapter, NEW qs \in Quotes(r, a), NEW q \in qs
  PROVE  q.source = a /\ q.at = now
<1>1. \A b, p, out, l, i : QuoteOf(r, b, p, out, l, i).source = b /\ QuoteOf(r, b, p, out, l, i).at = now
  BY DEF QuoteOf
<1>2. \A b, p, l, i : AtPrice(r, b, p, l, i).source = b /\ AtPrice(r, b, p, l, i).at = now
  BY <1>1 DEF AtPrice
<1>3. \A b, out, l, i : AtAmount(r, b, out, l, i).source = b /\ AtAmount(r, b, out, l, i).at = now
  BY <1>1 DEF AtAmount
<1>4. \A b, p, m, s, t, l : Synthetic(r, b, p, m, s, t, l).source = b /\ Synthetic(r, b, p, m, s, t, l).at = now
  BY <1>2 DEF Synthetic
<1>5. CASE a = "mock"
  <2>1. PICK s : s.source = a /\ s.at = now /\ q = [s EXCEPT !.impact = 2, !.latency = 1]
    <3> DEFINE s == Synthetic(r, "mock", FallbackMid, 0, 8, 10, 5)
    <3>1. q = [s EXCEPT !.impact = 2, !.latency = 1]
      BY <1>5 DEF Quotes, oracleMockQuote
    <3>2. s.source = a /\ s.at = now
      BY <1>4, <1>5
    <3> HIDE DEF s
    <3> QED
      BY <3>1, <3>2
  <2> QED
    BY <2>1
<1>6. CASE a = "injective_helix"
  <2>1. qs \in helixQuote(r)
    BY <1>6 DEF Quotes
  <2>2. qs = {} \/ qs = Fallback(r, "injective_helix", 60)
        \/ \E o \in Priceable : qs = {AtPrice(r, "injective_helix", o.price, o.liquidity, 0)}
    BY <2>1 DEF helixQuote
  <2> QED
    BY <2>2, <1>2, <1>4, <1>6 DEF Fallback
<1>7. CASE a = "monad_dex"
  <2>1. qs \in monadQuote(r)
    BY <1>7 DEF Quotes
  <2>2. \/ qs = Fallback(r, "monad_dex", 30)
        \/ \E o \in Fillable(r) : qs = {zeroxQuote(r, o)} \/ qs = {oneinchQuote(r, o)}
    BY <2>1 DEF monadQuote
  <2> QED
    BY <2>2, <1>1, <1>3, <1>4, <1>7 DEF Fallback, zeroxQuote, oneinchQuote
<1>8. CASE a = "jupiter"
  <2>1. qs \in jupiterQuote(r)
    BY <1>8 DEF Quotes
  <2> QED
    BY <2>1, <1>3, <1>8 DEF jupiterQuote
<1>9. CASE a = "raydium"
  <2>1. qs \in raydiumQuote(r)
    BY <1>9 DEF Quotes
  <2> QED
    BY <2>1, <1>2, <1>9 DEF raydiumQuote
<1>10. CASE a = "orca"
  <2>1. qs \in orcaQuote(r)
    BY <1>10 DEF Quotes
  <2>2. qs = {} \/ \E o \in Offer : qs = {AtAmount(r, "orca", VenueOut(r, o), o.liquidity, 0)}
    BY <2>1 DEF orcaQuote
  <2> QED
    BY <2>2, <1>3, <1>10
<1> QED
  BY <1>5, <1>6, <1>7, <1>8, <1>9, <1>10 DEF Adapter

-----------------------------------------------------------------------------
(* The price *)

\* A request that has its price asks every adapter, or is rejected.
LEMMA PricedKeeps ==
  ASSUME PlanInv, now' = now, NEW r \in Request, req[r].step = "pricing",
         NEW update \in Update \cup {NoPrice}, NEW via \in {"mock", "cache", "rest"},
         via # "cache" /\ ~update.isStale => now - update.time <= StaleAge,
         Priced(r, update, via), UNCHANGED <<quotes, plan>>
  PROVE  FrameInv' /\ SoundInv'
<1>0. req[r] \in Frames /\ now \in Time /\ now \in Nat /\ QuoteTimeout \in Nat
      /\ ask[r] \in [Adapter -> {"idle", "asked", "answered", "failed"}]
      /\ Sound(req[r], ask[r], quotes[r], plan[r], now) /\ FrameInv /\ SoundInv
  BY TimeAssumption, BoundAssumption DEF PlanInv, FeedInv, FeedTypeOK, FrameInv, SoundInv, Time
<1>1. CASE validateIntent(req[r].intent, nativeAmount(req[r].intent), update, Policy, unitOf(r))
  <2> DEFINE f == [req[r] EXCEPT !.step = "quoting", !.oracle = update, !.via = via, !.started = now]
             asks == [a \in Adapter |-> IF a \in Adapters THEN "asked" ELSE "idle"]
  <2>1. req' = [req EXCEPT ![r] = f] /\ ask' = [ask EXCEPT ![r] = asks] /\ ~update.isStale
    BY <1>1 DEF Priced, validateIntent, unitOf
  <2>2. f \in Frames /\ f.step = "quoting" /\ f.oracle = update /\ f.via = via /\ f.started = now
    BY <1>0 DEF Frames
  <2>3. asks \in [Adapter -> {"idle", "asked", "answered", "failed"}]
    OBVIOUS
  <2> HIDE DEF f, asks
  <2>4. ask' \in [Request -> [Adapter -> {"idle", "asked", "answered", "failed"}]]
        /\ (\A k \in Request : k # r => ask'[k] = ask[k])
    BY <1>0, <2>1, <2>3 DEF FrameInv
  <2>5. f.started <= now /\ now <= f.started + QuoteTimeout
        /\ (f.via # "cache" => f.started - f.oracle.time <= StaleAge)
    BY <1>0, <2>1, <2>2
  <2>6. quotes[r] = {}
    BY <1>0 DEF Sound
  <2>7. Sound(f, ask'[r], quotes[r], plan[r], now)
    BY <1>0, <2>2, <2>5, <2>6 DEF Sound
  <2> QED
    BY <1>0, <2>1, <2>2, <2>4, <2>7, OneRequest DEF FrameInv
<1>2. CASE ~validateIntent(req[r].intent, nativeAmount(req[r].intent), update, Policy, unitOf(r))
  <2> DEFINE f == [req[r] EXCEPT !.step = "rejected"]
  <2>1. req' = [req EXCEPT ![r] = f] /\ ask' = ask
    BY <1>2 DEF Priced, Goes, unitOf
  <2>2. f \in Frames /\ f.step = "rejected" /\ f.started = req[r].started
    BY <1>0 DEF Frames
  <2> HIDE DEF f
  <2>3. Sound(f, ask[r], quotes[r], plan[r], now)
    BY <1>0, <2>2 DEF Sound
  <2> QED
    BY <1>0, <2>1, <2>2, <2>3, OneRequest DEF FrameInv
<1> QED
  BY <1>1, <1>2

LEMMA ThrownKeeps ==
  ASSUME PlanInv, now' = now, NEW r \in Request, req[r].step = "pricing",
         Thrown(r), UNCHANGED <<quotes, plan>>
  PROVE  FrameInv' /\ SoundInv'
<1>0. req[r] \in Frames /\ Sound(req[r], ask[r], quotes[r], plan[r], now)
      /\ FrameInv /\ SoundInv
  BY DEF PlanInv, FrameInv, SoundInv
<1>1. req[r].intent \in Intent /\ req[r].intent.pair \in Pair
  BY <1>0, IntentAssumption DEF Sound
<1>2. CASE cache[req[r].intent.pair] # NoPrice
  <2>1. Priced(r, cache[req[r].intent.pair], "cache")
    BY <1>2 DEF Thrown
  <2>2. cache[req[r].intent.pair] \in Update \cup {NoPrice}
    BY <1>1 DEF PlanInv, FeedInv, FeedTypeOK
  <2> QED
    BY <2>1, <2>2, PricedKeeps
<1>3. CASE cache[req[r].intent.pair] = NoPrice
  <2>1. /\ ask' = ask
        /\ req' = IF req[r].attempt = Retries
                  THEN [req EXCEPT ![r].step = "rejected"]
                  ELSE [req EXCEPT ![r].attempt = @ + 1]
    BY <1>3 DEF Thrown
  <2>2. PICK f \in Frames : /\ req' = [req EXCEPT ![r] = f]
                            /\ f.step \in {"pricing", "rejected"} /\ f.intent = req[r].intent
                            /\ f.started = req[r].started
    <3>1. CASE req[r].attempt = Retries
      <4> DEFINE f == [req[r] EXCEPT !.step = "rejected"]
      <4>1. req' = [req EXCEPT ![r] = f]
        BY <2>1, <3>1
      <4>2. f \in Frames /\ f.step = "rejected" /\ f.intent = req[r].intent
            /\ f.started = req[r].started
        BY <1>0 DEF Frames
      <4> QED
        BY <4>1, <4>2
    <3>2. CASE req[r].attempt # Retries
      <4> DEFINE n == req[r].attempt + 1
                 f == [req[r] EXCEPT !.attempt = n]
      <4>1. req' = [req EXCEPT ![r] = f]
        BY <2>1, <3>2
      <4>2. n \in 0..Retries
        BY <1>0, <3>2, BoundAssumption DEF Frames
      <4> HIDE DEF n
      <4>3. f \in Frames /\ f.step = "pricing" /\ f.intent = req[r].intent
            /\ f.started = req[r].started
        BY <1>0, <4>2 DEF Frames
      <4> QED
        BY <4>1, <4>3
    <3> QED
      BY <3>1, <3>2
  <2>3. Sound(f, ask[r], quotes[r], plan[r], now)
    BY <1>0, <1>1, <2>2 DEF Sound
  <2> QED
    BY <1>0, <2>1, <2>2, <2>3, OneRequest DEF FrameInv
<1> QED
  BY <1>2, <1>3

LEMMA LatestKeeps ==
  ASSUME PlanInv, NEW r \in Request, getLatest(r)
  PROVE  FeedInv' /\ FrameInv' /\ SoundInv'
<1> DEFINE pair == req[r].intent.pair
<1>0. req[r].step = "pricing" /\ now' = now /\ UNCHANGED <<quotes, plan>>
      /\ UNCHANGED <<feedOf, useMock, now, hermes, source, boot, cache, wire>>
  BY DEF getLatest, At
<1>1. Sound(req[r], ask[r], quotes[r], plan[r], now) /\ FrameInv /\ SoundInv /\ FetchOK /\ FeedInv
  BY DEF PlanInv, SoundInv, FeedInv
<1>2. req[r].intent \in Intent /\ pair \in Pair
  BY <1>0, <1>1, IntentAssumption DEF Sound
<1>3. CASE source = "live" /\ Resolves({pair})
  <2> DEFINE f == [fetch[r] EXCEPT !.state = "sent"]
  <2>1. fetch' = [fetch EXCEPT ![r] = f] /\ UNCHANGED <<req, ask>> /\ r \in Fetcher
    BY <1>3 DEF getLatest, Fetcher
  <2>2. f \in Fetched /\ f.state = "sent"
    BY <1>1, <2>1 DEF FetchOK, Fetched
  <2> HIDE DEF f
  <2>3. FetchOK'
    BY <1>1, <2>1, <2>2, FetchKeeps
  <2>4. FeedInv'
    BY <1>0, <1>1, <2>3, CacheKeeps DEF FeedInv, FeedTypeOK, FetchOK
  <2> QED
    BY <1>0, <1>1, <2>1, <2>4 DEF FrameInv, SoundInv
<1>4. CASE ~(source = "live" /\ Resolves({pair}))
  <2>1. fetch' = fetch
        /\ IF Resolves({pair}) THEN Priced(r, MockPrice(pair), "mock") ELSE Thrown(r)
    BY <1>4 DEF getLatest
  <2>2. FeedInv'
    BY <1>0, <1>1, <2>1, CacheKeeps DEF FeedInv, FeedTypeOK, FetchOK
  <2>3. MockPrice(pair) \in Update
    BY <1>1, <1>2, MockType DEF FeedInv, FeedTypeOK
  <2>5. now - MockPrice(pair).time <= StaleAge
    <3>1. now \in Nat /\ StaleAge \in Nat
      BY <1>1, TimeAssumption DEF FeedInv, FeedTypeOK, Time
    <3> QED
      BY <3>1 DEF MockPrice
  <2> HIDE DEF pair
  <2>4. FrameInv' /\ SoundInv'
    BY <1>0, <2>1, <2>3, <2>5, PricedKeeps, ThrownKeeps
  <2> QED
    BY <2>2, <2>4
<1> QED
  BY <1>3, <1>4

\* An answer that parses is a sound update.
LEMMA ArrivedType ==
  ASSUME PlanInv, NEW r \in Request, priceArrives(r), Answered(r, {req[r].intent.pair})
  PROVE  Parsed(req[r].intent.pair, fetch[r].response) \in Update
<1> DEFINE pair == req[r].intent.pair
           resp == fetch[r].response
<1>1. Sound(req[r], ask[r], quotes[r], plan[r], now) /\ FetchOK /\ FeedTypeOK
      /\ req[r].step = "pricing" /\ r \in Fetcher
  BY DEF PlanInv, SoundInv, FeedInv, priceArrives, At, Fetcher
<1>2. pair \in Pair
  BY <1>1, IntentAssumption DEF Sound
<1>3. resp \in Response /\ resp[feedOf[pair]].price > 0
  BY <1>1 DEF Answered, FetchOK, Parses
<1>4. feedOf[pair] # NoFeed
  BY DEF Answered, PlanInv, AskedInv
<1> QED
  BY <1>1, <1>2, <1>3, <1>4, ParsedType

LEMMA ArrivalKeeps ==
  ASSUME PlanInv, NEW r \in Request, priceArrives(r)
  PROVE  FeedInv' /\ FrameInv' /\ SoundInv'
<1> DEFINE pair == req[r].intent.pair
           resp == fetch[r].response
<1>0. req[r].step = "pricing" /\ now' = now /\ UNCHANGED <<quotes, plan>>
      /\ fetch' = [fetch EXCEPT ![r] = NoFetch] /\ r \in Fetcher
      /\ UNCHANGED <<feedOf, useMock, now, hermes, source, boot, cache, wire>>
  BY DEF priceArrives, At, Fetcher
<1>1. Sound(req[r], ask[r], quotes[r], plan[r], now) /\ FetchOK /\ FeedInv /\ FeedTypeOK
  BY DEF PlanInv, SoundInv, FeedInv
<1>2. req[r].intent \in Intent /\ pair \in Pair
  BY <1>0, <1>1, IntentAssumption DEF Sound
<1>3. NoFetch \in Fetched /\ NoFetch.state = "none"
  BY FetchTypes DEF NoFetch
<1>4. FetchOK'
  BY <1>0, <1>1, <1>3, FetchKeeps
<1>5. FeedInv'
  BY <1>0, <1>1, <1>4, CacheKeeps DEF FeedInv, FeedTypeOK, FetchOK
<1>6. CASE Answered(r, {pair})
  <2>1. Priced(r, Parsed(pair, resp), "rest")
    BY <1>6 DEF priceArrives
  <2>4. Parsed(pair, resp) \in Update
    BY <1>6, ArrivedType
  <2>5. Parsed(pair, resp).isStale = (now - Parsed(pair, resp).time > StaleAge)
    BY DEF Parsed
  <2> DEFINE update == Parsed(pair, resp)
  <2> HIDE DEF update
  <2>6. ~update.isStale => now - update.time <= StaleAge
    <3>1. now \in Int /\ StaleAge \in Int /\ update.time \in Int
      BY <1>1, <2>4, TimeAssumption DEF Update, FeedTypeOK, Time, update
    <3>2. update.isStale <=> now - update.time > StaleAge
      BY <2>5, Zenon DEF update
    <3> QED
      BY <3>1, <3>2
  <2>7. Priced(r, update, "rest") /\ update \in Update \cup {NoPrice}
    BY <2>1, <2>4 DEF update
  <2> QED
    BY <1>0, <1>5, <2>6, <2>7, PricedKeeps
<1>7. CASE ~Answered(r, {pair})
  BY <1>0, <1>5, <1>7, ThrownKeeps DEF priceArrives
<1> QED
  BY <1>5, <1>6, <1>7

-----------------------------------------------------------------------------
(* The round, the route and the plan *)

LEMMA PrepareKeeps ==
  ASSUME PlanInv, NEW r \in Request, prepareTrade(r)
  PROVE  FrameInv' /\ SoundInv'
<1>1. PICK intent \in Intent : req' = [req EXCEPT ![r] = Frame("pricing", intent)]
  BY DEF prepareTrade
<1>2. UNCHANGED <<now, ask, quotes, plan>> /\ req[r].step = "new"
  BY DEF prepareTrade, feedVars, At
<1>3. Frame("pricing", intent) \in Frames /\ Frame("pricing", intent).step = "pricing"
      /\ Frame("pricing", intent).intent = intent
  BY FrameType
<1>4. Sound(req[r], ask[r], quotes[r], plan[r], now) /\ FrameInv /\ SoundInv
  BY DEF PlanInv, SoundInv
<1>5. Sound(Frame("pricing", intent), ask[r], quotes[r], plan[r], now)
  BY <1>2, <1>3, <1>4 DEF Sound
<1> QED
  BY <1>1, <1>2, <1>3, <1>4, <1>5, OneRequest DEF FrameInv

\* An answer counts as long as its adapter is awaited.
LEMMA AnswerKeeps ==
  ASSUME PlanInv, NEW r \in Request, NEW a \in Adapter, adapterAnswers(r, a)
  PROVE  FrameInv' /\ SoundInv'
<1>1. PICK qs \in Quotes(r, a) : quotes' = [quotes EXCEPT ![r] = quotes[r] \cup qs]
  BY DEF adapterAnswers
<1>2. UNCHANGED <<now, req, plan>> /\ ask' = [ask EXCEPT ![r][a] = "answered"]
      /\ req[r].step = "quoting" /\ ask[r][a] = "asked"
  BY DEF adapterAnswers, feedVars, At
<1>3. Sound(req[r], ask[r], quotes[r], plan[r], now) /\ FrameInv /\ SoundInv
      /\ now \in Nat /\ req[r] \in Frames /\ QuoteTimeout \in Nat
  BY TimeAssumption, BoundAssumption DEF PlanInv, SoundInv, FeedInv, FeedTypeOK, FrameInv, Time
<1>4. \A q \in qs : q.source = a /\ q.at = now
  BY QuoteIs
<1>5. /\ ask' \in [Request -> [Adapter -> {"idle", "asked", "answered", "failed"}]]
      /\ ask'[r][a] = "answered" /\ \A b \in Adapter : b # a => ask'[r][b] = ask[r][b]
      /\ \A k \in Request : k # r => ask'[k] = ask[k]
      /\ DOMAIN ask[r] = Adapter /\ ask'[r] = [ask[r] EXCEPT ![a] = "answered"]
  BY <1>2, <1>3 DEF FrameInv
<1>6. /\ quotes'[r] = quotes[r] \cup qs /\ DOMAIN quotes' = Request
      /\ \A k \in Request : k # r => quotes'[k] = quotes[k]
  BY <1>1, <1>3 DEF FrameInv
<1>7. now - req[r].started <= QuoteTimeout
  BY <1>2, <1>3, TimeAssumption DEF Sound, Frames, Time
<1>8. \A q \in quotes[r] : q.source # a
  BY <1>2, <1>3 DEF Sound
<1>9. \A q \in quotes'[r] : ask'[r][q.source] = "answered" /\ q.at - req[r].started <= QuoteTimeout
  <2> TAKE q \in quotes'[r]
  <2>1. CASE q \in qs
    BY <2>1, <1>4, <1>5, <1>7
  <2>2. CASE q \in quotes[r]
    BY <2>2, <1>2, <1>3, <1>5, <1>8 DEF Sound
  <2> QED
    BY <2>1, <2>2, <1>6
<1>10. Sound(req[r], ask'[r], quotes'[r], plan[r], now)
  BY <1>2, <1>3, <1>9 DEF Sound
<1>11. req' = [req EXCEPT ![r] = req[r]]
  BY <1>2, <1>3 DEF FrameInv
<1>12. /\ DOMAIN plan' = Request
       /\ \A k \in Request : k # r =>
            ask'[k] = ask[k] /\ quotes'[k] = quotes[k] /\ plan'[k] = plan[k]
  BY <1>2, <1>3, <1>5, <1>6 DEF FrameInv
<1>13. Sound(req[r], ask'[r], quotes'[r], plan'[r], now)
  BY <1>2, <1>10
<1>14. req[r] \in Frames /\ now' = now /\ FrameInv /\ SoundInv /\ DOMAIN quotes' = Request
       /\ ask' \in [Request -> [Adapter -> {"idle", "asked", "answered", "failed"}]]
  BY <1>2, <1>3, <1>5, <1>6
<1> QED
  BY <1>11, <1>12, <1>13, <1>14, OneRequest

\* An adapter that threw or was given up has no quote.
LEMMA FailureKeeps ==
  ASSUME PlanInv, NEW r \in Request, NEW a \in Adapter,
         adapterThrows(r, a) \/ quoteTimeout(r, a)
  PROVE  FrameInv' /\ SoundInv'
<1>2. UNCHANGED <<now, req, quotes, plan>> /\ ask' = [ask EXCEPT ![r][a] = "failed"]
      /\ req[r].step = "quoting" /\ ask[r][a] = "asked"
  BY DEF adapterThrows, quoteTimeout, feedVars, At
<1>3. Sound(req[r], ask[r], quotes[r], plan[r], now) /\ FrameInv /\ SoundInv
      /\ req[r] \in Frames
  BY DEF PlanInv, SoundInv, FrameInv
<1>5. /\ ask' \in [Request -> [Adapter -> {"idle", "asked", "answered", "failed"}]]
      /\ ask'[r] = [ask[r] EXCEPT ![a] = "failed"]
      /\ \A k \in Request : k # r => ask'[k] = ask[k]
  BY <1>2, <1>3 DEF FrameInv
<1>9. \A q \in quotes[r] : ask'[r][q.source] = "answered" /\ q.at - req[r].started <= QuoteTimeout
  BY <1>2, <1>3, <1>5 DEF Sound
<1>10. Sound(req[r], ask'[r], quotes[r], plan[r], now)
  BY <1>2, <1>3, <1>9 DEF Sound
<1>11. req' = [req EXCEPT ![r] = req[r]]
  BY <1>2, <1>3 DEF FrameInv
<1> QED
  BY <1>2, <1>3, <1>5, <1>10, <1>11, OneRequest DEF FrameInv

\* The end of a round: what the plan rests on is no older than the limit and the
\* time the round took.
LEMMA RouteKeeps ==
  ASSUME PlanInv, NEW r \in Request, selectRoute(r)
  PROVE  FrameInv' /\ SoundInv'
<1>0. Sound(req[r], ask[r], quotes[r], plan[r], now) /\ FrameInv /\ SoundInv
      /\ req[r] \in Frames /\ now \in Nat /\ QuoteTimeout \in Nat /\ StaleAge \in Nat
  BY TimeAssumption, BoundAssumption DEF PlanInv, SoundInv, FeedInv, FeedTypeOK, FrameInv, Time
<1>1. req[r].step = "quoting" /\ now' = now
  BY DEF selectRoute, Settled, At, feedVars
<1>2. PICK step \in {"building", "ready", "rejected"} :
        /\ Ends(r, step)
        /\ \/ plan' = plan
           \/ \E q \in Best(side(r), quotes[r]) : plan' = [plan EXCEPT ![r] = PlanOf(r, q)]
  BY DEF selectRoute
<1>3. req' = [req EXCEPT ![r] = Frame(step, NoPlan)] /\ ask' = [ask EXCEPT ![r] = NoRound]
      /\ quotes' = [quotes EXCEPT ![r] = {}]
  BY <1>2 DEF Ends
<1>4. Frame(step, NoPlan) \in Frames /\ Frame(step, NoPlan).step = step
  BY FrameType
<1>5. NoRound \in [Adapter -> {"idle", "asked", "answered", "failed"}]
  BY DEF NoRound
<1>6. /\ ask' \in [Request -> [Adapter -> {"idle", "asked", "answered", "failed"}]]
      /\ quotes'[r] = {} /\ DOMAIN quotes' = Request /\ DOMAIN plan' = Request
  BY <1>0, <1>2, <1>3, <1>5 DEF FrameInv
<1>7. \A k \in Request : k # r =>
        ask'[k] = ask[k] /\ quotes'[k] = quotes[k] /\ plan'[k] = plan[k]
  BY <1>0, <1>2, <1>3 DEF FrameInv
<1>8. plan'[r] # NoPlan /\ plan'[r].via # "cache" =>
        plan'[r].createdAt - plan'[r].oracle.time <= StaleAge + QuoteTimeout
  <2>1. CASE plan' = plan
    BY <2>1, <1>0 DEF Sound
  <2>2. ASSUME NEW q \in Best(side(r), quotes[r]), plan' = [plan EXCEPT ![r] = PlanOf(r, q)]
        PROVE  plan'[r].via # "cache" =>
                 plan'[r].createdAt - plan'[r].oracle.time <= StaleAge + QuoteTimeout
    <3>1. plan'[r].via = req[r].via /\ plan'[r].createdAt = now /\ plan'[r].oracle = req[r].oracle
      BY <2>2, <1>0 DEF PlanOf, FrameInv
    <3>2. req[r].started \in Int /\ req[r].oracle.time \in Int
      BY <1>0, TimeAssumption DEF Frames, Update, NoPrice, Time
    <3>3. req[r].via # "cache" => req[r].started - req[r].oracle.time <= StaleAge
      BY <1>0, <1>1 DEF Sound
    <3>4. now <= req[r].started + QuoteTimeout
      BY <1>0, <1>1 DEF Sound
    <3> QED
      BY <1>0, <3>1, <3>2, <3>3, <3>4
  <2> QED
    BY <2>1, <2>2, <1>2
<1>9. Sound(Frame(step, NoPlan), ask'[r], quotes'[r], plan'[r], now)
  BY <1>4, <1>6, <1>8 DEF Sound
<1> QED
  BY <1>0, <1>1, <1>3, <1>4, <1>6, <1>7, <1>9, OneRequest

LEMMA BuildKeeps ==
  ASSUME PlanInv, NEW r \in Request, buildSwapTransaction(r)
  PROVE  FrameInv' /\ SoundInv'
<1>0. Sound(req[r], ask[r], quotes[r], plan[r], now) /\ FrameInv /\ SoundInv
      /\ req[r] \in Frames
  BY DEF PlanInv, SoundInv, FrameInv
<1>1. req[r].step = "building" /\ now' = now /\ UNCHANGED <<ask, quotes>>
  BY DEF buildSwapTransaction, At, feedVars
<1>2. PICK step \in {"ready", "rejected"} :
        /\ req' = [req EXCEPT ![r].step = step]
        /\ plan' = plan \/ plan' = [plan EXCEPT ![r] = NoPlan]
  BY DEF buildSwapTransaction, Goes
<1> DEFINE f == [req[r] EXCEPT !.step = step]
<1>3. req' = [req EXCEPT ![r] = f]
  BY <1>2
<1>4. f \in Frames /\ f.step = step /\ f.started = req[r].started
  BY <1>0 DEF Frames
<1> HIDE DEF f
<1>5. quotes[r] = {} /\ (plan'[r] = plan[r] \/ plan'[r] = NoPlan)
  BY <1>0, <1>1, <1>2 DEF Sound, FrameInv
<1>6. Sound(f, ask'[r], quotes'[r], plan'[r], now)
  BY <1>0, <1>1, <1>4, <1>5 DEF Sound
<1>7. /\ \A k \in Request : k # r =>
           ask'[k] = ask[k] /\ quotes'[k] = quotes[k] /\ plan'[k] = plan[k]
      /\ DOMAIN plan' = Request /\ DOMAIN quotes' = Request
      /\ ask' \in [Request -> [Adapter -> {"idle", "asked", "answered", "failed"}]]
  BY <1>0, <1>1, <1>2 DEF FrameInv
<1> QED
  BY <1>0, <1>1, <1>3, <1>4, <1>6, <1>7, OneRequest

LEMMA ClockKeeps ==
  ASSUME PlanInv, Tick
  PROVE  FrameInv' /\ SoundInv'
<1>1. now' = now + 1 /\ UNCHANGED <<req, ask, quotes, plan>> /\ now \in Nat
  BY TimeAssumption DEF Tick, tick, planVars, PlanInv, FeedInv, FeedTypeOK, Time
<1>2. ASSUME NEW r \in Request
      PROVE  Sound(req[r], ask[r], quotes[r], plan[r], now + 1)
  <2>1. Sound(req[r], ask[r], quotes[r], plan[r], now) /\ req[r] \in Frames
    BY DEF PlanInv, SoundInv, FrameInv
  <2>2. req[r].step = "quoting" => now < req[r].started + QuoteTimeout
    BY DEF Tick, At
  <2>3. req[r].started \in Nat /\ QuoteTimeout \in Nat
    BY <2>1, TimeAssumption, BoundAssumption DEF Frames, Time
  <2> QED
    BY <1>1, <2>1, <2>2, <2>3 DEF Sound
<1> QED
  BY <1>1, <1>2 DEF PlanInv, FrameInv, SoundInv

\* A request that does not wait for Hermes has no fetch.
LEMMA AskedOne ==
  ASSUME AskedInv, NEW r \in Request, fetch'[r].state = "none", feedOf' = feedOf,
         \A k \in Request : k # r => req'[k] = req[k] /\ fetch'[k] = fetch[k]
  PROVE  AskedInv'
BY DEF AskedInv

LEMMA AskedNext ==
  ASSUME PlanInv, Next
  PROVE  AskedInv'
<1>0. FetchOK /\ FrameInv /\ AskedInv /\ \A r \in Request : r \in Fetcher /\ r # Probe /\ r # Warm
  BY FetcherAssumption DEF PlanInv, FeedInv, Fetcher
<1>1. CASE FeedNext /\ UNCHANGED planVars
  <2>1. UNCHANGED <<feedOf, req>>
    BY <1>1 DEF FeedNext, publish, serve, push, startProbe, endProbe, warm, onmessage, planVars
  <2>2. \A k \in Request : fetch'[k].state # "none" => fetch[k].state # "none"
    <3>1. ASSUME NEW w \in Fetcher, serve(w), NEW k \in Request
          PROVE  fetch'[k].state # "none" => fetch[k].state # "none"
      BY <3>1, <1>0 DEF serve, FetchOK
    <3>2. CASE startProbe \/ endProbe \/ warm
      <4>1. \A k \in Request : fetch'[k] = fetch[k]
        BY <3>2, <1>0 DEF startProbe, endProbe, warm, FetchOK
      <4> QED
        BY <4>1
    <3>3. CASE fetch' = fetch
      BY <3>3
    <3> QED
      BY <1>1, <3>1, <3>2, <3>3 DEF FeedNext, publish, push, onmessage
  <2> QED
    BY <1>0, <2>1, <2>2 DEF AskedInv
<1>2. CASE Tick
  BY <1>2, <1>0 DEF Tick, tick, planVars, AskedInv
<1>3. ASSUME NEW r \in Request, getLatest(r)
      PROVE  AskedInv'
  <2>1. req[r].step = "pricing" /\ feedOf' = feedOf
    BY <1>3 DEF getLatest, At
  <2>2. CASE fetch' = fetch
    <3>1. fetch'[r].state = "none"
      BY <1>3, <2>2 DEF getLatest
    <3>2. \A k \in Request : k # r => req'[k] = req[k]
      BY <1>3, <1>0 DEF getLatest, Priced, Thrown, Goes, FrameInv
    <3> QED
      BY <1>0, <2>1, <2>2, <3>1, <3>2, AskedOne
  <2>3. CASE /\ Resolves({req[r].intent.pair}) /\ req' = req
             /\ fetch' = [fetch EXCEPT ![r].state = "sent"]
    <3>1. \A k \in Request : k # r => fetch'[k] = fetch[k]
      BY <2>3, <1>0 DEF FetchOK
    <3> QED
      BY <1>0, <2>1, <2>3, <3>1 DEF AskedInv, Resolves
  <2> QED
    BY <1>3, <2>2, <2>3 DEF getLatest
<1>4. ASSUME NEW r \in Request, priceArrives(r)
      PROVE  AskedInv'
  <2>1. fetch' = [fetch EXCEPT ![r] = NoFetch] /\ feedOf' = feedOf
    BY <1>4 DEF priceArrives
  <2>2. fetch'[r].state = "none" /\ \A k \in Request : k # r => fetch'[k] = fetch[k]
    BY <2>1, <1>0 DEF FetchOK, NoFetch
  <2>3. \A k \in Request : k # r => req'[k] = req[k]
    BY <1>4, <1>0 DEF priceArrives, Priced, Thrown, Goes, FrameInv
  <2> QED
    BY <1>0, <2>1, <2>2, <2>3, AskedOne
<1>5. ASSUME NEW r \in Request,
             \/ prepareTrade(r) \/ selectRoute(r) \/ buildSwapTransaction(r)
             \/ \E a \in Adapter : adapterAnswers(r, a) \/ adapterThrows(r, a) \/ quoteTimeout(r, a)
      PROVE  AskedInv'
  <2>1. req[r].step # "pricing" /\ UNCHANGED <<feedOf, fetch>>
    BY <1>5 DEF prepareTrade, selectRoute, buildSwapTransaction, adapterAnswers, adapterThrows,
                quoteTimeout, Settled, At, feedVars
  <2>2. \A k \in Request : k # r => req'[k] = req[k]
    BY <1>5, <1>0 DEF prepareTrade, selectRoute, buildSwapTransaction, adapterAnswers,
                      adapterThrows, quoteTimeout, Ends, Goes, FrameInv
  <2> QED
    BY <1>0, <2>1, <2>2, AskedOne DEF AskedInv
<1> QED
  BY <1>1, <1>2, <1>3, <1>4, <1>5 DEF Next, Proceed

-----------------------------------------------------------------------------
(* The arithmetic of a quote *)

LEMMA Quotient ==
  ASSUME NEW x \in Nat, NEW n \in Nat, n > 0
  PROVE  /\ x \div n \in Nat /\ (x \div n) * n <= x /\ x < (x \div n) * n + n
         /\ \A y \in Nat : y * n <= x => y <= x \div n
OBVIOUS

LEMMA Product ==
  ASSUME NEW x \in Nat, NEW y \in Nat
  PROVE  /\ x * y \in Nat /\ x * y = y * x
         /\ \A z \in Nat : /\ (x * y) * z = x * (y * z) /\ x * (y + z) = x * y + x * z
                           /\ y <= z => x * y <= x * z
OBVIOUS

LEMMA SlippageKeeps ==
  ASSUME NEW out \in Nat, NEW fair \in Nat, out >= fair, NEW s \in Nat, s <= 5000
  PROVE  applyBps(out, s) >= applyBps(fair, s)
<1> DEFINE left == Bps - s
           u == out * left
           v == fair * left
<1>1. left \in Nat
  BY DEF Bps
<1>2. applyBps(out, s) = u \div 10000 /\ applyBps(fair, s) = v \div 10000
  BY DEF applyBps, Bps
<1> HIDE DEF left
<1>3. u \in Nat /\ v \in Nat /\ v <= u
  BY <1>1
<1> HIDE DEF u, v
<1>4. u \div 10000 >= v \div 10000
  BY <1>3
<1> QED
  BY <1>2, <1>4

\* validateRoute's limit on the price, without a fraction.
Near(quoted, price, dev) ==
  /\ 10 * quoted >= 10000 * price - dev * price
  /\ 10 * quoted <= 10000 * price + dev * price

LEMMA NearOracle ==
  ASSUME NEW price \in Nat, NEW quoted \in Nat, NEW dev \in Nat,
         Abs(quoted - price * Scale) * Bps <= dev * price * Scale
  PROVE  Near(quoted, price, dev)
<1> DEFINE w == dev * price
<1>1. w \in Nat /\ Abs(quoted - price * 1000) * 10000 <= w * 1000
  BY DEF Scale, Bps
<1> HIDE DEF w
<1>2. 10 * quoted >= 10000 * price - w /\ 10 * quoted <= 10000 * price + w
  BY <1>1 DEF Abs
<1> QED
  BY <1>1, <1>2 DEF w, Near

\* What an amount is worth at the oracle's price, less the deviation: of a sale in
\* the base token's native units, and of a purchase for an amount in these.
fairSale(amount, price, dev) == applyBps(amount * price, dev)
fairPurchase(amount, price, dev) == (amount * Bps) \div (price * (Bps + dev))

LEMMA SaleAtOracle ==
  ASSUME NEW amount \in Nat, NEW price \in Nat, NEW dev \in Nat,
         NEW quoted \in Nat, Near(quoted, price, dev)
  PROVE  /\ fairSale(amount, price, dev) \in Nat
         /\ fairSale(amount, price, dev) * 1000 <= amount * quoted
<1> DEFINE left == IF dev < 10000 THEN 10000 - dev ELSE 0
           k == price * left
           x == (amount * price) * left
           y == amount * quoted
<1>1. left \in Nat /\ k \in Nat /\ k <= 10 * quoted
  <2>1. dev * price = price * dev /\ price * dev \in Nat
        /\ price * (10000 - dev) = price * 10000 - price * dev
    OBVIOUS
  <2>2. left \in Nat
    OBVIOUS
  <2>3. k \in Nat
    BY <2>2
  <2>4. k <= 10 * quoted
    <3>1. CASE dev < 10000
      <4>1. k = price * (10000 - dev)
        BY <3>1
      <4> HIDE DEF k
      <4> QED
        BY <2>1, <4>1 DEF Near
    <3>2. CASE ~(dev < 10000)
      <4>1. k = 0
        BY <3>2
      <4> HIDE DEF k
      <4> QED
        BY <4>1
    <3> QED
      BY <3>1, <3>2
  <2> QED
    BY <2>2, <2>3, <2>4
<1>2. fairSale(amount, price, dev) = x \div 10000
  BY DEF fairSale, applyBps, Bps
<1> HIDE DEF left
<1>3. x = amount * k /\ x \in Nat /\ y \in Nat /\ amount * (10 * quoted) = 10 * y
  BY <1>1
<1> HIDE DEF k
<1>4. amount * k <= amount * (10 * quoted)
  BY <1>1
<1>5. x <= 10 * y
  BY <1>3, <1>4
<1> HIDE DEF x, y
<1>6. x \div 10000 \in Nat /\ (x \div 10000) * 1000 <= y
  BY <1>3, <1>5
<1> QED
  BY <1>2, <1>6 DEF y

LEMMA SaleWorth ==
  ASSUME NEW amount \in Nat, amount > 0, NEW price \in Nat, NEW dev \in Nat,
         NEW unit \in Nat, unit > 0,
         NEW quoted \in Nat, quoted > 0, Near(quoted, price, dev), NEW out \in Nat, out > 0,
         \/ out = outputAmountFromPrice("bid", amount, quoted, unit)
         \/ quoted = calculatePairPrice("bid", amount, out, unit)
  PROVE  /\ fairSale(amount, price, dev) \div unit \in Nat
         /\ out >= fairSale(amount, price, dev) \div unit
<1> DEFINE whole == fairSale(amount, price, dev)
           fair == whole \div unit
           y == amount * quoted
           part == 1000 * unit
<1>1. whole \in Nat /\ whole * 1000 <= y /\ y \in Nat /\ part \in Nat /\ part > 0
  <2>1. fairSale(amount, price, dev) \in Nat
        /\ fairSale(amount, price, dev) * 1000 <= amount * quoted
    BY SaleAtOracle, SMTT(60)
  <2> QED
    BY <2>1
<1> HIDE DEF whole
<1>2. fair \in Nat /\ fair * unit <= whole
  BY <1>1, Quotient
<1> HIDE DEF fair
<1>3. fair * part <= y
  <2>1. fair * part = 1000 * (fair * unit) /\ fair * unit \in Nat
    BY <1>2
  <2> HIDE DEF y, part
  <2> QED
    BY <1>1, <1>2, <2>1
<1>4. out >= fair
  <2>1. CASE out = outputAmountFromPrice("bid", amount, quoted, unit)
    <3>1. out = y \div part
      BY <2>1 DEF outputAmountFromPrice, Scale
    <3> HIDE DEF y, part
    <3> QED
      BY <1>1, <1>2, <1>3, <3>1, Quotient
  <2>2. CASE quoted = calculatePairPrice("bid", amount, out, unit)
    <3> DEFINE z == out * unit * 1000
    <3>1. quoted = z \div amount /\ z \in Nat
      BY <2>2 DEF calculatePairPrice, Scale
    <3>2. z = out * part
      OBVIOUS
    <3> HIDE DEF z
    <3>3. quoted * amount <= z
      BY <3>1, Quotient
    <3>4. y = quoted * amount
      OBVIOUS
    <3> HIDE DEF y, part
    <3>5. fair * part <= out * part
      <4>1. fair * part \in Nat /\ quoted * amount \in Nat
        BY <1>1, <1>2
      <4> QED
        BY <1>1, <1>3, <3>1, <3>2, <3>3, <3>4, <4>1
    <3>6. ASSUME out < fair PROVE FALSE
      <4>1. (out + 1) * part <= fair * part
        BY <1>1, <1>2, <3>6
      <4>2. (out + 1) * part = out * part + part /\ out * part \in Nat /\ fair * part \in Nat
        BY <1>1, <1>2
      <4> QED
        BY <1>1, <3>5, <4>1, <4>2
    <3> QED
      BY <1>2, <3>6
  <2> QED
    BY <2>1, <2>2
<1> QED
  BY <1>2, <1>4 DEF fair, whole

LEMMA PurchaseAtOracle ==
  ASSUME NEW amount \in Nat, NEW price \in Nat, price > 0, NEW dev \in Nat,
         NEW quoted \in Nat, Near(quoted, price, dev)
  PROVE  /\ fairPurchase(amount, price, dev) \in Nat
         /\ fairPurchase(amount, price, dev) * quoted <= amount * 1000
         /\ fairPurchase(amount, price, dev) * price <= amount
<1> DEFINE fair == fairPurchase(amount, price, dev)
           k == price * (10000 + dev)
<1>1. k \in Nat /\ k >= 10 * quoted /\ k >= 10000 * price
  <2>1. price * (10000 + dev) = price * 10000 + price * dev /\ dev * price = price * dev
        /\ price * dev \in Nat
    OBVIOUS
  <2> QED
    BY <2>1 DEF Near
<1>2. fair = (amount * 10000) \div k
  BY DEF fairPurchase, Bps
<1> HIDE DEF fair, k
<1>3. fair * k <= amount * 10000 /\ fair \in Nat
  <2>1. k > 0 /\ amount * 10000 \in Nat
    BY <1>1
  <2> QED
    BY <1>1, <1>2, <2>1, Quotient
<1>4. fair * (10 * quoted) <= fair * k /\ fair * (10000 * price) <= fair * k
  BY <1>1, <1>3
<1>5. fair * (10 * quoted) = 10 * (fair * quoted) /\ fair * (10000 * price) = 10000 * (fair * price)
      /\ fair * quoted \in Nat /\ fair * price \in Nat
  BY <1>3
<1> DEFINE u == fair * quoted
           v == fair * price
<1>6. 10 * u <= amount * 10000 /\ 10000 * v <= amount * 10000 /\ u \in Nat /\ v \in Nat
  <2>1. fair * (10 * quoted) \in Nat /\ fair * (10000 * price) \in Nat /\ fair * k \in Nat
    BY <1>1, <1>3
  <2> QED
    BY <1>3, <1>4, <1>5, <2>1
<1> HIDE DEF u, v
<1>7. u <= amount * 1000 /\ v <= amount
  BY <1>6
<1> QED
  BY <1>3, <1>7 DEF u, v, fair

\* An inverse price that is near the oracle's is one only where it is far from 1.
LEMMA PurchaseWorth ==
  ASSUME NEW amount \in Nat, amount > 0, NEW price \in Nat, price > 0, NEW dev \in Nat,
         NEW quoted \in Nat, quoted > 0, Near(quoted, price, dev), NEW out \in Nat, out > 0,
         NEW p \in Nat, p > 0, out = (amount * 1000) \div p,
         \/ p <= quoted
         \/ quoted = (Scale * Scale) \div p /\ dev <= 5000 /\ price >= 2
  PROVE  out >= fairPurchase(amount, price, dev)
<1> DEFINE fair == fairPurchase(amount, price, dev)
<1>1. fair \in Nat /\ fair * quoted <= amount * 1000 /\ fair * price <= amount
  BY PurchaseAtOracle, SMTT(60)
<1> HIDE DEF fair
<1>2. out = (amount * 1000) \div p /\ amount * 1000 \in Nat
  OBVIOUS
<1>3. fair * p <= amount * 1000
  <2>1. CASE p <= quoted
    <3>1. fair * p <= fair * quoted
      BY <1>1, <2>1
    <3> QED
      BY <1>1, <3>1
  <2>2. CASE quoted = (Scale * Scale) \div p /\ dev <= 5000 /\ price >= 2
    <3>1. quoted = 1000000 \div p
      BY <2>2 DEF Scale
    <3>2. quoted * p <= 1000000
      BY <3>1, Quotient
    <3>3. quoted >= 1000
      <4>1. dev * price <= 5000 * price /\ dev * price \in Nat
        BY <2>2
      <4> QED
        BY <2>2, <4>1 DEF Near
    <3>4. p <= 1000
      <4>1. 1000 * p <= quoted * p
        BY <3>3
      <4> QED
        BY <3>2, <4>1
    <3>5. fair * p <= fair * (1000 * price)
      <4>1. p <= 1000 * price
        BY <2>2, <3>4
      <4> QED
        BY <1>1, <4>1
    <3>6. fair * (1000 * price) = 1000 * (fair * price) /\ fair * price \in Nat
      BY <1>1
    <3> QED
      BY <1>1, <3>5, <3>6
  <2> QED
    BY <2>1, <2>2
<1> QED
  BY <1>1, <1>2, <1>3, Quotient DEF fair

-----------------------------------------------------------------------------
(* What a plan is worth *)

QuoteType ==
  [source : Adapter, chain : {"solana", "injective", "monad"}, price : Nat,
   outAmount : Nat, liquidity : Nat, impact : Nat, latency : Nat, at : Time]

\* Some deployment takes 0x's price of a purchase for the pair's, of which it is the
\* inverse.
Inverts == \E d \in Deployment : d.monadMode = "0x"

\* A venue's amount follows from a price p for the amount spent, and its price is p,
\* follows from the amounts or is the inverse of p.
PricedBy(sd, amount, unit, q) ==
  \E p \in Nat :
    /\ q.outAmount = outputAmountFromPrice(sd, amount, p, unit)
    /\ \/ q.price = p
       \/ q.price = calculatePairPrice(sd, amount, q.outAmount, unit)
       \/ Inverts /\ sd = "ask" /\ p > 0 /\ q.price = (Scale * Scale) \div p

\* Where prices are inverted, none is so close to 1 that its inverse passes for it.
InverseIsFar ==
  Inverts => 2 * Policy.maxOracleDeviationBps <= Bps /\ \A p \in Price : p >= 2

fairValue(intent, price) ==
  LET amount == nativeAmount(intent)
      unit == Unit[intent.pair]
      dev == Policy.maxOracleDeviationBps
  IN  IF intent.side = "sell" THEN fairSale(amount, price, dev) \div unit
      ELSE fairPurchase(amount * unit, price, dev)
Worth(p) ==
  p.minOutAmount >= applyBps(fairValue(p.intent, p.oracle.price), p.intent.maxSlippageBps)

\* What holds of a frame f, its adapters, its quotes and its plan in a deployment
\* with the given venues: all quotes of a round are for the amount it spends.
RoundOf(f, asks, answers, made, venues) ==
  /\ f.step = "quoting" =>
       /\ f.intent \in Intent
       /\ nativeAmount(f.intent) > 0
       /\ f.oracle \in Update /\ f.via \in {"mock", "cache", "rest"}
       /\ \A q \in answers :
            q \in QuoteType /\ PricedBy(sideOf(f.intent), nativeAmount(f.intent), Unit[f.intent.pair], q)
  /\ \A a \in Adapter : asks[a] # "idle" => a \in venues
  /\ made # NoPlan =>
       /\ made \in Plan /\ made.quote.source \in venues
       /\ InverseIsFar => Worth(made)

RoundInv ==
  /\ deployment \in Deployment
  /\ \A r \in Request : RoundOf(req[r], ask[r], quotes[r], plan[r], Adapters)

LEMMA IntentType ==
  ASSUME NEW intent \in Intent
  PROVE  /\ nativeAmount(intent) \in Int /\ sideOf(intent) \in {"bid", "ask"}
         /\ intent.pair \in Pair /\ intent.side \in {"buy", "sell"}
         /\ Unit[intent.pair] \in Nat /\ Unit[intent.pair] > 0
         /\ intent.maxSlippageBps \in Nat /\ intent.maxSlippageBps <= 5000
<1>1. /\ intent.pair \in Pair /\ intent.side \in {"buy", "sell"} /\ intent.amount \in Int
      /\ intent.decimals \in Nat /\ intent.maxSlippageBps \in 1..5000
  BY IntentAssumption
<1>2. intent.amount * intent.decimals \in Int
  BY <1>1
<1>3. nativeAmount(intent) \in Int
  BY <1>1, <1>2 DEF nativeAmount
<1>4. sideOf(intent) \in {"bid", "ask"}
  BY DEF sideOf
<1>5. intent.maxSlippageBps \in Nat /\ intent.maxSlippageBps <= 5000
  <2> DEFINE bps == intent.maxSlippageBps
  <2>1. bps \in 1..5000
    BY <1>1
  <2> HIDE DEF bps
  <2>2. bps \in Nat /\ bps <= 5000
    BY <2>1
  <2> QED
    BY <2>2 DEF bps
<1>6. Unit[intent.pair] \in Nat /\ Unit[intent.pair] > 0
  BY <1>1, UnitAssumption
<1> QED
  BY <1>1, <1>3, <1>4, <1>5, <1>6

\* The amounts and prices of quotes are natural numbers.
LEMMA AmountTypes ==
  ASSUME NEW sd \in {"bid", "ask"}, NEW amount \in Nat, NEW x \in Nat,
         NEW unit \in Nat, unit > 0
  PROVE  /\ outputAmountFromPrice(sd, amount, x, unit) \in Nat
         /\ calculatePairPrice(sd, amount, x, unit) \in Nat
<1> DEFINE sold == amount * x
           bought == amount * unit * 1000
           back == x * unit * 1000
           part == 1000 * unit
<1>1. sold \in Nat /\ bought \in Nat /\ back \in Nat /\ part \in Nat /\ part > 0
  OBVIOUS
<1>2. /\ outputAmountFromPrice(sd, amount, x, unit) =
           IF x <= 0 THEN 0 ELSE IF sd = "bid" THEN sold \div part ELSE bought \div x
      /\ calculatePairPrice(sd, amount, x, unit) =
           IF amount <= 0 \/ x <= 0 THEN 0
           ELSE IF sd = "bid" THEN back \div amount ELSE bought \div x
  BY DEF outputAmountFromPrice, calculatePairPrice, Scale
<1> HIDE DEF sold, bought, back, part
<1>3. sold \div part \in Nat /\ (x > 0 => bought \div x \in Nat)
      /\ (amount > 0 => back \div amount \in Nat)
  BY <1>1, Quotient
<1> QED
  BY <1>2, <1>3

LEMMA ExecutableType ==
  ASSUME NEW mid \in Nat, NEW premium \in Nat, NEW sd, NEW spread \in Nat, spread <= 10000
  PROVE  executablePrice(mid, premium, sd, spread) \in Nat
<1> DEFINE m == IF sd = "bid" THEN 10000 - spread ELSE 10000 + spread
           x == (10000 + premium) * m
           y == x \div 10000
           z == mid * y
<1>1. m \in Nat /\ 10000 + premium \in Nat
  OBVIOUS
<1> HIDE DEF m
<1>2. x \in Nat
  BY <1>1
<1> HIDE DEF x
<1>3. y \in Nat
  BY <1>2
<1> HIDE DEF y
<1>4. z \in Nat
  BY <1>3
<1>5. executablePrice(mid, premium, sd, spread) = z \div 10000
  BY DEF executablePrice, Bps, z, y, x, m
<1> HIDE DEF z
<1> QED
  BY <1>4, <1>5

\* Request r is in a round that spends an amount.
Round(r) ==
  /\ req[r].intent \in Intent /\ amountIn(r) \in Nat /\ amountIn(r) > 0
  /\ unitOf(r) \in Nat /\ unitOf(r) > 0
  /\ side(r) \in {"bid", "ask"}
  /\ now \in Time /\ now - req[r].started \in Time
  /\ cache \in [Pair -> Update \cup {NoPrice}] /\ deployment \in Deployment

LEMMA QuoteOfType ==
  ASSUME NEW r, Round(r), NEW a \in Adapter, NEW price \in Nat, NEW out \in Nat,
         NEW liquidity \in Nat, NEW impact \in Nat
  PROVE  /\ QuoteOf(r, a, price, out, liquidity, impact) \in QuoteType
         /\ QuoteOf(r, a, price, out, liquidity, impact).price = price
         /\ QuoteOf(r, a, price, out, liquidity, impact).outAmount = out
<1>1. chainOf(a) \in {"solana", "injective", "monad"}
  BY DEF chainOf
<1>2. now \in Time /\ now - req[r].started \in Nat
  BY TimeAssumption DEF Round, Time
<1> QED
  BY <1>1, <1>2 DEF QuoteOf, QuoteType

LEMMA AtPriceShape ==
  ASSUME NEW r, Round(r), NEW a \in Adapter, NEW price \in Nat, NEW liquidity \in Nat,
         NEW impact \in Nat
  PROVE  /\ AtPrice(r, a, price, liquidity, impact) \in QuoteType
         /\ PricedBy(side(r), amountIn(r), unitOf(r), AtPrice(r, a, price, liquidity, impact))
<1> DEFINE out == outputAmountFromPrice(side(r), amountIn(r), price, unitOf(r))
<1>1. out \in Nat
  BY AmountTypes DEF Round
<1>2. AtPrice(r, a, price, liquidity, impact) = QuoteOf(r, a, price, out, liquidity, impact)
  BY DEF AtPrice, AmountAt
<1> HIDE DEF out
<1>3. /\ QuoteOf(r, a, price, out, liquidity, impact) \in QuoteType
      /\ QuoteOf(r, a, price, out, liquidity, impact).price = price
      /\ QuoteOf(r, a, price, out, liquidity, impact).outAmount = out
  BY <1>1, QuoteOfType
<1> QED
  BY <1>2, <1>3 DEF PricedBy, out

LEMMA AtAmountShape ==
  ASSUME NEW r, Round(r), NEW a \in Adapter, NEW p \in Nat, NEW out \in Nat,
         out = outputAmountFromPrice(side(r), amountIn(r), p, unitOf(r)),
         NEW liquidity \in Nat, NEW impact \in Nat
  PROVE  /\ AtAmount(r, a, out, liquidity, impact) \in QuoteType
         /\ PricedBy(side(r), amountIn(r), unitOf(r), AtAmount(r, a, out, liquidity, impact))
<1> DEFINE price == calculatePairPrice(side(r), amountIn(r), out, unitOf(r))
<1>1. price \in Nat
  BY AmountTypes DEF Round
<1>2. AtAmount(r, a, out, liquidity, impact) = QuoteOf(r, a, price, out, liquidity, impact)
  BY DEF AtAmount
<1> DEFINE q == QuoteOf(r, a, price, out, liquidity, impact)
<1> HIDE DEF price
<1>3. q \in QuoteType /\ q.price = price /\ q.outAmount = out
  <2>1. out \in Nat /\ liquidity \in Nat /\ impact \in Nat /\ a \in Adapter /\ Round(r)
    OBVIOUS
  <2> QED
    BY <1>1, <2>1, QuoteOfType, SMTT(60)
<1> HIDE DEF q
<1>4. PricedBy(side(r), amountIn(r), unitOf(r), q)
  BY <1>3 DEF PricedBy, price
<1> QED
  BY <1>2, <1>3, <1>4 DEF q

\* A mid is the price of the cache or a reference.
LEMMA SyntheticShape ==
  ASSUME NEW r, Round(r), NEW a \in Adapter, NEW reference \in Nat, NEW premium \in Nat,
         NEW bidSpread \in Nat, bidSpread <= 10000, NEW askSpread \in Nat, askSpread <= 10000,
         NEW liquidity \in Nat
  PROVE  /\ Synthetic(r, a, reference, premium, bidSpread, askSpread, liquidity) \in QuoteType
         /\ PricedBy(side(r), amountIn(r), unitOf(r),
                     Synthetic(r, a, reference, premium, bidSpread, askSpread, liquidity))
<1> DEFINE pair == req[r].intent.pair
           mid == IF cache[pair] # NoPrice THEN cache[pair].price ELSE reference
           spread == IF side(r) = "bid" THEN bidSpread ELSE askSpread
           price == executablePrice(mid * Scale, premium, side(r), spread)
<1>1. pair \in Pair /\ cache[pair] \in Update \cup {NoPrice}
  BY IntentType DEF Round
<1>2. mid \in Nat
  <2>1. cache[pair] # NoPrice => cache[pair].price \in Price
    BY <1>1 DEF Update
  <2>2. \A x \in Price : x \in Nat
    BY PriceAssumption
  <2> QED
    BY <2>1, <2>2
<1> HIDE DEF mid
<1>3. mid * Scale \in Nat /\ spread \in Nat /\ spread <= 10000
  BY <1>2 DEF Scale
<1> HIDE DEF spread
<1>4. price \in Nat
  BY <1>3, ExecutableType
<1>5. Synthetic(r, a, reference, premium, bidSpread, askSpread, liquidity)
        = AtPrice(r, a, price, liquidity, 0)
  BY DEF Synthetic, price, mid, spread
<1> HIDE DEF price
<1> QED
  BY <1>4, <1>5, AtPriceShape

LEMMA OfferTypes ==
  ASSUME NEW r, Round(r), NEW o \in Offer
  PROVE  /\ o.price \in Nat /\ o.liquidity \in Nat /\ o.impact \in Nat
         /\ VenueOut(r, o) \in Nat
         /\ VenueOut(r, o) = outputAmountFromPrice(side(r), amountIn(r), o.price, unitOf(r))
         /\ VenueOut(r, o) > 0 => o.price > 0
<1>1. o.price \in Nat /\ o.liquidity \in Nat /\ o.impact \in Nat
  BY BoundAssumption
<1>2. outputAmountFromPrice(side(r), amountIn(r), o.price, unitOf(r)) \in Nat
  BY <1>1, AmountTypes DEF Round
<1>3. o.price = 0 => outputAmountFromPrice(side(r), amountIn(r), o.price, unitOf(r)) = 0
  BY DEF outputAmountFromPrice
<1> QED
  BY <1>1, <1>2, <1>3 DEF VenueOut, AmountAt

\* Figures of its own for the impact and the latency leave a quote its price.
LEMMA FiguresShape ==
  ASSUME NEW sd, NEW amount, NEW unit, NEW q \in QuoteType, PricedBy(sd, amount, unit, q),
         NEW impact \in Nat, NEW latency \in Nat
  PROVE  /\ [q EXCEPT !.impact = impact, !.latency = latency] \in QuoteType
         /\ PricedBy(sd, amount, unit, [q EXCEPT !.impact = impact, !.latency = latency])
<1> DEFINE f == [q EXCEPT !.impact = impact, !.latency = latency]
<1>1. f \in QuoteType /\ f.price = q.price /\ f.outAmount = q.outAmount
  BY DEF QuoteType
<1> HIDE DEF f
<1>2. PricedBy(sd, amount, unit, f)
  BY <1>1 DEF PricedBy
<1> QED
  BY <1>1, <1>2 DEF f

LEMMA ImpactType ==
  ASSUME NEW liquidity \in Nat, NEW amount \in Nat
  PROVE  estimatePriceImpactBps(liquidity, amount) \in Nat
<1>1. CASE liquidity = 0
  BY <1>1 DEF estimatePriceImpactBps
<1>2. CASE liquidity > 0
  <2> DEFINE x == amount * 10000 + liquidity - 1
  <2>1. x \in Nat
    BY <1>2
  <2>2. estimatePriceImpactBps(liquidity, amount) =
          IF x \div liquidity < 1000 THEN x \div liquidity ELSE 1000
    BY <1>2 DEF estimatePriceImpactBps, Bps
  <2> HIDE DEF x
  <2>3. x \div liquidity \in Nat
    BY <1>2, <2>1, Quotient
  <2> QED
    BY <2>2, <2>3
<1> QED
  BY <1>1, <1>2

\* Every quote of every venue is for the amount the round spends.
LEMMA QuoteShape ==
  ASSUME NEW r \in Request, Round(r), NEW a \in Adapter, NEW qs \in Quotes(r, a), NEW q \in qs
  PROVE  q \in QuoteType /\ PricedBy(side(r), amountIn(r), unitOf(r), q)
<1>0. req[r].intent.pair \in Pair /\ side(r) \in {"bid", "ask"} /\ amountIn(r) \in Nat
  BY IntentType DEF Round
<1>1. ReferencePrice[req[r].intent.pair] \in Nat /\ FallbackMid \in Nat
  BY <1>0, PriceAssumption, BoundAssumption
<1>2. ASSUME NEW b \in Adapter, NEW premium \in Nat, q \in Fallback(r, b, premium)
      PROVE  q \in QuoteType /\ PricedBy(side(r), amountIn(r), unitOf(r), q)
  BY <1>1, <1>2, SyntheticShape DEF Fallback
<1>3. CASE a = "mock"
  <2> DEFINE s == Synthetic(r, "mock", FallbackMid, 0, 8, 10, 5)
  <2>1. q = [s EXCEPT !.impact = 2, !.latency = 1]
    BY <1>3 DEF Quotes, oracleMockQuote
  <2>2. "mock" \in Adapter
    BY DEF Adapter
  <2>3. s \in QuoteType /\ PricedBy(side(r), amountIn(r), unitOf(r), s)
    BY <1>1, <2>2, SyntheticShape
  <2> HIDE DEF s
  <2> QED
    BY <2>1, <2>3, FiguresShape
<1>4. CASE a = "injective_helix"
  <2>1. qs \in helixQuote(r)
    BY <1>4 DEF Quotes
  <2>2. \/ q \in Fallback(r, "injective_helix", 60)
        \/ \E o \in Priceable : q = AtPrice(r, "injective_helix", o.price, o.liquidity, 0)
    BY <2>1 DEF helixQuote
  <2>3. ASSUME NEW o \in Priceable, q = AtPrice(r, a, o.price, o.liquidity, 0)
        PROVE  q \in QuoteType /\ PricedBy(side(r), amountIn(r), unitOf(r), q)
    <3>1. o.price \in Nat /\ o.liquidity \in Nat
      BY OfferTypes DEF Priceable
    <3> QED
      BY <2>3, <3>1, AtPriceShape
  <2> QED
    BY <1>2, <1>4, <2>2, <2>3
<1>5. CASE a = "monad_dex"
  <2>1. qs \in monadQuote(r)
    BY <1>5 DEF Quotes
  <2>2. \/ q \in Fallback(r, "monad_dex", 30)
        \/ \E o \in Fillable(r) : (Inverts /\ q = zeroxQuote(r, o)) \/ q = oneinchQuote(r, o)
    BY <2>1 DEF monadQuote, Round, Inverts
  <2>3. ASSUME NEW o \in Fillable(r), q = oneinchQuote(r, o)
        PROVE  q \in QuoteType /\ PricedBy(side(r), amountIn(r), unitOf(r), q)
    <3>1. /\ o.price \in Nat /\ VenueOut(r, o) \in Nat /\ "monad_dex" \in Adapter
          /\ VenueOut(r, o) = outputAmountFromPrice(side(r), amountIn(r), o.price, unitOf(r))
      BY OfferTypes DEF Fillable, Adapter
    <3>2. q = AtAmount(r, "monad_dex", VenueOut(r, o), 2, 0)
      BY <2>3 DEF oneinchQuote
    <3> QED
      BY <3>1, <3>2, AtAmountShape
  <2>4. ASSUME NEW o \in Fillable(r), Inverts, q = zeroxQuote(r, o)
        PROVE  q \in QuoteType /\ PricedBy(side(r), amountIn(r), unitOf(r), q)
    <3> DEFINE price == IF side(r) = "bid" THEN o.price ELSE (Scale * Scale) \div o.price
    <3>1. /\ o.price \in Nat \ {0} /\ o.impact \in Nat /\ VenueOut(r, o) \in Nat
          /\ VenueOut(r, o) = outputAmountFromPrice(side(r), amountIn(r), o.price, unitOf(r))
      BY OfferTypes DEF Fillable
    <3>2. price \in Nat
      <4>1. (Scale * Scale) \div o.price \in Nat
        BY <3>1, Quotient DEF Scale
      <4> QED
        BY <3>1, <4>1
    <3>3. q = QuoteOf(r, a, price, VenueOut(r, o), 2, o.impact)
      BY <1>5, <2>4 DEF zeroxQuote
    <3>4. side(r) = "bid" => price = o.price
      OBVIOUS
    <3>5. side(r) = "ask" => price = (Scale * Scale) \div o.price
      OBVIOUS
    <3> HIDE DEF price
    <3>6. q \in QuoteType /\ q.price = price /\ q.outAmount = VenueOut(r, o)
      <4>1. VenueOut(r, o) \in Nat /\ o.impact \in Nat /\ 2 \in Nat
        BY <3>1
      <4> QED
        BY <3>2, <3>3, <4>1, QuoteOfType, SMTT(60)
    <3>7. CASE side(r) = "bid"
      BY <3>1, <3>4, <3>6, <3>7 DEF PricedBy
    <3>8. CASE side(r) = "ask"
      <4>1. PricedBy("ask", amountIn(r), unitOf(r), q)
        BY <2>4, <3>1, <3>5, <3>6, <3>8 DEF PricedBy
      <4> QED
        BY <3>6, <3>8, <4>1
    <3> QED
      BY <1>0, <3>7, <3>8
  <2> QED
    BY <1>2, <2>2, <2>3, <2>4 DEF Adapter
<1>6. CASE a = "jupiter"
  <2>1. qs \in jupiterQuote(r)
    BY <1>6 DEF Quotes
  <2>2. PICK o \in Offer :
          q = AtAmount(r, "jupiter", VenueOut(r, o),
                       IF side(r) = "ask" THEN amountIn(r)
                       ELSE (amountIn(r) * o.price) \div (Scale * unitOf(r)), o.impact)
    BY <2>1 DEF jupiterQuote
  <2> DEFINE size == IF side(r) = "ask" THEN amountIn(r)
                     ELSE (amountIn(r) * o.price) \div (Scale * unitOf(r))
  <2>3. /\ o.price \in Nat /\ o.impact \in Nat /\ VenueOut(r, o) \in Nat
        /\ VenueOut(r, o) = outputAmountFromPrice(side(r), amountIn(r), o.price, unitOf(r))
    BY OfferTypes
  <2>4. amountIn(r) * o.price \in Nat
    BY <1>0, <2>3
  <2>5. (amountIn(r) * o.price) \div (Scale * unitOf(r)) \in Nat
    <3>1. Scale * unitOf(r) \in Nat /\ Scale * unitOf(r) > 0
      BY DEF Scale, Round
    <3> QED
      BY <2>4, <3>1, Quotient
  <2>6. size \in Nat
    BY <1>0, <2>5
  <2> HIDE DEF size
  <2>7. q = AtAmount(r, a, VenueOut(r, o), size, o.impact)
    BY <1>6, <2>2 DEF size
  <2> QED
    BY <2>3, <2>6, <2>7, AtAmountShape
<1>7. CASE a = "raydium"
  <2>1. qs \in raydiumQuote(r)
    BY <1>7 DEF Quotes
  <2>2. PICK o \in Priceable :
          q = AtPrice(r, "raydium", executablePrice(o.price, 0, side(r), 25), o.liquidity,
                      estimatePriceImpactBps(o.liquidity, amountIn(r)))
    BY <2>1 DEF raydiumQuote
  <2>3. o.price \in Nat /\ o.liquidity \in Nat
    BY OfferTypes DEF Priceable
  <2>4. executablePrice(o.price, 0, side(r), 25) \in Nat
    BY <2>3, ExecutableType
  <2>5. estimatePriceImpactBps(o.liquidity, amountIn(r)) \in Nat
    BY <1>0, <2>3, ImpactType
  <2> QED
    BY <1>7, <2>2, <2>3, <2>4, <2>5, AtPriceShape
<1>8. CASE a = "orca"
  <2>1. qs \in orcaQuote(r)
    BY <1>8 DEF Quotes
  <2>2. PICK o \in Offer : q = AtAmount(r, "orca", VenueOut(r, o), o.liquidity, 0)
    BY <2>1 DEF orcaQuote
  <2>3. /\ o.price \in Nat /\ o.liquidity \in Nat /\ VenueOut(r, o) \in Nat
        /\ VenueOut(r, o) = outputAmountFromPrice(side(r), amountIn(r), o.price, unitOf(r))
    BY OfferTypes
  <2> QED
    BY <1>8, <2>2, <2>3, AtAmountShape
<1> QED
  BY <1>3, <1>4, <1>5, <1>6, <1>7, <1>8 DEF Adapter

LEMMA SlippageType ==
  ASSUME NEW value \in Nat, NEW bps \in Nat, bps <= 5000
  PROVE  applyBps(value, bps) \in Nat
<1> DEFINE x == value * (10000 - bps)
<1>1. x \in Nat
  <2>1. 10000 - bps \in Nat
    OBVIOUS
  <2> QED
    BY <2>1
<1>2. applyBps(value, bps) = x \div 10000
  BY DEF applyBps, Bps
<1> HIDE DEF x
<1> QED
  BY <1>1, <1>2

\* A quote for the amount, near the oracle's price, gives what the amount is worth.
LEMMA QuoteWorth ==
  ASSUME InverseIsFar, NEW intent \in Intent, NEW update \in Update, NEW q \in QuoteType,
         nativeAmount(intent) > 0, isExecutableQuote(q),
         PricedBy(sideOf(intent), nativeAmount(intent), Unit[intent.pair], q),
         NEW dexes, NEW time, validateRoute(q, update, dexes, Policy, time)
  PROVE  /\ fairValue(intent, update.price) \in Nat
         /\ q.outAmount >= fairValue(intent, update.price)
<1> DEFINE amount == nativeAmount(intent)
           unit == Unit[intent.pair]
           dev == Policy.maxOracleDeviationBps
           price == update.price
<1>1. amount \in Nat /\ amount > 0 /\ intent.side \in {"buy", "sell"} /\ dev \in Nat
      /\ unit \in Nat /\ unit > 0
  BY IntentType, PolicyAssumption
<1>2. price \in Price /\ price \in Nat /\ price > 0
  <2>1. price \in Price
    BY DEF Update
  <2> HIDE DEF price
  <2> QED
    BY <2>1, PriceAssumption
<1>3. Inverts => dev <= 5000 /\ price >= 2
  BY <1>1, <1>2 DEF InverseIsFar, Bps
<1>4. q.price \in Nat /\ q.price > 0 /\ q.outAmount \in Nat /\ q.outAmount > 0
  BY DEF QuoteType, isExecutableQuote
<1>5. Near(q.price, price, dev)
  <2>1. Abs(q.price - price * Scale) * Bps <= dev * price * Scale
    BY DEF validateRoute
  <2> HIDE DEF price, dev
  <2> QED
    BY <1>1, <1>2, <1>4, <2>1, NearOracle
<1>6. CASE intent.side = "sell"
  <2>1. \/ q.outAmount = outputAmountFromPrice("bid", amount, q.price, unit)
        \/ q.price = calculatePairPrice("bid", amount, q.outAmount, unit)
    BY <1>6 DEF PricedBy, sideOf
  <2>2. fairValue(intent, price) = fairSale(amount, price, dev) \div unit
    BY <1>6 DEF fairValue
  <2> HIDE DEF amount, dev, price, unit
  <2>3. /\ fairSale(amount, price, dev) \div unit \in Nat
        /\ q.outAmount >= fairSale(amount, price, dev) \div unit
    BY <1>1, <1>2, <1>4, <1>5, <2>1, SaleWorth
  <2> QED
    BY <2>2, <2>3 DEF price
<1>7. CASE intent.side = "buy"
  <2> DEFINE spent == amount * unit
  <2>1. PICK p \in Nat :
          /\ q.outAmount = outputAmountFromPrice("ask", amount, p, unit)
          /\ \/ q.price = p
             \/ q.price = calculatePairPrice("ask", amount, q.outAmount, unit)
             \/ Inverts /\ q.price = (Scale * Scale) \div p
    BY <1>7 DEF PricedBy, sideOf
  <2>2. p > 0
    BY <1>4, <2>1 DEF outputAmountFromPrice
  <2>3. fairValue(intent, price) = fairPurchase(spent, price, dev)
    BY <1>7 DEF fairValue
  <2> HIDE DEF amount, dev, price, unit
  <2>4. spent \in Nat /\ spent > 0
    BY <1>1
  <2>5. q.outAmount = (spent * 1000) \div p
    BY <1>1, <2>1, <2>2 DEF outputAmountFromPrice, Scale
  <2>6. \/ q.price = p
        \/ q.price = (spent * 1000) \div q.outAmount
        \/ Inverts /\ q.price = (Scale * Scale) \div p
    BY <1>1, <1>4, <2>1 DEF calculatePairPrice, Scale
  <2> HIDE DEF spent
  <2>7. q.outAmount >= fairPurchase(spent, price, dev)
    <3> DEFINE out == q.outAmount
               quoted == q.price
    <3>1. /\ quoted \in Nat /\ quoted > 0 /\ out \in Nat /\ out > 0
          /\ Near(quoted, price, dev) /\ out = (spent * 1000) \div p
      BY <1>4, <1>5, <2>5
    <3>2. dev \in Nat /\ price \in Nat /\ price > 0 /\ spent \in Nat /\ spent > 0
          /\ p \in Nat /\ p > 0
      BY <1>1, <1>2, <2>2, <2>4
    <3>3. \/ p <= quoted
          \/ quoted = (Scale * Scale) \div p /\ dev <= 5000 /\ price >= 2
      <4> HIDE DEF out
      <4>1. p * out <= spent * 1000 /\ spent * 1000 \in Nat
        <5>1. out * p <= spent * 1000
          BY <3>1, <3>2, Quotient
        <5> QED
          BY <3>1, <3>2, <5>1
      <4>2. p <= (spent * 1000) \div out
        BY <3>1, <3>2, <4>1, Quotient
      <4> QED
        BY <1>3, <2>6, <3>1, <3>2, <4>2 DEF out
    <3> HIDE DEF out, quoted
    <3>4. out >= fairPurchase(spent, price, dev)
      BY <3>1, <3>2, <3>3, PurchaseWorth
    <3> QED
      BY <3>4 DEF out
  <2>8. fairPurchase(spent, price, dev) \in Nat
    BY <1>1, <1>2, <1>4, <1>5, <2>4, PurchaseAtOracle, SMTT(60)
  <2> QED
    BY <2>3, <2>7, <2>8 DEF price
<1> QED
  BY <1>1, <1>6, <1>7

\* The plan a round ends with.
LEMMA RoutedPlan ==
  ASSUME PlanInv, RoundInv, NEW r \in Request, req[r].step = "quoting",
         NEW q \in Best(side(r), quotes[r]),
         validateRoute(q, req[r].oracle, allowedDexes, Policy, now)
  PROVE  /\ PlanOf(r, q) \in Plan /\ PlanOf(r, q).quote.source \in Adapters
         /\ InverseIsFar => Worth(PlanOf(r, q))
<1> DEFINE intent == req[r].intent
           update == req[r].oracle
           bps == intent.maxSlippageBps
<1>1. q \in quotes[r] /\ isExecutableQuote(q)
  BY DEF Best
<1>2. /\ intent \in Intent /\ update \in Update /\ req[r].via \in {"mock", "cache", "rest"}
      /\ nativeAmount(intent) > 0
      /\ q \in QuoteType /\ PricedBy(sideOf(intent), nativeAmount(intent), Unit[intent.pair], q)
  BY <1>1 DEF RoundInv, RoundOf
<1>3. q.source \in Adapters
  <2>1. ask[r][q.source] = "answered" /\ q.source \in Adapter
    BY <1>1, <1>2 DEF PlanInv, SoundInv, Sound, QuoteType
  <2> QED
    BY <2>1 DEF RoundInv, RoundOf
<1>4. bps \in Nat /\ bps <= 5000
  BY <1>2, IntentType
<1>5. now \in Time
  BY DEF PlanInv, FeedInv, FeedTypeOK
<1>6. /\ PlanOf(r, q).quote = q /\ PlanOf(r, q).oracle = update /\ PlanOf(r, q).intent = intent
      /\ PlanOf(r, q).minOutAmount = applyBps(q.outAmount, bps)
  BY DEF PlanOf
<1>7. q.outAmount \in Nat \ {0}
  BY <1>1, <1>2 DEF QuoteType, isExecutableQuote
<1>8. PlanOf(r, q) \in Plan
  <2>1. q \in [source : Adapter, chain : {"solana", "injective", "monad"}, price : Nat,
               outAmount : Nat \ {0}, liquidity : Nat, impact : Nat, latency : Nat, at : Time]
    BY <1>2, <1>7 DEF QuoteType
  <2>2. applyBps(q.outAmount, bps) \in Nat
    BY <1>4, <1>7, SlippageType
  <2> QED
    BY <1>2, <1>5, <2>1, <2>2 DEF PlanOf, Plan
<1>9. ASSUME InverseIsFar PROVE Worth(PlanOf(r, q))
  <2> DEFINE fair == fairValue(intent, update.price)
  <2>1. fair \in Nat /\ q.outAmount >= fair
    BY <1>1, <1>2, <1>9, QuoteWorth
  <2> HIDE DEF fair, bps
  <2>2. applyBps(q.outAmount, bps) >= applyBps(fair, bps)
    BY <1>4, <1>7, <2>1, SlippageKeeps
  <2> QED
    BY <1>6, <2>2 DEF Worth, fair, bps
<1> QED
  BY <1>3, <1>6, <1>8, <1>9

LEMMA VenuesStay == deployment' = deployment => Adapters' = Adapters
BY DEF Adapters

\* A step that concerns request r alone.
LEMMA OneRound ==
  ASSUME FrameInv, RoundInv, deployment' = deployment, NEW r \in Request, NEW f,
         req' = [req EXCEPT ![r] = f],
         \A k \in Request : k # r => ask'[k] = ask[k] /\ quotes'[k] = quotes[k] /\ plan'[k] = plan[k],
         RoundOf(f, ask'[r], quotes'[r], plan'[r], Adapters)
  PROVE  RoundInv'
<1>1. req'[r] = f /\ \A k \in Request : k # r => req'[k] = req[k]
  BY DEF FrameInv
<1>2. \A k \in Request : RoundOf(req'[k], ask'[k], quotes'[k], plan'[k], Adapters)
  <2> TAKE k \in Request
  <2>1. CASE k = r
    BY <2>1, <1>1
  <2>2. CASE k # r
    <3>1. RoundOf(req[k], ask[k], quotes[k], plan[k], Adapters)
      BY DEF RoundInv
    <3> QED
      BY <1>1, <2>2, <3>1
  <2> QED
    BY <2>1, <2>2
<1> QED
  BY <1>2, VenuesStay DEF RoundInv

\* A frame that is in no round.
LEMMA NoRoundOf ==
  ASSUME NEW f, f.step # "quoting", NEW asks, NEW answers, NEW made, NEW venues,
         \A a \in Adapter : asks[a] # "idle" => a \in venues,
         made # NoPlan => /\ made \in Plan /\ made.quote.source \in venues
                          /\ InverseIsFar => Worth(made)
  PROVE  RoundOf(f, asks, answers, made, venues)
BY DEF RoundOf

LEMMA RoundHas ==
  ASSUME RoundInv, NEW r \in Request
  PROVE  /\ \A a \in Adapter : ask[r][a] # "idle" => a \in Adapters
         /\ plan[r] # NoPlan => /\ plan[r] \in Plan /\ plan[r].quote.source \in Adapters
                                /\ InverseIsFar => Worth(plan[r])
BY DEF RoundInv, RoundOf

\* A request that has its price spends an amount, or is rejected.
LEMMA PricedRound ==
  ASSUME PlanInv, RoundInv, NEW r \in Request, req[r].step = "pricing",
         NEW update \in Update \cup {NoPrice}, NEW via \in {"mock", "cache", "rest"},
         Priced(r, update, via), UNCHANGED <<deployment, quotes, plan>>
  PROVE  RoundInv'
<1>0. req[r] \in Frames /\ Sound(req[r], ask[r], quotes[r], plan[r], now) /\ FrameInv
  BY DEF PlanInv, FrameInv, SoundInv
<1>1. CASE validateIntent(req[r].intent, nativeAmount(req[r].intent), update, Policy, unitOf(r))
  <2> DEFINE f == [req[r] EXCEPT !.step = "quoting", !.oracle = update, !.via = via, !.started = now]
             asks == [a \in Adapter |-> IF a \in Adapters THEN "asked" ELSE "idle"]
             intent == req[r].intent
  <2>1. req' = [req EXCEPT ![r] = f] /\ ask' = [ask EXCEPT ![r] = asks] /\ ~update.isStale
        /\ nativeAmount(intent) > 0
    BY <1>1 DEF Priced, validateIntent, unitOf
  <2>2. /\ f.step = "quoting" /\ f.oracle = update /\ f.via = via /\ f.intent = intent
    BY <1>0 DEF Frames
  <2>3. \A a \in Adapter : asks[a] # "idle" => a \in Adapters
    OBVIOUS
  <2>4. update \in Update
    BY <2>1 DEF NoPrice
  <2>5. intent \in Intent /\ quotes[r] = {}
    BY <1>0 DEF Sound
  <2> HIDE DEF f, asks, intent
  <2>6. ask'[r] = asks /\ \A k \in Request : k # r => ask'[k] = ask[k]
    BY <1>0, <2>1 DEF FrameInv
  <2>7. RoundOf(f, ask'[r], quotes[r], plan[r], Adapters)
    BY <2>1, <2>2, <2>3, <2>4, <2>5, <2>6, RoundHas DEF RoundOf
  <2> QED
    BY <1>0, <2>1, <2>6, <2>7, OneRound
<1>2. CASE ~validateIntent(req[r].intent, nativeAmount(req[r].intent), update, Policy, unitOf(r))
  <2> DEFINE f == [req[r] EXCEPT !.step = "rejected"]
  <2>1. req' = [req EXCEPT ![r] = f] /\ ask' = ask
    BY <1>2 DEF Priced, Goes, unitOf
  <2>2. f.step = "rejected"
    BY <1>0 DEF Frames
  <2> HIDE DEF f
  <2>3. RoundOf(f, ask[r], quotes[r], plan[r], Adapters)
    BY <2>2, RoundHas, NoRoundOf
  <2> QED
    BY <1>0, <2>1, <2>3, OneRound
<1> QED
  BY <1>1, <1>2

LEMMA ThrownRound ==
  ASSUME PlanInv, RoundInv, NEW r \in Request, req[r].step = "pricing",
         Thrown(r), UNCHANGED <<deployment, quotes, plan>>
  PROVE  RoundInv'
<1>0. req[r] \in Frames /\ Sound(req[r], ask[r], quotes[r], plan[r], now) /\ FrameInv
  BY DEF PlanInv, FrameInv, SoundInv
<1>1. CASE cache[req[r].intent.pair] # NoPrice
  <2>1. Priced(r, cache[req[r].intent.pair], "cache")
    BY <1>1 DEF Thrown
  <2>2. req[r].intent.pair \in Pair
    BY <1>0, IntentAssumption DEF Sound
  <2>3. cache[req[r].intent.pair] \in Update \cup {NoPrice}
    BY <2>2 DEF PlanInv, FeedInv, FeedTypeOK
  <2> QED
    BY <2>1, <2>3, PricedRound
<1>2. CASE cache[req[r].intent.pair] = NoPrice
  <2> DEFINE f == [req[r] EXCEPT !.step = "rejected"]
             g == [req[r] EXCEPT !.attempt = @ + 1]
  <2>1. ask' = ask /\ (req' = [req EXCEPT ![r] = f] \/ req' = [req EXCEPT ![r] = g])
    BY <1>2 DEF Thrown
  <2>2. f.step # "quoting" /\ g.step # "quoting"
    BY <1>0 DEF Frames
  <2> HIDE DEF f, g
  <2>3. RoundOf(f, ask[r], quotes[r], plan[r], Adapters) /\ RoundOf(g, ask[r], quotes[r], plan[r], Adapters)
    BY <2>2, RoundHas, NoRoundOf
  <2>4. CASE req' = [req EXCEPT ![r] = f]
    BY <1>0, <2>1, <2>3, <2>4, OneRound
  <2>5. CASE req' = [req EXCEPT ![r] = g]
    BY <1>0, <2>1, <2>3, <2>5, OneRound
  <2> QED
    BY <2>1, <2>4, <2>5
<1> QED
  BY <1>1, <1>2

LEMMA PriceRound ==
  ASSUME PlanInv, RoundInv, NEW r \in Request, getLatest(r) \/ priceArrives(r)
  PROVE  RoundInv'
<1> DEFINE pair == req[r].intent.pair
<1>0. req[r].step = "pricing" /\ UNCHANGED <<deployment, quotes, plan>>
  BY DEF getLatest, priceArrives, At
<1>1. Sound(req[r], ask[r], quotes[r], plan[r], now) /\ now \in Time
  BY DEF PlanInv, SoundInv, FeedInv, FeedTypeOK
<1>2. pair \in Pair
  BY <1>0, <1>1, IntentAssumption DEF Sound
<1>3. MockPrice(pair) \in Update
  BY <1>1, <1>2, MockType
<1>4. CASE getLatest(r)
  <2>1. \/ UNCHANGED <<req, ask>>
        \/ Priced(r, MockPrice(pair), "mock")
        \/ Thrown(r)
    BY <1>4 DEF getLatest
  <2>2. CASE UNCHANGED <<req, ask>>
    BY <1>0, <2>2, VenuesStay DEF RoundInv
  <2> HIDE DEF pair
  <2> QED
    BY <1>0, <1>3, <2>1, <2>2, PricedRound, ThrownRound
<1>5. CASE priceArrives(r)
  <2>1. CASE Answered(r, {pair})
    <3> DEFINE update == Parsed(pair, fetch[r].response)
    <3>1. Priced(r, update, "rest")
      BY <1>5, <2>1 DEF priceArrives
    <3>2. update \in Update
      BY <1>5, <2>1, ArrivedType
    <3> HIDE DEF update
    <3> QED
      BY <1>0, <3>1, <3>2, PricedRound
  <2>2. CASE ~Answered(r, {pair})
    BY <1>0, <1>5, <2>2, ThrownRound DEF priceArrives
  <2> QED
    BY <2>1, <2>2
<1> QED
  BY <1>4, <1>5

LEMMA AnswerRound ==
  ASSUME PlanInv, RoundInv, NEW r \in Request, NEW a \in Adapter, adapterAnswers(r, a)
  PROVE  RoundInv'
<1>1. PICK qs \in Quotes(r, a) : quotes' = [quotes EXCEPT ![r] = @ \cup qs]
  BY DEF adapterAnswers
<1>2. UNCHANGED <<req, plan, deployment>> /\ ask' = [ask EXCEPT ![r][a] = "answered"]
      /\ req[r].step = "quoting" /\ ask[r][a] = "asked"
  BY DEF adapterAnswers, At
<1>3. req[r] \in Frames /\ FrameInv /\ RoundOf(req[r], ask[r], quotes[r], plan[r], Adapters)
      /\ Sound(req[r], ask[r], quotes[r], plan[r], now) /\ FeedTypeOK
  BY DEF PlanInv, FrameInv, SoundInv, FeedInv, RoundInv
<1>4. Round(r)
  <2>1. req[r].intent \in Intent /\ amountIn(r) > 0
    BY <1>2, <1>3 DEF RoundOf, amountIn
  <2>2. now - req[r].started \in Time
    BY <1>2, <1>3, TimeAssumption DEF Sound, Frames, FeedTypeOK, Time
  <2>3. amountIn(r) \in Nat
    BY <2>1, IntentType DEF amountIn
  <2>4. side(r) \in {"bid", "ask"}
    BY <2>1, IntentType DEF side
  <2>5. unitOf(r) \in Nat /\ unitOf(r) > 0
    BY <2>1, IntentType DEF unitOf
  <2> QED
    BY <1>3, <2>1, <2>2, <2>3, <2>4, <2>5 DEF Round, FeedTypeOK, RoundInv
<1>5. \A q \in qs : q \in QuoteType /\ PricedBy(side(r), amountIn(r), unitOf(r), q)
  BY <1>4, QuoteShape
<1>6. /\ quotes'[r] = quotes[r] \cup qs
      /\ \A k \in Request : k # r => quotes'[k] = quotes[k]
  BY <1>1, <1>3 DEF FrameInv
<1>7. /\ \A b \in Adapter : ask'[r][b] # "idle" => ask[r][b] # "idle"
      /\ \A k \in Request : k # r => ask'[k] = ask[k]
  BY <1>2, <1>3 DEF FrameInv
<1>8. \A q \in quotes'[r] :
        q \in QuoteType /\ PricedBy(sideOf(req[r].intent), nativeAmount(req[r].intent), Unit[req[r].intent.pair], q)
  BY <1>2, <1>3, <1>5, <1>6 DEF RoundOf, side, amountIn, unitOf
<1>9. RoundOf(req[r], ask'[r], quotes'[r], plan'[r], Adapters)
  BY <1>2, <1>3, <1>7, <1>8 DEF RoundOf
<1>10. req' = [req EXCEPT ![r] = req[r]]
  BY <1>2, <1>3 DEF FrameInv
<1>11. /\ FrameInv /\ RoundInv /\ deployment' = deployment
       /\ \A k \in Request : k # r =>
            ask'[k] = ask[k] /\ quotes'[k] = quotes[k] /\ plan'[k] = plan[k]
  BY <1>2, <1>3, <1>6, <1>7
<1> QED
  BY <1>9, <1>10, <1>11, OneRound

LEMMA FailureRound ==
  ASSUME PlanInv, RoundInv, NEW r \in Request, NEW a \in Adapter,
         adapterThrows(r, a) \/ quoteTimeout(r, a)
  PROVE  RoundInv'
<1>2. UNCHANGED <<req, quotes, plan, deployment>> /\ ask' = [ask EXCEPT ![r][a] = "failed"]
      /\ ask[r][a] = "asked"
  BY DEF adapterThrows, quoteTimeout
<1>3. FrameInv /\ RoundOf(req[r], ask[r], quotes[r], plan[r], Adapters)
  BY DEF PlanInv, RoundInv
<1>7. /\ \A b \in Adapter : ask'[r][b] # "idle" => ask[r][b] # "idle"
      /\ \A k \in Request : k # r => ask'[k] = ask[k]
  BY <1>2, <1>3 DEF FrameInv
<1>9. RoundOf(req[r], ask'[r], quotes'[r], plan'[r], Adapters)
  BY <1>2, <1>3, <1>7 DEF RoundOf
<1>10. req' = [req EXCEPT ![r] = req[r]]
  BY <1>2, <1>3 DEF FrameInv
<1> QED
  BY <1>2, <1>3, <1>7, <1>9, <1>10, OneRound

LEMMA RouteRound ==
  ASSUME PlanInv, RoundInv, NEW r \in Request, selectRoute(r)
  PROVE  RoundInv'
<1>0. req[r].step = "quoting" /\ deployment' = deployment /\ FrameInv
  BY DEF selectRoute, Settled, At, PlanInv
<1>1. PICK step \in {"building", "ready", "rejected"} :
        /\ Ends(r, step)
        /\ \/ plan' = plan
           \/ \E q \in Best(side(r), quotes[r]) :
                /\ validateRoute(q, req[r].oracle, allowedDexes, Policy, now)
                /\ plan' = [plan EXCEPT ![r] = PlanOf(r, q)]
  BY DEF selectRoute
<1>2. req' = [req EXCEPT ![r] = Frame(step, NoPlan)] /\ ask' = [ask EXCEPT ![r] = NoRound]
      /\ quotes' = [quotes EXCEPT ![r] = {}]
  BY <1>1 DEF Ends
<1>3. Frame(step, NoPlan).step # "quoting"
  BY FrameType
<1>4. \A a \in Adapter : ask'[r][a] # "idle" => a \in Adapters
  BY <1>0, <1>2 DEF NoRound, FrameInv
<1>5. plan'[r] # NoPlan => /\ plan'[r] \in Plan /\ plan'[r].quote.source \in Adapters
                           /\ InverseIsFar => Worth(plan'[r])
  <2>1. CASE plan' = plan
    BY <2>1, RoundHas
  <2>2. ASSUME NEW q \in Best(side(r), quotes[r]),
               validateRoute(q, req[r].oracle, allowedDexes, Policy, now),
               plan' = [plan EXCEPT ![r] = PlanOf(r, q)]
        PROVE  /\ plan'[r] \in Plan /\ plan'[r].quote.source \in Adapters
               /\ InverseIsFar => Worth(plan'[r])
    <3>1. plan'[r] = PlanOf(r, q)
      BY <1>0, <2>2 DEF FrameInv
    <3> QED
      BY <1>0, <2>2, <3>1, RoutedPlan
  <2> QED
    BY <1>1, <2>1, <2>2
<1>6. \A k \in Request : k # r =>
        ask'[k] = ask[k] /\ quotes'[k] = quotes[k] /\ plan'[k] = plan[k]
  BY <1>0, <1>1, <1>2 DEF FrameInv
<1>7. RoundOf(Frame(step, NoPlan), ask'[r], quotes'[r], plan'[r], Adapters)
  BY <1>3, <1>4, <1>5, NoRoundOf
<1> QED
  BY <1>0, <1>2, <1>6, <1>7, OneRound

\* A request that begins, and a transaction that is built or not.
LEMMA FrameRound ==
  ASSUME PlanInv, RoundInv, NEW r \in Request, prepareTrade(r) \/ buildSwapTransaction(r)
  PROVE  RoundInv'
<1>0. UNCHANGED <<deployment, ask, quotes>> /\ FrameInv /\ req[r] \in Frames
  BY DEF prepareTrade, buildSwapTransaction, PlanInv, FrameInv
<1>1. PICK f : req' = [req EXCEPT ![r] = f] /\ f.step # "quoting"
  <2>1. CASE prepareTrade(r)
    <3>1. PICK intent \in Intent : req' = [req EXCEPT ![r] = Frame("pricing", intent)]
      BY <2>1 DEF prepareTrade
    <3>2. Frame("pricing", intent).step # "quoting"
      BY FrameType
    <3> QED
      BY <3>1, <3>2
  <2>2. ASSUME NEW step \in {"ready", "rejected"}, req' = [req EXCEPT ![r].step = step]
        PROVE  \E f : req' = [req EXCEPT ![r] = f] /\ f.step # "quoting"
    <3> DEFINE f == [req[r] EXCEPT !.step = step]
    <3>1. req' = [req EXCEPT ![r] = f] /\ f.step = step
      BY <1>0, <2>2 DEF Frames
    <3> QED
      BY <3>1
  <2> QED
    BY <2>1, <2>2 DEF buildSwapTransaction, Goes
<1>2. plan' = plan \/ plan' = [plan EXCEPT ![r] = NoPlan]
  BY DEF prepareTrade, buildSwapTransaction
<1>3. (plan'[r] = plan[r] \/ plan'[r] = NoPlan) /\ \A k \in Request : k # r => plan'[k] = plan[k]
  BY <1>0, <1>2 DEF FrameInv
<1>4. RoundOf(f, ask[r], quotes[r], plan'[r], Adapters)
  BY <1>1, <1>3, RoundHas, NoRoundOf
<1> QED
  BY <1>0, <1>1, <1>3, <1>4, OneRound

LEMMA RoundNext ==
  ASSUME PlanInv, RoundInv, [Next]_vars
  PROVE  RoundInv'
<1>1. CASE UNCHANGED planVars
  BY <1>1, VenuesStay DEF planVars, RoundInv
<1>2. ASSUME NEW r \in Request, prepareTrade(r) \/ Proceed(r)
      PROVE  RoundInv'
  BY <1>2, FrameRound, PriceRound, RouteRound, FailureRound DEF Proceed
<1> QED
  BY <1>1, <1>2, AnswerRound, FailureRound DEF Next, Tick, vars

LEMMA RoundStart == Init => RoundInv
<1> SUFFICES ASSUME Init PROVE RoundInv
  OBVIOUS
<1>1. \A r \in Request : /\ req[r].step # "quoting" /\ plan[r] = NoPlan
                         /\ \A a \in Adapter : ask[r][a] = "idle"
  BY FrameType DEF Init, NoRound
<1> QED
  BY <1>1, NoRoundOf DEF Init, RoundInv

-----------------------------------------------------------------------------
(* Theorems *)

LEMMA PlanStart == Init => PlanInv
<1> SUFFICES ASSUME Init PROVE PlanInv
  OBVIOUS
<1>1. FeedInv
  BY FeedStart DEF Init
<1>2. Frame("new", NoPlan) \in Frames /\ Frame("new", NoPlan).step = "new"
  BY FrameType
<1>3. NoRound \in [Adapter -> {"idle", "asked", "answered", "failed"}]
  BY DEF NoRound
<1>4. FrameInv
  BY <1>2, <1>3 DEF Init, FrameInv
<1>5. \A r \in Request : req[r].step = "new" /\ quotes[r] = {} /\ plan[r] = NoPlan
  BY <1>2 DEF Init
<1>6. SoundInv
  BY <1>5 DEF SoundInv, Sound
<1>7. AskedInv
  BY DEF Init, FeedInit, AskedInv, NoFetch, Fetcher
<1> QED
  BY <1>1, <1>4, <1>6, <1>7 DEF PlanInv

LEMMA PlanNext ==
  ASSUME PlanInv, [Next]_vars
  PROVE  PlanInv'
<1>1. CASE UNCHANGED vars
  BY <1>1, CacheKeeps
     DEF vars, feedVars, planVars, PlanInv, FeedInv, FeedTypeOK, FetchOK, FrameInv, SoundInv, AskedInv
<1>2. CASE FeedNext /\ UNCHANGED planVars
  <2>1. FeedInv' /\ now' = now
    BY <1>2, FeedStep, FeedClock DEF PlanInv
  <2>2. FrameInv' /\ SoundInv'
    BY <1>2, <2>1 DEF PlanInv, FrameInv, SoundInv, planVars
  <2>3. AskedInv'
    BY <1>2, AskedNext DEF Next
  <2> QED
    BY <2>1, <2>2, <2>3 DEF PlanInv
<1>3. CASE Tick
  <2>1. FeedInv'
    BY <1>3, FeedStep DEF PlanInv, Tick
  <2>2. AskedInv'
    BY <1>3, AskedNext DEF Next
  <2> QED
    BY <1>3, <2>1, <2>2, ClockKeeps DEF PlanInv
<1>4. ASSUME NEW r \in Request, getLatest(r) \/ priceArrives(r)
      PROVE  PlanInv'
  <2>1. AskedInv'
    BY <1>4, AskedNext DEF Next, Proceed
  <2> QED
    BY <1>4, <2>1, LatestKeeps, ArrivalKeeps DEF PlanInv
<1>5. ASSUME NEW r \in Request,
             \/ prepareTrade(r) \/ selectRoute(r) \/ buildSwapTransaction(r)
             \/ \E a \in Adapter : adapterAnswers(r, a) \/ adapterThrows(r, a) \/ quoteTimeout(r, a)
      PROVE  PlanInv'
  <2>1. AskedInv'
    BY <1>5, AskedNext DEF Next, Proceed
  <2>2. UNCHANGED feedVars
    BY <1>5 DEF prepareTrade, selectRoute, buildSwapTransaction, adapterAnswers, adapterThrows,
                quoteTimeout
  <2>3. FeedInv'
    BY <2>2, CacheKeeps DEF feedVars, PlanInv, FeedInv, FeedTypeOK, FetchOK
  <2>4. FrameInv' /\ SoundInv'
    BY <1>5, PrepareKeeps, RouteKeeps, BuildKeeps, AnswerKeeps, FailureKeeps
  <2> QED
    BY <2>1, <2>3, <2>4 DEF PlanInv
<1> QED
  BY <1>1, <1>2, <1>3, <1>4, <1>5 DEF Next, Proceed

LEMMA PlanInductive == Spec => []PlanInv
BY PlanStart, PlanNext, PTL DEF Spec

\* A price of the cache is a sign that Hermes is asked, and so that the boot found
\* a feed for every pair.
CachedInv ==
  /\ boot = "probing" \/ (boot = "up" /\ source = "live") => Resolves(Pair)
  /\ \A r \in Request :
       /\ req[r].step # "new" => boot = "up"
       /\ fetch[r].state # "none" => Resolves(Pair)
       /\ req[r].via = "cache" => Resolves(Pair)
       /\ plan[r] # NoPlan /\ plan[r].via = "cache" => Resolves(Pair)

LEMMA CachedStart == Init => CachedInv
BY DEF Init, FeedInit, Frame, NoFetch, Fetcher, CachedInv

\* A step that leaves the boot and the registry, and concerns request r alone.
LEMMA CachedOne ==
  ASSUME CachedInv, UNCHANGED <<feedOf, source, boot>>, NEW r \in Request,
         \A k \in Request : k # r =>
           req'[k] = req[k] /\ fetch'[k] = fetch[k] /\ plan'[k] = plan[k],
         req'[r].step # "new" => boot = "up",
         fetch'[r].state # "none" => Resolves(Pair),
         req'[r].via = "cache" => Resolves(Pair),
         plan'[r] # NoPlan /\ plan'[r].via = "cache" => Resolves(Pair)
  PROVE  CachedInv'
<1>1. Resolves(Pair)' <=> Resolves(Pair)
  BY DEF Resolves
<1> QED
  BY <1>1 DEF CachedInv

\* What the feed does of itself: only the boot turns the source, and no request is
\* sent on behalf of a trade.
LEMMA CachedFeed ==
  ASSUME FetchOK, CachedInv, FeedNext, UNCHANGED planVars
  PROVE  CachedInv'
<1>1. feedOf' = feedOf /\ UNCHANGED <<req, plan>>
  BY DEF FeedNext, publish, serve, push, startProbe, endProbe, warm, onmessage, planVars
<1>2. Resolves(Pair)' <=> Resolves(Pair)
  BY <1>1 DEF Resolves
<1>3. \A k \in Request : k \in Fetcher /\ k # Probe /\ k # Warm
  BY FetcherAssumption DEF Fetcher
<1>4. CASE \E w \in Fetcher : serve(w)
  <2>1. UNCHANGED <<source, boot>>
        /\ \A k \in Request : fetch'[k].state # "none" => fetch[k].state # "none"
    BY <1>3, <1>4 DEF serve, FetchOK
  <2> QED
    BY <1>1, <1>2, <2>1 DEF CachedInv
<1>5. CASE startProbe \/ endProbe
  <2>1. \A k \in Request : fetch'[k] = fetch[k]
    BY <1>3, <1>5 DEF startProbe, endProbe, FetchOK
  <2>2. boot' = "probing" \/ (boot' = "up" /\ source' = "live") => Resolves(Pair)
    BY <1>5 DEF startProbe, endProbe, upOnMock, CachedInv
  <2>3. boot = "up" => boot' = "up"
    BY <1>5 DEF startProbe, endProbe
  <2> QED
    BY <1>1, <1>2, <2>1, <2>2, <2>3 DEF CachedInv
<1>6. CASE (\E f \in FeedId : publish(f)) \/ push \/ warm \/ onmessage
  <2>1. UNCHANGED <<source, boot>> /\ \A k \in Request : fetch'[k] = fetch[k]
    BY <1>3, <1>6 DEF publish, push, warm, onmessage, FetchOK
  <2> QED
    BY <1>1, <1>2, <2>1 DEF CachedInv
<1> QED
  BY <1>4, <1>5, <1>6 DEF FeedNext

\* A request that asks for its price: the cache is read only if the feed of the
\* pair threw, and it has nothing of a pair without one.
LEMMA CachedPrice ==
  ASSUME PlanInv, CachedInv, NEW r \in Request, getLatest(r) \/ priceArrives(r)
  PROVE  CachedInv'
<1> DEFINE pair == req[r].intent.pair
<1>1. /\ req[r].step = "pricing" /\ boot = "up" /\ req[r] \in Frames
      /\ UNCHANGED <<feedOf, source, boot, plan>>
  BY DEF getLatest, priceArrives, At, PlanInv, FrameInv, CachedInv
<1>2. pair \in Pair /\ FrameInv /\ FetchOK /\ r \in Fetcher
      /\ \A p \in Pair : p \notin Streamed => cache[p] = NoPrice
  BY <1>1, IntentAssumption DEF PlanInv, SoundInv, Sound, FeedInv, Fetcher
<1>3. ASSUME NEW update, NEW via \in {"mock", "rest", "cache"}, Priced(r, update, via)
      PROVE  /\ \A k \in Request : k # r => req'[k] = req[k]
             /\ req'[r].via = "cache" => via = "cache" \/ req[r].via = "cache"
  BY <1>1, <1>2, <1>3 DEF Priced, Goes, FrameInv, Frames
<1>4. ASSUME Thrown(r)
      PROVE  /\ \A k \in Request : k # r => req'[k] = req[k]
             /\ req'[r].via = "cache" => Resolves({pair}) \/ req[r].via = "cache"
  <2>1. CASE cache[pair] = NoPrice
    BY <1>1, <1>2, <1>4, <2>1 DEF Thrown, FrameInv, Frames
  <2>2. CASE cache[pair] # NoPrice
    <3>1. Resolves({pair})
      BY <1>2, <2>2 DEF Resolves, Streamed
    <3>2. Priced(r, cache[pair], "cache")
      BY <1>4, <2>2 DEF Thrown
    <3> QED
      BY <1>3, <3>1, <3>2
  <2> QED
    BY <2>1, <2>2
<1>5. CASE getLatest(r)
  <2>1. CASE source = "live" /\ Resolves({pair})
    <3>1. req' = req /\ fetch' = [fetch EXCEPT ![r].state = "sent"] /\ Resolves(Pair)
      BY <1>1, <1>5, <2>1 DEF getLatest, CachedInv
    <3>2. \A k \in Request : k # r => fetch'[k] = fetch[k]
      BY <1>2, <3>1 DEF FetchOK
    <3> QED
      BY <1>1, <3>1, <3>2, CachedOne DEF CachedInv
  <2>2. CASE ~(source = "live" /\ Resolves({pair}))
    <3>1. fetch' = fetch /\ (IF Resolves({pair}) THEN Priced(r, MockPrice(pair), "mock") ELSE Thrown(r))
      BY <1>5, <2>2 DEF getLatest
    <3>2. (\A k \in Request : k # r => req'[k] = req[k])
          /\ (req'[r].via = "cache" => req[r].via = "cache")
      BY <1>3, <1>4, <3>1
    <3> QED
      BY <1>1, <3>1, <3>2, CachedOne DEF CachedInv
  <2> QED
    BY <2>1, <2>2
<1>6. CASE priceArrives(r)
  <2>1. fetch' = [fetch EXCEPT ![r] = NoFetch] /\ fetch[r].state # "none"
        /\ (Priced(r, Parsed(pair, fetch[r].response), "rest") \/ Thrown(r))
    BY <1>6 DEF priceArrives
  <2>2. Resolves(Pair)
    BY <2>1 DEF CachedInv
  <2>3. fetch'[r].state = "none" /\ \A k \in Request : k # r => fetch'[k] = fetch[k]
    BY <1>2, <2>1 DEF FetchOK, NoFetch
  <2>4. \A k \in Request : k # r => req'[k] = req[k]
    BY <1>3, <1>4, <2>1
  <2> QED
    BY <1>1, <2>2, <2>3, <2>4, CachedOne DEF CachedInv
<1> QED
  BY <1>5, <1>6

\* The rest of a request's steps: a plan has its price from the round's frame.
LEMMA CachedRound ==
  ASSUME PlanInv, CachedInv, NEW r \in Request,
         \/ prepareTrade(r) \/ selectRoute(r) \/ buildSwapTransaction(r)
         \/ \E a \in Adapter : adapterAnswers(r, a) \/ adapterThrows(r, a) \/ quoteTimeout(r, a)
  PROVE  CachedInv'
<1>1. UNCHANGED <<feedOf, source, boot, fetch>> /\ FrameInv
  BY DEF prepareTrade, selectRoute, buildSwapTransaction, adapterAnswers, adapterThrows,
         quoteTimeout, feedVars, PlanInv
<1>2. CASE prepareTrade(r)
  <2>1. PICK intent \in Intent : req' = [req EXCEPT ![r] = Frame("pricing", intent)]
    BY <1>2 DEF prepareTrade
  <2>2. boot = "up" /\ plan' = plan /\ req'[r].via = "none"
        /\ \A k \in Request : k # r => req'[k] = req[k]
    BY <1>1, <1>2, <2>1 DEF prepareTrade, FrameInv, Frame
  <2> QED
    BY <1>1, <2>2, CachedOne DEF CachedInv
<1>3. CASE selectRoute(r)
  <2>1. PICK step \in {"building", "ready", "rejected"} :
          req' = [req EXCEPT ![r] = Frame(step, NoPlan)]
    BY <1>3 DEF selectRoute, Ends
  <2>2. boot = "up" /\ req'[r].via = "none" /\ \A k \in Request : k # r => req'[k] = req[k]
    BY <1>1, <1>3, <2>1 DEF selectRoute, Settled, At, FrameInv, Frame, CachedInv
  <2>3. plan' = plan \/ \E q \in Best(side(r), quotes[r]) : plan' = [plan EXCEPT ![r] = PlanOf(r, q)]
    BY <1>3 DEF selectRoute
  <2>4. /\ \A k \in Request : k # r => plan'[k] = plan[k]
        /\ plan'[r] = plan[r] \/ plan'[r].via = req[r].via
    BY <1>1, <2>3 DEF FrameInv, PlanOf
  <2> QED
    BY <1>1, <2>2, <2>4, CachedOne DEF CachedInv
<1>4. CASE buildSwapTransaction(r)
  <2>1. PICK step \in {"ready", "rejected"} :
          /\ req' = [req EXCEPT ![r].step = step]
          /\ plan' = plan \/ plan' = [plan EXCEPT ![r] = NoPlan]
    BY <1>4 DEF buildSwapTransaction, Goes
  <2>2. boot = "up" /\ req'[r].via = req[r].via /\ plan'[r] \in {plan[r], NoPlan}
        /\ \A k \in Request : k # r => req'[k] = req[k] /\ plan'[k] = plan[k]
    BY <1>1, <1>4, <2>1 DEF buildSwapTransaction, At, FrameInv, Frames, CachedInv
  <2> QED
    BY <1>1, <2>2, CachedOne DEF CachedInv
<1>5. ASSUME NEW a \in Adapter, adapterAnswers(r, a) \/ adapterThrows(r, a) \/ quoteTimeout(r, a)
      PROVE  CachedInv'
  <2>1. UNCHANGED <<req, plan>>
    BY <1>5 DEF adapterAnswers, adapterThrows, quoteTimeout
  <2> QED
    BY <1>1, <2>1, CachedOne DEF CachedInv
<1> QED
  BY <1>2, <1>3, <1>4, <1>5

LEMMA CachedNext ==
  ASSUME PlanInv, CachedInv, [Next]_vars
  PROVE  CachedInv'
<1>1. CASE UNCHANGED vars
  BY <1>1 DEF vars, feedVars, planVars, CachedInv, Resolves
<1>2. CASE FeedNext /\ UNCHANGED planVars
  BY <1>2, CachedFeed DEF PlanInv, FeedInv
<1>3. CASE Tick
  BY <1>3 DEF Tick, tick, planVars, CachedInv, Resolves
<1> QED
  BY <1>1, <1>2, <1>3, CachedPrice, CachedRound DEF Next, Proceed

LEMMA RoundInductive == Spec => [](PlanInv /\ RoundInv)
<1>1. Init => PlanInv /\ RoundInv
  BY PlanStart, RoundStart
<1>2. PlanInv /\ RoundInv /\ [Next]_vars => PlanInv' /\ RoundInv'
  BY PlanNext, RoundNext
<1> QED
  BY <1>1, <1>2, PTL DEF Spec

\* The feed keeps its types under the requests that read it.
THEOREM FeedIsTyped == Spec => []FeedTypeOK
<1>1. PlanInv => FeedTypeOK
  BY DEF PlanInv, FeedInv
<1> QED
  BY <1>1, PlanInductive, PTL

\* A quote that counts is of an adapter that answered in time; one that was given
\* up has none, however late its answer comes.
THEOREM AnswersCounted == Spec => []EveryAnswerCounted
<1>1. PlanInv => EveryAnswerCounted
  BY DEF PlanInv, SoundInv, Sound, EveryAnswerCounted
<1> QED
  BY <1>1, PlanInductive, PTL

\* A plan's price is no older than the limit and the time a round may take, unless
\* it is the fallback's, and every pair has a feed.
THEOREM PlanPriceRecent == Spec => []PlanPriceIsRecent
<1>1. Init => PlanInv /\ CachedInv
  BY PlanStart, CachedStart
<1>2. PlanInv /\ CachedInv /\ [Next]_vars => PlanInv' /\ CachedInv'
  BY PlanNext, CachedNext
<1>3. PlanInv /\ CachedInv => PlanPriceIsRecent
  BY DEF PlanInv, SoundInv, Sound, CachedInv, PlanPriceIsRecent
<1> QED
  BY <1>1, <1>2, <1>3, PTL DEF Spec

\* The feed, frames and plans hold values of their types, and a plan's venue is one
\* the deployment has.
THEOREM PlanTypeCorrect == Spec => []TypeOK
<1>1. PlanInv /\ RoundInv => TypeOK
  <2> SUFFICES ASSUME PlanInv, RoundInv PROVE TypeOK
    OBVIOUS
  <2>1. FeedTypeOK /\ deployment \in Deployment
    BY DEF PlanInv, FeedInv, RoundInv
  <2>2. ASSUME NEW r \in Request
        PROVE  /\ req[r].step \in {"new", "pricing", "quoting", "building", "ready", "rejected"}
               /\ req[r].attempt \in 0..Retries
               /\ ask[r] \in [Adapter -> {"idle", "asked", "answered", "failed"}]
    <3>1. req[r] \in Frames
      BY DEF PlanInv, FrameInv
    <3> QED
      BY <3>1 DEF PlanInv, FrameInv, Frames
  <2> QED
    BY <2>1, <2>2, RoundHas DEF TypeOK
<1> QED
  BY <1>1, RoundInductive, PTL

\* The least a plan promises is worth the trade at the oracle's price, less the
\* deviation and the slippage, whatever a venue offers and however it states its
\* price; for 0x, which states the inverse price of a purchase, where no price is
\* near its inverse.
THEOREM PlanWorth == InverseIsFar => (Spec => []PlanIsWorth)
<1> SUFFICES ASSUME InverseIsFar PROVE Spec => []PlanIsWorth
  OBVIOUS
<1>1. RoundInv => PlanIsWorth
  <2> SUFFICES ASSUME RoundInv PROVE PlanIsWorth
    OBVIOUS
  <2>1. \A r \in Request : plan[r] # NoPlan => Worth(plan[r])
    BY RoundHas
  <2> QED
    BY <2>1 DEF PlanIsWorth, Worth, fairValue, fairSale, fairPurchase
<1> QED
  BY <1>1, RoundInductive, PTL

=============================================================================
