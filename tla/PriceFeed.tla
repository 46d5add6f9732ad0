----------------------------- MODULE PriceFeed -----------------------------
(***************************************************************************)
(* The price feed of RealtimeService: Pyth's Hermes server, read by REST   *)
(* and by a stream, or the deterministic mock; the cache that the stream   *)
(* keeps; and the boot that chooses between the two.                       *)
(*                                                                         *)
(* The service runs on one event loop: code between two awaits is one      *)
(* action.  TradePlan composes this module with the planning of trades.    *)
(*                                                                         *)
(* Mut_X, before a definition it mutates, is that definition with a bug a  *)
(* change of the code could introduce; no action refers to it.             *)
(***************************************************************************)
EXTENDS Integers, Sequences, FiniteSets

CONSTANTS
  Pair,            \* trading pairs of the registry
  FeedId,          \* Pyth price feeds
  NoFeed,          \* stands for a base token without a pythPriceId
  Registry,        \* the registries to check: functions from pairs to feeds
  Request,         \* trades to prepare
  Probe, Warm,     \* the two fetches of the boot
  Price,           \* prices, in the quote token
  ReferencePrice,  \* the mock's price of each pair
  StaleAge,        \* staleMs
  LastTime,        \* bound on the clock
  MaxWire          \* bound on stream messages on their way

ASSUME RegistryAssumption ==
  /\ NoFeed \notin FeedId
  /\ Registry \subseteq [Pair -> FeedId \cup {NoFeed}]
ASSUME FetcherAssumption == {Probe, Warm} \cap Request = {} /\ Probe # Warm
ASSUME PriceAssumption ==
  /\ Price \subseteq Nat \ {0}
  /\ ReferencePrice \in [Pair -> Price]
  /\ \A reg \in Registry : \A p, q \in Pair :
       reg[p] = reg[q] /\ reg[p] # NoFeed => ReferencePrice[p] = ReferencePrice[q]
ASSUME TimeAssumption == StaleAge \in Nat /\ LastTime \in Nat /\ MaxWire \in Nat

Fetcher == Request \cup {Probe, Warm}
Time == 0..LastTime

\* What Hermes says of a feed.  0 stands for an update that is not sound: the
\* price is not positive, or the confidence interval wider than maxConfidenceBps.
Published == [price : Price \cup {0}, time : Time]

\* PriceUpdate; isStale is as it was when the update was received.
Update == [price : Price, time : Time, isStale : BOOLEAN]
NoPrice == [price |-> 0, time |-> 0, isStale |-> TRUE]

\* A response of Hermes covers the feeds that were asked for.
Response == [FeedId -> Published]
NoResponse == << >>

VARIABLES
  feedOf,   \* the registry of this deployment, which nothing changes
  useMock,  \* PYTH_USE_MOCK, which nothing changes
  now,
  hermes,   \* hermes[f]: what Hermes last published of feed f
  source,   \* this.priceFeed: "live" or "mock"
  boot,     \* onModuleInit: "start", "probing", "up"
  cache,    \* priceCache
  fetch,    \* fetch[w]: the REST request of w
  wire      \* messages of the event source, oldest first

feedVars == <<feedOf, useMock, now, hermes, source, boot, cache, fetch, wire>>

Fetched == [state : {"none", "sent", "answered", "failed"},
            response : Response \cup {NoResponse}]
NoFetch == [state |-> "none", response |-> NoResponse]

FeedTypeOK ==
  /\ feedOf \in Registry
  /\ useMock \in BOOLEAN
  /\ now \in Time
  /\ hermes \in Response
  /\ source \in {"live", "mock"}
  /\ boot \in {"start", "probing", "up"}
  /\ cache \in [Pair -> Update \cup {NoPrice}]
  /\ fetch \in [Fetcher -> Fetched]
  /\ wire \in Seq(Response) /\ Len(wire) <= MaxWire

FeedInit ==
  /\ feedOf \in Registry
  /\ useMock \in BOOLEAN
  /\ now = 0
  /\ hermes \in [FeedId -> {p \in Published : p.time = 0}]
  /\ source = "live"
  /\ boot = "start"
  /\ cache = [p \in Pair |-> NoPrice]
  /\ fetch = [w \in Fetcher |-> NoFetch]
  /\ wire = << >>

-----------------------------------------------------------------------------
(* Hermes *)

\* Hermes publishes; at most once per feed and instant, and as long as the
\* service listens.
publish(f) ==
  /\ source = "live" /\ hermes[f].time < now
  /\ \E p \in Published :
       p.time = now /\ hermes' = [hermes EXCEPT ![f] = p]
  /\ UNCHANGED <<feedOf, useMock, now, source, boot, cache, fetch, wire>>

\* A REST request is answered, or fails: no connection, or an error status.
serve(w) ==
  /\ fetch[w].state = "sent"
  /\ \E r \in {[state |-> "answered", response |-> hermes],
               [state |-> "failed", response |-> NoResponse]} :
       fetch' = [fetch EXCEPT ![w] = r]
  /\ UNCHANGED <<feedOf, useMock, now, hermes, source, boot, cache, wire>>

\* A message on the stream; those of a lost connection are never sent.
push ==
  /\ boot = "up" /\ source = "live"
  /\ \E p \in Pair : feedOf[p] # NoFeed
  /\ Len(wire) < MaxWire
  /\ wire' = Append(wire, hermes)
  /\ UNCHANGED <<feedOf, useMock, now, hermes, source, boot, cache, fetch>>

tick ==
  /\ now < LastTime
  /\ now' = now + 1
  /\ UNCHANGED <<feedOf, useMock, hermes, source, boot, cache, fetch, wire>>

-----------------------------------------------------------------------------
(* PythPriceFeedService and MockPythPriceFeedService *)

\* resolvePythPriceId finds a feed for every pair; otherwise getLatest throws
\* before it asks Hermes, and the mock throws as well.
Resolves(pairs) == \A p \in pairs : feedOf[p] # NoFeed

\* parseHermesPayload throws on the first feed that is not sound.
Parses(pairs, response) == \A p \in pairs : response[feedOf[p]].price > 0

\* What parseHermesPayload and mapUpdatesToPairs make of a response now.
Parsed(p, response) ==
  LET r == response[feedOf[p]]
  IN  [price |-> r.price, time |-> r.time, isStale |-> now - r.time > StaleAge]

MockPrice(p) == [price |-> ReferencePrice[p], time |-> now, isStale |-> FALSE]

Answered(w, pairs) ==
  fetch[w].state = "answered" /\ Parses(pairs, fetch[w].response)

\* The pairs subscribePythBroadcast keeps in the cache.
Streamed == {p \in Pair : feedOf[p] # NoFeed}

Received(response) ==
  cache' = [p \in Pair |-> IF p \in Streamed THEN Parsed(p, response) ELSE cache[p]]

-----------------------------------------------------------------------------
(* onModuleInit *)

\* The end of onModuleInit on the mock: its updates arrive in microtasks, and
\* no more follow.
upOnMock ==
  /\ source' = "mock"
  /\ boot' = "up"
  /\ cache' = [p \in Pair |-> IF p \in Streamed THEN MockPrice(p) ELSE cache[p]]

\* PYTH_USE_MOCK, or the probe of every pair: getLatest with a timeout.
startProbe ==
  /\ boot = "start"
  /\ \/ (useMock \/ ~Resolves(Pair)) /\ upOnMock /\ UNCHANGED fetch
     \/ /\ ~useMock /\ Resolves(Pair)
        /\ fetch' = [fetch EXCEPT ![Probe].state = "sent"]
        /\ boot' = "probing"
        /\ UNCHANGED <<source, cache>>
  /\ UNCHANGED <<feedOf, useMock, now, hermes, wire>>

\* The probe settles or its 4 s pass.  subscribePythBroadcast asks for the
\* prices that warm the cache and opens the stream.
endProbe ==
  /\ boot = "probing"
  /\ \/ /\ Answered(Probe, Pair)
        /\ boot' = "up"
        /\ fetch' = [fetch EXCEPT ![Probe] = NoFetch, ![Warm].state = "sent"]
        /\ UNCHANGED <<source, cache>>
     \/ /\ ~Answered(Probe, Pair)
        /\ upOnMock
        /\ fetch' = [fetch EXCEPT ![Probe] = NoFetch]
  /\ UNCHANGED <<feedOf, useMock, now, hermes, wire>>

Mut_WarmPerPair ==
  /\ fetch[Warm].state \in {"answered", "failed"}
  /\ fetch' = [fetch EXCEPT ![Warm] = NoFetch]
  /\ \/ \E p \in Streamed :
          /\ Answered(Warm, {p})
          /\ cache' = [cache EXCEPT ![p] = Parsed(p, fetch[Warm].response)]
     \/ UNCHANGED cache
  /\ UNCHANGED <<feedOf, useMock, now, hermes, source, boot, wire>>

\* The answer that warms the cache overwrites what the stream brought since.
warm ==
  /\ fetch[Warm].state \in {"answered", "failed"}
  /\ fetch' = [fetch EXCEPT ![Warm] = NoFetch]
  /\ IF Answered(Warm, Streamed)
     THEN Received(fetch[Warm].response)
     ELSE UNCHANGED cache
  /\ UNCHANGED <<feedOf, useMock, now, hermes, source, boot, wire>>

Mut_StuckOnUnsound ==
  /\ wire # << >>
  /\ Parses(Streamed, Head(wire))
  /\ wire' = Tail(wire)
  /\ Received(Head(wire))
  /\ UNCHANGED <<feedOf, useMock, now, hermes, source, boot, fetch>>

\* A message with one feed that is not sound throws, and none of its pairs is
\* updated.
onmessage ==
  /\ wire # << >>
  /\ wire' = Tail(wire)
  /\ IF Parses(Streamed, Head(wire)) THEN Received(Head(wire)) ELSE UNCHANGED cache
  /\ UNCHANGED <<feedOf, useMock, now, hermes, source, boot, fetch>>

\* Everything but the clock.
FeedNext ==
  \/ \E f \in FeedId : publish(f)
  \/ \E w \in Fetcher : serve(w)
  \/ push
  \/ startProbe \/ endProbe \/ warm \/ onmessage

FeedSpec == FeedInit /\ [][FeedNext \/ tick]_feedVars

\* The event loop runs on, Hermes answers or fails, and streams.
FairFeedSpec ==
  /\ FeedSpec
  /\ WF_feedVars(startProbe) /\ WF_feedVars(endProbe)
  /\ WF_feedVars(warm) /\ WF_feedVars(onmessage) /\ WF_feedVars(push)
  /\ \A w \in Fetcher : WF_feedVars(serve(w))

-----------------------------------------------------------------------------
(* Properties *)

\* Pairs with the same feed never show different prices: no reader of the
\* cache, the arbitrage scan among them, sees one chain's BTC updated and not
\* the other's, whichever of the warm-up and the stream wrote it.
SameFeedSamePrice ==
  \A p, q \in Pair : feedOf[p] = feedOf[q] => cache[p] = cache[q]

\* The feed becomes the mock only where PYTH_USE_MOCK asks for it, or where Hermes
\* was asked and gave no sound answer.  (realtime.service.ts:79: "Last-resort
\* reference USD prices used when the live Pyth feed is unreachable.")
MockIsLastResort ==
  [][source' # source => useMock \/ (boot = "probing" /\ ~Answered(Probe, Pair))]_feedVars

\* The cache may go back to an older price while the warm-up races with the
\* stream, and a message may be dropped for one unsound feed; in the end it
\* holds what Hermes last published.
CacheConverges ==
  <>[](source = "live" /\ Parses(Streamed, hermes) =>
         \A p \in Streamed : cache[p].price = hermes[feedOf[p]].price)

=============================================================================
