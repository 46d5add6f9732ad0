--------------------------- MODULE PriceFeedProofs ---------------------------
(***************************************************************************)
(* Theorems about the price feed alone, for any registry, prices, clock    *)
(* and stream.  The lemmas on its steps serve TradePlanProofs as well.     *)
(***************************************************************************)
EXTENDS PriceFeed, TLAPS

-----------------------------------------------------------------------------
(* The inductive invariant *)

\* An answer has a response; and the cache has what the stream, its warm-up or
\* the mock wrote, for all pairs of a feed at once.
FetchOK ==
  /\ fetch \in [Fetcher -> Fetched]
  /\ \A w \in Fetcher : fetch[w].state = "answered" => fetch[w].response \in Response

FeedInv ==
  /\ FeedTypeOK /\ FetchOK
  /\ \A p \in Pair : p \notin Streamed => cache[p] = NoPrice
  /\ SameFeedSamePrice

\* The types of what is written.
LEMMA FetchTypes ==
  /\ NoFetch \in Fetched
  /\ \A f \in Fetched : [f EXCEPT !.state = "sent"] \in Fetched
  /\ \A h \in Response : [state |-> "answered", response |-> h] \in Fetched
  /\ [state |-> "failed", response |-> NoResponse] \in Fetched
BY DEF NoFetch, Fetched

\* A response that parses gives every pair of a feed the same sound update.
LEMMA ParsedType ==
  ASSUME FeedTypeOK, NEW r \in Response, NEW p \in Pair, feedOf[p] # NoFeed,
         r[feedOf[p]].price > 0
  PROVE  Parsed(p, r) \in Update
<1>1. feedOf[p] \in FeedId
  BY RegistryAssumption DEF FeedTypeOK
<1>2. r[feedOf[p]] \in Published /\ now \in Nat
  BY <1>1, TimeAssumption DEF Response, FeedTypeOK, Time
<1>3. r[feedOf[p]].price \in Price /\ r[feedOf[p]].time \in Time
  BY <1>2 DEF Published
<1> DEFINE stale == now - r[feedOf[p]].time > StaleAge
<1>4. stale \in BOOLEAN
  OBVIOUS
<1> HIDE DEF stale
<1>5. [price |-> r[feedOf[p]].price, time |-> r[feedOf[p]].time, isStale |-> stale] \in Update
  BY <1>3, <1>4 DEF Update
<1> QED
  BY <1>5 DEF Parsed, stale

LEMMA MockType ==
  ASSUME now \in Time, NEW p \in Pair
  PROVE  MockPrice(p) \in Update
BY PriceAssumption DEF MockPrice, Update

\* What the stream or the warm-up writes, and what the mock writes.
LEMMA ReceivedKeeps ==
  ASSUME FeedInv, NEW r \in Response, Parses(Streamed, r), Received(r),
         feedOf' = feedOf
  PROVE  /\ cache' \in [Pair -> Update \cup {NoPrice}]
         /\ \A p \in Pair : p \notin Streamed' => cache'[p] = NoPrice
         /\ SameFeedSamePrice'
<1>1. Streamed' = Streamed /\ Streamed \subseteq Pair
  BY DEF Streamed
<1>2. \A p \in Streamed : Parsed(p, r) \in Update
  BY ParsedType DEF Streamed, Parses, FeedInv
<1>3. cache' = [p \in Pair |-> IF p \in Streamed THEN Parsed(p, r) ELSE cache[p]]
  BY DEF Received
<1>4. \A p, q \in Pair : feedOf[p] = feedOf[q] => Parsed(p, r) = Parsed(q, r)
  BY DEF Parsed
<1>5. \A p, q \in Pair : feedOf[p] = feedOf[q] => (p \in Streamed <=> q \in Streamed)
  BY DEF Streamed
<1>6. cache' \in [Pair -> Update \cup {NoPrice}]
  BY <1>2, <1>3 DEF FeedInv, FeedTypeOK
<1>7. \A p \in Pair : p \notin Streamed => cache'[p] = NoPrice
  BY <1>3 DEF FeedInv
<1>8. \A p, q \in Pair : feedOf[p] = feedOf[q] => cache'[p] = cache'[q]
  BY <1>3, <1>4, <1>5 DEF FeedInv, SameFeedSamePrice
<1> QED
  BY <1>1, <1>6, <1>7, <1>8 DEF SameFeedSamePrice

LEMMA MockKeeps ==
  ASSUME FeedInv, upOnMock, feedOf' = feedOf
  PROVE  /\ cache' \in [Pair -> Update \cup {NoPrice}]
         /\ \A p \in Pair : p \notin Streamed' => cache'[p] = NoPrice
         /\ SameFeedSamePrice'
<1>1. Streamed' = Streamed /\ Streamed \subseteq Pair /\ feedOf \in Registry
  BY DEF Streamed, FeedInv, FeedTypeOK
<1>2. cache' = [p \in Pair |-> IF p \in Streamed THEN MockPrice(p) ELSE cache[p]]
  BY DEF upOnMock
<1>3. \A p, q \in Pair : feedOf[p] = feedOf[q] /\ p \in Streamed => MockPrice(p) = MockPrice(q)
  BY <1>1, PriceAssumption DEF MockPrice, Streamed
<1>4. \A p, q \in Pair : feedOf[p] = feedOf[q] => (p \in Streamed <=> q \in Streamed)
  BY DEF Streamed
<1>5. \A p \in Pair : MockPrice(p) \in Update
  BY MockType DEF FeedInv, FeedTypeOK
<1>6. cache' \in [Pair -> Update \cup {NoPrice}]
  BY <1>2, <1>5 DEF FeedInv, FeedTypeOK
<1>7. \A p \in Pair : p \notin Streamed => cache'[p] = NoPrice
  BY <1>2 DEF FeedInv
<1>8. \A p, q \in Pair : feedOf[p] = feedOf[q] => cache'[p] = cache'[q]
  BY <1>2, <1>3, <1>4 DEF FeedInv, SameFeedSamePrice
<1> QED
  BY <1>1, <1>6, <1>7, <1>8 DEF SameFeedSamePrice

\* The cache as it was.
LEMMA CacheKeeps ==
  ASSUME FeedInv, UNCHANGED <<feedOf, cache>>
  PROVE  /\ cache' \in [Pair -> Update \cup {NoPrice}]
         /\ \A p \in Pair : p \notin Streamed' => cache'[p] = NoPrice
         /\ SameFeedSamePrice'
BY DEF FeedInv, FeedTypeOK, SameFeedSamePrice, Streamed

-----------------------------------------------------------------------------
(* The steps *)

\* A fetch that is sent, answered, failed or over.
LEMMA FetchKeeps ==
  ASSUME FetchOK, NEW w \in Fetcher, NEW f \in Fetched,
         f.state = "answered" => f.response \in Response,
         fetch' = [fetch EXCEPT ![w] = f]
  PROVE  FetchOK'
BY DEF FetchOK

LEMMA PublishKeeps ==
  ASSUME FeedInv, NEW f \in FeedId, publish(f)
  PROVE  FeedInv'
<1>1. PICK p \in Published : hermes' = [hermes EXCEPT ![f] = p]
  BY DEF publish
<1>2. hermes' \in Response
  BY <1>1 DEF FeedInv, FeedTypeOK, Response
<1>3. UNCHANGED <<feedOf, useMock, now, source, boot, cache, fetch, wire>>
  BY DEF publish
<1> QED
  BY <1>2, <1>3, CacheKeeps DEF FeedInv, FeedTypeOK, FetchOK

LEMMA ServeKeeps ==
  ASSUME FeedInv, NEW w \in Fetcher, serve(w)
  PROVE  FeedInv'
<1>1. hermes \in Response /\ FetchOK
  BY DEF FeedInv, FeedTypeOK
<1>2. PICK f \in Fetched : /\ fetch' = [fetch EXCEPT ![w] = f]
                           /\ f.state = "answered" => f.response \in Response
  BY <1>1, FetchTypes DEF serve
<1>3. FetchOK'
  BY <1>1, <1>2, FetchKeeps
<1>4. UNCHANGED <<feedOf, useMock, now, hermes, source, boot, cache, wire>>
  BY DEF serve
<1> QED
  BY <1>3, <1>4, CacheKeeps DEF FeedInv, FeedTypeOK, FetchOK

LEMMA PushKeeps ==
  ASSUME FeedInv, push
  PROVE  FeedInv'
<1>1. wire \in Seq(Response) /\ hermes \in Response /\ Len(wire) < MaxWire
      /\ wire' = Append(wire, hermes) /\ MaxWire \in Nat
  BY TimeAssumption DEF push, FeedInv, FeedTypeOK
<1>2. wire' \in Seq(Response) /\ Len(wire') <= MaxWire
  BY <1>1
<1>3. UNCHANGED <<feedOf, useMock, now, hermes, source, boot, cache, fetch>>
  BY DEF push
<1> QED
  BY <1>2, <1>3, CacheKeeps DEF FeedInv, FeedTypeOK, FetchOK

LEMMA TickKeeps ==
  ASSUME FeedInv, tick
  PROVE  FeedInv'
<1>1. now' \in Time
  BY TimeAssumption DEF tick, FeedInv, FeedTypeOK, Time
<1>2. UNCHANGED <<feedOf, useMock, hermes, source, boot, cache, fetch, wire>>
  BY DEF tick
<1> QED
  BY <1>1, <1>2, CacheKeeps DEF FeedInv, FeedTypeOK, FetchOK

\* The boot: on the mock, on the probe, and after it.
LEMMA BootKeeps ==
  ASSUME FeedInv, startProbe \/ endProbe
  PROVE  FeedInv'
<1>0. FetchOK /\ Probe \in Fetcher /\ Warm \in Fetcher
  BY DEF FeedInv, Fetcher
<1>1. UNCHANGED <<feedOf, useMock, now, hermes, wire>>
  BY DEF startProbe, endProbe
<1>2. FetchOK'
  <2> DEFINE sent(w) == [fetch[w] EXCEPT !.state = "sent"]
  <2>1. NoFetch \in Fetched /\ NoFetch.state = "none"
    BY FetchTypes DEF NoFetch
  <2>2. \A w \in Fetcher : sent(w) \in Fetched /\ sent(w).state = "sent"
    BY <1>0, FetchTypes DEF FetchOK, Fetched
  <2>3. \/ fetch' = fetch
        \/ fetch' = [fetch EXCEPT ![Probe] = sent(Probe)]
        \/ fetch' = [fetch EXCEPT ![Probe] = NoFetch]
        \/ fetch' = [fetch EXCEPT ![Probe] = NoFetch, ![Warm] = sent(Warm)]
    BY <1>0, FetcherAssumption DEF startProbe, endProbe, FetchOK
  <2> HIDE DEF sent
  <2> QED
    BY <1>0, <2>1, <2>2, <2>3 DEF FetchOK
<1>3. source' \in {"live", "mock"} /\ boot' \in {"start", "probing", "up"}
  BY DEF startProbe, endProbe, upOnMock, FeedInv, FeedTypeOK
<1>4. upOnMock \/ cache' = cache
  BY DEF startProbe, endProbe
<1> QED
  BY <1>1, <1>2, <1>3, <1>4, CacheKeeps, MockKeeps DEF FeedInv, FeedTypeOK, FetchOK

\* A response is parsed as a whole before any of its feeds is written.
LEMMA WarmKeeps ==
  ASSUME FeedInv, warm
  PROVE  FeedInv'
<1>1. FetchOK /\ Warm \in Fetcher /\ fetch' = [fetch EXCEPT ![Warm] = NoFetch]
      /\ UNCHANGED <<feedOf, useMock, now, hermes, source, boot, wire>>
  BY DEF warm, FeedInv, Fetcher
<1>2. NoFetch \in Fetched /\ NoFetch.state = "none"
  BY FetchTypes DEF NoFetch
<1>3. FetchOK'
  BY <1>1, <1>2, FetchKeeps
<1>4. CASE Answered(Warm, Streamed)
  <2>1. Received(fetch[Warm].response) /\ Parses(Streamed, fetch[Warm].response)
        /\ fetch[Warm].response \in Response
    BY <1>1, <1>4 DEF warm, Answered, FetchOK
  <2> QED
    BY <1>1, <1>3, <2>1, ReceivedKeeps DEF FeedInv, FeedTypeOK, FetchOK
<1>5. CASE ~Answered(Warm, Streamed)
  BY <1>1, <1>3, <1>5, CacheKeeps DEF warm, FeedInv, FeedTypeOK, FetchOK
<1> QED
  BY <1>4, <1>5

LEMMA MessageKeeps ==
  ASSUME FeedInv, onmessage
  PROVE  FeedInv'
<1>1. wire # << >> /\ wire \in Seq(Response) /\ Len(wire) <= MaxWire /\ wire' = Tail(wire)
      /\ UNCHANGED <<feedOf, useMock, now, hermes, source, boot, fetch>>
  BY DEF onmessage, FeedInv, FeedTypeOK
<1>2. wire' \in Seq(Response) /\ Len(wire') <= MaxWire /\ Head(wire) \in Response
  BY <1>1, TimeAssumption
<1>3. \/ Parses(Streamed, Head(wire)) /\ Received(Head(wire))
      \/ cache' = cache
  BY DEF onmessage
<1> QED
  BY <1>1, <1>2, <1>3, ReceivedKeeps, CacheKeeps DEF FeedInv, FeedTypeOK, FetchOK

LEMMA FeedStep ==
  ASSUME FeedInv, FeedNext \/ tick
  PROVE  FeedInv'
BY PublishKeeps, ServeKeeps, PushKeeps, TickKeeps, BootKeeps, WarmKeeps, MessageKeeps DEF FeedNext

LEMMA FeedStart == FeedInit => FeedInv
<1> SUFFICES ASSUME FeedInit PROVE FeedInv
  OBVIOUS
<1>1. hermes \in Response
  BY DEF FeedInit, Response
<1>2. now \in Time /\ wire \in Seq(Response) /\ Len(wire) <= MaxWire
  BY TimeAssumption DEF FeedInit, Time
<1>3. FetchOK
  BY FetchTypes DEF FeedInit, FetchOK, NoFetch
<1> QED
  BY <1>1, <1>2, <1>3 DEF FeedInit, FeedInv, FeedTypeOK, FetchOK, SameFeedSamePrice

-----------------------------------------------------------------------------
(* Theorems *)

LEMMA FeedInductive == FeedSpec => []FeedInv
<1>1. FeedInv /\ [FeedNext \/ tick]_feedVars => FeedInv'
  <2>1. ASSUME FeedInv, UNCHANGED feedVars PROVE FeedInv'
    BY <2>1, CacheKeeps DEF feedVars, FeedInv, FeedTypeOK, FetchOK
  <2> QED
    BY <2>1, FeedStep
<1> QED
  BY <1>1, FeedStart, PTL DEF FeedSpec

\* The feed holds values of its types: no unsound update is in the cache.
THEOREM FeedTypeCorrect == FeedSpec => []FeedTypeOK
<1>1. FeedInv => FeedTypeOK
  BY DEF FeedInv
<1> QED
  BY <1>1, FeedInductive, PTL

\* Pairs with the same feed never show different prices, whichever of the stream,
\* its warm-up and the mock writes them.
THEOREM SameFeedSafety == FeedSpec => []SameFeedSamePrice
<1>1. FeedInv => SameFeedSamePrice
  BY DEF FeedInv
<1> QED
  BY <1>1, FeedInductive, PTL

=============================================================================
