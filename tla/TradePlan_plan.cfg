CONSTANTS
  btcUsdc = btcUsdc
  btcUsdt = btcUsdt
  monUsdc = monUsdc
  btcUsd = btcUsd
  r1 = r1
  NoFeed = NoFeed
  NoPlan = NoPlan
  Probe = Probe
  Warm = Warm
  Pair <- MCPair
  FeedId = {btcUsd}
  Registry <- MCRegistry
  Request = {r1}
  Price = {100, 120}
  ReferencePrice <- MCReferencePrice
  StaleAge = 0
  LastTime = 2
  MaxWire = 0
  Intent <- MCIntent
  Deployment <- MCDeployment
  Unit <- MCUnit
  Addressed = {btcUsdt}
  Policy <- MCPolicy
  Retries = 1
  QuoteTimeout = 1
  FallbackMid = 100
  Offer <- MCOffer
  MaxPools = 1
SPECIFICATION FairSpec
INVARIANTS TypeOK EveryAnswerCounted PlanIsWorth PlanPriceIsRecent
PROPERTIES PrepareEnds
\* The clock is bounded, and a finite set of requests is planned.
CHECK_DEADLOCK FALSE
