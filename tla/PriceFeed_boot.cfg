CONSTANTS
  btcUsdc = btcUsdc
  btcUsdt = btcUsdt
  ethUsdc = ethUsdc
  monUsdc = monUsdc
  btcUsd = btcUsd
  ethUsd = ethUsd
  NoFeed = NoFeed
  Probe = Probe
  Warm = Warm
  Pair <- MCPair
  FeedId = {btcUsd, ethUsd}
  Registry <- ShippedOnly
  Request = {}
  Price = {100, 120}
  ReferencePrice <- MCReferencePrice
  StaleAge = 0
  LastTime = 2
  MaxWire = 1
SPECIFICATION FeedSpec
PROPERTIES MockIsLastResort
\* The clock and what Hermes publishes are bounded.
CHECK_DEADLOCK FALSE
