----------------------------- MODULE MCTradePlan -----------------------------
(* Instances of TradePlan for TLC. *)
EXTENDS TradePlan

CONSTANTS btcUsdc, btcUsdt, monUsdc, btcUsd, r1

MCPair == {btcUsdc, btcUsdt, monUsdc}

\* The registry as it is, MON without a feed, and as its TODO completes it.
Shipped == [p \in MCPair |-> IF p = monUsdc THEN NoFeed ELSE btcUsd]
Completed == [p \in MCPair |-> btcUsd]
MCRegistry == {Shipped, Completed}

MCReferencePrice == [p \in MCPair |-> 100]

\* Decimals that differ by one, for two pairs.
MCUnit == [p \in MCPair |-> IF p = btcUsdc THEN 1 ELSE 10]

MCPolicy ==
  [allowedPairs |-> MCPair, maxSlippageBps |-> 200, maxPositionNotionalUsd |-> 30000, minLiquidityUsd |-> 2,
   maxPriceImpactBps |-> 50, maxQuoteAge |-> 0, maxOracleDeviationBps |-> 150]

IntentOf(pair, sd, amt, unit, slip, user) ==
  [pair |-> pair, side |-> sd, amount |-> amt, unit |-> unit, decimals |-> 100,
   maxSlippageBps |-> slip, stopLossPrice |-> IF sd = "buy" THEN 90 ELSE 0,
   user |-> user]
MCIntent ==
  {IntentOf(btcUsdt, "sell", 15, "decimal", 100, TRUE),
   IntentOf(monUsdc, "buy", 20000, "native", 50, FALSE)}

\* A fair offer of a deep venue, and one that is better than the market and thin.
MCOffer ==
  {[price |-> 99500, liquidity |-> 5000000, impact |-> 0],
   [price |-> 119000, liquidity |-> 1000, impact |-> 60]}

Demo == [realDex |-> FALSE, injective |-> TRUE, monad |-> TRUE, monadMode |-> "mock",
         helixMarkets |-> {btcUsdt}, orcaPools |-> {}]
Live == [realDex |-> TRUE, injective |-> FALSE, monad |-> FALSE, monadMode |-> "mock",
         helixMarkets |-> {}, orcaPools |-> {btcUsdt}]
Evm(mode) == [realDex |-> FALSE, injective |-> FALSE, monad |-> TRUE, monadMode |-> mode,
         helixMarkets |-> {}, orcaPools |-> {}]
MCDeployment == {Demo, Live, Evm("0x"), Evm("1inch")}
=============================================================================
