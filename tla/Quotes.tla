------------------------------- MODULE Quotes -------------------------------
(***************************************************************************)
(* The arithmetic of quotes: amounts, executable prices, best bid and best *)
(* offer, risk limits and the arbitrage edge.  No state.                   *)
(*                                                                         *)
(* A price is an integer number of 1/Scale quote tokens for a base token,  *)
(* an amount a number of native units.  A pair's unit is the number of     *)
(* native units of its base token per native unit of its quote token, 10   *)
(* to the difference of their decimals; no quote token has the more.       *)
(***************************************************************************)
EXTENDS Integers, FiniteSets

Scale == 1000
Bps == 10000

Abs(x) == IF x < 0 THEN -x ELSE x

\* applyBps: what is left of a value after a slippage, rounded down.
applyBps(value, bps) ==
  (value * (IF bps < Bps THEN Bps - bps ELSE 0)) \div Bps

\* A mid price with a venue's premium and the spread or fee of one side.
executablePrice(mid, premium, side, spread) ==
  LET sideMultiplier == IF side = "bid" THEN Bps - spread ELSE Bps + spread
  IN  (mid * (((Bps + premium) * sideMultiplier) \div Bps)) \div Bps

\* outputAmountFromPrice and calculatePairPrice: a bid spends the base token, an
\* ask the quote token; both round down.
outputAmountFromPrice(side, amountIn, price, unit) ==
  IF price <= 0 THEN 0
  ELSE IF side = "bid" THEN (amountIn * price) \div (Scale * unit)
  ELSE (amountIn * unit * Scale) \div price

calculatePairPrice(side, amountIn, outAmount, unit) ==
  IF amountIn <= 0 \/ outAmount <= 0 THEN 0
  ELSE IF side = "bid" THEN (outAmount * unit * Scale) \div amountIn
  ELSE (amountIn * unit * Scale) \div outAmount

sideOf(intent) == IF intent.side = "sell" THEN "bid" ELSE "ask"

\* notionalUsd, in native units of the base token at the oracle's price.
notionalUsd(intent, amountIn, oraclePrice, unit) ==
  IF intent.side = "buy" THEN amountIn * unit ELSE amountIn * oraclePrice

\* estimatePriceImpactBps: the size of the trade in a pool's liquidity, rounded up
\* so that it passes a whole limit where the fraction does.
estimatePriceImpactBps(liquidity, amountIn) ==
  IF liquidity <= 0 THEN 0
  ELSE LET impact == (amountIn * Bps + liquidity - 1) \div liquidity
       IN  IF impact < 1000 THEN impact ELSE 1000

-----------------------------------------------------------------------------
(* nBBO *)

isExecutableQuote(q) == q.outAmount > 0 /\ q.price > 0

\* bestBidFirst and bestAskFirst: price, then liquidity, then latency.
Before(side, q, r) ==
  \/ IF side = "bid" THEN q.price > r.price ELSE q.price < r.price
  \/ q.price = r.price /\ q.liquidity > r.liquidity
  \/ q.price = r.price /\ q.liquidity = r.liquidity /\ q.latency < r.latency

\* The quotes that a sort may put first; equal ones keep the adapters' order.
Best(side, quotes) ==
  {q \in {r \in quotes : isExecutableQuote(r)} :
     \A r \in quotes : isExecutableQuote(r) => ~Before(side, r, q)}

-----------------------------------------------------------------------------
(* RiskEngine *)

Mut_StaleIsTraded(intent, amountIn, oracle, policy, unit) ==
  /\ intent.pair \in policy.allowedPairs
  /\ intent.maxSlippageBps <= policy.maxSlippageBps
  /\ amountIn > 0
  /\ notionalUsd(intent, amountIn, oracle.price, unit) <= policy.maxPositionNotionalUsd * unit
  /\ intent.side = "buy" /\ intent.stopLossPrice > 0 =>
       intent.stopLossPrice < oracle.price

validateIntent(intent, amountIn, oracle, policy, unit) ==
  /\ intent.pair \in policy.allowedPairs
  /\ intent.maxSlippageBps <= policy.maxSlippageBps
  /\ amountIn > 0
  /\ ~oracle.isStale
  /\ notionalUsd(intent, amountIn, oracle.price, unit) <= policy.maxPositionNotionalUsd * unit
  /\ intent.side = "buy" /\ intent.stopLossPrice > 0 =>
       intent.stopLossPrice < oracle.price

Mut_DeviationOneSided(q, oracle, allowedDexes, policy, time) ==
  /\ q.source \in allowedDexes
  /\ q.liquidity >= policy.minLiquidityUsd
  /\ q.impact <= policy.maxPriceImpactBps
  /\ time - q.at <= policy.maxQuoteAge
  /\ (oracle.price * Scale - q.price) * Bps
       <= policy.maxOracleDeviationBps * oracle.price * Scale

\* Math.abs(...) > max in floating point: a fraction of a basis point counts.
validateRoute(q, oracle, allowedDexes, policy, time) ==
  /\ q.source \in allowedDexes
  /\ q.liquidity >= policy.minLiquidityUsd
  /\ q.impact <= policy.maxPriceImpactBps
  /\ time - q.at <= policy.maxQuoteAge
  /\ Abs(q.price - oracle.price * Scale) * Bps
       <= policy.maxOracleDeviationBps * oracle.price * Scale

=============================================================================
