----------------------------- MODULE MCPriceFeed -----------------------------
(* An instance of PriceFeed for TLC: two chains' BTC, an ETH, and MON. *)
EXTENDS PriceFeed

CONSTANTS btcUsdc, btcUsdt, ethUsdc, monUsdc, btcUsd, ethUsd

MCPair == {btcUsdc, btcUsdt, ethUsdc, monUsdc}

\* The registry as it is, MON without a feed, and as its TODO completes it.
Shipped == [p \in MCPair |-> CASE p = monUsdc -> NoFeed
                               [] p = ethUsdc -> ethUsd
                               [] OTHER -> btcUsd]
Completed == [Shipped EXCEPT ![monUsdc] = ethUsd]
MCRegistry == {Shipped, Completed}
ShippedOnly == {Shipped}

MCReferencePrice == [p \in MCPair |-> 100]
=============================================================================
