-------------------------- MODULE MCTradeExecution --------------------------
(***************************************************************************)
(* Constants for model checking TradeExecution: two multisigs with common  *)
(* owners and a trade each, owner vectors of every kind the guards         *)
(* distinguish, a policy that moves under open trades, and prices on both  *)
(* sides of every bound.                                                   *)
(***************************************************************************)
EXTENDS TradeExecution

CONSTANTS k1, k2, k3

MCPrograms == [d \in DexSource |-> IF d = "raydium" THEN {"clmm", "cpmm"} ELSE {d}]

Param(dex, amount, min, oracle, slippage) ==
  [dex |-> dex, mints |-> "base-quote", route |-> "r1", amount_in |-> amount, min_out |-> min,
   oracle_price |-> oracle, max_slippage_bps |-> slippage]

Report(mints, route, program, out, price) ==
  [mints |-> mints, route |-> route, program |-> program,
   output_amount |-> out, execution_price |-> price]

\* Two valid vectors that share an owner; the others are empty, too long, repeat
\* an owner or name the default key.
MCOwnerLists ==
  {<<k1, k2>>, <<k2, k3>>, << >>, <<k1, k2, k3>>, <<k3, k3>>, <<DefaultKey, k1>>}

\* Trades that any policy admits, that only a relaxed one does, and that none does.
MCTradeParams ==
  {Param("jupiter", 10, 10, 1000, 100), Param("raydium", 10, 9, 1000, 5000),
   Param("jupiter", 0, 10, 1000, 100), Param("jupiter", 10, 0, 1000, 100),
   Param("jupiter", 10, 10, 0, 100)}

\* 1015 is 150 bps from 1000, 1500 is 5000, 1501 is further than any policy.
MCExecutionReports ==
  {Report("base-quote", "r1", "jupiter", 10, 1015),
   Report("base-quote", "r1", "jupiter", 9, 1000),
   Report("base-quote", "r1", "cpmm", 9, 1500),
   Report("base-quote", "r1", "jupiter", 10, 1501),
   Report("quote-base", "r1", "jupiter", 10, 1000),
   Report("base-quote", "r2", "jupiter", 10, 1000)}
MCMask == {{}, {"jupiter", "raydium"}}
=============================================================================
