--------------------------- MODULE MCUsageLedger ---------------------------
(* Instances of UsageLedger for TLC. *)
EXTENDS UsageLedger, TLC

CONSTANTS c1, c2, c3

Limits == [p \in UsageProvider |-> 1]
TwoDune == [c \in {c1, c2} |-> "dune"]
Mixed == (c1 :> "dune") @@ (c2 :> "dune") @@ (c3 :> "coinmarketcap")
=============================================================================
