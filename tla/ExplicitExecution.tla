------------------------ MODULE ExplicitExecution ------------------------
(***************************************************************************)
(* What the realtime service promises about orders: a trade gets at most   *)
(* one plan and keeps it; an order is sent only for an execute request      *)
(* that found a plan of the requested chain, and a request sends at most   *)
(* one order.  Preparing a trade never sends one: "signing is explicit".   *)
(***************************************************************************)
EXTENDS Integers

CONSTANTS Trade, Request, Chain, NoPlan, NoRequest

VARIABLES
  plan,      \* plan[t]: the chain of t's plan, or NoPlan
  request,   \* request[c]: the <<trade, chain>> c was admitted for
  sent       \* sent[c]: the number of orders sent for c

vars == <<plan, request, sent>>

Init ==
  /\ plan = [t \in Trade |-> NoPlan]
  /\ request = [c \in Request |-> NoRequest]
  /\ sent = [c \in Request |-> 0]

Planned(t, chain) ==
  /\ plan[t] = NoPlan
  /\ plan' = [plan EXCEPT ![t] = chain]
  /\ UNCHANGED <<request, sent>>

Admitted(c, t) ==
  /\ request[c] = NoRequest
  /\ plan[t] # NoPlan
  /\ request' = [request EXCEPT ![c] = <<t, plan[t]>>]
  /\ UNCHANGED <<plan, sent>>

Sent(c) ==
  /\ request[c] # NoRequest
  /\ sent[c] = 0
  /\ sent' = [sent EXCEPT ![c] = 1]
  /\ UNCHANGED <<plan, request>>

Next ==
  \/ \E t \in Trade, chain \in Chain : Planned(t, chain)
  \/ \E c \in Request, t \in Trade : Admitted(c, t)
  \/ \E c \in Request : Sent(c)

Spec == Init /\ [][Next]_vars

=============================================================================
