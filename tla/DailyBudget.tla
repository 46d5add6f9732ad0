---------------------------- MODULE DailyBudget ----------------------------
(***************************************************************************)
(* What the usage ledger promises the providers' bill: on any day at most  *)
(* Limit[p] paid calls go out to provider p, each call once.               *)
(***************************************************************************)
EXTENDS Integers, FiniteSets

CONSTANTS Call, Provider, Day, Limit

VARIABLE granted   \* granted[<<p, d>>]: the calls paid for provider p on day d

Init == granted = [k \in Provider \X Day |-> {}]

Grant(c, p, d) ==
  /\ \A k \in Provider \X Day : c \notin granted[k]
  /\ Cardinality(granted[<<p, d>>]) < Limit[p]
  /\ granted' = [granted EXCEPT ![<<p, d>>] = @ \cup {c}]

Next == \E c \in Call, p \in Provider, d \in Day : Grant(c, p, d)

Spec == Init /\ [][Next]_granted

=============================================================================
