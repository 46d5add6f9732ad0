-------------------------- MODULE AtMostOnceCall --------------------------
(***************************************************************************)
(* What the MCP client promises about tool calls: the server performs a    *)
(* call at most once, a call that is answered was performed, and a call    *)
(* that failed may have been performed or may still be, but stays failed.  *)
(***************************************************************************)
CONSTANT Call

VARIABLES
  state,       \* state[c]
  performed    \* the calls the server performed

vars == <<state, performed>>

Init ==
  /\ state = [c \in Call |-> "idle"]
  /\ performed = {}

Begin(c) ==
  /\ state[c] = "idle"
  /\ state' = [state EXCEPT ![c] = "open"]
  /\ UNCHANGED performed

Perform(c) ==
  /\ state[c] # "idle"
  /\ c \notin performed
  /\ performed' = performed \cup {c}
  /\ UNCHANGED state

Answer(c) ==
  /\ state[c] = "open"
  /\ c \in performed
  /\ state' = [state EXCEPT ![c] = "answered"]
  /\ UNCHANGED performed

\* Calls may fail together, and one that was never begun may be refused.
Fail(C) ==
  /\ \A c \in C : state[c] \in {"idle", "open"}
  /\ state' = [c \in Call |-> IF c \in C THEN "failed" ELSE state[c]]
  /\ UNCHANGED performed

Next ==
  \/ \E c \in Call : Begin(c) \/ Perform(c) \/ Answer(c)
  \/ \E C \in SUBSET Call : Fail(C)

Spec == Init /\ [][Next]_vars

=============================================================================
