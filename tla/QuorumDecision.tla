--------------------------- MODULE QuorumDecision ---------------------------
(***************************************************************************)
(* What the on-chain guardrail promises about one proposal: it is opened   *)
(* with a fixed electorate and a fixed number of votes needed, voters of   *)
(* that electorate vote, and it is decided once, either executed after     *)
(* enough different voters voted or cancelled.                             *)
(***************************************************************************)
EXTENDS Integers, FiniteSets

CONSTANTS
  Item,         \* the proposals
  Voter         \* everyone who may belong to an electorate

VARIABLES
  phase,        \* phase[i] \in Phase
  electorate,   \* electorate[i]: who may vote on i
  need,         \* need[i]: how many different votes i needs
  votes         \* votes[i]: who has voted for i

vars == <<phase, electorate, need, votes>>

Phase == {"absent", "open", "executed", "cancelled"}

Init ==
  /\ phase = [i \in Item |-> "absent"]
  /\ electorate = [i \in Item |-> {}]
  /\ need = [i \in Item |-> 0]
  /\ votes = [i \in Item |-> {}]

Open(i) ==
  /\ phase[i] = "absent"
  /\ phase' = [phase EXCEPT ![i] = "open"]
  /\ \E E \in SUBSET Voter :
       /\ electorate' = [electorate EXCEPT ![i] = E]
       /\ \E n \in 1..Cardinality(E) : need' = [need EXCEPT ![i] = n]
  /\ UNCHANGED votes

Vote(i, v) ==
  /\ phase[i] = "open"
  /\ v \in electorate[i]
  /\ votes' = [votes EXCEPT ![i] = @ \cup {v}]
  /\ UNCHANGED <<phase, electorate, need>>

Execute(i) ==
  /\ phase[i] = "open"
  /\ Cardinality(votes[i]) >= need[i]
  /\ phase' = [phase EXCEPT ![i] = "executed"]
  /\ UNCHANGED <<electorate, need, votes>>

Cancel(i) ==
  /\ phase[i] = "open"
  /\ phase' = [phase EXCEPT ![i] = "cancelled"]
  /\ UNCHANGED <<electorate, need, votes>>

Next ==
  \E i \in Item :
    \/ Open(i)
    \/ \E v \in Voter : Vote(i, v)
    \/ Execute(i)
    \/ Cancel(i)

Spec == Init /\ [][Next]_vars
=============================================================================
