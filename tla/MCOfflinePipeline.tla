-------------------------- MODULE MCOfflinePipeline --------------------------
(* An instance of OfflinePipeline for TLC. *)
EXTENDS OfflinePipeline

MCTtl == [c \in Crawler |-> IF c = "dune" THEN 2 ELSE 0]

\* Dune and the gate configured; the demo with fixtures; a strict gate and no
\* key; a strict gate and no provider.
Full == [duneKey |-> TRUE, duneMock |-> FALSE, cmcKey |-> FALSE, scheduler |-> TRUE,
         mode |-> "enforce", provider |-> "keyed"]
Demo == [duneKey |-> FALSE, duneMock |-> TRUE, cmcKey |-> TRUE, scheduler |-> FALSE,
         mode |-> "shadow", provider |-> "keyed"]
Bare == [duneKey |-> FALSE, duneMock |-> FALSE, cmcKey |-> FALSE, scheduler |-> FALSE,
         mode |-> "enforce", provider |-> "unkeyed"]
Open == [Bare EXCEPT !.provider = "none"]
MCSetup == {Full, Demo, Bare, Open}

\* The crawlers: with both keys and with fixtures, and no gate.
CrawlerSetup == {[s EXCEPT !.mode = "disabled", !.cmcKey = TRUE] : s \in {Full, Demo}}

AnswerOf(choice, confident, grounded) ==
  [choice |-> choice, confident |-> confident, analysisGrounded |-> grounded,
   signalsSupported |-> TRUE]
MCAnswer == {AnswerOf("pass", TRUE, TRUE), AnswerOf("pass", TRUE, FALSE)}
=============================================================================
