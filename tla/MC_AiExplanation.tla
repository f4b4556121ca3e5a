---------------------------- MODULE MC_AiExplanation ----------------------------
(* A small instance of AiExplanation for TLC.                               *)
EXTENDS AiExplanation

\* A batch with a decision that has a task and one that has none; "d3" was
\* decided before there were explanations.
MCBatches == {{"d1", "d2"}}
=============================================================================
