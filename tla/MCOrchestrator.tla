--------------------------- MODULE MCOrchestrator ---------------------------
(***************************************************************************)
(* Instances of Orchestrator for TLC.                                      *)
(***************************************************************************)
EXTENDS OrchestratorProperties

CONSTANT s1

\* No subgoal at all, two subgoals for the loop half, and one for each of the
\* other halves behind one for the loop half.
SomePlans == {<<>>, <<"loop", "loop">>, <<"loop", "structured">>, <<"loop", "research">>}

=============================================================================
