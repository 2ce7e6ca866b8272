-------------------------- MODULE MCOrchestration --------------------------
(***************************************************************************)
(* Orchestration on plans of every shape the planner has: with and without *)
(* sources, tools and analysis, with so many sources that most steps are   *)
(* dropped, and with the two orders of analysis and retrieval.             *)
(***************************************************************************)
EXTENDS Orchestration

CONSTANT NoSource

P == INSTANCE Planner

DefaultSources == <<"docs", "code", "graph", "tickets", "telemetry", "diagram",
                    "ui_sketch">>

GroundedLLMPlans == {P!LLMPlan(<<"docs">>, TRUE), P!LLMPlan(<<"docs", "code">>, FALSE)}
BareLLMPlans == {P!LLMPlan(<<>>, FALSE)}
AnyLLMPlans == GroundedLLMPlans \cup BareLLMPlans

SomeKeywordPlans == {P!KeywordPlan("design", DefaultSources, FALSE),
                     P!KeywordPlan("troubleshoot", DefaultSources, FALSE),
                     P!KeywordPlan("explain", DefaultSources, FALSE)}

\* A passing verdict, and the two ways to fall short: too few checks passed,
\* or an error in one of them.
SomeVerdicts == {[passed |-> 4, valid |-> TRUE], [passed |-> 3, valid |-> TRUE],
                 [passed |-> 4, valid |-> FALSE]}
=============================================================================
