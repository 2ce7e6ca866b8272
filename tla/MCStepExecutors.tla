-------------------------- MODULE MCStepExecutors --------------------------
(***************************************************************************)
(* The tool executor, the retrieval agent and a call of one of the modes   *)
(* of the engine share no state, so a behaviour is one of them: Init picks *)
(* which.                                                                  *)
(*                                                                         *)
(* Tools: two calls together for two slots; two one after the other until  *)
(* one fails, the second with an input that is refused; two to the end,    *)
(* the first with an input whose validation raises.                        *)
(*                                                                         *)
(* Retrieval: two slots, a cache of one result.  A plan asks a source and  *)
(* all sources together, a cascade all sources and then an unknown one,    *)
(* and a single search the first source again.                             *)
(*                                                                         *)
(* Modes: a plan of the LLM and the keyword plan of a design, which        *)
(* reasons twice.                                                          *)
(***************************************************************************)
EXTENDS ToolExecutor, RetrievalAgent, ExecutionModes

MCCalls == {"p1", "p2", "f1", "f2", "n1", "n2"}
MCInput == [c \in MCCalls |-> CASE c = "f2" -> "refused" [] c = "n1" -> "raises"
                                [] OTHER -> "fine"]
MCList == [c \in MCCalls |-> CASE c \in {"p1", "p2"} -> "parallel"
                               [] c \in {"f1", "f2"} -> "fail_fast" [] OTHER -> "continue"]
MCPlace == [c \in MCCalls |-> IF c \in {"p1", "f1", "n1"} THEN 1 ELSE 2]
MCMode == [l \in {"parallel", "fail_fast", "continue"} |-> l]

MCSearches == {"a", "b", "c1", "c2", "s"}
MCKey == [s \in MCSearches |-> CASE s \in {"a", "s"} -> "docs" [] s \in {"b", "c1"} -> "all"
                                 [] OTHER -> "auto"]
MCAsked == [k \in {"docs", "all", "auto"} |->
              CASE k = "docs" -> {"docs"} [] k = "all" -> {"docs", "code"} [] OTHER -> {}]
MCPlan == [s \in MCSearches |-> CASE s \in {"a", "b"} -> "parallel" [] s = "s" -> "sequential"
                                  [] OTHER -> "cascade"]
MCPosition == [s \in MCSearches |-> IF s \in {"b", "c2"} THEN 2 ELSE 1]
MCStrategy == [p \in {"parallel", "sequential", "cascade"} |-> p]

MCPlans == {<<"retrieve", "tool", "reason", "validate">>,
            <<"analyze", "retrieve", "reason", "reason", "validate">>}

VARIABLE service

MCInit ==
  /\ service \in {"tools", "retrieval", "modes"}
  /\ ToolInit /\ RetrievalInit /\ ModesInit

MCNext ==
  /\ UNCHANGED service
  /\ \/ service = "tools" /\ ToolNext /\ UNCHANGED <<retrievalVars, modesVars>>
     \/ service = "retrieval" /\ RetrievalNext /\ UNCHANGED <<toolVars, modesVars>>
     \/ service = "modes" /\ ModesNext /\ UNCHANGED <<toolVars, retrievalVars>>

\* Where another service runs nothing is begun, and the fairness of a service
\* asks nothing.
MCSpec ==
  /\ MCInit /\ [][MCNext]_<<service, toolVars, retrievalVars, modesVars>>
  /\ ToolFairness /\ RetrievalFairness /\ ModesFairness

\* Every list of tools, every plan of searches and every call of a mode that
\* was begun comes to its end, whatever fails and whoever waits for the slots
\* that all share (ToolExecutor.execute, RetrievalAgent.execute_plan,
\* execute_streaming, execute_recursive, execute_branching).
CallsEnd == ListsEnd /\ PlansEnd /\ ModesEnd
=============================================================================
