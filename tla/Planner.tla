------------------------------ MODULE Planner ------------------------------
(***************************************************************************)
(* The plans PlannerAgent.plan can return (agents/planner.py).  The plan   *)
(* comes from the LLM when it answers with JSON, whatever it chooses; in   *)
(* every other case it is the keyword plan, a function of the query alone. *)
(* ir_context, which carries the previous plan and the validation issues   *)
(* on a re-plan, is not read by either.                                    *)
(***************************************************************************)
EXTENDS Sequences

CONSTANT NoSource      \* source of a step that has none (None in the code)

\* ExecutionStep, without the parameters no property depends on.
Step(type, source, deps) ==
  [step_type |-> type, source |-> source, depends_on |-> deps]

Retrieve(source) == Step("retrieve", source, {})

\* One step for all the tools of the plan; none when there are no tools.
ToolSteps(hasTools) == IF hasTools THEN <<Step("tool", NoSource, {})>> ELSE <<>>

\* Mutant: the answer waits for its own validation.
AnswerStepsCyclic == <<Step("reason", NoSource, {"retrieve", "validate"}),
                       Step("validate", NoSource, {"reason"})>>

\* The last two steps of every plan.
AnswerSteps == <<Step("reason", NoSource, {"retrieve"}),
                 Step("validate", NoSource, {"reason"})>>

\* _llm_plan: the LLM lists the sources, possibly none, possibly repeated.
LLMPlan(sources, hasTools) ==
  [i \in DOMAIN sources |-> Retrieve(sources[i])]
    \o ToolSteps(hasTools) \o AnswerSteps

\* plan: the keyword-based plan for an intent.
IntentSteps(intent, sources) ==
  CASE intent = "design" ->
         <<Step("analyze", "ir", {}), Retrieve("docs"), Retrieve("code"),
           Step("reason", NoSource, {"analyze", "retrieve"})>>
    [] intent = "troubleshoot" ->
         <<Retrieve("tickets"), Retrieve("telemetry"),
           Step("analyze", NoSource, {"retrieve"}),
           Step("reason", NoSource, {"analyze"})>>
    [] OTHER ->
         [i \in DOMAIN sources |-> Retrieve(sources[i])]

KeywordPlan(intent, sources, hasTools) ==
  IntentSteps(intent, sources) \o ToolSteps(hasTools) \o AnswerSteps

=============================================================================
