--------------------------- MODULE Orchestration ---------------------------
(***************************************************************************)
(* OrchestrationEngine.execute (agents/orchestration.py): plan a query,    *)
(* execute the tiers of the plan, look at the verdict of the validator     *)
(* after every tier, plan again, fall back to a bare answer.  Module Tiers *)
(* has the tiers of a plan, module Planner the plans.                      *)
(*                                                                         *)
(* One action per stretch of code between two awaits, or per branch of it. *)
(* The steps of a tier run concurrently and are retried one by one.  The   *)
(* process may crash; execute then starts over, from the snapshot that     *)
(* _save_execution_snapshot left in Redis or because the query is sent     *)
(* again.                                                                  *)
(*                                                                         *)
(* Abstractions.  An answer is its number within the execution, a verdict  *)
(* the number of checks the answer passed and the valid flag.  Retrieval,  *)
(* tool and analysis results are left out: no branch of execute reads      *)
(* them.  The planner only writes step types that have an executor, so no  *)
(* step is SKIPPED.  The shipped retrieval, tool and reasoning agents turn  *)
(* most errors into results, the validator and the analyzer do not; agents  *)
(* can be replaced through agents/registry.py, so MayFail is a parameter.   *)
(***************************************************************************)
EXTENDS Tiers

CONSTANTS
  LLMPlans,        \* plans the LLM can choose, at every call of the planner
  KeywordPlans,    \* plans the keywords of a query can determine
  Verdicts,        \* what the validator finds, a set of Finding
  Threshold,       \* checks to pass: validation_threshold * TotalChecks, up
  MayFail,         \* step types whose agent may raise (see below)
  MaxIterations,   \* default of max_iterations
  MaxRetries,      \* max_retries
  RedisConfigured, \* is the engine built with a redis_url?
  NoVerdict        \* validation_result before any (None)

\* The five checks of ValidatorAgent.validate_response: score is passed / 5,
\* a check that fails raises issues, an issue of severity ERROR makes it invalid.
TotalChecks == 5
Finding == {f \in [passed : 0..TotalChecks, valid : BOOLEAN] :
              f.valid \/ f.passed < TotalChecks}

\* What the properties tell apart of a validation result: the finding, and the
\* number of the answer it is about.
VerdictType == [passed : 0..TotalChecks, valid : BOOLEAN, of : Nat]

Plans == LLMPlans \cup KeywordPlans

ASSUME PlansAssumption == \A p \in Plans : PlanIsSequence(p) /\ ValidatesLate(p)

ASSUME OrchestrationAssumption ==
  /\ KeywordPlans # {}
  /\ Verdicts \subseteq Finding
  /\ Verdicts # {}
  /\ Threshold \in 1..TotalChecks
  /\ MaxIterations \in Nat \ {0}
  /\ MaxRetries \in Nat
  /\ RedisConfigured \in BOOLEAN
  /\ NoVerdict \notin VerdictType

VARIABLES
  pc,              \* where execute is
  request,         \* the keyword plan of the query being executed
  plan,            \* the current plan
  iteration, maxIterations,
  tierNo,          \* tier being executed
  states,          \* step type -> its ExecutionState, for the running steps
  context,         \* what execute reads of the shared context dictionary
  allStates,       \* what execute reads of the list of all states
  finalValidation, \* the verdict execute will return
  answers,         \* answers generated in this execution
  verdicts,        \* history: verdicts of plan steps in this execution
  replans,         \* history: plans made after the first in this execution
  bare,            \* history: did a plan of this execution reason in tier 0?
  counted,         \* the metric that counts this execution: "none",
                   \* "successful_runs" or "failed_runs"
  snapshot         \* does Redis have a snapshot of this query?

planning == <<plan, replans, bare>>
progress == <<iteration, maxIterations, tierNo>>
judged == <<context, answers, verdicts>>
outcome == <<allStates, finalValidation, counted>>
execution == <<planning, progress, judged, outcome>>
world == <<request, snapshot>>
vars == <<pc, states, execution, world>>

-----------------------------------------------------------------------------
(***************************************************************************)
(* Data                                                                    *)
(***************************************************************************)
NoAnswer == 0      \* "", or no answer in the context yet
NoTier == [t \in {} |-> 0]

Verdict(f, answer) == [passed |-> f.passed, valid |-> f.valid, of |-> answer]

\* The result of execute when even the fallback validation fails: it claims to
\* be valid, with score 0, and is about no answer.
DefaultVerdict == [passed |-> 0, valid |-> TRUE, of |-> NoAnswer]

Passes(v) == v.passed >= Threshold /\ v.valid

\* Mutant: only an issue of severity ERROR counts.
HasErrors(v) == ~v.valid

HasIssues(v) == v.passed < TotalChecks

Running == [status |-> "running", retry_count |-> 0]

Ended(t) == states[t].status # "running"
Completed(t) == states[t].status = "completed"

Working == pc \notin {"idle", "answered", "aborted", "crashed"}

\* _should_revise, over the states of all iterations so far.
ShouldRevise ==
  \/ allStates.failed
  \/ 2 * allStates.completed < Len(plan)

-----------------------------------------------------------------------------
(***************************************************************************)
(* Start of an execution                                                   *)
(***************************************************************************)
\* The locals of execute before the planner has answered.
Fresh(iterations) ==
  /\ plan' = request'
  /\ iteration' = 0
  /\ maxIterations' = iterations
  /\ tierNo' = 0
  /\ context' = [answer |-> NoAnswer, validation |-> NoVerdict]
  /\ allStates' = [completed |-> 0, failed |-> FALSE]
  /\ finalValidation' = NoVerdict
  /\ answers' = 0
  /\ verdicts' = 0
  /\ replans' = 0
  /\ bare' = FALSE
  /\ counted' = "none"
  /\ states' = NoTier

Init ==
  /\ pc = "idle"
  /\ request \in KeywordPlans
  /\ plan = request
  /\ iteration = 0
  /\ maxIterations = MaxIterations
  /\ tierNo = 0
  /\ states = NoTier
  /\ context = [answer |-> NoAnswer, validation |-> NoVerdict]
  /\ allStates = [completed |-> 0, failed |-> FALSE]
  /\ finalValidation = NoVerdict
  /\ answers = 0
  /\ verdicts = 0
  /\ replans = 0
  /\ bare = FALSE
  /\ counted = "none"
  /\ snapshot = FALSE

\* A query arrives.  Its trace id is new, so it has no snapshot yet.
Submit ==
  /\ ~Working
  /\ request' \in KeywordPlans
  /\ Fresh(MaxIterations)
  /\ snapshot' = FALSE
  /\ pc' = "plan"

\* resume_execution: only the query of the snapshot is used, and the
\* execution starts over with two iterations.
Resume ==
  /\ pc = "crashed"
  /\ snapshot
  /\ UNCHANGED <<request, snapshot>>
  /\ Fresh(2)
  /\ pc' = "plan"

\* The planner answers: with the plan of the LLM, or with the keyword plan.
PlannerAnswers ==
  /\ plan' \in LLMPlans \cup {request}
  /\ bare' = (bare \/ "reason" \in TierTypes(plan', 0))

MakePlan ==
  /\ pc = "plan"
  /\ PlannerAnswers
  /\ pc' = "tier"
  /\ UNCHANGED <<states, replans, progress, judged, outcome, world>>

-----------------------------------------------------------------------------
(***************************************************************************)
(* Steps (_execute_step)                                                   *)
(***************************************************************************)
StartTier ==
  /\ pc = "tier"
  /\ states' = [t \in TierTypes(plan, tierNo) |-> Running]
  /\ pc' = "running"
  /\ UNCHANGED <<execution, world>>

StepsRun == pc \in {"running", "fallbackReason", "fallbackValidate"}

CompleteStep(t) ==
  /\ StepsRun
  /\ ~Ended(t)
  /\ states' = [states EXCEPT ![t].status = "completed"]
  /\ UNCHANGED <<pc, execution, world>>

AttemptsLeft(t) == states[t].retry_count < MaxRetries

\* An attempt raises and another one is left.
RetryStep(t) ==
  /\ StepsRun
  /\ ~Ended(t)
  /\ t \in MayFail
  /\ AttemptsLeft(t)
  /\ states' = [states EXCEPT ![t].retry_count = @ + 1]
  /\ UNCHANGED <<pc, execution, world>>

\* The last attempt raises.
FailStep(t) ==
  /\ StepsRun
  /\ ~Ended(t)
  /\ t \in MayFail
  /\ ~AttemptsLeft(t)
  /\ states' = [states EXCEPT ![t].status = "failed"]
  /\ UNCHANGED <<pc, execution, world>>

AllEnded == \A t \in DOMAIN states : Ended(t)

-----------------------------------------------------------------------------
(***************************************************************************)
(* Tiers (_execute_tier and the body of the loop over tiers)               *)
(***************************************************************************)
\* gather has returned: the results go to the context.  A failed reason step
\* leaves "", a failed validate step None.
FinishTier ==
  /\ pc = "running"
  /\ AllEnded
  /\ IF "reason" \in DOMAIN states /\ Completed("reason")
       THEN answers' = answers + 1
       ELSE answers' = answers
  /\ \E f \in Verdicts :
       context' =
         [answer |-> IF "reason" \notin DOMAIN states THEN context.answer
                     ELSE IF Completed("reason") THEN answers + 1
                     ELSE NoAnswer,
          validation |-> IF "validate" \notin DOMAIN states THEN context.validation
                         ELSE IF Completed("validate") THEN Verdict(f, context.answer)
                         ELSE NoVerdict]
  /\ verdicts' = IF "validate" \in DOMAIN states /\ Completed("validate")
                   THEN verdicts + 1 ELSE verdicts
  /\ pc' = "save"
  /\ UNCHANGED <<states, planning, progress, outcome, world>>

\* _save_execution_snapshot; without a redis_url it does nothing.
SaveSnapshot ==
  /\ pc = "save"
  /\ snapshot' = (snapshot \/ RedisConfigured)
  /\ pc' = "check"
  /\ UNCHANGED <<states, execution, request>>

\* Redis raises: nothing between here and the caller of execute catches it.
SaveFails ==
  /\ pc = "save"
  /\ RedisConfigured
  /\ pc' = "aborted"
  /\ UNCHANGED <<states, execution, world>>

\* Mutant: a step that was retried does not count as failed.
SomeFailedAtOnce ==
  \E t \in DOMAIN states : states[t].status = "failed" /\ states[t].retry_count = 0

SomeFailed == \E t \in DOMAIN states : states[t].status = "failed"

\* all_states.extend(tier_states)
ExtendAllStates ==
  /\ allStates' =
       [completed |-> allStates.completed
                        + Cardinality({t \in DOMAIN states : Completed(t)}),
        failed    |-> allStates.failed \/ SomeFailed]
  /\ states' = NoTier

\* The three outcomes of the check after a tier.  The verdict it reads is the
\* one in the context, from this tier or from any tier before it.
Converge ==
  /\ pc = "check"
  /\ context.validation # NoVerdict
  /\ Passes(context.validation)
  /\ ExtendAllStates
  /\ finalValidation' = context.validation
  /\ pc' = "report"
  /\ UNCHANGED <<planning, progress, judged, counted, world>>

BelowThreshold ==
  /\ pc = "check"
  /\ context.validation # NoVerdict
  /\ ~Passes(context.validation)
  /\ HasIssues(context.validation)
  /\ ExtendAllStates
  /\ finalValidation' = context.validation
  /\ pc' = "iterate"
  /\ UNCHANGED <<planning, progress, judged, counted, world>>

NoBreak ==
  /\ pc = "check"
  /\ LET v == context.validation
     IN  /\ v # NoVerdict => ~Passes(v) /\ ~HasIssues(v)
         /\ finalValidation' = IF v # NoVerdict THEN v ELSE finalValidation
  /\ ExtendAllStates
  /\ IF IsTier(plan, tierNo + 1)
       THEN tierNo' = tierNo + 1 /\ pc' = "tier"
       ELSE tierNo' = tierNo /\ pc' = "iterate"
  /\ UNCHANGED <<planning, iteration, maxIterations, judged, counted, world>>

-----------------------------------------------------------------------------
(***************************************************************************)
(* Iterations                                                              *)
(***************************************************************************)
\* Mutant: one iteration too many.
MoreIterationsPlusOne == iteration < maxIterations

MoreIterations == iteration < maxIterations - 1

\* Another iteration with the same plan.
Continue ==
  /\ pc = "iterate"
  /\ MoreIterations
  /\ ~ShouldRevise
  /\ iteration' = iteration + 1
  /\ tierNo' = 0
  /\ pc' = "tier"
  /\ UNCHANGED <<states, planning, maxIterations, judged, outcome, world>>

\* Another iteration with a new plan.  The validator's issues are passed to
\* the planner, which does not read them.
Replan ==
  /\ pc = "iterate"
  /\ MoreIterations
  /\ ShouldRevise
  /\ PlannerAnswers
  /\ replans' = replans + 1
  /\ iteration' = iteration + 1
  /\ tierNo' = 0
  /\ pc' = "tier"
  /\ UNCHANGED <<states, maxIterations, judged, outcome, world>>

\* The loop is over with a verdict ...
StopIterating ==
  /\ pc = "iterate"
  /\ ~MoreIterations
  /\ finalValidation # NoVerdict
  /\ pc' = "report"
  /\ UNCHANGED <<states, execution, world>>

\* ... or without: reason and validate once more, outside any plan.
StartFallback ==
  /\ pc = "iterate"
  /\ ~MoreIterations
  /\ finalValidation = NoVerdict
  /\ states' = [t \in {"reason"} |-> Running]
  /\ pc' = "fallbackReason"
  /\ UNCHANGED <<execution, world>>

FallbackAnswer ==
  /\ pc = "fallbackReason"
  /\ AllEnded
  /\ IF Completed("reason")
       THEN /\ answers' = answers + 1
            /\ context' = [context EXCEPT !.answer = answers + 1]
       ELSE /\ answers' = answers
            /\ context' = [context EXCEPT !.answer = NoAnswer]
  /\ states' = [t \in {"validate"} |-> Running]
  /\ pc' = "fallbackValidate"
  /\ UNCHANGED <<planning, progress, verdicts, outcome, world>>

FallbackVerdict ==
  /\ pc = "fallbackValidate"
  /\ AllEnded
  /\ IF Completed("validate")
       THEN \E f \in Verdicts : finalValidation' = Verdict(f, context.answer)
       ELSE finalValidation' = DefaultVerdict
  /\ states' = NoTier
  /\ pc' = "report"
  /\ UNCHANGED <<planning, progress, judged, allStates, counted, world>>

\* _update_metrics, then the result goes to the caller.  The states of the
\* fallback steps are not in all_states.
Report ==
  /\ pc = "report"
  /\ counted' = IF allStates.failed THEN "failed_runs" ELSE "successful_runs"
  /\ pc' = "answered"
  /\ UNCHANGED <<states, planning, progress, judged, allStates, finalValidation,
                 world>>

-----------------------------------------------------------------------------
(***************************************************************************)
(* Environment                                                             *)
(***************************************************************************)
\* The process ends; what is in Redis stays.
Crash ==
  /\ Working
  /\ UNCHANGED <<request, snapshot>>
  /\ Fresh(MaxIterations)
  /\ pc' = "crashed"

\* A snapshot expires after an hour (ex=3600).
ExpireSnapshot ==
  /\ snapshot
  /\ snapshot' = FALSE
  /\ UNCHANGED <<pc, states, execution, request>>

Step == \E t \in DOMAIN states : CompleteStep(t) \/ RetryStep(t) \/ FailStep(t)

Execute ==
  \/ MakePlan \/ StartTier \/ Step \/ FinishTier
  \/ SaveSnapshot \/ SaveFails
  \/ Converge \/ BelowThreshold \/ NoBreak
  \/ Continue \/ Replan \/ StopIterating
  \/ StartFallback \/ FallbackAnswer \/ FallbackVerdict
  \/ Report

Next == Submit \/ Resume \/ Execute \/ Crash \/ ExpireSnapshot

\* The event loop keeps running the coroutine, and every agent returns or
\* raises: the clients they wait for have timeouts.
Spec == Init /\ [][Next]_vars /\ WF_vars(Execute)

-----------------------------------------------------------------------------
(***************************************************************************)
(* Properties                                                              *)
(***************************************************************************)

\* The types of the variables of an execution and of the engine.
TypeOK ==
  /\ pc \in {"idle", "plan", "tier", "running", "save", "check", "iterate",
            "fallbackReason", "fallbackValidate", "report", "answered",
            "aborted", "crashed"}
  /\ request \in KeywordPlans
  /\ plan \in Plans
  /\ iteration \in Nat
  /\ maxIterations \in {MaxIterations, 2}
  /\ tierNo \in Nat
  /\ states \in [DOMAIN states -> [status : {"running", "completed", "failed"},
                                   retry_count : 0..MaxRetries]]
  /\ context \in [answer : Nat, validation : VerdictType \cup {NoVerdict}]
  /\ allStates \in [completed : Nat, failed : BOOLEAN]
  /\ finalValidation \in VerdictType \cup {NoVerdict}
  /\ answers \in Nat /\ verdicts \in Nat /\ replans \in Nat
  /\ bare \in BOOLEAN
  /\ counted \in {"none", "successful_runs", "failed_runs"}
  /\ snapshot \in BOOLEAN

\* The plans of an execution give at most one verdict: the validation_result
\* of an iteration stays in the context and ends the next one after its first
\* tier, before its validate step, however many iterations and plans follow.
OneVerdict == verdicts <= 1

\* The verdict that execute returns is about the answer that it returns, after
\* any failures, re-plans and the fallback, unless a plan reasons in its first
\* tier or even the fallback validation failed.
VerdictJudgesAnswer ==
  pc = "answered" /\ ~bare /\ finalValidation # DefaultVerdict =>
    finalValidation.of = context.answer

\* A run counts as successful only if no step of its plans failed, and then
\* the verdict returned is one a plan's validate step gave: the fallback, whose
\* steps no metric counts, never makes a run successful.
SuccessIsJudged ==
  counted = "successful_runs" =>
    verdicts > 0 /\ finalValidation = context.validation

\* execute does what QueryService promises: it works for at most
\* max_iterations rounds, judges a query once, answers early only on a passing
\* verdict, and every query is eventually answered or fails.
Q == INSTANCE QueryService WITH
       PossibleVerdicts <- VerdictType,
       Passing   <- {v \in VerdictType : Passes(v)},
       NoVerdict <- NoVerdict,
       Limits    <- {MaxIterations, 2},
       phase     <- IF Working THEN "working" ELSE pc,
       limit     <- maxIterations,
       round     <- iteration,
       verdict   <- IF context.validation # NoVerdict THEN context.validation
                                                      ELSE finalValidation

ImplementsQueryService == Q!Spec

\* README.md: "Answers below quality threshold trigger automatic re-planning":
\* an execution that may iterate and ends with a verdict below the threshold
\* has planned again.
BelowThresholdReplans ==
  pc = "answered" /\ maxIterations > 1 /\ ~Passes(finalValidation) =>
    replans > 0

=============================================================================
