----------------------- MODULE Orchestration_proofs -----------------------
(***************************************************************************)
(* Proofs about module Orchestration, for all plans, verdicts, thresholds, *)
(* failing agents and bounds that satisfy its assumptions.                 *)
(***************************************************************************)
EXTENDS Orchestration, FiniteSetTheorems, TLAPS

-----------------------------------------------------------------------------
(***************************************************************************)
(* The inductive invariant                                                 *)
(***************************************************************************)
Typing == TypeOK /\ IsFiniteSet(DOMAIN states)

\* The verdict in the context is one the validator can give, and the counter
\* of verdicts counts it.
ContextVerdict ==
  /\ context.validation # NoVerdict =>
       context.validation.valid \/ context.validation.passed < TotalChecks
  /\ verdicts = IF context.validation = NoVerdict THEN 0 ELSE 1

\* The steps that run are those of the current tier, or of the fallback.
RunningSteps ==
  /\ pc \in {"tier", "running", "save", "check"} => tierNo \in 0..Len(plan)
  /\ pc \in {"running", "save", "check"} =>
       DOMAIN states = TierTypes(plan, tierNo)
  /\ pc \in {"save", "check"} => AllEnded
  /\ pc = "fallbackReason" => DOMAIN states = {"reason"}
  /\ pc = "fallbackValidate" => DOMAIN states = {"validate"}

\* Once there is a verdict, no tier after the first is executed.
StaleVerdict ==
  /\ pc = "plan" => tierNo = 0
  /\ pc \in {"tier", "running"} /\ context.validation # NoVerdict => tierNo = 0

\* finalValidation follows the verdict in the context; only the fallback gives
\* a final verdict that is not in the context.
FinalFollows ==
  /\ pc \notin {"save", "check", "report", "answered", "aborted"} =>
       finalValidation = context.validation
  /\ pc \in {"save", "check"} /\ finalValidation # NoVerdict =>
       finalValidation = context.validation
  /\ pc \in {"report", "answered"} =>
       /\ finalValidation # NoVerdict
       /\ context.validation # NoVerdict => finalValidation = context.validation
  /\ pc \in {"fallbackReason", "fallbackValidate"} =>
       context.validation = NoVerdict

\* Unless a plan reasons in its first tier, no answer is newer than the verdict.
VerdictIsFresh ==
  /\ ~bare /\ pc \in {"tier", "running", "save", "check", "iterate"} =>
       "reason" \notin TierTypes(plan, 0)
  /\ ~bare /\ context.validation # NoVerdict =>
       context.validation.of = context.answer
  /\ pc \in {"report", "answered"} /\ context.validation = NoVerdict =>
       finalValidation = DefaultVerdict \/ finalValidation.of = context.answer

\* Without a verdict either a step failed or validation is still to come.
ValidationIsAhead ==
  context.validation = NoVerdict /\ ~allStates.failed =>
    /\ pc \in {"tier", "running"} =>
         \A j \in 0..Len(plan) : j < tierNo => "validate" \notin TierTypes(plan, j)
    /\ pc \in {"save", "check"} /\ (\A t \in DOMAIN states : Completed(t)) =>
         \A j \in 0..Len(plan) : j <= tierNo => "validate" \notin TierTypes(plan, j)
    /\ pc \notin {"iterate", "fallbackReason", "fallbackValidate", "report", "answered"}

Counting ==
  /\ counted # "none" => pc = "answered"
  /\ counted = "successful_runs" => ~allStates.failed

\* Rounds are bounded, and only a passing verdict ends them early.
RoundsAreUsed ==
  /\ iteration < maxIterations
  /\ pc = "iterate" /\ context.validation # NoVerdict => ~Passes(context.validation)
  /\ pc \in {"fallbackReason", "fallbackValidate"} => iteration = maxIterations - 1
  /\ pc = "report" => Passes(finalValidation) \/ iteration = maxIterations - 1

IInv ==
  /\ Typing
  /\ ContextVerdict
  /\ RunningSteps
  /\ StaleVerdict
  /\ FinalFollows
  /\ VerdictIsFresh
  /\ ValidationIsAhead
  /\ Counting
  /\ RoundsAreUsed

-----------------------------------------------------------------------------
(***************************************************************************)
(* Lemmas                                                                  *)
(***************************************************************************)
\* A tier has only types of the plan (the grouping loop of _compute_tiers).
LEMMA TierTypesInPlan ==
  ASSUME NEW p, NEW k
  PROVE  TierTypes(p, k) \subseteq TypesOf(p)
BY DEF TierTypes

\* A plan has finitely many step types.
LEMMA PlanTypesFinite ==
  ASSUME NEW p, PlanIsSequence(p)
  PROVE  IsFiniteSet(TypesOf(p))
<1> DEFINE f == [i \in DOMAIN p |-> p[i].step_type]
<1>1. IsFiniteSet(DOMAIN p)
  BY FS_Interval DEF PlanIsSequence
<1>2. f \in Surjection(DOMAIN p, TypesOf(p))
  BY DEF Surjection, TypesOf
<1> QED
  BY <1>1, <1>2, FS_Surjection

\* The steps of a tier are finitely many.
LEMMA TierTypesFinite ==
  ASSUME NEW p \in Plans, NEW k
  PROVE  IsFiniteSet(TierTypes(p, k))
BY PlansAssumption, PlanTypesFinite, TierTypesInPlan, FS_Subset

\* A verdict the validator can give either passes or has issues, so the check
\* after a tier that finds one always leaves the loop over the tiers.
LEMMA PassesOrHasIssues ==
  ASSUME NEW v \in VerdictType, v.valid \/ v.passed < TotalChecks
  PROVE  Passes(v) \/ HasIssues(v)
BY OrchestrationAssumption DEF VerdictType, Passes, HasIssues, TotalChecks

\* A verdict on an answer is a verdict.
LEMMA VerdictTyping ==
  ASSUME NEW f \in Verdicts, NEW n \in Nat
  PROVE  /\ Verdict(f, n) \in VerdictType
         /\ Verdict(f, n) # NoVerdict
         /\ Verdict(f, n).of = n
         /\ Verdict(f, n).valid \/ Verdict(f, n).passed < TotalChecks
BY OrchestrationAssumption DEF Verdict, VerdictType, Finding, TotalChecks

\* So is the result when even the fallback validation fails.
LEMMA DefaultVerdictTyping ==
  DefaultVerdict \in VerdictType /\ DefaultVerdict # NoVerdict
<1>1. DefaultVerdict \in VerdictType
  BY DEF DefaultVerdict, VerdictType, TotalChecks, NoAnswer
<1> QED
  BY <1>1, OrchestrationAssumption

-----------------------------------------------------------------------------
(***************************************************************************)
(* The invariant is inductive                                              *)
(***************************************************************************)
\* Fresh is the state in which every execution starts.
LEMMA FreshIInv ==
  ASSUME IInv, request' \in KeywordPlans, snapshot' \in BOOLEAN,
         NEW n \in {MaxIterations, 2}, Fresh(n), pc' \in {"plan", "crashed"}
  PROVE  IInv'
<1>1. IsFiniteSet(DOMAIN states')
  BY FS_EmptySet DEF Fresh, NoTier
<1>2. Typing'
  BY <1>1, OrchestrationAssumption
  DEF Typing, TypeOK, Fresh, NoTier, NoAnswer, Plans
<1>3. n \in Nat \ {0}
  BY OrchestrationAssumption
<1> QED
  BY <1>2, <1>3
  DEF IInv, Fresh, ContextVerdict, RunningSteps, StaleVerdict, FinalFollows,
      VerdictIsFresh, ValidationIsAhead, Counting, RoundsAreUsed

THEOREM InitIInv == Init => IInv
<1> SUFFICES ASSUME Init PROVE IInv
  OBVIOUS
<1>1. IsFiniteSet(DOMAIN states)
  BY FS_EmptySet DEF Init, NoTier
<1>2. Typing
  BY <1>1, OrchestrationAssumption DEF Init, Typing, TypeOK, NoTier, NoAnswer, Plans
<1> QED
  BY <1>2, OrchestrationAssumption
  DEF IInv, Init, ContextVerdict, RunningSteps, StaleVerdict, FinalFollows,
      VerdictIsFresh, ValidationIsAhead, Counting, RoundsAreUsed

LEMMA MakePlanIInv == IInv /\ MakePlan => IInv'
<1> SUFFICES ASSUME IInv, MakePlan PROVE IInv'
  OBVIOUS
<1> USE DEF planning, progress, judged, outcome, world
<1>1. plan' \in Plans /\ bare' \in BOOLEAN
  BY DEF IInv, Typing, TypeOK, MakePlan, PlannerAnswers, Plans
<1>2. Typing'
  BY <1>1 DEF IInv, Typing, TypeOK, MakePlan
<1>3. 0 \in 0..Len(plan')
  BY <1>1, PlansAssumption DEF PlanIsSequence
<1>4. RunningSteps' /\ StaleVerdict'
  BY <1>3 DEF IInv, MakePlan, RunningSteps, StaleVerdict
<1>5. VerdictIsFresh'
  BY DEF IInv, Typing, TypeOK, MakePlan, PlannerAnswers, StaleVerdict, VerdictIsFresh
<1>6. ValidationIsAhead'
  BY DEF IInv, MakePlan, StaleVerdict, ValidationIsAhead
<1>7. (ContextVerdict /\ FinalFollows /\ Counting /\ RoundsAreUsed)'
  BY DEF IInv, MakePlan, ContextVerdict, FinalFollows, Counting, RoundsAreUsed
<1> QED
  BY <1>2, <1>4, <1>5, <1>6, <1>7 DEF IInv

LEMMA StartTierIInv == IInv /\ StartTier => IInv'
<1> SUFFICES ASSUME IInv, StartTier PROVE IInv'
  OBVIOUS
<1> USE DEF planning, progress, judged, outcome, execution, world
<1>1. IsFiniteSet(DOMAIN states')
  BY TierTypesFinite DEF IInv, Typing, TypeOK, StartTier
<1>2. Typing'
  BY <1>1, OrchestrationAssumption
  DEF IInv, Typing, TypeOK, StartTier, Running
<1>3. RunningSteps' /\ StaleVerdict'
  BY DEF IInv, StartTier, RunningSteps, StaleVerdict
<1>4. VerdictIsFresh' /\ ValidationIsAhead'
  BY DEF IInv, StartTier, VerdictIsFresh, ValidationIsAhead
<1>5. (ContextVerdict /\ FinalFollows /\ Counting /\ RoundsAreUsed)'
  BY DEF IInv, StartTier, ContextVerdict, FinalFollows, Counting, RoundsAreUsed
<1> QED
  BY <1>2, <1>3, <1>4, <1>5 DEF IInv

\* An attempt at a step changes nothing but the state of this step.
LEMMA StepIInv == IInv /\ Step => IInv'
<1> SUFFICES ASSUME IInv, Step PROVE IInv'
  OBVIOUS
<1> USE DEF planning, progress, judged, outcome, execution, world
<1>1. PICK t \in DOMAIN states : CompleteStep(t) \/ RetryStep(t) \/ FailStep(t)
  BY DEF Step
<1>2. /\ StepsRun
      /\ UNCHANGED <<pc, execution, world>>
      /\ DOMAIN states' = DOMAIN states
  BY <1>1 DEF CompleteStep, RetryStep, FailStep
<1>3. states' \in [DOMAIN states -> [status : {"running", "completed", "failed"},
                                     retry_count : 0..MaxRetries]]
  BY <1>1, OrchestrationAssumption
  DEF IInv, Typing, TypeOK, CompleteStep, RetryStep, FailStep, AttemptsLeft
<1>4. Typing'
  BY <1>2, <1>3 DEF IInv, Typing, TypeOK
<1>5. pc \in {"running", "fallbackReason", "fallbackValidate"}
  BY <1>2 DEF StepsRun
<1>6. (RunningSteps /\ StaleVerdict /\ VerdictIsFresh)'
  BY <1>2, <1>5 DEF IInv, RunningSteps, StaleVerdict, VerdictIsFresh
<1>7. ValidationIsAhead'
  BY <1>2, <1>5 DEF IInv, ValidationIsAhead
<1>8. (ContextVerdict /\ FinalFollows /\ Counting /\ RoundsAreUsed)'
  BY <1>2, <1>5 DEF IInv, ContextVerdict, FinalFollows, Counting, RoundsAreUsed
<1> QED
  BY <1>4, <1>6, <1>7, <1>8 DEF IInv

\* Validation is planned late (PlansAssumption), so the tier that validates is
\* not the first one, and no verdict is there yet: it is the only verdict.
LEMMA FinishTierIInv == IInv /\ FinishTier => IInv'
<1> SUFFICES ASSUME IInv, FinishTier PROVE IInv'
  OBVIOUS
<1> USE DEF planning, progress, judged, outcome, execution, world
<1> DEFINE validates == "validate" \in DOMAIN states
           reasons == "reason" \in DOMAIN states
<1>1. /\ pc = "running" /\ pc' = "save"
      /\ AllEnded
      /\ UNCHANGED <<states, planning, progress, outcome, world>>
  BY DEF FinishTier
<1>2. /\ plan \in Plans /\ tierNo \in 0..Len(plan)
      /\ DOMAIN states = TierTypes(plan, tierNo)
      /\ context \in [answer : Nat, validation : VerdictType \cup {NoVerdict}]
      /\ answers \in Nat /\ verdicts \in Nat
  BY <1>1 DEF IInv, Typing, TypeOK, RunningSteps
<1>3. validates => tierNo > 0 /\ ~reasons
  BY <1>2, PlansAssumption DEF ValidatesLate
<1>4. validates => context.validation = NoVerdict
  BY <1>1, <1>2, <1>3 DEF IInv, StaleVerdict
<1>5. PICK f \in Verdicts :
        context' =
          [answer |-> IF ~reasons THEN context.answer
                      ELSE IF Completed("reason") THEN answers + 1
                      ELSE NoAnswer,
           validation |-> IF ~validates THEN context.validation
                          ELSE IF Completed("validate") THEN Verdict(f, context.answer)
                          ELSE NoVerdict]
  BY DEF FinishTier
<1>6. /\ Verdict(f, context.answer) \in VerdictType
      /\ Verdict(f, context.answer) # NoVerdict
      /\ Verdict(f, context.answer).of = context.answer
      /\ \/ Verdict(f, context.answer).valid
         \/ Verdict(f, context.answer).passed < TotalChecks
  BY <1>2, VerdictTyping
<1>7. /\ answers' \in Nat /\ verdicts' \in Nat
      /\ context' \in [answer : Nat, validation : VerdictType \cup {NoVerdict}]
  BY <1>2, <1>5, <1>6 DEF FinishTier, NoAnswer
<1>8. Typing'
  BY <1>1, <1>7 DEF IInv, Typing, TypeOK
<1>9. /\ context'.answer = IF ~reasons THEN context.answer
                           ELSE IF Completed("reason") THEN answers + 1
                           ELSE NoAnswer
      /\ context'.validation =
           IF ~validates THEN context.validation
           ELSE IF Completed("validate") THEN Verdict(f, context.answer)
           ELSE NoVerdict
  BY <1>5
<1>10. verdicts' = IF validates /\ Completed("validate") THEN verdicts + 1 ELSE verdicts
  BY DEF FinishTier
<1>11. ContextVerdict'
  BY <1>4, <1>6, <1>9, <1>10 DEF IInv, ContextVerdict
<1>12. RunningSteps' /\ StaleVerdict'
  BY <1>1, <1>2 DEF IInv, RunningSteps, StaleVerdict, AllEnded, Ended
<1>13. FinalFollows'
  BY <1>1, <1>4, <1>9 DEF IInv, FinalFollows
<1>14. VerdictIsFresh'
  <2>1. CASE validates
    BY <1>1, <1>3, <1>6, <1>9, <2>1 DEF IInv, VerdictIsFresh
  <2>2. CASE ~validates /\ context.validation = NoVerdict
    BY <1>1, <1>9, <2>2 DEF IInv, VerdictIsFresh
  <2>3. CASE ~validates /\ context.validation # NoVerdict
    <3>1. tierNo = 0
      BY <1>1, <2>3 DEF IInv, StaleVerdict
    <3>2. ~bare => ~reasons
      BY <1>1, <1>2, <3>1 DEF IInv, VerdictIsFresh
    <3> QED
      BY <1>1, <1>9, <2>3, <3>2 DEF IInv, VerdictIsFresh
  <2> QED
    BY <2>1, <2>2, <2>3
<1>15. ValidationIsAhead'
  <2> SUFFICES ASSUME context'.validation = NoVerdict, ~allStates.failed,
                      \A t \in DOMAIN states : Completed(t),
                      NEW j \in 0..Len(plan), j <= tierNo
               PROVE  "validate" \notin TierTypes(plan, j)
    BY <1>1 DEF ValidationIsAhead, Completed
  <2>1. ~validates /\ context.validation = NoVerdict
    BY <1>6, <1>9
  <2>2. CASE j = tierNo
    BY <1>2, <2>1, <2>2
  <2>3. CASE j < tierNo
    BY <1>1, <2>1, <2>3 DEF IInv, ValidationIsAhead
  <2> QED
    BY <1>2, <2>2, <2>3
<1>16. (Counting /\ RoundsAreUsed)'
  BY <1>1 DEF IInv, Counting, RoundsAreUsed
<1> QED
  BY <1>8, <1>11, <1>12, <1>13, <1>14, <1>15, <1>16 DEF IInv

LEMMA SaveIInv == IInv /\ (SaveSnapshot \/ SaveFails) => IInv'
<1> SUFFICES ASSUME IInv, SaveSnapshot \/ SaveFails PROVE IInv'
  OBVIOUS
<1> USE DEF planning, progress, judged, outcome, execution, world
<1>1. /\ pc = "save" /\ pc' \in {"check", "aborted"}
      /\ snapshot' \in BOOLEAN
      /\ UNCHANGED <<states, execution, request>>
  BY OrchestrationAssumption DEF IInv, Typing, TypeOK, SaveSnapshot, SaveFails
<1>2. Typing'
  BY <1>1 DEF IInv, Typing, TypeOK
<1>3. (RunningSteps /\ StaleVerdict /\ VerdictIsFresh)'
  BY <1>1 DEF IInv, RunningSteps, StaleVerdict, VerdictIsFresh, AllEnded, Ended
<1>4. ValidationIsAhead'
  BY <1>1 DEF IInv, ValidationIsAhead, Completed
<1>5. (ContextVerdict /\ FinalFollows /\ Counting /\ RoundsAreUsed)'
  BY <1>1 DEF IInv, ContextVerdict, FinalFollows, Counting, RoundsAreUsed
<1> QED
  BY <1>2, <1>3, <1>4, <1>5 DEF IInv

\* After a tier its states are added to all_states.
LEMMA ExtendAllStatesTyping ==
  ASSUME Typing, ExtendAllStates
  PROVE  /\ allStates' \in [completed : Nat, failed : BOOLEAN]
         /\ states' \in [DOMAIN states' -> [status : {"running", "completed", "failed"},
                                           retry_count : 0..MaxRetries]]
         /\ IsFiniteSet(DOMAIN states')
         /\ ~allStates'.failed =>
              /\ ~allStates.failed
              /\ AllEnded => \A t \in DOMAIN states : Completed(t)
<1>1. IsFiniteSet({t \in DOMAIN states : Completed(t)})
  BY FS_Subset DEF Typing
<1>2. Cardinality({t \in DOMAIN states : Completed(t)}) \in Nat
  BY <1>1, FS_CardinalityType
<1>3. states' = [t \in {} |-> 0]
  BY DEF ExtendAllStates, NoTier
<1>4. IsFiniteSet(DOMAIN states')
  BY <1>3, FS_EmptySet
<1> DEFINE n == Cardinality({t \in DOMAIN states : Completed(t)})
           failed == allStates.failed \/ SomeFailed
<1>5. allStates' = [completed |-> allStates.completed + n, failed |-> failed]
  BY DEF ExtendAllStates
<1>6. failed \in BOOLEAN
  BY Zenon
<1>7. ~failed => /\ ~allStates.failed
                 /\ AllEnded => \A t \in DOMAIN states : Completed(t)
  BY DEF Typing, TypeOK, SomeFailed, AllEnded, Ended, Completed
<1>8. n \in Nat
  BY <1>2
<1> HIDE DEF n, failed
<1> QED
  BY <1>3, <1>4, <1>5, <1>6, <1>7, <1>8 DEF Typing, TypeOK

LEMMA ConvergeIInv == IInv /\ Converge => IInv'
<1> SUFFICES ASSUME IInv, Converge PROVE IInv'
  OBVIOUS
<1> USE DEF planning, progress, judged, world
<1>1. Typing'
  BY ExtendAllStatesTyping DEF IInv, Typing, TypeOK, Converge
<1>2. (ContextVerdict /\ RunningSteps /\ StaleVerdict /\ FinalFollows)'
  BY DEF IInv, Converge, ContextVerdict, RunningSteps, StaleVerdict, FinalFollows
<1>3. (VerdictIsFresh /\ ValidationIsAhead)'
  BY DEF IInv, Converge, VerdictIsFresh, ValidationIsAhead
<1>4. (Counting /\ RoundsAreUsed)'
  BY DEF IInv, Converge, Counting, RoundsAreUsed, Passes
<1> QED
  BY <1>1, <1>2, <1>3, <1>4 DEF IInv

LEMMA BelowThresholdIInv == IInv /\ BelowThreshold => IInv'
<1> SUFFICES ASSUME IInv, BelowThreshold PROVE IInv'
  OBVIOUS
<1> USE DEF planning, progress, judged, world
<1>1. Typing'
  BY ExtendAllStatesTyping DEF IInv, Typing, TypeOK, BelowThreshold
<1>2. (ContextVerdict /\ RunningSteps /\ StaleVerdict /\ FinalFollows)'
  BY DEF IInv, BelowThreshold, ContextVerdict, RunningSteps, StaleVerdict, FinalFollows
<1>3. (VerdictIsFresh /\ ValidationIsAhead)'
  BY DEF IInv, BelowThreshold, VerdictIsFresh, ValidationIsAhead
<1>4. (Counting /\ RoundsAreUsed)'
  BY DEF IInv, BelowThreshold, Counting, RoundsAreUsed, Passes
<1> QED
  BY <1>1, <1>2, <1>3, <1>4 DEF IInv

\* The loop over the tiers goes on only while there is no verdict.
LEMMA NoBreakWithoutVerdict ==
  IInv /\ NoBreak => context.validation = NoVerdict /\ finalValidation = NoVerdict
BY PassesOrHasIssues DEF IInv, Typing, TypeOK, ContextVerdict, FinalFollows, NoBreak

LEMMA NoBreakIInv == IInv /\ NoBreak => IInv'
<1> SUFFICES ASSUME IInv, NoBreak PROVE IInv'
  OBVIOUS
<1> USE DEF planning, judged, world
<1>1. context.validation = NoVerdict /\ finalValidation' = NoVerdict
  BY NoBreakWithoutVerdict DEF NoBreak
<1>2. /\ plan \in Plans /\ Len(plan) \in Nat /\ tierNo \in 0..Len(plan)
      /\ DOMAIN states = TierTypes(plan, tierNo)
  BY PlansAssumption DEF IInv, Typing, TypeOK, RunningSteps, NoBreak, PlanIsSequence
<1>3. \/ pc' = "tier" /\ tierNo' = tierNo + 1 /\ tierNo' \in 0..Len(plan)
      \/ pc' = "iterate" /\ tierNo' = tierNo /\ ~IsTier(plan, tierNo + 1)
  BY <1>2 DEF NoBreak, IsTier
<1>4. Typing'
  BY <1>1, <1>2, <1>3, ExtendAllStatesTyping DEF IInv, Typing, TypeOK, NoBreak
<1>5. (ContextVerdict /\ RunningSteps /\ StaleVerdict /\ FinalFollows)'
  BY <1>1, <1>3
  DEF IInv, NoBreak, ContextVerdict, RunningSteps, StaleVerdict, FinalFollows
<1>6. VerdictIsFresh'
  BY <1>1, <1>3 DEF IInv, NoBreak, VerdictIsFresh
<1>7. ValidationIsAhead'
  <2> SUFFICES ASSUME ~allStates'.failed PROVE ValidationIsAhead'
    BY DEF ValidationIsAhead
  <2>1. \A j \in 0..Len(plan) : j <= tierNo => "validate" \notin TierTypes(plan, j)
    BY <1>1, ExtendAllStatesTyping DEF IInv, NoBreak, ValidationIsAhead, RunningSteps
  <2>2. PICK k \in 0..Len(plan) :
          "validate" \in TierTypes(plan, k) /\ \A j \in 0..k : IsTier(plan, j)
    BY <1>2, PlansAssumption DEF ValidatesLate
  <2>3. tierNo + 1 \in 0..k
    BY <1>2, <2>1, <2>2
  <2>4. pc' = "tier" /\ tierNo' = tierNo + 1
    BY <1>3, <2>2, <2>3
  <2> QED
    BY <1>2, <2>1, <2>4 DEF NoBreak, ValidationIsAhead
<1>8. (Counting /\ RoundsAreUsed)'
  BY <1>1, <1>3 DEF IInv, NoBreak, Counting, RoundsAreUsed
<1> QED
  BY <1>4, <1>5, <1>6, <1>7, <1>8 DEF IInv

\* Another iteration: with the same plan, or with a new one.
LEMMA NextIterationIInv == IInv /\ (Continue \/ Replan) => IInv'
<1> SUFFICES ASSUME IInv, Continue \/ Replan PROVE IInv'
  OBVIOUS
<1> USE DEF progress, judged, outcome, world
<1>1. /\ pc = "iterate" /\ pc' = "tier"
      /\ iteration' = iteration + 1 /\ iteration' < maxIterations
      /\ iteration' \in Nat /\ maxIterations \in Nat
      /\ tierNo' = 0
      /\ UNCHANGED <<states, maxIterations, judged, outcome, world>>
  BY OrchestrationAssumption
  DEF IInv, Typing, TypeOK, Continue, Replan, MoreIterations, planning
<1>2. /\ plan' \in Plans /\ bare' \in BOOLEAN /\ replans' \in Nat
      /\ ~bare' => ~bare
  <2>1. CASE Continue
    BY <2>1 DEF IInv, Typing, TypeOK, Continue, planning
  <2>2. CASE Replan
    BY <2>2 DEF IInv, Typing, TypeOK, Replan, PlannerAnswers, Plans
  <2> QED
    BY <2>1, <2>2
<1>3. ~bare' => "reason" \notin TierTypes(plan', 0)
  BY <1>1 DEF IInv, VerdictIsFresh, Typing, TypeOK, Continue, Replan, PlannerAnswers, planning
<1>4. Typing'
  BY <1>1, <1>2 DEF IInv, Typing, TypeOK
<1>5. RunningSteps' /\ StaleVerdict'
  BY <1>1, <1>2, PlansAssumption DEF RunningSteps, StaleVerdict, PlanIsSequence
<1>6. (ContextVerdict /\ FinalFollows /\ Counting)'
  BY <1>1 DEF IInv, ContextVerdict, FinalFollows, Counting
<1>7. VerdictIsFresh'
  BY <1>1, <1>2, <1>3 DEF IInv, VerdictIsFresh
<1>8. ValidationIsAhead'
  BY <1>1 DEF IInv, ValidationIsAhead
<1>9. RoundsAreUsed'
  BY <1>1 DEF IInv, RoundsAreUsed
<1> QED
  BY <1>4, <1>5, <1>6, <1>7, <1>8, <1>9 DEF IInv

LEMMA StopIInv == IInv /\ (StopIterating \/ StartFallback) => IInv'
<1> SUFFICES ASSUME IInv, StopIterating \/ StartFallback PROVE IInv'
  OBVIOUS
<1> USE DEF planning, progress, judged, outcome, execution, world
<1>1. /\ pc = "iterate" /\ pc' \in {"report", "fallbackReason"}
      /\ iteration = maxIterations - 1
      /\ UNCHANGED <<execution, world>>
  BY OrchestrationAssumption
  DEF IInv, Typing, TypeOK, RoundsAreUsed, StopIterating, StartFallback, MoreIterations
<1>2. /\ pc' = "report" => finalValidation # NoVerdict /\ UNCHANGED states
      /\ pc' = "fallbackReason" =>
           finalValidation = NoVerdict /\ states' = [t \in {"reason"} |-> Running]
  BY DEF StopIterating, StartFallback
<1>3. Typing'
  <2>1. IsFiniteSet({"reason"})
    BY FS_Singleton
  <2> QED
    BY <1>1, <1>2, <2>1, OrchestrationAssumption DEF IInv, Typing, TypeOK, Running
<1>4. (ContextVerdict /\ RunningSteps /\ StaleVerdict /\ FinalFollows)'
  BY <1>1, <1>2 DEF IInv, ContextVerdict, RunningSteps, StaleVerdict, FinalFollows
<1>5. VerdictIsFresh' /\ ValidationIsAhead'
  BY <1>1, <1>2 DEF IInv, FinalFollows, VerdictIsFresh, ValidationIsAhead
<1>6. (Counting /\ RoundsAreUsed)'
  BY <1>1 DEF IInv, Counting, RoundsAreUsed
<1> QED
  BY <1>3, <1>4, <1>5, <1>6 DEF IInv

LEMMA FallbackAnswerIInv == IInv /\ FallbackAnswer => IInv'
<1> SUFFICES ASSUME IInv, FallbackAnswer PROVE IInv'
  OBVIOUS
<1> USE DEF planning, progress, outcome, world
<1>1. /\ answers' \in Nat
      /\ context' \in [answer : Nat, validation : VerdictType \cup {NoVerdict}]
      /\ context'.validation = context.validation
  BY DEF IInv, Typing, TypeOK, FallbackAnswer, NoAnswer
<1>2. Typing'
  <2>1. IsFiniteSet({"validate"})
    BY FS_Singleton
  <2> QED
    BY <1>1, <2>1, OrchestrationAssumption
    DEF IInv, Typing, TypeOK, FallbackAnswer, Running
<1>3. (ContextVerdict /\ RunningSteps /\ StaleVerdict /\ FinalFollows)'
  BY <1>1
  DEF IInv, FallbackAnswer, ContextVerdict, RunningSteps, StaleVerdict, FinalFollows
<1>4. VerdictIsFresh' /\ ValidationIsAhead'
  BY <1>1 DEF IInv, FallbackAnswer, FinalFollows, VerdictIsFresh, ValidationIsAhead
<1>5. (Counting /\ RoundsAreUsed)'
  BY DEF IInv, FallbackAnswer, Counting, RoundsAreUsed
<1> QED
  BY <1>2, <1>3, <1>4, <1>5 DEF IInv

LEMMA FallbackVerdictIInv == IInv /\ FallbackVerdict => IInv'
<1> SUFFICES ASSUME IInv, FallbackVerdict PROVE IInv'
  OBVIOUS
<1> USE DEF planning, progress, judged, world
<1>1. context.validation = NoVerdict /\ context.answer \in Nat
  BY DEF IInv, Typing, TypeOK, FinalFollows, FallbackVerdict
<1>2. /\ finalValidation' \in VerdictType
      /\ finalValidation' # NoVerdict
      /\ finalValidation' = DefaultVerdict \/ finalValidation'.of = context.answer
  BY <1>1, VerdictTyping, DefaultVerdictTyping DEF FallbackVerdict
<1>3. Typing'
  <2>1. states' = [t \in {} |-> 0] /\ IsFiniteSet(DOMAIN states')
    BY FS_EmptySet DEF FallbackVerdict, NoTier
  <2> QED
    BY <1>2, <2>1 DEF IInv, Typing, TypeOK, FallbackVerdict
<1>4. (ContextVerdict /\ RunningSteps /\ StaleVerdict /\ FinalFollows)'
  BY <1>1, <1>2
  DEF IInv, FallbackVerdict, ContextVerdict, RunningSteps, StaleVerdict, FinalFollows
<1>5. VerdictIsFresh' /\ ValidationIsAhead'
  BY <1>1, <1>2 DEF IInv, FallbackVerdict, VerdictIsFresh, ValidationIsAhead
<1>6. (Counting /\ RoundsAreUsed)'
  BY DEF IInv, FallbackVerdict, Counting, RoundsAreUsed
<1> QED
  BY <1>3, <1>4, <1>5, <1>6 DEF IInv

LEMMA ReportIInv == IInv /\ Report => IInv'
<1> SUFFICES ASSUME IInv, Report PROVE IInv'
  OBVIOUS
<1> USE DEF planning, progress, judged, world
<1>1. Typing'
  BY DEF IInv, Typing, TypeOK, Report
<1>2. (ContextVerdict /\ RunningSteps /\ StaleVerdict /\ FinalFollows)'
  BY DEF IInv, Report, ContextVerdict, RunningSteps, StaleVerdict, FinalFollows
<1>3. VerdictIsFresh' /\ ValidationIsAhead'
  BY DEF IInv, Report, VerdictIsFresh, ValidationIsAhead
<1>4. (Counting /\ RoundsAreUsed)'
  BY DEF IInv, Report, Counting, RoundsAreUsed
<1> QED
  BY <1>1, <1>2, <1>3, <1>4 DEF IInv

\* Every step of the system preserves the invariant.
THEOREM NextIInv == IInv /\ [Next]_vars => IInv'
<1> SUFFICES ASSUME IInv, [Next]_vars PROVE IInv'
  OBVIOUS
<1>1. CASE Submit
  BY <1>1, FreshIInv, OrchestrationAssumption DEF Submit
<1>2. CASE Resume
  BY <1>2, FreshIInv DEF Resume, IInv, Typing, TypeOK
<1>3. CASE Crash
  BY <1>3, FreshIInv DEF Crash, IInv, Typing, TypeOK
<1>4. CASE Execute
  BY <1>4, MakePlanIInv, StartTierIInv, StepIInv, FinishTierIInv, SaveIInv,
     ConvergeIInv, BelowThresholdIInv, NoBreakIInv, NextIterationIInv, StopIInv,
     FallbackAnswerIInv, FallbackVerdictIInv, ReportIInv
  DEF Execute
<1>5. CASE ExpireSnapshot \/ UNCHANGED vars
  <2> USE DEF planning, progress, judged, outcome, execution, world
  <2>1. UNCHANGED <<pc, states, execution, request>> /\ snapshot' \in BOOLEAN
    BY <1>5 DEF ExpireSnapshot, vars, IInv, Typing, TypeOK
  <2>2. Typing'
    BY <2>1 DEF IInv, Typing, TypeOK
  <2>3. (RunningSteps /\ StaleVerdict /\ VerdictIsFresh)'
    BY <2>1 DEF IInv, RunningSteps, StaleVerdict, VerdictIsFresh, AllEnded, Ended
  <2>4. ValidationIsAhead'
    BY <2>1 DEF IInv, ValidationIsAhead, Completed
  <2>5. (ContextVerdict /\ FinalFollows /\ Counting /\ RoundsAreUsed)'
    BY <2>1 DEF IInv, ContextVerdict, FinalFollows, Counting, RoundsAreUsed
  <2> QED
    BY <2>2, <2>3, <2>4, <2>5 DEF IInv
<1> QED
  BY <1>1, <1>2, <1>3, <1>4, <1>5 DEF Next

\* The invariant holds in every reachable state.
THEOREM Invariance == Spec => []IInv
BY InitIInv, NextIInv, PTL DEF Spec

-----------------------------------------------------------------------------
(***************************************************************************)
(* What follows for every instance                                         *)
(***************************************************************************)
\* The variables of execute keep their types.
THEOREM TypeCorrect == Spec => []TypeOK
<1>1. IInv => TypeOK
  BY DEF IInv, Typing
<1> QED
  BY <1>1, Invariance, PTL

\* However many iterations and plans an execution takes, its plans give at
\* most one verdict: the loop over the tiers reads a stale validation_result.
THEOREM AtMostOneVerdict == Spec => []OneVerdict
<1>1. IInv => OneVerdict
  BY DEF IInv, ContextVerdict, OneVerdict
<1> QED
  BY <1>1, Invariance, PTL

\* Unless a plan reasons in its first tier, the verdict returned with an answer
\* is about this answer.
THEOREM ReturnedVerdictJudgesAnswer == Spec => []VerdictJudgesAnswer
<1>1. IInv => VerdictJudgesAnswer
  BY DEF IInv, FinalFollows, VerdictIsFresh, VerdictJudgesAnswer
<1> QED
  BY <1>1, Invariance, PTL

\* A run that _update_metrics counts as successful has a verdict from its plan.
THEOREM SuccessfulRunsAreJudged == Spec => []SuccessIsJudged
<1>1. IInv => SuccessIsJudged
  <2> SUFFICES ASSUME IInv, counted = "successful_runs"
               PROVE  verdicts > 0 /\ finalValidation = context.validation
    BY DEF SuccessIsJudged
  <2>1. pc = "answered" /\ ~allStates.failed
    BY DEF IInv, Counting
  <2>2. context.validation # NoVerdict
    BY <2>1 DEF IInv, ValidationIsAhead
  <2> QED
    BY <2>1, <2>2 DEF IInv, ContextVerdict, FinalFollows
<1> QED
  BY <1>1, Invariance, PTL

-----------------------------------------------------------------------------
(***************************************************************************)
(* Orchestration implements QueryService, liveness apart                   *)
(***************************************************************************)
\* The verdict as QueryService sees it.
TheVerdict == IF context.validation # NoVerdict THEN context.validation
                                                ELSE finalValidation
ThePhase == IF Working THEN "working" ELSE pc

\* The initial states map to initial states.
THEOREM InitRefines == Init => Q!Init
BY OrchestrationAssumption DEF Init, Q!Init, Working

\* Steps that QueryService does not see: nothing it knows of changes.
LEMMA StutteringSteps ==
  ASSUME IInv,
         \/ MakePlan \/ StartTier \/ Step \/ SaveSnapshot \/ Converge
         \/ BelowThreshold \/ NoBreak \/ StopIterating \/ StartFallback
         \/ FallbackAnswer \/ ExpireSnapshot \/ UNCHANGED vars
  PROVE  UNCHANGED Q!vars
<1> USE DEF planning, progress, judged, outcome, execution, world
<1>1. UNCHANGED <<maxIterations, iteration>>
  BY DEF MakePlan, StartTier, Step, CompleteStep, RetryStep, FailStep, SaveSnapshot,
     Converge, BelowThreshold, NoBreak, StopIterating, StartFallback, FallbackAnswer,
     ExpireSnapshot, vars
<1>2. ThePhase' = ThePhase
  BY DEF ThePhase, Working, MakePlan, StartTier, Step, StepsRun, CompleteStep, RetryStep,
     FailStep, SaveSnapshot, Converge, BelowThreshold, NoBreak, StopIterating,
     StartFallback, FallbackAnswer, ExpireSnapshot, vars
<1>3. TheVerdict' = TheVerdict
  <2>1. CASE NoBreak
    BY <2>1, NoBreakWithoutVerdict DEF TheVerdict, NoBreak
  <2>2. CASE Converge \/ BelowThreshold
    BY <2>2 DEF TheVerdict, Converge, BelowThreshold
  <2>3. CASE FallbackAnswer
    BY <2>3 DEF TheVerdict, FallbackAnswer, IInv, Typing, TypeOK
  <2>4. CASE \/ MakePlan \/ StartTier \/ Step \/ SaveSnapshot
             \/ StopIterating \/ StartFallback \/ ExpireSnapshot \/ UNCHANGED vars
    BY <2>4
    DEF TheVerdict, MakePlan, StartTier, Step, CompleteStep, RetryStep, FailStep,
        SaveSnapshot, StopIterating, StartFallback, ExpireSnapshot, vars
  <2> QED
    BY <2>1, <2>2, <2>3, <2>4
<1> QED
  BY <1>1, <1>2, <1>3 DEF Q!vars, ThePhase, TheVerdict

\* The tier that validates judges the query, the others judge nothing.
LEMMA FinishTierJudges ==
  ASSUME IInv, FinishTier
  PROVE  Q!Judge \/ UNCHANGED Q!vars
<1> USE DEF planning, progress, judged, outcome, world
<1>1. /\ pc = "running" /\ pc' = "save"
      /\ finalValidation' = finalValidation /\ finalValidation = context.validation
      /\ UNCHANGED <<maxIterations, iteration>>
  BY DEF IInv, FinalFollows, FinishTier
<1>2. context.answer \in Nat
  BY DEF IInv, Typing, TypeOK
<1>3. CASE "validate" \in DOMAIN states /\ Completed("validate")
  <2>1. context.validation = NoVerdict
    <3>1. tierNo \in 0..Len(plan) /\ tierNo > 0
      BY <1>1, <1>3, PlansAssumption
      DEF IInv, Typing, TypeOK, RunningSteps, ValidatesLate
    <3> QED
      BY <1>1, <3>1 DEF IInv, StaleVerdict
  <2>2. PICK f \in Verdicts : context'.validation = Verdict(f, context.answer)
    BY <1>3 DEF FinishTier
  <2>3. context'.validation \in VerdictType /\ context'.validation # NoVerdict
    BY <1>2, <2>2, VerdictTyping
  <2> QED
    BY <1>1, <2>1, <2>3 DEF Q!Judge, Working
<1>4. CASE "validate" \in DOMAIN states /\ ~Completed("validate")
  <2>1. tierNo \in 0..Len(plan) /\ tierNo > 0
    BY <1>1, <1>4, PlansAssumption
    DEF IInv, Typing, TypeOK, RunningSteps, ValidatesLate
  <2>2. context.validation = NoVerdict
    BY <1>1, <2>1 DEF IInv, StaleVerdict
  <2>3. context'.validation = NoVerdict
    BY <1>4 DEF FinishTier
  <2> QED
    BY <1>1, <2>2, <2>3 DEF Q!vars, Working
<1>5. CASE "validate" \notin DOMAIN states
  <2>1. context'.validation = context.validation
    BY <1>5 DEF FinishTier
  <2> QED
    BY <1>1, <2>1 DEF Q!vars, Working
<1> QED
  BY <1>3, <1>4, <1>5

\* Every step maps to a step of QueryService or to a stutter.
THEOREM StepRefines == IInv /\ [Next]_vars => [Q!Next]_(Q!vars)
<1> SUFFICES ASSUME IInv, [Next]_vars PROVE Q!Next \/ UNCHANGED Q!vars
  OBVIOUS
<1> USE DEF planning, progress, judged, outcome, execution, world
<1>1. CASE \/ MakePlan \/ StartTier \/ Step \/ SaveSnapshot \/ Converge
           \/ BelowThreshold \/ NoBreak \/ StopIterating \/ StartFallback
           \/ FallbackAnswer \/ ExpireSnapshot \/ UNCHANGED vars
  BY <1>1, StutteringSteps
<1>2. CASE Submit \/ Resume
  BY <1>2 DEF Submit, Resume, Fresh, Working, Q!Next, Q!Accept
<1>3. CASE Crash
  BY <1>3 DEF Crash, Fresh, Working, Q!Next, Q!Fail
<1>4. CASE SaveFails
  BY <1>4 DEF SaveFails, Working, Q!Next, Q!Fail, IInv, Typing, TypeOK
<1>5. CASE FinishTier
  BY <1>5, FinishTierJudges DEF Q!Next
<1>6. CASE FallbackVerdict
  <2>1. context.validation = NoVerdict /\ finalValidation = NoVerdict
    BY <1>6 DEF IInv, FinalFollows, FallbackVerdict
  <2>2. context.answer \in Nat
    BY DEF IInv, Typing, TypeOK
  <2>3. finalValidation' \in VerdictType
    BY <1>6, <2>2, VerdictTyping, DefaultVerdictTyping DEF FallbackVerdict
  <2> QED
    BY <1>6, <2>1, <2>3 DEF FallbackVerdict, Working, Q!Next, Q!Judge
<1>7. CASE Continue \/ Replan
  <2>1. ~(TheVerdict \in {v \in VerdictType : Passes(v)})
    BY <1>7, OrchestrationAssumption
    DEF TheVerdict, IInv, FinalFollows, RoundsAreUsed, Continue, Replan
  <2>2. iteration # maxIterations - 1
    BY <1>7 DEF Continue, Replan, MoreIterations, IInv, Typing, TypeOK
  <2> QED
    BY <1>7, <2>1, <2>2
    DEF Continue, Replan, Working, TheVerdict, Q!Next, Q!NextRound, Q!LastRound
<1>8. CASE Report
  <2>1. TheVerdict = finalValidation /\ finalValidation # NoVerdict
    BY <1>8 DEF TheVerdict, IInv, FinalFollows, Report
  <2>2. finalValidation \in VerdictType
    BY <2>1 DEF IInv, Typing, TypeOK
  <2>3. Passes(finalValidation) \/ iteration = maxIterations - 1
    BY <1>8 DEF IInv, RoundsAreUsed, Report
  <2> QED
    BY <1>8, <2>1, <2>2, <2>3
    DEF Report, Working, TheVerdict, Q!Next, Q!Answer, Q!LastRound
<1> QED
  BY <1>1, <1>2, <1>3, <1>4, <1>5, <1>6, <1>7, <1>8 DEF Next, Execute

\* Every execution is one that QueryService allows: a verdict is given at most
\* once, an early end needs a passing verdict, the rounds are bounded.
THEOREM SafetyRefinement == Spec => Q!Init /\ [][Q!Next]_(Q!vars)
BY InitRefines, StepRefines, Invariance, PTL DEF Spec

=============================================================================
