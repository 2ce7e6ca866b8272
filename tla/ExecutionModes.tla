--------------------------- MODULE ExecutionModes ---------------------------
(***************************************************************************)
(* The modes of OrchestrationEngine (agents/orchestration.py) that do not  *)
(* execute a plan in tiers: execute_streaming and execute_recursive take   *)
(* its steps one after the other, execute_branching takes all steps of     *)
(* several plans at once.  A behaviour is one call of one of the modes.    *)
(*                                                                         *)
(* An answer is the number of the round that wrote it: the execution of a  *)
(* plan from its first step, by an iteration, a recursive call or a        *)
(* branch.  The attempts of a step are one action, for nothing they share  *)
(* changes between them.                                                   *)
(*                                                                         *)
(* Left out: texts, the events of the stream but their order, the metrics, *)
(* and the query of each call; execute, which branching ends with, either  *)
(* returns or raises (QueryService).                                       *)
(***************************************************************************)
EXTENDS Integers, FiniteSets, SequencesExt

CONSTANTS
  Plans,           \* plans of the planner, as sequences of step types
  MayFail,         \* step types whose agent may raise; "plan" for the planner
  MayRevise,       \* step types whose result may ask for a revision
  MaxIterations,   \* max_iterations
  Depth,           \* depth of execute_recursive
  Branches,        \* branches of execute_branching
  MaxSubQueries    \* sub-queries the LLM may find

\* Every plan validates after it has reasoned, in the order of its steps.
ASSUME ModesAssumption ==
  /\ \A p \in Plans :
       /\ p \in Seq(STRING) /\ p # <<>>
       /\ \A i \in DOMAIN p : p[i] = "validate" => \E j \in 1..i - 1 : p[j] = "reason"
  /\ {MaxIterations, Depth, Branches} \subseteq Nat \ {0} /\ MaxSubQueries \in Nat

VARIABLES
  mode,        \* the method that was called
  at,          \* where it is
  iteration,   \* of execute_streaming
  plans,       \* plans made
  rounds,      \* rounds begun
  stack,       \* the round of each _recursive_execute that has not returned;
               \* of execute_streaming the last one
  branches,    \* the round of each branch
  context,     \* reason_result and retrieval_results: the rounds they are from
  verdicts     \* history: the round of each verdict, and that of its answer

modesVars == <<mode, at, iteration, plans, rounds, stack, branches, context, verdicts>>

NoRound == 0

\* plan: its number; states: those of the steps that have ended; left:
\* remaining_depth; subs: sub-queries that have not been executed
Round(no, plan, steps, left) ==
  [no |-> no, plan |-> plan, steps |-> steps, states |-> <<>>,
   left |-> left, subs |-> 0]

NoBranch == [at |-> "new", round |-> Round(NoRound, 0, <<>>, 0)]

ModesInit ==
  /\ mode = "none" /\ at = "idle"
  /\ iteration = 0 /\ plans = 0 /\ rounds = 0
  /\ stack = <<>>
  /\ branches = [b \in 1..Branches |-> NoBranch]
  /\ context = [reason_result |-> NoRound, retrieval_results |-> {}]
  /\ verdicts = {}

Call ==
  /\ at = "idle"
  /\ mode' \in {"streaming", "recursive", "branching"}
  /\ at' = IF mode' = "branching" THEN "branching" ELSE "planning"
  /\ UNCHANGED <<iteration, plans, rounds, stack, branches, context, verdicts>>

-----------------------------------------------------------------------------
(* The states of steps. *)

\* What a step may come to.  Tools may be none and an answer may be empty,
\* the other results are not.
Outcomes(type) ==
  [type : {type}, status : {"completed"}, truthy : IF type \in {"tool", "reason"} THEN BOOLEAN ELSE {TRUE},
   revise : IF type \in MayRevise THEN BOOLEAN ELSE {FALSE}]
  \cup [type : {type} \cap MayFail, status : {"failed"}, truthy : {FALSE}, revise : {FALSE}]

Failed(states) == \E i \in DOMAIN states : states[i].status = "failed"

\* _aggregate_results: the types of steps it has a result of
Aggregated(states) == {states[i].type : i \in {j \in DOMAIN states : states[j].truthy}}

RevisionNeeded(states) == Failed(states) \/ \E i \in DOMAIN states : states[i].revise

ShouldRevise(round) ==
  \/ Failed(round.states)
  \/ 2 * Cardinality({i \in DOMAIN round.states : round.states[i].status = "completed"})
       < Len(round.steps)

-----------------------------------------------------------------------------
(* Plans in sequence. *)

Top == Last(stack)

\* Mutant: all iterations plan again.
AlwaysReplans == TRUE

\* iteration < max_iterations - 1
MayReplan == iteration < MaxIterations - 1

\* The planner returns, and the loop over the iterations or the recursive call
\* executes its plan.
MakePlan ==
  /\ at = "planning"
  /\ plans' = plans + 1
  /\ IF mode = "streaming" /\ iteration = MaxIterations
     THEN at' = "answering" /\ UNCHANGED <<rounds, stack>>
     ELSE \E p \in Plans :
            /\ at' = "executing" /\ rounds' = rounds + 1
            /\ stack' = IF mode = "streaming" \/ stack = <<>>
                        THEN <<Round(rounds', plans', p, Depth)>>
                        ELSE Append(stack, Round(rounds', plans', p, Top.left - 1))
  /\ UNCHANGED <<mode, iteration, branches, context, verdicts>>

PlannerRaises ==
  /\ at = "planning" /\ "plan" \in MayFail
  /\ at' = "raised"
  /\ UNCHANGED <<mode, iteration, plans, rounds, stack, branches, context, verdicts>>

\* Mutant: the steps go on after one that failed.
GoesOn(state) == FALSE

\* `if state.status == StepStatus.FAILED: break`
Stops(state) == state.status = "failed"

\* A step is executed, and what it returns is put in the context.
ExecuteStep ==
  LET i == Len(Top.states) + 1
      type == Top.steps[i]
  IN /\ at = "executing"
     /\ \E state \in Outcomes(type) :
          /\ stack' = [stack EXCEPT ![Len(stack)].states = Append(@, state)]
          /\ at' = IF Stops(state) \/ i = Len(Top.steps) THEN "deciding" ELSE "executing"
          /\ IF type = "reason" /\ state.status = "completed"
             THEN context' = [context EXCEPT !.reason_result = Top.no] ELSE UNCHANGED context
          /\ IF type = "validate" /\ state.status = "completed"
             THEN verdicts' = verdicts \cup {[of |-> context.reason_result, by |-> Top.no]}
             ELSE UNCHANGED verdicts
     /\ UNCHANGED <<mode, iteration, plans, rounds, branches>>

-----------------------------------------------------------------------------
(* execute_streaming *)

\* The end of an iteration: its results replace those of the one before.
Gather ==
  /\ at = "deciding" /\ mode = "streaming"
  /\ context' = [context EXCEPT !.retrieval_results =
                   IF Aggregated(Top.states) = {} THEN {} ELSE {Top.no}]
  /\ UNCHANGED <<mode, branches, plans, verdicts>>

\* plan_revised
Revise ==
  /\ Gather /\ RevisionNeeded(Top.states) /\ ShouldRevise(Top) /\ MayReplan
  /\ at' = "planning" /\ iteration' = iteration + 1
  /\ UNCHANGED <<rounds, stack>>

\* The same plan again.
Repeat ==
  /\ Gather /\ RevisionNeeded(Top.states) /\ ~ShouldRevise(Top)
  /\ iteration + 1 < MaxIterations
  /\ at' = "executing" /\ iteration' = iteration + 1 /\ rounds' = rounds + 1
  /\ stack' = <<Round(rounds', Top.plan, Top.steps, Top.left)>>

Converge ==
  /\ Gather
  /\ ~RevisionNeeded(Top.states) \/ (iteration + 1 = MaxIterations /\ ~(ShouldRevise(Top) /\ MayReplan))
  /\ at' = "answering"
  /\ UNCHANGED <<iteration, rounds, stack>>

\* The answer is generated from the context, or is "No response".
Answer ==
  /\ at = "answering" /\ at' = "ended"
  /\ UNCHANGED <<mode, iteration, plans, rounds, stack, branches, context, verdicts>>

-----------------------------------------------------------------------------
(* execute_recursive *)

\* Mutant: all sub-queries are executed.
AllOf(n) == n

\* sub_queries[:2]
FirstTwo(n) == IF n < 2 THEN n ELSE 2

\* _extract_sub_queries finds some only in the text of an answer.
Descend ==
  /\ at = "deciding" /\ mode = "recursive"
  /\ "reason" \in Aggregated(Top.states) /\ Top.left > 1
  /\ \E n \in 1..MaxSubQueries : stack' = [stack EXCEPT ![Len(stack)].subs = FirstTwo(n)]
  /\ at' = "planning"
  /\ UNCHANGED <<mode, iteration, plans, rounds, branches, context, verdicts>>

\* A recursive call returns to the one that waits for it, which goes on to its
\* next sub-query or returns in turn.
Return ==
  /\ at \in {"deciding", "returning"} /\ mode = "recursive"
  /\ stack' = LET callers == Front(stack) IN
              IF callers = <<>> THEN <<>>
              ELSE [callers EXCEPT ![Len(callers)].subs = @ - 1]
  /\ at' = IF stack' = <<>> THEN "ended" ELSE IF Last(stack').subs > 0 THEN "planning" ELSE "returning"
  /\ UNCHANGED <<mode, iteration, plans, rounds, branches, context, verdicts>>

-----------------------------------------------------------------------------
(* execute_branching *)

\* _execute_branch makes its own plan.
PlanBranch(b) ==
  /\ at = "branching" /\ branches[b].at = "new"
  /\ \/ /\ plans' = plans + 1 /\ rounds' = rounds + 1
        /\ \E p \in Plans :
             branches' = [branches EXCEPT ![b] =
                            [at |-> "executing", round |-> Round(rounds', plans', p, 0)]]
     \/ /\ "plan" \in MayFail
        /\ branches' = [branches EXCEPT ![b].at = "raised"]
        /\ UNCHANGED <<plans, rounds>>
  /\ UNCHANGED <<mode, at, iteration, stack, context, verdicts>>

\* A step ends: all of a branch run at once (_execute_plan_parallel), and what
\* they return is put in its context when the last has ended.  None sees
\* another, so they may as well end in the order of the plan.
BranchStep(b) ==
  LET round == branches[b].round
      i == Len(round.states) + 1
  IN
  /\ at = "branching" /\ branches[b].at = "executing"
  /\ \E state \in Outcomes(round.steps[i]) :
       /\ branches' = [branches EXCEPT
            ![b].round.states = Append(@, state),
            ![b].at = IF i = Len(round.steps) THEN "returned" ELSE "executing"]
       /\ IF state.type = "validate" /\ state.status = "completed"
          THEN verdicts' = verdicts \cup {[of |-> context.reason_result, by |-> round.no]}
          ELSE UNCHANGED verdicts
  /\ UNCHANGED <<mode, at, iteration, plans, rounds, stack, context>>

\* _merge_branch_results joins the answers and the results of tools of all
\* branches that returned, the first five, to a query.  A result of a tool is
\* no text: join raises.
Merge ==
  LET Of(type) == {b \in 1..Branches : branches[b].at = "returned"
                                       /\ type \in Aggregated(branches[b].round.states)}
      raises == \E b \in Of("tool") : Cardinality({c \in Of("reason") : c < b}) < 5
  IN /\ at = "branching" /\ \A b \in 1..Branches : branches[b].at \in {"returned", "raised"}
     /\ at' = IF raises THEN "raised" ELSE "merged"
     /\ UNCHANGED <<mode, iteration, plans, rounds, stack, branches, context, verdicts>>

\* execute, with the merged query
ExecuteMerged ==
  /\ at = "merged" /\ at' \in {"ended", "raised"}
  /\ UNCHANGED <<mode, iteration, plans, rounds, stack, branches, context, verdicts>>

Continue ==
  \/ MakePlan \/ PlannerRaises \/ ExecuteStep
  \/ Revise \/ Repeat \/ Converge \/ Answer
  \/ Descend \/ Return
  \/ \E b \in 1..Branches : PlanBranch(b) \/ BranchStep(b)
  \/ Merge \/ ExecuteMerged

ModesNext == Call \/ Continue

\* A call that was made goes on while it can.
ModesFairness == WF_modesVars(Continue)

ModesSpec == ModesInit /\ [][ModesNext]_modesVars /\ ModesFairness

-----------------------------------------------------------------------------
(* Properties. *)

\* One step after the other, the validator judges the answer of its own
\* iteration or recursive call, never one that an earlier round left in the
\* context; all at once, it judges no answer of another branch, and in fact
\* none: reason_result is written after all steps (_execute_plan_sequential,
\* execute_streaming, _execute_plan_parallel).
VerdictIsOwn ==
  \A v \in verdicts : v.of = IF mode = "branching" THEN NoRound ELSE v.by

\* The plan the stream announced last is the one whose last execution the
\* results are from that the answer is generated from (execute_streaming).
AnswerIsOfLastPlan ==
  mode = "streaming" /\ at = "answering" =>
    Top.plan = plans /\ context.retrieval_results \subseteq {rounds}

\* A stream executes at most max_iterations plans.  The recursive calls are no
\* more than a binary tree has nodes, whatever the LLM finds in the answers,
\* and never deeper than asked (_recursive_execute).
WorkIsBounded ==
  /\ mode = "streaming" => rounds <= MaxIterations
  /\ mode = "recursive" => rounds <= 2 ^ Depth - 1 /\ Len(stack) <= Depth

\* Every call of a mode returns or raises.
ModesEnd == []<>(at \in {"idle", "ended", "raised"})
=============================================================================
