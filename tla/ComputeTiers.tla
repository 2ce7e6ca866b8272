---------------------------- MODULE ComputeTiers ----------------------------
(***************************************************************************)
(* The loop of OrchestrationEngine._compute_tiers: a scan over the steps   *)
(* of a plan that builds in_degree and adjacency, then Kahn's algorithm    *)
(* with one queue per wave, then the tier for what a cycle left over.      *)
(*                                                                         *)
(* The code takes the types of a wave in a fixed order; here any order is  *)
(* possible, which shows that the tiers do not depend on it.               *)
(***************************************************************************)
EXTENDS Tiers

CONSTANT StepLists     \* the lists of steps _compute_tiers is called with

ASSUME PlansAssumption == \A p \in StepLists : PlanIsSequence(p)

VARIABLES
  pc,            \* "scan", "wave", "group" or "done"
  steps,         \* the argument
  pos,           \* index of the step the scan reads next
  stepByType,    \* type -> index of the step kept for it, 0 before any
  inDegree,      \* type -> dependencies not processed yet
  adjacency,     \* type -> type -> number of entries in the list
  queue,         \* types of the current wave still to be taken
  nextQueue,     \* types of the next wave
  tier,          \* type -> its tier, or Unplaced
  currentTier

vars == <<pc, steps, pos, stepByType, inDegree, adjacency, queue, nextQueue,
          tier, currentTier>>

Unplaced == -1

Types == TypesOf(steps)

Init ==
  /\ pc = "scan"
  /\ steps \in StepLists
  /\ pos = 1
  /\ stepByType = [t \in Types |-> 0]
  /\ inDegree = [t \in Types |-> 0]
  /\ adjacency = [d \in Types |-> [t \in Types |-> 0]]
  /\ queue = {}
  /\ nextQueue = {}
  /\ tier = [t \in Types |-> Unplaced]
  /\ currentTier = 0

\* One round of "for step in steps".
ScanStep ==
  /\ pc = "scan"
  /\ pos <= Len(steps)
  /\ LET t    == steps[pos].step_type
         deps == RelevantDeps(steps, pos)
     IN  /\ stepByType' = [stepByType EXCEPT ![t] = pos]
         /\ inDegree' = [inDegree EXCEPT ![t] = Cardinality(deps)]
         /\ adjacency' = [d \in Types |->
                            IF d \in deps
                              THEN [adjacency[d] EXCEPT ![t] = @ + 1]
                              ELSE adjacency[d]]
  /\ pos' = pos + 1
  /\ UNCHANGED <<pc, steps, queue, nextQueue, tier, currentTier>>

\* Mutant: the queue starts with too much.
SeedQueueEarly ==
  /\ pc = "scan"
  /\ pos > Len(steps)
  /\ queue' = {t \in Types : inDegree[t] <= 1}
  /\ pc' = IF queue' = {} THEN "group" ELSE "wave"
  /\ UNCHANGED <<steps, pos, stepByType, inDegree, adjacency, nextQueue, tier,
                 currentTier>>

\* The queue starts with the types without dependencies.
SeedQueue ==
  /\ pc = "scan"
  /\ pos > Len(steps)
  /\ queue' = {t \in Types : inDegree[t] = 0}
  /\ pc' = IF queue' = {} THEN "group" ELSE "wave"
  /\ UNCHANGED <<steps, pos, stepByType, inDegree, adjacency, nextQueue, tier,
                 currentTier>>

\* What is left of u's in-degree once t is processed.
InDegreeAfter(t, u) == inDegree[u] - adjacency[t][u]

\* The neighbours that a decrement takes from above 0 to 0.
NewlyFree(t) == {u \in Types : inDegree[u] > 0 /\ InDegreeAfter(t, u) <= 0}

\* Mutant: a type is not taken out of the queue.
StillQueuedAll(t) == queue

StillQueued(t) == queue \ {t}

\* One round of "for step_type in queue", with its loop over the neighbours.
PlaceType(t) ==
  /\ pc = "wave"
  /\ t \in queue
  /\ tier' = [tier EXCEPT ![t] = currentTier]
  /\ inDegree' = [u \in Types |-> InDegreeAfter(t, u)]
  /\ nextQueue' = nextQueue \cup NewlyFree(t)
  /\ queue' = StillQueued(t)
  /\ UNCHANGED <<pc, steps, pos, stepByType, adjacency, currentTier>>

\* Mutant: current_tier is not incremented.
TierAfterSame == currentTier

TierAfter == currentTier + 1

\* The end of a round of "while queue".
NextWave ==
  /\ pc = "wave"
  /\ queue = {}
  /\ queue' = nextQueue
  /\ nextQueue' = {}
  /\ currentTier' = TierAfter
  /\ pc' = IF nextQueue = {} THEN "group" ELSE "wave"
  /\ UNCHANGED <<steps, pos, stepByType, inDegree, adjacency, tier>>

\* Cycle detection: what no wave placed goes to the tier after the last.
FinalTier(t) == IF tier[t] = Unplaced THEN currentTier ELSE tier[t]

PlaceUnplaced ==
  /\ pc = "group"
  /\ tier' = [t \in Types |-> FinalTier(t)]
  /\ pc' = "done"
  /\ UNCHANGED <<steps, pos, stepByType, inDegree, adjacency, queue, nextQueue,
                 currentTier>>

\* The call has returned.
Returned == pc = "done" /\ UNCHANGED vars

Next ==
  \/ ScanStep
  \/ SeedQueue
  \/ \E t \in queue : PlaceType(t)
  \/ NextWave
  \/ PlaceUnplaced
  \/ Returned

Spec == Init /\ [][Next]_vars /\ WF_vars(Next)

-----------------------------------------------------------------------------
(***************************************************************************)
(* Properties                                                              *)
(***************************************************************************)
\* The types of the variables while _compute_tiers runs; when it returns, every
\* type has a tier.
TypeOK ==
  /\ pc \in {"scan", "wave", "group", "done"}
  /\ steps \in StepLists
  /\ pos \in 1 .. Len(steps) + 1
  /\ stepByType \in [Types -> 0 .. Len(steps)]
  /\ inDegree \in [Types -> Int]
  /\ adjacency \in [Types -> [Types -> Nat]]
  /\ queue \subseteq Types
  /\ nextQueue \subseteq Types
  /\ tier \in [Types -> Nat \cup (IF pc = "done" THEN {} ELSE {Unplaced})]
  /\ currentTier \in Nat

\* No type occurs twice in the plan.
DistinctTypes ==
  \A i, j \in DOMAIN steps : steps[i].step_type = steps[j].step_type => i = j

\* The dependencies of the step that is kept for t.
KeptDeps(t) == RelevantDeps(steps, IndexOfType(steps, t))

\* Placed by a wave, so not one of the types a cycle left over.
InWave(t) == tier[t] # Unplaced /\ (pc = "done" => tier[t] < currentTier)

\* _execute_tier runs a tier after the tiers below it ("each subsequent tier
\* represents one level of dependency resolution"): in a plan whose types are
\* distinct, every dependency of a type that a wave placed is in a lower tier.
DependenciesFirst ==
  DistinctTypes =>
    \A t \in Types : InWave(t) =>
      \A d \in KeptDeps(t) : InWave(d) /\ tier[d] < tier[t]

\* The code warns "Dependency cycle detected" for the types no wave placed: in
\* a plan whose types are distinct each of them waits for another of them, so
\* the waves never give up on a type that could still be placed.
OnlyCyclesAreLeft ==
  DistinctTypes /\ pc = "done" =>
    \A t \in Types : tier[t] = currentTier =>
      \E d \in KeptDeps(t) : tier[d] = currentTier

\* The loop computes exactly the tiers of module Tiers, for every list of
\* steps (duplicates and cycles included) and every order within a wave.
LoopComputesTiers ==
  pc = "done" =>
    /\ {tier[t] : t \in Types} = {k \in 0 .. Len(steps) : IsTier(steps, k)}
    /\ \A t \in Types : t \in TierTypes(steps, tier[t])

\* _compute_tiers terminates: the decrements never queue a type twice.
Terminates == <>[](pc = "done")

=============================================================================
