------------------------------- MODULE Tiers -------------------------------
(***************************************************************************)
(* The tiers in which OrchestrationEngine executes the steps of a plan     *)
(* (agents/orchestration.py, _compute_tiers), as a definition: what Kahn's *)
(* algorithm computes, without its loop.  Module ComputeTiers has the loop *)
(* and shows that it computes these tiers.                                 *)
(*                                                                         *)
(* A plan is a sequence of steps.  The algorithm works on step TYPES: of   *)
(* several steps with one type only the last is ever scheduled, but all of *)
(* them take part in counting dependencies.                                *)
(***************************************************************************)
EXTENDS Integers, Sequences, FiniteSets

(***************************************************************************)
(* A step declares the types it depends on; depends_on is modelled as a    *)
(* set, since every list the planner writes is free of duplicates.         *)
(***************************************************************************)
PlanIsSequence(steps) == Len(steps) \in Nat /\ DOMAIN steps = 1 .. Len(steps)

TypesOf(steps) == {steps[i].step_type : i \in DOMAIN steps}

\* _FALLBACK_DEPENDENCIES.get(step_type, [])
FallbackDependencies(t) ==
  CASE t = "analyze"  -> {"retrieve", "tool"}
    [] t = "reason"   -> {"analyze"}
    [] t = "validate" -> {"reason"}
    [] OTHER          -> {}

\* An empty list is false in Python, so a step that declares no dependency
\* gets the fallback of its type.
Dependencies(step) ==
  IF step.depends_on # {} THEN step.depends_on
                          ELSE FallbackDependencies(step.step_type)

\* relevant_deps: the dependencies that the plan has a step for.
RelevantDeps(steps, i) == Dependencies(steps[i]) \cap TypesOf(steps)

\* step_by_type: the later of two steps of one type overwrites the earlier.
IndexOfType(steps, t) ==
  CHOOSE i \in DOMAIN steps :
    /\ steps[i].step_type = t
    /\ \A j \in DOMAIN steps : steps[j].step_type = t => j <= i

StepOfType(steps, t) == steps[IndexOfType(steps, t)]

\* in_degree[t] after the scan: set by the last step of the type alone.
InDegree(steps, t) == Cardinality(RelevantDeps(steps, IndexOfType(steps, t)))

\* How often t occurs in adjacency[d] for the types d of S: once for every
\* step of type t, the overwritten ones included.
Decrements(steps, t, S) ==
  LET stepsOf(d) == {i \in DOMAIN steps :
                       steps[i].step_type = t /\ d \in RelevantDeps(steps, i)}
  IN  Cardinality(UNION {{d} \X stepsOf(d) : d \in S})

\* The types whose in-degree reaches 0 once the types of S are processed.
Reached(steps, S) ==
  {t \in TypesOf(steps) : InDegree(steps, t) <= Decrements(steps, t, S)}

\* The types the first k waves of the queue place.
PlacedBy(steps) ==
  LET placed[k \in Nat] == IF k = 0 THEN {} ELSE Reached(steps, placed[k-1])
  IN  placed

(***************************************************************************)
(* The types of tier k.  Wave k places them, unless the waves have run out *)
(* before k: then the types no wave placed (a dependency cycle) form the   *)
(* tier after the last wave.                                               *)
(***************************************************************************)
TierTypes(steps, k) ==
  LET placed  == PlacedBy(steps)
      wave(j) == placed[j+1] \ placed[j]
      rest    == IF k = 0 \/ wave(k-1) # {}
                   THEN TypesOf(steps) \ placed[k]
                   ELSE {}
  IN  (IF wave(k) # {} THEN wave(k) ELSE rest) \cap TypesOf(steps)

\* Is k a key of the dictionary that _compute_tiers returns?
IsTier(steps, k) == k \in 0 .. Len(steps) /\ TierTypes(steps, k) # {}

\* The planner ends every plan with a reason step and a validate step that
\* depends on it, so validation is scheduled, and never with or before reasoning.
ValidatesLate(p) ==
  /\ \E k \in 0..Len(p) :
       "validate" \in TierTypes(p, k) /\ \A j \in 0..k : IsTier(p, j)
  /\ \A k \in 0..Len(p) :
       "validate" \in TierTypes(p, k) => k > 0 /\ "reason" \notin TierTypes(p, k)

=============================================================================
