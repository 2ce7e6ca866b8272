--------------------------- MODULE MCComputeTiers ---------------------------
(***************************************************************************)
(* ComputeTiers on the plans the planner writes, and on every list of at   *)
(* most MaxLen steps over three types with arbitrary dependencies, which   *)
(* has the duplicates, cycles and self-dependencies the code provides for. *)
(***************************************************************************)
EXTENDS ComputeTiers

CONSTANT NoSource, MaxLen

P == INSTANCE Planner

PlannedSources == {"docs", "code"}
SourceLists == {<<>>} \cup [1..1 -> PlannedSources] \cup [1..2 -> PlannedSources]

LLMPlans == {P!LLMPlan(s, h) : s \in SourceLists, h \in BOOLEAN}
KeywordPlans ==
  {P!KeywordPlan(i, s, h) : i \in {"design", "troubleshoot", "explain"},
                            s \in SourceLists \ {<<>>}, h \in BOOLEAN}
PlannerPlans == LLMPlans \cup KeywordPlans

SomeTypes == {"retrieve", "analyze", "reason"}
SomeSteps == {P!Step(t, NoSource, d) : t \in SomeTypes, d \in SUBSET SomeTypes}
SmallPlans == UNION {[1..n -> SomeSteps] : n \in 1..MaxLen}

AllPlans == PlannerPlans \cup SmallPlans

\* Every plan of the planner has its kept steps after what they depend on,
\* although its duplicate steps do count in the in-degrees, and the answer is
\* always validated in a later tier than the one that reasons about it.
PlannerPlansAreOrdered ==
  pc = "done" /\ steps \in PlannerPlans =>
    \A t \in Types : \A d \in KeptDeps(t) : tier[d] < tier[t]

\* docs/architecture.md says the retrieval agent "executes retrieval plan
\* against all sources": every step of a planner's plan is one of the steps
\* that _compute_tiers returns.
EveryStepScheduled ==
  pc = "done" /\ steps \in PlannerPlans =>
    \A i \in DOMAIN steps : \E t \in Types : steps[i] = steps[stepByType[t]]

=============================================================================
