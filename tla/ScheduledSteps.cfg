SPECIFICATION Spec
CONSTANTS
  NoSource = NoSource
  MaxLen = 1
  StepLists <- PlannerPlans
INVARIANT EveryStepScheduled
