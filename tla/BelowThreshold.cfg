SPECIFICATION Spec
CONSTANTS
  NoSource = NoSource
  NoVerdict = NoVerdict
  LLMPlans <- GroundedLLMPlans
  KeywordPlans <- SomeKeywordPlans
  Verdicts <- SomeVerdicts
  Threshold = 4
  MayFail = {}
  MaxIterations = 3
  MaxRetries = 1
  RedisConfigured = FALSE
INVARIANT BelowThresholdReplans
