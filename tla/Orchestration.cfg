SPECIFICATION Spec
CONSTANTS
  NoSource = NoSource
  NoVerdict = NoVerdict
  LLMPlans <- AnyLLMPlans
  KeywordPlans <- SomeKeywordPlans
  Verdicts <- SomeVerdicts
  Threshold = 4
  MayFail = {"analyze", "reason", "validate"}
  MaxIterations = 3
  MaxRetries = 1
  RedisConfigured = TRUE
INVARIANT OneVerdict
INVARIANT VerdictJudgesAnswer
INVARIANT SuccessIsJudged
PROPERTY ImplementsQueryService
