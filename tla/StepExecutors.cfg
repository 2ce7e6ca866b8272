SPECIFICATION MCSpec
CHECK_DEADLOCK FALSE
CONSTANTS
  Calls <- MCCalls
  Input <- MCInput
  List <- MCList
  Place <- MCPlace
  Mode <- MCMode
  MaxConcurrent = 2
  MaxRetries = 1
  Searches <- MCSearches
  Key <- MCKey
  Sources = {"docs", "code"}
  Asked <- MCAsked
  Plan <- MCPlan
  Position <- MCPosition
  Strategy <- MCStrategy
  Limit = 2
  SearchSlots = 2
  CacheTTL = 2
  CacheSize = 1
  ResponseTime = 1
  Plans <- MCPlans
  MayFail = {"plan", "analyze", "reason", "validate"}
  MayRevise = {"analyze"}
  MaxIterations = 3
  Depth = 2
  Branches = 2
  MaxSubQueries = 3
INVARIANT CountsAddUp
INVARIANT AnswersAreRecent
INVARIANT VerdictIsOwn
INVARIANT AnswerIsOfLastPlan
INVARIANT WorkIsBounded
PROPERTY CallsEnd
