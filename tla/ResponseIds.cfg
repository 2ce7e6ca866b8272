SPECIFICATION MCPSpec
CONSTANTS
  Requests = {r1, r2}
  Anonymous = {}
  Clients = {c1}
  SessionIds = {s1}
  SubscriptionIds = {u1}
  MaxSessions = 1
  SessionTTL = 1
  MaxSubscriptions = 1
  SubscriptionTTL = 1
  MaxCalls = 3
  WindowSeconds = 1
  NoId = NoId
  RandomId = RandomId
INVARIANT ResponseIdsMatch
