SPECIFICATION MCPSpec
CONSTANTS
  Requests = {r1, r2}
  Anonymous = {r2}
  Clients = {c1, c2}
  SessionIds = {s1, s2, s3}
  SubscriptionIds = {u1, u2}
  MaxSessions = 1
  SessionTTL = 1
  MaxSubscriptions = 1
  SubscriptionTTL = 1
  MaxCalls = 2
  WindowSeconds = 2
  NoId = NoId
  RandomId = RandomId
SYMMETRY Symmetry
INVARIANT OwnIdUnlessOverlapped
INVARIANT SessionsAreKept
PROPERTY RateLimitIsExact
