SPECIFICATION Spec
CONSTANTS
  a = a
  b = b
  c = c
  q1 = q1
  q2 = q2
  r1 = r1
  r2 = r2
  Replicas <- MCReplicas
  Queries <- MCQueries
  Names <- MCNames
  Home <- MCHome
  Changing <- MCChanging
  Failing <- MCFailing
  Prefixes <- MCPrefixes
  Capacity = 2
  TTL = 1
  ResponseTime = 1
  MaxVersion = 1
  MaxFetches = 3
  MaxInvalidations = 1
SYMMETRY Symmetry
INVARIANT ServableIsRecent
INVARIANT InvalidatedHere
INVARIANT OutdatedIsAnnounced
PROPERTY RecentlyUsedSurvive
