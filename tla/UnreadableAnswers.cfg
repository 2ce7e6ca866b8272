SPECIFICATION RouterSpec
CONSTANTS
  Callers = {c1, c2}
  CircuitThreshold = 5
  CircuitResetSeconds = 30
  MaxRetries = 3
  Backoff <- ExponentialBackoff
INVARIANT TripsAfterThreshold
