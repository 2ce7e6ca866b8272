SPECIFICATION MCSpec
CONSTANTS
  d1 = d1
  d2 = d2
  d3 = d3
  e1 = e1
  e2 = e2
  k1 = k1
  n1 = n1
  g1 = g1
  i1 = i1
  i2 = i2
  i3 = i3
  b1 = b1
  b2 = b2
  z1 = z1
  z2 = z2
  Jobs <- MCJobs
  Calls <- MCCalls
  CallOf <- MCCallOf
  Kind <- MCKind
  Slots <- MCSlots
  Batches <- MCBatches
  Sequential <- MCSequential
  GraphRAGEnabled = FALSE
  Artifacts <- MCArtifacts
  Ids = {"source", "other", "third"}
  IdOf <- MCIdOf
  Requests <- MCRequests
  RequestOf <- MCRequestOf
  Order <- MCOrder
  Parallel <- MCParallel
  AtOnce <- MCAtOnce
  MaxMade = 3
  MaxJobs = 2
  TTL = 1
INVARIANT CancelledHaveFailed
