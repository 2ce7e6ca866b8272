SPECIFICATION MCSpec
CHECK_DEADLOCK FALSE
CONSTANTS
  gh1 = gh1
  gh2 = gh2
  gh3 = gh3
  rd1 = rd1
  rd2 = rd2
  jr1 = jr1
  pr1 = pr1
  es1 = es1
  lk1 = lk1
  so1 = so1
  fm1 = fm1
  no1 = no1
  cd1 = cd1
  gd1 = gd1
  ld1 = ld1
  rj1 = rj1
  rc1 = rc1
  rl1 = rl1
  all = all
  some = some
  w1 = w1
  w2 = w2
  w3 = w3
  p1 = p1
  p2 = p2
  v1 = v1
  a1 = a1
  c1 = c1
  SourceJobs <- MCSourceJobs
  SourceKind <- MCSourceKind
  RepoOf <- MCRepoOf
  EnvRepo <- MCEnvRepo
  Configured <- MCConfigured
  Ingests <- MCIngests
  SourcesOf <- MCSourcesOf
  WithContent = {some}
  Docs = {p1, p2}
  Contents = {w1, w2, w3}
  Roots = {w1}
  ChildrenOf <- MCChildrenOf
  MaxVersion = 3
  IndexCalls = {v1, a1, c1}
  ChunksOf <- MCChunksOf
  Components <- MCComponents
  EntitiesOf <- MCEntitiesOf
  BatchSize = 2
  MaxAsked = 2
  Batches <- MCBatches
  GraphCalls = {"f", "g"}
  Queries <- MCQueries
  Unsafe = {"two words"}
  Writes = {"set"}
  PoolSize = 1
  Pages = {"p1", "p2", "p3"}
  TreeDepth = 2
  MaxEntities = 1
  AdviceRequests <- MCAdviceRequests
  Searches <- MCSearches
  EditedCatalogs = {"azure"}
  EditedRules = {"aws"}
  MaxEdits = 2
  HybridCalls <- MCHybridCalls
  NestedIntents <- MCNestedIntents
  EnabledSources = {"colbert", "diagram", "ui_sketch"}
  Limit = 2
  Scale = 3782
  FileRequests <- MCFileRequests
  ChunkSize = 6
  ChunkOverlap = 2
  MinChunk = 2
  EntityLines = 2
  Drawings <- MCDrawings
  LowerOf <- MCLowerOf
  Visions <- MCVisions
INVARIANT SourcesAreReported
INVARIANT VersionsAreKept
INVARIANT IndexIsAccounted
INVARIANT OutputsAreHonest
INVARIANT ResultsAreOwn
INVARIANT PagesAreCountedOnce
INVARIANT AdviceIsSound
INVARIANT OutagesAreSurvived
INVARIANT OrderIsKept
INVARIANT ChunksAccountForText
INVARIANT DiagramsHangTogether
