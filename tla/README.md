# A TLA+ verification of the Engineering Intelligence System

The repository answers engineering questions: it plans a query, retrieves from
several sources, lets an LLM reason about what was retrieved, validates the
answer and, when the validation is not good enough, iterates.  Around that it
ingests code, documents, tickets and diagrams, advises on platforms, and offers
all of it over HTTP and MCP.  This directory models the parts of it where the
difficulty is in the order of events, in partial failure or in state that
outlives a request, checks them with TLC on small instances and proves what
matters most with TLAPS.

`PROJECT.json` has the components, the runs, the source lines behind every
definition, the hazards and the theorems in machine-readable form.  Paths below
are relative to the repository.

## 1. Inventory

| Component | State | Operations | What makes it correct |
|---|---|---|---|
| **Orchestration engine** (`agents/orchestration.py`) | per call: the shared `context`, the plan, the states of all steps, the final validation; in Redis one snapshot per execution | `execute`, `resume_execution`, streaming, branching, recursive | every query is answered or fails within bounded rounds; the verdict returned is about the answer returned; a run counted as successful was judged |
| **Tier computation** (`_compute_tiers`) | in-degrees, adjacency, a queue per wave | one call | dependencies before dependents; gives up on cycles only; ends |
| **Planner** (`agents/planner.py`) | none that matters | `plan`, first by the LLM, else by keywords | plans reason, then validate |
| **LLM router** (`llm/router.py`) | circuit breaker of the process | `chat` with retries; `chat_stream`, `embed` | opens after consecutive failures, sheds load, closes again |
| **MCP handler** (`api/mcp.py`) | sessions, subscriptions, call times per client, the id of the current request | one handler per method | a response has the id of its request; bounded tables; exact limits |
| **Entity graph cache** (`retrieval/entity_cache.py`) | LRU map with TTL; Redis pub/sub | `get`, `put`, `invalidate`, `clear` | recent, bounded, invalidated entries stay away |
| **Tool executor** (`agents/executor.py`) | a semaphore, metrics | `execute_tool`, lists of tools | every attempt counted once, slots come back |
| **Tools** (`tools/`, `ui/suggestion_tool.py`) | a registry | `execute` of each tool | an output says when it is a fallback |
| **Retrieval agent** (`agents/retrieval.py`) | a cache with TTL, a semaphore | single searches and plans of them | cached answers are recent |
| **Hybrid search, fusion** (`retrieval/hybrid.py`, `fusion.py`, `reasoning/`) | caches of embeddings | `search`, enhanced search, RRF | an outage costs its source only; ranks are kept, hits can be told apart |
| **Ingestion jobs** (`ingestion/pipeline.py`, `unified_ingestion/api.py`, registries) | job tables with LRU and TTL | ingest, batch, requests about jobs | a job can be found as long as promised, every call returns, what a client is told is so |
| **Documents, outside sources, indexers** (`documents/`, `ingestion/*/`, `ingestion/indexer.py`) | versions, job tables, stores | upload, version, roll back; one pipeline per source; batches | versions are retrievable, every source is reported, what is counted is stored |
| **Chunkers, parsers, handlers** (`ingestion/*chunker.py`, `git/parser.py`, `unified_ingestion/handlers/`) | none | one file at a time | chunks account for the text |
| **Code graph** (`retrieval/code_graph.py`, `/codegraph/*`) | a table of commands, a pool | queries by an external command; indexing of pages | results are about the query; no page twice |
| **Platform advice** (`core/adapters`, `constraints`, `patterns`, `knowledge`) | registries, caches of files, a pattern library | `/adapter/query`, `/knowledge/query` | searches of others do not move what is advised first; limits of one edition |
| **Multimodal, diagrams** (`multimodal/`, `documents/diagram_formats.py`) | none between requests | extraction from text and images | edges hang on nodes |
| **Validator, reasoner** (`agents/validator.py`, `reasoning.py`) | none | called by the steps of a plan | answer or raise |
| **Background tasks, memory, accounts, API, UI** | | | not modelled, see 5 |

The components meet in these places.  The API and the MCP handler call
`execute`.  `execute` calls the planner, then the agents of the steps of each
tier concurrently, through one dictionary that all of them read and that it
writes when the tier ends.  Planner, reasoner, validator and some tools call
`LLMRouter.chat`; `get_router` returns one router per process, so they share
its breaker with all other requests.  Retrieval steps go through the cache of
the retrieval agent to sources, one of which asks the graph by way of the entity
cache.  Snapshots and invalidations go through Redis, which survives a process
and is shared by replicas.  Ingestion writes the stores that retrieval reads;
no other state connects them.

All code runs on asyncio: between two `await`s a coroutine is atomic, at every
`await` any other may run.  That is the grain of the actions in all modules.
Several of them are about functions declared `async` that never wait; there an
action is a whole request.

What is hard: steps that fail, are retried and end in any order; state that an
iteration, a request or a search leaves for the next; a process that ends
between tiers; counters and ids shared by calls that interleave; messages
between replicas that are lost; failures that are turned into empty answers on
the way.  `PROJECT.json` lists these hazards line by line with the properties
that cover them.

## 2. Modules

| Module | Models | Based on |
|---|---|---|
| `Tiers` | what `_compute_tiers` returns, as definitions | |
| `ComputeTiers` | the loop of `_compute_tiers`, step by step | `Tiers` |
| `Planner` | the plans the planner can write | |
| `QueryService` | abstract: what `execute` promises | |
| `Orchestration` | `execute`, tiers and steps, crash and resumption | `Tiers`, implements `QueryService` |
| `ExecutionModes` | the streaming, branching and recursive modes | |
| `LLMRouter` | `chat` and the circuit breaker | |
| `MCP` | the handler of JSON-RPC requests and its tables | |
| `OrderedDict` | `collections.OrderedDict` (external) | |
| `EntityCache` | the entity graph cache of several replicas and the queries that fill it | `OrderedDict` |
| `JobRegistry` | the table of jobs both ingestion interfaces have | `OrderedDict` |
| `PipelineJobs` | jobs of `ingestion/pipeline.py` | `JobRegistry` |
| `ArtifactJobs` | jobs of `unified_ingestion/api.py` | `JobRegistry` |
| `ToolExecutor` | tools with slots, timeouts and retries | |
| `RetrievalAgent` | searches, plans of searches, their cache | `OrderedDict` |
| `SourceJobs` | the pipelines of outside sources, `ingest_all` | |
| `Documents` | documents and versions | |
| `Indexers` | batches into the vector store and the graph | |
| `Tools` | every registered tool | |
| `CodeGraph`, `GraphPages` | queries to the code graph; indexing pages into it | |
| `PlatformAdvice` | requests for advice and the tables they share | |
| `HybridSearch` | a search over its sources and the fusion of ranks | `Places` |
| `Places` | the places of a sequence in order, by which filtered lists are defined | |
| `CodeParsers`, `Chunkers`, `Handlers` | entities of a file, chunks of a text, files of a request | each on the one before, `Places` |
| `Diagrams` | nodes and edges of one diagram | `Places` |
| `MCComputeTiers`, `MCOrchestration`, `MCLLMRouter`, `MCMCP`, `MCEntityCache`, `MCIngestionJobs`, `MCServices`, `MCStepExecutors`, `MCKnowledgeBase` | instances for TLC; the plans of the first two come from `Planner` | |
| `Data_proofs` | lemmas on ordered dictionaries, sequences and iterated functions | `OrderedDict` |
| `ComputeTiers_proofs`, `Orchestration_proofs`, `SharedServices_proofs`, `EntityCache_proofs`, `IngestionJobs_proofs`, `StepExecutors_proofs`, `KnowledgeBase_proofs` | theorems | the modules of the same run |

The last four MC modules put several components that share no state in one
instance; the variable `service` or `part`, or the request of the first step, says
which of them a behaviour is about.  `MCServices` is `MCComputeTiers`, `MCLLMRouter`
and `MCIngestionJobs` in one; these also stand alone, for the runs that fail.  Definitions named "Mutant" in a comment change
one definition the way a plausible bug would.  No specification uses them; they
show that each property notices such a bug.

### Tiers and ComputeTiers

`TierTypes(steps, k)` is tier `k` of a plan.  It is defined by iterating
`Reached`: the types whose in-degree is used up once a set of types has been
processed.  This includes two peculiarities of the code: `in_degree` and
`step_by_type` hold what the *last* step of a type says, while `adjacency` has
an entry for *every* step.

`ComputeTiers` has the loop itself: `ScanStep` is a round of `for step in
steps`, `SeedQueue` the initial queue, `PlaceType` a round of `for step_type in
queue` with its neighbours, `NextWave` the end of a round of `while queue`,
`PlaceUnplaced` the cycle detection.  The code sorts a wave by name; the model
takes it in any order, so the properties hold for every order.  A decrement of
a neighbour that occurs several times is one subtraction: the code appends the
neighbour when the count passes 0, and so does `NewlyFree`.

### Orchestration

| Action | Code |
|---|---|
| `Submit`, `MakePlan` | the start of `execute`, `planner.plan` |
| `StartTier`, `CompleteStep`, `RetryStep`, `FailStep` | `_execute_tier` and, for each step on its own, `_execute_step` |
| `FinishTier`, `SaveSnapshot`, `SaveFails` | results to the context, the snapshot in Redis |
| `Converge`, `BelowThreshold`, `NoBreak` | the check after each tier: passing verdict, verdict with issues, neither |
| `Continue`, `Replan` | the next iteration, without or with a new plan |
| `StopIterating`, `StartFallback`, `FallbackAnswer`, `FallbackVerdict` | after the last iteration |
| `Report` | metrics and the result |
| `Resume`, `Crash`, `ExpireSnapshot` | `resume_execution`, the end of the process, the expiry in Redis |

An answer is its number within the execution, and a verdict remembers which
answer it is about; this is what lets a property say that the two belong
together.  A verdict is further the number of the validator's five checks that
passed and the `valid` flag.  Retrieved data, tool results and analyses are not
in the model: no branch of `execute` depends on them.  Which plan the planner
returns is a free choice at every call.  Which agents may raise is a parameter,
because agents are replaceable through `agents/registry.py`; the run lets
analysis, reasoning and validation raise.

### ToolExecutor, RetrievalAgent, ExecutionModes

A tool call is `Execute` (arguments refused, or it queues), `Acquire` (a slot),
`Returns` or `Fails` (with the retry and its back-off).  A call whose list has
come to an end is not begun.  A tool step is COMPLETED even if all its tools
failed; that is the code (`ToolStepExecutor`), and no property says otherwise.

A search is `Ask` (the cache, then the queue for a slot) and `Goes` (slot,
answer of all sources, put into the cache).  A source that fails has found
nothing, and that is cached too.  Ages are of the entry and of the oldest answer
in it, so `AnswersAreRecent` can speak of both.  The key of the cache ignores
the limit of a search, and `set` drops the first key when it is full.

Of the modes, streaming and recursion take the steps one after the other,
branching all steps of several plans at once and without regard to `depends_on`.
An answer is the number of its round.  `Continue` is any step of the call under
way; the recursion is a stack of frames.  The engine counts every stream as a
successful run and may write an answer after its last verdict that nothing
judges; no property claims more.

### LLMRouter and MCP

Points in time are kept as seconds left, and `Tick` lets a second pass.  `Chat`
is the check of the breaker with the first request, `Retry` every later one;
`Answer`, `UnreadableAnswer` and `PostFails` are the ways an attempt ends.
`streak` and `extra` are history variables: failed attempts in a row, and
requests of each caller since the breaker opened.

| Action of `MCP` | Code |
|---|---|
| `RateLimited`, `MethodNotFound` | the responses of `handle_request` itself |
| `AnswerAtOnce` | `initialize`, the lists, `resources/read`, `prompts/get`, missing parameters |
| `SessionGet`, `SessionSet`, `Listen`, `Unsubscribe` | the methods of these names |
| `StartWork`, `FinishWork`, `WorkRaises` | `tools/call`, `tools/call/batch` and `query`, before and after they wait |
| `Tick` | `time.time()` |

Every request starts with `Arrive` (the shared `_request_id`), an eviction from
both tables and `Allowed`, all before the first `await`, so they are part of one
action.  An eviction is any choice `_evict_expired_sessions` may make: of
several entries with the same age any may be the oldest.  Ages stop at the first
value that counts as expired, which no comparison of the code can tell from a
higher one.  A request without a `client_id` uses the client "default", one of
`Clients`.  `overlapped`, `born` and `accepted` are history variables, written
beside the code's own state and read by no guard: `accepted` keeps the window on
its own, which is what makes `RateLimitIsExact` say more than its code.

### EntityCache

`LookupHit` and `LookupMiss` are `get`; after a miss the query waits for the
graph (`GraphAnswers`, `GraphFails`, `FetchRaises`) and puts what it got
(`Fill`).  `Invalidate`, `InvalidateByPrefix` and `Clear` act on the replica they
are called on; only the first publishes (`Publish`, `PublishFails`), and
`HandleMessage`, `Subscribe`, `SubscriberDies` are the other end.  `UpdateGraph`
is what makes a cached answer outdated.  By prefix and `clear` tell nobody, and
the singleton of the process is made without a Redis address although
`README.md:85` advertises distributed invalidation; a replica without one is a
state of `subscriber`, and its messages reach nobody.

### PipelineJobs and ArtifactJobs

A job of the pipeline is `Call`ed, gets a slot (`Start`) and does its stages
(`Work`), while `GetJob`, `RequestJobs`, `CancelJob` and `TickJobs` go on.  Of the
requests about jobs only the tool `get_job_status` waits for what the pipeline
answers (`GetJob`).  `/ingestion/jobs` and `/ingestion/jobs/{job_id}` call
`list_jobs`, `get_job` and `cancel_job` without `await`
(`ingestion/api.py:132,138,158`): the lists fail over a coroutine (`RequestJobs`),
and a cancellation is confirmed without anything being cancelled (`CancelJob`).
Nobody calls `cleanup_completed`.  A job that takes longer than the TTL of the
registry is dropped, and a request with other flags replaces the pipeline;
`JobsAreKept` names these as what may happen.  A chunker that never returns
(`Sticks`, see Chunkers) keeps the event loop, and then only time passes.
`settings.graphrag_enabled` is the constant `GraphRAGEnabled`, false by default and
in the runs; the requests with GraphRAG of their own are modelled.

An artifact job is `BeginItem` and `EndItem`; its id is made of the source, so jobs
may collide.  Its last `updated_at` is the time of the event loop
(`unified_ingestion/api.py:128`), so an ended job has expired at once: that is a
defect, and `EndedIsFound`, which says what is meant, fails.

### SourceJobs, Documents, Indexers

`Ingest` is a step of a job of one source; `IngestAll` goes through the sources
of one call, and `IngestWithoutJob` stands for those that never get one (git,
where `_put_job` calls itself, architecture, which is not awaited, requirements,
which is given an argument it does not take).  An outage is swallowed by the
client, and the job COMPLETED with no entries; only entries that cannot be read
make it fail.  Clients are shared, so a job that names no repository gets that of
the last caller.  No property is about this: `SourcesAreReported` speaks of statuses
and counts only.

`Documents` has a request per action.  The list of versions begins with version
2, so version 1 can never be read again, and a rollback leaves `current_version`
as it is; `VersionsAreKept` speaks of what is left after that.

`IndexCall` starts a call, `IndexStep` is one request to a store, applied or not
and answered or not, with the fallback to one by one.  Edges to files are counted
though the file nodes are made by nobody.

### Tools

One action for each tool, each an instance of one of a few courses
(`Computes`, `Guarded`, `Reports`, `Imports`, `AsksLLM`): what it does with arguments missing
or useless, with an LLM that fails or cannot be read.  Called by `ToolExecutor`,
`execute` gets a dictionary instead of a `ToolInput` and raises, as often as it is
retried, so no step of a plan gets a result of a tool.
`Imports` is `requirements_import`: what the source does not answer, or what is no
source it knows, is a result with the method "error" or "not_implemented" that
still counts as reliable.  `OutputsAreHonest` names the six tools that say only in
"method" that they were not answered; of all others it says that a fallback is
marked somewhere, in the output or in its result.  `tools/base.py:66` promises more
of the subclasses of `PDLCBaseTool`, that the *output* is unreliable; three of them
override the fallback without it (section 3, "What fails").

### CodeGraph and GraphPages

A method of the retriever asks by way of the MCP name (`Ask`, `StartProcess`,
`MappedAnswers`, `MappedFails`) and then directly (`DirectAnswers`,
`DirectFails`).  The first way appends the words of the query to the shared table
of commands (`code_graph.py:68-73`), so from the second query on it asks for the
words of all before, and what it answers is wrapped once too often for anyone to
find it: which is what keeps `ResultsAreOwn` true.

`GraphPages` indexes one page, a space or a tree; `Children` reads what is below
a page while somebody moves pages, so any page may be below any other.

### PlatformAdvice

A request is one action, for nothing in it waits: `ProcessWithAdapter`,
`KnowledgeQuery`, `SearchKnowledge`, the two lists, and `Edit`, somebody writing a
configuration file.  What is written may be malformed: a catalog that is no
mapping (`CatalogForms`), rules without a mapping of constraints, with one entry
that is none, or with combinations of services that are none (`RuleForms`).  The
first raises where it is read, by an adapter that registers or is asked; an entry
of the rules that raises leaves those before it registered, and whoever registers
next tries again (`RegisterLimits`); malformed combinations only make the requests
that check them raise.  The registry instance is assigned before its adapters
register, so a failing registration leaves half a registry; cloud adapters read a
field they do not have, so each of their queries raises.

A search for a platform puts the patterns of its adapter into the library all
requests are matched with.  `FirstIsUnmoved` compares what is advised first with
what would be without them.  There is one case where it differs: no general pattern
has "microservices" as a trigger, so without searches all patterns are matched and
`microservices` comes first, but after a search for tanzu its own pattern is
triggered and matched alone (`patterns/matcher.py`, `_get_candidates`).  The
property names exactly that case, that nothing general is triggered.

### HybridSearch

`StartSearch` classifies and fixes the list of sources, `SourceAnswers` and
`SourceRaises` work it off, `NextRound` and `Nested` are the iterative and the
enhanced searches (a stack of frames), `RelationsRaise` is the enhanced search
over relations that are dictionaries, `Deliver` the ranking.  The key of the
fusion includes the source, so that it never fuses across sources, contrary to
`docs/architecture/02-retrieval-pipeline.md:83-88`.  What is ranked is told by key;
what the caller gets of it (`ItemOf`) is content, source and score, no id and no
payload, and no more than `Limit` items (`WithinLimit`).  `delivered` keeps both, the
keys as history, so that `OrderIsKept` can say where a hit went, which nobody could
tell from the reply: a hit of docs or code has its text in its payload, so the
caller gets it blank.  The iterative search merges hits by source and the beginning of
their content, so all blank hits of a source are one (`Merged`).
Python's sort is stable, so what it makes of the keys depends on their scores and where each
was first seen: `Outranks` compares both, and `InRank` counts who is ahead.

### CodeParsers, Chunkers, Handlers

A text is a sequence of units, each of a kind a pattern tells apart; a chunk is
the units in it, with what its id is made of.  `HandleFile` is one file of a
request, `MissFile` a path that cannot be read, `BreakArchive` a zip file whose
failure replaces all answers, `KeepTheLoop` a chunker that never returns.  Several
handlers fail on every file, as in the code: a batch hands over strings that are
decoded as bytes, API specifications and BPMN with a process raise.
`StructuralChunker` may not end on a section longer than a chunk, `DocumentChunker`
not when it cuts before the last sentence: `Splittable` says when.

### Diagrams

A drawing is a head and its lines (or cells, or servers), one request a behaviour:
`BuildFromText` or `BuildFromImage`, then the enrichment.  The patterns are
modelled by what they match: an arrow `-->` of PlantUML never does, a link from a
flowchart's `a[x]` is lost, `graph TD` is compared with lower-cased text.  Draw.io
edges keep raw names (`diagram_ir.py` calls them ids), and what is not a number or
not JSON raises.  `DiagramsHangTogether` names these exceptions.

## 3. Runs

| Run | Instance | Shows |
|---|---|---|
| `scheduled_steps` | the plans of the planner | **fails**: `EveryStepScheduled` |
| `orchestration` | 3 iterations, 1 retry per step, threshold 4 of 5 checks, Redis, six plans of every shape | `OneVerdict`, `VerdictJudgesAnswer`, `SuccessIsJudged`, `ImplementsQueryService` |
| `below_threshold` | no failing steps | **fails**: `BelowThresholdReplans` |
| `unreadable_answers` | 2 callers, the constants of the code | **fails**: `TripsAfterThreshold` |
| `mcp` | 2 requests at a time, one without id, 2 clients with 2 calls per window, 3 session ids for 1 session, 2 subscription ids for 1 subscription | `OwnIdUnlessOverlapped`, `SessionsAreKept`, `RateLimitIsExact` |
| `response_ids` | two requests | **fails**: `ResponseIdsMatch` |
| `entity_cache` | 2 replicas, 2 queries on one of them, 3 names for 2 places, one of which changes once and is invalidated once | `ServableIsRecent`, `InvalidatedHere`, `OutdatedIsAnnounced`, `RecentlyUsedSurvive` |
| `services` | tiers: all plans of the planner with up to two sources, and all lists of up to 3 steps over 3 types with any dependencies; router: 3 callers, threshold 4, reset after 4 s, 3 attempts with delays of 1 and 2 s; jobs: up to 3 of batches, codebases, documents, requests, in registries with 2 places | `DependenciesFirst`, `LoopComputesTiers`, `PlannerPlansAreOrdered`, `Terminates`; `FastFailIsEarned`, `OpenBreakerShedsLoad`, `BreakerRecovers`; `ListedIsLatest`, `JobsAreKept`, `CallsReturn` |
| `cancelled_jobs` | the jobs of `services` | **fails**: `CancelledHaveFailed` |
| `ended_jobs` | the same | **fails**: `EndedIsFound` |
| `step_executors` | six tool calls in three lists, five searches in three plans, a call of each mode | `CountsAddUp`, `AnswersAreRecent`, `VerdictIsOwn`, `AnswerIsOfLastPlan`, `WorkIsBounded`, `CallsEnd` |
| `knowledge_base` | one at a time: outside sources, documents, indexers, tools, the code graph, pages, advice, a search, files of a request, a diagram | `SourcesAreReported`, `VersionsAreKept`, `IndexIsAccounted`, `OutputsAreHonest`, `ResultsAreOwn`, `PagesAreCountedOnce`, `AdviceIsSound`, `OutagesAreSurvived`, `OrderIsKept`, `ChunksAccountForText`, `DiagramsHangTogether` |

*Bounds.*  Three steps over three types are the smallest lists with a cycle
next to a placed type, with a type that occurs twice and different
dependencies, and with self-dependency.  Three iterations are the code's
default, and the least with an iteration between the first and the last; one
retry tells the first attempt from the last.  The three verdicts of the run are
a passing one and the two ways to fall short.  Threshold 4 with three callers
of three attempts lets the breaker trip by the failures of one call, of two and
of three; four seconds of open breaker are longer than any delay between
attempts, as in the code (30 s and 2 s).  In `mcp` the tables have room for less
than there are ids, so evictions have to choose; two calls per window tell the
oldest from the newest, and two clients show that their limits are apart.

In `entity_cache` two queries of one replica let their fills meet, and the other
replica is where messages come from; one invalidation of one name that changes
once is the least that an older answer can survive (`Changing`, `MaxVersion`,
`MaxInvalidations`), a TTL of 1 has entries that are fresh, old and expired, and
`MaxFetches` = 3 fills the two places and evicts.  `Failing` is the replica whose
subscriber and process may stop.  Names that nothing tells apart are symmetric, and
so are queries.  In `services` the third job (`MaxMade`) is the one
that evicts another from two places.  The calls of `step_executors` compete for
two slots, two entries for one place of a cache; recursion of depth 2 has a
sub-query within a sub-query, with up to three at a time as in the code.

The bounds of `knowledge_base` are each the least with something to mix up: two
queries to the code graph, two jobs for a client, three versions, batches of two with
a third left over (`MaxAsked` = 2 requests a call that are not answered as they
should), trees of depth 2, two edits of files (`MaxEdits`), two hits a source
(`Limit`; `Scale` is 61 * 62, which makes the reciprocals of their ranks integers), three
rounds and three nested searches as in the code.  Chunks of 6 units
with an overlap of 2 and texts of up to 9 units have a first, a middle and a last
chunk, and cuts before, at and after the overlap; the 8059 requests of files are all
texts of these sizes that the patterns tell apart, for every handler and chunker.

*Deadlock* is checked except in `step_executors` and `knowledge_base`, where a
behaviour ends with its calls.  No run has a state constraint; where a bound is not
the code's own, it is a guard, named above.

*Fairness.*  `Orchestration` assumes that `execute` goes on while it can
(`WF_vars(Execute)`): the event loop resumes a ready coroutine, and the clients
the agents wait for have timeouts, so every attempt ends.  A failing attempt is
bounded by the retries, so fairness of the whole is enough.  Nobody has to submit
a query, nothing has to crash or be resumed.  `LLMRouter` assumes that time
passes, that a request ends (the HTTP client has a timeout) and that a sleeper
whose time has come runs; nobody has to call `chat`.  `ComputeTiers` runs its
loop.  Of the ingestion jobs, one that has a slot goes on and a free slot is given
to one that waits, each job on its own, as each is a task - as long as no chunker
keeps the event loop, which `CallsReturn` excepts; nobody has to call, read or
cancel.  The three fairness assumptions of `services` hold together, for what is
not begun is never enabled.  In `step_executors` each of the three services goes on while some
call under way can: the semaphore of asyncio wakes who waits, and a tool that does not
answer is given up after its timeout.

### What fails

1. **A plan with several sources searches one of them** (`scheduled_steps`).
   `docs/architecture.md:116`: "Executes retrieval plan against all sources".
   `_compute_tiers` schedules one step per *type*, the last one.
2. **A verdict below the threshold does not lead to a new plan**
   (`below_threshold`).  `README.md:102`: "Answers below quality threshold
   trigger automatic re-planning".  `_should_revise` looks at failed and
   completed steps only, and the planner does not read the issues it is given.
3. **Unreadable answers never trip the breaker** (`unreadable_answers`).
   `llm/router.py:88`: "Trip after 5 consecutive failures".  Success is recorded
   before the body is parsed, so the count starts again at every attempt.
4. **A response carries the id of another request** (`response_ids`).
   `docs/mcp-tools.md:121`: "The system uses JSON-RPC 2.0 for MCP communication",
   where a response has the id of its request.  `tools/call`,
   `tools/call/batch` and `query` read the shared `_request_id` after waiting;
   whichever request arrived last has written it.  `OwnIdUnlessOverlapped` says
   that nothing else can go wrong with it.
5. **A job is said to be cancelled that goes on and completes** (`cancelled_jobs`).
   `docs/api.md:399` and the answer `{"status": "cancelled"}` of
   `ingestion/api.py`.  `cancel_job` is not awaited, and a coroutine is true.
6. **A job that has ended cannot be found** (`ended_jobs`).
   `unified_ingestion/core/registry.py:12`: `ttl_seconds: float = 3600.0`.  Its
   `updated_at` is the time of the event loop, compared with the time of day.

Three more contradictions are in the models as they are in the code, without a run
of their own:

- *Fallbacks pass for reliable.*  `tools/base.py:66`: "When the LLM fails, the
  fallback returns an unreliable ToolOutput".  `alert_manager`, `feedback_ingest` and
  `deployment_validate` override it and return a reliable one (`Tools`).
- *Hits of the vector store are delivered blank.*  `docs/retrieval.md:19-21`:
  "combines results from multiple sources", first of them "Vector search (docs,
  code)".  `fuse` reads "content" at the top of a hit, where Qdrant has none, and
  drops id and payload (`HybridSearch`, `ItemOf`).
- *The PlantUML of the API documentation is an empty diagram.*
  `docs/api.md:151-171` answers two participants and a message with two nodes and an
  edge.  `PlantUMLParser` takes participants only from blocks that "==" opens, and a
  message between no nodes is dropped (`Diagrams`; the drawing is one of
  `MCParticipants`).

`validation_result` stays in the context, so that from the second iteration on
the loop over the tiers ends after its first tier.  `OneVerdict` is what remains
true: the iterations after a verdict never validate anything, which is why
iterating below the threshold cannot improve it.

What section 2 says of code that does not do what it was written for - handlers
that always fail, cloud adapters that always raise, lists of jobs that fail,
tools whose results no plan gets - is in the models as it is in the code.  The
properties name these cases as exceptions, or hold because of them.

## 4. Proofs

TLAPS proves these for all values of the constants, from the assumptions named
in the modules.  Those are the types of the constants and how they fit together, and
what the callers in `src/` see to: that a plan which validates has reasoned
(`ModesAssumption`), that `ingest_all` is not given a source twice
(`SourceAssumption`), that texts and drawings are finite lists and a file of code is Python or
cannot be parsed (`FilesAssumption`, `DrawingsAssumption`), and `PlansAssumption` of `Orchestration`, which is itself a
theorem about the planner.  `PROJECT.json` lists the theorems a reader should know.  Of
the 38 properties of the passing runs 33 are theorems: all but those of liveness.

Each proof has the same course: an invariant that is inductive and implies the
property, one lemma for what each action does to it, and a temporal step.  TLC has
checked the larger invariants on the instances of the runs before they were proved.

*Data.*  `Data_proofs` has what the others need of ordered dictionaries (putting,
removing, evicting the first key keep the order and bound the size), of sequences (a
set-form induction over prefixes), of the places of a sequence in order (`InOrderFacts`), of functions defined by recursion over the naturals,
and of powers of two, which the provers do not know: they are counted as the subsets of
an interval (`TwoPowers`).  Induction with an operator as its parameter cannot be
instantiated, so recursion is reasoned about by a least counterexample: a set of
naturals that is not empty has a least member.

*ComputeTiers.*  For every list of steps and every order within a wave: `TypeOK`;
and for lists without duplicate types `DependenciesFirst`, and that the types given up on
wait for each other (`LeftoversAreCyclic`).  Neither is inductive: that dependencies
are in lower tiers follows from what the counters mean.  `Counts` says so: the
in-degree of a type is the number of its dependencies that no wave has placed, and
it is 0 exactly for types that are queued or placed.  `Scanning` says what the scan has
established so far, `Ordered` that queued types wait for placed ones only.  The
argument about cycles is then one line: a type that is left has a positive
in-degree, so a dependency that is left too.

For *every* list, duplicate types and cycles included, the loop returns what
`Tiers` defines (`LoopComputesTiersHolds`).  With duplicates the counters no longer
count dependencies, and `LoopInv` says what they do: the in-degree the last step of
a type gave it, less the decrements by every entry of `adjacency` whose type has been
placed (`WaveCounts`); during the scan the same of the steps seen so far
(`ScanCounts`); and that the waves done are those of the recursive definition, the
queue the next (`Waves`).  A wave that adds nothing is where the recursion stands
still, so that the loop ends with the last tier of the definition.

*The planner.*  A plan of `Planner` with any number of sources has the shape of
`PlannerShape`: which types, what each depends on, and in which wave that puts each
(`WaveOf`).  From the waves follows `PlannerOrderHolds`, of which
`PlannerPlansAreOrdered` is the instance of the run, and `PlannerPlansValidateLate`:
a plan validates in a later tier than it reasons, or is one of those that
`ValidatesLate` excepts.  That is `PlansAssumption` of `Orchestration`, which is thus
not an assumption about the planner but a theorem.

*Orchestration.*  For all plans that validate late, any thresholds, verdicts,
retries and iterations: `TypeOK`, `OneVerdict`, `VerdictJudgesAnswer`,
`SuccessIsJudged`, and that every step is a step of `QueryService` or a stutter
(`SafetyRefinement`).  The heart of the invariant is `StaleVerdict` (once there is a
verdict, only first tiers are executed) with `VerdictIsFresh` (first tiers do not
reason, unless `bare`), and `ValidationIsAhead` (without a verdict a step has failed
or the validate step is still to come), which is what makes successful runs judged.
`PassesOrHasIssues` is where the code's arithmetic enters: a verdict that does not
pass has an issue, so the loop over the tiers never goes on after one.

*LLMRouter.*  For any number of callers, thresholds, attempts and delays:
`RouterTypeOK`, `FastFailIsEarned`, `OpenBreakerShedsLoad`.  The invariant adds that
the failure count never exceeds the streak of failures and that the requests a
caller sends on an open breaker are bounded by the attempt its call has reached.

*MCP.*  For any number of requests, clients and sessions, any limits and
lifetimes: `OwnIdUnlessOverlapped`, `SessionsAreKept`, `RateLimitIsExact`, `MCPTypeOK`, and
that the tables are bounded (`TablesStayBounded`).  The first needs `FieldIsOwn`: as long as
nothing arrives, `_request_id` is that of the request that waits.  `SessionsAreKept`
is inductive with `SessionsAreBorn`, which ties the ages in the table to those in the
history: an eviction of a live session leaves `MaxSessions` entries that are no older,
creating a session only adds a younger one, and a second that passes keeps the order of
ages.  The limit rests on `RateInv`: of the calls the code keeps for a client, those
still within the window are exactly the accepted calls of the history.  `Within`, the
pruning of a list, is written as a recursive function for the sake of this proof, since
`SelectSeq` of the standard module cannot be expanded by the provers; the lemmas say
that pruning keeps what is young enough, in order, and that pruning before ageing and
after is the same.

*EntityCache.*  For any replicas, names, capacities and lifetimes.  `CacheInv`: the
entries of a replica are ordered by last use, each remembers what was used since, and
these memories agree with the order; hence the capacity and `RecentlyUsedSurvive`.
`EntryInv`: how old what an entry and an answer under way say can be, and which
invalidations they have seen; hence `ServableIsRecent` and `InvalidatedHere`.  `ToldInv`:
a replica has handled the last invalidation of every name, or a message of it is on its way,
or some message was kept from that replica; hence `OutdatedIsAnnounced`.

*Jobs.*  For any jobs, calls, slots and registries.  `PipelineInv` ties the registry
to the jobs and to the history of what was put or read later: `RegistryBounded`,
`SlotsRespected`, `JobsAreKept`.  `ArtifactInv` does for the table of artifact jobs,
whose ids collide: `ListedBounded`, `ListedIsLatest`.

*Step executors.*  `ToolInv` says of each call that it was started once for every
attempt, all but the last of which were counted as retries; `CountsAddUp` then is a
count of pairs, kept exact call by call.  `CacheAges` bounds the ages of searches and
entries by the time a search may take: `AnswersAreRecent`.  `ModesInv` has for each
mode which round the context's answer and verdict are of, and that the reason step of a
plan comes before its validate step: `VerdictIsOwn`, `AnswerIsOfLastPlan`, and the bounds
on iterations and depth.  `WorkInv` is a ledger of the recursion: the plans executed, plus
2 to the depth left less one for each sub-query that is still to be asked for by a frame
on the stack, never exceed 2 to the depth less one: `WorkIsBounded`.  It is stated over the
stack as a recursive function, and a call moves what is due from a frame to a new one.

*Knowledge base.*  One invariant for each component, for any number of its calls.
`DocumentsInv`: the numbers and contents of the versions, and where the current text is
from (`DocumentsTypeOK`, `VersionsAreKept`).  `IndexInv`: every item of a call is indexed, an error, or
still to do, and what is counted is in the store, whatever requests are lost
(`IndexIsAccounted`).  `ToolsInv`: what each output may be, given what was heard, and
that only calls of the registry wait (`OutputsAreHonest`).  `CodeGraphInv`: a process
that runs directly was given the words of its own query, and only such a one delivers
(`ResultsAreOwn`).  `PagesInv`: the queue, the visited pages and the counted ones are
apart, and 2 ** depth bounds them (`PagesAreCountedOnce`).  `SourcesInv`: the results of
`ingest_all` so far are of the sources gone through and agree with their jobs
(`SourcesAreReported`).  `AdviceInv`: rules are read once (`RulesAreReadOnce`), and
limits registered from what was read, whole or up to the entry that raises
(`LimitsAreRegistered`).  A pattern that fits scores 10, any other at most 9, and what
fits is triggered, so the best of the library is the best of the general patterns when
one of those is triggered (`BestIsUnmoved`): `AdviceIsSound`.
`HybridInv`: the outermost frame goes the way of the call, and inside it there is at
most one other search, of an enhanced one (`OutagesAreSurvived`).

*Ranking.*  For any hits, with any `Scale` and `Limit`.  `RankInv` adds to `HybridInv` that every
search under way keeps one list for each source, and an iterative one a single list of
facts that differ (`FoundIsNeat`).  A key that its source lists once then has the share of
its rank for its score and its own place for its first (`OneOfItsSource`), and shares do
not grow with the rank, so of two such keys the earlier goes ahead, by its score or, where
a division makes them equal, by its place.  Sums of scores are recursive functions, which
are shown to agree with one that is known (`SumIsAdded`).  The sort is defined by what it
depends on, scores and first places, and by counting who is ahead; that this puts every key
in the ranking, once, and none behind one it outranks, is `InRankFacts`, for any strict
order of scores and places.  The cut to the limit takes from the end (`CutKeepsOrder`),
so what is delivered of a source with such keys is the beginning of its list
(`OrderIsKept`).

*Diagrams.*  For any drawings and any inferences.  `DiagramsInv`: a diagram is sound
(`SoundDiagram`: nodes and edges have ids of their own, and it claims confidence just when
it has nodes), and the edges of what was drawn as text follow its lines (`FollowsLines`).
One lemma for each format says that what is built is so; enrichment then only marks nodes
and edges (`SameDrawing`).  Places in order are counted (`Places`), not sorted: the provers
know neither `SortSeq` nor `SelectSeq`.

*Chunks.*  `FilesInv`: each job is the result of a file of the request, and only a file
on which a chunker does not end keeps the loop.  So everything is in what a handler makes
of a text (`HandledFine`), with one lemma for each way to cut: ids and indexes are apart
(`Apart`), what matters is in a chunk (`Found`), and both survive joining, renumbering and
leaving units out.  Windows need that before every place there is a multiple of
the step less than a step away (`MultipleBelow`).  The loop of `DocumentChunker` is reasoned
about by the least turn at which its pieces would not cover the text to where the next starts
(`TurnInv`, `LoopCovers`): while sentences end often enough, every turn moves at
least a place on and leaves more than the overlap to come, so that the loop ends, with the
last unit in its last piece.

Only model-checked is liveness, which needs fairness: `Terminates`, `BreakerRecovers`,
`CallsReturn`, `CallsEnd`, and that of `QueryService` in `ImplementsQueryService`.  The
prover can neither expand ENABLED nor follow a measure that decreases from step to step to
its end.

## 5. Not modelled, and the plan

`PROJECT.json` lists every component with its status.  Not modelled:

- the background task runner: nothing submits to it, and a second task could not be
  submitted (pruning calls a method that tasks do not have);
- memory tiers: the engine reads a context and writes to one tier; nothing waits in
  between and no decision depends on it;
- accounts, tokens and rate limits: access control is left out as a whole; the
  distributed rate limiter has no caller;
- the reasoning agent: one prompt; of its modes only chain of thought is ever chosen;
- HTTP API, middleware, UI: routing and conversion; `ui/ingestion_job.py` is a third copy
  of the ingestion pipeline.

Of the components modelled in part, left out are: `chat_stream` and `embed` (they do
not use the breaker) and the token budget (nothing enters one); the HTTP of the clients
of outside sources, and the managers of git repositories; reranking, citations, weighted
fusion, the LlamaIndex chunkers and whatever else has no caller; generated text,
use cases, decision records and the import from Terraform; the extractors in
`documents/diagram_parser.py` and the synchronisation of diagrams, which nothing calls;
GraphRAG extraction, which is off by default.

What could follow: more of the components modelled in part, first `embed` and the token budget
of the router once something uses them, and reranking.
