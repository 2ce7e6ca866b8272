---------------------------- MODULE PipelineJobs ----------------------------
(***************************************************************************)
(* The jobs of IngestionPipeline (ingestion/pipeline.py): documents, with  *)
(* or without GraphRAG, codebases, and batches of documents, with the      *)
(* registry they are listed in and the requests about jobs meanwhile.      *)
(*                                                                         *)
(* A call is one of ingest_document, ingest_batch and ingest_codebase; its *)
(* jobs share a semaphore.  What a job waits for is chunking (only when a  *)
(* graph is built), embedding and indexing; what it does between two of    *)
(* these is one step.  Text is cut inside of such a step, and two of the   *)
(* chunkers may never return (see Chunkers): the event loop, which all     *)
(* calls share, then goes on with nothing else.                            *)
(*                                                                         *)
(* Requests about jobs.  The id of a job is in the response to its call    *)
(* and nowhere else.  Only the tool get_job_status waits for what the      *)
(* pipeline answers: /ingestion/jobs and /ingestion/jobs/{job_id}          *)
(* (ingestion/api.py) call list_jobs, get_job and cancel_job without       *)
(* await, so nothing of them runs.  Nobody calls cleanup_completed.        *)
(*                                                                         *)
(* Left out: the chunks, their embeddings and metadata, and the text of    *)
(* errors; making the objects of a pipeline does not fail.  The age of a   *)
(* job that is not listed is read by nobody: it stays what it was.         *)
(***************************************************************************)
EXTENDS JobRegistry

CONSTANTS
  Jobs, Calls,
  CallOf,      \* job -> the call it is made in
  Kind,        \* job -> the function that runs it
  Batches,     \* the calls of ingest_batch
  Sequential,  \* those with parallel = False
  Slots,       \* call -> max_concurrency; 1 when it is sequential
  GraphRAGEnabled   \* settings.graphrag_enabled

Kinds == {"document", "graphrag", "codebase", "codegraph"}

ASSUME PipelineAssumption ==
  /\ IsFiniteSet(Jobs)
  /\ CallOf \in [Jobs -> Calls]
  /\ Kind \in [Jobs -> Kinds]
  /\ Batches \subseteq Calls /\ Sequential \subseteq Batches
  /\ Slots \in [Calls -> Nat \ {0}]
  /\ \A c \in Sequential : Slots[c] = 1
  /\ GraphRAGEnabled \in BOOLEAN

VARIABLES
  at,          \* job -> where its coroutine is
  job,         \* job -> status and the age of updated_at
  registry,    \* _registry of the pipeline get_ingestion_pipeline returns
  graph,       \* its use_graphrag
  pipelines,   \* the pipelines there have been
  pipelineOf,  \* call -> the pipeline it runs on, 0 before it is made
  later,       \* history: listed job -> the jobs put or read since it was
  cancelled    \* history: the jobs a client was told are cancelled

pipelineVars == <<at, job, registry, graph, pipelines, pipelineOf, later, cancelled>>

Waits == {"chunking", "embedding", "indexing"}
Active == {"pending"} \cup Waits
JobPlaces == {"new", "waiting", "refused", "stuck", "ended"} \cup Waits
Job == [status : Active \cup {"completed", "failed"},
        age : Ages]

PipelineInit ==
  /\ at = [j \in Jobs |-> "new"]
  /\ job = [j \in Jobs |-> [status |-> "pending", age |-> 0]]
  /\ registry = NoKeys /\ graph = GraphRAGEnabled /\ pipelines = 1
  /\ pipelineOf = [c \in Calls |-> 0]
  /\ later = [j \in {} |-> {}] /\ cancelled = {}

Expired == {j \in Jobs : job[j].age > TTL}
JobsOf(c) == {j \in Jobs : CallOf[j] = c}
Running(c) == {j \in JobsOf(c) : at[j] \in Waits \cup {"stuck"}}

\* A chunker keeps the event loop.
LoopIsKept == \E j \in Jobs : at[j] = "stuck"

\* A document that is refused has no job.
Over(c) == \A j \in JobsOf(c) : at[j] \in {"ended", "refused"}

-----------------------------------------------------------------------------
(* get_ingestion_pipeline makes a new pipeline, with an empty registry,     *)
(* when it is asked for another use_graphrag than the last time; the       *)
(* settings may ask for GraphRAG in any case.                              *)

WithGraph(g) == g \/ GraphRAGEnabled

WithPipeline(g) ==
  /\ graph' = WithGraph(g)
  /\ pipelines' = IF WithGraph(g) = graph THEN pipelines ELSE pipelines + 1

RegistryFor(g) == IF WithGraph(g) = graph THEN registry ELSE NoKeys

\* history: the jobs of S are put or read
Used(S) ==
  later' = [k \in Keys(registry') |-> IF k \in S \/ k \notin Keys(registry) THEN {}
                                      ELSE later[k] \cup S]

\* The handler of the request gets its pipeline and calls it; the jobs of a
\* batch are made one by one as the semaphore lets them.
Call(c) ==
  /\ pipelineOf[c] = 0
  /\ LET g == c \notin Batches /\ \E j \in JobsOf(c) : Kind[j] = "graphrag" IN
     WithPipeline(g) /\ registry' = RegistryFor(g)
  /\ pipelineOf' = [pipelineOf EXCEPT ![c] = pipelines']
  /\ at' = [j \in Jobs |-> IF j \in JobsOf(c) THEN "waiting" ELSE at[j]]
  /\ Used({})
  /\ UNCHANGED <<job, cancelled>>

\* The registry this call's pipeline has is not the one that is read any
\* more when another pipeline was made since.
Register(j) ==
  IF pipelineOf[CallOf[j]] = pipelines
  THEN registry' = PutJob(registry, j, j, Expired) /\ Used({j})
  ELSE UNCHANGED <<registry, later>>

-----------------------------------------------------------------------------
(* How a job goes on. *)

\* `async with semaphore`
SlotFree(j) == Cardinality(Running(CallOf[j])) < Slots[CallOf[j]]

Goes(j, next) ==
  /\ at' = [at EXCEPT ![j] = next]
  /\ job' = [job EXCEPT ![j].status = next]

Ends(j, status) ==
  /\ at' = [at EXCEPT ![j] = "ended"]
  /\ job' = [job EXCEPT ![j] = [status |-> status, age |-> 0]]

\* Mutant: an exception leaves the status as it was.
Escapes(j) == at' = [at EXCEPT ![j] = "ended"] /\ UNCHANGED job

Raises(j) == Ends(j, "failed")

\* A codebase of which nothing was indexed has failed.
Finishes(j, indexed) ==
  IF indexed = 0 /\ Kind[j] \in {"codebase", "codegraph"}
  THEN Ends(j, "failed") ELSE Ends(j, "completed")

\* The chunker of the job does not return.
Sticks(j) ==
  /\ at' = [at EXCEPT ![j] = "stuck"]
  /\ job' = [job EXCEPT ![j].status = "chunking"]

\* The job is made and put.  Chunking waits only for a graph; the other
\* chunkers return or raise at once, or the one of documents never does.
Start(j) ==
  /\ at[j] = "waiting" /\ SlotFree(j)
  /\ Register(j)
  /\ IF Kind[j] \in {"graphrag", "codegraph"} THEN Goes(j, "chunking")
     ELSE Goes(j, "embedding") \/ Raises(j) \/ (Kind[j] = "document" /\ Sticks(j))
  /\ UNCHANGED <<graph, pipelines, pipelineOf, cancelled>>

\* A document of a batch without content or id: the parallel batch leaves it
\* out of its answer, the exception ends the sequential one.
Refuse(j) ==
  /\ at[j] = "waiting" /\ SlotFree(j)
  /\ CallOf[j] \in Batches
  /\ LET refused == IF CallOf[j] \in Sequential
                    THEN {k \in JobsOf(CallOf[j]) : at[k] = "waiting"} ELSE {j} IN
     at' = [k \in Jobs |-> IF k \in refused THEN "refused" ELSE at[k]]
  /\ UNCHANGED <<job, registry, graph, pipelines, pipelineOf, later, cancelled>>

\* process_document, index_codebase
Chunked(j) ==
  /\ at[j] = "chunking"
  /\ Goes(j, "embedding") \/ Raises(j) \/ (Kind[j] = "graphrag" /\ Sticks(j))

\* embed_chunks.  With nothing to index the job is over; a codebase without
\* a graph indexes in any case, and one with it may still index the graph.
Embedded(j) ==
  /\ at[j] = "embedding"
  /\ \/ Goes(j, "indexing")
     \/ Kind[j] # "codebase" /\ Finishes(j, 0)
     \/ Raises(j)

\* index_chunks, index_nodes, index_edges
Indexed(j) ==
  /\ at[j] = "indexing"
  /\ (\E indexed \in {0, 1} : Finishes(j, indexed)) \/ Raises(j)

Work(j) ==
  /\ Chunked(j) \/ Embedded(j) \/ Indexed(j)
  /\ UNCHANGED <<registry, graph, pipelines, pipelineOf, later, cancelled>>

-----------------------------------------------------------------------------
(* What others ask of the pipeline meanwhile.                               *)

Asks == WithPipeline(FALSE)

\* The response has told the client the id of the job.
IdIsKnown(j) ==
  /\ at[j] = "ended" /\ Over(CallOf[j])
  /\ CallOf[j] \in Sequential => \A k \in JobsOf(CallOf[j]) : at[k] = "ended"

\* get_job_status: registry.get
GetJob(j) ==
  /\ IdIsKnown(j)
  /\ Asks
  /\ LET d == RegistryFor(FALSE) IN
     /\ registry' = Look(d, j, Expired)
     /\ Used(IF Listed(d, j, Expired) THEN {j} ELSE {})
  /\ UNCHANGED <<at, job, pipelineOf, cancelled>>

\* GET /ingestion/jobs and /ingestion/jobs/{job_id}: they get the pipeline,
\* and fail over a coroutine.
RequestJobs ==
  /\ Asks
  /\ registry' = RegistryFor(FALSE) /\ Used({})
  /\ UNCHANGED <<at, job, pipelineOf, cancelled>>

\* DELETE /ingestion/jobs/{job_id}: the coroutine counts as success.
CancelJob(j) ==
  /\ IdIsKnown(j)
  /\ Asks
  /\ registry' = RegistryFor(FALSE) /\ Used({})
  /\ cancelled' = cancelled \cup {j}
  /\ UNCHANGED <<at, job, pipelineOf>>

TickJobs ==
  /\ job' = [j \in Jobs |-> IF j \in Keys(registry)
                            THEN [job[j] EXCEPT !.age = OlderJob(@)] ELSE job[j]]
  /\ UNCHANGED <<at, registry, graph, pipelines, pipelineOf, later, cancelled>>

PipelineNext ==
  \/ /\ ~LoopIsKept
     /\ \/ \E c \in Calls : Call(c)
        \/ \E j \in Jobs : Start(j) \/ Refuse(j) \/ Work(j) \/ GetJob(j) \/ CancelJob(j)
        \/ RequestJobs
  \/ TickJobs

PipelineSpec == PipelineInit /\ [][PipelineNext]_pipelineVars

\* The event loop resumes what is ready unless it is kept, and what a job
\* waits for answers or raises: the requests to models and stores have
\* timeouts.
PipelineFairness ==
  \A j \in Jobs : WF_pipelineVars(~LoopIsKept /\ (Start(j) \/ Refuse(j) \/ Work(j)))

-----------------------------------------------------------------------------
(* Properties. *)

PipelineTypeOK ==
  /\ at \in [Jobs -> JobPlaces]
  /\ job \in [Jobs -> Job]
  /\ IsOrdered(registry, Jobs, Jobs)
  /\ graph \in BOOLEAN /\ pipelines \in Nat
  /\ pipelineOf \in [Calls -> Nat]
  /\ later \in [Keys(registry) -> SUBSET Jobs]
  /\ cancelled \in SUBSET Jobs

\* The registry never exceeds max_size, whatever is put, read and expired in
\* between (put).
RegistryBounded == Cardinality(Keys(registry)) <= MaxJobs

\* A job is listed until it has expired, another pipeline takes over, or as
\* many other jobs were put or read since it was as there is room for - even
\* if it is still running (put, get, get_ingestion_pipeline).
JobsAreKept ==
  [][\A j \in Keys(registry) \ Keys(registry') :
       \/ j \in Expired
       \/ pipelines' # pipelines
       \/ Cardinality(later[j]) >= MaxJobs - 1]_pipelineVars

\* No call has more documents in work than its semaphore has slots, though
\* documents are refused and fail while others wait (ingest_batch).
SlotsRespected == \A c \in Calls : Cardinality(Running(c)) <= Slots[c]

\* However calls overlap, and whatever fails or is refused in them, there is
\* always again a moment when each call made so far has returned, and each
\* job it made has completed or failed - unless a chunker keeps the event
\* loop, which then serves nobody any more (ingest_batch, gather, chunk).
CallsReturn ==
  []<>(\/ LoopIsKept
       \/ \A c \in Calls : pipelineOf[c] # 0 =>
            /\ Over(c)
            /\ \A j \in JobsOf(c) : at[j] = "ended" => job[j].status \notin Active)

\* docs/api.md:399 and the answer {"status": "cancelled"}: what a client is
\* told is cancelled was at work and has failed (cancel_job).
CancelledHaveFailed == \A j \in cancelled : job[j].status = "failed"
=============================================================================
