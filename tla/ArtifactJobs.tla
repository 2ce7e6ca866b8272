---------------------------- MODULE ArtifactJobs ----------------------------
(***************************************************************************)
(* The jobs of the unified ingestion API (unified_ingestion/api.py):       *)
(* POST /artifacts/ingest, which registers its job before and after the    *)
(* work, the batch, zip, git and filesystem requests, which register a job *)
(* only after it, and the requests that list, read and cancel jobs.        *)
(*                                                                         *)
(* The id of a job is made from the source, not from the request: jobs of  *)
(* requests that overlap may have the same id.  Each is an object of its   *)
(* own; the registry has the one that was put last.                        *)
(*                                                                         *)
(* Time.  A job that ends gets the time of the event loop, which counts    *)
(* from the start of the machine, as its updated_at, and the registry      *)
(* compares it with the time of day: from then on it counts as expired.    *)
(*                                                                         *)
(* Left out: the chunks and metadata of a job, and items whose path or     *)
(* archive cannot be read, which make no job.                              *)
(***************************************************************************)
EXTENDS JobRegistry

CONSTANTS
  Artifacts,   \* the jobs, one for each item of a request
  Ids, IdOf,   \* artifact -> job_id
  Requests, RequestOf,
  Order,       \* artifact -> its place among the items of its request
  Parallel,    \* the batch requests whose items run together
  AtOnce       \* the requests that register their job when they start

ASSUME ArtifactAssumption ==
  /\ IsFiniteSet(Ids)
  /\ IdOf \in [Artifacts -> Ids]
  /\ RequestOf \in [Artifacts -> Requests]
  /\ Order \in [Artifacts -> Nat]
  /\ Parallel \subseteq Requests /\ AtOnce \subseteq Requests

VARIABLES
  step,        \* artifact -> new, handled or ended
  artifact,    \* artifact -> status and the age of updated_at
  listed,      \* _jobs of the registry: id -> artifact
  lastDone     \* history: id -> the artifact that ended last, if any did

artifactVars == <<step, artifact, listed, lastDone>>

None == "none"
Artifact == [status : {"processing", "completed", "failed"}, age : Ages]

ArtifactInit ==
  /\ step = [a \in Artifacts |-> "new"]
  /\ artifact = [a \in Artifacts |-> [status |-> "processing", age |-> 0]]
  /\ listed = NoKeys
  /\ lastDone = [id \in Ids |-> None]

Outdated == {a \in Artifacts : artifact[a].age > TTL}

\* asyncio.get_event_loop().time(), for the registry
LoopTime == Gone

\* The items of a request that is not a parallel batch come one by one.
Turn(a) ==
  RequestOf[a] \in Parallel \/
  \A b \in Artifacts : RequestOf[b] = RequestOf[a] /\ Order[b] < Order[a] => step[b] = "ended"

\* A job is made and its handler is called.
BeginItem(a) ==
  /\ step[a] = "new" /\ Turn(a)
  /\ step' = [step EXCEPT ![a] = "handled"]
  /\ listed' = IF RequestOf[a] \in AtOnce THEN PutJob(listed, IdOf[a], a, Outdated) ELSE listed
  /\ UNCHANGED <<artifact, lastDone>>

\* history
Done(a) == lastDone' = [lastDone EXCEPT ![IdOf[a]] = a]

\* Mutant: what was registered at the start is not registered again.
RegisterOnce(a) ==
  listed' = IF RequestOf[a] \in AtOnce THEN listed
            ELSE PutJob(listed, IdOf[a], a, Outdated')

\* the last put of ingest_artifact, _process_job and ingest_git
RegisterEnded(a) == listed' = PutJob(listed, IdOf[a], a, Outdated')

\* The handler has returned or raised.
EndItem(a) ==
  /\ step[a] = "handled"
  /\ step' = [step EXCEPT ![a] = "ended"]
  /\ \E status \in {"completed", "failed"} :
       artifact' = [artifact EXCEPT ![a] = [status |-> status, age |-> LoopTime]]
  /\ RegisterEnded(a)
  /\ Done(a)

\* GET /artifacts/jobs/{job_id}
ReadItem(id) ==
  /\ listed' = Look(listed, id, Outdated)
  /\ UNCHANGED <<step, artifact, lastDone>>

\* DELETE /artifacts/jobs/{job_id}: the job that is found is failed and put
\* again; its handler is not told and goes on.
CancelItem(id) ==
  /\ Listed(listed, id, Outdated)
  /\ LET a == listed.val[id] IN
     /\ artifact' = [artifact EXCEPT ![a] = [status |-> "failed", age |-> LoopTime]]
     /\ listed' = PutJob(Look(listed, id, Outdated), id, a, Outdated')
  /\ UNCHANGED <<step, lastDone>>

TickItems ==
  /\ artifact' = [a \in Artifacts |-> IF step[a] = "new" THEN artifact[a]
                                      ELSE [artifact[a] EXCEPT !.age = OlderJob(@)]]
  /\ UNCHANGED <<step, listed, lastDone>>

ArtifactNext ==
  \/ \E a \in Artifacts : BeginItem(a) \/ EndItem(a)
  \/ \E id \in Ids : ReadItem(id) \/ CancelItem(id)
  \/ TickItems

ArtifactSpec == ArtifactInit /\ [][ArtifactNext]_artifactVars

-----------------------------------------------------------------------------
(* Properties. *)

ArtifactTypeOK ==
  /\ step \in [Artifacts -> {"new", "handled", "ended"}]
  /\ artifact \in [Artifacts -> Artifact]
  /\ IsOrdered(listed, Ids, Artifacts)
  /\ lastDone \in [Ids -> Artifacts \cup {None}]

\* The registry never exceeds max_size, though two puts of a job and puts of
\* other jobs with its id come in any order (put).
ListedBounded == Cardinality(Keys(listed)) <= MaxJobs

\* Once no request works on a source any more, the job that is listed under
\* its id is the one that ended last: an earlier request that ends later
\* wins, and never one that only started later (ingest_artifact).
ListedIsLatest ==
  \A id \in Keys(listed) :
    (\A a \in Artifacts : IdOf[a] = id => step[a] # "handled") =>
      listed.val[id] = lastDone[id]

\* registry.py:12, ttl_seconds = 3600, and GET /artifacts/jobs/{job_id}: a
\* job that has just ended is found, with its status and its progress
\* (ingest_artifact, JobRegistry.get).
EndedIsFound ==
  [][\A a \in Artifacts : step[a] = "handled" /\ step'[a] = "ended" =>
       Listed(listed', IdOf[a], Outdated')]_artifactVars
=============================================================================
