----------------------------- MODULE JobRegistry -----------------------------
(***************************************************************************)
(* JobRegistry, the table of jobs that ingestion/pipeline.py and           *)
(* unified_ingestion/core/registry.py each define with the same code: at   *)
(* most max_size jobs by their id, the least recently put or read one      *)
(* first, and none whose updated_at is further back than ttl_seconds.      *)
(*                                                                         *)
(* The table holds references: a job that changes changes in the table     *)
(* too.  So a dictionary maps an id to a job, and what the job is now is   *)
(* kept by the modules that run the jobs.  The jobs that count as expired  *)
(* are passed as a set.  Nothing inside `async with self._lock` waits:     *)
(* every operation is one step.                                            *)
(***************************************************************************)
EXTENDS OrderedDict, Integers

CONSTANTS MaxJobs, TTL

ASSUME RegistryAssumption == MaxJobs \in Nat \ {0} /\ TTL \in Nat

\* updated_at as an age, which stops at the first value that counts as
\* expired.
Ages == 0..TTL + 1
Gone == TTL + 1
OlderJob(age) == IF age = Gone THEN Gone ELSE age + 1

\* _evict_expired
Unexpired(d, expired) == Without(d, {id \in Keys(d) : d.val[id] \in expired})

\* The while loop of put: there is never more than one job too many.
Room(d) == IF Cardinality(Keys(d)) >= MaxJobs THEN PopOldest(d) ELSE d

PutJob(d, id, job, expired) == Assign(Room(Unexpired(d, expired)), id, job)

\* get finds a job
Listed(d, id, expired) == id \in Keys(d) /\ d.val[id] \notin expired

\* Mutant: a job that is read keeps its place.
LookStays(d, id, expired) == IF Listed(d, id, expired) THEN d ELSE Without(d, {id})

\* get
Look(d, id, expired) ==
  IF Listed(d, id, expired) THEN MoveToEnd(d, id) ELSE Without(d, {id})
=============================================================================
