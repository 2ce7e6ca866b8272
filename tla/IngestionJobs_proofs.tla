------------------------ MODULE IngestionJobs_proofs ------------------------
(***************************************************************************)
(* Theorems about PipelineJobs and ArtifactJobs, for any jobs, calls,      *)
(* kinds, requests, slots, lifetime and capacity of the registries.        *)
(***************************************************************************)
EXTENDS PipelineJobs, ArtifactJobs, Data_proofs

-----------------------------------------------------------------------------
(***************************************************************************)
(* The operations of a registry                                            *)
(***************************************************************************)

\* Deleting what has expired keeps the rest.
LEMMA UnexpiredOrdered ==
  ASSUME NEW K, NEW V, NEW d, IsOrdered(d, K, V), NEW X
  PROVE  /\ IsOrdered(Unexpired(d, X), K, V)
         /\ Keys(Unexpired(d, X)) = {id \in Keys(d) : d.val[id] \notin X}
         /\ \A id \in Keys(Unexpired(d, X)) : Unexpired(d, X).val[id] = d.val[id]
         /\ Unexpired(d, X).before \subseteq d.before
<1> DEFINE S == {id \in Keys(d) : d.val[id] \in X}
<1>1. Unexpired(d, X) = Without(d, S)
  BY DEF Unexpired
<1>2. Without(d, S).before \subseteq d.before
  BY DEF Without
<1>3. Keys(d) \ S = {id \in Keys(d) : d.val[id] \notin X}
  OBVIOUS
<1> HIDE DEF S
<1> QED BY <1>1, <1>2, <1>3, WithoutOrdered

\* Room for one more: a full registry loses the key all others come after.
LEMMA RoomOrdered ==
  ASSUME NEW K, NEW V, NEW d, IsOrdered(d, K, V), Cardinality(Keys(d)) <= MaxJobs
  PROVE  /\ IsOrdered(Room(d), K, V) /\ Keys(Room(d)) \subseteq Keys(d)
         /\ Cardinality(Keys(Room(d))) <= MaxJobs - 1
         /\ \A id \in Keys(Room(d)) : Room(d).val[id] = d.val[id]
         /\ Room(d).before \subseteq d.before
         /\ \A m \in Keys(d) \ Keys(Room(d)) :
              /\ Cardinality(Keys(d) \ {m}) = MaxJobs - 1
              /\ \A j \in Keys(d) \ {m} : <<m, j>> \in d.before
<1>1. /\ Cardinality(Keys(d)) \in Nat /\ IsFiniteSet(Keys(d))
      /\ MaxJobs \in Nat \ {0}
  BY RegistryAssumption, FS_CardinalityType DEF IsOrdered
<1>2. CASE ~ Cardinality(Keys(d)) >= MaxJobs
  BY <1>1, <1>2 DEF Room
<1>3. CASE Cardinality(Keys(d)) >= MaxJobs
  <2>1. Room(d) = PopOldest(d)
    BY <1>3 DEF Room
  <2>2. Keys(d) # {}
    BY <1>1, <1>3, FS_EmptySet
  <2>3. PopOldest(d).before \subseteq d.before
    BY DEF PopOldest, Without
  <2>4. /\ Oldest(d) \in Keys(d)
        /\ \A j \in Keys(d) \ {Oldest(d)} : <<Oldest(d), j>> \in d.before
    BY <2>2, OldestIsFirst
  <2>5. /\ IsOrdered(PopOldest(d), K, V)
        /\ Keys(PopOldest(d)) = Keys(d) \ {Oldest(d)}
        /\ \A k \in Keys(PopOldest(d)) : PopOldest(d).val[k] = d.val[k]
        /\ Cardinality(Keys(d)) \in Nat
        /\ Cardinality(Keys(PopOldest(d))) = Cardinality(Keys(d)) - 1
    BY <2>2, PopOldestOrdered
  <2>6. Cardinality(Keys(d)) = MaxJobs
    BY <1>1, <1>3
  <2>7. ASSUME NEW m \in Keys(d) \ Keys(PopOldest(d))
        PROVE  /\ Cardinality(Keys(d) \ {m}) = MaxJobs - 1
               /\ \A j \in Keys(d) \ {m} : <<m, j>> \in d.before
    <3>1. m = Oldest(d)
      BY <2>4, <2>5
    <3> QED BY <3>1, <2>4, <2>5, <2>6
  <2>8. Cardinality(Keys(PopOldest(d))) <= MaxJobs - 1
    BY <2>5, <2>6, <1>1
  <2>9. Keys(PopOldest(d)) \subseteq Keys(d)
    BY <2>5
  <2> QED BY <2>1, <2>3, <2>5, <2>7, <2>8, <2>9
<1> QED BY <1>2, <1>3

\* put: a key that leaves had an expired job, or MaxJobs - 1 others after it.
LEMMA PutOrdered ==
  ASSUME NEW K, NEW V, NEW d, IsOrdered(d, K, V), Cardinality(Keys(d)) <= MaxJobs,
         NEW id \in K, NEW v \in V, NEW X
  PROVE  LET e == PutJob(d, id, v, X) IN
         /\ IsOrdered(e, K, V) /\ Cardinality(Keys(e)) <= MaxJobs
         /\ id \in Keys(e) /\ Keys(e) \subseteq Keys(d) \cup {id}
         /\ e.val[id] = v
         /\ \A k \in Keys(e) \ {id} : e.val[k] = d.val[k]
         /\ \A k, j \in Keys(e) : <<k, j>> \in e.before => <<k, j>> \in d.before \/ j = id
         /\ \A m \in Keys(d) \ Keys(e) :
              \/ d.val[m] \in X
              \/ \E S \in SUBSET Keys(d) :
                   Cardinality(S) = MaxJobs - 1 /\ \A j \in S : <<m, j>> \in d.before
<1> DEFINE u == Unexpired(d, X)  r == Room(u)  e == Assign(r, id, v)
<1>1. /\ IsOrdered(u, K, V) /\ Keys(u) = {k \in Keys(d) : d.val[k] \notin X}
      /\ \A k \in Keys(u) : u.val[k] = d.val[k]
      /\ u.before \subseteq d.before
  BY UnexpiredOrdered
<1>2. Cardinality(Keys(u)) <= MaxJobs
  <2>1. IsFiniteSet(Keys(d)) /\ Keys(u) \subseteq Keys(d) /\ MaxJobs \in Nat
    BY <1>1, RegistryAssumption DEF IsOrdered
  <2>2. /\ Cardinality(Keys(u)) <= Cardinality(Keys(d)) /\ Cardinality(Keys(u)) \in Nat
        /\ Cardinality(Keys(d)) \in Nat
    BY <2>1, FS_Subset, FS_CardinalityType
  <2> QED BY <2>1, <2>2
<1> HIDE DEF u
<1>3. /\ IsOrdered(r, K, V) /\ Keys(r) \subseteq Keys(u)
      /\ Cardinality(Keys(r)) <= MaxJobs - 1
      /\ \A k \in Keys(r) : r.val[k] = u.val[k]
      /\ r.before \subseteq u.before
      /\ \A m \in Keys(u) \ Keys(r) :
           /\ Cardinality(Keys(u) \ {m}) = MaxJobs - 1
           /\ \A j \in Keys(u) \ {m} : <<m, j>> \in u.before
  BY <1>1, <1>2, RoomOrdered
<1> HIDE DEF r
<1>4. /\ IsOrdered(e, K, V) /\ Keys(e) = Keys(r) \cup {id}
      /\ \A j \in Keys(r) \cup {id} : e.val[j] = IF j = id THEN v ELSE r.val[j]
  BY <1>3, AssignOrdered
<1>5. Cardinality(Keys(e)) <= MaxJobs
  <2>1. IsFiniteSet(Keys(r)) /\ Cardinality(Keys(r)) \in Nat /\ MaxJobs \in Nat
    BY <1>3, RegistryAssumption, FS_CardinalityType DEF IsOrdered
  <2>2. \/ Cardinality(Keys(r) \cup {id}) = Cardinality(Keys(r))
        \/ Cardinality(Keys(r) \cup {id}) = Cardinality(Keys(r)) + 1
    BY <2>1, FS_AddElement
  <2> QED BY <2>1, <2>2, <1>3, <1>4
<1>6. \A k, j \in Keys(e) : <<k, j>> \in e.before => <<k, j>> \in d.before \/ j = id
  BY <1>1, <1>3 DEF Assign
<1>7. ASSUME NEW m \in Keys(d) \ Keys(e), d.val[m] \notin X
      PROVE  \E S \in SUBSET Keys(d) :
               Cardinality(S) = MaxJobs - 1 /\ \A j \in S : <<m, j>> \in d.before
  <2>1. m \in Keys(u) \ Keys(r)
    BY <1>1, <1>4, <1>7
  <2>2. /\ Keys(u) \ {m} \in SUBSET Keys(d)
        /\ Cardinality(Keys(u) \ {m}) = MaxJobs - 1
        /\ \A j \in Keys(u) \ {m} : <<m, j>> \in d.before
    BY <2>1, <1>1, <1>3
  <2> QED BY <2>2
<1>8. PutJob(d, id, v, X) = e
  BY DEF PutJob, e, r, u
<1>9. Keys(e) \subseteq Keys(d) \cup {id}
  BY <1>1, <1>3, <1>4
<1>10. \A k \in Keys(e) \ {id} : e.val[k] = d.val[k]
  BY <1>1, <1>3, <1>4
<1> HIDE DEF e
<1> QED BY <1>4, <1>5, <1>6, <1>7, <1>8, <1>9, <1>10

\* get
LEMMA LookOrdered ==
  ASSUME NEW K, NEW V, NEW d, IsOrdered(d, K, V), NEW id, NEW X
  PROVE  LET e == Look(d, id, X) IN
         /\ IsOrdered(e, K, V)
         /\ Keys(e) = IF Listed(d, id, X) THEN Keys(d) ELSE Keys(d) \ {id}
         /\ \A k \in Keys(e) : e.val[k] = d.val[k]
         /\ \A k, j \in Keys(e) : <<k, j>> \in e.before =>
              \/ <<k, j>> \in d.before /\ (Listed(d, id, X) => k # id)
              \/ Listed(d, id, X) /\ j = id /\ k # id
<1>1. CASE Listed(d, id, X)
  <2>1. Look(d, id, X) = MoveToEnd(d, id) /\ id \in Keys(d)
    BY <1>1 DEF Look, Listed
  <2>2. \A k, j : <<k, j>> \in MoveToEnd(d, id).before =>
          \/ <<k, j>> \in d.before /\ k # id
          \/ j = id /\ k # id
    BY DEF MoveToEnd
  <2> QED BY <1>1, <2>1, <2>2, MoveToEndOrdered
<1>2. CASE ~Listed(d, id, X)
  <2>1. Look(d, id, X) = Without(d, {id})
    BY <1>2 DEF Look
  <2>2. Without(d, {id}).before \subseteq d.before
    BY DEF Without
  <2>3. /\ IsOrdered(Without(d, {id}), K, V)
        /\ Keys(Without(d, {id})) = Keys(d) \ {id}
        /\ \A k \in Keys(d) \ {id} : Without(d, {id}).val[k] = d.val[k]
    BY WithoutOrdered
  <2> QED BY <1>2, <2>1, <2>2, <2>3
<1> QED BY <1>1, <1>2

\* A registry does not grow by a deletion or a get.
LEMMA FewerKeys ==
  ASSUME NEW K, NEW V, NEW d, IsOrdered(d, K, V), Cardinality(Keys(d)) <= MaxJobs,
         NEW S \in SUBSET Keys(d)
  PROVE  Cardinality(S) <= MaxJobs
<1>1. IsFiniteSet(Keys(d)) /\ MaxJobs \in Nat
  BY RegistryAssumption DEF IsOrdered
<1>2. /\ Cardinality(S) <= Cardinality(Keys(d))
      /\ Cardinality(S) \in Nat /\ Cardinality(Keys(d)) \in Nat
  BY <1>1, FS_Subset, FS_CardinalityType
<1> QED BY <1>1, <1>2

-----------------------------------------------------------------------------
(***************************************************************************)
(* The pipeline                                                            *)
(***************************************************************************)

\* A registry and the history of its jobs: jobs by their own id, and for each
\* at least the jobs that come after it.
RegistryOK(d, l) ==
  /\ IsOrdered(d, Jobs, Jobs) /\ Cardinality(Keys(d)) <= MaxJobs
  /\ \A k \in Keys(d) : d.val[k] = k
  /\ l \in [Keys(d) -> SUBSET Jobs]
  /\ \A k, j \in Keys(d) : <<k, j>> \in d.before => j \in l[k]

\* Where jobs are: not before their call.
JobsOK ==
  /\ at \in [Jobs -> JobPlaces]
  /\ job \in [Jobs -> Job]
  /\ graph \in BOOLEAN /\ pipelines \in Nat \ {0}
  /\ pipelineOf \in [Calls -> Nat] /\ cancelled \in SUBSET Jobs
  /\ \A j \in Jobs : at[j] # "new" => pipelineOf[CallOf[j]] # 0

\* A job is made, and at work or over.
Made == Waits \cup {"stuck", "ended"}

\* What the registry may list.
ListedAreMade == \A j \in Keys(registry) : at[j] \in Made

\* The inductive invariant behind the properties of the pipeline.
PipelineInv == JobsOK /\ RegistryOK(registry, later) /\ ListedAreMade /\ SlotsRespected

LEMMA PipelineConstants ==
  /\ IsFiniteSet(Jobs) /\ CallOf \in [Jobs -> Calls] /\ Kind \in [Jobs -> Kinds]
  /\ Slots \in [Calls -> Nat \ {0}] /\ GraphRAGEnabled \in BOOLEAN
  /\ MaxJobs \in Nat \ {0} /\ TTL \in Nat
BY PipelineAssumption, RegistryAssumption

LEMMA EmptyRegistry == IsOrdered(NoKeys, Jobs, Jobs) /\ Keys(NoKeys) = {} /\
                       Cardinality(Keys(NoKeys)) <= MaxJobs /\ NoKeys.before = {}
<1>1. NoKeys.before = {}
  BY DEF NoKeys
<1> QED BY <1>1, NoKeysOrdered, FS_EmptySet, PipelineConstants

LEMMA PipelineInitInv == PipelineInit => PipelineInv
<1> SUFFICES ASSUME PipelineInit PROVE PipelineInv
  OBVIOUS
<1>1. JobsOK
  <2>1. 0 \in Ages
    BY PipelineConstants DEF Ages
  <2>2. [status |-> "pending", age |-> 0] \in Job
    BY <2>1 DEF Job, Active
  <2>3. job \in [Jobs -> Job] /\ \A j \in Jobs : job[j].status = "pending"
    BY <2>2 DEF PipelineInit
  <2>4. \A j \in Jobs : at[j] = "new"
    BY DEF PipelineInit
  <2>5. /\ at \in [Jobs -> JobPlaces]
        /\ pipelineOf \in [Calls -> Nat]
        /\ graph \in BOOLEAN /\ pipelines \in Nat \ {0}
    <3>1. /\ at = [j \in Jobs |-> "new"] /\ pipelineOf = [c \in Calls |-> 0]
          /\ pipelines = 1
      BY DEF PipelineInit
    <3>2. graph \in BOOLEAN
      BY PipelineConstants, Zenon DEF PipelineInit
    <3>3. at \in [Jobs -> JobPlaces]
      BY <3>1 DEF JobPlaces
    <3> QED BY <3>1, <3>2, <3>3
  <2>6. cancelled \in SUBSET Jobs
    BY DEF PipelineInit
  <2> QED BY <2>3, <2>4, <2>5, <2>6 DEF JobsOK
<1>2. RegistryOK(registry, later)
  <2>1. registry = NoKeys /\ later = [j \in {} |-> {}]
    BY DEF PipelineInit
  <2>2. later \in [Keys(registry) -> SUBSET Jobs]
    BY <2>1, EmptyRegistry
  <2> QED BY <2>1, <2>2, EmptyRegistry DEF RegistryOK
<1>3. ListedAreMade
  BY EmptyRegistry DEF PipelineInit, ListedAreMade
<1>4. SlotsRespected
  <2>1. \A c \in Calls : Running(c) = {}
    BY DEF PipelineInit, Running, JobsOf, Waits
  <2> QED BY <2>1, FS_EmptySet, PipelineConstants DEF SlotsRespected
<1> QED BY <1>1, <1>2, <1>3, <1>4 DEF PipelineInv

\* The registry a request finds.
LEMMA RegistryFound ==
  ASSUME RegistryOK(registry, later), NEW g
  PROVE  LET d == RegistryFor(g) IN
         /\ IsOrdered(d, Jobs, Jobs) /\ Cardinality(Keys(d)) <= MaxJobs
         /\ Keys(d) \subseteq Keys(registry)
         /\ \A k \in Keys(d) : d.val[k] = k
         /\ d.before \subseteq registry.before
BY EmptyRegistry DEF RegistryFor, RegistryOK

\* The jobs of S are put or read, and only they change their place.
LEMMA UsedKeeps ==
  ASSUME RegistryOK(registry, later), NEW S \in SUBSET Jobs, Used(S),
         IsOrdered(registry', Jobs, Jobs), Cardinality(Keys(registry')) <= MaxJobs,
         \A k \in Keys(registry') : registry'.val[k] = k,
         \A k, j \in Keys(registry') : <<k, j>> \in registry'.before =>
           /\ k \notin S
           /\ \/ k \in Keys(registry) /\ j \in Keys(registry) /\ <<k, j>> \in registry.before
              \/ k \in Keys(registry) /\ j \in S
  PROVE  RegistryOK(registry', later')
<1>1. \A k \in Keys(registry) : later[k] \in SUBSET Jobs
  BY DEF RegistryOK
<1>2. later' = [k \in Keys(registry') |->
                  IF k \in S \/ k \notin Keys(registry) THEN {} ELSE later[k] \cup S]
  BY DEF Used, Keys
<1>3. later' \in [Keys(registry') -> SUBSET Jobs]
  BY <1>1, <1>2
<1>4. ASSUME NEW k \in Keys(registry'), NEW j \in Keys(registry'),
             <<k, j>> \in registry'.before
      PROVE  j \in later'[k]
  <2>1. later'[k] = later[k] \cup S
    BY <1>2, <1>4
  <2> QED BY <1>4, <2>1 DEF RegistryOK
<1> QED BY <1>3, <1>4 DEF RegistryOK

\* A request that only asks for the pipeline.
LEMMA AskedRegistry ==
  ASSUME PipelineInv, NEW g, registry' = RegistryFor(g), Used({})
  PROVE  RegistryOK(registry', later') /\ Keys(registry') \subseteq Keys(registry)
<1>1. RegistryOK(registry, later)
  BY DEF PipelineInv
<1> DEFINE d == RegistryFor(g)
<1>2. /\ IsOrdered(d, Jobs, Jobs) /\ Cardinality(Keys(d)) <= MaxJobs
      /\ Keys(d) \subseteq Keys(registry)
      /\ \A k \in Keys(d) : d.val[k] = k
      /\ d.before \subseteq registry.before
  BY <1>1, RegistryFound
<1>3. registry' = d
  OBVIOUS
<1> HIDE DEF d
<1> QED BY <1>1, <1>2, <1>3, UsedKeeps

LEMMA ReadsRegistry ==
  ASSUME PipelineInv, NEW i \in Jobs, GetJob(i)
  PROVE  RegistryOK(registry', later') /\ Keys(registry') \subseteq Keys(registry)
<1> DEFINE d == RegistryFor(FALSE)  e == Look(d, i, Expired)
           S == IF Listed(d, i, Expired) THEN {i} ELSE {}
<1>1. registry' = e /\ Used(S)
  BY DEF GetJob
<1>2. RegistryOK(registry, later)
  BY DEF PipelineInv
<1>3. /\ IsOrdered(d, Jobs, Jobs) /\ Cardinality(Keys(d)) <= MaxJobs
      /\ Keys(d) \subseteq Keys(registry)
      /\ \A k \in Keys(d) : d.val[k] = k
      /\ d.before \subseteq registry.before
  BY <1>2, RegistryFound
<1> HIDE DEF d
<1>5. /\ IsOrdered(e, Jobs, Jobs)
      /\ Keys(e) = IF Listed(d, i, Expired) THEN Keys(d) ELSE Keys(d) \ {i}
      /\ \A k \in Keys(e) : e.val[k] = d.val[k]
      /\ \A k, j \in Keys(e) : <<k, j>> \in e.before =>
           \/ <<k, j>> \in d.before /\ (Listed(d, i, Expired) => k # i)
           \/ Listed(d, i, Expired) /\ j = i /\ k # i
  BY <1>3, LookOrdered
<1> HIDE DEF e
<1>6. Cardinality(Keys(e)) <= MaxJobs
  BY <1>3, <1>5, FewerKeys
<1>7. \A k \in Keys(e) : e.val[k] = k
  BY <1>3, <1>5
<1>8. \A k, j \in Keys(e) : <<k, j>> \in e.before =>
        /\ k \notin S
        /\ \/ k \in Keys(registry) /\ j \in Keys(registry) /\ <<k, j>> \in registry.before
           \/ k \in Keys(registry) /\ j \in S
  BY <1>3, <1>5
<1>9. Keys(e) \subseteq Keys(registry) /\ S \in SUBSET Jobs
  BY <1>3, <1>5
<1> HIDE DEF S
<1> QED BY <1>1, <1>2, <1>5, <1>6, <1>7, <1>8, <1>9, UsedKeeps

LEMMA RegisterRegistry ==
  ASSUME PipelineInv, NEW i \in Jobs, at[i] = "waiting", Register(i)
  PROVE  RegistryOK(registry', later') /\ Keys(registry') \subseteq Keys(registry) \cup {i}
<1>1. CASE UNCHANGED <<registry, later>>
  BY <1>1 DEF PipelineInv, RegistryOK, Keys
<1>2. CASE registry' = PutJob(registry, i, i, Expired) /\ Used({i})
  <2> DEFINE e == PutJob(registry, i, i, Expired)
  <2>1. RegistryOK(registry, later) /\ i \notin Keys(registry)
    BY DEF PipelineInv, ListedAreMade, Made, Waits
  <2>2. /\ IsOrdered(e, Jobs, Jobs) /\ Cardinality(Keys(e)) <= MaxJobs
        /\ Keys(e) \subseteq Keys(registry) \cup {i} /\ e.val[i] = i
        /\ \A k \in Keys(e) \ {i} : e.val[k] = registry.val[k]
        /\ \A k, j \in Keys(e) : <<k, j>> \in e.before => <<k, j>> \in registry.before \/ j = i
    BY <2>1, PutOrdered DEF RegistryOK
  <2> HIDE DEF e
  <2>3. \A k \in Keys(e) : e.val[k] = k
    BY <2>1, <2>2 DEF RegistryOK
  <2>4. \A k, j \in Keys(e) : <<k, j>> \in e.before =>
          /\ k \notin {i}
          /\ \/ k \in Keys(registry) /\ j \in Keys(registry) /\ <<k, j>> \in registry.before
             \/ k \in Keys(registry) /\ j \in {i}
    <3>1. SUFFICES ASSUME NEW k \in Keys(e), NEW j \in Keys(e), <<k, j>> \in e.before
                   PROVE  /\ k # i /\ k \in Keys(registry)
                          /\ \/ j \in Keys(registry) /\ <<k, j>> \in registry.before
                             \/ j = i
      OBVIOUS
    <3>2. CASE <<k, j>> \in registry.before
      <4>1. registry.before \in SUBSET (Keys(registry) \X Keys(registry))
        BY <2>1 DEF RegistryOK, IsOrdered
      <4> QED BY <3>2, <4>1, <2>1
    <3>3. CASE j = i
      <4>1. <<i, i>> \notin e.before
        BY <2>2, <3>3 DEF IsOrdered
      <4> QED BY <3>1, <3>3, <4>1, <2>2
    <3> QED BY <3>1, <3>2, <3>3, <2>2
  <2> QED BY <1>2, <2>1, <2>2, <2>3, <2>4, UsedKeeps DEF e
<1> QED BY <1>1, <1>2 DEF Register

-----------------------------------------------------------------------------
(* What the steps do to the jobs. *)

\* Every step of a job that its call has made: it goes on to a wait, sticks
\* or ends.
JobMoves(j) ==
  \/ \E next \in Waits : Goes(j, next)
  \/ Sticks(j) \/ Ends(j, "failed") \/ Ends(j, "completed")

LEMMA JobGoes ==
  ASSUME JobsOK, NEW j \in Jobs, at[j] # "new", JobMoves(j),
         UNCHANGED <<graph, pipelines, pipelineOf, cancelled>>
  PROVE  /\ JobsOK' /\ at'[j] \in Made
         /\ \A k \in Jobs \ {j} : at'[k] = at[k]
<1>1. \A k \in Jobs \ {j} : at'[k] = at[k]
  BY DEF JobsOK, JobMoves, Goes, Sticks, Ends
<1>2. /\ at'[j] \in Made
      /\ at' \in [Jobs -> JobPlaces] /\ job' \in [Jobs -> Job]
  <2>1. 0 \in Ages
    BY PipelineConstants DEF Ages
  <2>2. ASSUME NEW next \in Waits, Goes(j, next)
        PROVE  /\ at'[j] = next
               /\ at' \in [Jobs -> JobPlaces] /\ job' \in [Jobs -> Job]
    BY <2>2 DEF Goes, JobsOK, Job, Active, JobPlaces
  <2>3. ASSUME Sticks(j)
        PROVE  /\ at'[j] = "stuck"
               /\ at' \in [Jobs -> JobPlaces] /\ job' \in [Jobs -> Job]
    BY <2>3 DEF Sticks, JobsOK, Job, Active, Waits, JobPlaces
  <2>4. ASSUME NEW status \in {"failed", "completed"}, Ends(j, status)
        PROVE  /\ at'[j] = "ended"
               /\ at' \in [Jobs -> JobPlaces] /\ job' \in [Jobs -> Job]
    BY <2>1, <2>4 DEF Ends, JobsOK, Job, JobPlaces
  <2> QED BY <2>2, <2>3, <2>4 DEF JobMoves, Made
<1>3. pipelineOf[CallOf[j]] # 0
  BY DEF JobsOK
<1>4. \A k \in Jobs : at'[k] # "new" => pipelineOf'[CallOf[k]] # 0
  BY <1>1, <1>3 DEF JobsOK
<1> QED BY <1>1, <1>2, <1>4 DEF JobsOK

\* What Start and Work do to their job.
LEMMA StartGoes == ASSUME NEW j \in Jobs, Start(j) PROVE JobMoves(j)
BY DEF Start, Waits, Raises, JobMoves

LEMMA WorkGoes ==
  ASSUME NEW j \in Jobs, Work(j)
  PROVE  JobMoves(j) /\ at[j] \in Waits
BY DEF Work, Chunked, Embedded, Indexed, Finishes, Raises, Waits, JobMoves

\* Documents that are refused leave the queue of their call.
LEMMA RefusedJobs ==
  ASSUME JobsOK, NEW j \in Jobs, Refuse(j)
  PROVE  /\ JobsOK'
         /\ \A k \in Jobs : at'[k] = at[k] \/ (at[k] = "waiting" /\ at'[k] = "refused")
<1>1. PICK S \in SUBSET {k \in Jobs : at[k] = "waiting"} :
        at' = [k \in Jobs |-> IF k \in S THEN "refused" ELSE at[k]]
  <2>1. {j} \subseteq {k \in Jobs : at[k] = "waiting"}
    BY DEF Refuse
  <2>2. {k \in JobsOf(CallOf[j]) : at[k] = "waiting"} \subseteq {k \in Jobs : at[k] = "waiting"}
    BY DEF JobsOf
  <2>3. \/ at' = [k \in Jobs |-> IF k \in {j} THEN "refused" ELSE at[k]]
        \/ at' = [k \in Jobs |-> IF k \in {i \in JobsOf(CallOf[j]) : at[i] = "waiting"}
                                 THEN "refused" ELSE at[k]]
    BY DEF Refuse
  <2> QED BY <2>1, <2>2, <2>3
<1>2. \A i \in Jobs : at'[i] = IF i \in S THEN "refused" ELSE at[i]
  BY <1>1
<1>3. at' \in [Jobs -> JobPlaces]
  BY <1>1 DEF JobsOK, JobPlaces
<1>4. \A i \in Jobs : i \in S => at[i] = "waiting" /\ at'[i] = "refused"
  BY <1>2
<1>5. \A i \in Jobs : i \notin S => at'[i] = at[i]
  BY <1>2
<1>6. \A i \in Jobs : at'[i] = at[i] \/ (at[i] = "waiting" /\ at'[i] = "refused")
  BY <1>4, <1>5
<1>7. /\ job' = job /\ registry' = registry /\ graph' = graph
      /\ pipelines' = pipelines /\ pipelineOf' = pipelineOf
      /\ later' = later /\ cancelled' = cancelled
  BY DEF Refuse
<1>8. \A i \in Jobs : at'[i] # "new" => pipelineOf'[CallOf[i]] # 0
  BY <1>6, <1>7 DEF JobsOK
<1>9. JobsOK'
  BY <1>3, <1>7, <1>8 DEF JobsOK
<1> QED BY <1>6, <1>9

\* The pipeline a request asks for.
LEMMA AsksTyped ==
  ASSUME JobsOK, NEW g, WithPipeline(g)
  PROVE  pipelines' \in Nat \ {0} /\ graph' \in BOOLEAN
<1>1. graph' = (g \/ GraphRAGEnabled) /\ (pipelines' = pipelines \/ pipelines' = pipelines + 1)
  BY DEF WithPipeline, WithGraph
<1>2. graph' \in BOOLEAN
  BY <1>1, Zenon
<1>3. pipelines' \in Nat \ {0}
  BY <1>1 DEF JobsOK
<1> QED BY <1>2, <1>3

\* What the other steps do to the jobs: nobody but a call moves them.
LEMMA CallJobs ==
  ASSUME JobsOK, NEW c \in Calls, Call(c)
  PROVE  /\ JobsOK' /\ job' = job
         /\ \A j \in Jobs : at'[j] = at[j] \/ (at[j] = "new" /\ at'[j] = "waiting")
<1>1. \A j \in JobsOf(c) : at[j] = "new"
  BY DEF Call, JobsOf, JobsOK
<1>2. pipelines' \in Nat \ {0} /\ graph' \in BOOLEAN
  BY AsksTyped DEF Call
<1>3. /\ job' = job
      /\ at' = [j \in Jobs |-> IF j \in JobsOf(c) THEN "waiting" ELSE at[j]]
      /\ pipelineOf' = [pipelineOf EXCEPT ![c] = pipelines']
  BY DEF Call
<1>4. /\ at' \in [Jobs -> JobPlaces]
      /\ \A j \in Jobs : at'[j] = at[j] \/ (at[j] = "new" /\ at'[j] = "waiting")
  <2>1. \A j \in Jobs : at'[j] = at[j] \/ (at[j] = "new" /\ at'[j] = "waiting")
    <3>1. SUFFICES ASSUME NEW j \in Jobs
                   PROVE  at'[j] = at[j] \/ (at[j] = "new" /\ at'[j] = "waiting")
      OBVIOUS
    <3>2. at'[j] = IF j \in JobsOf(c) THEN "waiting" ELSE at[j]
      BY <1>3
    <3> QED BY <1>1, <3>2
  <2>2. at' = [j \in Jobs |-> at'[j]]
    BY <1>3
  <2>3. \A j \in Jobs : at'[j] \in JobPlaces
    BY <2>1 DEF JobsOK, JobPlaces
  <2> QED BY <2>1, <2>2, <2>3
<1>5. pipelineOf' \in [Calls -> Nat] /\ \A d \in Calls : pipelineOf[d] # 0 => pipelineOf'[d] # 0
  BY <1>2, <1>3 DEF JobsOK
<1>6. ASSUME NEW j \in Jobs, at'[j] # "new" PROVE pipelineOf'[CallOf[j]] # 0
  <2>1. CallOf[j] \in Calls
    BY PipelineConstants
  <2>2. CASE j \in JobsOf(c)
    BY <1>2, <1>3, <2>1, <2>2 DEF JobsOf, JobsOK
  <2>3. CASE j \notin JobsOf(c)
    BY <1>3, <1>5, <1>6, <2>1, <2>3 DEF JobsOK
  <2> QED BY <2>2, <2>3
<1> QED BY <1>2, <1>3, <1>4, <1>5, <1>6 DEF JobsOK, Call

\* A step that leaves the jobs where they are.
LEMMA OthersJobs ==
  ASSUME JobsOK, UNCHANGED <<at, pipelineOf>>, job' \in [Jobs -> Job],
         pipelines' \in Nat \ {0}, graph' \in BOOLEAN, cancelled' \in SUBSET Jobs
  PROVE  JobsOK'
BY DEF JobsOK

\* What requests about jobs do to them.
LEMMA RequestsKeepJobs ==
  ASSUME JobsOK, UNCHANGED <<at, job, pipelineOf>>, Asks,
         cancelled' = cancelled \/ \E j \in Jobs : cancelled' = cancelled \cup {j}
  PROVE  JobsOK'
<1>1. pipelines' \in Nat \ {0} /\ graph' \in BOOLEAN
  BY AsksTyped DEF Asks
<1> QED BY <1>1 DEF JobsOK

LEMMA TickKeepsJobs ==
  ASSUME JobsOK, TickJobs
  PROVE  JobsOK'
<1>1. \A k \in Jobs : job[k] \in Job
  BY DEF JobsOK
<1>2. ASSUME NEW k \in Jobs PROVE job'[k] \in Job /\ job'[k].status = job[k].status
  <2>1. \A a \in Ages : OlderJob(a) \in Ages
    BY PipelineConstants DEF Ages, OlderJob, Gone
  <2>2. job'[k] = job[k] \/ job'[k] = [job[k] EXCEPT !.age = OlderJob(job[k].age)]
    BY DEF TickJobs
  <2> QED BY <1>1, <2>1, <2>2 DEF Job
<1>3. job' \in [Jobs -> Job]
  BY <1>2 DEF TickJobs
<1> QED BY <1>2, <1>3, OthersJobs DEF TickJobs, JobsOK

-----------------------------------------------------------------------------
(* The slots. *)

\* Slots stay respected when no call has more jobs at work.
LEMMA FewerRunning ==
  ASSUME SlotsRespected, \A c \in Calls : Running(c)' \subseteq Running(c)
  PROVE  SlotsRespected'
<1> SUFFICES ASSUME NEW c \in Calls PROVE Cardinality(Running(c)') <= Slots[c]
  BY DEF SlotsRespected
<1>1. IsFiniteSet(Running(c)) /\ Slots[c] \in Nat
  BY PipelineConstants, FS_Subset DEF Running, JobsOf
<1>2. /\ Cardinality(Running(c)') <= Cardinality(Running(c))
      /\ Cardinality(Running(c)') \in Nat /\ Cardinality(Running(c)) \in Nat
  BY <1>1, FS_Subset, FS_CardinalityType
<1> QED BY <1>1, <1>2 DEF SlotsRespected

\* A job that starts takes one of the free slots of its call.
LEMMA StartTakesSlot ==
  ASSUME SlotsRespected, JobsOK, NEW j \in Jobs, SlotFree(j),
         \A k \in Jobs \ {j} : at'[k] = at[k]
  PROVE  SlotsRespected'
<1> SUFFICES ASSUME NEW c \in Calls PROVE Cardinality(Running(c)') <= Slots[c]
  BY DEF SlotsRespected
<1>1. /\ IsFiniteSet(Running(c)) /\ IsFiniteSet(Running(c)') /\ Slots[c] \in Nat
      /\ Cardinality(Running(c)) \in Nat /\ Cardinality(Running(c)') \in Nat
      /\ Cardinality(Running(c)) <= Slots[c]
  <2>1. Running(c) \subseteq Jobs /\ Running(c)' \subseteq Jobs
    BY DEF Running, JobsOf
  <2> QED BY <2>1, PipelineConstants, FS_Subset, FS_CardinalityType DEF SlotsRespected
<1>2. CASE c = CallOf[j]
  <2>1. Running(c)' \subseteq Running(c) \cup {j}
    BY DEF Running, JobsOf
  <2>2. Cardinality(Running(c)) < Slots[c]
    BY <1>2 DEF SlotFree
  <2>3. /\ IsFiniteSet(Running(c) \cup {j})
        /\ \/ Cardinality(Running(c) \cup {j}) = Cardinality(Running(c))
           \/ Cardinality(Running(c) \cup {j}) = Cardinality(Running(c)) + 1
    BY <1>1, FS_AddElement
  <2>4. Cardinality(Running(c)') <= Cardinality(Running(c) \cup {j})
    BY <2>1, <2>3, FS_Subset
  <2> QED BY <1>1, <2>2, <2>3, <2>4
<1>3. CASE c # CallOf[j]
  <2>1. Running(c)' = Running(c)
    BY <1>3 DEF Running, JobsOf
  <2> QED BY <1>1, <2>1
<1> QED BY <1>2, <1>3

-----------------------------------------------------------------------------
(* Every step keeps the invariant. *)

LEMMA PipelineNextInv == PipelineInv /\ [PipelineNext]_pipelineVars => PipelineInv'
<1> SUFFICES ASSUME PipelineInv, [PipelineNext]_pipelineVars PROVE PipelineInv'
  OBVIOUS
<1>0. JobsOK /\ RegistryOK(registry, later) /\ ListedAreMade /\ SlotsRespected
  BY DEF PipelineInv
<1>1. ASSUME NEW c \in Calls, Call(c) PROVE PipelineInv'
  <2>1. RegistryOK(registry', later') /\ Keys(registry') \subseteq Keys(registry)
    BY <1>1, AskedRegistry DEF Call
  <2>2. /\ JobsOK' /\ job' = job
        /\ \A j \in Jobs : at'[j] = at[j] \/ (at[j] = "new" /\ at'[j] = "waiting")
    BY <1>0, <1>1, CallJobs
  <2>3. ListedAreMade'
    BY <1>0, <2>1, <2>2 DEF ListedAreMade, RegistryOK, IsOrdered, Made, Waits
  <2>4. \A d \in Calls : Running(d)' \subseteq Running(d)
    BY <2>2 DEF Running, JobsOf, Waits
  <2> QED BY <1>0, <2>1, <2>2, <2>3, <2>4, FewerRunning DEF PipelineInv, RegistryOK, Keys
<1>2. ASSUME NEW j \in Jobs, Start(j) PROVE PipelineInv'
  <2>1. /\ at[j] = "waiting" /\ SlotFree(j) /\ Register(j)
        /\ UNCHANGED <<graph, pipelines, pipelineOf, cancelled>>
    BY <1>2 DEF Start
  <2>2. RegistryOK(registry', later') /\ Keys(registry') \subseteq Keys(registry) \cup {j}
    BY <2>1, RegisterRegistry
  <2>3. /\ JobsOK' /\ at'[j] \in Made
        /\ \A k \in Jobs \ {j} : at'[k] = at[k]
    BY <1>0, <1>2, <2>1, StartGoes, JobGoes
  <2>4. ListedAreMade'
    BY <1>0, <2>2, <2>3 DEF ListedAreMade, RegistryOK, IsOrdered, Made
  <2> QED BY <1>0, <2>1, <2>2, <2>3, <2>4, StartTakesSlot DEF PipelineInv, RegistryOK, Keys
<1>3. ASSUME NEW j \in Jobs, Work(j) PROVE PipelineInv'
  <2>1. UNCHANGED <<registry, graph, pipelines, pipelineOf, later, cancelled>>
    BY <1>3 DEF Work
  <2>2. at[j] \in Waits
    BY <1>3, WorkGoes
  <2>3. /\ JobsOK' /\ at'[j] \in Made
        /\ \A k \in Jobs \ {j} : at'[k] = at[k]
    BY <1>0, <1>3, <2>1, <2>2, WorkGoes, JobGoes DEF Waits
  <2>4. ListedAreMade'
    BY <1>0, <2>1, <2>3 DEF ListedAreMade, RegistryOK, IsOrdered, Made
  <2>5. \A d \in Calls : Running(d)' \subseteq Running(d)
    BY <2>2, <2>3 DEF Running, JobsOf
  <2> QED BY <1>0, <2>1, <2>3, <2>4, <2>5, FewerRunning DEF PipelineInv, RegistryOK, Keys
<1>3a. ASSUME NEW j \in Jobs, Refuse(j) PROVE PipelineInv'
  <2>1. UNCHANGED <<registry, later>>
    BY <1>3a DEF Refuse
  <2>2. /\ JobsOK'
        /\ \A k \in Jobs : at'[k] = at[k] \/ (at[k] = "waiting" /\ at'[k] = "refused")
    BY <1>0, <1>3a, RefusedJobs
  <2>3. ListedAreMade'
    BY <1>0, <2>1, <2>2 DEF ListedAreMade, RegistryOK, IsOrdered, Made, Waits
  <2>4. \A d \in Calls : Running(d)' \subseteq Running(d)
    BY <2>2 DEF Running, JobsOf, Waits
  <2> QED BY <1>0, <2>1, <2>2, <2>3, <2>4, FewerRunning DEF PipelineInv, RegistryOK, Keys
<1>4. ASSUME UNCHANGED at, JobsOK', RegistryOK(registry', later'),
             Keys(registry') \subseteq Keys(registry)
      PROVE  PipelineInv'
  <2>1. ListedAreMade'
    BY <1>0, <1>4 DEF ListedAreMade
  <2>2. \A d \in Calls : Running(d)' \subseteq Running(d)
    BY <1>4 DEF Running, JobsOf
  <2> QED BY <1>0, <1>4, <2>1, <2>2, FewerRunning DEF PipelineInv, RegistryOK, Keys
<1>5. ASSUME NEW j \in Jobs, GetJob(j) PROVE PipelineInv'
  <2>1. JobsOK' /\ UNCHANGED at
    BY <1>0, <1>5, RequestsKeepJobs DEF GetJob
  <2> QED BY <1>5, <2>1, <1>4, ReadsRegistry
<1>6. ASSUME RequestJobs \/ \E j \in Jobs : CancelJob(j) PROVE PipelineInv'
  <2>1. /\ UNCHANGED <<at, job, pipelineOf>> /\ Asks
        /\ cancelled' = cancelled \/ \E j \in Jobs : cancelled' = cancelled \cup {j}
        /\ registry' = RegistryFor(FALSE) /\ Used({})
    BY <1>6 DEF RequestJobs, CancelJob
  <2>2. JobsOK'
    BY <1>0, <2>1, RequestsKeepJobs
  <2> QED BY <2>1, <2>2, <1>4, AskedRegistry
<1>8. CASE TickJobs
  <2>1. UNCHANGED <<at, registry, later>>
    BY <1>8 DEF TickJobs
  <2> QED BY <1>0, <1>8, <2>1, <1>4, TickKeepsJobs
<1>9. CASE UNCHANGED pipelineVars
  <2>1. UNCHANGED <<at, job, registry, graph, pipelines, pipelineOf, later, cancelled>>
    BY <1>9 DEF pipelineVars
  <2>2. JobsOK'
    BY <1>0, <2>1 DEF JobsOK
  <2> QED BY <1>0, <2>1, <2>2, <1>4
<1> QED BY <1>1, <1>2, <1>3, <1>3a, <1>5, <1>6, <1>8, <1>9 DEF PipelineNext

-----------------------------------------------------------------------------
(* Theorems about the pipeline. *)

\* The inductive invariant of the pipeline.
THEOREM PipelineInvariant == PipelineSpec => []PipelineInv
BY PipelineInitInv, PipelineNextInv, PTL DEF PipelineSpec

\* Every variable, and the registry with the order of its keys, stays in its
\* type.
THEOREM PipelineTypeOKHolds == PipelineSpec => []PipelineTypeOK
<1>1. PipelineInv => PipelineTypeOK
  BY DEF PipelineInv, JobsOK, RegistryOK, PipelineTypeOK
<1> QED BY <1>1, PipelineInvariant, PTL

\* The registry never exceeds max_size.
THEOREM RegistryBoundedHolds == PipelineSpec => []RegistryBounded
<1>1. PipelineInv => RegistryBounded
  BY DEF PipelineInv, RegistryOK, RegistryBounded
<1> QED BY <1>1, PipelineInvariant, PTL

\* No call has more documents in work than slots.
THEOREM SlotsRespectedHolds == PipelineSpec => []SlotsRespected
<1>1. PipelineInv => SlotsRespected
  BY DEF PipelineInv
<1> QED BY <1>1, PipelineInvariant, PTL

\* What a registry that is not replaced loses.
LEMMA SameRegistry ==
  ASSUME JobsOK, NEW g, WithPipeline(g)
  PROVE  pipelines' # pipelines \/ RegistryFor(g) = registry
<1>1. CASE WithGraph(g) = graph
  BY <1>1 DEF RegistryFor
<1>2. CASE WithGraph(g) # graph
  <2>1. pipelines' = pipelines + 1
    BY <1>2 DEF WithPipeline
  <2> QED BY <2>1 DEF JobsOK
<1> QED BY <1>1, <1>2

LEMMA RegisterLoses ==
  ASSUME RegistryOK(registry, later), NEW i \in Jobs, Register(i),
         NEW m \in Keys(registry) \ Keys(registry')
  PROVE  m \in Expired \/ Cardinality(later[m]) >= MaxJobs - 1
<1>1. registry' = PutJob(registry, i, i, Expired)
  BY DEF Register, Keys
<1> DEFINE e == PutJob(registry, i, i, Expired)
<1>2. \/ registry.val[m] \in Expired
      \/ \E S \in SUBSET Keys(registry) :
           Cardinality(S) = MaxJobs - 1 /\ \A j \in S : <<m, j>> \in registry.before
  <2>1. m \in Keys(registry) \ Keys(e)
    BY <1>1
  <2> QED BY <2>1, PutOrdered DEF RegistryOK
<1>3. registry.val[m] = m
  BY DEF RegistryOK
<1>4. ASSUME NEW S \in SUBSET Keys(registry), Cardinality(S) = MaxJobs - 1,
             \A j \in S : <<m, j>> \in registry.before
      PROVE  Cardinality(later[m]) >= MaxJobs - 1
  <2>1. S \subseteq later[m] /\ later[m] \subseteq Jobs
    BY <1>4 DEF RegistryOK
  <2>2. IsFiniteSet(later[m])
    BY <2>1, PipelineConstants, FS_Subset
  <2>3. /\ Cardinality(S) <= Cardinality(later[m])
        /\ Cardinality(later[m]) \in Nat /\ MaxJobs \in Nat
    BY <2>1, <2>2, PipelineConstants, FS_Subset, FS_CardinalityType
  <2> QED BY <1>4, <2>3
<1> QED BY <1>2, <1>3, <1>4

\* A job is listed until it has expired, another pipeline takes over, or
\* MaxJobs - 1 others are used after it and one more is put.
THEOREM JobsAreKeptHolds == PipelineSpec => JobsAreKept
<1> DEFINE Lost(j) == \/ j \in Expired
                      \/ pipelines' # pipelines
                      \/ Cardinality(later[j]) >= MaxJobs - 1
           A == \A j \in Keys(registry) \ Keys(registry') : Lost(j)
<1>1. ASSUME PipelineInv, [PipelineNext]_pipelineVars
      PROVE  A
  <2>0. JobsOK /\ RegistryOK(registry, later)
    BY <1>1 DEF PipelineInv
  <2>1. ASSUME registry' = registry \/ pipelines' # pipelines PROVE A
    BY <2>1
  <2>2. ASSUME NEW c \in Calls, Call(c) PROVE A
    BY <2>0, <2>1, <2>2, SameRegistry DEF Call
  <2>3. ASSUME NEW j \in Jobs, Start(j) PROVE A
    BY <2>0, <2>3, RegisterLoses DEF Start
  <2>4. ASSUME NEW j \in Jobs, GetJob(j) PROVE A
    <3>1. Asks /\ registry' = Look(RegistryFor(FALSE), j, Expired)
      BY <2>4 DEF GetJob
    <3>2. CASE RegistryFor(FALSE) = registry
      <4> DEFINE e == Look(registry, j, Expired)
      <4>0. Keys(e) = IF Listed(registry, j, Expired) THEN Keys(registry)
                      ELSE Keys(registry) \ {j}
        <5>1. IsOrdered(registry, Jobs, Jobs)
          BY <2>0 DEF RegistryOK
        <5> QED BY <5>1, LookOrdered
      <4>1. Keys(registry') = IF Listed(registry, j, Expired) THEN Keys(registry)
                              ELSE Keys(registry) \ {j}
        BY <3>1, <3>2, <4>0
      <4>2. j \in Keys(registry) /\ ~Listed(registry, j, Expired) => j \in Expired
        BY <2>0 DEF Listed, RegistryOK
      <4> QED BY <4>1, <4>2
    <3> QED BY <2>0, <2>1, <3>1, <3>2, SameRegistry DEF Asks
  <2>5. ASSUME RequestJobs \/ \E j \in Jobs : CancelJob(j) PROVE A
    <3>1. Asks /\ registry' = RegistryFor(FALSE)
      BY <2>5 DEF RequestJobs, CancelJob
    <3> QED BY <2>0, <2>1, <3>1, SameRegistry DEF Asks
  <2>6. CASE UNCHANGED registry
    BY <2>1, <2>6
  <2> QED
    BY <1>1, <2>2, <2>3, <2>4, <2>5, <2>6
    DEF PipelineNext, pipelineVars, Work, Refuse, TickJobs
<1> QED BY <1>1, PipelineInvariant, PTL DEF PipelineSpec, JobsAreKept

-----------------------------------------------------------------------------
(***************************************************************************)
(* The unified API                                                         *)
(***************************************************************************)

\* What is listed under an id is a job with that id, and is still at work or
\* the one that ended last.
ArtifactInv ==
  /\ ArtifactTypeOK /\ ListedBounded
  /\ \A id \in Keys(listed) :
       /\ IdOf[listed.val[id]] = id
       /\ step[listed.val[id]] = "handled" \/ listed.val[id] = lastDone[id]

LEMMA ArtifactConstants ==
  /\ IdOf \in [Artifacts -> Ids] /\ MaxJobs \in Nat \ {0} /\ TTL \in Nat
  /\ Gone \in Ages /\ 0 \in Ages /\ \A age \in Ages : OlderJob(age) \in Ages
BY ArtifactAssumption, RegistryAssumption DEF Gone, Ages, OlderJob

LEMMA ArtifactInitInv == ArtifactInit => ArtifactInv
<1> SUFFICES ASSUME ArtifactInit PROVE ArtifactInv
  OBVIOUS
<1>1. /\ IsOrdered(listed, Ids, Artifacts) /\ Keys(listed) = {}
      /\ Cardinality(Keys(listed)) <= MaxJobs
  BY NoKeysOrdered, FS_EmptySet, ArtifactConstants DEF ArtifactInit
<1>3. ArtifactTypeOK
  <2>1. [status |-> "processing", age |-> 0] \in Artifact
    BY ArtifactConstants DEF Artifact
  <2>2. artifact \in [Artifacts -> Artifact]
    BY <2>1 DEF ArtifactInit
  <2>3. step \in [Artifacts -> {"new", "handled", "ended"}]
    BY DEF ArtifactInit
  <2>4. lastDone \in [Ids -> Artifacts \cup {None}]
    BY DEF ArtifactInit
  <2> QED BY <1>1, <2>2, <2>3, <2>4 DEF ArtifactTypeOK
<1> QED BY <1>1, <1>3 DEF ArtifactInv, ListedBounded

\* A put under the id of a job lists that job, and leaves the others.
LEMMA PutListed ==
  ASSUME ArtifactInv, NEW a \in Artifacts, NEW X, NEW d,
         IsOrdered(d, Ids, Artifacts), Cardinality(Keys(d)) <= MaxJobs,
         Keys(d) \subseteq Keys(listed), \A id \in Keys(d) : d.val[id] = listed.val[id],
         listed' = PutJob(d, IdOf[a], a, X)
  PROVE  /\ IsOrdered(listed', Ids, Artifacts) /\ ListedBounded'
         /\ Keys(listed') \subseteq Keys(listed) \cup {IdOf[a]}
         /\ listed'.val[IdOf[a]] = a
         /\ \A id \in Keys(listed') \ {IdOf[a]} : listed'.val[id] = listed.val[id]
<1>1. IdOf[a] \in Ids
  BY ArtifactConstants
<1> DEFINE e == PutJob(d, IdOf[a], a, X)
<1>2. /\ IsOrdered(e, Ids, Artifacts) /\ Cardinality(Keys(e)) <= MaxJobs
      /\ Keys(e) \subseteq Keys(d) \cup {IdOf[a]}
      /\ e.val[IdOf[a]] = a
      /\ \A k \in Keys(e) \ {IdOf[a]} : e.val[k] = d.val[k]
  BY <1>1, PutOrdered
<1> HIDE DEF e
<1> QED BY <1>2 DEF e, ListedBounded, Keys

LEMMA ArtifactNextInv == ArtifactInv /\ [ArtifactNext]_artifactVars => ArtifactInv'
<1> SUFFICES ASSUME ArtifactInv, [ArtifactNext]_artifactVars PROVE ArtifactInv'
  OBVIOUS
<1>0. /\ step \in [Artifacts -> {"new", "handled", "ended"}]
      /\ artifact \in [Artifacts -> Artifact]
      /\ IsOrdered(listed, Ids, Artifacts) /\ Cardinality(Keys(listed)) <= MaxJobs
      /\ lastDone \in [Ids -> Artifacts \cup {None}]
      /\ \A id \in Keys(listed) :
           /\ listed.val[id] \in Artifacts /\ id \in Ids
           /\ IdOf[listed.val[id]] = id
           /\ step[listed.val[id]] = "handled" \/ listed.val[id] = lastDone[id]
  BY DEF ArtifactInv, ArtifactTypeOK, ListedBounded, IsOrdered
<1>1. ASSUME NEW a \in Artifacts, BeginItem(a) PROVE ArtifactInv'
  <2>1. /\ step[a] = "new" /\ step' = [step EXCEPT ![a] = "handled"]
        /\ UNCHANGED <<artifact, lastDone>>
        /\ listed' = listed \/ listed' = PutJob(listed, IdOf[a], a, Outdated)
    BY <1>1 DEF BeginItem
  <2>2. /\ IsOrdered(listed', Ids, Artifacts) /\ ListedBounded'
        /\ Keys(listed') \subseteq Keys(listed) \cup {IdOf[a]}
        /\ \A id \in Keys(listed') :
             \/ listed'.val[id] = listed.val[id] /\ id \in Keys(listed)
             \/ id = IdOf[a] /\ listed'.val[id] = a
    <3>1. CASE listed' = listed
      BY <1>0, <3>1 DEF ListedBounded, Keys
    <3>2. CASE listed' = PutJob(listed, IdOf[a], a, Outdated)
      BY <1>0, <3>2, PutListed
    <3> QED BY <2>1, <3>1, <3>2
  <2>3. /\ step' \in [Artifacts -> {"new", "handled", "ended"}]
        /\ step'[a] = "handled" /\ \A b \in Artifacts : step[b] = "handled" => step'[b] = "handled"
    BY <1>0, <2>1
  <2>4. \A id \in Keys(listed') :
          /\ IdOf[listed'.val[id]] = id
          /\ step'[listed'.val[id]] = "handled" \/ listed'.val[id] = lastDone'[id]
    BY <1>0, <2>1, <2>2, <2>3
  <2> QED BY <1>0, <2>1, <2>2, <2>3, <2>4 DEF ArtifactInv, ArtifactTypeOK, Keys
<1>2. ASSUME NEW a \in Artifacts, EndItem(a) PROVE ArtifactInv'
  <2>1. /\ step[a] = "handled" /\ step' = [step EXCEPT ![a] = "ended"]
        /\ lastDone' = [lastDone EXCEPT ![IdOf[a]] = a]
        /\ listed' = PutJob(listed, IdOf[a], a, Outdated')
    BY <1>2 DEF EndItem, RegisterEnded, Done
  <2>2. PICK status \in {"completed", "failed"} :
          artifact' = [artifact EXCEPT ![a] = [status |-> status, age |-> Gone]]
    BY <1>2 DEF EndItem, LoopTime
  <2>3. /\ IsOrdered(listed', Ids, Artifacts) /\ ListedBounded'
        /\ Keys(listed') \subseteq Keys(listed) \cup {IdOf[a]}
        /\ listed'.val[IdOf[a]] = a
        /\ \A id \in Keys(listed') \ {IdOf[a]} : listed'.val[id] = listed.val[id]
    BY <1>0, <2>1, PutListed
  <2>4. step' \in [Artifacts -> {"new", "handled", "ended"}]
    BY <1>0, <2>1
  <2>5. IdOf[a] \in Ids
    BY ArtifactConstants
  <2>6. /\ lastDone' \in [Ids -> Artifacts \cup {None}] /\ lastDone'[IdOf[a]] = a
        /\ \A id \in Ids \ {IdOf[a]} : lastDone'[id] = lastDone[id]
    BY <1>0, <2>1, <2>5
  <2>7. artifact' \in [Artifacts -> Artifact]
    BY <1>0, <2>2, ArtifactConstants DEF Artifact
  <2>8. ASSUME NEW id \in Keys(listed')
        PROVE  /\ IdOf[listed'.val[id]] = id
               /\ step'[listed'.val[id]] = "handled" \/ listed'.val[id] = lastDone'[id]
    <3>1. CASE id = IdOf[a]
      BY <2>3, <2>6, <3>1
    <3>2. CASE id # IdOf[a]
      <4>1. id \in Keys(listed) /\ listed'.val[id] = listed.val[id] /\ id \in Ids
        BY <1>0, <2>3, <3>2
      <4>2. listed.val[id] \in Artifacts /\ listed.val[id] # a
        BY <1>0, <3>2, <4>1
      <4> QED BY <1>0, <2>1, <2>6, <3>2, <4>1, <4>2
    <3> QED BY <3>1, <3>2
  <2> QED BY <2>3, <2>4, <2>6, <2>7, <2>8 DEF ArtifactInv, ArtifactTypeOK, Keys
<1>3. ASSUME NEW id \in Ids, NEW d, d = Look(listed, id, Outdated)
      PROVE  /\ IsOrdered(d, Ids, Artifacts) /\ Cardinality(Keys(d)) <= MaxJobs
             /\ Keys(d) \subseteq Keys(listed)
             /\ \A k \in Keys(d) : d.val[k] = listed.val[k]
  <2> DEFINE e == Look(listed, id, Outdated)
  <2>1. /\ IsOrdered(e, Ids, Artifacts)
        /\ Keys(e) \subseteq Keys(listed)
        /\ \A k \in Keys(e) : e.val[k] = listed.val[k]
    BY <1>0, LookOrdered
  <2>2. Cardinality(Keys(e)) <= MaxJobs
    BY <1>0, <2>1, FewerKeys
  <2> HIDE DEF e
  <2> QED BY <1>3, <2>1, <2>2 DEF e
<1>4. ASSUME NEW id \in Ids, ReadItem(id) PROVE ArtifactInv'
  <2>1. listed' = Look(listed, id, Outdated) /\ UNCHANGED <<step, artifact, lastDone>>
    BY <1>4 DEF ReadItem
  <2>2. /\ IsOrdered(listed', Ids, Artifacts) /\ Cardinality(Keys(listed')) <= MaxJobs
        /\ Keys(listed') \subseteq Keys(listed)
        /\ \A k \in Keys(listed') : listed'.val[k] = listed.val[k]
    BY <2>1, <1>3
  <2> QED BY <1>0, <2>1, <2>2 DEF ArtifactInv, ArtifactTypeOK, ListedBounded, Keys
<1>5. ASSUME NEW id \in Ids, CancelItem(id) PROVE ArtifactInv'
  <2> DEFINE a == listed.val[id]  d == Look(listed, id, Outdated)
  <2>1. /\ Listed(listed, id, Outdated)
        /\ artifact' = [artifact EXCEPT ![a] = [status |-> "failed", age |-> Gone]]
        /\ listed' = PutJob(d, id, a, Outdated') /\ UNCHANGED <<step, lastDone>>
    BY <1>5 DEF CancelItem, LoopTime
  <2>2. id \in Keys(listed) /\ a \in Artifacts /\ IdOf[a] = id
    BY <1>0, <2>1 DEF Listed
  <2>3. /\ IsOrdered(d, Ids, Artifacts) /\ Cardinality(Keys(d)) <= MaxJobs
        /\ Keys(d) \subseteq Keys(listed)
        /\ \A k \in Keys(d) : d.val[k] = listed.val[k]
    BY <1>3
  <2> HIDE DEF a, d
  <2>4. /\ IsOrdered(listed', Ids, Artifacts) /\ ListedBounded'
        /\ Keys(listed') \subseteq Keys(listed) \cup {id}
        /\ listed'.val[id] = a
        /\ \A k \in Keys(listed') \ {id} : listed'.val[k] = listed.val[k]
    BY <2>1, <2>2, <2>3, PutListed
  <2>5. artifact' \in [Artifacts -> Artifact]
    BY <1>0, <2>1, <2>2, ArtifactConstants DEF Artifact
  <2>6. \A k \in Keys(listed') : k \in Keys(listed) /\ listed'.val[k] = listed.val[k]
    BY <2>2, <2>4 DEF a
  <2>7. \A k \in Keys(listed') :
          /\ IdOf[listed'.val[k]] = k
          /\ step'[listed'.val[k]] = "handled" \/ listed'.val[k] = lastDone'[k]
    BY <1>0, <2>1, <2>6
  <2> QED BY <1>0, <2>1, <2>4, <2>5, <2>7 DEF ArtifactInv, ArtifactTypeOK, Keys
<1>6. CASE TickItems
  <2>1. /\ UNCHANGED <<step, listed, lastDone>>
        /\ artifact' = [a \in Artifacts |-> IF step[a] = "new" THEN artifact[a]
                          ELSE [artifact[a] EXCEPT !.age = OlderJob(artifact[a].age)]]
    BY <1>6 DEF TickItems
  <2>2. ASSUME NEW a \in Artifacts
        PROVE  artifact'[a] \in Artifact
    <3>1. artifact[a] \in Artifact
      BY <1>0
    <3> QED BY <1>0, <2>1, <3>1, ArtifactConstants DEF Artifact
  <2>3. artifact' \in [Artifacts -> Artifact]
    BY <2>1, <2>2
  <2> QED BY <1>0, <2>1, <2>2, <2>3 DEF ArtifactInv, ArtifactTypeOK, ListedBounded, Keys
<1>7. CASE UNCHANGED artifactVars
  BY <1>0, <1>7 DEF artifactVars, ArtifactInv, ArtifactTypeOK, ListedBounded, Keys
<1> QED BY <1>1, <1>2, <1>4, <1>5, <1>6, <1>7 DEF ArtifactNext

\* The inductive invariant of the unified API.
THEOREM ArtifactInvariant == ArtifactSpec => []ArtifactInv
BY ArtifactInitInv, ArtifactNextInv, PTL DEF ArtifactSpec

\* Every variable, and the registry with the order of its keys, stays in its
\* type.
THEOREM ArtifactTypeOKHolds == ArtifactSpec => []ArtifactTypeOK
<1>1. ArtifactInv => ArtifactTypeOK
  BY DEF ArtifactInv
<1> QED BY <1>1, ArtifactInvariant, PTL

\* The registry never exceeds max_size.
THEOREM ListedBoundedHolds == ArtifactSpec => []ListedBounded
<1>1. ArtifactInv => ListedBounded
  BY DEF ArtifactInv
<1> QED BY <1>1, ArtifactInvariant, PTL

\* When nobody works on a source any more, its listed job is the one that
\* ended last.
THEOREM ListedIsLatestHolds == ArtifactSpec => []ListedIsLatest
<1>1. ArtifactInv => ListedIsLatest
  BY DEF ArtifactInv, ListedIsLatest, ArtifactTypeOK, IsOrdered
<1> QED BY <1>1, ArtifactInvariant, PTL

=============================================================================
