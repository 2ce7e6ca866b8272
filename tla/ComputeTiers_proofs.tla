------------------------ MODULE ComputeTiers_proofs ------------------------
(***************************************************************************)
(* Proofs about the loop of _compute_tiers, for all lists of steps.        *)
(***************************************************************************)
EXTENDS MCComputeTiers, Data_proofs, FiniteSetTheorems, TLAPS

-----------------------------------------------------------------------------
(***************************************************************************)
(* The inductive invariant                                                 *)
(***************************************************************************)
Placed == {t \in Types : tier[t] # Unplaced}

\* Before the first wave: every step scanned has left its dependencies in
\* in_degree and adjacency, the others have left nothing.
Scanning ==
  pc = "scan" =>
    /\ queue = {} /\ nextQueue = {} /\ Placed = {}
    /\ DistinctTypes =>
         \A i \in DOMAIN steps : \A d \in Types :
           LET t == steps[i].step_type
           IN  /\ i < pos => /\ inDegree[t] = Cardinality(RelevantDeps(steps, i))
                             /\ adjacency[d][t] =
                                  IF d \in RelevantDeps(steps, i) THEN 1 ELSE 0
               /\ i >= pos => adjacency[d][t] = 0

\* Kahn's algorithm: in_degree counts the dependencies that are not placed, a
\* type is queued or placed when it has none, and a queued type is not placed.
Counts ==
  pc \in {"wave", "group"} /\ DistinctTypes =>
    /\ \A d, t \in Types : adjacency[d][t] = IF d \in KeptDeps(t) THEN 1 ELSE 0
    /\ \A t \in Types : inDegree[t] = Cardinality(KeptDeps(t) \ Placed)
    /\ \A t \in Types : inDegree[t] = 0 <=> t \in queue \cup nextQueue \cup Placed
    /\ queue \cap nextQueue = {}
    /\ (queue \cup nextQueue) \cap Placed = {}

\* The tiers that are given are ordered, and the types that are queued will
\* come after what they wait for.
Ordered ==
  /\ pc = "wave" => \A t \in Placed : tier[t] <= currentTier
  /\ pc = "group" =>
       queue = {} /\ nextQueue = {} /\ \A t \in Placed : tier[t] < currentTier
  /\ pc \in {"wave", "group"} /\ DistinctTypes =>
       /\ \A t \in Placed : \A d \in KeptDeps(t) : d \in Placed /\ tier[d] < tier[t]
       /\ \A t \in queue : \A d \in KeptDeps(t) : d \in Placed /\ tier[d] < currentTier

\* The result.
Result ==
  pc = "done" /\ DistinctTypes =>
    \A t \in Types :
      /\ tier[t] \in Nat /\ tier[t] <= currentTier
      /\ tier[t] < currentTier => \A d \in KeptDeps(t) : tier[d] < tier[t]
      /\ tier[t] = currentTier => \E d \in KeptDeps(t) : tier[d] = currentTier

IInv ==
  /\ TypeOK
  /\ Scanning
  /\ Counts
  /\ Ordered
  /\ Result

\* A plan has finitely many step types.
LEMMA PlanTypesFinite ==
  ASSUME NEW p, PlanIsSequence(p)
  PROVE  IsFiniteSet(TypesOf(p))
<1> DEFINE f == [i \in DOMAIN p |-> p[i].step_type]
<1>1. IsFiniteSet(DOMAIN p)
  BY FS_Interval DEF PlanIsSequence
<1>2. f \in Surjection(DOMAIN p, TypesOf(p))
  BY DEF Surjection, TypesOf
<1> QED
  BY <1>1, <1>2, FS_Surjection

\* A step waits for finitely many types.
LEMMA RelevantDepsFinite ==
  ASSUME NEW p, PlanIsSequence(p), NEW i
  PROVE  IsFiniteSet(RelevantDeps(p, i))
BY PlanTypesFinite, FS_Subset DEF RelevantDeps

\* Of a type that occurs once, step_by_type keeps the one step there is.
LEMMA KeptStepOfDistinctTypes ==
  ASSUME NEW p, PlanIsSequence(p),
         \A i, j \in DOMAIN p : p[i].step_type = p[j].step_type => i = j,
         NEW i \in DOMAIN p
  PROVE  IndexOfType(p, p[i].step_type) = i
<1>1. \A j \in DOMAIN p : p[j].step_type = p[i].step_type => j <= i
  BY DEF PlanIsSequence
<1> QED
  BY <1>1 DEF IndexOfType

-----------------------------------------------------------------------------
(***************************************************************************)
(* The invariant is inductive                                              *)
(***************************************************************************)
\* The facts about the plan that the steps need.
LEMMA PlanFacts ==
  ASSUME TypeOK
  PROVE  /\ PlanIsSequence(steps)
         /\ Len(steps) \in Nat /\ DOMAIN steps = 1 .. Len(steps)
         /\ \A i \in DOMAIN steps : steps[i].step_type \in Types
         /\ \A i : RelevantDeps(steps, i) \subseteq Types
         /\ \A i : Cardinality(RelevantDeps(steps, i)) \in Nat
         /\ \A t \in Types : \E i \in DOMAIN steps : steps[i].step_type = t
<1>1. PlanIsSequence(steps)
  BY PlansAssumption DEF TypeOK
<1>2. \A i : Cardinality(RelevantDeps(steps, i)) \in Nat
  BY <1>1, RelevantDepsFinite, FS_CardinalityType
<1> QED
  BY <1>1, <1>2 DEF PlanIsSequence, RelevantDeps, Types, TypesOf

THEOREM InitIInv == Init => IInv
<1> SUFFICES ASSUME Init PROVE IInv
  OBVIOUS
<1>1. PlanIsSequence(steps)
  BY PlansAssumption DEF Init
<1>2. TypeOK
  BY <1>1 DEF Init, TypeOK, PlanIsSequence
<1>3. Scanning
  BY <1>1, PlanFacts, <1>2 DEF Init, Scanning, Placed
<1> QED
  BY <1>2, <1>3 DEF Init, IInv, Counts, Ordered, Result

LEMMA ScanStepIInv == IInv /\ ScanStep => IInv'
<1> SUFFICES ASSUME IInv, ScanStep PROVE IInv'
  OBVIOUS
<1> DEFINE u == steps[pos].step_type
           deps == RelevantDeps(steps, pos)
<1>1. /\ PlanIsSequence(steps)
      /\ Len(steps) \in Nat /\ DOMAIN steps = 1 .. Len(steps)
      /\ pos \in DOMAIN steps /\ u \in Types /\ Types' = Types
      /\ Cardinality(deps) \in Nat
      /\ \A i \in DOMAIN steps : steps[i].step_type \in Types
  BY PlanFacts DEF IInv, TypeOK, ScanStep, Types
<1>2. /\ stepByType' = [stepByType EXCEPT ![u] = pos]
      /\ inDegree' = [inDegree EXCEPT ![u] = Cardinality(deps)]
      /\ adjacency' = [d \in Types |-> IF d \in deps
                                        THEN [adjacency[d] EXCEPT ![u] = @ + 1]
                                        ELSE adjacency[d]]
      /\ pc = "scan" /\ pos' = pos + 1
      /\ UNCHANGED <<pc, steps, queue, nextQueue, tier, currentTier>>
  BY DEF ScanStep
<1> HIDE DEF u, deps
<1>3. TypeOK'
  <2>1. /\ stepByType \in [Types -> 0..Len(steps)] /\ inDegree \in [Types -> Int]
        /\ adjacency \in [Types -> [Types -> Nat]]
    BY DEF IInv, TypeOK
  <2>2. stepByType' \in [Types -> 0..Len(steps)] /\ inDegree' \in [Types -> Int]
    BY <1>1, <1>2, <2>1
  <2>3. adjacency' \in [Types -> [Types -> Nat]]
    <3>1. \A d \in Types : /\ adjacency[d] \in [Types -> Nat]
                           /\ [adjacency[d] EXCEPT ![u] = @ + 1] \in [Types -> Nat]
      BY <1>1, <2>1
    <3> QED
      BY <1>2, <3>1
  <2>4. pos' \in 1..Len(steps) + 1
    BY <1>1, <1>2
  <2> QED
    BY <1>1, <1>2, <2>2, <2>3, <2>4 DEF IInv, TypeOK
<1>4. Scanning'
  <2>1. queue' = {} /\ nextQueue' = {} /\ Placed' = {}
    BY <1>1, <1>2 DEF IInv, Scanning, Placed
  <2>2. ASSUME DistinctTypes, NEW i \in DOMAIN steps, NEW d \in Types
        PROVE  LET t == steps[i].step_type
               IN  /\ i < pos' => /\ inDegree'[t] = Cardinality(RelevantDeps(steps, i))
                                  /\ adjacency'[d][t] =
                                       IF d \in RelevantDeps(steps, i) THEN 1 ELSE 0
                   /\ i >= pos' => adjacency'[d][t] = 0
    <3> DEFINE t == steps[i].step_type
    <3>1. /\ i < pos => /\ inDegree[t] = Cardinality(RelevantDeps(steps, i))
                        /\ adjacency[d][t] =
                             IF d \in RelevantDeps(steps, i) THEN 1 ELSE 0
          /\ i >= pos => adjacency[d][t] = 0
      BY <1>2, <2>2 DEF IInv, Scanning
    <3>2. /\ t \in Types /\ i \in Nat /\ pos \in Nat
          /\ inDegree \in [Types -> Int] /\ adjacency \in [Types -> [Types -> Nat]]
      <4>1. t \in Types /\ i \in Nat /\ pos \in Nat
        BY <1>1
      <4>2. inDegree \in [Types -> Int] /\ adjacency \in [Types -> [Types -> Nat]]
        BY DEF IInv, TypeOK
      <4> QED
        BY <4>1, <4>2
    <3>3. CASE i = pos
      <4>1. t = u /\ RelevantDeps(steps, i) = deps
        BY <3>3 DEF u, deps
      <4> HIDE DEF t
      <4> QED
        BY <1>1, <1>2, <3>1, <3>2, <3>3, <4>1 DEF t
    <3>4. CASE i # pos
      <4>1. t # u
        BY <1>1, <2>2, <3>4 DEF u, DistinctTypes
      <4>2. inDegree'[t] = inDegree[t] /\ adjacency'[d][t] = adjacency[d][t]
        BY <1>1, <1>2, <3>2, <4>1
      <4>3. (i < pos' => i < pos) /\ (i >= pos' => i >= pos)
        <5>1. pos' = pos + 1 /\ i \in Int /\ pos \in Int
          BY <1>2, <3>2
        <5> QED
          BY <3>4, <5>1
      <4> QED
        BY <3>1, <4>2, <4>3
    <3> QED
      BY <3>3, <3>4
  <2> QED
    BY <1>1, <1>2, <2>1, <2>2 DEF Scanning, DistinctTypes
<1>5. (Counts /\ Ordered /\ Result)'
  BY <1>2 DEF Counts, Ordered, Result
<1> QED
  BY <1>3, <1>4, <1>5 DEF IInv

\* The scan has seen every step, so in_degree and adjacency are complete.
LEMMA SeedQueueIInv == IInv /\ SeedQueue => IInv'
<1> SUFFICES ASSUME IInv, SeedQueue PROVE IInv'
  OBVIOUS
<1>1. /\ pc = "scan" /\ pos > Len(steps)
      /\ queue' = {t \in Types : inDegree[t] = 0}
      /\ pc' \in {"wave", "group"} /\ (pc' = "group" => queue' = {})
      /\ UNCHANGED <<steps, pos, stepByType, inDegree, adjacency, nextQueue, tier,
                     currentTier>>
      /\ Types' = Types
  BY DEF SeedQueue, Types
<1>2. nextQueue' = {} /\ Placed' = {} /\ Placed = {}
  BY <1>1 DEF IInv, Scanning, Placed
<1>3. TypeOK'
  BY <1>1 DEF IInv, TypeOK
<1>4. ASSUME DistinctTypes
      PROVE  \A t \in Types :
               /\ inDegree[t] = Cardinality(KeptDeps(t))
               /\ \A d \in Types : adjacency[d][t] = IF d \in KeptDeps(t) THEN 1 ELSE 0
  <2> SUFFICES ASSUME NEW t \in Types
               PROVE  /\ inDegree[t] = Cardinality(KeptDeps(t))
                      /\ \A d \in Types :
                           adjacency[d][t] = IF d \in KeptDeps(t) THEN 1 ELSE 0
    OBVIOUS
  <2>1. PICK i \in DOMAIN steps : steps[i].step_type = t
    BY PlanFacts DEF IInv
  <2>2. KeptDeps(t) = RelevantDeps(steps, i)
    BY <1>4, <2>1, PlanFacts, KeptStepOfDistinctTypes DEF IInv, KeptDeps, DistinctTypes
  <2>3. i < pos
    BY <1>1, <2>1, PlanFacts DEF IInv, TypeOK
  <2> QED
    BY <1>1, <1>4, <2>1, <2>2, <2>3 DEF IInv, Scanning
<1>5. ASSUME DistinctTypes, NEW t \in Types, inDegree[t] = 0
      PROVE  KeptDeps(t) = {}
  <2>1. IsFiniteSet(KeptDeps(t))
    BY PlanFacts, RelevantDepsFinite DEF IInv, KeptDeps
  <2> QED
    BY <1>4, <1>5, <2>1, FS_EmptySet
<1>6. Counts'
  <2> SUFFICES ASSUME DistinctTypes PROVE Counts'
    BY <1>1 DEF Counts, DistinctTypes
  <2>1. \A t \in Types : KeptDeps(t) \ Placed' = KeptDeps(t)
    BY <1>2
  <2> QED
    BY <1>1, <1>2, <1>4, <2>1 DEF Counts, KeptDeps
<1>7. Ordered'
  <2> SUFFICES ASSUME DistinctTypes
               PROVE  \A t \in queue' : KeptDeps(t) = {}
    BY <1>1, <1>2 DEF Ordered, DistinctTypes, KeptDeps
  <2> QED
    BY <1>1, <1>5
<1>8. Scanning' /\ Result'
  BY <1>1 DEF Scanning, Result
<1> QED
  BY <1>3, <1>6, <1>7, <1>8 DEF IInv

\* Removing one placed type from what u waits for.
LEMMA OneDependencyLess ==
  ASSUME TypeOK, NEW u, NEW S, NEW t, t \notin S
  PROVE  Cardinality(KeptDeps(u) \ (S \cup {t}))
           = Cardinality(KeptDeps(u) \ S) - (IF t \in KeptDeps(u) THEN 1 ELSE 0)
<1>1. IsFiniteSet(KeptDeps(u) \ S)
  BY PlanFacts, RelevantDepsFinite, FS_Subset DEF KeptDeps
<1>2. KeptDeps(u) \ (S \cup {t}) = (KeptDeps(u) \ S) \ {t}
  OBVIOUS
<1>3. CASE t \in KeptDeps(u)
  BY <1>1, <1>2, <1>3, FS_RemoveElement
<1>4. CASE t \notin KeptDeps(u)
  <2>1. KeptDeps(u) \ (S \cup {t}) = KeptDeps(u) \ S
    BY <1>4
  <2>2. Cardinality(KeptDeps(u) \ S) \in Nat
    BY <1>1, FS_CardinalityType
  <2> DEFINE n == Cardinality(KeptDeps(u) \ S)
  <2>3. n = n - 0
    BY <2>2
  <2> QED
    BY <1>4, <2>1, <2>3
<1> QED
  BY <1>3, <1>4

LEMMA PlaceTypeIInv == ASSUME IInv, NEW t \in queue, PlaceType(t) PROVE IInv'
<1>1. /\ pc = "wave" /\ pc' = "wave"
      /\ tier' = [tier EXCEPT ![t] = currentTier]
      /\ inDegree' = [u \in Types |-> inDegree[u] - adjacency[t][u]]
      /\ nextQueue' = nextQueue \cup {u \in Types : inDegree[u] > 0 /\ inDegree'[u] <= 0}
      /\ queue' = queue \ {t}
      /\ UNCHANGED <<pc, steps, pos, stepByType, adjacency, currentTier>>
      /\ Types' = Types
      /\ \A u : KeptDeps(u)' = KeptDeps(u)
      /\ DistinctTypes' = DistinctTypes
  BY DEF PlaceType, InDegreeAfter, NewlyFree, StillQueued, Types, KeptDeps, DistinctTypes
<1>2. /\ t \in Types /\ currentTier \in Nat /\ currentTier # Unplaced
      /\ tier \in [Types -> Nat \cup {Unplaced}]
      /\ adjacency \in [Types -> [Types -> Nat]]
      /\ inDegree \in [Types -> Int]
      /\ queue \subseteq Types /\ nextQueue \subseteq Types
  BY DEF IInv, TypeOK, Unplaced
<1>3. TypeOK'
  BY <1>1, <1>2 DEF IInv, TypeOK
<1>4. /\ Placed' = Placed \cup {t}
      /\ \A u \in Placed : u # t => tier'[u] = tier[u]
      /\ tier'[t] = currentTier
  BY <1>1, <1>2 DEF Placed
<1>5. Scanning' /\ Result'
  BY <1>1 DEF Scanning, Result
<1>6. ASSUME DistinctTypes
      PROVE  /\ t \notin Placed
             /\ \A u \in Types :
                  /\ inDegree[u] = Cardinality(KeptDeps(u) \ Placed)
                  /\ inDegree[u] \in Nat
                  /\ inDegree'[u] = Cardinality(KeptDeps(u) \ Placed')
                  /\ inDegree'[u] \in Nat
                  /\ inDegree'[u] <= inDegree[u]
  <2>1. t \notin Placed
    BY <1>1, <1>6 DEF IInv, Counts
  <2> SUFFICES ASSUME NEW u \in Types
               PROVE  /\ inDegree[u] = Cardinality(KeptDeps(u) \ Placed)
                      /\ inDegree[u] \in Nat
                      /\ inDegree'[u] = Cardinality(KeptDeps(u) \ Placed')
                      /\ inDegree'[u] \in Nat
                      /\ inDegree'[u] <= inDegree[u]
    BY <2>1
  <2>2. /\ inDegree[u] = Cardinality(KeptDeps(u) \ Placed)
        /\ adjacency[t][u] = IF t \in KeptDeps(u) THEN 1 ELSE 0
    BY <1>1, <1>2, <1>6 DEF IInv, Counts
  <2>3. inDegree'[u] = Cardinality(KeptDeps(u) \ Placed')
    BY <1>1, <1>2, <1>4, <2>1, <2>2, OneDependencyLess DEF IInv
  <2>4. /\ Cardinality(KeptDeps(u) \ Placed) \in Nat
        /\ Cardinality(KeptDeps(u) \ Placed') \in Nat
    <3>1. IsFiniteSet(KeptDeps(u))
      BY PlanFacts, RelevantDepsFinite DEF IInv, KeptDeps
    <3> QED
      BY <3>1, FS_Subset, FS_CardinalityType
  <2>5. inDegree'[u] = inDegree[u] - adjacency[t][u]
    BY <1>1
  <2> QED
    BY <2>2, <2>3, <2>4, <2>5
<1>7. Counts'
  <2> SUFFICES ASSUME DistinctTypes PROVE Counts'
    BY <1>1 DEF Counts
  <2>1. /\ queue \cap nextQueue = {}
        /\ (queue \cup nextQueue) \cap Placed = {}
        /\ \A u \in Types : inDegree[u] = 0 <=> u \in queue \cup nextQueue \cup Placed
        /\ \A d, u \in Types : adjacency[d][u] = IF d \in KeptDeps(u) THEN 1 ELSE 0
    BY <1>1 DEF IInv, Counts
  <2>2. ASSUME NEW u \in Types
        PROVE  /\ inDegree'[u] = 0 <=> u \in queue' \cup nextQueue' \cup Placed'
               /\ u \notin queue' \cap nextQueue'
               /\ u \notin (queue' \cup nextQueue') \cap Placed'
    <3>1. u \in nextQueue' <=> u \in nextQueue \/ (inDegree[u] > 0 /\ inDegree'[u] <= 0)
      BY <1>1
    <3>2. /\ u \in queue' <=> u \in queue /\ u # t
          /\ u \in Placed' <=> u \in Placed \/ u = t
      BY <1>1, <1>4
    <3>3. inDegree[u] \in Nat /\ inDegree'[u] \in Nat /\ inDegree'[u] <= inDegree[u]
      BY <1>6
    <3>4. inDegree[u] > 0 <=> ~(u \in queue \/ u \in nextQueue \/ u \in Placed)
      BY <2>1, <3>3
    <3>5. inDegree'[u] = 0 <=> inDegree[u] = 0 \/ (inDegree[u] > 0 /\ inDegree'[u] <= 0)
      BY <3>3
    <3> QED
      BY <2>1, <3>1, <3>2, <3>3, <3>4, <3>5
  <2>3. queue' \subseteq Types /\ nextQueue' \subseteq Types
    BY <1>1, <1>2
  <2> QED
    BY <1>1, <1>6, <2>1, <2>2, <2>3 DEF Counts
<1>8. Ordered'
  <2>1. \A u \in Placed' : tier'[u] <= currentTier
    BY <1>1, <1>2, <1>4 DEF IInv, Ordered
  <2>2. ASSUME DistinctTypes, NEW u \in Placed', NEW d \in KeptDeps(u)
        PROVE  d \in Placed' /\ tier'[d] < tier'[u]
    BY <1>1, <1>4, <1>6, <2>2 DEF IInv, Ordered
  <2>3. ASSUME DistinctTypes, NEW u \in queue', NEW d \in KeptDeps(u)
        PROVE  d \in Placed' /\ tier'[d] < currentTier
    BY <1>1, <1>4, <1>6, <2>3 DEF IInv, Ordered
  <2> QED
    BY <1>1, <2>1, <2>2, <2>3 DEF Ordered
<1> QED
  BY <1>3, <1>5, <1>7, <1>8 DEF IInv

\* What the next wave places waits only for types that are placed by now.
LEMMA NextWaveIInv == IInv /\ NextWave => IInv'
<1> SUFFICES ASSUME IInv, NextWave PROVE IInv'
  OBVIOUS
<1>1. /\ pc = "wave" /\ queue = {} /\ queue' = nextQueue /\ nextQueue' = {}
      /\ currentTier' = currentTier + 1 /\ currentTier \in Nat
      /\ pc' = (IF nextQueue = {} THEN "group" ELSE "wave")
      /\ UNCHANGED <<steps, pos, stepByType, inDegree, adjacency, tier>>
      /\ Types' = Types /\ Placed' = Placed
      /\ \A u : KeptDeps(u)' = KeptDeps(u)
      /\ DistinctTypes' = DistinctTypes
  BY DEF NextWave, TierAfter, IInv, TypeOK, Types, Placed, KeptDeps, DistinctTypes
<1>2. TypeOK'
  BY <1>1 DEF IInv, TypeOK
<1>3. Scanning' /\ Result'
  BY <1>1 DEF Scanning, Result
<1>4. Counts'
  BY <1>1 DEF IInv, Counts
<1>5. ASSUME NEW u \in Placed
      PROVE  /\ tier'[u] \in Nat /\ tier'[u] = tier[u]
             /\ tier[u] <= currentTier /\ tier[u] < currentTier'
  BY <1>1 DEF IInv, TypeOK, Ordered, Placed
<1>6. ASSUME DistinctTypes, NEW u \in nextQueue, NEW d \in KeptDeps(u)
      PROVE  d \in Placed
  <2>1. u \in Types /\ IsFiniteSet(KeptDeps(u) \ Placed)
    BY PlanFacts, RelevantDepsFinite, FS_Subset DEF IInv, TypeOK, KeptDeps
  <2>2. Cardinality(KeptDeps(u) \ Placed) = 0
    BY <1>1, <1>6, <2>1 DEF IInv, Counts
  <2>3. KeptDeps(u) \ Placed = {}
    BY <2>1, <2>2, FS_EmptySet
  <2> QED
    BY <1>6, <2>3
<1>7. Ordered'
  <2>1. pc' = "wave" => \A u \in Placed' : tier'[u] <= currentTier'
    BY <1>1, <1>5
  <2>2. pc' = "group" => /\ queue' = {} /\ nextQueue' = {}
                        /\ \A u \in Placed' : tier'[u] < currentTier'
    BY <1>1, <1>5
  <2>3. ASSUME DistinctTypes
        PROVE  /\ \A u \in Placed : \A d \in KeptDeps(u) : d \in Placed /\ tier[d] < tier[u]
               /\ \A u \in nextQueue : \A d \in KeptDeps(u) :
                     d \in Placed /\ tier[d] < currentTier'
    BY <1>1, <1>5, <1>6, <2>3 DEF IInv, Ordered
  <2> QED
    BY <1>1, <2>1, <2>2, <2>3 DEF Ordered
<1> QED
  BY <1>2, <1>3, <1>4, <1>7 DEF IInv

\* A type that no wave placed still has a dependency that no wave placed.
LEMMA PlaceUnplacedIInv == IInv /\ PlaceUnplaced => IInv'
<1> SUFFICES ASSUME IInv, PlaceUnplaced PROVE IInv'
  OBVIOUS
<1>1. /\ pc = "group" /\ pc' = "done"
      /\ tier' = [t \in Types |-> IF tier[t] = Unplaced THEN currentTier ELSE tier[t]]
      /\ UNCHANGED <<steps, pos, stepByType, inDegree, adjacency, queue, nextQueue,
                     currentTier>>
      /\ Types' = Types
      /\ \A u : KeptDeps(u)' = KeptDeps(u)
      /\ DistinctTypes' = DistinctTypes
  BY DEF PlaceUnplaced, FinalTier, Types, KeptDeps, DistinctTypes
<1>2. /\ currentTier \in Nat /\ tier \in [Types -> Nat \cup {Unplaced}]
      /\ Placed \subseteq Types
      /\ queue = {} /\ nextQueue = {} /\ \A t \in Placed : tier[t] < currentTier
  BY <1>1 DEF IInv, TypeOK, Ordered, Placed
<1>3. TypeOK'
  BY <1>1, <1>2 DEF IInv, TypeOK
<1>4. (Scanning /\ Counts /\ Ordered)'
  BY <1>1 DEF Scanning, Counts, Ordered
<1>5. Result'
  <2> SUFFICES ASSUME DistinctTypes, NEW t \in Types
               PROVE  /\ tier'[t] \in Nat /\ tier'[t] <= currentTier
                      /\ tier'[t] < currentTier => \A d \in KeptDeps(t) : tier'[d] < tier'[t]
                      /\ tier'[t] = currentTier =>
                           \E d \in KeptDeps(t) : tier'[d] = currentTier
    BY <1>1 DEF Result
  <2>1. CASE t \in Placed
    <3>1. tier'[t] = tier[t] /\ tier[t] \in Nat /\ tier[t] < currentTier
      BY <1>1, <1>2, <2>1 DEF Placed
    <3>2. \A d \in KeptDeps(t) : d \in Placed /\ tier[d] < tier[t]
      BY <1>1, <2>1 DEF IInv, Ordered
    <3>3. \A d \in Placed : tier'[d] = tier[d]
      BY <1>1, <1>2 DEF Placed
    <3> QED
      BY <1>2, <3>1, <3>2, <3>3
  <2>2. CASE t \notin Placed
    <3>1. tier'[t] = currentTier
      BY <1>1, <2>2 DEF Placed
    <3>2. inDegree[t] = Cardinality(KeptDeps(t) \ Placed) /\ inDegree[t] # 0
      BY <1>1, <1>2, <2>2 DEF IInv, Counts
    <3>3. PICK d \in KeptDeps(t) : d \notin Placed
      BY <3>2, FS_EmptySet
    <3>4. d \in Types
      BY PlanFacts DEF IInv, KeptDeps
    <3>5. tier'[d] = currentTier
      BY <1>1, <3>3, <3>4 DEF Placed
    <3> QED
      BY <1>2, <3>1, <3>5
  <2> QED
    BY <2>1, <2>2
<1> QED
  BY <1>3, <1>4, <1>5 DEF IInv

THEOREM NextIInv == IInv /\ [Next]_vars => IInv'
<1> SUFFICES ASSUME IInv, [Next]_vars PROVE IInv'
  OBVIOUS
<1>1. CASE Returned \/ UNCHANGED vars
  <2>1. UNCHANGED vars
    BY <1>1 DEF Returned
  <2>2. /\ Types' = Types /\ Placed' = Placed
        /\ \A u : KeptDeps(u)' = KeptDeps(u)
        /\ DistinctTypes' = DistinctTypes
    BY <2>1 DEF vars, Types, Placed, KeptDeps, DistinctTypes
  <2>3. TypeOK' /\ Scanning'
    BY <2>1, <2>2 DEF vars, IInv, TypeOK, Scanning
  <2>4. Counts' /\ Ordered'
    BY <2>1, <2>2 DEF vars, IInv, Counts, Ordered
  <2>5. Result'
    BY <2>1, <2>2 DEF vars, IInv, Result
  <2> QED
    BY <2>3, <2>4, <2>5 DEF IInv
<1> QED
  BY <1>1, ScanStepIInv, SeedQueueIInv, PlaceTypeIInv, NextWaveIInv, PlaceUnplacedIInv
  DEF Next

\* The invariant holds in every reachable state.
THEOREM Invariance == Spec => []IInv
BY InitIInv, NextIInv, PTL DEF Spec

-----------------------------------------------------------------------------
(***************************************************************************)
(* What follows for every list of steps                                    *)
(***************************************************************************)
\* The variables of _compute_tiers keep their types.
THEOREM TypeCorrect == Spec => []TypeOK
<1>1. IInv => TypeOK
  BY DEF IInv
<1> QED
  BY <1>1, Invariance, PTL

\* Whatever the plan and the order within a wave, the tiers of a plan without
\* duplicate types respect its dependencies, in every state of the loop.
THEOREM TiersRespectDependencies == Spec => []DependenciesFirst
<1>1. IInv => DependenciesFirst
  <2> SUFFICES ASSUME IInv, DistinctTypes, NEW t \in Types, InWave(t),
                      NEW d \in KeptDeps(t)
               PROVE  InWave(d) /\ tier[d] < tier[t]
    BY DEF DependenciesFirst
  <2>1. d \in Types /\ tier \in [Types -> Nat \cup {Unplaced}] /\ currentTier \in Nat
    BY PlanFacts DEF IInv, TypeOK, KeptDeps
  <2>2. CASE pc = "scan"
    BY <2>2 DEF IInv, Scanning, InWave, Placed
  <2>3. CASE pc \in {"wave", "group"}
    BY <2>1, <2>3 DEF IInv, Ordered, InWave, Placed
  <2>4. CASE pc = "done"
    <3>1. tier[t] \in Nat /\ tier[t] < currentTier /\ tier[d] < tier[t] /\ tier[d] \in Nat
      BY <2>1, <2>4 DEF IInv, Result, InWave
    <3> QED
      BY <2>1, <2>4, <3>1 DEF InWave, Unplaced
  <2> QED
    BY <2>2, <2>3, <2>4 DEF IInv, TypeOK
<1> QED
  BY <1>1, Invariance, PTL

\* The types that are reported as a dependency cycle really wait for each other.
THEOREM LeftoversAreCyclic == Spec => []OnlyCyclesAreLeft
<1>1. IInv => OnlyCyclesAreLeft
  BY DEF IInv, Result, OnlyCyclesAreLeft
<1> QED
  BY <1>1, Invariance, PTL

-----------------------------------------------------------------------------
(***************************************************************************)
(* Duplicate types too: the loop computes the tiers of module Tiers        *)
(*                                                                         *)
(* What follows asks nothing of the plan, so the counters are those of the *)
(* last step of a type and of all of them, and may go below nought.        *)
(***************************************************************************)
\* The first n steps of type t that wait for d.
Entries(p, n, t, d) ==
  {i \in 1..n : p[i].step_type = t /\ d \in RelevantDeps(p, i)}

\* The scan has counted the steps before pos, and kept the last of every type.
ScanCounts ==
  pc = "scan" =>
    /\ currentTier = 0
    /\ \A t \in Types :
         /\ stepByType[t] # 0 => /\ stepByType[t] < pos
                                 /\ steps[stepByType[t]].step_type = t
                                 /\ inDegree[t] = Cardinality(RelevantDeps(steps, stepByType[t]))
         /\ \A j \in 1..(pos - 1) : steps[j].step_type = t => j <= stepByType[t]
         /\ \A d \in Types : adjacency[d][t] = Cardinality(Entries(steps, pos - 1, t, d))

\* The counters have been lowered for what is placed, and what is used up is
\* queued or placed.
WaveCounts ==
  pc \in {"wave", "group"} =>
    /\ \A d, t \in Types : adjacency[d][t] = Cardinality(Entries(steps, Len(steps), t, d))
    /\ \A t \in Types : inDegree[t] = InDegree(steps, t) - Decrements(steps, t, Placed)
    /\ queue \cup nextQueue \cup Placed = {t \in Types : inDegree[t] <= 0}
    /\ queue \cap nextQueue = {}
    /\ (queue \cup nextQueue) \cap Placed = {}

\* The wave that k names has been placed at k, and no wave was empty.
PlacedInWaves(waves) ==
  /\ \A t \in Placed : /\ tier[t] \in waves
                       /\ t \in PlacedBy(steps)[tier[t] + 1]
                       /\ t \notin PlacedBy(steps)[tier[t]]
  /\ \A k \in 0..(currentTier - 1) : \E t \in Placed : tier[t] = k

Waves ==
  /\ pc = "wave" =>
       /\ Placed \cup queue = PlacedBy(steps)[currentTier + 1]
       /\ queue \cap PlacedBy(steps)[currentTier] = {}
       /\ queue = {} => \E t \in Placed : tier[t] = currentTier
       /\ PlacedInWaves(0..currentTier)
  /\ pc = "group" =>
       /\ Placed = PlacedBy(steps)[currentTier]
       /\ Placed = Reached(steps, Placed)
       /\ PlacedInWaves(0..(currentTier - 1))

LoopInv ==
  /\ IInv
  /\ ScanCounts
  /\ WaveCounts
  /\ Waves
  /\ LoopComputesTiers

-----------------------------------------------------------------------------
(***************************************************************************)
(* The waves, as a recursive function                                      *)
(***************************************************************************)
LEMMA ReachedIsSetOfTypes ==
  ASSUME NEW p, NEW S
  PROVE  Reached(p, S) \in SUBSET TypesOf(p)
BY DEF Reached

\* The waves start with nothing, and each is what the one before it reaches.
LEMMA WavesAreRecursive ==
  ASSUME NEW p
  PROVE  /\ PlacedBy(p)[0] = {}
         /\ \A k \in Nat : PlacedBy(p)[k + 1] = Reached(p, PlacedBy(p)[k])
<1> DEFINE S == SUBSET TypesOf(p)
           reach == [X \in S |-> Reached(p, X)]
<1>1. reach \in [S -> S] /\ {} \in S
  BY ReachedIsSetOfTypes
<1>2. PICK f \in [Nat -> S] : f[0] = {} /\ \A k \in Nat : f[k + 1] = reach[f[k]]
  <2> HIDE DEF reach, S
  <2>1. \A b \in S, r \in [S -> S] :
          \E f \in [Nat -> S] : f[0] = b /\ \A k \in Nat : f[k + 1] = r[f[k]]
    BY IterationOverNat
  <2> QED
    BY <1>1, <2>1, Zenon
<1>3. \A k \in Nat : f[k + 1] = Reached(p, f[k])
  BY <1>2
<1> HIDE DEF reach, S
<1>4. f = [k \in Nat |-> IF k = 0 THEN {} ELSE Reached(p, f[k - 1])]
  <2>1. \A k \in Nat : f[k] = IF k = 0 THEN {} ELSE Reached(p, f[k - 1])
    <3> SUFFICES ASSUME NEW k \in Nat
                 PROVE  f[k] = IF k = 0 THEN {} ELSE Reached(p, f[k - 1])
      OBVIOUS
    <3>1. CASE k = 0
      BY <1>2, <3>1
    <3>2. CASE k # 0
      <4>1. k - 1 \in Nat /\ (k - 1) + 1 = k
        BY <3>2
      <4> QED
        BY <1>3, <3>2, <4>1
    <3> QED
      BY <3>1, <3>2
  <2> QED
    BY <1>2, <2>1
<1>5. PICK g : g = PlacedBy(p)
  OBVIOUS
<1>6. g = [k \in Nat |-> IF k = 0 THEN {} ELSE Reached(p, g[k - 1])]
  BY <1>4, <1>5 DEF PlacedBy
<1>7. g[0] = {}
  BY <1>6
<1>8. ASSUME NEW k \in Nat PROVE g[k + 1] = Reached(p, g[k])
  <2>1. k + 1 \in Nat /\ k + 1 # 0 /\ (k + 1) - 1 = k
    OBVIOUS
  <2>2. g[k + 1] = IF k + 1 = 0 THEN {} ELSE Reached(p, g[(k + 1) - 1])
    BY <1>6, <2>1
  <2> QED
    BY <2>1, <2>2
<1> QED
  BY <1>5, <1>7, <1>8

\* Once a wave reaches nothing new, none after it does.
LEMMA WavesStandStill ==
  ASSUME NEW p, NEW K \in Nat, PlacedBy(p)[K + 1] = PlacedBy(p)[K],
         NEW k \in Nat, k >= K
  PROVE  PlacedBy(p)[k] = PlacedBy(p)[K]
<1> DEFINE T == {j \in Nat : j >= K /\ PlacedBy(p)[j] # PlacedBy(p)[K]}
<1> SUFFICES ASSUME T # {} PROVE FALSE
  OBVIOUS
<1>1. PICK j \in T : \A i \in T : j <= i
  BY LeastNatural
<1>2. j \in Nat /\ j >= K /\ j # K /\ PlacedBy(p)[j] # PlacedBy(p)[K]
  BY <1>1
<1>3. j - 1 \in Nat /\ j - 1 >= K /\ ~ (j <= j - 1) /\ (j - 1) + 1 = j
  BY <1>2
<1>4. PlacedBy(p)[j - 1] = PlacedBy(p)[K]
  BY <1>1, <1>3
<1>5. PlacedBy(p)[j] = Reached(p, PlacedBy(p)[j - 1])
  BY <1>3, WavesAreRecursive
<1> QED
  BY <1>2, <1>4, <1>5, WavesAreRecursive

-----------------------------------------------------------------------------
(***************************************************************************)
(* The decrements                                                          *)
(***************************************************************************)
LEMMA EntriesFinite ==
  ASSUME NEW p, NEW n \in Int, NEW t, NEW d
  PROVE  /\ IsFiniteSet(Entries(p, n, t, d))
         /\ Cardinality(Entries(p, n, t, d)) \in Nat
<1>1. IsFiniteSet(1..n) /\ Entries(p, n, t, d) \in SUBSET (1..n)
  BY FS_Interval DEF Entries
<1> QED
  BY <1>1, FS_Subset, FS_CardinalityType

\* Step n is counted once, for its own type and the types that it waits for.
LEMMA OneMoreEntry ==
  ASSUME NEW p, NEW n \in Nat \ {0}, NEW t, NEW d
  PROVE  Cardinality(Entries(p, n, t, d))
           = Cardinality(Entries(p, n - 1, t, d))
             + (IF p[n].step_type = t /\ d \in RelevantDeps(p, n) THEN 1 ELSE 0)
<1>1. IsFiniteSet(Entries(p, n - 1, t, d)) /\ Cardinality(Entries(p, n - 1, t, d)) \in Nat
  BY EntriesFinite
<1>2. n \notin Entries(p, n - 1, t, d)
  BY DEF Entries
<1>3. 1..n = 1..(n - 1) \cup {n}
  OBVIOUS
<1>4. CASE p[n].step_type = t /\ d \in RelevantDeps(p, n)
  <2>1. Entries(p, n, t, d) = Entries(p, n - 1, t, d) \cup {n}
    BY <1>3, <1>4 DEF Entries
  <2> QED
    <3>1. PICK A, B : A = Entries(p, n - 1, t, d) /\ B = Entries(p, n, t, d)
      OBVIOUS
    <3>2. IsFiniteSet(A) /\ Cardinality(A) \in Nat /\ n \notin A /\ B = A \cup {n}
      BY <1>1, <1>2, <2>1, <3>1
    <3>3. Cardinality(B) = Cardinality(A) + 1
      BY <3>2, FS_AddElement
    <3> QED
      BY <1>4, <3>1, <3>3
<1>5. CASE ~ (p[n].step_type = t /\ d \in RelevantDeps(p, n))
  <2>1. Entries(p, n, t, d) = Entries(p, n - 1, t, d)
    BY <1>3, <1>5 DEF Entries
  <2> QED
    BY <1>1, <1>5, <2>1
<1> QED
  BY <1>4, <1>5

\* No type processed, no decrement.
LEMMA NoDecrements ==
  ASSUME NEW p, NEW t
  PROVE  Decrements(p, t, {}) = 0
BY FS_EmptySet DEF Decrements

\* The entries of the types of S for t, each with the type it is for.
Pairs(p, t, S) == UNION {{c} \X Entries(p, Len(p), t, c) : c \in S}

LEMMA DecrementsAreCounted ==
  ASSUME NEW p, PlanIsSequence(p), NEW t, NEW S, IsFiniteSet(S)
  PROVE  /\ Decrements(p, t, S) = Cardinality(Pairs(p, t, S))
         /\ Decrements(p, t, S) \in Nat
         /\ IsFiniteSet(Pairs(p, t, S))
<1>1. Decrements(p, t, S) = Cardinality(Pairs(p, t, S))
  BY DEF Decrements, Entries, PlanIsSequence, Pairs
<1>2. Pairs(p, t, S) \in SUBSET (S \X (1..Len(p)))
  BY DEF Entries, Pairs
<1>3. IsFiniteSet(1..Len(p))
  BY FS_Interval DEF PlanIsSequence
<1>4. IsFiniteSet(S \X (1..Len(p)))
  BY <1>3, FS_Product
<1> QED
  BY <1>1, <1>2, <1>4, FS_Subset, FS_CardinalityType

\* Processing d lowers the in-degree of t by the entries that d has for t.
LEMMA DecrementsOfOneMore ==
  ASSUME NEW p, PlanIsSequence(p), NEW t, NEW S, IsFiniteSet(S), NEW d, d \notin S
  PROVE  Decrements(p, t, S \cup {d})
           = Decrements(p, t, S) + Cardinality(Entries(p, Len(p), t, d))
<1> DEFINE E == Entries(p, Len(p), t, d)
<1>1. IsFiniteSet(E) /\ Cardinality(E) \in Nat
  BY EntriesFinite DEF PlanIsSequence
<1>2. IsFiniteSet({d}) /\ Cardinality({d}) = 1
  BY FS_Singleton
<1>3. IsFiniteSet({d} \X E) /\ Cardinality({d} \X E) = Cardinality(E)
  BY <1>1, <1>2, FS_Product
<1>4. Pairs(p, t, S \cup {d}) = Pairs(p, t, S) \cup ({d} \X E)
  BY DEF Pairs
<1>5. Pairs(p, t, S) \cap ({d} \X E) = {}
  BY DEF Pairs
<1>6. Cardinality(Pairs(p, t, S) \cap ({d} \X E)) = 0
  BY <1>5, FS_EmptySet
<1>7. IsFiniteSet(S \cup {d})
  BY <1>2, FS_Union
<1> HIDE DEF E
<1>8. /\ IsFiniteSet(Pairs(p, t, S)) /\ Cardinality(Pairs(p, t, S)) \in Nat
      /\ Decrements(p, t, S) = Cardinality(Pairs(p, t, S))
      /\ Decrements(p, t, S \cup {d}) = Cardinality(Pairs(p, t, S \cup {d}))
  BY <1>7, DecrementsAreCounted
<1>9. Cardinality(Pairs(p, t, S) \cup ({d} \X E))
        = Cardinality(Pairs(p, t, S)) + Cardinality({d} \X E)
            - Cardinality(Pairs(p, t, S) \cap ({d} \X E))
  BY <1>3, <1>8, FS_Union
<1>10. Decrements(p, t, S \cup {d}) = Decrements(p, t, S) + Cardinality(E)
  <2>1. PICK X : X = {d} \X E
    OBVIOUS
  <2>2. Cardinality(Pairs(p, t, S \cup {d})) = Cardinality(Pairs(p, t, S) \cup X)
    BY <1>4, <2>1, Zenon
  <2>3. Cardinality(X) = Cardinality(E) /\ Cardinality(Pairs(p, t, S) \cap X) = 0
    BY <1>3, <1>6, <2>1, Zenon
  <2>4. Cardinality(Pairs(p, t, S) \cup X)
          = Cardinality(Pairs(p, t, S)) + Cardinality(X) - Cardinality(Pairs(p, t, S) \cap X)
    BY <1>9, <2>1, Zenon
  <2> QED
    BY <1>1, <1>8, <2>2, <2>3, <2>4
<1> QED
  BY <1>10 DEF E

-----------------------------------------------------------------------------
(***************************************************************************)
(* The loop invariant for every plan                                       *)
(***************************************************************************)
\* A plan has no more step types than steps, and its steps are all counted.
LEMMA SizeFacts ==
  ASSUME TypeOK
  PROVE  /\ IsFiniteSet(Types) /\ Cardinality(Types) \in Nat
         /\ Cardinality(Types) <= Len(steps)
         /\ IsFiniteSet(Placed) /\ Placed \subseteq Types
<1> DEFINE f == [i \in DOMAIN steps |-> steps[i].step_type]
<1>1. Len(steps) \in Nat /\ DOMAIN steps = 1..Len(steps)
  BY PlanFacts
<1>2. IsFiniteSet(1..Len(steps)) /\ Cardinality(1..Len(steps)) = Len(steps)
  <2>1. /\ IsFiniteSet(1..Len(steps))
        /\ Cardinality(1..Len(steps)) = IF 1 > Len(steps) THEN 0 ELSE Len(steps) - 1 + 1
    BY <1>1, FS_Interval
  <2> QED
    BY <1>1, <2>1
<1>3. f \in Surjection(1..Len(steps), Types)
  BY <1>1 DEF Surjection, Types, TypesOf
<1>4. IsFiniteSet(Types) /\ Cardinality(Types) <= Len(steps)
  BY <1>2, <1>3, FS_Surjection
<1>5. Placed \in SUBSET Types
  BY DEF Placed
<1> QED
  BY <1>4, <1>5, FS_Subset, FS_CardinalityType

\* The numbers of the waves are no more than the types they have placed.
LEMMA WavesAreFew ==
  ASSUME TypeOK, NEW waves, PlacedInWaves(waves)
  PROVE  currentTier <= Len(steps)
<1> DEFINE R == {t \in Placed : tier[t] \in 0..(currentTier - 1)}
           g == [t \in R |-> tier[t]]
<1>1. currentTier \in Nat
  BY DEF TypeOK
<1>2. g \in Surjection(R, 0..(currentTier - 1))
  BY DEF Surjection, PlacedInWaves
<1>3. IsFiniteSet(R) /\ Cardinality(R) <= Cardinality(Types)
  <2>1. R \in SUBSET Types
    BY SizeFacts
  <2> QED
    BY <2>1, SizeFacts, FS_Subset
<1>4. Cardinality(0..(currentTier - 1)) = currentTier
  BY <1>1, FS_Interval
<1>5. Cardinality(0..(currentTier - 1)) <= Cardinality(R)
  BY <1>2, <1>3, FS_Surjection
<1>6. Cardinality(R) \in Nat
  BY <1>3, FS_CardinalityType
<1>7. Len(steps) \in Nat
  BY PlanFacts
<1> QED
  BY <1>1, <1>3, <1>4, <1>5, <1>6, <1>7, SizeFacts

LEMMA InitLoopInv == Init => LoopInv
<1> SUFFICES ASSUME Init PROVE LoopInv
  OBVIOUS
<1>1. IInv
  BY InitIInv
<1>2. ScanCounts
  <2>1. \A t, d : Entries(steps, 0, t, d) = {}
    BY DEF Entries
  <2>2. \A t, d : Cardinality(Entries(steps, 0, t, d)) = 0
    BY <2>1, FS_EmptySet
  <2> QED
    BY <2>2 DEF Init, ScanCounts
<1> QED
  BY <1>1, <1>2 DEF Init, LoopInv, WaveCounts, Waves, LoopComputesTiers

LEMMA ScanStepLoopInv == LoopInv /\ ScanStep => LoopInv'
<1> SUFFICES ASSUME LoopInv, ScanStep PROVE LoopInv'
  OBVIOUS
<1> DEFINE u == steps[pos].step_type
           deps == RelevantDeps(steps, pos)
<1>1. IInv'
  BY ScanStepIInv DEF LoopInv
<1>2. /\ Len(steps) \in Nat /\ DOMAIN steps = 1..Len(steps)
      /\ pos \in DOMAIN steps /\ pos \in Nat \ {0} /\ u \in Types /\ Types' = Types
      /\ stepByType \in [Types -> 0 .. Len(steps)] /\ inDegree \in [Types -> Int]
      /\ adjacency \in [Types -> [Types -> Nat]]
  <2>1. TypeOK
    BY DEF LoopInv, IInv
  <2>2. /\ Len(steps) \in Nat /\ DOMAIN steps = 1..Len(steps)
        /\ \A i \in DOMAIN steps : steps[i].step_type \in Types
    BY <2>1, PlanFacts
  <2>3. /\ pos \in 1..Len(steps) + 1
        /\ stepByType \in [Types -> 0 .. Len(steps)] /\ inDegree \in [Types -> Int]
        /\ adjacency \in [Types -> [Types -> Nat]]
    BY <2>1 DEF TypeOK
  <2>4. pos <= Len(steps) /\ steps' = steps
    BY DEF ScanStep
  <2>5. pos \in DOMAIN steps /\ pos \in Nat \ {0}
    BY <2>2, <2>3, <2>4
  <2>6. Types' = Types
    BY <2>4 DEF Types
  <2> QED
    BY <2>2, <2>3, <2>5, <2>6
<1>3. /\ stepByType' = [stepByType EXCEPT ![u] = pos]
      /\ inDegree' = [inDegree EXCEPT ![u] = Cardinality(deps)]
      /\ adjacency' = [d \in Types |-> IF d \in deps
                                        THEN [adjacency[d] EXCEPT ![u] = @ + 1]
                                        ELSE adjacency[d]]
      /\ pc = "scan" /\ pos' = pos + 1 /\ pc' = pc /\ steps' = steps
      /\ currentTier' = 0
  BY DEF ScanStep, LoopInv, ScanCounts
<1>4. u = steps[pos].step_type /\ deps = RelevantDeps(steps, pos)
  OBVIOUS
<1> HIDE DEF u, deps
<1>5. ASSUME NEW t \in Types
      PROVE  /\ stepByType'[t] # 0 =>
                  /\ stepByType'[t] < pos'
                  /\ steps[stepByType'[t]].step_type = t
                  /\ inDegree'[t] = Cardinality(RelevantDeps(steps, stepByType'[t]))
             /\ \A j \in 1..(pos' - 1) : steps[j].step_type = t => j <= stepByType'[t]
  <2>1. /\ stepByType[t] # 0 =>
             /\ stepByType[t] < pos
             /\ steps[stepByType[t]].step_type = t
             /\ inDegree[t] = Cardinality(RelevantDeps(steps, stepByType[t]))
        /\ \A j \in 1..(pos - 1) : steps[j].step_type = t => j <= stepByType[t]
        /\ stepByType[t] \in Nat
    BY <1>2, <1>3 DEF LoopInv, ScanCounts
  <2>2. \A j \in 1..(pos' - 1) : j = pos \/ j \in 1..(pos - 1)
    BY <1>2, <1>3
  <2>3. CASE t = u
    <3>1. stepByType'[t] = pos /\ inDegree'[t] = Cardinality(deps)
      BY <1>2, <1>3, <2>3
    <3>2. pos < pos' /\ \A j \in 1..(pos' - 1) : j <= pos
      BY <1>2, <1>3
    <3> QED
      BY <1>4, <2>3, <3>1, <3>2
  <2>4. CASE t # u
    <3>1. stepByType'[t] = stepByType[t] /\ inDegree'[t] = inDegree[t]
      BY <1>2, <1>3, <2>4
    <3>2. \A n \in Nat : n < pos => n < pos'
      BY <1>2, <1>3
    <3> QED
      BY <1>4, <2>1, <2>2, <2>4, <3>1, <3>2
  <2> QED
    BY <2>3, <2>4
<1>6. ASSUME NEW t \in Types, NEW d \in Types
      PROVE  adjacency'[d][t] = Cardinality(Entries(steps, pos' - 1, t, d))
  <2>1. adjacency[d][t] = Cardinality(Entries(steps, pos - 1, t, d))
    BY <1>3 DEF LoopInv, ScanCounts
  <2>2. pos' - 1 = pos
    BY <1>2, <1>3
  <2>3. adjacency'[d][t] = adjacency[d][t] + (IF u = t /\ d \in deps THEN 1 ELSE 0)
    <3>1. adjacency[d] \in [Types -> Nat]
      BY <1>2
    <3>2. CASE d \in deps
      <4>1. adjacency'[d] = [adjacency[d] EXCEPT ![u] = @ + 1]
        BY <1>3, <3>2
      <4> QED
        BY <3>1, <3>2, <4>1
    <3>3. CASE d \notin deps
      <4>1. adjacency'[d] = adjacency[d]
        BY <1>3, <3>3
      <4> QED
        BY <3>1, <3>3, <4>1
    <3> QED
      BY <3>2, <3>3
  <2>4. Cardinality(Entries(steps, pos, t, d))
          = Cardinality(Entries(steps, pos - 1, t, d)) + (IF u = t /\ d \in deps THEN 1 ELSE 0)
    <3>1. \A n \in Nat \ {0} :
             Cardinality(Entries(steps, n, t, d))
               = Cardinality(Entries(steps, n - 1, t, d))
                 + (IF steps[n].step_type = t /\ d \in RelevantDeps(steps, n) THEN 1 ELSE 0)
      BY OneMoreEntry
    <3> QED
      BY <1>2, <1>4, <3>1
  <2> QED
    BY <2>1, <2>2, <2>3, <2>4
<1>7. ScanCounts'
  BY <1>2, <1>3, <1>5, <1>6 DEF ScanCounts
<1>8. (WaveCounts /\ Waves /\ LoopComputesTiers)'
  BY <1>3 DEF WaveCounts, Waves, LoopComputesTiers
<1> QED
  BY <1>1, <1>7, <1>8 DEF LoopInv

\* What is free at first is the first wave.
LEMMA SeedQueueLoopInv == LoopInv /\ SeedQueue => LoopInv'
<1> SUFFICES ASSUME LoopInv, SeedQueue PROVE LoopInv'
  OBVIOUS
<1>1. IInv' /\ IInv
  BY SeedQueueIInv DEF LoopInv
<1>2. /\ pc = "scan" /\ pos = Len(steps) + 1 /\ pos - 1 = Len(steps)
      /\ queue' = {t \in Types : inDegree[t] = 0}
      /\ pc' = (IF queue' = {} THEN "group" ELSE "wave")
      /\ pc' \in {"wave", "group"}
      /\ steps' = steps /\ inDegree' = inDegree /\ adjacency' = adjacency
      /\ nextQueue' = nextQueue /\ tier' = tier /\ currentTier' = currentTier
      /\ Types' = Types
  BY <1>1, PlanFacts DEF SeedQueue, Types, IInv, TypeOK
<1>3. nextQueue' = {} /\ Placed' = {} /\ Placed = {}
  BY <1>1, <1>2 DEF IInv, Scanning, Placed
<1>4. ASSUME NEW t \in Types
      PROVE  /\ inDegree[t] = InDegree(steps, t) /\ inDegree[t] \in Nat
             /\ \A d \in Types :
                  adjacency[d][t] = Cardinality(Entries(steps, Len(steps), t, d))
  <2>1. /\ Len(steps) \in Nat /\ DOMAIN steps = 1..Len(steps)
        /\ stepByType[t] \in 0..Len(steps)
    BY <1>1, PlanFacts DEF IInv, TypeOK
  <2>2. PICK j \in DOMAIN steps : steps[j].step_type = t
    BY <1>1, PlanFacts DEF IInv
  <2>3. PICK i : i = stepByType[t]
    OBVIOUS
  <2>4. /\ i # 0 => /\ steps[i].step_type = t
                    /\ inDegree[t] = Cardinality(RelevantDeps(steps, i))
        /\ \A k \in 1..Len(steps) : steps[k].step_type = t => k <= i
        /\ \A d \in Types : adjacency[d][t] = Cardinality(Entries(steps, Len(steps), t, d))
    BY <1>2, <2>3 DEF LoopInv, ScanCounts
  <2>5. i \in DOMAIN steps /\ i # 0
    BY <2>1, <2>2, <2>3, <2>4
  <2>6. IndexOfType(steps, t) = i
    <3>1. ASSUME NEW k \in DOMAIN steps, steps[k].step_type = t,
                 \A l \in DOMAIN steps : steps[l].step_type = t => l <= k
          PROVE  k = i
      <4>1. i <= k /\ k <= i /\ k \in Int /\ i \in Int
        BY <2>1, <2>4, <2>5, <3>1
      <4> QED
        BY <4>1
    <3> QED
      BY <2>1, <2>4, <2>5, <3>1 DEF IndexOfType
  <2>7. Cardinality(RelevantDeps(steps, i)) \in Nat
    BY <1>1, PlanFacts DEF IInv
  <2> QED
    BY <2>4, <2>5, <2>6, <2>7 DEF InDegree
<1>5. \A t \in Types : InDegree(steps, t) - Decrements(steps, t, {}) = inDegree[t]
  <2> SUFFICES ASSUME NEW t \in Types
               PROVE  InDegree(steps, t) - Decrements(steps, t, {}) = inDegree[t]
    OBVIOUS
  <2>1. Decrements(steps, t, {}) = 0 /\ inDegree[t] = InDegree(steps, t) /\ inDegree[t] \in Nat
    BY <1>4, NoDecrements
  <2> QED
    BY <2>1
<1>6. queue' = {t \in Types : inDegree[t] <= 0}
  BY <1>2, <1>4
<1>7. WaveCounts'
  <2>1. queue' \cup nextQueue' \cup Placed' = {t \in Types' : inDegree'[t] <= 0}
    BY <1>2, <1>3, <1>6
  <2>2. \A t \in Types' : inDegree'[t] = InDegree(steps', t) - Decrements(steps', t, Placed')
    BY <1>2, <1>3, <1>5
  <2>3. \A d, t \in Types' : adjacency'[d][t] = Cardinality(Entries(steps', Len(steps'), t, d))
    BY <1>2, <1>4
  <2> QED
    BY <1>3, <2>1, <2>2, <2>3 DEF WaveCounts
<1>8. Reached(steps, {}) = queue'
  <2>1. \A t \in Types : InDegree(steps, t) <= Decrements(steps, t, {}) <=> inDegree[t] <= 0
    <3> SUFFICES ASSUME NEW t \in Types
                 PROVE  InDegree(steps, t) <= Decrements(steps, t, {}) <=> inDegree[t] <= 0
      OBVIOUS
    <3>1. Decrements(steps, t, {}) = 0 /\ inDegree[t] = InDegree(steps, t)
      BY <1>4, NoDecrements
    <3> QED
      BY <3>1
  <2> QED
    BY <1>6, <2>1 DEF Reached, Types
<1>9. currentTier = 0
  BY <1>2, <1>1 DEF IInv, Scanning, LoopInv, ScanCounts
<1>10. Waves'
  <2>1. PlacedBy(steps)[0] = {} /\ PlacedBy(steps)[0 + 1] = queue'
    BY <1>8, WavesAreRecursive
  <2>2. PlacedBy(steps)[currentTier] = {} /\ PlacedBy(steps)[currentTier + 1] = queue'
    BY <1>9, <2>1
  <2>3. 0..(currentTier' - 1) = {} /\ Placed' = {}
    BY <1>2, <1>3, <1>9
  <2>4. pc' = "wave" => queue' # {}
    BY <1>2
  <2>5. pc' = "group" => queue' = {}
    BY <1>2
  <2>6. Reached(steps', Placed') = queue'
    BY <1>2, <1>3, <1>8
  <2> QED
    BY <1>2, <1>3, <2>2, <2>3, <2>4, <2>5, <2>6 DEF Waves, PlacedInWaves
<1>11. ScanCounts' /\ LoopComputesTiers'
  BY <1>2 DEF ScanCounts, LoopComputesTiers
<1> QED
  BY <1>1, <1>7, <1>10, <1>11 DEF LoopInv

\* What is queued or placed is what the placed types reach.
LEMMA ReachedByPlaced ==
  ASSUME TypeOK, WaveCounts, pc \in {"wave", "group"}
  PROVE  Reached(steps, Placed) = queue \cup nextQueue \cup Placed
<1>1. ASSUME NEW t \in Types
      PROVE  InDegree(steps, t) <= Decrements(steps, t, Placed) <=> inDegree[t] <= 0
  <2>1. inDegree[t] = InDegree(steps, t) - Decrements(steps, t, Placed)
    BY DEF WaveCounts
  <2>2. InDegree(steps, t) \in Nat
    BY PlanFacts DEF InDegree
  <2>3. Decrements(steps, t, Placed) \in Nat
    BY PlanFacts, SizeFacts, DecrementsAreCounted
  <2> QED
    BY <2>1, <2>2, <2>3
<1>2. Reached(steps, Placed) = {t \in Types : inDegree[t] <= 0}
  BY <1>1 DEF Reached, Types
<1> QED
  BY <1>2 DEF WaveCounts

LEMMA PlaceTypeLoopInv == ASSUME LoopInv, NEW t \in queue, PlaceType(t) PROVE LoopInv'
<1>1. /\ pc = "wave" /\ pc' = "wave" /\ steps' = steps /\ adjacency' = adjacency
      /\ currentTier' = currentTier
      /\ tier' = [tier EXCEPT ![t] = currentTier]
      /\ inDegree' = [u \in Types |-> inDegree[u] - adjacency[t][u]]
      /\ nextQueue' = nextQueue \cup {u \in Types : inDegree[u] > 0 /\ inDegree'[u] <= 0}
      /\ queue' = queue \ {t}
      /\ Types' = Types
  BY DEF PlaceType, InDegreeAfter, NewlyFree, StillQueued, Types
<1>2. /\ t \in Types /\ currentTier \in Nat /\ currentTier # Unplaced
      /\ tier \in [Types -> Nat \cup {Unplaced}]
      /\ adjacency \in [Types -> [Types -> Nat]]
      /\ inDegree \in [Types -> Int]
      /\ queue \subseteq Types /\ nextQueue \subseteq Types
  BY <1>1 DEF LoopInv, IInv, TypeOK, Unplaced
<1>3. IInv'
  BY PlaceTypeIInv DEF LoopInv
<1>4. /\ Placed' = Placed \cup {t}
      /\ \A u \in Placed : u # t => tier'[u] = tier[u]
      /\ tier'[t] = currentTier
  BY <1>1, <1>2 DEF Placed
<1>5. /\ \A d, u \in Types : adjacency[d][u] = Cardinality(Entries(steps, Len(steps), u, d))
      /\ \A u \in Types : inDegree[u] = InDegree(steps, u) - Decrements(steps, u, Placed)
      /\ queue \cup nextQueue \cup Placed = {u \in Types : inDegree[u] <= 0}
      /\ queue \cap nextQueue = {}
      /\ (queue \cup nextQueue) \cap Placed = {}
  BY <1>1 DEF LoopInv, WaveCounts
<1>6. t \notin Placed
  BY <1>5
<1>7. ASSUME NEW u \in Types
      PROVE  /\ inDegree'[u] = InDegree(steps, u) - Decrements(steps, u, Placed')
             /\ inDegree'[u] <= inDegree[u] /\ inDegree'[u] \in Int /\ inDegree[u] \in Int
  <2>1. /\ Decrements(steps, u, Placed) \in Nat
        /\ Decrements(steps, u, Placed')
             = Decrements(steps, u, Placed) + Cardinality(Entries(steps, Len(steps), u, t))
    BY <1>4, <1>6, PlanFacts, SizeFacts, DecrementsAreCounted, DecrementsOfOneMore
    DEF LoopInv, IInv
  <2>2. /\ adjacency[t][u] = Cardinality(Entries(steps, Len(steps), u, t))
        /\ adjacency[t][u] \in Nat
    BY <1>2, <1>5
  <2>3. inDegree'[u] = inDegree[u] - adjacency[t][u]
    BY <1>1
  <2>4. inDegree[u] = InDegree(steps, u) - Decrements(steps, u, Placed)
    BY <1>5
  <2>5. InDegree(steps, u) \in Nat
    BY PlanFacts DEF LoopInv, IInv, InDegree
  <2> QED
    BY <2>1, <2>2, <2>3, <2>4, <2>5
<1>8. WaveCounts'
  <2>1. \A u \in Types : u \in queue' \cup nextQueue' \cup Placed' <=> inDegree'[u] <= 0
    <3> SUFFICES ASSUME NEW u \in Types
                 PROVE  u \in queue' \cup nextQueue' \cup Placed' <=> inDegree'[u] <= 0
      OBVIOUS
    <3>1. inDegree'[u] <= 0 <=> inDegree[u] <= 0 \/ (inDegree[u] > 0 /\ inDegree'[u] <= 0)
      BY <1>7
    <3>2. u \in queue' \cup nextQueue' \cup Placed'
            <=> u \in queue \cup nextQueue \cup Placed
                \/ (inDegree[u] > 0 /\ inDegree'[u] <= 0)
      BY <1>1, <1>4
    <3>3. u \in queue \cup nextQueue \cup Placed <=> inDegree[u] <= 0
      BY <1>5
    <3> QED
      BY <3>1, <3>2, <3>3
  <2>2. queue' \subseteq Types /\ nextQueue' \subseteq Types /\ Placed' \subseteq Types
    BY <1>1, <1>2, <1>4, SizeFacts DEF LoopInv, IInv
  <2>3. queue' \cup nextQueue' \cup Placed' = {u \in Types' : inDegree'[u] <= 0}
    BY <1>1, <2>1, <2>2
  <2>4. ASSUME NEW u \in nextQueue'
        PROVE  u \notin queue' /\ u \notin Placed'
    <3>1. CASE u \in nextQueue
      BY <1>1, <1>4, <1>5, <3>1
    <3>2. CASE inDegree[u] > 0 /\ u \in Types
      <4>1. ~ (inDegree[u] <= 0)
        BY <1>7, <3>2
      <4>2. u \notin queue /\ u \notin Placed
        BY <1>5, <4>1
      <4> QED
        BY <1>1, <1>4, <4>2
    <3> QED
      BY <1>1, <2>4, <3>1, <3>2
  <2>5. queue' \cap Placed' = {}
    BY <1>1, <1>4, <1>5
  <2> QED
    BY <1>1, <1>5, <1>7, <2>3, <2>4, <2>5 DEF WaveCounts
<1>9. Waves'
  <2>1. /\ Placed \cup queue = PlacedBy(steps)[currentTier + 1]
        /\ queue \cap PlacedBy(steps)[currentTier] = {}
        /\ PlacedInWaves(0..currentTier)
    BY <1>1 DEF LoopInv, Waves
  <2>2. Placed' \cup queue' = PlacedBy(steps)[currentTier + 1]
    BY <1>1, <1>4, <2>1
  <2>3. queue' \cap PlacedBy(steps)[currentTier] = {}
    BY <1>1, <2>1
  <2>4. t \in Placed' /\ tier'[t] = currentTier
    BY <1>4
  <2>5. ASSUME NEW u \in Placed'
        PROVE  /\ tier'[u] \in 0..currentTier
               /\ u \in PlacedBy(steps)[tier'[u] + 1]
               /\ u \notin PlacedBy(steps)[tier'[u]]
    <3>1. CASE u = t
      BY <1>2, <1>4, <2>1, <3>1
    <3>2. CASE u # t
      BY <1>4, <2>1, <3>2 DEF PlacedInWaves
    <3> QED
      BY <3>1, <3>2
  <2>6. \A k \in 0..(currentTier - 1) : \E u \in Placed' : tier'[u] = k
    BY <1>4, <1>6, <2>1 DEF PlacedInWaves
  <2> QED
    BY <1>1, <2>2, <2>3, <2>4, <2>5, <2>6 DEF Waves, PlacedInWaves
<1>10. ScanCounts' /\ LoopComputesTiers'
  BY <1>1 DEF ScanCounts, LoopComputesTiers
<1> QED
  BY <1>3, <1>8, <1>9, <1>10 DEF LoopInv

\* The queue is empty: what the placed types reach is placed or queued next.
LEMMA NextWaveLoopInv == LoopInv /\ NextWave => LoopInv'
<1> SUFFICES ASSUME LoopInv, NextWave PROVE LoopInv'
  OBVIOUS
<1>1. /\ pc = "wave" /\ queue = {} /\ queue' = nextQueue /\ nextQueue' = {}
      /\ currentTier' = currentTier + 1 /\ currentTier \in Nat
      /\ pc' = (IF nextQueue = {} THEN "group" ELSE "wave")
      /\ steps' = steps /\ inDegree' = inDegree /\ adjacency' = adjacency
      /\ tier' = tier /\ Types' = Types /\ Placed' = Placed
  BY DEF NextWave, TierAfter, LoopInv, IInv, TypeOK, Types, Placed
<1>2. IInv'
  BY NextWaveIInv DEF LoopInv
<1>3. /\ Placed = PlacedBy(steps)[currentTier + 1]
      /\ \E t \in Placed : tier[t] = currentTier
      /\ PlacedInWaves(0..currentTier)
      /\ nextQueue \cap Placed = {}
  BY <1>1 DEF LoopInv, Waves, WaveCounts
<1>4. Reached(steps, Placed) = nextQueue \cup Placed
  BY <1>1, ReachedByPlaced DEF LoopInv, IInv
<1>5. PlacedBy(steps)[(currentTier + 1) + 1] = nextQueue \cup Placed
  <2>1. currentTier + 1 \in Nat
    BY <1>1
  <2> QED
    BY <1>3, <1>4, <2>1, WavesAreRecursive
<1>6. WaveCounts'
  BY <1>1 DEF LoopInv, WaveCounts
<1>7. Waves'
  <2>1. /\ 0..(currentTier' - 1) = 0..currentTier
        /\ 0..currentTier \subseteq 0..currentTier'
    BY <1>1
  <2>2. \A t \in Placed' : /\ tier'[t] \in 0..currentTier
                          /\ t \in PlacedBy(steps)[tier'[t] + 1]
                          /\ t \notin PlacedBy(steps)[tier'[t]]
    BY <1>1, <1>3 DEF PlacedInWaves
  <2>3. \A k \in 0..currentTier : \E t \in Placed' : tier'[t] = k
    <3>1. \A k \in 0..currentTier : k = currentTier \/ k \in 0..(currentTier - 1)
      BY <1>1
    <3> QED
      BY <1>1, <1>3, <3>1 DEF PlacedInWaves
  <2>4. Placed' \cup queue' = PlacedBy(steps)[currentTier' + 1]
    BY <1>1, <1>5
  <2>5. /\ Placed' = PlacedBy(steps)[currentTier']
        /\ queue' \cap PlacedBy(steps)[currentTier'] = {}
    BY <1>1, <1>3
  <2>6. pc' = "wave" => queue' # {}
    BY <1>1
  <2>7. pc' = "group" => Placed' = Reached(steps, Placed')
    BY <1>1, <1>4
  <2>8. PlacedInWaves(0..currentTier)' /\ PlacedInWaves(0..(currentTier - 1))'
    BY <2>1, <2>2, <2>3, <1>1 DEF PlacedInWaves
  <2> QED
    BY <1>1, <2>4, <2>5, <2>6, <2>7, <2>8 DEF Waves
<1>8. ScanCounts' /\ LoopComputesTiers'
  BY <1>1 DEF ScanCounts, LoopComputesTiers
<1> QED
  BY <1>2, <1>6, <1>7, <1>8 DEF LoopInv

\* What is left over is the tier after the last wave, and there is no other.
LEMMA PlaceUnplacedLoopInv == LoopInv /\ PlaceUnplaced => LoopInv'
<1> SUFFICES ASSUME LoopInv, PlaceUnplaced PROVE LoopInv'
  OBVIOUS
<1>1. /\ pc = "group" /\ pc' = "done" /\ steps' = steps /\ Types' = Types
      /\ tier' = [t \in Types |-> IF tier[t] = Unplaced THEN currentTier ELSE tier[t]]
  BY DEF PlaceUnplaced, FinalTier, Types
<1>2. /\ currentTier \in Nat /\ Len(steps) \in Nat
      /\ Placed = {t \in Types : tier[t] # Unplaced}
      /\ PlanIsSequence(steps) /\ Types = TypesOf(steps)
  BY PlanFacts DEF LoopInv, IInv, TypeOK, Placed, Types
<1>3. /\ Placed = PlacedBy(steps)[currentTier]
      /\ Placed = Reached(steps, Placed)
      /\ PlacedInWaves(0..(currentTier - 1))
  BY <1>1 DEF LoopInv, Waves
<1>4. currentTier <= Len(steps)
  BY <1>3, WavesAreFew DEF LoopInv, IInv
<1>5. IInv'
  BY PlaceUnplacedIInv DEF LoopInv
<1>6. PICK K : K = currentTier
  OBVIOUS
<1>7. PICK p : p = steps
  OBVIOUS
<1>8. PICK W : W = PlacedBy(p)
  OBVIOUS
<1> DEFINE wave(j) == W[j + 1] \ W[j]
           left(k) == IF k = 0 \/ wave(k - 1) # {} THEN TypesOf(p) \ W[k] ELSE {}
<1>9. \A k : TierTypes(p, k) = (IF wave(k) # {} THEN wave(k) ELSE left(k)) \cap TypesOf(p)
  BY <1>8 DEF TierTypes
<1>10. /\ \A t \in Types : t \in W[K] => /\ tier'[t] \in 0..(K - 1)
                                        /\ t \in wave(tier'[t])
       /\ \A t \in Types : t \notin W[K] => tier'[t] = K
       /\ W[K] \subseteq Types
       /\ \A k \in 0..(K - 1) : \E t \in W[K] : tier'[t] = k
  <2>1. \A t \in Placed : t \in Types /\ tier'[t] = tier[t]
    BY <1>1, <1>2
  <2>2. \A t \in Types : t \notin Placed => tier'[t] = currentTier
    BY <1>1, <1>2
  <2> QED
    BY <1>3, <1>6, <1>7, <1>8, <2>1, <2>2 DEF PlacedInWaves
<1>11. \A k \in Nat : k >= K => W[k] = W[K]
  <2>1. PlacedBy(p)[K + 1] = PlacedBy(p)[K]
    BY <1>2, <1>3, <1>6, <1>7, WavesAreRecursive
  <2> QED
    BY <1>2, <1>6, <1>8, <2>1, WavesStandStill
<1>12. \A k \in 0..(K - 1) : wave(k) # {}
  BY <1>10
<1>13. ASSUME NEW k \in Nat, k >= K
       PROVE  wave(k) = {}
  <2>1. k + 1 \in Nat /\ k + 1 >= K
    BY <1>2, <1>6, <1>13
  <2> QED
    BY <1>11, <1>13, <2>1
<1> HIDE DEF wave
<1>14. left(K) = Types \ W[K]
  <2>1. K # 0 => K - 1 \in 0..(K - 1)
    BY <1>2, <1>6
  <2> QED
    BY <1>2, <1>7, <1>12, <2>1
<1>15. ASSUME NEW k \in Nat, k > K
       PROVE  left(k) = {}
  <2>1. k # 0 /\ k - 1 \in Nat /\ k - 1 >= K
    BY <1>2, <1>6, <1>15
  <2> QED
    BY <1>13, <2>1
<1> HIDE DEF left
<1>16. ASSUME NEW t \in Types
       PROVE  t \in TierTypes(p, tier'[t]) /\ tier'[t] \in 0..K
  <2>1. CASE t \in W[K]
    <3>1. tier'[t] \in 0..(K - 1) /\ t \in wave(tier'[t])
      BY <1>10, <2>1
    <3> QED
      BY <1>2, <1>6, <1>7, <1>9, <3>1
  <2>2. CASE t \notin W[K]
    <3>1. tier'[t] = K
      BY <1>10, <2>2
    <3>2. wave(K) = {}
      BY <1>2, <1>6, <1>13
    <3> QED
      BY <1>2, <1>6, <1>7, <1>9, <1>14, <2>2, <3>1, <3>2
  <2> QED
    BY <2>1, <2>2
<1>17. ASSUME NEW k \in 0..Len(p), TierTypes(p, k) # {}
       PROVE  \E t \in Types : tier'[t] = k
  <2>1. CASE k < K
    <3>1. k \in 0..(K - 1)
      BY <1>2, <1>6, <1>7, <2>1
    <3> QED
      BY <1>10, <3>1
  <2>2. CASE k = K
    <3>1. wave(K) = {}
      BY <1>2, <1>6, <1>13
    <3>2. PICK t : t \in TierTypes(p, K)
      BY <1>17, <2>2
    <3>3. t \in Types /\ t \notin W[K]
      BY <1>2, <1>7, <1>9, <1>14, <3>1, <3>2
    <3> QED
      BY <1>10, <2>2, <3>3
  <2>3. CASE k > K
    <3>1. k \in Nat /\ k >= K
      BY <1>2, <1>6, <1>7, <2>3
    <3>2. wave(k) = {} /\ left(k) = {}
      BY <1>13, <1>15, <2>3, <3>1
    <3> QED
      BY <1>9, <1>17, <3>2
  <2> QED
    BY <1>2, <1>6, <1>7, <2>1, <2>2, <2>3
<1>18. LoopComputesTiers'
  <2>1. \A t \in Types : tier'[t] \in 0..Len(p) /\ IsTier(p, tier'[t])
    BY <1>2, <1>4, <1>6, <1>7, <1>16 DEF IsTier
  <2>2. {tier'[t] : t \in Types} = {k \in 0..Len(p) : IsTier(p, k)}
    BY <1>17, <2>1 DEF IsTier
  <2> QED
    BY <1>1, <1>7, <1>16, <2>2 DEF LoopComputesTiers
<1>19. ScanCounts' /\ WaveCounts' /\ Waves'
  BY <1>1 DEF ScanCounts, WaveCounts, Waves
<1> QED
  BY <1>5, <1>18, <1>19 DEF LoopInv

THEOREM NextLoopInv == LoopInv /\ [Next]_vars => LoopInv'
<1> SUFFICES ASSUME LoopInv, [Next]_vars PROVE LoopInv'
  OBVIOUS
<1>1. CASE Returned \/ UNCHANGED vars
  <2>1. UNCHANGED vars
    BY <1>1 DEF Returned
  <2>2. Types' = Types /\ Placed' = Placed
    BY <2>1 DEF vars, Types, Placed
  <2>3. IInv'
    BY NextIInv DEF LoopInv
  <2>4. ScanCounts' /\ WaveCounts'
    BY <2>1, <2>2 DEF vars, LoopInv, ScanCounts, WaveCounts
  <2>5. Waves'
    BY <2>1, <2>2 DEF vars, LoopInv, Waves, PlacedInWaves
  <2>6. LoopComputesTiers'
    BY <2>1, <2>2 DEF vars, LoopInv, LoopComputesTiers
  <2> QED
    BY <2>3, <2>4, <2>5, <2>6 DEF LoopInv
<1> QED
  BY <1>1, ScanStepLoopInv, SeedQueueLoopInv, PlaceTypeLoopInv, NextWaveLoopInv,
     PlaceUnplacedLoopInv
  DEF Next

THEOREM LoopInvariance == Spec => []LoopInv
BY InitLoopInv, NextLoopInv, PTL DEF Spec

\* For every list of steps, with duplicate types, self-dependencies and cycles,
\* and whatever the order within a wave: the dictionary that _compute_tiers
\* returns has the tiers of module Tiers, and no others.
THEOREM LoopComputesTiersHolds == Spec => []LoopComputesTiers
<1>1. LoopInv => LoopComputesTiers
  BY DEF LoopInv
<1> QED
  BY <1>1, LoopInvariance, PTL

-----------------------------------------------------------------------------
(***************************************************************************)
(* Facts about tiers                                                       *)
(***************************************************************************)
LEMMA WavesAreSetsOfTypes ==
  ASSUME NEW p, PlanIsSequence(p), NEW k \in Nat
  PROVE  PlacedBy(p)[k] \subseteq TypesOf(p) /\ IsFiniteSet(PlacedBy(p)[k])
<1>1. PlacedBy(p)[k] \in SUBSET TypesOf(p)
  <2>1. CASE k = 0
    BY <2>1, WavesAreRecursive
  <2>2. CASE k # 0
    <3>1. k - 1 \in Nat /\ (k - 1) + 1 = k
      BY <2>2
    <3> QED
      BY <3>1, WavesAreRecursive, ReachedIsSetOfTypes
  <2> QED
    BY <2>1, <2>2
<1> QED
  BY <1>1, PlanTypesFinite, FS_Subset

\* The last step of a type that the plan has.
LEMMA LastStepOfType ==
  ASSUME NEW p, PlanIsSequence(p), NEW t \in TypesOf(p)
  PROVE  /\ IndexOfType(p, t) \in DOMAIN p
         /\ p[IndexOfType(p, t)].step_type = t
         /\ \A j \in DOMAIN p : p[j].step_type = t => j <= IndexOfType(p, t)
<1> DEFINE T == {n \in Nat : \E i \in DOMAIN p : p[i].step_type = t /\ n = Len(p) - i}
<1>1. DOMAIN p = 1..Len(p) /\ Len(p) \in Nat
  BY DEF PlanIsSequence
<1>2. PICK i \in DOMAIN p : p[i].step_type = t
  BY DEF TypesOf
<1>3. T # {} /\ T \in SUBSET Nat
  <2>1. Len(p) - i \in Nat
    BY <1>1, <1>2
  <2>2. Len(p) - i \in T
    BY <1>2, <2>1
  <2> QED
    BY <2>2
<1>4. PICK n \in T : \A m \in T : n <= m
  <2> HIDE DEF T
  <2> QED
    BY <1>3, LeastNatural
<1>5. PICK l \in DOMAIN p : p[l].step_type = t /\ n = Len(p) - l
  BY <1>4
<1>6. \A j \in DOMAIN p : p[j].step_type = t => j <= l
  <2> SUFFICES ASSUME NEW j \in DOMAIN p, p[j].step_type = t
               PROVE  j <= l
    OBVIOUS
  <2>1. Len(p) - j \in Nat
    BY <1>1
  <2>2. Len(p) - l <= Len(p) - j
    BY <1>4, <1>5, <2>1
  <2> QED
    BY <1>1, <1>5, <2>2
<1>7. \E x \in DOMAIN p : /\ p[x].step_type = t
                          /\ \A j \in DOMAIN p : p[j].step_type = t => j <= x
  BY <1>5, <1>6
<1> QED
  BY <1>7 DEF IndexOfType

\* The more is processed, the more is reached.
LEMMA ReachedIsMonotonic ==
  ASSUME NEW p, PlanIsSequence(p), NEW S, NEW R, IsFiniteSet(R), S \subseteq R
  PROVE  Reached(p, S) \subseteq Reached(p, R)
<1> SUFFICES ASSUME NEW t \in TypesOf(p), InDegree(p, t) <= Decrements(p, t, S)
             PROVE  InDegree(p, t) <= Decrements(p, t, R)
  BY DEF Reached
<1>1. IsFiniteSet(S)
  BY FS_Subset
<1>2. Pairs(p, t, S) \in SUBSET Pairs(p, t, R)
  BY DEF Pairs
<1>3. Cardinality(Pairs(p, t, S)) <= Cardinality(Pairs(p, t, R))
  BY <1>2, DecrementsAreCounted, FS_Subset
<1>4. InDegree(p, t) \in Nat
  BY RelevantDepsFinite, FS_CardinalityType DEF InDegree
<1> QED
  BY <1>1, <1>3, <1>4, DecrementsAreCounted

LEMMA WavesGrow ==
  ASSUME NEW p, PlanIsSequence(p), NEW k \in Nat
  PROVE  PlacedBy(p)[k] \subseteq PlacedBy(p)[k + 1]
<1> DEFINE T == {j \in Nat : ~ (PlacedBy(p)[j] \subseteq PlacedBy(p)[j + 1])}
<1> SUFFICES ASSUME T # {} PROVE FALSE
  OBVIOUS
<1>1. PICK j \in T : \A i \in T : j <= i
  <2>1. T \in SUBSET Nat
    OBVIOUS
  <2> HIDE DEF T
  <2> QED
    BY <2>1, LeastNatural
<1>2. j # 0
  BY <1>1, WavesAreRecursive
<1>3. j - 1 \in Nat /\ (j - 1) + 1 = j /\ ~ (j <= j - 1) /\ j + 1 \in Nat
  BY <1>1, <1>2
<1>4. PlacedBy(p)[j - 1] \subseteq PlacedBy(p)[j]
  BY <1>1, <1>3
<1>5. Reached(p, PlacedBy(p)[j - 1]) \subseteq Reached(p, PlacedBy(p)[j])
  BY <1>1, <1>4, WavesAreSetsOfTypes, ReachedIsMonotonic
<1>6. /\ PlacedBy(p)[j] = Reached(p, PlacedBy(p)[j - 1])
      /\ PlacedBy(p)[j + 1] = Reached(p, PlacedBy(p)[j])
  BY <1>1, <1>3, WavesAreRecursive
<1> QED
  BY <1>1, <1>5, <1>6

LEMMA WavesGrowOn ==
  ASSUME NEW p, PlanIsSequence(p), NEW j \in Nat, NEW k \in Nat, j <= k
  PROVE  PlacedBy(p)[j] \subseteq PlacedBy(p)[k]
<1> DEFINE T == {i \in Nat : j <= i /\ ~ (PlacedBy(p)[j] \subseteq PlacedBy(p)[i])}
<1> SUFFICES ASSUME T # {} PROVE FALSE
  OBVIOUS
<1>1. PICK i \in T : \A m \in T : i <= m
  <2>1. T \in SUBSET Nat
    OBVIOUS
  <2> HIDE DEF T
  <2> QED
    BY <2>1, LeastNatural
<1>2. i - 1 \in Nat /\ (i - 1) + 1 = i /\ ~ (i <= i - 1) /\ j <= i - 1
  <2>1. i # j
    BY <1>1
  <2> QED
    BY <1>1, <2>1
<1>3. PlacedBy(p)[j] \subseteq PlacedBy(p)[i - 1]
  BY <1>1, <1>2
<1> QED
  BY <1>1, <1>2, <1>3, WavesGrow

\* A type that a wave places is in the tier of that wave and in no other.
LEMMA TierOfWave ==
  ASSUME NEW p, PlanIsSequence(p), NEW r \in Nat, NEW t,
         t \in PlacedBy(p)[r + 1], t \notin PlacedBy(p)[r], NEW k \in Nat
  PROVE  t \in TierTypes(p, k) <=> k = r
<1>1. PICK W : W = PlacedBy(p)
  OBVIOUS
<1> DEFINE wave(j) == W[j + 1] \ W[j]
           left == IF k = 0 \/ wave(k - 1) # {} THEN TypesOf(p) \ W[k] ELSE {}
<1>2. TierTypes(p, k) = (IF wave(k) # {} THEN wave(k) ELSE left) \cap TypesOf(p)
  BY <1>1 DEF TierTypes
<1>3. t \in TypesOf(p) /\ r + 1 \in Nat
  BY WavesAreSetsOfTypes
<1>4. CASE k = r
  BY <1>1, <1>2, <1>3, <1>4
<1>5. CASE k > r
  <2>1. t \in W[k]
    BY <1>1, <1>3, <1>5, WavesGrowOn
  <2> QED
    BY <1>2, <1>5, <2>1
<1>6. CASE k < r
  <2>1. t \notin W[k + 1]
    BY <1>1, <1>6, WavesGrowOn
  <2>2. wave(k) # {}
    <3> SUFFICES ASSUME wave(k) = {} PROVE FALSE
      OBVIOUS
    <3>1. W[k + 1] = W[k]
      BY <1>1, WavesGrow
    <3>2. W[r + 1] = W[k]
      BY <1>1, <1>3, <1>6, <3>1, WavesStandStill
    <3>3. W[r] = W[k]
      BY <1>1, <1>6, <3>1, WavesStandStill
    <3> QED
      BY <1>1, <3>2, <3>3
  <2> QED
    BY <1>2, <1>6, <2>1, <2>2
<1> QED
  BY <1>4, <1>5, <1>6

\* A type is reached when all that its last step waits for is processed.
LEMMA ServedIsReached ==
  ASSUME NEW p, PlanIsSequence(p), NEW t \in TypesOf(p), NEW S, IsFiniteSet(S),
         RelevantDeps(p, IndexOfType(p, t)) \subseteq S
  PROVE  t \in Reached(p, S)
<1>1. PICK i : i = IndexOfType(p, t)
  OBVIOUS
<1>2. i \in DOMAIN p /\ p[i].step_type = t /\ DOMAIN p = 1..Len(p)
  BY <1>1, LastStepOfType DEF PlanIsSequence
<1>3. PICK D : D = RelevantDeps(p, i)
  OBVIOUS
<1>4. D \X {i} \in SUBSET Pairs(p, t, S)
  BY <1>1, <1>2, <1>3 DEF Pairs, Entries
<1>5. IsFiniteSet(D) /\ Cardinality(D) \in Nat
  BY <1>3, RelevantDepsFinite, FS_CardinalityType
<1>6. Cardinality(D \X {i}) = Cardinality(D)
  <2>1. IsFiniteSet({i}) /\ Cardinality({i}) = 1
    BY FS_Singleton
  <2>2. Cardinality(D \X {i}) = Cardinality(D) * Cardinality({i})
    BY <1>5, <2>1, FS_Product
  <2> QED
    BY <1>5, <2>1, <2>2
<1>7. Cardinality(D \X {i}) <= Cardinality(Pairs(p, t, S))
  BY <1>4, DecrementsAreCounted, FS_Subset
<1>8. InDegree(p, t) = Cardinality(D)
  BY <1>1, <1>3 DEF InDegree
<1> QED
  BY <1>6, <1>7, <1>8, DecrementsAreCounted DEF Reached

\* A type is not reached by what none of its steps waits for.
LEMMA UnservedIsNotReached ==
  ASSUME NEW p, PlanIsSequence(p), NEW t \in TypesOf(p), NEW S, IsFiniteSet(S),
         RelevantDeps(p, IndexOfType(p, t)) # {},
         \A i \in DOMAIN p : p[i].step_type = t => RelevantDeps(p, i) \cap S = {}
  PROVE  t \notin Reached(p, S)
<1>1. Pairs(p, t, S) = {}
  BY DEF Pairs, Entries, PlanIsSequence
<1>2. Decrements(p, t, S) = 0
  BY <1>1, DecrementsAreCounted, FS_EmptySet
<1>3. InDegree(p, t) \in Nat /\ InDegree(p, t) # 0
  BY RelevantDepsFinite, FS_CardinalityType, FS_EmptySet DEF InDegree
<1> QED
  BY <1>2, <1>3 DEF Reached

-----------------------------------------------------------------------------
(***************************************************************************)
(* What the planner writes, with any number of sources                     *)
(***************************************************************************)
StepTypes == {"retrieve", "tool", "analyze", "reason", "validate"}

\* What the steps before the last two wait for.
LeadingStep(p, i) ==
  /\ p[i].step_type \in StepTypes \ {"validate"}
  /\ p[i].step_type \in {"retrieve", "tool"} => p[i].depends_on = {}
  /\ p[i].step_type = "analyze" =>
       /\ p[i].depends_on = {} \/ p[i].depends_on = {"retrieve"}
       /\ \E j \in DOMAIN p : p[j].step_type = "retrieve"

\* Every plan ends with the answer, which needs what was retrieved, and its
\* validation, and has only one validation.
PlannerShape(p) ==
  /\ PlanIsSequence(p)
  /\ Len(p) >= 2
  /\ p[Len(p) - 1].step_type = "reason" /\ p[Len(p) - 1].depends_on = {"retrieve"}
  /\ p[Len(p)].step_type = "validate" /\ p[Len(p)].depends_on = {"reason"}
  /\ \A i \in 1..(Len(p) - 2) : LeadingStep(p, i)

\* The waves of such a plan: what needs nothing, then the analysis and the answer
\* (the answer at once if nothing is retrieved), then the validation.
AnswerWave(p) == IF "retrieve" \in TypesOf(p) THEN 1 ELSE 0

WaveOf(p, t) ==
  CASE t \in {"retrieve", "tool"} -> 0
    [] t = "analyze"  -> 1
    [] t = "reason"   -> AnswerWave(p)
    [] t = "validate" -> AnswerWave(p) + 1

LEMMA PlannerDeps ==
  ASSUME NEW p, PlannerShape(p)
  PROVE  /\ PlanIsSequence(p) /\ Len(p) \in Nat /\ DOMAIN p = 1..Len(p)
         /\ TypesOf(p) \subseteq StepTypes
         /\ {"reason", "validate"} \subseteq TypesOf(p)
         /\ "analyze" \in TypesOf(p) => "retrieve" \in TypesOf(p)
         /\ \A i \in DOMAIN p : p[i].step_type \in {"retrieve", "tool"} =>
              RelevantDeps(p, i) = {}
         /\ \A i \in DOMAIN p : p[i].step_type = "analyze" =>
              /\ RelevantDeps(p, i) \subseteq {"retrieve", "tool"}
              /\ "retrieve" \in RelevantDeps(p, i)
         /\ IndexOfType(p, "reason") = Len(p) - 1
         /\ RelevantDeps(p, Len(p) - 1) = {"retrieve"} \cap TypesOf(p)
         /\ IndexOfType(p, "validate") = Len(p)
         /\ \A i \in DOMAIN p : p[i].step_type = "validate" =>
              RelevantDeps(p, i) = {"reason"}
<1>1. /\ PlanIsSequence(p) /\ Len(p) \in Nat /\ DOMAIN p = 1..Len(p)
      /\ Len(p) - 1 \in DOMAIN p /\ Len(p) \in DOMAIN p
      /\ \A i \in DOMAIN p : i \in 1..(Len(p) - 2) \/ i = Len(p) - 1 \/ i = Len(p)
  BY DEF PlannerShape, PlanIsSequence
<1>2. \A i \in DOMAIN p : \/ LeadingStep(p, i)
                          \/ i = Len(p) - 1
                          \/ i = Len(p)
  BY <1>1 DEF PlannerShape
<1>3. /\ p[Len(p) - 1].step_type = "reason" /\ p[Len(p) - 1].depends_on = {"retrieve"}
      /\ p[Len(p)].step_type = "validate" /\ p[Len(p)].depends_on = {"reason"}
  BY DEF PlannerShape
<1>4. /\ \A i \in DOMAIN p : p[i].step_type \in StepTypes
      /\ {"reason", "validate"} \subseteq TypesOf(p)
  BY <1>1, <1>2, <1>3 DEF LeadingStep, StepTypes, TypesOf
<1>5. TypesOf(p) \subseteq StepTypes
  BY <1>4 DEF TypesOf
<1>6. \A i \in DOMAIN p : p[i].step_type = "validate" => i = Len(p)
  BY <1>2, <1>3 DEF LeadingStep
<1>7. ASSUME NEW i \in DOMAIN p, p[i].step_type = "analyze"
      PROVE  /\ p[i].depends_on = {} \/ p[i].depends_on = {"retrieve"}
             /\ "retrieve" \in TypesOf(p)
  BY <1>2, <1>3, <1>7 DEF LeadingStep, TypesOf
<1>8. "analyze" \in TypesOf(p) => "retrieve" \in TypesOf(p)
  BY <1>7 DEF TypesOf
<1>9. ASSUME NEW i \in DOMAIN p, p[i].step_type \in {"retrieve", "tool"}
      PROVE  RelevantDeps(p, i) = {}
  <2>1. p[i].depends_on = {}
    BY <1>2, <1>3, <1>9 DEF LeadingStep
  <2> QED
    BY <1>9, <2>1 DEF RelevantDeps, Dependencies, FallbackDependencies
<1>10. ASSUME NEW i \in DOMAIN p, p[i].step_type = "analyze"
       PROVE  /\ RelevantDeps(p, i) \subseteq {"retrieve", "tool"}
              /\ "retrieve" \in RelevantDeps(p, i)
  BY <1>7, <1>10 DEF RelevantDeps, Dependencies, FallbackDependencies
<1>11. RelevantDeps(p, Len(p) - 1) = {"retrieve"} \cap TypesOf(p)
  BY <1>3 DEF RelevantDeps, Dependencies
<1>12. RelevantDeps(p, Len(p)) = {"reason"}
  BY <1>3, <1>4 DEF RelevantDeps, Dependencies
<1>13. IndexOfType(p, "validate") = Len(p)
  BY <1>1, <1>4, <1>6, LastStepOfType
<1>14. IndexOfType(p, "reason") = Len(p) - 1
  <2>1. PICK i : i = IndexOfType(p, "reason")
    OBVIOUS
  <2>2. i \in DOMAIN p /\ p[i].step_type = "reason" /\ Len(p) - 1 <= i
    BY <1>1, <1>3, <1>4, <2>1, LastStepOfType
  <2>3. i # Len(p)
    BY <1>3, <2>2
  <2> QED
    BY <1>1, <2>1, <2>2, <2>3
<1> QED
  BY <1>1, <1>4, <1>5, <1>6, <1>8, <1>9, <1>10, <1>11, <1>12, <1>13, <1>14

\* The tier of every step type of such a plan.
LEMMA PlannerTiers ==
  ASSUME NEW p, PlannerShape(p), NEW t \in TypesOf(p), NEW k \in Nat
  PROVE  t \in TierTypes(p, k) <=> k = WaveOf(p, t)
<1>1. PICK W : W = PlacedBy(p)
  OBVIOUS
<1>2. PlanIsSequence(p) /\ t \in StepTypes
  BY PlannerDeps
<1>3. /\ W[0] = {} /\ \A j \in Nat : W[j + 1] = Reached(p, W[j])
      /\ \A j \in Nat : IsFiniteSet(W[j])
  BY <1>1, <1>2, WavesAreRecursive, WavesAreSetsOfTypes
<1>4. \A u \in TypesOf(p) : u \in {"retrieve", "tool"} => u \in W[1]
  <2> SUFFICES ASSUME NEW u \in TypesOf(p), u \in {"retrieve", "tool"}
               PROVE  u \in W[1]
    OBVIOUS
  <2>1. RelevantDeps(p, IndexOfType(p, u)) = {}
    BY <1>2, PlannerDeps, LastStepOfType
  <2>2. u \in Reached(p, W[0])
    BY <1>2, <1>3, <2>1, ServedIsReached
  <2>3. W[0 + 1] = Reached(p, W[0])
    BY <1>3
  <2> QED
    BY <2>2, <2>3
<1>5. "analyze" \in TypesOf(p) => "analyze" \in W[2] /\ "analyze" \notin W[1]
  <2> SUFFICES ASSUME "analyze" \in TypesOf(p)
               PROVE  "analyze" \in W[2] /\ "analyze" \notin W[1]
    OBVIOUS
  <2>1. PICK i : i = IndexOfType(p, "analyze")
    OBVIOUS
  <2>2. i \in DOMAIN p /\ p[i].step_type = "analyze"
    BY <1>2, <2>1, LastStepOfType
  <2>3. RelevantDeps(p, i) \subseteq {"retrieve", "tool"} /\ RelevantDeps(p, i) # {}
    BY <2>2, PlannerDeps
  <2>4. RelevantDeps(p, i) \subseteq W[1]
    BY <1>4, <2>3 DEF RelevantDeps
  <2>5. "analyze" \in Reached(p, W[1])
    BY <1>2, <1>3, <2>1, <2>4, ServedIsReached
  <2>6. "analyze" \notin Reached(p, W[0])
    <3>1. PICK S : S = W[0]
      OBVIOUS
    <3>2. S = {} /\ IsFiniteSet(S)
      BY <1>3, <3>1
    <3>3. \A j \in DOMAIN p : p[j].step_type = "analyze" => RelevantDeps(p, j) \cap S = {}
      BY <3>2
    <3>4. RelevantDeps(p, IndexOfType(p, "analyze")) # {}
      BY <2>1, <2>3
    <3>5. "analyze" \notin Reached(p, S)
      BY <1>2, <3>2, <3>3, <3>4, UnservedIsNotReached
    <3> QED
      BY <3>1, <3>5
  <2>7. W[1 + 1] = Reached(p, W[1]) /\ W[0 + 1] = Reached(p, W[0])
    BY <1>3
  <2> QED
    BY <2>5, <2>6, <2>7
<1>6. PICK a : a = AnswerWave(p)
  OBVIOUS
<1>7. a \in {0, 1} /\ (a = 1 <=> "retrieve" \in TypesOf(p))
  BY <1>6 DEF AnswerWave
<1>8. "reason" \in W[a + 1] /\ "reason" \notin W[a]
  <2>1. "reason" \in TypesOf(p)
    BY PlannerDeps
  <2>2. RelevantDeps(p, IndexOfType(p, "reason")) = {"retrieve"} \cap TypesOf(p)
    BY PlannerDeps
  <2>3. RelevantDeps(p, IndexOfType(p, "reason")) \subseteq W[a]
    <3>1. a = 0 => {"retrieve"} \cap TypesOf(p) = {}
      BY <1>7
    <3>2. a = 1 => {"retrieve"} \cap TypesOf(p) \subseteq W[1]
      BY <1>4
    <3> QED
      BY <1>7, <2>2, <3>1, <3>2
  <2>4. "reason" \in Reached(p, W[a])
    BY <1>2, <1>3, <1>7, <2>1, <2>3, ServedIsReached
  <2>5. a = 1 => "reason" \notin Reached(p, W[0])
    BY <1>2, <1>3, <1>7, <2>1, <2>2, UnservedIsNotReached
  <2>6. W[a + 1] = Reached(p, W[a]) /\ W[0 + 1] = Reached(p, W[0])
    BY <1>3, <1>7
  <2> QED
    BY <1>3, <1>7, <2>4, <2>5, <2>6
<1>9. "validate" \in W[a + 2] /\ "validate" \notin W[a + 1]
  <2>1. "validate" \in TypesOf(p)
    BY PlannerDeps
  <2>2. RelevantDeps(p, IndexOfType(p, "validate")) = {"reason"}
    BY <1>2, <2>1, PlannerDeps, LastStepOfType
  <2>3. \A i \in DOMAIN p : p[i].step_type = "validate" => RelevantDeps(p, i) = {"reason"}
    BY PlannerDeps
  <2>4. "validate" \in Reached(p, W[a + 1])
    BY <1>2, <1>3, <1>7, <1>8, <2>1, <2>2, ServedIsReached
  <2>5. "validate" \notin Reached(p, W[a])
    BY <1>2, <1>3, <1>7, <1>8, <2>1, <2>2, <2>3, UnservedIsNotReached
  <2>6. W[(a + 1) + 1] = Reached(p, W[a + 1]) /\ W[a + 1] = Reached(p, W[a])
    BY <1>3, <1>7
  <2> QED
    BY <1>7, <2>4, <2>5, <2>6
<1>10. PICK r \in Nat : r = WaveOf(p, t)
  BY <1>2, <1>6, <1>7 DEF WaveOf, StepTypes
<1>11. t \in W[r + 1] /\ t \notin W[r]
  <2>1. CASE t \in {"retrieve", "tool"}
    BY <1>3, <1>4, <1>10, <2>1 DEF WaveOf
  <2>2. CASE t = "analyze"
    <3>1. r = 1
      BY <1>10, <2>2 DEF WaveOf
    <3> QED
      BY <1>5, <2>2, <3>1
  <2>3. CASE t = "reason"
    <3>1. r = a
      BY <1>6, <1>10, <2>3 DEF WaveOf
    <3> QED
      BY <1>8, <2>3, <3>1
  <2>4. CASE t = "validate"
    <3>1. r = a + 1 /\ r + 1 = a + 2
      BY <1>6, <1>7, <1>10, <2>4 DEF WaveOf
    <3> QED
      BY <1>9, <2>4, <3>1
  <2> QED
    BY <1>2, <2>1, <2>2, <2>3, <2>4 DEF StepTypes
<1> QED
  BY <1>1, <1>2, <1>10, <1>11, TierOfWave

\* The tiers of such a plan are in the order of what its steps wait for, and it
\* is validated in the tier after the answer.
LEMMA PlannerShapeIsOrdered ==
  ASSUME NEW p, PlannerShape(p), NEW t \in TypesOf(p),
         NEW d \in RelevantDeps(p, IndexOfType(p, t))
  PROVE  WaveOf(p, d) < WaveOf(p, t)
<1>1. PlanIsSequence(p) /\ t \in StepTypes /\ d \in TypesOf(p)
  BY PlannerDeps DEF RelevantDeps
<1>2. PICK i : i = IndexOfType(p, t)
  OBVIOUS
<1>3. i \in DOMAIN p /\ p[i].step_type = t /\ d \in RelevantDeps(p, i)
  BY <1>1, <1>2, LastStepOfType
<1>4. CASE t \in {"retrieve", "tool"}
  BY <1>3, <1>4, PlannerDeps
<1>5. CASE t = "analyze"
  <2>1. d \in {"retrieve", "tool"}
    BY <1>3, <1>5, PlannerDeps
  <2> QED
    BY <1>5, <2>1 DEF WaveOf
<1>6. CASE t = "reason"
  <2>1. d = "retrieve"
    BY <1>2, <1>3, <1>6, PlannerDeps
  <2> QED
    BY <1>1, <1>6, <2>1 DEF WaveOf, AnswerWave
<1>7. CASE t = "validate"
  <2>1. d = "reason"
    BY <1>3, <1>7, PlannerDeps
  <2> QED
    BY <1>7, <2>1 DEF WaveOf, AnswerWave
<1> QED
  BY <1>1, <1>4, <1>5, <1>6, <1>7 DEF StepTypes

LEMMA PlannerShapeValidatesLate ==
  ASSUME NEW p, PlannerShape(p)
  PROVE  ValidatesLate(p)
<1>1. /\ PlanIsSequence(p) /\ Len(p) \in Nat /\ DOMAIN p = 1..Len(p) /\ Len(p) >= 2
      /\ "reason" \in TypesOf(p) /\ "validate" \in TypesOf(p)
  BY PlannerDeps DEF PlannerShape
<1>2. PICK a \in {0, 1} : a = AnswerWave(p)
  BY DEF AnswerWave
<1>3. WaveOf(p, "reason") = a /\ WaveOf(p, "validate") = a + 1
  BY <1>2 DEF WaveOf
<1>4. a + 1 \in 0..Len(p)
  <2>1. CASE a = 0
    BY <1>1, <2>1
  <2>2. CASE a = 1
    <3>1. "retrieve" \in TypesOf(p)
      BY <1>2, <2>2 DEF AnswerWave
    <3>2. PICK i \in DOMAIN p : p[i].step_type = "retrieve"
      BY <3>1 DEF TypesOf
    <3>3. i # Len(p) /\ i # Len(p) - 1
      BY <3>2 DEF PlannerShape
    <3> QED
      BY <1>1, <2>2, <3>3
  <2> QED
    BY <2>1, <2>2
<1>5. \A k \in Nat : /\ "reason" \in TierTypes(p, k) <=> k = a
                     /\ "validate" \in TierTypes(p, k) <=> k = a + 1
  BY <1>1, <1>3, PlannerTiers
<1>6. \A j \in 0..(a + 1) : IsTier(p, j)
  <2> SUFFICES ASSUME NEW j \in 0..(a + 1) PROVE IsTier(p, j)
    OBVIOUS
  <2>1. j \in Nat /\ j \in 0..Len(p)
    BY <1>1, <1>4
  <2>2. CASE j = a
    BY <1>5, <2>1, <2>2 DEF IsTier
  <2>3. CASE j = a + 1
    BY <1>5, <2>1, <2>3 DEF IsTier
  <2>4. CASE j = 0 /\ a = 1
    <3>1. "retrieve" \in TypesOf(p) /\ WaveOf(p, "retrieve") = 0
      BY <1>2, <2>4 DEF AnswerWave, WaveOf
    <3>2. "retrieve" \in TierTypes(p, 0)
      BY <3>1, PlannerTiers
    <3> QED
      BY <2>1, <2>4, <3>2 DEF IsTier
  <2> QED
    BY <2>2, <2>3, <2>4
<1>7. \E k \in 0..Len(p) : "validate" \in TierTypes(p, k) /\ \A j \in 0..k : IsTier(p, j)
  <2>1. "validate" \in TierTypes(p, a + 1)
    BY <1>5
  <2> QED
    BY <1>4, <1>6, <2>1
<1>8. \A k \in 0..Len(p) :
         "validate" \in TierTypes(p, k) => k > 0 /\ "reason" \notin TierTypes(p, k)
  <2> SUFFICES ASSUME NEW k \in 0..Len(p), "validate" \in TierTypes(p, k)
               PROVE  k > 0 /\ "reason" \notin TierTypes(p, k)
    OBVIOUS
  <2>1. k \in Nat
    BY <1>1
  <2>2. k = a + 1
    BY <1>5, <2>1
  <2> QED
    BY <1>5, <2>1, <2>2
<1> QED
  BY <1>7, <1>8 DEF ValidatesLate

\* The plans that the planner can write from any list of sources.
WrittenByPlanner(p) ==
  \E s : /\ PlanIsSequence(s)
         /\ \E h \in BOOLEAN :
              \/ p = P!LLMPlan(s, h)
              \/ \E intent : p = P!KeywordPlan(intent, s, h)

\* Steps of the planner before the answer, with sources of X.
PlanSteps(X) == [step_type : StepTypes, source : X, depends_on : SUBSET StepTypes]

Leads(f, X) == f \in Seq(PlanSteps(X)) /\ \A i \in 1..Len(f) : LeadingStep(f, i)

LEMMA LeadsAndAnswer ==
  ASSUME NEW X, NoSource \in X, NEW f, Leads(f, X)
  PROVE  PlannerShape(f \o P!AnswerSteps)
<1>1. P!AnswerSteps \in Seq(PlanSteps(X)) /\ Len(P!AnswerSteps) = 2
  BY DEF P!AnswerSteps, P!Step, PlanSteps, StepTypes
<1>2. /\ P!AnswerSteps[1].step_type = "reason"
      /\ P!AnswerSteps[1].depends_on = {"retrieve"}
      /\ P!AnswerSteps[2].step_type = "validate" /\ P!AnswerSteps[2].depends_on = {"reason"}
  BY DEF P!AnswerSteps, P!Step
<1>3. PICK p : p = f \o P!AnswerSteps
  OBVIOUS
<1>4. PICK n \in Nat : n = Len(f)
  BY LenProperties DEF Leads
<1>5. /\ p \in Seq(PlanSteps(X)) /\ Len(p) = n + 2
      /\ \A i \in 1..(n + 2) : p[i] = IF i <= n THEN f[i] ELSE P!AnswerSteps[i - n]
  <2>1. PICK g : g = P!AnswerSteps
    OBVIOUS
  <2>2. /\ f \in Seq(PlanSteps(X)) /\ g \in Seq(PlanSteps(X)) /\ Len(g) = 2
        /\ p = f \o g
    BY <1>1, <1>3, <2>1 DEF Leads
  <2>3. /\ p \in Seq(PlanSteps(X)) /\ Len(p) = n + 2
        /\ \A i \in 1..(n + 2) : p[i] = IF i <= n THEN f[i] ELSE g[i - n]
    <3>1. /\ f \o g \in Seq(PlanSteps(X)) /\ Len(f \o g) = Len(f) + Len(g)
          /\ \A i \in 1..(Len(f) + Len(g)) :
               (f \o g)[i] = IF i <= Len(f) THEN f[i] ELSE g[i - Len(f)]
      BY <2>2, ConcatProperties
    <3> QED
      BY <1>4, <2>2, <3>1
  <2> QED
    BY <2>1, <2>3
<1>6. PlanIsSequence(p)
  BY <1>4, <1>5, LenProperties DEF PlanIsSequence
<1>7. p[n + 1] = P!AnswerSteps[1] /\ p[n + 2] = P!AnswerSteps[2]
  <2>1. n + 1 \in 1..(n + 2) /\ n + 2 \in 1..(n + 2) /\ (n + 1) - n = 1 /\ (n + 2) - n = 2
    BY <1>4
  <2>2. ~ (n + 1 <= n) /\ ~ (n + 2 <= n)
    BY <1>4
  <2> QED
    BY <1>5, <2>1, <2>2
<1>8. ASSUME NEW i \in 1..n
      PROVE  LeadingStep(p, i)
  <2>1. \A j \in 1..n : p[j] = f[j] /\ j \in DOMAIN p
    BY <1>4, <1>5, <1>6 DEF PlanIsSequence
  <2>2. DOMAIN f = 1..n
    BY <1>4, LenProperties DEF Leads
  <2>3. LeadingStep(f, i)
    BY <1>4 DEF Leads
  <2> QED
    BY <2>1, <2>2, <2>3 DEF LeadingStep
<1>9. Len(p) - 1 = n + 1 /\ Len(p) - 2 = n /\ Len(p) >= 2 /\ Len(p) = n + 2
  BY <1>4, <1>5
<1> QED
  BY <1>2, <1>3, <1>6, <1>7, <1>8, <1>9 DEF PlannerShape

LEMMA LeadsAndTools ==
  ASSUME NEW X, NoSource \in X, NEW f, Leads(f, X), NEW h \in BOOLEAN
  PROVE  Leads(f \o P!ToolSteps(h), X)
<1>1. PICK g : g = P!ToolSteps(h)
  OBVIOUS
<1>2. /\ g \in Seq(PlanSteps(X))
      /\ \A i \in 1..Len(g) : g[i].step_type = "tool" /\ g[i].depends_on = {}
  <2>1. CASE h
    <3>1. g = <<P!Step("tool", NoSource, {})>>
      BY <1>1, <2>1 DEF P!ToolSteps
    <3>2. P!Step("tool", NoSource, {}) \in PlanSteps(X)
      BY DEF P!Step, PlanSteps, StepTypes
    <3>3. /\ P!Step("tool", NoSource, {}).step_type = "tool"
          /\ P!Step("tool", NoSource, {}).depends_on = {}
      BY DEF P!Step
    <3>4. Len(g) = 1 /\ g[1] = P!Step("tool", NoSource, {})
      BY <3>1
    <3>5. \A i \in 1..Len(g) : i = 1
      BY <3>4
    <3> QED
      BY <3>1, <3>2, <3>3, <3>4, <3>5
  <2>2. CASE ~ h
    <3>1. g = <<>>
      BY <1>1, <2>2 DEF P!ToolSteps
    <3> QED
      BY <3>1
  <2> QED
    BY <2>1, <2>2
<1>3. PICK m \in Nat : m = Len(f)
  BY LenProperties DEF Leads
<1>4. PICK n \in Nat : n = Len(g)
  BY <1>2, LenProperties
<1>5. PICK q : q = f \o g
  OBVIOUS
<1>6. /\ q \in Seq(PlanSteps(X)) /\ Len(q) = m + n
      /\ \A i \in 1..(m + n) : q[i] = IF i <= m THEN f[i] ELSE g[i - m]
  BY <1>2, <1>3, <1>4, <1>5, ConcatProperties DEF Leads
<1>7. DOMAIN q = 1..(m + n) /\ DOMAIN f = 1..m
  BY <1>3, <1>6, LenProperties DEF Leads
<1>8. ASSUME NEW i \in 1..(m + n)
      PROVE  LeadingStep(q, i)
  <2>1. CASE i <= m
    <3>1. \A j \in 1..m : q[j] = f[j] /\ j \in DOMAIN q
      BY <1>6, <1>7
    <3>2. i \in 1..m
      BY <2>1
    <3>3. LeadingStep(f, i)
      BY <1>3, <3>2 DEF Leads
    <3> QED
      BY <1>7, <3>1, <3>2, <3>3 DEF LeadingStep
  <2>2. CASE ~ (i <= m)
    <3>1. i - m \in 1..n
      BY <2>2
    <3>2. q[i].step_type = "tool" /\ q[i].depends_on = {}
      BY <1>2, <1>4, <1>6, <2>2, <3>1
    <3> QED
      BY <3>2 DEF LeadingStep, StepTypes
  <2> QED
    BY <2>1, <2>2
<1> QED
  BY <1>1, <1>5, <1>6, <1>8 DEF Leads

\* Every retrieval that the planner writes needs nothing.
LEMMA RetrievalsLead ==
  ASSUME NEW X, NEW s, PlanIsSequence(s), \A i \in DOMAIN s : s[i] \in X
  PROVE  Leads([i \in DOMAIN s |-> P!Retrieve(s[i])], X)
<1>1. PICK n \in Nat : n = Len(s) /\ DOMAIN s = 1..n
  BY DEF PlanIsSequence
<1>2. PICK f : f = [i \in 1..n |-> P!Retrieve(s[i])]
  OBVIOUS
<1>3. \A i \in 1..n : /\ P!Retrieve(s[i]) \in PlanSteps(X)
                      /\ P!Retrieve(s[i]).step_type = "retrieve"
                      /\ P!Retrieve(s[i]).depends_on = {}
  BY <1>1 DEF P!Retrieve, P!Step, PlanSteps, StepTypes
<1>4. f \in [1..n -> PlanSteps(X)]
  BY <1>2, <1>3
<1>5. f \in Seq(PlanSteps(X)) /\ Len(f) = n
  BY <1>4
<1>6. \A i \in 1..n : f[i].step_type = "retrieve" /\ f[i].depends_on = {}
  BY <1>2, <1>3
<1>7. Leads(f, X)
  BY <1>5, <1>6 DEF Leads, LeadingStep, StepTypes
<1> QED
  BY <1>1, <1>2, <1>7

\* So does what the planner writes for an intent.
LEMMA IntentStepsLead ==
  ASSUME NEW X, NoSource \in X, {"ir", "docs", "code", "tickets", "telemetry"} \subseteq X,
         NEW s, PlanIsSequence(s), \A i \in DOMAIN s : s[i] \in X, NEW intent
  PROVE  Leads(P!IntentSteps(intent, s), X)
<1>1. CASE intent = "design"
  <2>1. PICK f : f = <<P!Step("analyze", "ir", {}), P!Retrieve("docs"), P!Retrieve("code"),
                       P!Step("reason", NoSource, {"analyze", "retrieve"})>>
    OBVIOUS
  <2>2. f = P!IntentSteps(intent, s)
    BY <1>1, <2>1 DEF P!IntentSteps
  <2>3. /\ f[1] = P!Step("analyze", "ir", {}) /\ f[2] = P!Retrieve("docs")
        /\ f[3] = P!Retrieve("code")
        /\ f[4] = P!Step("reason", NoSource, {"analyze", "retrieve"})
        /\ Len(f) = 4 /\ DOMAIN f = 1..4
    BY <2>1
  <2>4. /\ P!Step("analyze", "ir", {}) \in PlanSteps(X) /\ P!Retrieve("docs") \in PlanSteps(X)
        /\ P!Retrieve("code") \in PlanSteps(X)
        /\ P!Step("reason", NoSource, {"analyze", "retrieve"}) \in PlanSteps(X)
    BY DEF P!Retrieve, P!Step, PlanSteps, StepTypes
  <2>5. f \in Seq(PlanSteps(X))
    BY <2>1, <2>4
  <2>6. /\ f[1].step_type = "analyze" /\ f[1].depends_on = {}
        /\ f[2].step_type = "retrieve" /\ f[2].depends_on = {}
        /\ f[3].step_type = "retrieve" /\ f[3].depends_on = {}
        /\ f[4].step_type = "reason"
    BY <2>3 DEF P!Retrieve, P!Step
  <2>7. \A i \in 1..4 : i \in {1, 2, 3, 4}
    OBVIOUS
  <2>8. \E j \in DOMAIN f : f[j].step_type = "retrieve"
    BY <2>3, <2>6
  <2>9. \A i \in 1..4 : LeadingStep(f, i)
    BY <2>6, <2>7, <2>8 DEF LeadingStep, StepTypes
  <2> QED
    BY <2>2, <2>3, <2>5, <2>9 DEF Leads
<1>2. CASE intent = "troubleshoot"
  <2>1. PICK f : f = <<P!Retrieve("tickets"), P!Retrieve("telemetry"),
                       P!Step("analyze", NoSource, {"retrieve"}),
                       P!Step("reason", NoSource, {"analyze"})>>
    OBVIOUS
  <2>2. f = P!IntentSteps(intent, s)
    BY <1>2, <2>1 DEF P!IntentSteps
  <2>3. /\ f[1] = P!Retrieve("tickets") /\ f[2] = P!Retrieve("telemetry")
        /\ f[3] = P!Step("analyze", NoSource, {"retrieve"})
        /\ f[4] = P!Step("reason", NoSource, {"analyze"})
        /\ Len(f) = 4 /\ DOMAIN f = 1..4
    BY <2>1
  <2>4. /\ P!Retrieve("tickets") \in PlanSteps(X) /\ P!Retrieve("telemetry") \in PlanSteps(X)
        /\ P!Step("analyze", NoSource, {"retrieve"}) \in PlanSteps(X)
        /\ P!Step("reason", NoSource, {"analyze"}) \in PlanSteps(X)
    BY DEF P!Retrieve, P!Step, PlanSteps, StepTypes
  <2>5. f \in Seq(PlanSteps(X))
    BY <2>1, <2>4
  <2>6. /\ f[1].step_type = "retrieve" /\ f[1].depends_on = {}
        /\ f[2].step_type = "retrieve" /\ f[2].depends_on = {}
        /\ f[3].step_type = "analyze" /\ f[3].depends_on = {"retrieve"}
        /\ f[4].step_type = "reason"
    BY <2>3 DEF P!Retrieve, P!Step
  <2>7. \A i \in 1..4 : i \in {1, 2, 3, 4}
    OBVIOUS
  <2>8. \E j \in DOMAIN f : f[j].step_type = "retrieve"
    BY <2>3, <2>6
  <2>9. \A i \in 1..4 : LeadingStep(f, i)
    BY <2>6, <2>7, <2>8 DEF LeadingStep, StepTypes
  <2> QED
    BY <2>2, <2>3, <2>5, <2>9 DEF Leads
<1>3. CASE intent # "design" /\ intent # "troubleshoot"
  BY <1>3, RetrievalsLead DEF P!IntentSteps
<1> QED
  BY <1>1, <1>2, <1>3

LEMMA PlannerPlansHaveShape ==
  ASSUME NEW p, WrittenByPlanner(p)
  PROVE  PlannerShape(p)
<1>1. PICK s : /\ PlanIsSequence(s)
               /\ \E h \in BOOLEAN : \/ p = P!LLMPlan(s, h)
                                     \/ \E intent : p = P!KeywordPlan(intent, s, h)
  BY DEF WrittenByPlanner
<1>2. PICK h \in BOOLEAN : p = P!LLMPlan(s, h) \/ \E intent : p = P!KeywordPlan(intent, s, h)
  BY <1>1
<1>3. PICK X : X = {NoSource, "ir", "docs", "code", "tickets", "telemetry"}
                     \cup {s[i] : i \in DOMAIN s}
  OBVIOUS
<1>4. /\ NoSource \in X /\ {"ir", "docs", "code", "tickets", "telemetry"} \subseteq X
      /\ \A i \in DOMAIN s : s[i] \in X
  BY <1>3
<1>5. ASSUME NEW f, Leads(f, X), p = f \o P!ToolSteps(h) \o P!AnswerSteps
      PROVE  PlannerShape(p)
  BY <1>4, <1>5, LeadsAndTools, LeadsAndAnswer
<1>6. CASE p = P!LLMPlan(s, h)
  <2>1. PICK f : f = [i \in DOMAIN s |-> P!Retrieve(s[i])]
    OBVIOUS
  <2>2. Leads(f, X)
    BY <1>1, <1>4, <2>1, RetrievalsLead
  <2> QED
    BY <1>5, <1>6, <2>1, <2>2 DEF P!LLMPlan
<1>7. ASSUME NEW intent, p = P!KeywordPlan(intent, s, h)
      PROVE  PlannerShape(p)
  <2>1. PICK f : f = P!IntentSteps(intent, s)
    OBVIOUS
  <2>2. Leads(f, X)
    BY <1>1, <1>4, <2>1, IntentStepsLead
  <2> QED
    BY <1>5, <1>7, <2>1, <2>2 DEF P!KeywordPlan
<1> QED
  BY <1>2, <1>6, <1>7

\* What module Orchestration assumes of its plans holds of every plan that the
\* planner can write, by the LLM or from keywords, for any sources.
THEOREM PlannerPlansValidateLate ==
  ASSUME NEW p, WrittenByPlanner(p)
  PROVE  PlanIsSequence(p) /\ ValidatesLate(p)
BY PlannerPlansHaveShape, PlannerShapeValidatesLate DEF PlannerShape

\* The tiers of a plan of the planner respect what its kept steps wait for.
PlannerOrder ==
  pc = "done" /\ WrittenByPlanner(steps) =>
    \A t \in Types : \A d \in KeptDeps(t) : tier[d] < tier[t]

\* For any number of sources, duplicate retrievals, analyses and answers included,
\* the loop of _compute_tiers puts every kept step after what it depends on.
THEOREM PlannerOrderHolds == Spec => []PlannerOrder
<1>1. LoopInv => PlannerOrder
  <2> SUFFICES ASSUME LoopInv, pc = "done", WrittenByPlanner(steps),
                      NEW t \in Types, NEW d \in KeptDeps(t)
               PROVE  tier[d] < tier[t]
    BY DEF PlannerOrder
  <2>1. PlannerShape(steps)
    BY PlannerPlansHaveShape
  <2>2. d \in Types /\ Types = TypesOf(steps)
    BY DEF KeptDeps, RelevantDeps, Types
  <2>3. tier \in [Types -> Nat]
    BY DEF LoopInv, IInv, TypeOK
  <2>4. t \in TierTypes(steps, tier[t]) /\ d \in TierTypes(steps, tier[d])
    BY <2>2 DEF LoopInv, LoopComputesTiers
  <2>5. tier[t] = WaveOf(steps, t) /\ tier[d] = WaveOf(steps, d)
    BY <2>1, <2>2, <2>3, <2>4, PlannerTiers
  <2>6. WaveOf(steps, d) < WaveOf(steps, t)
    BY <2>1, <2>2, PlannerShapeIsOrdered DEF KeptDeps
  <2> QED
    BY <2>5, <2>6
<1> QED
  BY <1>1, LoopInvariance, PTL

\* The same of the plans of the run.
THEOREM PlannerPlansAreOrderedHolds == Spec => []PlannerPlansAreOrdered
<1>1. \A p \in PlannerPlans : WrittenByPlanner(p)
  <2>1. \A s \in SourceLists : PlanIsSequence(s)
    BY DEF SourceLists, PlanIsSequence
  <2> QED
    BY <2>1 DEF PlannerPlans, LLMPlans, KeywordPlans, WrittenByPlanner
<1>2. PlannerOrder => PlannerPlansAreOrdered
  BY <1>1 DEF PlannerOrder, PlannerPlansAreOrdered
<1> QED
  BY <1>2, PlannerOrderHolds, PTL

=============================================================================
