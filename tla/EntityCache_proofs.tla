------------------------- MODULE EntityCache_proofs -------------------------
(***************************************************************************)
(* Theorems about EntityCache, for any number of replicas, queries and     *)
(* names, any capacity and lifetime, and any bounds.                       *)
(***************************************************************************)
EXTENDS EntityCache, Data_proofs

\* What get, put and the deletions keep of one cache: it is a dictionary
\* within capacity, and an entry knows the names that were used after it.
CacheOK(d) ==
  /\ IsOrdered(d, Names, Entry)
  /\ Cardinality(Keys(d)) <= Capacity
  /\ \A j, k \in Keys(d) : <<k, j>> \in d.before => j \in d.val[k].others

\* The entries differ at most in the names used after them.
SameAnswer(e, f) ==
  /\ e.rels = f.rels /\ e.age = f.age /\ e.stale = f.stale
  /\ e.inv = f.inv /\ e.raced = f.raced

RestTyped ==
  /\ graph \in [Names -> 0..MaxVersion] /\ version \in 0..MaxVersion
  /\ query \in [Queries -> {Idle} \cup {Fetching(n) : n \in Names} \cup
                   [at : {"answered"}, name : Names, rels : Answers,
                    inv : 0..MaxInvalidations, stale : 0..Longest, waited : 0..ResponseTime]]
  /\ subscriber \in [Replicas -> {"none", "starting", "listening", "dead"}]
  /\ channel \in [Replicas -> Seq(Message)]
  /\ publishing \in SUBSET [replica : Replicas, msg : Message]
  /\ fetches \in 0..MaxFetches
  /\ calls \in 0..MaxInvalidations
  /\ invalidated \in [Names -> 0..MaxInvalidations]
  /\ handled \in [Replicas -> [Names -> 0..MaxInvalidations]]
  /\ missed \in SUBSET Replicas

CachesOK ==
  /\ cache = [r \in Replicas |-> cache[r]]
  /\ \A r \in Replicas : CacheOK(cache[r])

\* The inductive invariant behind TypeOK and WithinCapacity.
CacheInv == RestTyped /\ CachesOK

-----------------------------------------------------------------------------
(***************************************************************************)
(* One cache                                                               *)
(***************************************************************************)
LEMMA NamesFinite == IsFiniteSet(Names) /\ Capacity \in Nat \ {0}
BY EntityCacheAssumption

LEMMA CardinalityKeys ==
  ASSUME NEW d, IsOrdered(d, Names, Entry)
  PROVE  IsFiniteSet(Keys(d)) /\ Cardinality(Keys(d)) \in Nat
BY FS_CardinalityType DEF IsOrdered

\* history: touching n changes nothing but the names used after an entry.
LEMMA TouchOK ==
  ASSUME NEW d, IsOrdered(d, Names, Entry), NEW n \in Names
  PROVE  /\ IsOrdered(Touch(d, n), Names, Entry)
         /\ Keys(Touch(d, n)) = Keys(d) /\ Touch(d, n).before = d.before
         /\ \A m \in Keys(d) :
              /\ SameAnswer(Touch(d, n).val[m], d.val[m])
              /\ m = n => Touch(d, n).val[m].others = {}
              /\ m # n => Touch(d, n).val[m].others = d.val[m].others \cup {n}
<1> DEFINE f == [m \in Keys(d) |->
                   IF m = n THEN [d.val[m] EXCEPT !.others = {}]
                   ELSE [d.val[m] EXCEPT !.others = @ \cup {n}]]
<1>1. Touch(d, n) = [d EXCEPT !.val = f]
  BY DEF Touch
<1>2. \A m \in Keys(d) : d.val[m] \in Entry
  BY DEF IsOrdered
<1>3. \A m \in Keys(d) : f[m] \in Entry
  BY <1>2 DEF Entry
<1>4. \A m \in Keys(d) :
        /\ SameAnswer(f[m], d.val[m])
        /\ m = n => f[m].others = {}
        /\ m # n => f[m].others = d.val[m].others \cup {n}
  BY <1>2 DEF Entry, SameAnswer
<1>5. f \in [Keys(d) -> Entry]
  BY <1>3
<1> HIDE DEF f
<1>6. /\ IsOrdered([d EXCEPT !.val = f], Names, Entry)
      /\ Keys([d EXCEPT !.val = f]) = Keys(d)
      /\ [d EXCEPT !.val = f].val = f
  BY <1>5, SameOrder
<1>7. [d EXCEPT !.val = f].before = d.before
  BY DEF IsOrdered
<1> QED
  BY <1>1, <1>4, <1>6, <1>7

LEMMA WithoutOK ==
  ASSUME NEW d, CacheOK(d), NEW S
  PROVE  /\ CacheOK(Without(d, S))
         /\ Keys(Without(d, S)) = Keys(d) \ S
         /\ \A m \in Keys(d) \ S : Without(d, S).val[m] = d.val[m]
<1> DEFINE e == Without(d, S)
<1>1. /\ IsOrdered(e, Names, Entry) /\ Keys(e) = Keys(d) \ S
      /\ \A m \in Keys(d) \ S : e.val[m] = d.val[m]
  BY WithoutOrdered DEF CacheOK
<1>2. Cardinality(Keys(e)) <= Cardinality(Keys(d))
  BY <1>1, CardinalityKeys, FS_Subset DEF CacheOK
<1>3. Cardinality(Keys(e)) <= Capacity
  BY <1>1, <1>2, CardinalityKeys, NamesFinite DEF CacheOK
<1>4. e.before \subseteq d.before
  BY DEF Without
<1> QED
  BY <1>1, <1>3, <1>4 DEF CacheOK

\* move_to_end of a key and touching it keep a cache.
LEMMA HitOK ==
  ASSUME NEW d, CacheOK(d), NEW n \in Keys(d)
  PROVE  /\ CacheOK(Hit(d, n))
         /\ Keys(Hit(d, n)) = Keys(d)
         /\ \A m \in Keys(d) : SameAnswer(Hit(d, n).val[m], d.val[m])
<1> DEFINE e == MoveToEnd(d, n)
<1>1. n \in Names
  BY DEF CacheOK, IsOrdered
<1>2. IsOrdered(e, Names, Entry) /\ Keys(e) = Keys(d) /\ e.val = d.val
  BY MoveToEndOrdered DEF CacheOK
<1>3. \A j, k \in Keys(d) : <<k, j>> \in e.before =>
        k # n /\ (j = n \/ <<k, j>> \in d.before)
  BY DEF MoveToEnd
<1> HIDE DEF e
<1>4. Hit(d, n) = Touch(e, n)
  BY DEF Hit, e
<1>5. /\ IsOrdered(Touch(e, n), Names, Entry)
      /\ Keys(Touch(e, n)) = Keys(e) /\ Touch(e, n).before = e.before
      /\ \A m \in Keys(e) :
           /\ SameAnswer(Touch(e, n).val[m], e.val[m])
           /\ m # n => Touch(e, n).val[m].others = e.val[m].others \cup {n}
  BY <1>1, <1>2, TouchOK
<1>6. \A j, k \in Keys(d) : <<k, j>> \in Touch(e, n).before => j \in Touch(e, n).val[k].others
  BY <1>2, <1>3, <1>5 DEF CacheOK
<1> QED
  BY <1>2, <1>4, <1>5, <1>6 DEF CacheOK

\* Room for one more.
LEMMA MakeRoomOK ==
  ASSUME NEW d, CacheOK(d)
  PROVE  /\ CacheOK(MakeRoom(d))
         /\ Keys(MakeRoom(d)) \subseteq Keys(d)
         /\ Cardinality(Keys(MakeRoom(d))) < Capacity
         /\ \A m \in Keys(MakeRoom(d)) : MakeRoom(d).val[m] = d.val[m]
         /\ \A m \in Keys(d) \ Keys(MakeRoom(d)) :
              Cardinality(d.val[m].others) >= Capacity - 1
<1>0. Cardinality(Keys(d)) \in Nat /\ Capacity \in Nat \ {0} /\ IsFiniteSet(Keys(d))
  BY CardinalityKeys, NamesFinite DEF CacheOK
<1>1. CASE ~ Cardinality(Keys(d)) >= Capacity
  BY <1>0, <1>1 DEF MakeRoom
<1>2. CASE Cardinality(Keys(d)) >= Capacity
  <2> DEFINE o == Oldest(d)
  <2>1. MakeRoom(d) = Without(d, {o})
    BY <1>2 DEF MakeRoom, PopOldest
  <2>2. Keys(d) # {}
    BY <1>0, <1>2, FS_EmptySet
  <2>3. o \in Keys(d) /\ \A j \in Keys(d) \ {o} : <<o, j>> \in d.before
    BY <2>2, OldestIsFirst DEF CacheOK
  <2>4. /\ CacheOK(MakeRoom(d)) /\ Keys(MakeRoom(d)) = Keys(d) \ {o}
        /\ \A m \in Keys(MakeRoom(d)) : MakeRoom(d).val[m] = d.val[m]
    BY <2>1, WithoutOK
  <2>5. Cardinality(Keys(d) \ {o}) = Cardinality(Keys(d)) - 1
    BY <1>0, <2>3, FS_RemoveElement
  <2>6. Cardinality(Keys(d)) = Capacity
    BY <1>0, <1>2 DEF CacheOK
  <2>7. Cardinality(d.val[o].others) >= Capacity - 1
    <3>1. d.val[o].others \in SUBSET Names
      BY <2>3 DEF CacheOK, IsOrdered, Entry
    <3>2. IsFiniteSet(d.val[o].others) /\ Keys(d) \ {o} \subseteq d.val[o].others
      BY <2>3, <3>1, NamesFinite, FS_Subset DEF CacheOK
    <3>3. Cardinality(Keys(d) \ {o}) <= Cardinality(d.val[o].others)
      BY <3>2, FS_Subset
    <3> QED
      BY <3>3, <2>5, <2>6
  <2> QED
    BY <1>0, <2>3, <2>4, <2>5, <2>6, <2>7
<1> QED
  BY <1>1, <1>2

\* put
LEMMA PutOK ==
  ASSUME NEW d, CacheOK(d), NEW n \in Names, NEW e \in Entry
  PROVE  /\ CacheOK(Put(d, n, e))
         /\ Keys(Put(d, n, e)) \subseteq Keys(d) \cup {n} /\ n \in Keys(Put(d, n, e))
         /\ SameAnswer(Put(d, n, e).val[n], e)
         /\ \A m \in Keys(Put(d, n, e)) \ {n} : SameAnswer(Put(d, n, e).val[m], d.val[m])
         /\ \A m \in Keys(d) \ Keys(Put(d, n, e)) :
              Cardinality(d.val[m].others) >= Capacity - 1
<1> DEFINE b == IF n \in Keys(d) THEN MoveToEnd(d, n) ELSE MakeRoom(d)
           p == Assign(b, n, e)
<1>1. Put(d, n, e) = Touch(p, n)
  BY DEF Put
<1>2. /\ IsOrdered(b, Names, Entry)
      /\ Keys(b) \subseteq Keys(d)
      /\ Cardinality(Keys(b) \cup {n}) <= Capacity
      /\ \A m \in Keys(b) : b.val[m] = d.val[m]
      /\ \A j, k \in Keys(b) : <<k, j>> \in b.before /\ k # n =>
           j = n \/ j \in b.val[k].others
      /\ \A k \in Keys(b) : <<n, k>> \notin b.before
      /\ \A m \in (Keys(d) \cup {n}) \ (Keys(b) \cup {n}) :
           Cardinality(d.val[m].others) >= Capacity - 1
  <2>1. CASE n \in Keys(d)
    <3>1. b = MoveToEnd(d, n)
      BY <2>1
    <3>2. IsOrdered(b, Names, Entry) /\ Keys(b) = Keys(d) /\ b.val = d.val
      BY <2>1, <3>1, MoveToEndOrdered DEF CacheOK
    <3>3. \A j, k \in Keys(d) : <<k, j>> \in b.before =>
            k # n /\ (j = n \/ <<k, j>> \in d.before)
      BY <3>1 DEF MoveToEnd
    <3>4. Keys(b) \cup {n} = Keys(d)
      BY <2>1, <3>2
    <3> QED
      BY <3>2, <3>3, <3>4 DEF CacheOK
  <2>2. CASE n \notin Keys(d)
    <3>1. b = MakeRoom(d)
      BY <2>2
    <3>2. /\ CacheOK(b) /\ Keys(b) \subseteq Keys(d)
          /\ Cardinality(Keys(b)) < Capacity
          /\ \A m \in Keys(b) : b.val[m] = d.val[m]
          /\ \A m \in Keys(d) \ Keys(b) : Cardinality(d.val[m].others) >= Capacity - 1
      BY <3>1, MakeRoomOK
    <3>3. Cardinality(Keys(b) \cup {n}) <= Capacity
      <4>1. IsFiniteSet(Keys(b)) /\ Cardinality(Keys(b)) \in Nat /\ n \notin Keys(b)
        BY <2>2, <3>2, CardinalityKeys DEF CacheOK
      <4>2. Cardinality(Keys(b) \cup {n}) = Cardinality(Keys(b)) + 1
        BY <4>1, FS_AddElement
      <4> QED
        BY <3>2, <4>1, <4>2, NamesFinite
    <3>4. \A k \in Keys(b) : <<n, k>> \notin b.before
      BY <2>2, <3>2 DEF CacheOK, IsOrdered
    <3> QED
      BY <2>2, <3>2, <3>3, <3>4 DEF CacheOK
  <2> QED
    BY <2>1, <2>2
<1> HIDE DEF b
<1>3. /\ IsOrdered(p, Names, Entry) /\ Keys(p) = Keys(b) \cup {n}
      /\ \A m \in Keys(p) : p.val[m] = IF m = n THEN e ELSE b.val[m]
  BY <1>2, AssignOrdered
<1>4. \A j, k \in Keys(p) : <<k, j>> \in p.before =>
        k # n /\ (j = n \/ j \in p.val[k].others)
  <2>1. p.before = IF n \in Keys(b) THEN b.before ELSE b.before \cup (Keys(b) \X {n})
    BY DEF Assign
  <2>2. ASSUME NEW j \in Keys(p), NEW k \in Keys(p), <<k, j>> \in p.before
        PROVE  k # n /\ (j = n \/ j \in p.val[k].others)
    <3>1. CASE <<k, j>> \in b.before
      <4>1. j \in Keys(b) /\ k \in Keys(b)
        BY <3>1, <1>2 DEF IsOrdered
      <4> QED
        BY <3>1, <4>1, <1>2, <1>3
    <3>2. CASE n \notin Keys(b) /\ k \in Keys(b) /\ j = n
      BY <3>2
    <3> QED
      BY <2>1, <2>2, <3>1, <3>2
  <2> QED
    BY <2>2
<1> HIDE DEF p
<1>5. /\ IsOrdered(Touch(p, n), Names, Entry)
      /\ Keys(Touch(p, n)) = Keys(p) /\ Touch(p, n).before = p.before
      /\ \A m \in Keys(p) :
           /\ SameAnswer(Touch(p, n).val[m], p.val[m])
           /\ m # n => Touch(p, n).val[m].others = p.val[m].others \cup {n}
  BY <1>3, TouchOK
<1>6. \A j, k \in Keys(p) : <<k, j>> \in Touch(p, n).before => j \in Touch(p, n).val[k].others
  BY <1>4, <1>5
<1>7. CacheOK(Touch(p, n))
  BY <1>2, <1>3, <1>5, <1>6 DEF CacheOK
<1>8. /\ SameAnswer(Touch(p, n).val[n], e)
      /\ \A m \in Keys(p) \ {n} : SameAnswer(Touch(p, n).val[m], d.val[m])
  BY <1>2, <1>3, <1>5
<1> QED
  BY <1>1, <1>2, <1>3, <1>5, <1>7, <1>8

-----------------------------------------------------------------------------
(***************************************************************************)
(* Types and capacity                                                      *)
(***************************************************************************)
LEMMA Bounds ==
  /\ TTL \in Nat /\ ResponseTime \in Nat /\ Longest \in Nat
  /\ Longest = TTL + ResponseTime + 1
  /\ MaxVersion \in Nat /\ MaxFetches \in Nat /\ MaxInvalidations \in Nat
  /\ Home \in [Queries -> Replicas] /\ Changing \subseteq Names
BY EntityCacheAssumption DEF Longest

\* One replica's cache becomes d.
LEMMA CacheStep ==
  ASSUME CachesOK, NEW r \in Replicas, NEW d, CacheOK(d),
         cache' = [cache EXCEPT ![r] = d]
  PROVE  CachesOK' /\ cache'[r] = d /\ \A s \in Replicas \ {r} : cache'[s] = cache[s]
<1>1. cache'[r] = d /\ \A s \in Replicas \ {r} : cache'[s] = cache[s]
  BY DEF CachesOK
<1>2. CacheOK(d)' <=> CacheOK(d)
  BY DEF CacheOK
<1>3. \A s \in Replicas : CacheOK(cache'[s])
  BY <1>1 DEF CachesOK
<1>4. cache' = [s \in Replicas |-> cache'[s]]
  BY DEF CachesOK
<1> QED BY <1>1, <1>3, <1>4 DEF CachesOK, CacheOK

LEMMA EmptyOK == CacheOK(NoKeys)
<1>1. Capacity \in Nat \ {0}
  BY NamesFinite
<1> QED BY <1>1, NoKeysOrdered, FS_EmptySet DEF CacheOK

LEMMA InitCacheInv == Init => CacheInv
<1> SUFFICES ASSUME Init PROVE CacheInv
  OBVIOUS
<1>2. CacheOK(NoKeys)
  BY EmptyOK
<1>3. CachesOK
  BY <1>2 DEF Init, CachesOK
<1>4. RestTyped
  BY Bounds DEF Init, RestTyped
<1> QED BY <1>3, <1>4 DEF CacheInv

LEMMA OlderBounded ==
  ASSUME NEW last \in Nat, NEW age \in 0..last
  PROVE  Older(age, last) \in 0..last /\ Older(age, last) <= age + 1 /\ Older(age, last) >= age
BY DEF Older

\* An answer of the query q, when it is there.
LEMMA AnswerTyped ==
  ASSUME RestTyped, NEW q \in Queries
  PROVE  /\ query[q].at = "fetching" => query[q].name \in Names
         /\ query[q].at = "answered" =>
              /\ query[q] \in [at : {"answered"}, name : Names, rels : Answers,
                               inv : 0..MaxInvalidations, stale : 0..Longest,
                               waited : 0..ResponseTime]
              /\ query[q].name \in Names
BY DEF RestTyped, Idle, Fetching

\* What Fill puts in the cache.
LEMMA NewEntryTyped ==
  ASSUME RestTyped, NEW q \in Queries, query[q].at = "answered", NEW r \in Replicas
  PROVE  NewEntry(r, query[q]) \in Entry
BY AnswerTyped, Bounds DEF NewEntry, Entry

\* Time passes for an entry.
LEMMA StillGivenTyped ==
  ASSUME NEW rels, NEW n, NEW stale \in 0..Longest
  PROVE  /\ StillGiven(rels, n, stale) \in 0..Longest
         /\ StillGiven(rels, n, stale) <= stale + 1
<1>1. Longest \in Nat
  BY Bounds
<1>2. Older(stale, Longest) \in 0..Longest /\ Older(stale, Longest) <= stale + 1
  BY <1>1, OlderBounded
<1> QED BY <1>1, <1>2 DEF StillGiven

LEMMA AgedEntryTyped ==
  ASSUME NEW n, NEW e \in Entry
  PROVE  /\ AgedEntry(n, e) \in Entry
         /\ AgedEntry(n, e).others = e.others /\ AgedEntry(n, e).inv = e.inv
         /\ AgedEntry(n, e).raced = e.raced
         /\ AgedEntry(n, e).age = Older(e.age, TTL + 1)
         /\ AgedEntry(n, e).stale = StillGiven(e.rels, n, e.stale)
<1>1. TTL + 1 \in Nat /\ e.age \in 0..TTL + 1 /\ e.stale \in 0..Longest
  BY Bounds DEF Entry
<1>2. Older(e.age, TTL + 1) \in 0..TTL + 1
  BY <1>1, OlderBounded
<1>3. StillGiven(e.rels, n, e.stale) \in 0..Longest
  BY <1>1, StillGivenTyped
<1> QED BY <1>2, <1>3 DEF AgedEntry, Entry

LEMMA TickCaches ==
  ASSUME CacheInv, Tick
  PROVE  /\ CachesOK'
         /\ \A r \in Replicas :
              /\ Keys(cache'[r]) = Keys(cache[r])
              /\ \A n \in Keys(cache[r]) :
                   cache'[r].val[n] = AgedEntry(n, cache[r].val[n])
<1>1. ASSUME NEW r \in Replicas
      PROVE  /\ CacheOK(cache'[r]) /\ Keys(cache'[r]) = Keys(cache[r])
             /\ \A n \in Keys(cache[r]) :
                  cache'[r].val[n] = AgedEntry(n, cache[r].val[n])
  <2> DEFINE d == cache[r]
             f == [n \in Keys(d) |-> AgedEntry(n, d.val[n])]
  <2>1. cache'[r] = [d EXCEPT !.val = f]
    BY DEF Tick
  <2>2. CacheOK(d) /\ IsOrdered(d, Names, Entry)
    BY DEF CacheInv, CachesOK, CacheOK
  <2>3. \A n \in Keys(d) : d.val[n] \in Entry
    BY <2>2 DEF IsOrdered
  <2>4. /\ f \in [Keys(d) -> Entry]
        /\ \A n \in Keys(d) : f[n] = AgedEntry(n, d.val[n]) /\ f[n].others = d.val[n].others
    BY <2>3, AgedEntryTyped
  <2>5. d = [val |-> d.val, before |-> d.before]
    BY <2>2 DEF IsOrdered
  <2> HIDE DEF f, d
  <2>6. /\ IsOrdered(cache'[r], Names, Entry) /\ Keys(cache'[r]) = Keys(d)
        /\ cache'[r].val = f
    BY <2>1, <2>2, <2>4, SameOrder
  <2>7. cache'[r].before = d.before
    BY <2>1, <2>5
  <2>8. CacheOK(cache'[r])
    BY <2>2, <2>4, <2>6, <2>7 DEF CacheOK
  <2> QED
    BY <2>4, <2>6, <2>8 DEF d
<1>2. cache' = [r \in Replicas |-> cache'[r]]
  BY DEF Tick
<1> QED BY <1>1, <1>2 DEF CachesOK, CacheOK

LEMMA TickRest == CacheInv /\ Tick => RestTyped'
<1> SUFFICES ASSUME CacheInv, Tick PROVE RestTyped'
  OBVIOUS
<1> USE Bounds
<1>1. ASSUME NEW q \in Queries, query[q].at = "answered"
      PROVE  AgedAnswer(query[q])
             \in [at : {"answered"}, name : Names, rels : Answers,
                  inv : 0..MaxInvalidations, stale : 0..Longest, waited : 0..ResponseTime]
  <2>1. query[q] \in [at : {"answered"}, name : Names, rels : Answers,
                      inv : 0..MaxInvalidations, stale : 0..Longest,
                      waited : 0..ResponseTime]
    BY <1>1, AnswerTyped DEF CacheInv
  <2>2. query[q].waited + 1 \in 0..ResponseTime
    <3>1. query[q].waited < ResponseTime /\ query[q].waited \in 0..ResponseTime
      BY <1>1, <2>1 DEF Tick
    <3> QED BY <3>1
  <2>3. StillGiven(query[q].rels, query[q].name, query[q].stale) \in 0..Longest
    BY <2>1, StillGivenTyped
  <2> QED BY <2>1, <2>2, <2>3 DEF AgedAnswer
<1>2. query' \in [Queries -> {Idle} \cup {Fetching(n) : n \in Names} \cup
                   [at : {"answered"}, name : Names, rels : Answers,
                    inv : 0..MaxInvalidations, stale : 0..Longest, waited : 0..ResponseTime]]
  BY <1>1 DEF Tick, CacheInv, RestTyped
<1> QED BY <1>2 DEF Tick, CacheInv, RestTyped, graphVars, redisVars, invVars

LEMMA NextCacheInv == CacheInv /\ [Next]_vars => CacheInv'
<1> SUFFICES ASSUME CacheInv, [Next]_vars PROVE CacheInv'
  OBVIOUS
<1> USE Bounds
<1> USE DEF graphVars, redisVars, invVars
<1>1. CASE UNCHANGED vars
  BY <1>1 DEF CacheInv, RestTyped, CachesOK, CacheOK, vars
<1>2. ASSUME NEW q \in Queries, NEW n \in Names, LookupHit(q, n) PROVE CacheInv'
  <2>1. Home[q] \in Replicas /\ n \in Keys(cache[Home[q]])
    BY <1>2 DEF LookupHit
  <2>2. CacheOK(Hit(cache[Home[q]], n))
    BY <2>1, HitOK DEF CacheInv, CachesOK
  <2>3. CachesOK'
    BY <1>2, <2>1, <2>2, CacheStep DEF LookupHit, CacheInv
  <2> QED BY <1>2, <2>3 DEF LookupHit, CacheInv, RestTyped
<1>3. ASSUME NEW q \in Queries, NEW n \in Names, LookupMiss(q, n) PROVE CacheInv'
  <2>1. CacheOK(Without(cache[Home[q]], {n})) /\ Home[q] \in Replicas
    BY WithoutOK DEF CacheInv, CachesOK
  <2>2. CachesOK'
    BY <1>3, <2>1, CacheStep DEF LookupMiss, CacheInv
  <2>3. Fetching(n) \in {Fetching(m) : m \in Names}
    OBVIOUS
  <2>4. query' \in [Queries -> {Idle} \cup {Fetching(m) : m \in Names} \cup
                     [at : {"answered"}, name : Names, rels : Answers,
                      inv : 0..MaxInvalidations, stale : 0..Longest, waited : 0..ResponseTime]]
    BY <1>3, <2>3 DEF LookupMiss, CacheInv, RestTyped
  <2>5. fetches' \in 0..MaxFetches
    <3>1. fetches \in 0..MaxFetches /\ fetches < MaxFetches /\ fetches' = fetches + 1
      BY <1>3 DEF LookupMiss, CacheInv, RestTyped
    <3>2. MaxFetches \in Nat
      BY Bounds
    <3> QED
      BY <3>1, <3>2
  <2> QED BY <1>3, <2>2, <2>4, <2>5 DEF LookupMiss, CacheInv, RestTyped
<1>4. ASSUME NEW q \in Queries, GraphAnswers(q) \/ GraphFails(q) PROVE CacheInv'
  <2>1. PICK rels \in Answers : GraphReturns(q, rels)
    BY <1>4, AnswerTyped DEF GraphAnswers, GraphFails, Answers, CacheInv, RestTyped
  <2>2. query[q].name \in Names
    BY <2>1, AnswerTyped DEF GraphReturns, CacheInv
  <2>3. Answered(query[q].name, rels) \in
          [at : {"answered"}, name : Names, rels : Answers,
           inv : 0..MaxInvalidations, stale : 0..Longest, waited : 0..ResponseTime]
    BY <2>2 DEF Answered, CacheInv, RestTyped
  <2>4. CachesOK'
    BY <2>1 DEF GraphReturns, CacheInv, CachesOK, CacheOK
  <2> QED BY <2>1, <2>3, <2>4 DEF GraphReturns, CacheInv, RestTyped
<1>5. ASSUME NEW q \in Queries, FetchRaises(q) PROVE CacheInv'
  BY <1>5 DEF FetchRaises, CacheInv, RestTyped, CachesOK, CacheOK
<1>6. ASSUME NEW q \in Queries, Fill(q) PROVE CacheInv'
  <2> DEFINE r == Home[q]  e == NewEntry(r, query[q])
  <2>1. r \in Replicas /\ e \in Entry /\ query[q].name \in Names
    BY <1>6, NewEntryTyped, AnswerTyped DEF Fill, CacheInv
  <2>2. CacheOK(Put(cache[r], query[q].name, e))
    BY <2>1, PutOK DEF CacheInv, CachesOK
  <2>3. CachesOK'
    BY <1>6, <2>1, <2>2, CacheStep DEF Fill, CacheInv
  <2> QED BY <1>6, <2>3 DEF Fill, CacheInv, RestTyped
<1>7. ASSUME NEW r \in Replicas, NEW n \in Changing, Invalidate(r, n) PROVE CacheInv'
  <2>1. CacheOK(Forget(cache[r], n))
    BY WithoutOK DEF CacheInv, CachesOK, Forget
  <2>2. CachesOK'
    BY <1>7, <2>1, CacheStep DEF Invalidate, CacheInv
  <2>3. n \in Names /\ calls + 1 \in 0..MaxInvalidations
    BY <1>7 DEF Invalidate, CacheInv, RestTyped
  <2>4. [replica |-> r, msg |-> [name |-> n, inv |-> calls + 1]]
          \in [replica : Replicas, msg : Message]
    BY <2>3 DEF Message
  <2>5. publishing' \in SUBSET [replica : Replicas, msg : Message]
    BY <1>7, <2>4 DEF Invalidate, CacheInv, RestTyped
  <2> QED BY <1>7, <2>2, <2>3, <2>5 DEF Invalidate, CacheInv, RestTyped
<1>8. ASSUME NEW r \in Replicas, NEW S, RemoveHere(r, S) PROVE CacheInv'
  <2>1. CacheOK(Without(cache[r], S))
    BY WithoutOK DEF CacheInv, CachesOK
  <2>2. CachesOK'
    BY <1>8, <2>1, CacheStep DEF RemoveHere, CacheInv
  <2> QED BY <1>8, <2>2 DEF RemoveHere, CacheInv, RestTyped
<1>9. ASSUME NEW r \in Replicas, HandleMessage(r) PROVE CacheInv'
  <2> DEFINE m == Head(channel[r])
  <2>1. m \in Message /\ Tail(channel[r]) \in Seq(Message)
    BY <1>9, HeadTailProperties DEF HandleMessage, CacheInv, RestTyped
  <2>2. CacheOK(OnMessage(cache[r], m.name))
    BY WithoutOK DEF CacheInv, CachesOK, OnMessage
  <2>3. CachesOK'
    BY <1>9, <2>2, CacheStep DEF HandleMessage, CacheInv
  <2>4. handled' \in [Replicas -> [Names -> 0..MaxInvalidations]]
    BY <1>9, <2>1 DEF HandleMessage, CacheInv, RestTyped, Message
  <2> QED BY <1>9, <2>1, <2>3, <2>4 DEF HandleMessage, CacheInv, RestTyped
<1>10. ASSUME NEW r \in Replicas, Subscribe(r) \/ SubscriberDies(r) PROVE CacheInv'
  <2>1. CachesOK' /\ UNCHANGED <<graphVars, query, publishing, fetches, invVars>>
    BY <1>10 DEF Subscribe, SubscriberDies, CacheInv, CachesOK, CacheOK
  <2>2. subscriber' \in [Replicas -> {"none", "starting", "listening", "dead"}]
    BY <1>10 DEF Subscribe, SubscriberDies, CacheInv, RestTyped
  <2>3. channel' \in [Replicas -> Seq(Message)]
    <3>1. <<>> \in Seq(Message) /\ channel \in [Replicas -> Seq(Message)]
      BY DEF CacheInv, RestTyped
    <3>2. channel' = channel \/ channel' = [channel EXCEPT ![r] = <<>>]
      BY <1>10 DEF Subscribe, SubscriberDies
    <3> QED BY <3>1, <3>2
  <2>4. missed' \in SUBSET Replicas
    BY <1>10 DEF Subscribe, SubscriberDies, CacheInv, RestTyped
  <2> QED BY <2>1, <2>2, <2>3, <2>4 DEF CacheInv, RestTyped
<1>11. ASSUME NEW r \in Replicas, Restart(r) PROVE CacheInv'
  <2>1. CacheOK(NoKeys)
    BY EmptyOK
  <2>2. CachesOK'
    BY <1>11, <2>1, CacheStep DEF Restart, CacheInv
  <2> QED BY <1>11, <2>2 DEF Restart, CacheInv, RestTyped
<1>12. ASSUME NEW p \in publishing, Publish(p) PROVE CacheInv'
  <2>1. p.msg \in Message
    BY DEF CacheInv, RestTyped
  <2>2. \A r \in Replicas : Append(channel[r], p.msg) \in Seq(Message)
    BY <2>1, AppendProperties DEF CacheInv, RestTyped
  <2>3. channel' \in [Replicas -> Seq(Message)]
    BY <1>12, <2>2 DEF Publish, CacheInv, RestTyped
  <2> QED BY <1>12, <2>3 DEF Publish, CacheInv, RestTyped, CachesOK, CacheOK
<1>13. ASSUME NEW p \in publishing, PublishFails(p) PROVE CacheInv'
  BY <1>13 DEF PublishFails, CacheInv, RestTyped, CachesOK, CacheOK
<1>14. ASSUME NEW n \in Changing, UpdateGraph(n) PROVE CacheInv'
  <2>1. version + 1 \in 0..MaxVersion
    BY <1>14 DEF UpdateGraph, CacheInv, RestTyped
  <2>2. graph' \in [Names -> 0..MaxVersion]
    BY <1>14, <2>1 DEF UpdateGraph, CacheInv, RestTyped
  <2> QED BY <1>14, <2>1, <2>2 DEF UpdateGraph, CacheInv, RestTyped, CachesOK, CacheOK
<1>15. CASE Tick
  BY <1>15, TickCaches, TickRest DEF CacheInv
<1> QED
  BY <1>1, <1>2, <1>3, <1>4, <1>5, <1>6, <1>7, <1>8, <1>9, <1>10, <1>11, <1>12,
     <1>13, <1>14, <1>15
  DEF Next, QueryNext, ReplicaNext, InvalidateByPrefix, Clear

THEOREM CacheInvariant == Spec => []CacheInv
BY InitCacheInv, NextCacheInv, PTL DEF Spec

\* Every variable, and every cache with the order of its keys, stays in its
\* type.
THEOREM EntityCacheTypeOK == Spec => []TypeOK
<1>1. CacheInv => TypeOK
  BY DEF CacheInv, RestTyped, CachesOK, CacheOK, TypeOK
<1> QED BY <1>1, CacheInvariant, PTL

\* No replica holds more entries than the capacity: of two fills that were
\* under way together each makes its own room.
THEOREM CacheWithinCapacity == Spec => []WithinCapacity
<1>1. CacheInv => WithinCapacity
  BY DEF CacheInv, CachesOK, CacheOK, WithinCapacity
<1> QED BY <1>1, CacheInvariant, PTL

\* A put evicts an entry that Capacity - 1 others have been used after.
THEOREM UsedEntriesSurvive == Spec => RecentlyUsedSurvive
<1>1. ASSUME CacheInv, NEW q \in Queries, Fill(q)
      PROVE  LET r == Home[q] IN
             \A n \in Keys(cache[r]) \ Keys(cache'[r]) :
                Cardinality(cache[r].val[n].others) >= Capacity - 1
  <2> DEFINE r == Home[q]  e == NewEntry(r, query[q])
  <2>1. r \in Replicas /\ e \in Entry /\ query[q].name \in Names
    BY <1>1, NewEntryTyped, AnswerTyped, Bounds DEF Fill, CacheInv
  <2>2. cache'[r] = Put(cache[r], query[q].name, e)
    BY <1>1, <2>1 DEF Fill, CacheInv, CachesOK
  <2>3. CacheOK(cache[r])
    BY <1>1, <2>1 DEF CacheInv, CachesOK
  <2> HIDE DEF e
  <2>4. \A n \in Keys(cache[r]) \ Keys(Put(cache[r], query[q].name, e)) :
          Cardinality(cache[r].val[n].others) >= Capacity - 1
    BY <2>1, <2>3, PutOK
  <2> QED BY <2>2, <2>4
<1>2. CacheInv => [\A q \in Queries : LET r == Home[q] IN
        Fill(q) => \A n \in Keys(cache[r]) \ Keys(cache'[r]) :
                     Cardinality(cache[r].val[n].others) >= Capacity - 1]_vars
  BY <1>1
<1> QED BY <1>2, CacheInvariant, PTL DEF RecentlyUsedSurvive

-----------------------------------------------------------------------------
(***************************************************************************)
(* How old an answer is, and what an invalidation leaves                   *)
(***************************************************************************)

\* An answer is at most ResponseTime older than its entry, and what was read
\* before an invalidation that was handled here was on its way meanwhile.
EntriesOK ==
  \A r \in Replicas : \A n \in Keys(cache[r]) :
    LET e == cache[r].val[n] IN
    /\ e.stale <= e.age + ResponseTime
    /\ e.inv < handled[r][n] => e.raced

AnswersOK ==
  \A q \in Queries : query[q].at = "answered" => query[q].stale <= query[q].waited

EntryInv == EntriesOK /\ AnswersOK

LEMMA EntryTyped ==
  ASSUME CacheInv, NEW r \in Replicas, NEW n \in Keys(cache[r])
  PROVE  cache[r].val[n] \in Entry /\ n \in Names /\ handled[r][n] \in 0..MaxInvalidations
BY DEF CacheInv, RestTyped, CachesOK, CacheOK, IsOrdered

\* One replica's cache becomes d, whose entries were in the cache before.
LEMMA OldEntriesOK ==
  ASSUME CacheInv, EntriesOK, NEW r \in Replicas, NEW d,
         cache' = [cache EXCEPT ![r] = d], UNCHANGED handled,
         Keys(d) \subseteq Keys(cache[r]),
         \A n \in Keys(d) : SameAnswer(d.val[n], cache[r].val[n])
  PROVE  EntriesOK'
<1>1. cache'[r] = d /\ \A s \in Replicas \ {r} : cache'[s] = cache[s]
  BY DEF CacheInv, CachesOK
<1>2. ASSUME NEW n \in Keys(d)
      PROVE  /\ d.val[n].stale <= d.val[n].age + ResponseTime
             /\ d.val[n].inv < handled[r][n] => d.val[n].raced
  <2>1. SameAnswer(d.val[n], cache[r].val[n]) /\ n \in Keys(cache[r])
    BY <1>2
  <2>2. /\ cache[r].val[n].stale <= cache[r].val[n].age + ResponseTime
        /\ cache[r].val[n].inv < handled[r][n] => cache[r].val[n].raced
    BY <2>1 DEF EntriesOK
  <2> QED BY <2>1, <2>2 DEF SameAnswer
<1> QED BY <1>1, <1>2 DEF EntriesOK

\* A name is forgotten at r, and only then counts as invalidated there.
LEMMA ForgetEntriesOK ==
  ASSUME CacheInv, EntriesOK, NEW r \in Replicas, NEW n \in Names, NEW i,
         cache' = [cache EXCEPT ![r] = Without(@, {n})],
         handled' = [handled EXCEPT ![r][n] = i]
  PROVE  EntriesOK'
<1>1. /\ cache'[r] = Without(cache[r], {n})
      /\ \A s \in Replicas \ {r} : cache'[s] = cache[s]
  BY DEF CacheInv, CachesOK
<1>2. /\ Keys(cache'[r]) = Keys(cache[r]) \ {n}
      /\ \A m \in Keys(cache'[r]) : cache'[r].val[m] = cache[r].val[m]
  BY <1>1, WithoutOK DEF CacheInv, CachesOK
<1>3. /\ \A m \in Names \ {n} : handled'[r][m] = handled[r][m]
      /\ \A s \in Replicas \ {r} : handled'[s] = handled[s]
  BY DEF CacheInv, RestTyped
<1>4. \A s \in Replicas : Keys(cache[s]) \subseteq Names
  BY DEF CacheInv, CachesOK, CacheOK, IsOrdered
<1>5. ASSUME NEW m \in Keys(cache'[r])
      PROVE  /\ cache'[r].val[m].stale <= cache'[r].val[m].age + ResponseTime
             /\ cache'[r].val[m].inv < handled'[r][m] => cache'[r].val[m].raced
  BY <1>2, <1>3, <1>4, <1>5 DEF EntriesOK
<1>6. ASSUME NEW s \in Replicas \ {r}, NEW m \in Keys(cache'[s])
      PROVE  /\ cache'[s].val[m].stale <= cache'[s].val[m].age + ResponseTime
             /\ cache'[s].val[m].inv < handled'[s][m] => cache'[s].val[m].raced
  BY <1>1, <1>3, <1>6 DEF EntriesOK
<1> QED BY <1>5, <1>6 DEF EntriesOK

LEMMA InitEntryInv == Init => EntryInv
<1> SUFFICES ASSUME Init PROVE EntriesOK /\ AnswersOK
  BY DEF EntryInv
<1>1. EntriesOK
  <2>1. \A r \in Replicas : cache[r] = NoKeys
    BY DEF Init
  <2> QED
    BY <2>1, NoKeysOrdered DEF EntriesOK
<1>2. AnswersOK
  <2>1. \A q \in Queries : query[q].at = "idle"
    BY DEF Init, Idle
  <2> QED
    BY <2>1 DEF AnswersOK
<1> QED BY <1>1, <1>2

LEMMA TickEntryInv == CacheInv /\ EntryInv /\ Tick => EntryInv'
<1> SUFFICES ASSUME CacheInv, EntryInv, Tick PROVE EntryInv'
  OBVIOUS
<1>1. ASSUME NEW r \in Replicas, NEW n \in Keys(cache'[r])
      PROVE  LET e == cache'[r].val[n] IN
             /\ e.stale <= e.age + ResponseTime
             /\ e.inv < handled'[r][n] => e.raced
  <2> DEFINE e == cache[r].val[n]  f == AgedEntry(n, e)
  <2>1. n \in Keys(cache[r]) /\ cache'[r].val[n] = f /\ UNCHANGED handled
    BY <1>1, TickCaches DEF Tick, invVars
  <2>2. /\ e \in Entry /\ e.stale <= e.age + ResponseTime
        /\ e.inv < handled[r][n] => e.raced
    BY <2>1, EntryTyped DEF EntryInv, EntriesOK
  <2>3. /\ f.inv = e.inv /\ f.raced = e.raced /\ f.age = Older(e.age, TTL + 1)
        /\ f.stale = StillGiven(e.rels, n, e.stale)
    BY <2>2, AgedEntryTyped
  <2>4. e.age \in 0..TTL + 1 /\ e.stale \in 0..Longest
    BY <2>2 DEF Entry
  <2>5. f.stale <= e.stale + 1 /\ f.stale \in 0..Longest
    BY <2>3, <2>4, StillGivenTyped
  <2>6. f.stale <= f.age + ResponseTime
    <3>1. CASE e.age = TTL + 1
      BY <3>1, <2>3, <2>5, Bounds DEF Older
    <3>2. CASE e.age # TTL + 1
      BY <3>2, <2>2, <2>3, <2>4, <2>5, Bounds DEF Older
    <3> QED BY <3>1, <3>2
  <2> QED BY <2>1, <2>2, <2>3, <2>6
<1>2. EntriesOK'
  BY <1>1 DEF EntriesOK
<1>3. ASSUME NEW q \in Queries, query'[q].at = "answered"
      PROVE  query'[q].stale <= query'[q].waited
  <2>1. query'[q] = IF query[q].at = "answered" THEN AgedAnswer(query[q]) ELSE query[q]
    BY DEF Tick
  <2>2. query[q].at = "answered" /\ query'[q] = AgedAnswer(query[q])
    BY <1>3, <2>1
  <2>3. /\ query[q] \in [at : {"answered"}, name : Names, rels : Answers,
                         inv : 0..MaxInvalidations, stale : 0..Longest,
                         waited : 0..ResponseTime]
        /\ query[q].stale <= query[q].waited
    BY <2>2, AnswerTyped DEF CacheInv, EntryInv, AnswersOK
  <2>4. /\ query'[q].waited = query[q].waited + 1
        /\ query'[q].stale = StillGiven(query[q].rels, query[q].name, query[q].stale)
    BY <2>2, <2>3 DEF AgedAnswer
  <2>5. query'[q].stale <= query[q].stale + 1 /\ query'[q].stale \in 0..Longest
    BY <2>3, <2>4, StillGivenTyped
  <2> QED BY <2>3, <2>4, <2>5, Bounds
<1> QED BY <1>2, <1>3 DEF EntryInv, AnswersOK

LEMMA NextEntryInv == CacheInv /\ CacheInv' /\ EntryInv /\ [Next]_vars => EntryInv'
<1> SUFFICES ASSUME CacheInv, CacheInv', EntryInv, [Next]_vars PROVE EntryInv'
  OBVIOUS
<1> USE DEF graphVars, redisVars, invVars
<1>0. EntriesOK /\ AnswersOK /\ Home \in [Queries -> Replicas] /\ Changing \subseteq Names
  BY Bounds DEF EntryInv
<1>1. CASE UNCHANGED vars
  BY <1>1 DEF EntryInv, EntriesOK, AnswersOK, vars
<1>2. ASSUME NEW q \in Queries, NEW n \in Names, LookupHit(q, n) PROVE EntryInv'
  <2> DEFINE r == Home[q]
  <2>1. r \in Replicas /\ n \in Keys(cache[r]) /\ CacheOK(cache[r])
    BY <1>0, <1>2 DEF LookupHit, CacheInv, CachesOK
  <2>2. /\ Keys(Hit(cache[r], n)) = Keys(cache[r])
        /\ \A m \in Keys(cache[r]) : SameAnswer(Hit(cache[r], n).val[m], cache[r].val[m])
    BY <2>1, HitOK
  <2>3. EntriesOK'
    BY <1>0, <1>2, <2>1, <2>2, OldEntriesOK DEF LookupHit
  <2> QED BY <1>0, <1>2, <2>3 DEF LookupHit, EntryInv, AnswersOK
<1>3. ASSUME NEW q \in Queries, NEW n \in Names, LookupMiss(q, n) PROVE EntryInv'
  <2> DEFINE r == Home[q]
  <2>1. r \in Replicas /\ CacheOK(cache[r])
    BY <1>0 DEF CacheInv, CachesOK
  <2>2. /\ Keys(Without(cache[r], {n})) \subseteq Keys(cache[r])
        /\ \A m \in Keys(Without(cache[r], {n})) :
             SameAnswer(Without(cache[r], {n}).val[m], cache[r].val[m])
    BY <2>1, WithoutOK DEF SameAnswer
  <2>3. EntriesOK'
    BY <1>0, <1>3, <2>1, <2>2, OldEntriesOK DEF LookupMiss
  <2>4. AnswersOK'
    BY <1>0, <1>3 DEF LookupMiss, AnswersOK, Fetching, CacheInv, RestTyped
  <2> QED BY <2>3, <2>4 DEF EntryInv
<1>4. ASSUME NEW q \in Queries, GraphAnswers(q) \/ GraphFails(q) PROVE EntryInv'
  <2>1. PICK rels : GraphReturns(q, rels)
    BY <1>4 DEF GraphAnswers, GraphFails
  <2>2. EntriesOK'
    BY <1>0, <2>1 DEF GraphReturns, EntriesOK
  <2>3. AnswersOK'
    BY <1>0, <2>1 DEF GraphReturns, AnswersOK, Answered, CacheInv, RestTyped
  <2> QED BY <2>2, <2>3 DEF EntryInv
<1>5. ASSUME NEW q \in Queries, FetchRaises(q) PROVE EntryInv'
  BY <1>0, <1>5 DEF FetchRaises, EntryInv, EntriesOK, AnswersOK, Idle, CacheInv, RestTyped
<1>6. ASSUME NEW q \in Queries, Fill(q) PROVE EntryInv'
  <2> DEFINE r == Home[q]  n == query[q].name  e == NewEntry(r, query[q])
             p == Put(cache[r], n, e)
  <2>1. /\ r \in Replicas /\ CacheOK(cache[r]) /\ n \in Names /\ e \in Entry
        /\ query[q] \in [at : {"answered"}, name : Names, rels : Answers,
                         inv : 0..MaxInvalidations, stale : 0..Longest,
                         waited : 0..ResponseTime]
        /\ query[q].stale <= query[q].waited
    BY <1>0, <1>6, AnswerTyped, NewEntryTyped DEF Fill, CacheInv, CachesOK, AnswersOK
  <2>2. /\ e.age = 0 /\ e.stale = query[q].stale /\ e.inv = query[q].inv
        /\ e.inv < handled[r][n] => e.raced
    BY DEF NewEntry
  <2>3. e.stale <= e.age + ResponseTime
    BY <2>1, <2>2, Bounds
  <2>4. /\ cache'[r] = p /\ \A s \in Replicas \ {r} : cache'[s] = cache[s]
        /\ UNCHANGED handled
    BY <1>6, <2>1 DEF Fill, CacheInv, CachesOK
  <2> HIDE DEF e
  <2>5. /\ Keys(p) \subseteq Keys(cache[r]) \cup {n}
        /\ SameAnswer(p.val[n], e)
        /\ \A m \in Keys(p) \ {n} : SameAnswer(p.val[m], cache[r].val[m])
    BY <2>1, PutOK
  <2> HIDE DEF p
  <2>6. ASSUME NEW m \in Keys(p)
        PROVE  /\ p.val[m].stale <= p.val[m].age + ResponseTime
               /\ p.val[m].inv < handled[r][m] => p.val[m].raced
    <3>1. CASE m = n
      BY <3>1, <2>2, <2>3, <2>5 DEF SameAnswer
    <3>2. CASE m # n
      <4>1. m \in Keys(cache[r]) /\ SameAnswer(p.val[m], cache[r].val[m])
        BY <2>5, <2>6, <3>2
      <4>2. /\ cache[r].val[m].stale <= cache[r].val[m].age + ResponseTime
            /\ cache[r].val[m].inv < handled[r][m] => cache[r].val[m].raced
        BY <1>0, <2>1, <4>1 DEF EntriesOK
      <4> QED BY <4>1, <4>2 DEF SameAnswer
    <3> QED BY <3>1, <3>2
  <2>7. EntriesOK'
    BY <1>0, <2>4, <2>6 DEF EntriesOK
  <2>8. AnswersOK'
    BY <1>0, <1>6 DEF Fill, AnswersOK, Idle, CacheInv, RestTyped
  <2> QED BY <2>7, <2>8 DEF EntryInv
<1>7. ASSUME NEW r \in Replicas, NEW n \in Changing, Invalidate(r, n) PROVE EntryInv'
  <2>1. n \in Names
    BY <1>0
  <2>2. /\ cache' = [cache EXCEPT ![r] = Without(@, {n})]
        /\ handled' = [handled EXCEPT ![r][n] = calls + 1]
    BY <1>7 DEF Invalidate, Forget
  <2>3. EntriesOK'
    BY <1>0, <2>1, <2>2, ForgetEntriesOK
  <2> QED BY <1>0, <1>7, <2>3 DEF Invalidate, EntryInv, AnswersOK
<1>8. ASSUME NEW r \in Replicas, NEW S, RemoveHere(r, S) PROVE EntryInv'
  <2>1. CacheOK(cache[r])
    BY DEF CacheInv, CachesOK
  <2>2. /\ Keys(Without(cache[r], S)) \subseteq Keys(cache[r])
        /\ \A m \in Keys(Without(cache[r], S)) :
             SameAnswer(Without(cache[r], S).val[m], cache[r].val[m])
    BY <2>1, WithoutOK DEF SameAnswer
  <2>3. EntriesOK'
    BY <1>0, <1>8, <2>2, OldEntriesOK DEF RemoveHere
  <2> QED BY <1>0, <1>8, <2>3 DEF RemoveHere, EntryInv, AnswersOK
<1>9. ASSUME NEW r \in Replicas, HandleMessage(r) PROVE EntryInv'
  <2> DEFINE msg == Head(channel[r])
  <2>1. msg \in Message
    BY <1>9, HeadTailProperties DEF HandleMessage, CacheInv, RestTyped
  <2>2. msg.name \in Names
    BY <2>1 DEF Message
  <2> DEFINE i == IF handled[r][msg.name] < msg.inv THEN msg.inv
                  ELSE handled[r][msg.name]
  <2>3. /\ cache' = [cache EXCEPT ![r] = Without(@, {msg.name})]
        /\ handled' = [handled EXCEPT ![r][msg.name] = i]
    BY <1>9, <2>2 DEF HandleMessage, OnMessage, CacheInv, RestTyped
  <2> HIDE DEF i, msg
  <2>4. EntriesOK'
    BY <1>0, <2>2, <2>3, ForgetEntriesOK
  <2> QED BY <1>0, <1>9, <2>4 DEF HandleMessage, EntryInv, AnswersOK
<1>10. ASSUME NEW r \in Replicas, Subscribe(r) \/ SubscriberDies(r) PROVE EntryInv'
  <2>1. UNCHANGED <<cache, handled, query>>
    BY <1>10 DEF Subscribe, SubscriberDies
  <2> QED BY <1>0, <2>1 DEF EntryInv, EntriesOK, AnswersOK
<1>11. ASSUME NEW r \in Replicas, Restart(r) PROVE EntryInv'
  <2>1. /\ cache'[r] = NoKeys /\ \A s \in Replicas \ {r} : cache'[s] = cache[s]
        /\ \A s \in Replicas \ {r} : handled'[s] = handled[s]
    BY <1>11 DEF Restart, CacheInv, CachesOK, RestTyped
  <2>2. Keys(cache'[r]) = {}
    BY <2>1, NoKeysOrdered
  <2>3. EntriesOK'
    BY <1>0, <2>1, <2>2 DEF EntriesOK
  <2>4. AnswersOK'
    BY <1>0, <1>11 DEF Restart, AnswersOK, Idle
  <2> QED BY <2>3, <2>4 DEF EntryInv
<1>12. ASSUME NEW p \in publishing, Publish(p) \/ PublishFails(p) PROVE EntryInv'
  <2>1. UNCHANGED <<cache, handled, query>>
    BY <1>12 DEF Publish, PublishFails
  <2> QED BY <1>0, <2>1 DEF EntryInv, EntriesOK, AnswersOK
<1>14. ASSUME NEW n \in Changing, UpdateGraph(n) PROVE EntryInv'
  BY <1>0, <1>14 DEF UpdateGraph, EntryInv, EntriesOK, AnswersOK
<1>15. CASE Tick
  BY <1>15, TickEntryInv
<1> QED
  BY <1>1, <1>2, <1>3, <1>4, <1>5, <1>6, <1>7, <1>8, <1>9, <1>10, <1>11, <1>12,
     <1>14, <1>15
  DEF Next, QueryNext, ReplicaNext, InvalidateByPrefix, Clear

THEOREM EntryInvariant == Spec => []EntryInv
BY InitEntryInv, NextEntryInv, CacheInvariant, PTL DEF Spec

\* A get returns nothing that the graph stopped to give more than TTL +
\* ResponseTime ago: the time an answer was on its way adds to its lifetime.
THEOREM ServableIsRecentHolds == Spec => []ServableIsRecent
<1>1. CacheInv /\ EntryInv => ServableIsRecent
  <2> SUFFICES ASSUME CacheInv, EntryInv, NEW r \in Replicas, NEW n \in Keys(cache[r]),
                      ~Expired(cache[r].val[n])
               PROVE  cache[r].val[n].stale <= TTL + ResponseTime
    BY DEF ServableIsRecent
  <2>1. /\ cache[r].val[n].stale <= cache[r].val[n].age + ResponseTime
        /\ cache[r].val[n].stale \in 0..Longest /\ cache[r].val[n].age \in 0..TTL + 1
    BY EntryTyped DEF EntryInv, EntriesOK, Entry
  <2>2. cache[r].val[n].age <= TTL
    BY <2>1, Bounds DEF Expired
  <2> QED BY <2>1, <2>2, Bounds
<1> QED BY <1>1, CacheInvariant, EntryInvariant, PTL

\* Where an invalidation was handled, only a fill that was under way
\* meanwhile can have brought back what was read before it.
THEOREM InvalidatedHereHolds == Spec => []InvalidatedHere
<1>1. EntryInv => InvalidatedHere
  BY DEF EntryInv, EntriesOK, InvalidatedHere
<1> QED BY <1>1, EntryInvariant, PTL

-----------------------------------------------------------------------------
(***************************************************************************)
(* The messages between replicas                                           *)
(***************************************************************************)
MessagesIn(s) == {s[k] : k \in 1..Len(s)}
Sent == {p.msg : p \in publishing}

\* No message is from the future.
MessagesOK ==
  /\ \A n \in Names : invalidated[n] <= calls
  /\ \A r \in Replicas, n \in Names : handled[r][n] <= invalidated[n]
  /\ \A m \in Sent : m.inv <= invalidated[m.name]
  /\ \A r \in Replicas : \A m \in MessagesIn(channel[r]) : m.inv <= invalidated[m.name]

\* A replica that no message was kept from has handled the last invalidation
\* of every name, or will be told of it.
LastIsTold ==
  \A r \in Replicas \ missed, n \in Names : handled[r][n] < invalidated[n] =>
    \E m \in Sent \cup MessagesIn(channel[r]) : m.name = n /\ m.inv = invalidated[n]

ToldInv == MessagesOK /\ LastIsTold

LEMMA MessagesOf ==
  ASSUME NEW s \in Seq(Message)
  PROVE  /\ MessagesIn(s) \subseteq Message
         /\ \A m \in Message : MessagesIn(Append(s, m)) = MessagesIn(s) \cup {m}
         /\ s # <<>> => MessagesIn(s) = {Head(s)} \cup MessagesIn(Tail(s))
         /\ MessagesIn(<<>>) = {}
<1>1. MessagesIn(s) \subseteq Message
  BY DEF MessagesIn
<1>2. ASSUME NEW m \in Message PROVE MessagesIn(Append(s, m)) = MessagesIn(s) \cup {m}
  <2>1. /\ Len(Append(s, m)) = Len(s) + 1 /\ Len(s) \in Nat
        /\ \A k \in 1..Len(s) : Append(s, m)[k] = s[k]
        /\ Append(s, m)[Len(s) + 1] = m
    BY AppendProperties
  <2>2. 1..Len(Append(s, m)) = 1..Len(s) \cup {Len(s) + 1}
    BY <2>1
  <2> QED BY <2>1, <2>2 DEF MessagesIn
<1>3. ASSUME s # <<>> PROVE MessagesIn(s) = {Head(s)} \cup MessagesIn(Tail(s))
  <2>1. /\ Len(Tail(s)) = Len(s) - 1 /\ Len(s) \in Nat \ {0} /\ Head(s) = s[1]
        /\ \A k \in 1..Len(Tail(s)) : Tail(s)[k] = s[k + 1]
    BY <1>3, HeadTailProperties, EmptySeq
  <2>2. \A k \in 1..Len(s) : k = 1 \/ (k - 1 \in 1..Len(Tail(s)) /\ s[k] = Tail(s)[k - 1])
    BY <2>1
  <2>3. MessagesIn(s) \subseteq {Head(s)} \cup MessagesIn(Tail(s))
    BY <2>1, <2>2 DEF MessagesIn
  <2>4. \A k \in 1..Len(Tail(s)) : k + 1 \in 1..Len(s)
    BY <2>1
  <2>5. {Head(s)} \cup MessagesIn(Tail(s)) \subseteq MessagesIn(s)
    BY <2>1, <2>4 DEF MessagesIn
  <2> QED BY <2>3, <2>5
<1>4. MessagesIn(<<>>) = {}
  BY DEF MessagesIn
<1> QED BY <1>1, <1>2, <1>3, <1>4

LEMMA RestFacts ==
  ASSUME CacheInv
  PROVE  /\ \A r \in Replicas : channel[r] \in Seq(Message)
         /\ \A r \in Replicas, n \in Names : handled[r][n] \in Int
         /\ \A n \in Names : invalidated[n] \in Int
         /\ calls \in Int
         /\ Sent \subseteq Message
         /\ \A m \in Message : m.name \in Names /\ m.inv \in Int
<1>1. /\ \A r \in Replicas : channel[r] \in Seq(Message)
      /\ \A r \in Replicas, n \in Names : handled[r][n] \in 0..MaxInvalidations
      /\ \A n \in Names : invalidated[n] \in 0..MaxInvalidations
      /\ calls \in 0..MaxInvalidations
  BY DEF CacheInv, RestTyped
<1>2. Sent \subseteq Message
  BY DEF CacheInv, RestTyped, Sent
<1>3. \A m \in Message : m.name \in Names /\ m.inv \in 0..MaxInvalidations
  BY DEF Message
<1> QED BY <1>1, <1>2, <1>3, Bounds

LEMMA InitToldInv == Init => ToldInv
BY DEF Init, ToldInv, MessagesOK, LastIsTold, Sent, MessagesIn

LEMMA InvalidateTold ==
  ASSUME CacheInv, ToldInv, NEW s \in Replicas, NEW n \in Names, Invalidate(s, n)
  PROVE  ToldInv'
<1> DEFINE msg == [name |-> n, inv |-> calls + 1]
<1>1. /\ Sent' = Sent \cup {msg} /\ UNCHANGED <<channel, missed>>
      /\ calls' = calls + 1
  <2> DEFINE new == [replica |-> s, msg |-> msg]
  <2>1. publishing' = publishing \cup {new} /\ new.msg = msg
    BY DEF Invalidate
  <2> HIDE DEF new, msg
  <2>2. Sent' = Sent \cup {msg}
    BY <2>1 DEF Sent
  <2> QED BY <2>2 DEF Invalidate
<1> HIDE DEF msg
<1>0. msg.name = n /\ msg.inv = calls + 1
  BY DEF msg
<1>2. /\ invalidated'[n] = calls + 1 /\ handled'[s][n] = calls + 1
      /\ \A m \in Names \ {n} : invalidated'[m] = invalidated[m]
      /\ \A r \in Replicas, m \in Names : r # s \/ m # n => handled'[r][m] = handled[r][m]
  BY DEF Invalidate, CacheInv, RestTyped
<1>3. \A m \in Names : invalidated[m] <= invalidated'[m] /\ invalidated'[m] <= calls'
  BY <1>1, <1>2, RestFacts DEF ToldInv, MessagesOK
<1>4. \A r \in Replicas, m \in Names : handled'[r][m] <= invalidated'[m]
  BY <1>2, <1>3, RestFacts DEF ToldInv, MessagesOK
<1>5. ASSUME NEW m \in Message, m.inv <= invalidated[m.name]
      PROVE  m.inv <= invalidated'[m.name]
  <2>1. m.inv \in Int /\ m.name \in Names /\ calls \in Int /\ calls + 1 \in Int
        /\ invalidated[m.name] \in Int
    BY RestFacts
  <2>2. invalidated'[m.name] = calls + 1 \/ invalidated'[m.name] = invalidated[m.name]
    BY <1>2, <2>1
  <2>3. invalidated[m.name] <= invalidated'[m.name]
    BY <1>3, <2>1
  <2> QED BY <1>5, <2>1, <2>2, <2>3
<1>6. MessagesOK'
  <2>1. msg.inv <= invalidated'[msg.name]
    BY <1>0, <1>2, RestFacts
  <2>2. \A m \in Sent' : m.inv <= invalidated'[m.name]
    BY <1>1, <1>5, <2>1, RestFacts DEF ToldInv, MessagesOK
  <2>3. \A r \in Replicas : \A m \in MessagesIn(channel'[r]) : m.inv <= invalidated'[m.name]
    BY <1>1, <1>5, RestFacts, MessagesOf DEF ToldInv, MessagesOK
  <2> QED BY <1>3, <1>4, <2>2, <2>3 DEF MessagesOK
<1>7. ASSUME NEW r \in Replicas \ missed', NEW m \in Names, handled'[r][m] < invalidated'[m]
      PROVE  \E x \in Sent' \cup MessagesIn(channel'[r]) :
               x.name = m /\ x.inv = invalidated'[m]
  <2>1. CASE m = n
    BY <2>1, <1>0, <1>1, <1>2
  <2>2. CASE m # n
    <3>1. handled[r][m] < invalidated[m] /\ invalidated'[m] = invalidated[m]
      BY <1>2, <1>7, <2>2
    <3> QED BY <1>1, <3>1 DEF ToldInv, LastIsTold
  <2> QED BY <2>1, <2>2
<1> QED BY <1>6, <1>7 DEF ToldInv, LastIsTold

LEMMA HandleTold ==
  ASSUME CacheInv, ToldInv, NEW s \in Replicas, HandleMessage(s)
  PROVE  ToldInv'
<1> DEFINE msg == Head(channel[s])
<1>1. /\ UNCHANGED <<missed, invalidated, calls>> /\ Sent' = Sent
      /\ channel[s] # <<>>
      /\ channel'[s] = Tail(channel[s])
      /\ \A r \in Replicas \ {s} : channel'[r] = channel[r]
  BY DEF HandleMessage, Sent, CacheInv, RestTyped
<1>2. /\ MessagesIn(channel[s]) = {msg} \cup MessagesIn(channel'[s])
      /\ msg \in Message /\ msg \in MessagesIn(channel[s])
  BY <1>1, MessagesOf, RestFacts
<1>3. msg.name \in Names /\ msg.inv \in Int /\ msg.inv <= invalidated[msg.name]
  BY <1>2, RestFacts DEF ToldInv, MessagesOK
<1>4. /\ handled'[s][msg.name] = IF handled[s][msg.name] < msg.inv THEN msg.inv
                                 ELSE handled[s][msg.name]
      /\ \A r \in Replicas, m \in Names : r # s \/ m # msg.name => handled'[r][m] = handled[r][m]
  BY <1>3 DEF HandleMessage, CacheInv, RestTyped
<1> HIDE DEF msg
<1>5. \A r \in Replicas, m \in Names : handled'[r][m] <= invalidated[m]
  BY <1>3, <1>4, RestFacts DEF ToldInv, MessagesOK
<1>6. MessagesOK'
  BY <1>1, <1>2, <1>5 DEF ToldInv, MessagesOK
<1>7. ASSUME NEW r \in Replicas \ missed', NEW m \in Names, handled'[r][m] < invalidated'[m]
      PROVE  \E x \in Sent' \cup MessagesIn(channel'[r]) :
               x.name = m /\ x.inv = invalidated'[m]
  <2>1. handled[r][m] < invalidated[m]
    BY <1>1, <1>3, <1>4, <1>7, RestFacts
  <2>2. PICK x \in Sent \cup MessagesIn(channel[r]) : x.name = m /\ x.inv = invalidated[m]
    BY <1>1, <2>1 DEF ToldInv, LastIsTold
  <2>3. CASE x \in Sent \cup MessagesIn(channel'[r])
    BY <1>1, <2>2, <2>3
  <2>4. CASE r = s /\ x = msg
    <3>1. m = msg.name /\ msg.inv = invalidated[m]
      BY <2>2, <2>4
    <3>2. handled'[s][m] = invalidated[m]
      BY <1>4, <2>1, <2>4, <3>1
    <3>3. invalidated[m] \in Int
      BY RestFacts
    <3> QED BY <1>1, <1>7, <2>4, <3>2, <3>3
  <2> QED BY <1>1, <1>2, <2>2, <2>3, <2>4
<1> QED BY <1>6, <1>7 DEF ToldInv, LastIsTold

LEMMA PublishTold ==
  ASSUME CacheInv, ToldInv, NEW p \in publishing, Publish(p)
  PROVE  ToldInv'
<1>1. /\ UNCHANGED <<invalidated, calls, handled>>
      /\ Sent' \subseteq Sent /\ Sent \subseteq Sent' \cup {p.msg}
      /\ p.msg \in Message /\ p.msg \in Sent
  BY DEF Publish, Sent, CacheInv, RestTyped, invVars
<1>2. /\ Reached(p) \subseteq Replicas
      /\ \A r \in Reached(p) : channel'[r] = Append(channel[r], p.msg)
      /\ \A r \in Replicas \ Reached(p) : channel'[r] = channel[r]
      /\ missed' = missed \cup (Replicas \ Reached(p))
  BY DEF Publish, Reached
<1>3. \A r \in Reached(p) : MessagesIn(channel'[r]) = MessagesIn(channel[r]) \cup {p.msg}
  BY <1>1, <1>2, MessagesOf, RestFacts
<1>4. \A r \in Replicas : \/ MessagesIn(channel'[r]) = MessagesIn(channel[r]) \cup {p.msg}
                          \/ MessagesIn(channel'[r]) = MessagesIn(channel[r])
  BY <1>2, <1>3
<1>5. MessagesOK'
  <2>1. \A m \in Sent : m.inv <= invalidated[m.name]
    BY DEF ToldInv, MessagesOK
  <2>2. ASSUME NEW r \in Replicas, NEW m \in MessagesIn(channel'[r])
        PROVE  m.inv <= invalidated[m.name]
    BY <1>1, <1>4, <2>1 DEF ToldInv, MessagesOK
  <2> QED BY <1>1, <2>1, <2>2 DEF ToldInv, MessagesOK
<1>6. ASSUME NEW r \in Replicas \ missed', NEW n \in Names, handled[r][n] < invalidated[n]
      PROVE  \E x \in Sent' \cup MessagesIn(channel'[r]) :
               x.name = n /\ x.inv = invalidated[n]
  <2>1. r \in Reached(p) /\ r \notin missed
    BY <1>2, <1>6
  <2>2. PICK x \in Sent \cup MessagesIn(channel[r]) : x.name = n /\ x.inv = invalidated[n]
    BY <1>6, <2>1 DEF ToldInv, LastIsTold
  <2> QED BY <1>1, <1>3, <2>1, <2>2
<1>7. LastIsTold'
  BY <1>1, <1>6 DEF LastIsTold
<1> QED BY <1>5, <1>7 DEF ToldInv

LEMMA RestartTold ==
  ASSUME CacheInv, ToldInv, NEW s \in Replicas, Restart(s)
  PROVE  ToldInv'
<1> DEFINE unsent == {p \in publishing : p.replica = s}
<1>1. /\ UNCHANGED <<invalidated, calls>>
      /\ Sent' \subseteq Sent
      /\ unsent = {} => Sent' = Sent
      /\ missed' = (IF unsent = {} THEN missed ELSE Replicas) \ {s}
  BY DEF Restart, Sent
<1>2. /\ handled'[s] = invalidated
      /\ \A r \in Replicas \ {s} : handled'[r] = handled[r] /\ channel'[r] = channel[r]
      /\ channel'[s] = <<>>
  BY DEF Restart, CacheInv, RestTyped
<1>3. MessagesIn(channel'[s]) = {}
  BY <1>2 DEF MessagesIn
<1>4. \A r \in Replicas, n \in Names : handled'[r][n] <= invalidated[n]
  BY <1>2, RestFacts DEF ToldInv, MessagesOK
<1>5. MessagesOK'
  BY <1>1, <1>2, <1>3, <1>4 DEF ToldInv, MessagesOK
<1>6. ASSUME NEW r \in Replicas \ missed', NEW m \in Names, handled'[r][m] < invalidated'[m]
      PROVE  \E x \in Sent' \cup MessagesIn(channel'[r]) :
               x.name = m /\ x.inv = invalidated'[m]
  <2>1. r # s
    BY <1>1, <1>2, <1>6, RestFacts
  <2>2. unsent = {} /\ r \notin missed
    BY <1>1, <2>1
  <2> QED BY <1>1, <1>2, <1>6, <2>1, <2>2 DEF ToldInv, LastIsTold
<1> QED BY <1>5, <1>6 DEF ToldInv, LastIsTold

LEMMA DiesTold ==
  ASSUME CacheInv, ToldInv, NEW s \in Replicas, SubscriberDies(s)
  PROVE  ToldInv'
<1>1. /\ UNCHANGED <<invalidated, calls, handled>> /\ Sent' = Sent
      /\ channel'[s] = <<>> /\ \A r \in Replicas \ {s} : channel'[r] = channel[r]
      /\ missed' = IF channel[s] = <<>> THEN missed ELSE missed \cup {s}
  BY DEF SubscriberDies, Sent, CacheInv, RestTyped, invVars
<1>2. MessagesIn(channel'[s]) = {}
  BY <1>1 DEF MessagesIn
<1>3. MessagesOK'
  BY <1>1, <1>2 DEF ToldInv, MessagesOK
<1>4. LastIsTold'
  BY <1>1 DEF ToldInv, LastIsTold
<1> QED BY <1>3, <1>4 DEF ToldInv

LEMMA NextToldInv == CacheInv /\ ToldInv /\ [Next]_vars => ToldInv'
<1> SUFFICES ASSUME CacheInv, ToldInv, [Next]_vars PROVE ToldInv'
  OBVIOUS
<1> USE DEF graphVars, redisVars, invVars
<1>1. CASE UNCHANGED <<channel, publishing, missed, invVars>>
  BY <1>1 DEF ToldInv, MessagesOK, LastIsTold, Sent, MessagesIn
<1>2. ASSUME NEW q \in Queries, QueryNext(q) PROVE ToldInv'
  BY <1>1, <1>2 DEF QueryNext, LookupHit, LookupMiss, GraphAnswers, GraphFails,
                    GraphReturns, FetchRaises, Fill
<1>3. ASSUME NEW r \in Replicas, ReplicaNext(r) PROVE ToldInv'
  <2>1. ASSUME NEW n \in Changing, Invalidate(r, n) PROVE ToldInv'
    BY <2>1, Bounds, InvalidateTold
  <2>2. ASSUME NEW S, RemoveHere(r, S) PROVE ToldInv'
    BY <1>1, <2>2 DEF RemoveHere
  <2>3. CASE HandleMessage(r)
    BY <2>3, HandleTold
  <2>4. CASE Subscribe(r)
    BY <1>1, <2>4 DEF Subscribe
  <2>5. CASE SubscriberDies(r)
    BY <2>5, DiesTold
  <2>6. CASE Restart(r)
    BY <2>6, RestartTold
  <2> QED BY <1>3, <2>1, <2>2, <2>3, <2>4, <2>5, <2>6
          DEF ReplicaNext, InvalidateByPrefix, Clear
<1>4. ASSUME NEW p \in publishing, Publish(p) PROVE ToldInv'
  BY <1>4, PublishTold
<1>5. ASSUME NEW p \in publishing, PublishFails(p) PROVE ToldInv'
  BY <1>5 DEF PublishFails, ToldInv, MessagesOK, LastIsTold, Sent
<1>6. ASSUME NEW n \in Changing, UpdateGraph(n) PROVE ToldInv'
  BY <1>1, <1>6 DEF UpdateGraph
<1>7. CASE Tick
  BY <1>1, <1>7 DEF Tick
<1>8. CASE UNCHANGED vars
  BY <1>1, <1>8 DEF vars
<1> QED
  BY <1>2, <1>3, <1>4, <1>5, <1>6, <1>7, <1>8 DEF Next

THEOREM ToldInvariant == Spec => []ToldInv
BY InitToldInv, NextToldInv, CacheInvariant, PTL DEF Spec

\* A replica keeps an answer read before an invalidation only while the
\* message that removes it is on its way, or was kept from the replica.
THEOREM OutdatedIsAnnouncedHolds == Spec => []OutdatedIsAnnounced
<1>1. CacheInv /\ EntryInv /\ ToldInv => OutdatedIsAnnounced
  <2> SUFFICES ASSUME CacheInv, EntryInv, ToldInv,
                      NEW r \in Replicas \ missed, NEW n \in Names, Outdated(r, n)
               PROVE  Announced(r, n, cache[r].val[n].inv)
    BY DEF OutdatedIsAnnounced
  <2> DEFINE i == cache[r].val[n].inv
  <2>1. n \in Keys(cache[r]) /\ ~cache[r].val[n].raced /\ i < invalidated[n]
    BY DEF Outdated
  <2>2. ~(i < handled[r][n]) /\ i \in Int /\ handled[r][n] \in Int /\ invalidated[n] \in Int
    BY <2>1, EntryTyped, RestFacts DEF EntryInv, EntriesOK, Entry
  <2>3. handled[r][n] < invalidated[n]
    BY <2>1, <2>2
  <2>4. PICK m \in Sent \cup MessagesIn(channel[r]) : m.name = n /\ m.inv = invalidated[n]
    BY <2>3 DEF ToldInv, LastIsTold
  <2>5. m.name = n /\ m.inv > i
    BY <2>1, <2>2, <2>4
  <2>6. CASE m \in Sent
    BY <2>5, <2>6 DEF Sent, Announced
  <2>7. CASE m \in MessagesIn(channel[r])
    <3>1. PICK k \in 1..Len(channel[r]) : m = channel[r][k]
      BY <2>7 DEF MessagesIn
    <3>2. k \in DOMAIN channel[r]
      BY <3>1, RestFacts
    <3> QED BY <2>5, <3>1, <3>2 DEF Announced
  <2> QED BY <2>6, <2>7
<1> QED BY <1>1, CacheInvariant, EntryInvariant, ToldInvariant, PTL
=============================================================================
