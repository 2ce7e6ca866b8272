----------------------------- MODULE EntityCache -----------------------------
(***************************************************************************)
(* The entity graph cache (retrieval/entity_cache.py) of every replica of  *)
(* the service, the queries that fill it (EnhancedHybridRetriever in       *)
(* retrieval/hybrid.py), and the invalidations that pass between replicas  *)
(* over Redis.                                                             *)
(*                                                                         *)
(* What is inside `async with self._lock` never waits, so it is one step.  *)
(* A query waits for the graph database between its lookup and its put,    *)
(* and an invalidation between its removal and its publish.                *)
(*                                                                         *)
(* Time.  created_at is kept as an age, which stops at the first value     *)
(* that counts as expired; Tick lets a unit of time pass.                  *)
(*                                                                         *)
(* Left out: hits, misses, hit_count and last_accessed, which are only     *)
(* reported; and what a query does with the relations it got.              *)
(***************************************************************************)
EXTENDS OrderedDict, Integers, Sequences

CONSTANTS
  Replicas, Queries, Names,
  Home,            \* query -> the replica that serves it
  Changing,        \* bound: the names that change in the graph, are
                   \* invalidated, and whose search may fail
  Failing,         \* bound: the replicas whose subscriber or process may stop
  Prefixes,        \* the sets of names a prefix can match
  Capacity, TTL,
  ResponseTime,    \* bound: how long an answer of the graph is on its way
  MaxVersion,      \* bound: changes of the graph
  MaxFetches,      \* bound: searches of the graph
  MaxInvalidations \* bound: calls of invalidate

ASSUME EntityCacheAssumption ==
  /\ IsFiniteSet(Names)
  /\ Home \in [Queries -> Replicas]
  /\ Changing \subseteq Names /\ Failing \subseteq Replicas
  /\ Prefixes \subseteq SUBSET Names
  /\ Capacity \in Nat \ {0} /\ TTL \in Nat /\ ResponseTime \in Nat
  /\ MaxVersion \in Nat /\ MaxFetches \in Nat /\ MaxInvalidations \in Nat

VARIABLES
  graph,       \* name -> the change of the graph that wrote its relations
  version,     \* changes of the graph so far
  cache,       \* replica -> _store, an ordered dictionary of entries
  query,       \* query -> where it is in _resolve_entity_graph
  subscriber,  \* replica -> _sub_task, none without a redis_url
  channel,     \* replica -> messages its subscriber has still to handle
  publishing,  \* invalidations removed here and not yet published
  fetches,     \* searches of the graph so far
  calls,       \* calls of invalidate so far
  invalidated, \* history: name -> the last call that named it
  handled,     \* history: replica -> name -> last such call it handled, or
               \* that was made before its process started
  missed       \* history: replicas some invalidation was not sent to

graphVars == <<graph, version>>
redisVars == <<subscriber, channel, publishing, missed>>
invVars == <<calls, invalidated, handled>>
vars == <<graphVars, cache, query, redisVars, fetches, invVars>>

Nothing == -1                        \* the empty list of relations
Answers == 0..MaxVersion \cup {Nothing}
Longest == TTL + ResponseTime + 1    \* ages above this are not told apart
Older(age, last) == IF age = last THEN last ELSE age + 1

\* rels and age are the code's; the rest is history: when the graph last
\* gave these relations, the last invalidation of the name before they were
\* read, whether one was handled while they were on their way, and the names
\* used since this one was.
Entry == [rels : Answers, age : 0..TTL + 1, stale : 0..Longest,
          inv : 0..MaxInvalidations, raced : BOOLEAN, others : SUBSET Names]
Message == [name : Names, inv : 0..MaxInvalidations]

Idle == [at |-> "idle"]
Fetching(n) == [at |-> "fetching", name |-> n]
Answered(n, rels) ==
  [at |-> "answered", name |-> n, rels |-> rels, inv |-> invalidated[n],
   stale |-> 0, waited |-> 0]

Init ==
  /\ graph = [n \in Names |-> 0] /\ version = 0
  /\ cache = [r \in Replicas |-> NoKeys]
  /\ query = [q \in Queries |-> Idle]
  /\ \E task \in {"none", "starting"} : subscriber = [r \in Replicas |-> task]
  /\ channel = [r \in Replicas |-> <<>>]
  /\ publishing = {}
  /\ fetches = 0
  /\ calls = 0
  /\ invalidated = [n \in Names |-> 0]
  /\ handled = [r \in Replicas |-> [n \in Names |-> 0]]
  /\ missed = {}

-----------------------------------------------------------------------------
(* The cache of one replica. *)

\* Mutant: the age of an entry is not looked at.
NeverExpired(e) == FALSE

Expired(e) == e.age > TTL

\* history: the others an entry has outlived since its own last use
Touch(d, n) ==
  [d EXCEPT !.val = [m \in Keys(d) |->
     IF m = n THEN [d.val[m] EXCEPT !.others = {}]
     ELSE [d.val[m] EXCEPT !.others = @ \cup {n}]]]

\* Mutant: a hit leaves the entry where it is.
HitStays(d, n) == Touch(d, n)

\* get, when the entry is there and not expired
Hit(d, n) == Touch(MoveToEnd(d, n), n)

MakeRoom(d) == IF Cardinality(Keys(d)) >= Capacity THEN PopOldest(d) ELSE d

\* put
Put(d, n, e) ==
  Touch(IF n \in Keys(d) THEN Assign(MoveToEnd(d, n), n, e)
        ELSE Assign(MakeRoom(d), n, e), n)

-----------------------------------------------------------------------------
(* EnhancedHybridRetriever._resolve_entity_graph.  A query resolves its     *)
(* names one after another and waits for nothing but the graph: the names  *)
(* of one query, and of the next, are a sequence of lookups.               *)

LookupHit(q, n) ==
  LET r == Home[q] IN
  /\ query[q].at = "idle"
  /\ n \in Keys(cache[r]) /\ ~Expired(cache[r].val[n])
  /\ cache' = [cache EXCEPT ![r] = Hit(@, n)]
  /\ UNCHANGED <<graphVars, query, redisVars, fetches, invVars>>

\* An expired entry is deleted; the graph is asked.
LookupMiss(q, n) ==
  LET r == Home[q] IN
  /\ query[q].at = "idle"
  /\ n \in Keys(cache[r]) => Expired(cache[r].val[n])
  /\ fetches < MaxFetches
  /\ fetches' = fetches + 1
  /\ cache' = [cache EXCEPT ![r] = Without(@, {n})]
  /\ query' = [query EXCEPT ![q] = Fetching(n)]
  /\ UNCHANGED <<graphVars, redisVars, invVars>>

GraphReturns(q, rels) ==
  /\ query[q].at = "fetching"
  /\ query' = [query EXCEPT ![q] = Answered(query[q].name, rels)]
  /\ UNCHANGED <<graphVars, cache, redisVars, fetches, invVars>>

\* The graph database answers with what it holds now.
GraphAnswers(q) == query[q].at = "fetching" /\ GraphReturns(q, graph[query[q].name])

\* It is down, too slow, or its answer is an error: GraphRetriever.search
\* turns the exception into an empty list of results.
GraphFails(q) ==
  /\ query[q].at = "fetching" /\ query[q].name \in Changing
  /\ GraphReturns(q, Nothing)

\* The answer is not even an object: the query goes on without relations for
\* this name and nothing is cached.
FetchRaises(q) ==
  /\ query[q].at = "fetching"
  /\ query' = [query EXCEPT ![q] = Idle]
  /\ UNCHANGED <<graphVars, cache, redisVars, fetches, invVars>>

\* The new entry is as old as the moment its answer came back.
NewEntry(r, a) ==
  [rels |-> a.rels, age |-> 0, stale |-> a.stale, inv |-> a.inv,
   raced |-> a.inv < handled[r][a.name], others |-> {}]

Fill(q) ==
  LET r == Home[q] IN
  /\ query[q].at = "answered"
  /\ cache' = [cache EXCEPT ![r] = Put(@, query[q].name, NewEntry(r, query[q]))]
  /\ query' = [query EXCEPT ![q] = Idle]
  /\ UNCHANGED <<graphVars, redisVars, fetches, invVars>>

-----------------------------------------------------------------------------
(* Invalidations. *)

\* Mutant: the caller's replica keeps the entry until its own message comes.
KeepUntilTold(d, n) == d

Forget(d, n) == Without(d, {n})

\* invalidate, up to the lock's release
Invalidate(r, n) ==
  /\ calls < MaxInvalidations
  /\ calls' = calls + 1
  /\ cache' = [cache EXCEPT ![r] = Forget(@, n)]
  /\ invalidated' = [invalidated EXCEPT ![n] = calls + 1]
  /\ handled' = [handled EXCEPT ![r][n] = calls + 1]
  /\ publishing' = publishing \cup
       {[replica |-> r, msg |-> [name |-> n, inv |-> calls + 1]]}
  /\ UNCHANGED <<graphVars, query, subscriber, channel, missed, fetches>>

\* Redis hands a message to those that listen at this moment, the publisher
\* among them.  A cache without redis_url publishes nothing.
Reached(p) ==
  IF subscriber[p.replica] = "none" THEN {}
  ELSE {r \in Replicas : subscriber[r] = "listening"}

\* _broadcast_invalidate
Publish(p) ==
  /\ p \in publishing
  /\ publishing' = publishing \ {p}
  /\ channel' = [r \in Replicas |-> IF r \in Reached(p) THEN Append(channel[r], p.msg)
                                    ELSE channel[r]]
  /\ missed' = missed \cup (Replicas \ Reached(p))
  /\ UNCHANGED <<graphVars, cache, query, subscriber, fetches, invVars>>

\* Redis cannot be reached: invalidate raises.
PublishFails(p) ==
  /\ p \in publishing /\ subscriber[p.replica] # "none"
  /\ publishing' = publishing \ {p}
  /\ missed' = Replicas
  /\ UNCHANGED <<graphVars, cache, query, subscriber, channel, fetches, invVars>>

\* Mutant: the subscriber takes a message and deletes nothing.
ReadAndDrop(d, n) == d

OnMessage(d, n) == Without(d, {n})

\* _subscribe_invalidation, the loop over pubsub.listen()
HandleMessage(r) ==
  LET m == Head(channel[r]) IN
  /\ channel[r] # <<>>
  /\ channel' = [channel EXCEPT ![r] = Tail(@)]
  /\ cache' = [cache EXCEPT ![r] = OnMessage(@, m.name)]
  /\ handled' = [handled EXCEPT ![r][m.name] = IF @ < m.inv THEN m.inv ELSE @]
  /\ UNCHANGED <<graphVars, query, subscriber, publishing, missed, fetches, calls, invalidated>>

Subscribe(r) ==
  /\ subscriber[r] = "starting"
  /\ subscriber' = [subscriber EXCEPT ![r] = "listening"]
  /\ UNCHANGED <<graphVars, cache, query, channel, publishing, missed, fetches, invVars>>

\* The connection breaks: listen() raises, only cancellation is caught, and
\* nobody starts the task again.
SubscriberDies(r) ==
  /\ r \in Failing
  /\ subscriber[r] \in {"starting", "listening"}
  /\ subscriber' = [subscriber EXCEPT ![r] = "dead"]
  /\ channel' = [channel EXCEPT ![r] = <<>>]
  /\ missed' = IF channel[r] = <<>> THEN missed ELSE missed \cup {r}
  /\ UNCHANGED <<graphVars, cache, query, publishing, fetches, invVars>>

\* invalidate_by_prefix, and clear: no other replica is told.
RemoveHere(r, S) ==
  /\ cache' = [cache EXCEPT ![r] = Without(@, S)]
  /\ UNCHANGED <<graphVars, query, redisVars, fetches, invVars>>

InvalidateByPrefix(r, S) == S # Names /\ RemoveHere(r, S)
Clear(r) == RemoveHere(r, Names)

\* The process of a replica is started again.
Restart(r) ==
  LET unsent == {p \in publishing : p.replica = r} IN
  /\ r \in Failing
  /\ cache' = [cache EXCEPT ![r] = NoKeys]
  /\ query' = [q \in Queries |-> IF Home[q] = r THEN Idle ELSE query[q]]
  /\ subscriber' = [subscriber EXCEPT ![r] = IF @ = "none" THEN "none" ELSE "starting"]
  /\ channel' = [channel EXCEPT ![r] = <<>>]
  /\ publishing' = publishing \ unsent
  /\ missed' = (IF unsent = {} THEN missed ELSE Replicas) \ {r}
  /\ handled' = [handled EXCEPT ![r] = invalidated]
  /\ UNCHANGED <<graphVars, fetches, calls, invalidated>>

-----------------------------------------------------------------------------
(* The graph and the clock. *)

UpdateGraph(n) ==
  /\ version < MaxVersion
  /\ version' = version + 1
  /\ graph' = [graph EXCEPT ![n] = version + 1]
  /\ UNCHANGED <<cache, query, redisVars, fetches, invVars>>

\* The time since the graph last gave these relations for n.
StillGiven(rels, n, stale) == IF rels = graph[n] THEN 0 ELSE Older(stale, Longest)

AgedEntry(n, e) == [e EXCEPT !.age = Older(@, TTL + 1),
                             !.stale = StillGiven(e.rels, n, @)]

AgedAnswer(a) == [a EXCEPT !.waited = @ + 1, !.stale = StillGiven(a.rels, a.name, @)]

Tick ==
  /\ \A q \in Queries : query[q].at = "answered" => query[q].waited < ResponseTime
  /\ cache' = [r \in Replicas |-> [cache[r] EXCEPT
                  !.val = [n \in Keys(cache[r]) |-> AgedEntry(n, cache[r].val[n])]]]
  /\ query' = [q \in Queries |-> IF query[q].at = "answered"
                                 THEN AgedAnswer(query[q]) ELSE query[q]]
  /\ UNCHANGED <<graphVars, redisVars, fetches, invVars>>

QueryNext(q) ==
  \/ \E n \in Names : LookupHit(q, n) \/ LookupMiss(q, n)
  \/ GraphAnswers(q) \/ GraphFails(q) \/ FetchRaises(q)
  \/ Fill(q)

ReplicaNext(r) ==
  \/ \E n \in Changing : Invalidate(r, n)
  \/ \E S \in Prefixes : InvalidateByPrefix(r, S)
  \/ Clear(r)
  \/ HandleMessage(r) \/ Subscribe(r) \/ SubscriberDies(r)
  \/ Restart(r)

Next ==
  \/ \E q \in Queries : QueryNext(q)
  \/ \E r \in Replicas : ReplicaNext(r)
  \/ \E p \in publishing : Publish(p) \/ PublishFails(p)
  \/ \E n \in Changing : UpdateGraph(n)
  \/ Tick

Spec == Init /\ [][Next]_vars

-----------------------------------------------------------------------------
(* Properties. *)

TypeOK ==
  /\ graph \in [Names -> 0..MaxVersion] /\ version \in 0..MaxVersion
  /\ \A r \in Replicas : IsOrdered(cache[r], Names, Entry)
  /\ query \in [Queries -> {Idle} \cup {Fetching(n) : n \in Names} \cup
                   [at : {"answered"}, name : Names, rels : Answers,
                    inv : 0..MaxInvalidations, stale : 0..Longest, waited : 0..ResponseTime]]
  /\ subscriber \in [Replicas -> {"none", "starting", "listening", "dead"}]
  /\ channel \in [Replicas -> Seq(Message)]
  /\ publishing \in SUBSET [replica : Replicas, msg : Message]
  /\ fetches \in 0..MaxFetches
  /\ calls \in 0..MaxInvalidations
  /\ invalidated \in [Names -> 0..MaxInvalidations]
  /\ handled \in [Replicas -> [Names -> 0..MaxInvalidations]]
  /\ missed \in SUBSET Replicas

\* No replica holds more than `capacity` entries, in whatever order lookups,
\* fills that were under way at the same time and removals come (put).
WithinCapacity == \A r \in Replicas : Cardinality(Keys(cache[r])) <= Capacity

\* What a get may return was the answer of the graph at some moment of the
\* last TTL + ResponseTime: an entry's age starts when the answer comes back,
\* so the time it was on its way is not counted.  This is also how long an
\* empty answer, cached when the search failed, is served.
ServableIsRecent ==
  \A r \in Replicas : \A n \in Keys(cache[r]) :
    LET e == cache[r].val[n] IN
    ~Expired(e) => e.stale <= TTL + ResponseTime

\* A replica that has handled an invalidation, its own or a message, holds
\* no answer read before it, unless the fill was under way meanwhile.
InvalidatedHere ==
  \A r \in Replicas : \A n \in Keys(cache[r]) :
    LET e == cache[r].val[n] IN e.inv < handled[r][n] => e.raced

Outdated(r, n) ==
  /\ n \in Keys(cache[r])
  /\ ~cache[r].val[n].raced
  /\ cache[r].val[n].inv < invalidated[n]

Announced(r, n, i) ==
  \/ \E p \in publishing : p.msg.name = n /\ p.msg.inv > i
  \/ \E k \in DOMAIN channel[r] : channel[r][k].name = n /\ channel[r][k].inv > i

\* An answer read before an invalidation stays in a replica only while the
\* message is on its way, or when it was not sent to it: the subscriber was
\* not listening, or there is no redis_url (_broadcast_invalidate).
OutdatedIsAnnounced ==
  \A r \in Replicas \ missed, n \in Names :
    Outdated(r, n) => Announced(r, n, cache[r].val[n].inv)

\* A put that evicts takes an entry that Capacity - 1 others have been used
\* after: what was just read or written survives (move_to_end in get and put).
RecentlyUsedSurvive ==
  [][\A q \in Queries : LET r == Home[q] IN
       Fill(q) => \A n \in Keys(cache[r]) \ Keys(cache'[r]) :
                    Cardinality(cache[r].val[n].others) >= Capacity - 1]_vars
=============================================================================
