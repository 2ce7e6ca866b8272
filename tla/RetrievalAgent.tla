--------------------------- MODULE RetrievalAgent ---------------------------
(***************************************************************************)
(* RetrievalAgent (agents/retrieval.py): the searches of single steps and  *)
(* of plans, the cache of their results, the slots searches share, and the *)
(* sources the orchestrator of retrieval (retrieval/orchestrator.py) asks  *)
(* for a search, which it waits for together.                              *)
(*                                                                         *)
(* A source that fails is one that found nothing: the orchestrator makes   *)
(* an empty answer of its exception, and the agent caches it.              *)
(*                                                                         *)
(* Time is kept as ages: of an entry of the cache, of the oldest answer of *)
(* a source in it, and of a search under way.                              *)
(*                                                                         *)
(* Left out: what was found, the limit of a search (not a part of the key  *)
(* of the cache), and the metrics.                                         *)
(***************************************************************************)
EXTENDS OrderedDict, Integers, FiniteSetsExt

CONSTANTS
  Searches,       \* the calls of _execute_single
  Key,            \* search -> query and source, what it is cached under
  Sources, Asked, \* key -> the sources it stands for, none if it is unknown
  Plan, Position, \* search -> its plan, and its place among the steps
  Strategy,       \* plan -> how its steps are executed
  Limit,          \* limit of execute_plan
  SearchSlots,    \* max_concurrent
  CacheTTL, CacheSize,
  ResponseTime    \* the longest a search waits for its sources

ASSUME RetrievalAssumption ==
  /\ IsFiniteSet(Searches) /\ IsFiniteSet(Sources)
  /\ \A s \in Searches : Asked[Key[s]] \subseteq Sources
  /\ Position \in [Searches -> Nat]
  /\ \A s \in Searches : Strategy[Plan[s]] \in {"parallel", "sequential", "cascade"}
  /\ {Limit, SearchSlots, CacheTTL, CacheSize} \subseteq Nat \ {0} /\ ResponseTime \in Nat

VARIABLES
  search,      \* search -> where it is, and what is known of it
  results      \* _cache: key -> entry

retrievalVars == <<search, results>>

\* left: the sources that have not answered; read: the age of the first
\* answer; waited: the time since the sources were asked
Search(at, left, found, read, waited) ==
  [at |-> at, left |-> left, found |-> found, read |-> read, waited |-> waited]
At(at) == Search(at, {}, FALSE, 0, 0)
Over(s) == search[s].at \in {"answered", "raised"}

RetrievalInit == search = [s \in Searches |-> At("new")] /\ results = NoKeys

-----------------------------------------------------------------------------
(* The steps of a plan. *)

StepsBefore(s) == {t \in Searches : Plan[t] = Plan[s] /\ Position[t] < Position[s]}

\* The cascade counts one result for each source that was asked, not what the
\* sources found.
Accumulated(S) ==
  MapThenSumSet(LAMBDA t : Cardinality(Asked[Key[t]]),
                {t \in S : search[t].at = "answered" /\ search[t].found})

MyTurn(s) ==
  \/ Strategy[Plan[s]] = "parallel"
  \/ /\ \A t \in StepsBefore(s) : Over(t)
     /\ Strategy[Plan[s]] = "cascade" => Accumulated(StepsBefore(s)) < Limit

-----------------------------------------------------------------------------
(* _execute_single *)

\* Mutant: what is found in the cache is as good as new.
Renewed(k) == [results EXCEPT !.val[k].age = 0]

\* get: the entry stays what and where it is.
Kept(k) == results

Fresh(k) == k \in Keys(results) /\ results.val[k].age < CacheTTL

\* The cache is asked once, before the search waits for a slot.
Ask(s) ==
  LET k == Key[s] IN
  /\ search[s].at = "new" /\ MyTurn(s)
  /\ \/ /\ Fresh(k)
        /\ search' = [search EXCEPT ![s] = Search("answered", {}, results.val[k].found, 0, 0)]
        /\ results' = Kept(k)
     \/ /\ ~Fresh(k)
        /\ search' = [search EXCEPT ![s] = At("waiting")]
        /\ results' = Without(results, {k})

\* Mutant: an exception leaves the slot taken.
HeldOnError == {t \in Searches : search[t].at \in {"fetching", "raised"}}

\* The slots of _source_semaphore that are taken.
Held == {t \in Searches : search[t].at = "fetching"}

\* With a slot the sources are asked; a name that is none of them raises.
GetSlot(s) ==
  /\ search[s].at = "waiting"
  /\ Cardinality(Held) < SearchSlots
  /\ search' = [search EXCEPT ![s] =
                  IF Asked[Key[s]] = {} THEN At("raised")
                  ELSE Search("fetching", Asked[Key[s]], FALSE, 0, 0)]
  /\ UNCHANGED results

\* A source answers or fails.
SourceAnswers(s) ==
  /\ search[s].at = "fetching"
  /\ \E source \in search[s].left, found \in BOOLEAN :
       search' = [search EXCEPT ![s].left = @ \ {source}, ![s].found = @ \/ found]
  /\ UNCHANGED results

\* set
Stored(d, k, e) == Assign(IF Cardinality(Keys(d)) >= CacheSize THEN PopOldest(d) ELSE d, k, e)

\* All have answered, and the result is cached.
Finish(s) ==
  /\ search[s].at = "fetching" /\ search[s].left = {}
  /\ search' = [search EXCEPT ![s] = Search("answered", {}, search[s].found, 0, 0)]
  /\ results' = Stored(results, Key[s],
                       [found |-> search[s].found, read |-> search[s].read, age |-> 0])

\* An answer is not what the orchestrator expects.
Raises(s) ==
  /\ search[s].at = "fetching" /\ search[s].left = {}
  /\ search' = [search EXCEPT ![s] = At("raised")]
  /\ UNCHANGED results

\* clear_cache
Clear == results' = NoKeys /\ UNCHANGED search

-----------------------------------------------------------------------------
\* Sources answer within ResponseTime.  An entry is not told from one that
\* is a little older once it has expired.
Tick ==
  /\ \A s \in Searches : search[s].at = "fetching" => search[s].waited < ResponseTime
  /\ search' = [s \in Searches |->
       IF search[s].at # "fetching" THEN search[s]
       ELSE [search[s] EXCEPT !.waited = @ + 1,
                              !.read = IF search[s].left = Asked[Key[s]] THEN 0 ELSE @ + 1]]
  /\ results' = [results EXCEPT !.val = [k \in Keys(results) |->
       LET older == IF Fresh(k) THEN 1 ELSE 0
           entry == results.val[k]
       IN [found |-> entry.found, read |-> entry.read + older, age |-> entry.age + older]]]

Goes(s) == GetSlot(s) \/ SourceAnswers(s) \/ Finish(s) \/ Raises(s)

RetrievalNext == (\E s \in Searches : Ask(s) \/ Goes(s)) \/ Clear \/ Tick

RetrievalSpec == RetrievalInit /\ [][RetrievalNext]_retrievalVars

PlanBegun(p) == \E s \in Searches : Plan[s] = p /\ search[s].at # "new"

\* A plan that was begun goes on, sources answer or are given up by their
\* clients, and a slot that is free is given to one of those that wait.
RetrievalFairness ==
  WF_retrievalVars(\E s \in Searches : (PlanBegun(Plan[s]) /\ Ask(s)) \/ Goes(s))

-----------------------------------------------------------------------------
(* Properties. *)

\* Nothing a search is served from the cache - also the empty answer of a
\* source that failed - was read at a source CacheTTL + ResponseTime ago or
\* longer, however often it was served, and however long the other sources of
\* the same search took (get, set).
AnswersAreRecent ==
  \A k \in Keys(results) : Fresh(k) => results.val[k].read < CacheTTL + ResponseTime

\* Every plan that was begun comes to its end, though its sources fail and all
\* searches wait for the same slots (execute_plan).
PlansEnd ==
  []<>\A s \in Searches :
        PlanBegun(Plan[s]) => Over(s) \/ (search[s].at = "new" /\ ~MyTurn(s))
=============================================================================
