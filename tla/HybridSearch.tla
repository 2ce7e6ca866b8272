---------------------------- MODULE HybridSearch ----------------------------
(***************************************************************************)
(* HybridRetriever and EnhancedHybridRetriever (retrieval/hybrid.py): the  *)
(* way a query is searched, by what the classifier makes of it, the        *)
(* sources that are asked one after another, what happens when one fails,  *)
(* and the ranking by reciprocal rank fusion (retrieval/fusion.py).        *)
(*                                                                         *)
(* A source of vectors needs an embedding of the query, outside its try:   *)
(* without one it raises.  Everything else that fails has found nothing.   *)
(* Left out of that: the two caches of embeddings, one for documents, the  *)
(* other for the rest, which spare it some requests.                       *)
(*                                                                         *)
(* An enhanced search looks up the entities that the query names; without  *)
(* a name it searches again, up to MaxSearches times, for what it answers. *)
(*                                                                         *)
(* Documents are in Qdrant (DOCS_BACKEND; nothing is ever put in the other *)
(* backend).  A hit of Qdrant has an id and no content, which is in its    *)
(* payload, so that a cascade never has names to ask the graph for; rows   *)
(* of the graph have neither.  Fusing makes items of its own, which say the *)
(* content and the source of a hit: the ids and the payloads stay behind.  *)
(* Left out: what refined queries say, answers and their confidence but    *)
(* for what it decides, scores and ranks in items, and times.              *)
(***************************************************************************)
EXTENDS SequencesExt, Places

CONSTANTS
  HybridCalls,     \* the calls: intents, what they name and how they are made
  NestedIntents,   \* what the classifier makes of a query that was expanded
  EnabledSources,  \* those of colbert, diagram, ui_sketch that settings enable
  Limit,           \* limit: of a reply, and of what a source is asked for
  Scale            \* a multiple of what the ranks of hits are divided by

MaxRounds == 3     \* max_iterations of _iterative_search
MaxSearches == 3   \* max_iterations of IterativeRetrievalReasoner

ASSUME HybridAssumption ==
  /\ Limit \in Nat /\ EnabledSources \subseteq {"colbert", "diagram", "ui_sketch"}
  /\ Scale \in Nat /\ \A rank \in 1 .. Limit : Scale % (60 + rank) = 0

-----------------------------------------------------------------------------
(* The classifier: the intents of a query are in the order it looks for     *)
(* them, the first is the primary one.                                      *)

StrategyFor(intents) ==
  IF {"relationship", "causal"} \cap ToSet(intents) # {} THEN "multi_hop"
  ELSE IF "code_relationship" \in ToSet(intents) \/ Len(intents) > 1 THEN "hybrid"
  ELSE CASE intents[1] \in {"code", "list"} -> "cascade"
         [] intents[1] = "fact" -> "iterative"
         [] OTHER -> "vector_only"

Way(intents, forced) ==
  CASE forced \/ intents[1] \in {"relationship", "causal", "code_relationship"} -> "graph_aware"
    [] ~forced /\ intents[1] = "tooling" -> "tooling"
    [] OTHER -> StrategyFor(intents)

\* What is asked, in this order.
StepsOf(way, names, tooling) ==
  LET named == IF names THEN <<"linked">> ELSE <<>>
  IN CASE way = "graph_aware" -> named \o <<"docs", "code", "graph">>
       [] way = "enhanced" -> named \o <<"docs", "code", "graph">>
       [] way = "hybrid" -> <<"graph", "docs", "code">>
                              \o SelectSeq(<<"colbert", "diagram", "ui_sketch">>,
                                           LAMBDA s : s \in EnabledSources)
       [] way = "multi_hop" -> <<"hop", "hop", "hop", "docs">>
       [] way = "tooling" -> tooling
       [] OTHER -> <<"docs", "code">>

Embeds(way, step) == step \in {"docs", "code"} \/ way = "tooling"

\* How many hits a source is asked for.
AskedFor(way) == IF way = "cascade" THEN Limit \div 2 ELSE Limit

-----------------------------------------------------------------------------
(* Results: in the order the sources were asked, what each has found.  A    *)
(* fact of the same content is taken once by the iterative search, a row of *)
(* the same path once by the graph.                                         *)

Hit(id, content, row) == [id |-> id, content |-> content, row |-> row]

Rows == {[k \in 1..n |-> Hit(0, "", k)] : n \in 0..Limit}
Sketches == {[k \in 1..n |-> Hit(0, "", 0)] : n \in 0..Limit}
Diagrams == {<<>>, <<Hit(0, "drawn", 0)>>}
Passages == {<<>>, <<Hit(1, "text", 0)>>}
Documents == {[k \in 1..n |-> Hit(k, "", 0)] : n \in 0..Limit}
CodeHits == Documents
ToolingHits == Documents

HitsOf(step) ==
  CASE step \in {"graph", "hop", "linked"} -> Rows
    [] step = "ui_sketch" -> Sketches
    [] step = "diagram" -> Diagrams
    [] step = "colbert" -> Passages
    [] step = "docs" -> Documents
    [] step = "code" -> CodeHits
    [] OTHER -> ToolingHits

\* Where what a step finds is filed: the documents of a multi-hop search under
\* "code".
FiledAs(way, step) ==
  IF way = "iterative" THEN "all"
  ELSE CASE step = "hop" -> "graph"
         [] way = "multi_hop" /\ step = "docs" -> "code"
         [] OTHER -> step

Same(way, a, b) == IF way = "iterative" THEN a.content = b.content ELSE a.row = b.row

\* _deduplicate_results
Merged(way, old, new) ==
  LET Fresh(k) == /\ \A m \in DOMAIN old : ~Same(way, old[m], new[k])
                  /\ \A m \in 1 .. k - 1 : ~Same(way, new[m], new[k])
  IN old \o Taken(new, {k \in DOMAIN new : Fresh(k)})

Filed(way, found, source, hits) ==
  LET at == {i \in DOMAIN found : found[i].source = source} IN
  CASE hits = <<>> -> found
    [] hits # <<>> /\ at # {} ->
         [i \in DOMAIN found |->
            IF i \in at THEN [found[i] EXCEPT !.hits = Merged(way, @, hits)] ELSE found[i]]
    [] OTHER -> Append(found, [source |-> source,
                               hits |-> IF way = "iterative" THEN Merged(way, <<>>, hits)
                                        ELSE hits])

-----------------------------------------------------------------------------
(* ResultFusion, with weights in tenths and reciprocal ranks multiplied by  *)
(* what makes them integers.                                                *)

Weight(source) == CASE source = "graph" -> 4 [] source \in {"code", "docs"} -> 3 [] OTHER -> 10
Share(source, rank) == Weight(source) * (Scale \div (60 + rank))

KeyOf(source, hit) == [source |-> source, id |-> hit.id, content |-> hit.content]

\* The hits, by the number of their source and their rank.
PlacesIn(found) == UNION {{i} \X DOMAIN found[i].hits : i \in DOMAIN found}
KeyAt(found, l) == KeyOf(found[l[1]].source, found[l[1]].hits[l[2]])
FusedKeys(found) == {KeyAt(found, l) : l \in PlacesIn(found)}

SumOf(terms) ==
  LET sum[n \in 0 .. Len(terms)] == IF n = 0 THEN 0 ELSE sum[n - 1] + terms[n]
  IN sum[Len(terms)]

SharesOf(e, key) ==
  [rank \in DOMAIN e.hits |-> IF KeyOf(e.source, e.hits[rank]) = key THEN Share(e.source, rank) ELSE 0]

FusedScore(found, key) == SumOf([i \in DOMAIN found |-> SumOf(SharesOf(found[i], key))])

Sooner(l, m) == l[1] < m[1] \/ (l[1] = m[1] /\ l[2] < m[2])

FirstPlace(found, key) ==
  LET at == {l \in PlacesIn(found) : KeyAt(found, l) = key}
  IN CHOOSE l \in at : \A m \in at : m = l \/ Sooner(l, m)

\* What a sort of the keys by their scores depends on, as it is stable.
Standings(found) ==
  [key \in FusedKeys(found) |-> [score |-> FusedScore(found, key), first |-> FirstPlace(found, key)]]

Outranks(s, t) == s.score > t.score \/ (s.score = t.score /\ Sooner(s.first, t.first))

Ahead(standings, key) ==
  Cardinality({k \in DOMAIN standings : Outranks(standings[k], standings[key])})

InRank(standings) ==
  [n \in 1 .. Cardinality(DOMAIN standings) |->
     CHOOSE key \in DOMAIN standings : Ahead(standings, key) = n - 1]

\* Mutant: the lowest score first.
RankedUpwards(found) == Reverse(InRank(Standings(found)))

\* fuse
Ranked(found) == InRank(Standings(found))

\* The one list of an iterative search, as it is.
Unranked(found) ==
  IF found = <<>> THEN <<>>
  ELSE [rank \in DOMAIN found[1].hits |-> KeyOf(found[1].source, found[1].hits[rank])]

\* fused[:limit], unique_results[:limit]
WithinLimit(ranking) == [n \in DOMAIN ranking \cap 1 .. Limit |-> ranking[n]]

\* What the caller gets of a hit: all of it from an iterative search, from
\* another what fuse writes into its item.
ItemOf(way, key) == IF way = "iterative" THEN key ELSE [key EXCEPT !.id = 0]

-----------------------------------------------------------------------------
VARIABLES
  frames,      \* the searches under way, the innermost first
  call,        \* what was called
  delivered,   \* the reply and, as history, the hits it was made of: what was
               \* found and, item by item, the key that was ranked there
  unembedded   \* history: the sources that raised for want of an embedding

hybridVars == <<frames, call, delivered, unembedded>>

\* lately: the facts of this round; known: the graph has relations of an entity
\* that is named; nested: the searches made for the answer
Frame(way, steps) ==
  [way |-> way, left |-> steps, round |-> 1, found |-> <<>>, lately |-> 0,
   known |-> FALSE, nested |-> 0]

NotDelivered == [at |-> "none", found |-> <<>>, ranking |-> <<>>, reply |-> <<>>]

HybridInit ==
  /\ frames = <<>> /\ call = <<>> /\ delivered = NotDelivered /\ unembedded = {}

Inner == Head(frames)

SearchFrame(c) ==
  LET way == Way(c.intents, c.forced)
  IN Frame(way, StepsOf(way, c.names, c.tooling))

\* search, search_with_enhanced_reasoning
StartSearch(c) ==
  /\ call = <<>> /\ call' = <<c>>
  /\ frames' = <<IF c.enhanced THEN Frame("enhanced", StepsOf("enhanced", c.names, <<>>))
                 ELSE SearchFrame(c)>>
  /\ UNCHANGED <<delivered, unembedded>>

Asking == frames # <<>> /\ Inner.left # <<>>
Step == Head(Inner.left)

Got(hits) ==
  frames' = <<[Inner EXCEPT
    !.left = Tail(@),
    !.found = IF Step = "linked" THEN @ ELSE Filed(Inner.way, @, FiledAs(Inner.way, Step), hits),
    !.lately = @ + Len(hits),
    !.known = @ \/ (Step = "linked" /\ hits # <<>>)]>> \o Tail(frames)

\* The source answers; one that fails, but for the embedding, finds nothing.
SourceAnswers ==
  /\ Asking
  /\ \E hits \in HitsOf(Step) : Len(hits) <= AskedFor(Inner.way) /\ Got(hits)
  /\ UNCHANGED <<call, delivered, unembedded>>

\* An exception ends the search; one that was nested has found nothing.
Raise ==
  IF Len(frames) > 1 THEN frames' = Tail(frames) /\ UNCHANGED delivered
  ELSE frames' = <<>> /\ delivered' = [NotDelivered EXCEPT !.at = "raised"]

\* Mutant: the searches for colbert, diagram and ui_sketch are not guarded.
RaisesUnguarded(way, step) == way # "tooling"

\* What gather returns as an exception has found nothing.
RaisesFor(way, step) == way # "tooling" /\ Embeds(way, step)

SourceRaises ==
  /\ Asking
  /\ \/ Embeds(Inner.way, Step) /\ unembedded' = unembedded \cup {Step}
     \/ Step \in {"colbert", "diagram", "ui_sketch"} /\ UNCHANGED unembedded
  /\ IF RaisesFor(Inner.way, Step) THEN Raise ELSE Got(<<>>) /\ UNCHANGED delivered
  /\ UNCHANGED call

-----------------------------------------------------------------------------
(* When all have answered *)

Answered(way) == frames # <<>> /\ Inner.left = <<>> /\ Inner.way = way

\* Reasoning never raises; over fewer than two facts it does not convince.
Convinces(n) == n >= 2

\* _iterative_search: another round, with a refined query if the last was not
\* even fair.
NextRound ==
  /\ Answered("iterative") /\ Inner.round < MaxRounds
  /\ frames' = <<[Inner EXCEPT !.left = <<"docs", "code">>, !.round = @ + 1, !.lately = 0]>>
                  \o Tail(frames)
  /\ UNCHANGED <<call, delivered, unembedded>>

\* The enhanced search without a name, or without entity reasoning, for its
\* answer: with the query, and then with one that was expanded.
ByEntity == call[1].names /\ call[1].entities
Nested ==
  /\ Answered("enhanced") /\ ~ByEntity /\ Inner.nested < MaxSearches
  /\ \E intents \in IF Inner.nested = 0 THEN {call[1].intents} ELSE NestedIntents :
       LET c == [call[1] EXCEPT !.intents = intents, !.forced = FALSE, !.names = @ /\ Inner.nested = 0]
       IN frames' = <<SearchFrame(c), [Inner EXCEPT !.nested = @ + 1]>>
  /\ UNCHANGED <<call, delivered, unembedded>>

\* Entity reasoning reads attributes of relations, which are dictionaries: it
\* raises when the graph, or the cache, knows a relation.
RelationsRaise ==
  /\ Answered("enhanced") /\ ByEntity /\ Inner.known
  /\ Raise
  /\ UNCHANGED <<call, unembedded>>

MayReturn ==
  CASE Inner.way = "iterative" -> Inner.round = MaxRounds \/ Convinces(Inner.lately)
    [] Inner.way = "enhanced" -> IF ByEntity THEN ~Inner.known ELSE Inner.nested > 0
    [] OTHER -> TRUE

Delivery(way, found) ==
  LET ranking == WithinLimit(IF way = "iterative" THEN Unranked(found) ELSE Ranked(found))
  IN [at |-> "returned", found |-> found, ranking |-> ranking,
      reply |-> [n \in DOMAIN ranking |-> ItemOf(way, ranking[n])]]

Deliver ==
  /\ frames # <<>> /\ Inner.left = <<>> /\ MayReturn
  /\ frames' = Tail(frames)
  /\ delivered' = IF Len(frames) > 1 THEN delivered ELSE Delivery(Inner.way, Inner.found)
  /\ UNCHANGED <<call, unembedded>>

HybridNext ==
  \/ \E c \in HybridCalls : StartSearch(c)
  \/ SourceAnswers \/ SourceRaises
  \/ NextRound \/ Nested \/ RelationsRaise \/ Deliver

HybridSpec == HybridInit /\ [][HybridNext]_hybridVars

-----------------------------------------------------------------------------
(* Properties. *)

\* Whatever of its sources fails, a search only raises for want of an
\* embedding for documents or code - and never for tools - or an enhanced one
\* over relations of an entity that the query names.
OutagesAreSurvived ==
  delivered.at = "raised" =>
    /\ call[1].enhanced \/ Way(call[1].intents, call[1].forced) # "tooling"
    /\ \/ {"docs", "code"} \cap unembedded # {}
       \/ call[1].enhanced /\ ByEntity

\* Of what the sources have found, a reply has every hit once, or as many as the
\* limit allows, and what the limit cuts of a source is the end of its list:
\* with the later of two hits that the source lists once, the reply has the
\* earlier one before it (_fuse_template, fused[:limit]).  Hits that
\* _get_result_key or _deduplicate_results cannot tell apart count as one: all
\* rows of the graph, all sketches, and, of an iterative search, all that have
\* the same content.
OrderIsKept ==
  delivered.at = "returned" =>
    LET ranking == delivered.ranking
        place(k) == CHOOSE i \in DOMAIN ranking : ranking[i] = k
    IN /\ IsInjective(ranking)
       /\ ToSet(ranking) \subseteq FusedKeys(delivered.found)
       /\ DOMAIN delivered.reply = 1 .. Limit \/ ToSet(ranking) = FusedKeys(delivered.found)
       /\ \A e \in ToSet(delivered.found) : \A i, j \in DOMAIN e.hits :
            LET key(n) == KeyOf(e.source, e.hits[n])
                ListedOnce(n) == \A m \in DOMAIN e.hits : key(m) = key(n) => m = n
            IN i < j /\ ListedOnce(i) /\ ListedOnce(j) /\ key(j) \in ToSet(ranking) =>
                 key(i) \in ToSet(ranking) /\ place(key(i)) < place(key(j))
=============================================================================
