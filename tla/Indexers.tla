------------------------------- MODULE Indexers -------------------------------
(***************************************************************************)
(* VectorIndexer and GraphIndexer (ingestion/indexer.py): how chunks, and  *)
(* nodes and edges, get into their stores batch by batch, and what a call  *)
(* reports of it.                                                          *)
(*                                                                         *)
(* A request to a store may be applied or not, and may be answered well,   *)
(* badly or not at all; only one that is applied is answered well.  When a *)
(* batch of nodes or edges fails, its members are inserted one by one,     *)
(* nodes as Entity and edges as RELATED_TO, whatever their type; a batch   *)
(* of chunks that fails is left out.                                       *)
(*                                                                         *)
(* The stores are external: MERGE makes a node or an edge once, and MATCH  *)
(* makes no edge when an end is not there.  Left out: vectors, properties  *)
(* and messages, and the cache of nodes, which nothing reads.              *)
(***************************************************************************)
EXTENDS SequencesExt, Integers

CONSTANTS
  IndexCalls,
  ChunksOf,    \* call of index_chunks -> ids
  Components,  \* call of index_architecture -> [nodes, edges]
  EntitiesOf,  \* call of index_code_entities -> entities
  BatchSize    \* bound: batch_size, of 100, 500 and 200

IsSequence(s) == s \in Seq(Range(s))

ASSUME IndexAssumption ==
  /\ BatchSize \in Nat \ {0}
  /\ IndexCalls = DOMAIN ChunksOf \cup DOMAIN Components \cup DOMAIN EntitiesOf
  /\ DOMAIN ChunksOf \cap (DOMAIN Components \cup DOMAIN EntitiesOf) = {}
  /\ \A c \in DOMAIN ChunksOf : IsSequence(ChunksOf[c])
  /\ \A c \in DOMAIN Components : IsSequence(Components[c].nodes) /\ IsSequence(Components[c].edges)
  /\ \A c \in DOMAIN EntitiesOf :
       IsSequence(EntitiesOf[c]) /\ \A e \in Range(EntitiesOf[c]) : IsSequence(e.refs)

\* _validate_node_type, _validate_edge_type: "missing" is a node without a
\* type, which a batch takes for the type "entity", and that is not allowed;
\* one by one it is an Entity.  An edge without a type is RELATED_TO.
Allowed(item) == item.type = "allowed"
AllowedAlone(item) == item.type # "other"

-----------------------------------------------------------------------------
(* index_code_entities: a node for each entity, an edge to its file, and    *)
(* one to each entity it refers to.  No node is made for the file.          *)

NoFile == "none"

EntityNode(e) == [id |-> e.id, type |-> e.type]
EdgesOfEntity(e) ==
  (IF e.file = NoFile THEN <<>> ELSE <<[from |-> e.id, to |-> e.file, type |-> "allowed"]>>)
    \o [k \in DOMAIN e.refs |-> [from |-> e.id, to |-> e.refs[k], type |-> "allowed"]]

CodeEntities(c) ==
  LET es == EntitiesOf[c] IN
  [nodes |-> [k \in DOMAIN es |-> EntityNode(es[k])],
   edges |-> FlattenSeq([k \in DOMAIN es |-> EdgesOfEntity(es[k])])]

Graph(c) == IF c \in DOMAIN Components THEN Components[c] ELSE CodeEntities(c)

Phases == {"new", "chunks", "nodes", "edges", "ended", "raised"}

VARIABLES
  phase,       \* call -> what it is inserting
  done,        \* call -> how many of these have had a batch
  alone,       \* call -> those of the last batch still to be inserted one by one
  indexed,     \* call -> indexed_count
  errors,      \* call -> the errors reported: for chunks, what they stand for
  vectors,     \* ids in the vector store
  nodes,       \* ids with their label, in the graph
  edges,       \* edges with their type
  counted      \* history: the ids of nodes and chunks that were counted

indexVars == <<phase, done, alone, indexed, errors, vectors, nodes, edges, counted>>

IndexInit ==
  /\ phase = [c \in IndexCalls |-> "new"]
  /\ done = [c \in IndexCalls |-> 0]
  /\ alone = [c \in IndexCalls |-> <<>>]
  /\ indexed = [c \in IndexCalls |-> 0]
  /\ errors = [c \in IndexCalls |-> 0]
  /\ vectors = {} /\ nodes = {} /\ edges = {} /\ counted = {}

Items(c) ==
  CASE phase[c] = "chunks" -> ChunksOf[c]
    [] phase[c] = "nodes" -> Graph(c).nodes
    [] phase[c] = "edges" -> Graph(c).edges
    [] OTHER -> <<>>

Batch(c) == SubSeq(Items(c), done[c] + 1,
                   IF done[c] + BatchSize < Len(Items(c)) THEN done[c] + BatchSize
                   ELSE Len(Items(c)))

-----------------------------------------------------------------------------
(* The stores *)

Insert(items, phase_, label) ==
  CASE phase_ = "chunks" ->
         vectors' = vectors \cup items /\ UNCHANGED <<nodes, edges>>
    [] phase_ = "nodes" ->
         /\ nodes' = nodes \cup {[id |-> n.id, label |-> label] : n \in items}
         /\ UNCHANGED <<vectors, edges>>
    [] phase_ = "edges" ->
         /\ edges' = edges \cup {[from |-> e.from, to |-> e.to, label |-> label] :
                e \in {f \in items : {f.from, f.to} \subseteq {n.id : n \in nodes}}}
         /\ UNCHANGED <<vectors, nodes>>

NotInserted == UNCHANGED <<vectors, nodes, edges>>

IdsOf(items, phase_) ==
  CASE phase_ = "chunks" -> items [] phase_ = "nodes" -> {n.id : n \in items} [] OTHER -> {}

\* The batch or the member is counted.
Counts(c, items) ==
  /\ indexed' = [indexed EXCEPT ![c] = @ + Len(items)]
  /\ counted' = counted \cup IdsOf(ToSet(items), phase[c])
  /\ UNCHANGED errors

Fails(c, n) == errors' = [errors EXCEPT ![c] = @ + n] /\ UNCHANGED <<indexed, counted>>

-----------------------------------------------------------------------------
IndexCall(c) ==
  /\ phase[c] = "new"
  /\ phase' = [phase EXCEPT ![c] = IF c \in DOMAIN ChunksOf THEN "chunks" ELSE "nodes"]
  /\ UNCHANGED <<done, alone, indexed, errors, vectors, nodes, edges, counted>>

TakesBatch(c) ==
  /\ alone[c] = <<>> /\ done[c] < Len(Items(c))
  /\ done' = [done EXCEPT ![c] = @ + Len(Batch(c))]
  /\ UNCHANGED phase

\* index_chunks
ChunkBatch(c) ==
  /\ phase[c] = "chunks" /\ TakesBatch(c)
  /\ \/ Insert(ToSet(Batch(c)), "chunks", "none") /\ Counts(c, Batch(c))
     \/ Insert(ToSet(Batch(c)), "chunks", "none") /\ Fails(c, Len(Batch(c)))
     \/ NotInserted /\ Fails(c, Len(Batch(c)))
  /\ UNCHANGED alone

\* Mutant: a batch is counted when it is sent.
CountsEarly(c) == alone' = [alone EXCEPT ![c] = Batch(c)] /\ Counts(c, Batch(c))

\* What is not counted in a batch is inserted alone.
FallsBack(c) ==
  /\ alone' = [alone EXCEPT ![c] = Batch(c)]
  /\ UNCHANGED <<indexed, errors, counted>>

\* index_nodes, index_edges: with a type that is not allowed nothing is sent.
GraphBatch(c) ==
  /\ phase[c] \in {"nodes", "edges"} /\ TakesBatch(c)
  /\ \/ /\ \A item \in ToSet(Batch(c)) : Allowed(item)
        /\ Insert(ToSet(Batch(c)), phase[c], "own")
        /\ Counts(c, Batch(c)) /\ UNCHANGED alone
     \/ /\ \A item \in ToSet(Batch(c)) : Allowed(item)
        /\ Insert(ToSet(Batch(c)), phase[c], "own")
        /\ FallsBack(c)
     \/ NotInserted /\ FallsBack(c)

\* The member of a batch that fell back; a type that is not allowed raises.
InsertAlone(c) ==
  /\ alone[c] # <<>>
  /\ LET item == Head(alone[c]) IN
     IF AllowedAlone(item)
     THEN /\ \/ Insert({item}, phase[c], "general") /\ Counts(c, <<item>>)
             \/ Insert({item}, phase[c], "general") /\ Fails(c, 1)
             \/ NotInserted /\ Fails(c, 1)
          /\ alone' = [alone EXCEPT ![c] = Tail(@)]
          /\ UNCHANGED phase
     ELSE /\ phase' = [phase EXCEPT ![c] = "raised"]
          /\ alone' = [alone EXCEPT ![c] = <<>>]
          /\ NotInserted /\ UNCHANGED <<indexed, errors, counted>>
  /\ UNCHANGED done

\* index_architecture and index_code_entities go on with the edges.
NextPart(c) ==
  /\ phase[c] \in {"chunks", "nodes", "edges"}
  /\ alone[c] = <<>> /\ done[c] = Len(Items(c))
  /\ phase' = [phase EXCEPT ![c] = IF @ = "nodes" THEN "edges" ELSE "ended"]
  /\ done' = [done EXCEPT ![c] = 0]
  /\ UNCHANGED <<alone, indexed, errors, vectors, nodes, edges, counted>>

IndexStep(c) == ChunkBatch(c) \/ GraphBatch(c) \/ InsertAlone(c) \/ NextPart(c)

IndexNext == \E c \in IndexCalls : IndexCall(c) \/ IndexStep(c)

IndexSpec == IndexInit /\ [][IndexNext]_indexVars

-----------------------------------------------------------------------------
(* Properties. *)

Total(c) ==
  IF c \in DOMAIN ChunksOf THEN Len(ChunksOf[c]) ELSE Len(Graph(c).nodes) + Len(Graph(c).edges)

\* Whatever requests fail or lose their answer, a call that returns has
\* counted each chunk, node and edge exactly once, as indexed or as an
\* error, and each chunk and node it counted as indexed is in the store; it
\* raises only over a type that is not allowed (index_chunks, index_nodes,
\* index_edges).
IndexIsAccounted ==
  /\ \A c \in IndexCalls :
       /\ phase[c] = "ended" => indexed[c] + errors[c] = Total(c)
       /\ phase[c] = "raised" =>
            \E item \in Range(Graph(c).nodes) \cup Range(Graph(c).edges) : ~AllowedAlone(item)
  /\ counted \subseteq vectors \cup {n.id : n \in nodes}
=============================================================================
