------------------------------ MODULE Diagrams ------------------------------
(***************************************************************************)
(* POST /multimodal/diagram/extract (api/multimodal_routes.py): the        *)
(* DiagramIRBuilder makes nodes and edges of a diagram given as text or as *)
(* an image, and enriches them.  One request; requests share nothing.      *)
(*                                                                         *)
(* A drawing is [form, ..., enrich].  Of form "text" it has a head, the    *)
(* first line, and the lines that follow:                                  *)
(*   [is |-> "divider"]  "== ... =="     [is |-> "blank"]                  *)
(*   [is |-> "word", a], [is |-> "box", a]  "a[...]"                       *)
(*   [is |-> "participant", a], [is |-> "class", a]                        *)
(*   [is |-> "link", a, boxed, arrow, b, label]  "a ->> b: label"          *)
(* "drawio": root is mxfile or not; its models are lists of cells [id,     *)
(* value, edge, from, to, placed] - placed if the geometry is of numbers - *)
(* or <<>> for one that is no XML, which ends the reading.                 *)
(* "openapi": json, sound (paths and servers are objects) and the servers. *)
(* "bpmn": how many processes.  "image" has only an address.               *)
(*                                                                         *)
(* A name is the sequence of its words.  Titles, labels and protocols are  *)
(* left out; of what is inferred, only that it is.                         *)
(***************************************************************************)
EXTENDS SequencesExt, FiniteSetsExt, Integers, Places

CONSTANTS
  Drawings,    \* the requests
  LowerOf,     \* words with capitals -> the same in lower case
  Visions      \* what a vision model makes of an image: [entities, relations, odd]

\* What is left of a line beside its words.
Marks == {"[]", "-", ">"}
PlainWords == STRING \ Marks
Names == Seq(STRING)

Lines ==
  [is : {"divider", "blank"}]
    \cup [is : {"word", "box", "participant", "class"}, a : PlainWords]
    \cup [is : {"link"}, a : PlainWords, boxed : BOOLEAN, arrow : STRING, b : PlainWords, label : STRING]
Cells ==
  [id : Names, value : Names, edge : BOOLEAN, from : Names, to : Names, placed : BOOLEAN]
Relations == [from : Names, to : Names]

\* Marks are no words, and have no capitals.
ASSUME DrawingsAssumption ==
  /\ LowerOf \in [DOMAIN LowerOf -> PlainWords] /\ DOMAIN LowerOf \subseteq PlainWords
  /\ \A d \in Drawings :
       /\ d.form \in {"text", "drawio", "openapi", "bpmn", "image", "none"}
       /\ d.form = "text" => d.lines \in Seq(Lines)
       /\ d.form = "drawio" => d.models \in Seq(Seq(Cells))
       /\ d.form = "openapi" => d.servers \in Seq(Names)
  /\ \A seen \in Visions : seen.entities \in Seq(Names) /\ seen.relations \in Seq(Relations)

VARIABLES
  drawing,     \* the request
  drawn,       \* what it waits for: "asked", "embedding", "node types", "edge types"; "sent", "raised"
  diagram      \* [nodes, edges, confidence], as a percentage

diagramVars == <<drawing, drawn, diagram>>

Lower(name) == [n \in DOMAIN name |-> IF name[n] \in DOMAIN LowerOf THEN LowerOf[name[n]] ELSE name[n]]

NodeId(n) == <<"node", n - 1>>
EdgeId(n) == <<"edge", n - 1>>
NodesOf(names) == [n \in DOMAIN names |-> [id |-> NodeId(n), name |-> names[n], inferred |-> FALSE]]
EdgeFrom(n, from, to) == [id |-> EdgeId(n), from |-> from, to |-> to, inferred |-> FALSE]

Drawn(nodes, edges, confidence) ==
  [nodes |-> nodes, edges |-> edges, confidence |-> IF nodes = <<>> THEN 0 ELSE confidence]
NoDiagram == Drawn(<<>>, <<>>, 0)

-----------------------------------------------------------------------------
(* PlantUML and Mermaid: participants, classes and boxes become nodes, the *)
(* links that join two of them edges.                                      *)

\* _find_node_by_name: the first of the name.
NodesNamed(nodes, name) == {n \in DOMAIN nodes : Lower(nodes[n].name) = Lower(name)}
NodeNamed(nodes, name) == nodes[Min(NodesNamed(nodes, name))].id
Joins(nodes, link) == NodesNamed(nodes, link.from) # {} /\ NodesNamed(nodes, link.to) # {}

\* Edges between whatever the links name.
EdgesAsNamed(nodes, links) ==
  [n \in DOMAIN links |-> EdgeFrom(n, links[n].from, links[n].to)]

EdgesAmong(nodes, links) ==
  LET joining == InOrder({n \in DOMAIN links : Joins(nodes, links[n])})
  IN  [k \in DOMAIN joining |->
         EdgeFrom(joining[k], NodeNamed(nodes, links[joining[k]].from),
                  NodeNamed(nodes, links[joining[k]].to))]

DrawnFrom(names, links) == Drawn(NodesOf(names), EdgesAmong(NodesOf(names), links), 90)

LeftText(l) == IF l.boxed THEN <<l.a, "[]">> ELSE <<l.a>>
LineText(l) ==
  CASE l.is \in {"participant", "class"} -> <<l.is, l.a>>
    [] l.is = "box" -> <<l.a, "[]">>
    [] l.is = "word" -> <<l.a>>
    [] l.is = "link" -> LeftText(l) \o <<l.arrow, l.b, l.label>>

Link(from, to) == [from |-> from, to |-> to]
\* A line split at "->": what else belongs to the arrow stays with the names.
SplitAtArrow(l) ==
  Link(IF l.arrow \in {"-->", "-->>"} THEN Append(LeftText(l), "-") ELSE LeftText(l),
       IF l.arrow \in {"->>", "-->>"} THEN <<">", l.b>> ELSE <<l.b>>)
HasArrow(l) == l.is = "link" /\ l.arrow \in {"->", "-->", "->>", "-->>"}

\* A divider opens a block, a blank line closes it.
WithinDivider(lines, n) ==
  \E d \in 1 .. n - 1 : lines[d].is = "divider" /\ \A k \in d .. n - 1 : lines[k].is # "blank"
BlockNames(lines, n) ==
  {k \in 1 .. n - 1 :
     /\ lines[k].is # "divider" /\ WithinDivider(lines, k)
     /\ \A j \in k .. n - 1 : lines[j].is # "blank"}
\* The last line of a block that is closed is a participant.
BlockEnds(lines) ==
  InOrder({n \in DOMAIN lines : lines[n].is = "blank" /\ BlockNames(lines, n) # {}})
PlantUMLNames(lines) ==
  [k \in DOMAIN BlockEnds(lines) |->
     LineText(lines[Max(BlockNames(lines, BlockEnds(lines)[k]))])]
PlantUMLLinks(lines) ==
  LET messages ==
        Taken(lines, {n \in DOMAIN lines : ~WithinDivider(lines, n) /\ HasArrow(lines[n])})
  IN  [k \in DOMAIN messages |-> SplitAtArrow(messages[k])]

NamesOn(declaring) == [n \in DOMAIN declaring |-> <<declaring[n].a>>]

\* Of the arrows of a class diagram, two leave a mark between the names.
ClassWords(l) ==
  <<LeftText(l)>> \o (IF l.arrow \in {"*--", "-->"} THEN <<<<"mark">>>> ELSE <<>>)
    \o <<<<l.b>>>> \o (IF l.label = "" THEN <<>> ELSE <<<<":">>, <<l.label>>>>)
IsRelation(l) ==
  l.is = "link" /\ l.arrow \in {"<|--", "*--", "--", "-->"} /\ Len(ClassWords(l)) >= 3
DrawnClasses(lines) ==
  LET relations == Taken(lines, {n \in DOMAIN lines : IsRelation(lines[n])})
  IN  DrawnFrom(NamesOn(Taken(lines, {n \in DOMAIN lines : lines[n].is = "class"})),
                [n \in DOMAIN relations |->
                   Link(ClassWords(relations[n])[1], Last(ClassWords(relations[n])))])

DrawnSequence(lines) ==
  LET messages == Taken(lines, {n \in DOMAIN lines : HasArrow(lines[n])})
  IN  DrawnFrom(NamesOn(Taken(lines, {n \in DOMAIN lines : lines[n].is = "participant"})),
                [n \in DOMAIN messages |-> SplitAtArrow(messages[n])])

\* "a -->|label| b" names what comes after the arrow; a box declares its node
\* wherever it begins a line.
FlowTarget(l) ==
  (IF l.arrow = "-->>" THEN <<">">> ELSE <<>>)
    \o (IF l.label = "" THEN <<l.b>> ELSE <<"|", l.label, "|", l.b>>)
DrawnFlow(lines) ==
  LET flows == Taken(lines, {n \in DOMAIN lines :
                              lines[n].is = "link" /\ lines[n].arrow \in {"-->", "-->>"}})
      boxes == {n \in DOMAIN lines : lines[n].is = "box" \/ (lines[n].is = "link" /\ lines[n].boxed)}
  IN  DrawnFrom(NamesOn(Taken(lines, boxes)),
                [n \in DOMAIN flows |-> Link(LeftText(flows[n]), FlowTarget(flows[n]))])

DrawnMermaid(head, lines) ==
  CASE head = "classDiagram" -> DrawnClasses(lines)
    [] head = "sequenceDiagram" -> DrawnSequence(lines)
    [] OTHER -> DrawnFlow(lines)

-----------------------------------------------------------------------------
(* _detect_format, and the other formats *)

IsPlantUML(text) ==
  text.head = "@startuml" /\ \E n \in DOMAIN text.lines :
                               text.lines[n].is = "participant" \/ HasArrow(text.lines[n])
IsMermaid(text) ==
  text.head \in {"classDiagram", "classdiagram", "sequenceDiagram", "flowchart", "graph"}

FromText(text) ==
  IF IsPlantUML(text) THEN DrawnFrom(PlantUMLNames(text.lines), PlantUMLLinks(text.lines))
  ELSE IF IsMermaid(text) THEN DrawnMermaid(text.head, text.lines)
  ELSE NoDiagram

\* Models are read up to the first that is no XML.
ModelsRead(models) ==
  LET broken == {n \in DOMAIN models : models[n] = <<>>}
  IN  IF broken = {} THEN models ELSE SubSeq(models, 1, Min(broken) - 1)
CellsRead(file) == IF file.root THEN FlattenSeq(ModelsRead(file.models)) ELSE <<>>
FromDrawIO(file) ==
  LET cells == CellsRead(file)
      elements == Taken(cells, {n \in DOMAIN cells : ~cells[n].edge})
      connections == Taken(cells, {n \in DOMAIN cells : cells[n].edge})
  IN  Drawn(NodesOf([n \in DOMAIN elements |->
                       IF elements[n].value = <<>> THEN elements[n].id ELSE elements[n].value]),
            [n \in DOMAIN connections |-> EdgeFrom(n, connections[n].from, connections[n].to)], 90)

CellRaises(file) == \E n \in DOMAIN CellsRead(file) : ~CellsRead(file)[n].placed
SpecRaises(spec) == ~(spec.json /\ spec.sound)
ProcessRaises(file) == file.processes > 0
Raises(d) ==
  \/ d.form = "drawio" /\ CellRaises(d)
  \/ d.form = "openapi" /\ SpecRaises(d)
  \/ d.form = "bpmn" /\ ProcessRaises(d)

\* Paths are kept under a key that nobody reads, and BPMN without a process
\* of the expected namespace is empty.
FromContent(d) ==
  CASE d.form = "text" -> FromText(d)
    [] d.form = "drawio" -> FromDrawIO(d)
    [] d.form = "openapi" -> Drawn(NodesOf(d.servers), <<>>, 90)
    [] d.form \in {"bpmn", "none"} -> NoDiagram

\* _parse_vlm_response
FromVision(seen) ==
  Drawn(NodesOf(seen.entities),
        [n \in DOMAIN seen.relations |-> EdgeFrom(n, seen.relations[n].from, seen.relations[n].to)], 85)

-----------------------------------------------------------------------------
DiagramsInit ==
  /\ drawing \in Drawings
  /\ drawn = "asked" /\ diagram = NoDiagram

Built(d) ==
  /\ diagram' = d
  /\ drawn' = IF drawing.enrich /\ d.nodes # <<>> THEN "embedding" ELSE "sent"
  /\ UNCHANGED drawing

BuildFromText ==
  /\ drawn = "asked" /\ drawing.form # "image"
  /\ \/ ~Raises(drawing) /\ Built(FromContent(drawing))
     \/ Raises(drawing) /\ drawn' = "raised" /\ UNCHANGED <<drawing, diagram>>

\* The vision model fails, says nothing, or says what is no list of entities.
BuildFromImage ==
  /\ drawn = "asked" /\ drawing.form = "image"
  /\ \/ \E seen \in Visions : Built(IF seen.odd THEN NoDiagram ELSE FromVision(seen))
     \/ Built(NoDiagram)

\* Of enrich, only the embedding can fail it.
Embed ==
  /\ drawn = "embedding"
  /\ drawn' \in {"node types", "sent"}
  /\ UNCHANGED <<drawing, diagram>>

Enriched(d) == [d EXCEPT !.confidence = IF @ + 10 > 100 THEN 100 ELSE @ + 10]

\* The LLM infers types for names, none if it fails: all nodes of a name get it.
InferNodeTypes ==
  /\ drawn = "node types"
  /\ \E names \in SUBSET {diagram.nodes[n].name : n \in DOMAIN diagram.nodes} :
       LET typed == [diagram EXCEPT !.nodes =
                       [n \in DOMAIN @ |-> [@[n] EXCEPT !.inferred = diagram.nodes[n].name \in names]]]
       IN  IF diagram.edges = <<>> THEN diagram' = Enriched(typed) /\ drawn' = "sent"
           ELSE diagram' = typed /\ drawn' = "edge types"
  /\ UNCHANGED drawing

InferEdgeTypes ==
  /\ drawn = "edge types"
  /\ \E pairs \in SUBSET {<<diagram.edges[n].from, diagram.edges[n].to>> : n \in DOMAIN diagram.edges} :
       diagram' = Enriched([diagram EXCEPT !.edges =
                    [n \in DOMAIN @ |->
                       [@[n] EXCEPT !.inferred = <<diagram.edges[n].from, diagram.edges[n].to>> \in pairs]]])
  /\ drawn' = "sent" /\ UNCHANGED drawing

DiagramsNext ==
  BuildFromText \/ BuildFromImage \/ Embed \/ InferNodeTypes \/ InferEdgeTypes

-----------------------------------------------------------------------------
(* Properties *)

\* A node that is written so.
WrittenAs(id, name) ==
  \E n \in DOMAIN diagram.nodes :
    diagram.nodes[n].id = id /\ Lower(diagram.nodes[n].name) = Lower(name)

\* An edge drawn from text joins two nodes of the diagram, and those that some
\* line of the text links, what is left of its arrow and the word right of it - or,
\* in a class diagram, the class that the label of the link happens to name.  Nodes
\* and edges have ids of their own, and only a diagram with nodes claims confidence.
DiagramsHangTogether ==
  /\ drawing.form = "text" =>
       \A e \in DOMAIN diagram.edges : \E n \in DOMAIN drawing.lines :
         LET l == drawing.lines[n]
         IN  /\ l.is = "link" /\ WrittenAs(diagram.edges[e].from, LeftText(l))
             /\ \/ WrittenAs(diagram.edges[e].to, <<l.b>>)
                \/ drawing.head = "classDiagram" /\ WrittenAs(diagram.edges[e].to, <<l.label>>)
  /\ \A s \in {diagram.nodes, diagram.edges} :
       \A n, m \in DOMAIN s : s[n].id = s[m].id => n = m
  /\ diagram.confidence > 0 <=> diagram.nodes # <<>>
=============================================================================
