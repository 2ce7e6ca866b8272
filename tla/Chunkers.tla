------------------------------- MODULE Chunkers -------------------------------
(***************************************************************************)
(* How a text is cut into chunks (ingestion/chunker.py,                    *)
(* structural_chunker.py and the chunkers of Kubernetes, Istio, Helm,      *)
(* Dockerfile and GraphQL texts; the windows of the artifact handlers).    *)
(*                                                                         *)
(* A text is a sequence of units of one length, each of a kind: words, or  *)
(* "end", with which a sentence or a line ends, or blank, or what else a   *)
(* pattern matches.  A chunk is [id, index, name, units]: what its id is   *)
(* made of besides the source, its place, the name that is in its id, if   *)
(* any, and the units of the text that are in it.                          *)
(*                                                                         *)
(* Left out: what formatting adds or strips, offsets, headings' paths, and *)
(* the white space between sentences.                                      *)
(***************************************************************************)
EXTENDS CodeParsers

CONSTANTS ChunkSize, ChunkOverlap, MinChunk   \* in units

ASSUME ChunkAssumption ==
  /\ {ChunkSize, ChunkOverlap, MinChunk} \subseteq Nat
  /\ 0 < MinChunk /\ MinChunk <= ChunkOverlap /\ ChunkOverlap < ChunkSize

NewChunk(id, index, name, units) == [id |-> id, index |-> index, name |-> name, units |-> units]

\* What a chunker returns, unless it never returns.
Cut(chunks) == [ends |-> TRUE, chunks |-> chunks]

LastOf(S) == CHOOSE i \in S : \A j \in S : j <= i

-----------------------------------------------------------------------------
(* The windows of the handlers: each starts Size - Overlap after the last. *)

Window(text, start) == {j \in start + 1 .. start + ChunkSize : j <= Len(text)}

WindowChunks(text, starts) ==
  [k \in DOMAIN starts |->
     NewChunk(<<"", starts[k]>>, k - 1, "", Window(text, starts[k]))]

StartsBefore(limit) == {i \in 0 .. limit - 1 : i % (ChunkSize - ChunkOverlap) = 0}

\* Mutant: a window must be full.
SlidingInFull(text) == WindowChunks(text, InOrder(StartsBefore(Len(text) - ChunkSize + 1)))

Sliding(text) ==
  WindowChunks(text, InOrder({i \in StartsBefore(Len(text)) :
                                \E j \in Window(text, i) : text[j] # "blank"}))

TextAt(text, places) == [k \in DOMAIN places |-> text[places[k]]]

\* Chunks of the text at these places are chunks of the whole text.
Relocated(chunks, places) ==
  [k \in DOMAIN chunks |-> [chunks[k] EXCEPT !.units = {places[j] : j \in @}]]

SlidingAt(text, places) == Relocated(Sliding(TextAt(text, places)), places)

\* The same for what is left of the text when some of its units are taken out.
SlidingOver(text, dropped) ==
  SlidingAt(text, InOrder({i \in DOMAIN text : text[i] \notin dropped}))

-----------------------------------------------------------------------------
(* Loops that take a piece at pos and go on a little before its end.  They  *)
(* depend on pos alone: when there are more turns than places, they go on   *)
(* for ever.                                                                *)

NoPieces == [pos |-> 0, over |-> FALSE, pieces |-> <<>>]

Repeated(text, Turn(_)) ==
  LET after[n \in 0 .. Len(text) + 1] ==
        IF n = 0 THEN NoPieces
        ELSE IF after[n - 1].over THEN after[n - 1] ELSE Turn(after[n - 1])
  IN after[Len(text) + 1]

\* The chunks of the pieces of one section, or text.
Pieces(done, first) ==
  [ends |-> done.over,
   chunks |-> [k \in DOMAIN done.pieces |->
                 NewChunk(<<"", first + k - 1>>, first + k - 1, "", done.pieces[k])]]

\* The last end in between, or else this place.
LastEnd(text, from, to, otherwise) ==
  IF \E e \in from .. to : text[e] = "end"
  THEN LastOf({e \in from .. to : text[e] = "end"})
  ELSE otherwise

(* DocumentChunker *)

\* All sentences of the window but the last.
SentenceCut(text, pos) ==
  IF pos + ChunkSize >= Len(text)
  THEN Len(text)
  ELSE LastEnd(text, pos + 1, pos + ChunkSize - 1, pos + ChunkSize)

DocumentStep(text, s, cut, next) ==
  IF cut - s.pos < MinChunk /\ s.pieces # <<>>
  THEN [s EXCEPT !.over = TRUE]
  ELSE [pos |-> next,
        over |-> cut >= Len(text) \/ next <= 0 \/ next >= cut,
        pieces |-> Append(s.pieces, s.pos + 1 .. cut)]

DocumentTurn(text, s) ==
  DocumentStep(text, s, SentenceCut(text, s.pos), SentenceCut(text, s.pos) - ChunkOverlap)

DocumentChunks(text) ==
  IF \A i \in DOMAIN text : text[i] = "blank"
  THEN Cut(<<>>)
  ELSE Pieces(Repeated(text, LAMBDA s : DocumentTurn(text, s)), 0)

(* StructuralChunker *)

Headings == {"h1", "h2"}

Stretch(text, i) == {j \in i .. Len(text) : \A k \in i .. j : text[k] \notin Headings}

StretchesFrom(text, starts) == [k \in DOMAIN starts |-> Stretch(text, starts[k])]

\* The stretches between headings, or the whole text.
Sections(text) ==
  IF \A i \in DOMAIN text : text[i] \in Headings
  THEN <<DOMAIN text>>
  ELSE StretchesFrom(text, InOrder({i \in DOMAIN text :
         text[i] \notin Headings /\ (i = 1 \/ text[i - 1] \in Headings)}))

\* The last whole line of the window, if the text goes on after it.
LineCut(text, pos) ==
  IF pos + ChunkSize >= Len(text)
  THEN Len(text)
  ELSE LastEnd(text, pos + 1, pos + ChunkSize, pos + ChunkSize)

SectionStep(s, cut) ==
  [pos |-> cut - ChunkOverlap,
   over |-> cut - ChunkOverlap <= 0,
   pieces |-> Append(s.pieces, s.pos + 1 .. cut)]

\* The end of the section is no reason to stop.
SectionTurn(text, s) == SectionStep(s, LineCut(text, s.pos))

SplitText(text, idx) == Pieces(Repeated(text, LAMBDA s : SectionTurn(text, s)), idx * 100)

RelocatedCut(cut, places) == [cut EXCEPT !.chunks = Relocated(@, places)]

SplitAt(text, places, idx) == RelocatedCut(SplitText(TextAt(text, places), idx), places)

SectionChunks(text, section, idx) ==
  IF Cardinality(section) <= ChunkSize
  THEN Cut(<<NewChunk(<<"", idx>>, idx, "", section)>>)
  ELSE SplitAt(text, InOrder(section), idx)

Joined(cuts) ==
  [ends |-> \A k \in DOMAIN cuts : cuts[k].ends,
   chunks |-> FlattenSeq([k \in DOMAIN cuts |-> cuts[k].chunks])]

SectionsCut(text, sections) ==
  Joined([k \in DOMAIN sections |-> SectionChunks(text, sections[k], k - 1)])

StructuralChunks(text) == SectionsCut(text, Sections(text))

(* CodeChunker *)

EntityChunks(entities) ==
  [k \in DOMAIN entities |-> NewChunk(<<"", k - 1>>, k - 1, "", entities[k].units)]

CodeChunks(lines) == Cut(EntityChunks(EntitiesIn(lines)))

-----------------------------------------------------------------------------
(* Infrastructure as code *)

Document(text, i) == {j \in i .. Len(text) : \A k \in i .. j : text[k] # "---"}

DocumentsFrom(text, starts) == [k \in DOMAIN starts |-> Document(text, starts[k])]

\* A document ends with "---"; one without a line does not count.
YamlDocuments(text) ==
  DocumentsFrom(text, InOrder({i \in DOMAIN text :
    text[i] # "---" /\ (i = 1 \/ text[i - 1] = "---")}))

ChunksOfKept(documents, kept) ==
  [k \in DOMAIN kept |->
     NewChunk(<<"", kept[k] - 1>>, kept[k] - 1, "", documents[kept[k]])]

WithText(text, documents) ==
  InOrder({d \in DOMAIN documents : \E i \in documents[d] : text[i] # "blank"})

\* A blank document counts but is no chunk.
YamlChunks(text) == ChunksOfKept(YamlDocuments(text), WithText(text, YamlDocuments(text)))

\* "null": a document whose metadata is null, on which the chunker raises.
KubernetesChunks(text) ==
  [fails |-> \E i \in DOMAIN text : text[i] = "null", chunks |-> YamlChunks(text)]

\* Values that are no mapping cannot be formatted; those that are no YAML are none.
HelmChunks(text) ==
  LET chart == {i \in DOMAIN text : text[i] = "chart"}
      readable == \A i \in DOMAIN text : text[i] # "broken"
      written == \E i \in DOMAIN text : text[i] # "blank"
  IN [fails |-> readable /\ \E i \in DOMAIN text : text[i] = "list",
      chunks |-> (IF chart = {} THEN <<>> ELSE <<NewChunk(<<"", 0>>, 0, "", chart)>>)
                   \o IF readable /\ written
                      THEN <<NewChunk(<<"", 1>>, 1, "", DOMAIN text)>> ELSE <<>>]

GroupChunks(text, firsts) ==
  [k \in DOMAIN firsts |->
     NewChunk(<<"", k - 1>>, k - 1, "", {i \in DOMAIN text : text[i] = text[firsts[k]]})]

\* One chunk for each kind of instruction, in the order of their first lines.
DockerfileChunks(text) ==
  GroupChunks(text, InOrder({i \in DOMAIN text :
                               /\ text[i] \notin {"blank", "comment", "continued"}
                               /\ \A j \in 1 .. i - 1 : text[j] # text[i]}))

SingleChunks(places) ==
  [k \in DOMAIN places |-> NewChunk(<<"", k - 1>>, k - 1, "", {places[k]})]

\* Types, then operations, then schemas.
GraphQLChunks(text) ==
  LET Of(kind) == InOrder({i \in DOMAIN text : text[i] = kind})
  IN SingleChunks(Of("type") \o Of("operation") \o Of("schema"))
=============================================================================
