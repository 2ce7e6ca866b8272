------------------------------- MODULE Handlers -------------------------------
(***************************************************************************)
(* Requests to /artifacts/ingest, .../batch, .../zip, .../git and          *)
(* .../filesystem (unified_ingestion/api.py), each file of which goes to   *)
(* the handler of its type (unified_ingestion/handlers), and documents and *)
(* code for the ingestion pipeline, which go to its chunkers.              *)
(*                                                                         *)
(* Nothing a handler does lets another task run - the parsers of documents *)
(* are called, not waited for - so that each file is one step.  A chunker  *)
(* that never returns keeps the event loop for ever.                       *)
(*                                                                         *)
(* A file is [source, base, type, path, mime, content, text]: the path is  *)
(* the part of its name that says what it is, and content is what the      *)
(* handler is given: UTF-8, other bytes, or a string, for which a batch    *)
(* has no bytes.  Left out: entities, relationships, metadata.             *)
(***************************************************************************)
EXTENDS Chunkers

CONSTANT FileRequests   \* [entry, named, files]

FileEntries == {"ingest", "batch", "zip", "git", "filesystem", "pipeline"}

VARIABLES
  request,    \* the request
  handled,    \* how many of its files have been handled
  answers,    \* to its files: the job each has, and its status
  jobs,       \* the jobs, by id: [status, chunks, file]
  stuck       \* does a chunker go on for ever?

fileVars == <<request, handled, answers, jobs, stuck>>

-----------------------------------------------------------------------------
(* The results of the handlers *)

Succeeds(chunks) == [outcome |-> "fine", chunks |-> chunks]
Unhandled == [outcome |-> "failed", chunks |-> <<>>]
NeverEnds == [outcome |-> "stuck", chunks |-> <<>>]

Whole(text, id) == <<NewChunk(id, 0, "", DOMAIN text)>>

\* What is in the text, apart from what the handler takes away first.
Markup(type) ==
  CASE type \in {"html", "xml", "asciidoc"} -> {"markup", "blank"}
    [] type = "rst" -> {"markup", "directive", "blank"}
    [] OTHER -> {}

\* TextHandler, PlainTextHandler, PropertiesHandler
HandleText(file) ==
  IF file.content = "utf8" THEN Succeeds(Sliding(file.text)) ELSE Unhandled

\* RSTHandler, AsciiDocHandler, INIHandler, HTMLHandler, XMLHandler: what is no UTF-8 is
\* taken for Latin-1.
HandleLenient(type, file) ==
  IF file.content = "string"
  THEN Unhandled
  ELSE Succeeds(SlidingOver(file.text, Markup(type)))

\* DocumentHandler: only a reader for PDF can be made; it may fail.
HandleDocument(file, path, read) ==
  IF path = "pdf" /\ read /\ file.content # "string"
  THEN Succeeds(Sliding(file.text))
  ELSE Unhandled

\* MarkdownHandler: the blocks of code first, then the text with them.
After(n, chunks) == [k \in DOMAIN chunks |-> [chunks[k] EXCEPT !.index = @ + n]]

BlockChunks(blocks) ==
  [k \in DOMAIN blocks |-> NewChunk(<<"code", k - 1>>, k - 1, "", {blocks[k]})]

MarkdownChunks(blocks, cut) ==
  IF cut.ends THEN Succeeds(BlockChunks(blocks) \o After(Len(blocks), cut.chunks)) ELSE NeverEnds

HandleMarkdown(file) ==
  IF file.content = "utf8"
  THEN MarkdownChunks(InOrder({i \in DOMAIN file.text : file.text[i] = "code"}),
                      StructuralChunks(file.text))
  ELSE Unhandled

\* SourceCodeHandler: one chunk for each entity, or one for all.
NamedChunks(entities) ==
  [k \in DOMAIN entities |->
     NewChunk(<<"entity", entities[k].name>>, k - 1, entities[k].name, entities[k].units)]

ParsedChunks(text, parsed) ==
  IF parsed.fails THEN Unhandled
  ELSE Succeeds(IF parsed.entities = <<>> THEN Whole(text, <<"full">>)
                ELSE NamedChunks(parsed.entities))

HandleSourceCode(file, path) ==
  IF file.content = "utf8"
  THEN ParsedChunks(file.text,
                    ParseFile(file.text, IF path \in DOMAIN LanguageOf THEN path ELSE ""))
  ELSE Unhandled

\* ConfigHandler: what has no known suffix is taken for JSON, and must be an object.
ConfigLanguage(path) ==
  CASE path \in {"yaml", "yml"} -> "yaml" [] path \in {"toml", "env"} -> path
    [] OTHER -> "json"

ParsesAs(text, language) ==
  /\ text # <<>>
  /\ CASE language = "json" -> text[1] = "object"
       [] language = "yaml" -> text[1] \in {"object", "mapping"}
       [] OTHER -> TRUE

HandleConfig(file, path) ==
  IF file.content = "utf8" /\ ParsesAs(file.text, ConfigLanguage(path))
  THEN Succeeds(Whole(file.text, <<>>))
  ELSE Unhandled

\* K8sHandler: the name of the file decides, and there may be none.
IsChart(path) == path \in {"chart", "values"}

CutOrFail(cut) == IF cut.fails THEN Unhandled ELSE Succeeds(cut.chunks)

HandleKubernetes(file, path) ==
  CASE file.content # "utf8" -> Unhandled
    [] file.content = "utf8" /\ path = "dockerfile" -> Succeeds(DockerfileChunks(file.text))
    [] file.content = "utf8" /\ IsChart(path) -> CutOrFail(HelmChunks(file.text))
    [] file.content = "utf8" /\ path \in {"yaml", "yml", "json"} ->
         IF \E i \in DOMAIN file.text : file.text[i] = "istio"
         THEN Succeeds(YamlChunks(file.text))
         ELSE CutOrFail(KubernetesChunks(file.text))
    [] OTHER -> Unhandled

OrWhole(chunks, whole) == Succeeds(IF chunks = <<>> THEN whole ELSE chunks)

HandleGraphQL(file) ==
  IF file.content = "utf8"
  THEN OrWhole(GraphQLChunks(file.text), Whole(file.text, <<>>))
  ELSE Unhandled

\* GRPCProtoHandler: one chunk for each block, to the line that closes it; the blocks
\* "service" and "message" are named.
Block(text, i) == {j \in i .. Len(text) : \A k \in i .. j - 1 : text[k] # "closes"}

BlocksAt(text, starts) ==
  [k \in DOMAIN starts |->
     NewChunk(<<text[starts[k]], starts[k]>>, k - 1, "", Block(text, starts[k]))]

ProtoBlocks(text) ==
  BlocksAt(text, InOrder({i \in DOMAIN text : text[i] \in {"service", "message"}}))

HandleProto(file) ==
  IF file.content = "string" THEN Unhandled ELSE OrWhole(ProtoBlocks(file.text), Sliding(file.text))

\* DiagramHandler: of what is neither PlantUML nor Mermaid, it asks a parser it does not
\* have.
HandleDiagram(file) ==
  IF /\ file.content = "utf8"
     /\ \E i \in DOMAIN file.text : file.text[i] \in {"plantuml", "mermaid"}
  THEN Succeeds(Whole(file.text, <<>>))
  ELSE Unhandled

\* BPMNHandler: a process has no id to ask for; what is no XML has none.
HandleBPMN(file, path) ==
  LET has(kind) == \E i \in DOMAIN file.text : file.text[i] = kind
  IN IF file.content # "utf8" THEN Unhandled
     ELSE IF path = "xml" \/ has("bpmn")
          THEN IF has("process") /\ ~has("broken") THEN Unhandled ELSE Succeeds(<<>>)
          ELSE Succeeds(Whole(file.text, <<>>))

\* APISpecHandler asks the list of paths for its items.
HandleAPISpec == Unhandled

\* ImageHandler: a chunk that says there is an image.
HandleImage(file) ==
  IF file.content = "string" THEN Unhandled ELSE Succeeds(<<NewChunk(<<"image">>, 0, "", {})>>)

\* The handlers of SAP: one chunk about the file.
HandleSAP(file) ==
  LET about == Succeeds(<<NewChunk(<<file.type>>, 0, "", {})>>)
      is(kinds) == file.text # <<>> /\ file.text[1] \in kinds
  IN CASE file.type = "sap_cds" -> IF file.content = "string" THEN Unhandled ELSE about
       [] file.type = "sap_mta" ->
            IF file.content # "binary" /\ is({"object", "mapping"}) THEN about ELSE Unhandled
       [] OTHER -> IF file.content # "binary" /\ is({"object"}) THEN about ELSE Unhandled

\* The handler for artifacts of the template imports what is not there.
HandleTemplate == Unhandled

\* _ingest_standard: the chunker for code takes every text for Python.
EndsOrNot(cut) == IF cut.ends THEN Succeeds(cut.chunks) ELSE NeverEnds

HandleSentences(file) == EndsOrNot(DocumentChunks(file.text))

HandleCode(file) == Succeeds(CodeChunks(file.text).chunks)

\* The handlers as they are registered; what has none raises.
HandleAs(type, file, path, read) ==
  CASE type = "code" -> HandleCode(file)
    [] type = "sentences" -> HandleSentences(file)
    [] type \in {"text", "csv", "tsv", "plaintext", "properties"} -> HandleText(file)
    [] type \in {"rst", "asciidoc", "ini", "html", "xml"} -> HandleLenient(type, file)
    [] type = "document" -> HandleDocument(file, path, read)
    [] type = "markdown" -> HandleMarkdown(file)
    [] type = "source_code" -> HandleSourceCode(file, path)
    [] type \in {"config", "json", "yaml", "toml", "env"} -> HandleConfig(file, path)
    [] type \in {"k8s", "helm", "dockerfile", "istio"} -> HandleKubernetes(file, path)
    [] type = "graphql" -> HandleGraphQL(file)
    [] type = "grpc_proto" -> HandleProto(file)
    [] type \in {"diagram", "plantuml", "mermaid", "c4", "drawio"} -> HandleDiagram(file)
    [] type = "bpmn" -> HandleBPMN(file, path)
    [] type \in {"api_spec", "openapi", "swagger"} -> HandleAPISpec
    [] type = "image" -> HandleImage(file)
    [] type \in {"sap_mta", "sap_cds", "sap_cap", "sap_xsuaa"} -> HandleSAP(file)
    [] type = "template" -> HandleTemplate
    [] OTHER -> Unhandled

\* Where ConfluenceAttachmentHandler sends an attachment: by the suffix of its title,
\* then by its MIME type.
AttachmentType(path, mime) ==
  CASE path \in {"puml", "mmd"} -> "diagram"
    [] path = "bpmn" -> "bpmn"
    [] path \in {"py", "js", "ts", "java", "kt", "go", "rs", "cs", "rb"} -> "source_code"
    [] path \in {"json", "yaml", "yml", "xml", "toml", "gradle", "pom", "istio", "chart", "values"} ->
         "config"
    [] mime \in {"image", "document", "html", "config", "diagram"} -> mime
    [] OTHER -> "text"

-----------------------------------------------------------------------------
(* The requests *)

\* The type a file of an archive, or of the file system, is given by its suffix.
ZipTypes ==
  [path \in {"py", "js", "ts", "yml", "md", "json", "yaml", "graphql", "proto"} |->
     CASE path \in {"py", "js", "ts"} -> "source_code" [] path = "yml" -> "k8s"
       [] path = "md" -> "markdown" [] path \in {"json", "yaml", "graphql"} -> path
       [] path = "proto" -> "grpc_proto"]
FileTypes ==
  [path \in {"py", "js", "ts", "yml", "yaml", "md"} |->
     CASE path \in {"py", "js", "ts"} -> "source_code" [] path = "md" -> "markdown"
       [] OTHER -> "k8s"]

TypeOf(entry, file) ==
  CASE entry = "zip" /\ file.path \in DOMAIN ZipTypes -> ZipTypes[file.path]
    [] entry = "filesystem" /\ file.path \in DOMAIN FileTypes -> FileTypes[file.path]
    [] OTHER -> file.type

\* On the file system, the name of a file without its directory.
JobId(entry, file) ==
  CASE entry = "git" -> <<"git", file.source>>
    [] entry = "filesystem" -> <<"fs", file.base>>
    [] entry = "pipeline" -> <<"uuid", file.source>>
    [] OTHER -> <<"job", file.source>>

\* Only the metadata of a single request can name the file.
NamedPath(r, file) == IF r.entry = "ingest" /\ r.named THEN file.path ELSE ""

\* What handles a file.
HandledAs(r, file) ==
  LET type == TypeOf(r.entry, file)
  IN CASE r.entry = "pipeline" -> IF type = "code" THEN "code" ELSE "sentences"
       [] r.entry # "pipeline" /\ type = "confluence" -> AttachmentType(file.path, file.mime)
       [] OTHER -> type

\* Python has something for every decorator to decorate.
IsPython(lines) ==
  \A i \in DOMAIN lines :
    lines[i].kind = "decorator" =>
      \E k \in i + 1 .. Len(lines) :
        /\ Defines(lines[k]) \/ lines[k].kind = "decorator"
        /\ lines[k].depth = lines[i].depth
        /\ \A j \in i + 1 .. k - 1 : lines[j].kind = "blank"

IsList(s) == Len(s) \in Nat /\ DOMAIN s = 1 .. Len(s)

ASSUME FilesAssumption ==
  \A r \in FileRequests :
    /\ r.entry \in FileEntries /\ r.named \in BOOLEAN
    /\ IsList(r.files)
    /\ \A n \in DOMAIN r.files :
         LET text == r.files[n].text
         IN /\ IsList(text)
            /\ HandledAs(r, r.files[n]) = "code" =>
                 IsPython(text) \/ \E i \in DOMAIN text : text[i].kind = "broken"

ResultOf(r, file, read) ==
  IF r.entry = "git" /\ ~read
  THEN Unhandled
  ELSE HandleAs(HandledAs(r, file), file, NamedPath(r, file), read)

NothingHandled ==
  /\ handled = 0
  /\ answers = <<>>
  /\ jobs = [id \in {} |-> {}]
  /\ stuck = FALSE

FilesInit == request \in FileRequests /\ NothingHandled

NextFile == request.files[handled + 1]
FilesLeft == handled < Len(request.files) /\ ~stuck

JobRecord(file, result) ==
  [status |-> IF result.outcome = "fine" THEN "COMPLETED" ELSE "FAILED",
   chunks |-> result.chunks, file |-> file]

AnswerOf(id, status) == [id |-> id, status |-> status]

\* The job of a file is stored with what its handler makes of it.
StoreJob(file, id, result) ==
  /\ result.outcome # "stuck"
  /\ jobs' = [i \in DOMAIN jobs \cup {id} |-> IF i = id THEN JobRecord(file, result) ELSE jobs[i]]
  /\ answers' = Append(answers, AnswerOf(id, JobRecord(file, result).status))

\* Files are handled one by one, as nothing waits.  read: can the repository be cloned,
\* or the document be read?
HandleFile ==
  /\ FilesLeft
  /\ \E read \in BOOLEAN :
       StoreJob(NextFile, JobId(request.entry, NextFile), ResultOf(request, NextFile, read))
  /\ handled' = handled + 1
  /\ UNCHANGED <<request, stuck>>

\* A path that is not there, or that cannot be read, is an answer without a job.
MissFile ==
  /\ FilesLeft
  /\ request.entry = "filesystem"
  /\ handled' = handled + 1
  /\ answers' = Append(answers, AnswerOf(<<"path", NextFile.source>>, "error"))
  /\ UNCHANGED <<request, jobs, stuck>>

\* An archive that cannot be read on has one answer; the jobs stay.
BreakArchive ==
  /\ FilesLeft
  /\ request.entry = "zip"
  /\ handled' = Len(request.files)
  /\ answers' = <<AnswerOf(<<>>, "error")>>
  /\ UNCHANGED <<request, jobs, stuck>>

\* The chunker never returns.
KeepTheLoop ==
  /\ FilesLeft
  /\ ResultOf(request, NextFile, TRUE).outcome = "stuck"
  /\ stuck' = TRUE
  /\ UNCHANGED <<request, handled, answers, jobs>>

FilesNext == HandleFile \/ MissFile \/ BreakArchive \/ KeepTheLoop

-----------------------------------------------------------------------------
(* Property *)

\* What the chunkers can split: sentences that leave the overlap behind; and sections
\* that need no splitting.
Splittable(type, text) ==
  CASE type = "markdown" ->
         \A k \in DOMAIN Sections(text) : Cardinality(Sections(text)[k]) <= ChunkSize
    [] type = "sentences" ->
         \A i \in DOMAIN text, j \in DOMAIN text :
           j - i + 1 >= ChunkSize - ChunkOverlap - 1 => \E k \in i .. j : text[k] = "end"
    [] OTHER -> TRUE

\* The lines that parsers find, by the suffix of the file; of others, every line is kept.
FoundIn ==
  [path \in {"py", "rs", "kt", "js", "ts", "tsx", "java", "cs", "pom", "gradle", "istio"} |->
     CASE path \in {"py", "rs"} -> {"class", "def"}
       [] path = "kt" -> {"class", "interface", "def"}
       [] path = "js" -> {"class", "binding", "hook", "arrow"}
       [] path = "ts" -> {"class", "binding", "hook", "arrow", "interface"}
       [] path = "tsx" -> {"class", "binding", "hook", "arrow", "interface", "component"}
       [] path \in {"java", "cs"} -> {"class", "interface"}
       [] path = "pom" -> {"dependency", "plugin"}
       [] path = "gradle" -> {"task", "apply"}
       [] path = "istio" -> {"kind"}]

\* The units that must be found again.
Matters(type, file) ==
  LET text == file.text
      only(kinds) == {i \in DOMAIN text : text[i] \in kinds}
      but(kinds) == {i \in DOMAIN text : text[i] \notin kinds}
      lines(kinds) == {i \in DOMAIN text : text[i].kind \in kinds}
  IN CASE type \in {"html", "xml", "asciidoc", "rst"} -> but(Markup(type))
       [] type = "markdown" -> but(Headings \cup {"blank"})
       [] type \in {"k8s", "helm", "dockerfile", "istio"} ->
            IF IsChart(file.path) THEN only({"chart"})
            ELSE IF file.path = "dockerfile" THEN but({"blank", "comment", "continued"})
            ELSE but({"blank", "---"})
       [] type = "graphql" -> only({"type", "operation", "schema"})
       [] type = "grpc_proto" -> only({"service", "message"})
       [] type = "code" ->
            IF lines({"broken"}) = {} THEN lines({"def", "class", "decorator"})
            ELSE lines({"def", "class"})
       [] type = "source_code" ->
            IF file.path \in DOMAIN FoundIn THEN lines(FoundIn[file.path]) ELSE DOMAIN text
       [] type \in {"image", "bpmn", "sap_mta", "sap_cds", "sap_cap", "sap_xsuaa"} -> {}
       [] OTHER -> but({"blank"})

AccountsFor(chunks, units) ==
  /\ \A i, j \in DOMAIN chunks :
       /\ i < j => chunks[i].index < chunks[j].index
       /\ i # j /\ chunks[i].id = chunks[j].id => chunks[i].id = <<"entity", chunks[j].name>>
  /\ units \subseteq UNION {chunks[k].units : k \in DOMAIN chunks}

\* A job that is reported as completed has chunks with ids of their own - unless they
\* are entities of one name - in the order of their places, and what there is to find
\* in the text is in one of them; and only sentences or sections longer than the chunkers
\* can split keep a request from its end.  (unified_ingestion/handlers, ingestion/*chunker.py)
ChunksAccountForText ==
  /\ \A id \in DOMAIN jobs :
       LET file == jobs[id].file
           type == HandledAs(request, file)
       IN jobs[id].status = "COMPLETED" /\ Splittable(type, file.text)
            => AccountsFor(jobs[id].chunks, Matters(type, file))
  /\ stuck => ~Splittable(HandledAs(request, NextFile), NextFile.text)
=============================================================================
