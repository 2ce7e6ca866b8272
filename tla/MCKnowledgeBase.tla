--------------------------- MODULE MCKnowledgeBase ---------------------------
(***************************************************************************)
(* How knowledge gets into the system besides the ingestion pipeline, and  *)
(* what asks for it there: the outside sources, the documents, the         *)
(* indexers, calls of tools, queries to the code graph, what is put into   *)
(* that, and advice on platforms.  They share no state, so a behaviour is  *)
(* one of them: Init picks which.                                          *)
(*                                                                         *)
(* Of the outside sources, two are asked for by one job each, from three   *)
(* jobs for GitHub - of which one names owner and repo, one the repo, one  *)
(* neither - two for Reddit, and one for each other source, or by one of   *)
(* two calls of ingest_all, for all sources without and for three with     *)
(* content.  Two documents have up to three versions.  A call of each of   *)
(* the three kinds of indexing has batches of two, and any two overlap.    *)
(*                                                                         *)
(* Every tool is called with arguments of each kind, by the registry and   *)
(* by the executor; and in a batch of two, the first of which is unknown,  *)
(* raises, or has fallen back.                                             *)
(*                                                                         *)
(* Of two queries, for one process at a time, each is of any method.       *)
(*                                                                         *)
(* Requests for advice are for every platform, and trigger no pattern,     *)
(* general ones, or such as a search has put into the library.             *)
(*                                                                         *)
(* A search is of every way that the classifier knows, forced, or one of   *)
(* the enhanced ones.  A file is of every kind, given to every handler and *)
(* chunker, and a diagram of every format, with names that agree or not.   *)
(***************************************************************************)
EXTENDS SourceJobs, Documents, Indexers, Tools, CodeGraph, GraphPages, PlatformAdvice,
  HybridSearch, Handlers, Diagrams

CONSTANTS
  gh1, gh2, gh3, rd1, rd2,                         \* GitHub and Reddit
  jr1, pr1, es1, lk1, so1, fm1, no1,               \* tickets, telemetry, knowledge
  cd1, gd1, ld1, rj1, rc1, rl1,                    \* diagrams, requirements
  all, some,
  w1, w2, w3,
  p1, p2,
  v1, a1, c1

MCSourceKind ==
  [j \in {gh1, gh2, gh3, rd1, rd2, jr1, pr1, es1, lk1, so1, fm1, no1, cd1, gd1, ld1, rj1, rc1, rl1} |->
     CASE j \in {gh1, gh2, gh3} -> "github" [] j \in {rd1, rd2} -> "reddit"
       [] j = jr1 -> "jira" [] j = pr1 -> "prometheus" [] j = es1 -> "elasticsearch"
       [] j = lk1 -> "loki" [] j = so1 -> "stackoverflow" [] j \in {fm1, no1} -> "forum"
       [] j = cd1 -> "confluence_diagrams" [] j = gd1 -> "github_diagrams"
       [] j = ld1 -> "local_diagrams" [] j = rj1 -> "jira_requirements"
       [] j = rc1 -> "confluence_requirements" [] j = rl1 -> "local_requirements"]
MCSourceJobs == DOMAIN MCSourceKind
MCRepoOf ==
  [j \in MCSourceJobs |-> CASE j = gh1 -> [owner |-> "one", repo |-> "one"]
                            [] j = gh2 -> [owner |-> "", repo |-> "two"]
                            [] OTHER -> [owner |-> "", repo |-> ""]]
MCEnvRepo == [owner |-> "env", repo |-> ""]
MCConfigured ==
  {"stackoverflow", "reddit", "confluence_diagrams", "github_diagrams", "jira_requirements",
   "confluence_requirements"}
MCIngests == {all, some}
MCSourcesOf ==
  [i \in MCIngests |->
     IF i = all
     THEN <<"git", "documents", "tickets", "telemetry", "knowledge_base", "architecture",
            "requirements">>
     ELSE <<"requirements", "documents", "tickets">>]

MCChildrenOf == [p \in {w1} |-> {w2}]

MCChunksOf == [c \in {v1} |-> <<"x", "y", "z">>]
MCComponents ==
  [c \in {a1} |->
     [nodes |-> <<[id |-> "a", type |-> "allowed"], [id |-> "b", type |-> "allowed"],
                  [id |-> "c", type |-> "missing"]>>,
      edges |-> <<[from |-> "a", to |-> "b", type |-> "allowed"],
                  [from |-> "a", to |-> "c", type |-> "other"]>>]]
MCEntitiesOf ==
  [c \in {c1} |-> <<[id |-> "a", type |-> "allowed", file |-> "f", refs |-> <<"b">>],
                   [id |-> "b", type |-> "other", file |-> NoFile, refs |-> <<>>]>>]

MCTool ==
   {"security_validate", "cost_estimate", "search", "hybrid_search", "rerank",
    "chain_reasoning", "entity_reasoning", "iterative_reasoning", "query_graph",
    "entity_search", "ingest_source", "get_job_status", "kubernetes_search",
    "helm_search", "dockerfile_search", "graphql_search", "istio_search",
    "find_callers", "find_callees", "find_dead_code", "get_complexity",
    "class_hierarchy", "get_module_deps", "extract_from_image", "analyze_visual",
    "parse_document_advanced", "colpal_search", "ui_sketch_search",
    "ui_suggest_implementation", "idea_generate", "brainstorm",
    "technology_recommend", "pattern_find", "user_story_generate",
    "acceptance_criteria_generate", "requirements_validate", "gap_analyze",
    "requirements_import", "test_generate", "test_execute", "coverage_analyze",
    "property_test", "contract_test", "mutation_test", "cicd_pipeline_generate",
    "deployment_generate", "helm_chart_generate", "terraform_generate",
    "docker_compose_generate", "deployment_validate", "metrics_collect",
    "log_aggregate", "alert_manager", "dashboard_generate", "tracing_collect",
    "slo_track", "anomaly_detect", "feedback_ingest", "sentiment_analyze",
    "trend_analyze", "feature_track", "churn_predict", "autoscale",
    "update_orchestrate", "incident_detect", "root_cause_analyze", "runbook_generate",
    "backup_manage", "capacity_plan"}

MCCall(tool, given, via) == [tool |-> tool, given |-> given, via |-> via]
MCBatches ==
  {<<MCCall(tool, given, via)>> : tool \in MCTool, given \in Given,
                                  via \in {"registry", "executor"}}
  \union {<<MCCall(first, "unusable", "registry"), MCCall("autoscale", "fine", "registry")>> :
           first \in {"unregistered", "gap_analyze", "test_generate"}}

MCQuery(op, word) == [op |-> op, word |-> word]
MCQueryBy(op, method, word) == [op |-> op, method |-> method, word |-> word]
MCQueries ==
  [c \in {"f", "g"} |->
    {MCQuery(op, c) :
      op \in {"get_overrides", "get_dead_code", "get_most_complex_functions", "watch_directory",
              "add_code_to_graph", "switch_context", "discover_contexts", "list_repositories",
              "load_bundle", "search_registry_bundles", "add_package_to_graph",
              "execute_cypher", "visualize"}}
    \union {MCQueryBy("search", method, c) :
             method \in {"", "find_callers", "find_callees", "dead_code", "complexity",
                         "class_hierarchy", "module_deps", "call_chain"}}
    \union {MCQueryBy("execute_query", method, c) :
             method \in {"dead_code", "find_callers", "find_callees", "find_all_callers",
                         "find_all_callees", "find_importers", "other"}}
    \union {MCQueryBy("search", "", "two words"), MCQuery("execute_cypher", "set")}]

MCRequest(words, platform, detect) ==
  [words |-> words, platform |-> platform, detect |-> detect]
MCAdviceRequests ==
  {MCRequest({"lambda", "kubernetes"}, "gcp", FALSE), MCRequest({"lambda"}, "aws", FALSE),
   MCRequest({"lambda", "api", "auth", "hana"}, "aws", TRUE),
   MCRequest({"service", "kubernetes", "ui"}, "sap", TRUE),
   MCRequest({"service", "kubernetes", "ui"}, "platformv", FALSE),
   MCRequest({"event", "scale"}, "powerplatform", TRUE), MCRequest({"saas"}, "sap", FALSE),
   MCRequest({}, "azure", FALSE)}
MCSearches == {<<"azure", "sap">>, <<"gcp", "tanzu">>}

MCHybridCall(intents) ==
  [intents |-> intents, names |-> TRUE, tooling |-> <<"kubernetes", "helm">>, forced |-> FALSE,
   enhanced |-> FALSE, entities |-> TRUE]
MCNestedIntents == {<<"tooling">>, <<"fact">>}
MCHybridCalls ==
  {MCHybridCall(is) : is \in {<<"fact">>, <<"relationship">>, <<"fact", "causal">>, <<"list">>,
                              <<"documentation">>, <<"fact", "code">>, <<"tooling">>}}
  \union {[MCHybridCall(<<"fact">>) EXCEPT !.forced = TRUE, !.names = FALSE]}
  \union {[MCHybridCall(<<"list">>) EXCEPT !.enhanced = TRUE, !.names = n, !.entities = e] :
            n \in BOOLEAN, e \in BOOLEAN}

MCTexts(kinds, length) == UNION {[1 .. n -> kinds] : n \in 0 .. length}
MCFile(type, path, text) ==
  [source |-> "s", base |-> "b", type |-> type, path |-> path, mime |-> "", content |-> "utf8",
   text |-> text]
MCFilesOf(types, paths, texts) ==
  {MCFile(type, path, text) : type \in types, path \in paths, text \in texts}
MCProse ==
  MCFilesOf({"text", "properties"}, {""}, MCTexts({"words", "blank"}, 6))
    \cup MCFilesOf({"html"}, {""}, MCTexts({"words", "markup", "blank"}, 4))
    \cup MCFilesOf({"rst"}, {""}, MCTexts({"words", "directive", "markup"}, 4))
    \cup MCFilesOf({"document"}, {"pdf", "docx"}, MCTexts({"words"}, 7))
    \cup MCFilesOf({"markdown"}, {"md"},
                   MCTexts({"h1", "end", "words"}, 7) \cup MCTexts({"h2", "code", "blank"}, 4))
MCKubernetes ==
  MCFilesOf({"k8s", "istio"}, {"yaml", ""}, MCTexts({"words", "blank", "---"}, 4))
    \cup MCFilesOf({"k8s"}, {"yaml"}, MCTexts({"words", "null", "istio"}, 2))
    \cup MCFilesOf({"helm"}, {"chart", "values"}, MCTexts({"chart", "list", "broken", "words"}, 3))
    \cup MCFilesOf({"dockerfile"}, {"dockerfile"},
                   MCTexts({"from", "run", "continued", "comment"}, 4))
MCStructured ==
  MCFilesOf({"graphql"}, {""}, MCTexts({"type", "operation", "schema", "words"}, 3))
    \cup MCFilesOf({"grpc_proto"}, {""}, MCTexts({"service", "message", "closes", "words"}, 4))
    \cup MCFilesOf({"diagram", "openapi", "template", "image", "other"}, {""},
                   MCTexts({"plantuml", "words"}, 2))
    \cup MCFilesOf({"bpmn"}, {"bpmn", "xml"}, MCTexts({"bpmn", "process", "broken"}, 3))
    \cup MCFilesOf({"config"}, {"json", "yaml", "toml", "env", ""},
                   MCTexts({"object", "mapping", "words"}, 2))
    \cup MCFilesOf({"sap_mta", "sap_cds", "sap_cap"}, {""}, MCTexts({"object", "mapping"}, 2))

MCLines(kinds, depths) == {Line(kind, "n", depth) : kind \in kinds, depth \in depths}
\* What Python accepts: a definition has a body, a decorator something to decorate.
MCWellFormed(lines) ==
  /\ lines # <<>> => lines[1].depth = 0 /\ ~Defines(lines[Len(lines)])
                     /\ lines[Len(lines)].kind # "decorator"
  /\ \A i \in 1 .. Len(lines) - 1 :
       /\ lines[i + 1].depth > lines[i].depth <=> Defines(lines[i])
       /\ lines[i].kind = "decorator" =>
            /\ Defines(lines[i + 1]) \/ lines[i + 1].kind = "decorator"
            /\ lines[i + 1].depth = lines[i].depth
MCPython ==
  MCTexts({Line("def", "f", 0), Line("decorator", "", 0), Line("words", "", 0),
           Line("def", "m", 1), Line("decorator", "", 1), Line("words", "", 1),
           Line("words", "", 2)}, 5)
MCSpaced ==
  LET above == Line("decorator", "", 0)
      blank == Line("blank", "", 0)
      function == <<Line("def", "f", 0), Line("words", "", 1)>>
  IN {<<blank, above, blank>> \o function, <<above, blank, above>> \o function,
      <<blank>> \o function}
MCBroken == MCTexts(MCLines({"def", "blank", "words", "decorator"}, {0}), 4)
MCSource ==
  MCFilesOf({"source_code"}, {"py", "rs", "java", "cs", "kt", "rb"},
            MCTexts(MCLines({"class", "interface", "def", "words"}, {0}), 3))
    \cup MCFilesOf({"source_code"}, {"js", "ts", "tsx"},
                   MCTexts(MCLines({"class", "binding", "hook", "arrow", "component"}, {0}), 2))
    \cup MCFilesOf({"source_code"}, {"go", "istio"},
                   MCTexts(MCLines({"opens", "closes", "def", "kind"}, {0}), 2))
    \cup MCFilesOf({"source_code"}, {"pom", "gradle"},
                   MCTexts(MCLines({"broken", "project", "dependency", "plugin", "plugins",
                                    "dependencies", "closes", "task", "apply"}, {0}), 2))
MCAttachments ==
  {[MCFile("confluence", path, text) EXCEPT !.mime = mime] :
     path \in {"puml", "bpmn", "json", ""}, mime \in {"image", "html", ""},
     text \in MCTexts({"words", "plantuml"}, 2)}
    \cup MCFilesOf({"confluence"}, {"py", "rb"}, MCTexts(MCLines({"class", "words"}, {0}), 2))
MCDocuments ==
  MCFilesOf({"document"}, {""}, MCTexts({"words", "end"}, 9))
    \cup MCFilesOf({"code"}, {""},
                   {t \in MCPython : MCWellFormed(t)} \cup MCSpaced
                     \cup {Append(t, Line("broken", "", 0)) : t \in MCBroken})

MCFileRequest(entry, named, files) == [entry |-> entry, named |-> named, files |-> files]
MCGiven(file, content) == [file EXCEPT !.content = content]
MCTwoLines == <<Line("class", "n", 0), Line("words", "", 1)>>
MCSeveral ==
  LET prose(name, type, path) == [MCFile(type, path, <<"words", "end">>) EXCEPT !.source = name]
      source(name) == [MCFile("text", "py", MCTwoLines) EXCEPT !.source = name]
  IN {MCFileRequest("batch", FALSE,
                    <<MCGiven(prose("a", type, ""), "string"), prose("b", type, "")>>) :
        type \in {"text", "html", "image", "grpc_proto", "sap_cap", "sap_cds", "config", "markdown",
                  "k8s", "diagram", "bpmn", "graphql", "document"}}
     \cup {MCFileRequest("zip", FALSE,
                         <<source("a"), prose("b", "text", "md"), prose("c", "text", "json"),
                           prose("d", "text", "yml"), prose("e", "text", "proto"),
                           MCGiven(prose("f", "text", "bin"), "binary")>>)}
     \cup {MCFileRequest("filesystem", FALSE,
                         <<source("a"), source("b"), prose("c", "text", "yaml"),
                           prose("d", "text", "txt")>>)}
     \cup {MCFileRequest("git", FALSE, <<>>)}
     \cup {MCFileRequest("git", FALSE, <<MCGiven(prose("a", type, ""), content)>>) :
             type \in {"text", "html"}, content \in {"utf8", "binary"}}
MCFileRequests ==
  {MCFileRequest("ingest", named, <<file>>) : named \in {TRUE}, file \in MCProse \cup MCKubernetes \cup MCStructured \cup MCSource \cup MCAttachments}
    \cup {MCFileRequest("ingest", FALSE, <<MCFile(type, "", <<"object">>)>>) : type \in {"k8s", "config", "document"}}
    \cup {MCFileRequest("pipeline", FALSE, <<file>>) : file \in MCDocuments}
    \cup MCSeveral

MCWord(is, a) == [is |-> is, a |-> a]
MCPlain(is) == [is |-> is]
MCLink(a, boxed, arrow, b, label) ==
  [is |-> "link", a |-> a, boxed |-> boxed, arrow |-> arrow, b |-> b, label |-> label]
MCText(head, lines) == [form |-> "text", head |-> head, lines |-> lines]
MCLinks(boxed, arrows, labels) ==
  {MCLink(a, b, arrow, "b", label) : a \in {"a", "A"}, b \in boxed, arrow \in arrows, label \in labels}
MCBlockOf(line) == <<MCPlain("divider"), line, MCPlain("blank")>>
MCBlock(name) == MCBlockOf(MCWord("word", name))
MCSequenceLinks == MCLinks({FALSE}, {"->", "-->", "->>", "--"}, {""})
MCPlantUML ==
  {MCText("@startuml", before \o between \o after) :
     before \in {<<>>, MCBlock("a"), MCBlock("a") \o MCBlock("b"), MCBlock("b") \o MCBlock("A"),
               MCBlockOf(MCWord("box", "a")) \o MCBlock("b")},
     between \in MCTexts({MCPlain("blank"), MCPlain("divider"), MCWord("word", "b")}, 2),
     after \in MCTexts({MCWord("participant", "b"), MCWord("box", "a"),
                        MCLink("a", TRUE, "->", "b", "")} \cup MCSequenceLinks, 2)}
MCParticipants ==
  {MCText("@startuml", <<MCWord("participant", "a"), MCWord("participant", "b"),
                         MCLink("a", FALSE, "->", "b", "l")>>)}
MCMermaid ==
  {MCText("classDiagram", text) :
     text \in MCTexts({MCWord("class", "a"), MCWord("class", "b"), MCWord("word", "a")}
                        \cup MCLinks({FALSE}, {"<|--", "*--"}, {"", "a"}), 3)}
    \cup {MCText("sequenceDiagram", text) :
            text \in MCTexts({MCWord("participant", "a"), MCWord("participant", "b")}
                               \cup MCSequenceLinks, 3)}
    \cup {MCText(head, text) :
            head \in {"flowchart", "classdiagram", "stateDiagram"},
            text \in MCTexts({MCWord("box", "A"), MCWord("box", "b"),
                              MCLink("a", FALSE, "-->", "b", "l"), MCLink("b", FALSE, "-->>", "b", ""),
                              MCLink("a", FALSE, "->", "b", "")}
                               \cup MCLinks(BOOLEAN, {"-->"}, {""}), 3)}
MCCell(edge, placed) ==
  [id |-> <<"c">>, value |-> <<>>, edge |-> edge, from |-> <<"c">>, to |-> <<"d">>, placed |-> placed]
MCDrawIO ==
  {[form |-> "drawio", root |-> root, models |-> models] :
     root \in BOOLEAN,
     models \in MCTexts({<<>>} \cup {<<MCCell(edge, placed)>> : edge \in BOOLEAN, placed \in BOOLEAN}, 3)}
MCSpecs ==
  {[form |-> "openapi", json |-> json, sound |-> sound, servers |-> servers] :
     json \in BOOLEAN, sound \in BOOLEAN, servers \in MCTexts({<<"s">>}, 2)}
    \cup {[form |-> "bpmn", processes |-> n] : n \in 0 .. 1}
    \cup {[form |-> form] : form \in {"image", "none"}}
MCEnriching(d, enrich) ==
  [f \in DOMAIN d \cup {"enrich"} |-> IF f = "enrich" THEN enrich ELSE d[f]]
MCDrawings ==
  {MCEnriching(d, FALSE) : d \in MCPlantUML \cup MCParticipants \cup MCMermaid \cup MCDrawIO \cup MCSpecs}
    \cup {MCEnriching(d, TRUE) :
            d \in MCDrawIO \cup MCSpecs \cup {t \in MCMermaid : Len(t.lines) = 3 /\ t.head = "flowchart"}}
MCLowerOf == [w \in {"A"} |-> "a"]
MCVisions ==
  {[odd |-> FALSE, entities |-> es, relations |-> rs] :
     es \in MCTexts({<<"a">>, <<"b">>}, 2),
     rs \in MCTexts({[from |-> <<"a">>, to |-> <<"b">>], [from |-> <<"b">>, to |-> <<"c">>]}, 2)}
    \cup {[odd |-> TRUE, entities |-> <<>>, relations |-> <<>>]}

VARIABLE service

CONSTANT MaxAsked   \* bound: the jobs asked for one by one, and the calls

Asked ==
  Cardinality({j \in SourceJobs : stage[j] # "new"} \cup {i \in Ingests : turn[i] > 0})

MCInit ==
  /\ SourceInit /\ DocumentsInit /\ IndexInit /\ CodeGraphInit /\ PagesInit
  /\ waits = "nothing" /\ heard = <<>> /\ outputs = <<>>
  /\ service \in {"sources", "documents", "indexers", "tools", "queries", "pages", "advice", "search",
                  "files", "diagrams"}
  /\ IF service = "files" THEN FilesInit
     ELSE request = MCFileRequest("git", FALSE, <<>>) /\ NothingHandled
  /\ IF service = "tools" THEN batch \in Batches ELSE batch = <<>>
  /\ AdviceInit /\ HybridInit
  /\ IF service = "diagrams" THEN DiagramsInit
     ELSE drawing = MCEnriching([form |-> "none"], FALSE) /\ drawn = "asked" /\ diagram = NoDiagram
  /\ service # "advice" => rules["aws"].form = "sound" /\ catalogs["azure"] = "listed"

vars ==
  <<service, sourceVars, documentVars, indexVars, toolsVars, codeGraphVars, pagesVars,
    adviceVars, hybridVars, fileVars, diagramVars>>

Rests(s, its) == IF service = s THEN TRUE ELSE UNCHANGED its

MCNext ==
  /\ UNCHANGED service
  /\ \/ service = "sources" /\ SourceNext
     \/ service = "documents" /\ DocumentsNext
     \/ service = "indexers" /\ IndexNext
     \/ service = "tools" /\ ToolsNext
     \/ service = "queries" /\ CodeGraphNext
     \/ service = "pages" /\ PagesNext
     \/ service = "advice" /\ AdviceNext
     \/ service = "search" /\ HybridNext
     \/ service = "files" /\ FilesNext
     \/ service = "diagrams" /\ DiagramsNext
  /\ Rests("sources", sourceVars) /\ Rests("documents", documentVars)
  /\ Rests("indexers", indexVars) /\ Rests("tools", toolsVars)
  /\ Rests("queries", codeGraphVars) /\ Rests("pages", pagesVars)
  /\ Rests("advice", adviceVars) /\ Rests("search", hybridVars)
  /\ Rests("files", fileVars) /\ Rests("diagrams", diagramVars)
  /\ Asked' <= MaxAsked

MCSpec == MCInit /\ [][MCNext]_vars
=============================================================================
