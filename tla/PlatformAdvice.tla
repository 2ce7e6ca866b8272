---------------------------- MODULE PlatformAdvice ----------------------------
(***************************************************************************)
(* Advice on platforms (core/adapters, core/constraints, core/patterns,    *)
(* core/knowledge, core/pipeline.py, retrieval/knowledge.py): the state of *)
(* one worker that requests to /adapter/query and /knowledge/query and     *)
(* searches of the knowledge retriever build up for each other - registry, *)
(* caches of the configuration files, limits, pattern library, knowledge   *)
(* graph - while somebody edits the files.                                 *)
(*                                                                         *)
(* No request waits for anything, so that each is one step.                *)
(*                                                                         *)
(* A file that somebody edits may be no YAML (unreadable: the loader raises *)
(* and keeps nothing), or YAML that is not what its readers expect: these  *)
(* raise, and the loader has it for good.                                  *)
(*                                                                         *)
(* Of the patterns there are those that some request triggers, and of the  *)
(* services one of each platform and one that two of them have.  Left out: *)
(* texts, confidence, and the nodes the knowledge graph starts with.       *)
(***************************************************************************)
EXTENDS Integers, Sequences, FiniteSets, SequencesExt

CONSTANTS
  AdviceRequests,   \* requests to /adapter/query: [words, platform, detect]
  Searches,         \* the platforms that a search mentions, in order
  EditedCatalogs,   \* bound: the platforms whose services are edited,
  EditedRules,      \* those whose constraints are,
  MaxEdits          \* and how often

Words ==
  {"event", "auth", "hana", "api", "ui", "service", "lambda", "kubernetes", "scale", "saas"}

ASSUME AdviceAssumption ==
  /\ \A r \in AdviceRequests :
       r.words \subseteq Words /\ r.platform \in STRING /\ r.detect \in BOOLEAN
  /\ MaxEdits \in Nat

\* The order in which they register.
AdapterOrder == <<"sap", "tanzu", "powerplatform", "platformv", "aws", "azure", "gcp">>
Adapters == ToSet(AdapterOrder)
Clouds == {"aws", "azure", "gcp"}

VARIABLES
  catalogs,     \* the form of services.yaml of each platform
  rules,        \* the edition and form of constraints.yaml of each cloud
  edits,        \* how often they were edited
  catalogsRead, \* the form of the services the loader has, absent if none
  rulesRead,    \* and the edition and form of the rules
  registered,   \* the registry, empty before it is made
  graph,        \* the knowledge graph: the owner of each service, PROVIDES
  engine,       \* is the constraint engine made?
  limitsDone,   \* _aws_registered
  limits,       \* the edition the limits of AWS come from, and is it all of them?
  learned,      \* the platforms whose patterns the library has
  advice        \* what the last request or search gave

adviceVars ==
  <<catalogs, rules, edits, catalogsRead, rulesRead, registered, graph, engine,
    limitsDone, limits, learned, advice>>

NoAdvice ==
  [outcome |-> "none", platform |-> "none", features |-> {}, files |-> {}, violations |-> {},
   first |-> "none", others |-> {}]

Services == Adapters \cup {"iam"}

\* A malformed catalog has something else than services by category.
CatalogForms == {"absent", "empty", "listed", "malformed", "unreadable"}

\* Rules without a mapping of constraints, with one entry that is no mapping,
\* or with combinations of services that are none.
RuleForms ==
  {"absent", "empty", "sound", "no_mapping", "bad_entry", "bad_combination", "unreadable"}
Edition(n, form) == [edition |-> n, form |-> form]
NoLimits == [edition |-> 0, whole |-> FALSE]

AdviceInit ==
  /\ catalogs \in [Adapters -> {"absent", "listed"}]
  /\ \A p \in Adapters \ EditedCatalogs : catalogs[p] = "listed"
  /\ rules \in [Clouds -> {Edition(0, "absent"), Edition(0, "sound")}]
  /\ \A p \in Clouds \ EditedRules : rules[p] = Edition(0, "sound")
  /\ edits = 0
  /\ catalogsRead = [p \in Adapters |-> "absent"]
  /\ rulesRead = [p \in Clouds |-> Edition(0, "absent")]
  /\ registered = <<>>
  /\ graph = [owner |-> [s \in Services |-> "none"], provides |-> {}]
  /\ engine = FALSE
  /\ limitsDone = FALSE
  /\ limits = NoLimits
  /\ learned = {}
  /\ advice = NoAdvice

-----------------------------------------------------------------------------
(* AdapterConfigLoader *)

\* What is loaded: the file, unless there is something that was read before.
CatalogOf(p) == IF catalogsRead[p] # "absent" THEN catalogsRead[p] ELSE catalogs[p]

\* A platform without a file has the services its adapter is written with.
Catalog(p) ==
  {p} \cup IF p = "aws" \/ (p = "gcp" /\ CatalogOf(p) = "listed") THEN {"iam"} ELSE {}
CatalogFails(p) == CatalogOf(p) \in {"malformed", "unreadable"}

ReadCatalogs(ps) ==
  catalogsRead' = [p \in Adapters |->
    IF p \in ps /\ CatalogOf(p) # "unreadable" THEN CatalogOf(p) ELSE catalogsRead[p]]

ReadRules(known, p) ==
  IF known[p].form = "absent" /\ rules[p].form \notin {"absent", "unreadable"}
  THEN [known EXCEPT ![p] = rules[p]] ELSE known

-----------------------------------------------------------------------------
(* AdapterRegistry *)

Register(known, p) ==
  [owner |-> [s \in Services |-> IF s \in Catalog(p) THEN p ELSE known.owner[s]],
   provides |-> known.provides \cup {p} \X Catalog(p)]

\* The registry that a call gets, or leaves behind: it is there before the
\* adapters are, and an adapter is in it before its services are read.
FirstFailing ==
  {n \in DOMAIN AdapterOrder : /\ CatalogFails(AdapterOrder[n])
                               /\ \A m \in 1..(n - 1) : ~CatalogFails(AdapterOrder[m])}
Booting == registered = <<>>
BootFails == Booting /\ FirstFailing # {}
Registry ==
  IF ~Booting THEN registered
  ELSE IF FirstFailing = {} THEN AdapterOrder
  ELSE SubSeq(AdapterOrder, 1, CHOOSE n \in FirstFailing : TRUE)

EnsureRegistry ==
  /\ registered' = Registry
  /\ graph' = IF Booting THEN FoldLeft(Register, graph, SelectSeq(Registry, LAMBDA p : ~CatalogFails(p)))
              ELSE graph
Boots == IF Booting THEN ToSet(Registry) ELSE {}

-----------------------------------------------------------------------------
(* ConstraintEngine *)

\* What of these rules is registered: the sets before an entry that raises.
LimitsOf(read) ==
  CASE read.form \in {"sound", "bad_combination"} -> [edition |-> read.edition, whole |-> TRUE]
    [] read.form = "bad_entry" -> [edition |-> read.edition, whole |-> FALSE]
    [] OTHER -> limits

\* Mutant: done, with or without a file.
DoneAnyway(known) ==
  IF limitsDone THEN UNCHANGED <<limitsDone, limits>>
  ELSE limitsDone' = TRUE /\ limits' = LimitsOf(known["aws"])

\* register_aws_constraints, from what the loader knows.  Whoever calls it
\* catches what it raises, and it will try again.
RegisterLimits(known) ==
  IF limitsDone THEN UNCHANGED <<limitsDone, limits>>
  ELSE /\ limitsDone' = (known["aws"].form \in {"sound", "bad_combination"})
       /\ limits' = LimitsOf(known["aws"])

\* What evaluate finds: an error unless the feature is there, or a warning.
\* The limits of AWS are on features nobody extracts.
RequiredOf ==
  [sap |-> {"auth", "encryption"}, powerplatform |-> {"database"}, tanzu |-> {},
   platformv |-> {}, aws |-> {}, azure |-> {}, gcp |-> {}]
AdvisedOf == [p \in Adapters |-> IF p = "tanzu" THEN {"auth", "scalability"} ELSE {}]
Violations(p, features) ==
  {[severity |-> "error", feature |-> f] : f \in RequiredOf[p] \ features}
  \cup {[severity |-> "warning", feature |-> f] : f \in AdvisedOf[p] \ features}

\* Two services that exclude each other; for AWS, what the features name
\* never meets a condition.  Rules in which it cannot look raise, as does what
\* comes after it.
Incompatible(p, features, known) ==
  IF /\ p \in {"azure", "gcp"} /\ known[p].form \in {"sound", "bad_entry"}
     /\ {"serverless", "container"} \subseteq features
  THEN {[severity |-> "error", feature |-> "container"]} ELSE {}

-----------------------------------------------------------------------------
(* PatternLibrary and PatternMatcher *)

General == {"event_driven", "microservices", "serverless", "api_first", "multi_tenant"}
SapPatterns == {"sap_kyma"}
TanzuPatterns == {"tanzu_knative", "tanzu_microservices"}
PowerPlatformPatterns == {}
PatternsOf(p) ==
  CASE p = "sap" -> SapPatterns
    [] p = "tanzu" -> TanzuPatterns
    [] p = "powerplatform" -> PowerPlatformPatterns
    [] OTHER -> {}
Library == General \cup UNION {PatternsOf(p) : p \in learned}

TriggersOf ==
  [event_driven |-> {"async", "event_driven"}, microservices |-> {}, serverless |-> {"serverless"},
   api_first |-> {"api"}, multi_tenant |-> {}, sap_kyma |-> {"serverless"},
   tanzu_knative |-> {"serverless"}, tanzu_microservices |-> {"microservices"}]
ConditionsOf ==
  [event_driven |-> {"async", "event_driven"}, microservices |-> {"microservices"},
   serverless |-> {"serverless"}, api_first |-> {"api"}, multi_tenant |-> {"multi_tenant"},
   sap_kyma |-> {}, tanzu_knative |-> {}, tanzu_microservices |-> {}]
PriorityOf ==
  [event_driven |-> 8, microservices |-> 9, serverless |-> 7, api_first |-> 9,
   multi_tenant |-> 8, sap_kyma |-> 8, tanzu_knative |-> 9, tanzu_microservices |-> 8]

Fits(m, features) == ConditionsOf[m] \cap features # {}

TriggeredIn(patterns, features) == {m \in patterns : TriggersOf[m] \cap features # {}}

\* The first five patterns are the general ones.
CandidatesIn(patterns, features) ==
  IF TriggeredIn(patterns, features) = {} THEN General ELSE TriggeredIn(patterns, features)
Candidates(features) == CandidatesIn(Library, features)

\* Mutant: conditions do not count.
ByPriority(m, features) == PriorityOf[m]

\* In tenths, and at most ten.
Score(m, features) ==
  LET score == PriorityOf[m] + 10 * Cardinality(ConditionsOf[m] \cap features)
  IN  IF score > 10 THEN 10 ELSE score

Best(ms, features) == {m \in ms : \A n \in ms : Score(n, features) <= Score(m, features)}

-----------------------------------------------------------------------------
(* KnowledgeProcessingPipeline *)

FeaturesIn ==
  [event |-> {"async", "event_driven"}, auth |-> {"auth"}, hana |-> {"database"},
   api |-> {"api"}, ui |-> {"ui"}, service |-> {"microservices"}, lambda |-> {"serverless"},
   kubernetes |-> {"container"}, scale |-> {"scalability", "high_availability"}, saas |-> {}]
Features(words) == UNION {FeaturesIn[w] : w \in words}

\* Setting multi_tenant, which IRFeature does not have, raises.
ExtractionFails(words) == "saas" \in words

\* What the adapters generate.
When(condition, files) == IF condition THEN files ELSE {}
SapFiles(fs) ==
  {"mta.yaml", "package.json"} \cup When("auth" \in fs, {"xsuaa.json"})
  \cup When("serverless" \in fs, {"kyma-function.yaml"})
  \cup When("api" \in fs, {"srv/cat-service.cds"})
TanzuFiles(fs) ==
  {"config.yaml"}
  \cup IF "serverless" \in fs THEN {"knative-service.yaml", "function.java"}
       ELSE {"deployment.yaml", "Application.java"}
  \cup When("event_driven" \in fs, {"eventing-broker.yaml"})
  \cup When("database" \in fs, {"pom.xml"})
PowerPlatformFiles(fs) ==
  {"dataverse-table.json", "powerapps-manifest.json"}
  \cup When("api" \in fs, {"powerautomate-flow.json", "powerautomate-definition.json"})
  \cup When("ui" \in fs, {"canvas-app-manifest.json"})
PlatformVFiles(fs) ==
  {"README.md"}
  \cup When(fs \cap {"container", "microservices"} # {}, {"deployment.yaml", "virtualservice.yaml"})
  \cup When("api" \in fs, {"sowa-gateway.yaml"})
  \cup When("database" \in fs, {"pangolindb-binding.yaml"})
  \cup When(fs \cap {"api", "container"} # {}, {"main.go", "go.mod"})
AwsTerraform(fs) ==
  {"provider", "variables"} \cup When("serverless" \in fs, {"lambda_function"})
  \cup When("database" \in fs, {"dynamodb_table"})
  \cup When(fs \cap {"database", "serverless"} # {}, {"s3_bucket"})
AwsFiles(fs) ==
  When("serverless" \in fs, {"serverless.yml", "handler.py"})
  \cup When("container" \in fs, {"ecs-task-definition.json"}) \cup AwsTerraform(fs)
AzureTerraform(fs) ==
  {"provider", "resource_group", "variables"} \cup When("serverless" \in fs, {"function_app"})
  \cup When("database" \in fs, {"cosmosdb_account"})
  \cup When("event_driven" \in fs, {"eventhub_namespace"})
AzureFiles(fs) == When("serverless" \in fs, {"host.json", "index.js"}) \cup AzureTerraform(fs)
GcpTerraform(fs) ==
  {"provider", "variables"} \cup When("serverless" \in fs, {"cloudfunctions_function"})
  \cup When("container" \in fs, {"cloud_run_service"})
  \cup When("database" \in fs, {"firestore_database"})
  \cup When("event_driven" \in fs, {"pubsub_topic"})
GcpFiles(fs) == When("serverless" \in fs, {"main.py"}) \cup GcpTerraform(fs)

\* platformv: what it recommends besides patterns.
Hints(fs) ==
  {"iam-se"} \cup When(fs \cap {"container", "microservices"} # {}, {"dropapp"})
  \cup When("database" \in fs, {"pangolindb"}) \cup When("api" \in fs, {"sowa"})

Generated(p, fs) ==
  CASE p = "sap" -> SapFiles(fs) [] p = "tanzu" -> TanzuFiles(fs)
    [] p = "powerplatform" -> PowerPlatformFiles(fs) [] p = "platformv" -> PlatformVFiles(fs)
    [] p = "aws" -> AwsFiles(fs) [] p = "azure" -> AzureFiles(fs) [] p = "gcp" -> GcpFiles(fs)

-----------------------------------------------------------------------------
(* POST /adapter/query *)

\* auto_detect: the keywords that are among the words.
Detected(r) ==
  IF ~r.detect THEN r.platform
  ELSE IF "hana" \in r.words THEN "sap"
  ELSE IF "kubernetes" \in r.words THEN "tanzu"
  ELSE r.platform

DetectionFails(outcome, p) == advice' = [NoAdvice EXCEPT !.outcome = outcome, !.platform = p]

Advises(p, fs) ==
  LET candidates == Candidates(fs)
      violations == Violations(p, fs)
  IN  \E first \in Best(candidates, fs) :
        advice' = [outcome |-> IF \E v \in violations : v.severity = "error"
                               THEN "blocked" ELSE "deployable",
                   platform |-> p, features |-> fs, files |-> Generated(p, fs),
                   violations |-> violations, first |-> first,
                   others |-> IF p = "platformv" THEN Hints(fs) ELSE {}]

\* The recommendations of a cloud adapter read a field that a match does not
\* have: when everything is generated and checked, it raises.
CloudRaises(p, fs, known) ==
  advice' = [NoAdvice EXCEPT !.outcome = "raised", !.platform = p, !.files = Generated(p, fs),
                            !.violations = Incompatible(p, fs, known)]

\* get_constraint_engine, when it makes the engine, registers the limits.
KnownToEngine == IF engine THEN rulesRead ELSE ReadRules(rulesRead, "aws")
MakeEngine ==
  engine' = TRUE /\ IF engine THEN UNCHANGED <<limitsDone, limits>> ELSE RegisterLimits(KnownToEngine)
EnsureEngine == MakeEngine /\ rulesRead' = KnownToEngine

\* A request for AWS registers them as well.
AwsChecks(fs) ==
  LET read == ReadRules(rulesRead, "aws")
  IN  engine' = TRUE /\ RegisterLimits(read) /\ rulesRead' = read /\ CloudRaises("aws", fs, read)
AzureChecks(fs) ==
  LET read == ReadRules(KnownToEngine, "azure")
  IN  MakeEngine /\ rulesRead' = read /\ CloudRaises("azure", fs, read)
GcpChecks(fs) ==
  LET read == ReadRules(KnownToEngine, "gcp")
  IN  MakeEngine /\ rulesRead' = read /\ CloudRaises("gcp", fs, read)

\* The engine is made first, the registry next.
ProcessWithAdapter(r) ==
  LET p == Detected(r)
      fs == Features(r.words)
      found == ~BootFails /\ p \in ToSet(Registry)
      fails == CatalogFails(p) \/ ExtractionFails(r.words)
  IN  /\ EnsureRegistry
      /\ ReadCatalogs(Boots \cup When(found, {p}))
      /\ \/ /\ found /\ ~fails
            /\ \/ p = "aws" /\ AwsChecks(fs)
               \/ p = "azure" /\ AzureChecks(fs)
               \/ p = "gcp" /\ GcpChecks(fs)
         \/ found /\ ~fails /\ p \notin Clouds /\ EnsureEngine /\ Advises(p, fs)
         \/ (BootFails \/ (found /\ fails)) /\ EnsureEngine /\ DetectionFails("raised", p)
         \/ ~BootFails /\ ~found /\ EnsureEngine /\ DetectionFails("not_found", p)
      /\ UNCHANGED <<catalogs, rules, edits, learned>>

\* GET /adapter/platforms
ListPlatforms ==
  /\ EnsureRegistry /\ ReadCatalogs(Boots)
  /\ advice' = IF BootFails THEN [NoAdvice EXCEPT !.outcome = "raised"]
               ELSE [NoAdvice EXCEPT !.outcome = "listed", !.others = ToSet(Registry)]
  /\ UNCHANGED <<catalogs, rules, edits, rulesRead, engine, limitsDone, limits, learned>>

\* GET /adapter/constraints/{platform}: without features nothing is violated.
GetPlatformConstraints ==
  /\ EnsureEngine
  /\ advice' = [NoAdvice EXCEPT !.outcome = "listed"]
  /\ UNCHANGED <<catalogs, rules, edits, catalogsRead, registered, graph, learned>>

-----------------------------------------------------------------------------
(* KnowledgeRetriever.search *)

\* An adapter is asked for its services and its patterns; what it raises
\* ends the search with nothing.
SearchKnowledge(mentioned) ==
  LET asked == SelectSeq(mentioned, LAMBDA p : p \in ToSet(Registry))
      failing == {n \in DOMAIN asked : CatalogFails(asked[n])}
      tried == IF BootFails THEN {}
               ELSE {n \in DOMAIN asked : \A k \in failing : n <= k}
  IN  /\ EnsureRegistry
      /\ ReadCatalogs(Boots \cup {asked[n] : n \in tried})
      /\ learned' = learned \cup {asked[n] : n \in tried \ failing}
      /\ advice' = IF BootFails \/ failing # {} THEN [NoAdvice EXCEPT !.outcome = "nothing"]
                   ELSE [NoAdvice EXCEPT !.outcome = "found",
                           !.others = {s \in Services : graph'.owner[s] \in ToSet(mentioned)}]
      /\ UNCHANGED <<catalogs, rules, edits, rulesRead, engine, limitsDone, limits>>

(* KnowledgeResolver.resolve: the type of an entity becomes a key of the   *)
(* context, that of the platform takes the place of its name.              *)
ResolverPlatform(words) ==
  IF "hana" \in words THEN "sap" ELSE IF "kubernetes" \in words THEN "tanzu" ELSE "none"
ResolverContext(words) ==
  [k \in {"platform"} \cup When(words \cap {"api", "auth"} # {}, {"technology"}) |->
     IF k = "platform" /\ ResolverPlatform(words) = "none" THEN "unknown" ELSE "true"]
RuleOf == [sap |-> "has_auth", powerplatform |-> "has_database"]
Triggered(words) ==
  {p \in DOMAIN RuleOf \cap {ResolverPlatform(words)} :
     /\ ResolverContext(words)["platform"] = p
     /\ RuleOf[p] \in DOMAIN ResolverContext(words)
     /\ ResolverContext(words)[RuleOf[p]] = "false"}

KnowledgeQuery(words) ==
  /\ advice' = [NoAdvice EXCEPT !.outcome = IF Triggered(words) = {} THEN "deployable" ELSE "blocked",
                               !.platform = ResolverPlatform(words)]
  /\ UNCHANGED <<catalogs, rules, edits, catalogsRead, rulesRead, registered, graph, engine,
                 limitsDone, limits, learned>>

-----------------------------------------------------------------------------
\* Nobody tells a loader to forget what it has read.
Edit ==
  /\ edits < MaxEdits
  /\ edits' = edits + 1
  /\ \/ \E p \in EditedCatalogs, form \in CatalogForms :
          form # catalogs[p] /\ catalogs' = [catalogs EXCEPT ![p] = form] /\ UNCHANGED rules
     \/ \E p \in EditedRules, form \in RuleForms :
          rules' = [rules EXCEPT ![p] = Edition(edits + 1, form)] /\ UNCHANGED catalogs
  /\ UNCHANGED <<catalogsRead, rulesRead, registered, graph, engine, limitsDone, limits, learned,
                 advice>>

AdviceNext ==
  \/ \E r \in AdviceRequests : ProcessWithAdapter(r)
  \/ ListPlatforms \/ GetPlatformConstraints
  \/ \E mentioned \in Searches : SearchKnowledge(mentioned)
  \/ \E r \in AdviceRequests : KnowledgeQuery(r.words)
  \/ Edit

AdviceSpec == AdviceInit /\ [][AdviceNext]_adviceVars

-----------------------------------------------------------------------------
(* Properties *)

\* Knowledge searches put patterns of single platforms into the library that
\* requests for all platforms are matched with.  A request is advised first what
\* it would be without them, whatever their priority, but for one case: it
\* triggers a pattern of a search and no general one.  So it is with services:
\* no general pattern has "microservices" as a trigger, but all of them are
\* matched when nothing is triggered, and the general one fits; when somebody has
\* searched for tanzu, its pattern alone is matched (PatternMatcher.match).
FirstIsUnmoved ==
  advice.first # "none" =>
    \/ advice.first \in Best(CandidatesIn(General, advice.features), advice.features)
    \/ /\ TriggeredIn(General, advice.features) = {}
       /\ advice.first \in TriggeredIn(Library \ General, advice.features)

\* The limits of AWS are registered when the engine is made, or by a later
\* request if there was nothing to register then.  They are of the edition whose
\* rules the same requests are checked with, whatever was edited in between:
\* all of them, or, if an entry of that edition is malformed, those before it
\* (register_aws_constraints, load_constraints).
LimitsFollowRules ==
  LET read == rulesRead["aws"]
  IN  /\ limits.edition = IF limits.whole \/ read.form = "bad_entry" THEN read.edition ELSE 0
      /\ limits.whole <=> read.form \in {"sound", "bad_combination"}

\* What searches and edits leave behind in shared tables decides what a request
\* is advised first, or which limits it is checked with, in no other way.
AdviceIsSound == FirstIsUnmoved /\ LimitsFollowRules
=============================================================================
