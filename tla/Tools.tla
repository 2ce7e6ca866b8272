-------------------------------- MODULE Tools --------------------------------
(***************************************************************************)
(* The tools and their registry (tools/*.py): calls of a batch, one after  *)
(* the other, and what each gives as output when the LLM, a retriever or a *)
(* process it asks does not answer, answers something else, or when its    *)
(* arguments are missing or of a type it cannot handle.                    *)
(*                                                                         *)
(* Most tools ask the LLM and parse its answer as JSON; when that raises   *)
(* they fall back on what they can say without it, which they should mark  *)
(* as not reliable.  Others ask a component and turn what it raises into   *)
(* an error.  What a tool does after the answer it does without waiting.   *)
(*                                                                         *)
(* A tool is called by the registry, with a ToolInput, or by ToolExecutor, *)
(* which hands the dictionary of arguments over as it is.                  *)
(*                                                                         *)
(* Left out: prompts, and the content of results.                          *)
(***************************************************************************)
EXTENDS Sequences, Integers

CONSTANTS
  Batches    \* lists of calls [tool, given, via]

\* given: what is known of the arguments.  Unusable ones are there, but may
\* raise wherever the tool looks into them.
Given == {"fine", "missing", "unusable"}

ASSUME ToolsAssumption ==
  Batches \subseteq Seq([tool : STRING, given : Given, via : {"registry", "executor"}])

\* What the LLM may answer: no JSON, an object, a list with the fields asked
\* for, another list, a string with such a list in it.
Answers == {"unreadable", "object", "items", "list", "quoted"}

VARIABLES
  batch,      \* the calls
  waits,      \* what the current call waits for, "nothing" before it begins
  heard,      \* history: what the LLM, or a source of requirements, said to
              \* each call that has ended
  outputs     \* the ToolOutputs of the calls that have ended

toolsVars == <<batch, waits, heard, outputs>>

ToolsInit == batch \in Batches /\ waits = "nothing" /\ heard = <<>> /\ outputs = <<>>

AllCalled == Len(outputs) = Len(batch)
Current == batch[Len(outputs) + 1]

\* A ToolOutput: an error or a result, how it was got, and where it says
\* that it is not reliable: in the field of that name, or in the result or
\* each of its parts.  "raised" stands for none.
Result(method, marks) == [is |-> "result", method |-> method, marks |-> marks]
Error(marks) == [is |-> "error", method |-> "none", marks |-> marks]
Raised == [is |-> "raised", method |-> "none", marks |-> {}]

Gives(output, said) ==
  /\ outputs' = Append(outputs, output)
  /\ heard' = Append(heard, said)
  /\ waits' = "nothing"

-----------------------------------------------------------------------------
(* ToolRegistry *)

\* ToolExecutor calls tool.execute(args).
HandsOver == Current.via = "registry"

\* ToolRegistry.execute catches what a tool raises, ToolExecutor retries
\* what would raise again, and reports that.
Throws(said) == Gives(IF Current.via = "registry" THEN Error({"output"}) ELSE Raised, said)

\* validate_input
AskNothing == {"find_dead_code", "get_module_deps"}
Valid == Current.given # "missing" \/ Current.tool \in AskNothing

Called == ~AllCalled /\ waits = "nothing"

ToolNotFound ==
  Called /\ Current.tool = "unregistered" /\ Gives(Error({}), "nothing") /\ UNCHANGED batch

InvalidInput ==
  /\ Called /\ Current.tool # "unregistered" /\ ~Valid
  /\ Gives(Error({"output"}), "nothing")
  /\ UNCHANGED batch

Begun(tool) == Called /\ Valid /\ Current.tool = tool
WaitsFor(tool, what) == ~AllCalled /\ Current.tool = tool /\ waits = what
Unusable(place, places) == Current.given = "unusable" /\ place \in places

-----------------------------------------------------------------------------
(* The ways a tool works. *)

\* Without waiting.
Computes(tool, places) ==
  /\ Begun(tool)
  /\ IF HandsOver
     THEN \/ Gives(Result("none", {}), "nothing")
          \/ Unusable("start", places) /\ Throws("nothing")
     ELSE Throws("nothing")
  /\ UNCHANGED batch

\* By asking another component, inside a try: what the component raises
\* becomes an error.  In some of them so does what the tool's own look at
\* its input raises.
Guarded(tool, looksInside) ==
  /\ \/ /\ Begun(tool)
        /\ IF HandsOver THEN waits' = "backend" /\ UNCHANGED <<heard, outputs>>
           ELSE IF looksInside THEN Gives(Error({}), "nothing") ELSE Throws("nothing")
     \/ /\ WaitsFor(tool, "backend")
        /\ Gives(Result("none", {}), "nothing") \/ Gives(Error({}), "nothing")
  /\ UNCHANGED batch

\* By asking another component: what it raises becomes part of the result.
Reports(tool) ==
  /\ \/ /\ Begun(tool)
        /\ IF HandsOver THEN waits' = "backend" /\ UNCHANGED <<heard, outputs>> ELSE Throws("nothing")
     \/ /\ WaitsFor(tool, "backend")
        /\ Gives(Result("none", {}), "nothing")
  /\ UNCHANGED batch

\* By asking a source of requirements.  One that is not supported, or whose
\* library looks for its settings, makes the tool itself raise, which only
\* the method says; one that is not configured, or whose answer cannot be
\* had, is an entry of the result.  Nothing raises NotImplementedError.
Imports(tool) ==
  /\ \/ /\ Begun(tool)
        /\ IF HandsOver
           THEN \/ waits' = "backend" /\ UNCHANGED <<heard, outputs>>
                \/ Gives(Result("api", {"result"}), "nothing")
                \/ Gives(Result("error", {}), "nothing")
           ELSE Throws("nothing")
     \/ /\ WaitsFor(tool, "backend")
        /\ \/ Gives(Result("api", {}), "object")
           \/ Gives(Result("api", {"result"}), "raised")
  /\ UNCHANGED batch

\* Mutant: the fallback is taken for an answer of the LLM.
FallsBackOnNothing(places, method, marks, said) ==
  \/ Gives(Result("llm", {}), said)
  \/ Unusable("fallback", places) /\ Throws(said)

FallsBackOn(places, method, marks, said) ==
  \/ Gives(Result(method, marks), said)
  \/ Unusable("fallback", places) /\ Throws(said)

\* By asking the LLM.  places: where unusable arguments raise; accepts: the
\* answers that do not; method and marks: of the fallback.
AsksLLM(tool, places, accepts, method, marks) ==
  /\ \/ /\ Begun(tool)
        /\ IF HandsOver
           THEN \/ waits' = "llm" /\ UNCHANGED <<heard, outputs>>
                \/ Unusable("start", places) /\ Throws("nothing")
                \/ Unusable("prompt", places) /\ FallsBackOn(places, method, marks, "nothing")
           ELSE Throws("nothing")
     \/ /\ WaitsFor(tool, "llm")
        /\ \/ \E said \in accepts : Gives(Result("llm", {}), said)
           \/ \E said \in Answers \ accepts : FallsBackOn(places, method, marks, said)
           \/ FallsBackOn(places, method, marks, "raised")
  /\ UNCHANGED batch

Readable == Answers \ {"unreadable"}
Both == {"output", "result"}

\* Most tools take any JSON, and mark the output, the result or both.
Asks(tool, places, marks) == AsksLLM(tool, places, Readable, "fallback", marks)

-----------------------------------------------------------------------------
(* tools/base.py *)

SecurityValidator == Computes("security_validate", {"start"})

\* Each field must be there.
CostEstimator ==
  AsksLLM("cost_estimate", {"start", "fallback"}, {"object"}, "lookup_table", {"result"})

SearchTool == Guarded("search", FALSE)
HybridSearchTool == Guarded("hybrid_search", FALSE)
RerankTool == Guarded("rerank", FALSE)
ChainReasoningTool == Guarded("chain_reasoning", FALSE)
EntityReasoningTool == Guarded("entity_reasoning", FALSE)
IterativeReasoningTool == Guarded("iterative_reasoning", FALSE)
GraphQueryTool == Guarded("query_graph", FALSE)
EntitySearchTool == Guarded("entity_search", FALSE)
IngestSourceTool == Guarded("ingest_source", FALSE)
GetJobStatusTool == Guarded("get_job_status", FALSE)
KubernetesSearchTool == Guarded("kubernetes_search", TRUE)
HelmSearchTool == Guarded("helm_search", TRUE)
DockerfileSearchTool == Guarded("dockerfile_search", TRUE)
GraphQLSearchTool == Guarded("graphql_search", TRUE)
IstioSearchTool == Guarded("istio_search", TRUE)
FindCallersTool == Guarded("find_callers", TRUE)
FindCalleesTool == Guarded("find_callees", TRUE)
FindDeadCodeTool == Guarded("find_dead_code", TRUE)
GetComplexityTool == Guarded("get_complexity", TRUE)
ClassHierarchyTool == Guarded("class_hierarchy", TRUE)
GetModuleDepsTool == Guarded("get_module_deps", TRUE)
ExtractFromImageTool == Guarded("extract_from_image", TRUE)
AnalyzeVisualTool == Guarded("analyze_visual", TRUE)
ParseDocumentAdvancedTool == Guarded("parse_document_advanced", TRUE)
ColpalSearchTool == Guarded("colpal_search", TRUE)
UISketchSearchTool == Guarded("ui_sketch_search", TRUE)

\* int(detail_level)
UISuggestionTool == Computes("ui_suggest_implementation", {"start"})

BaseTools ==
  \/ SecurityValidator \/ CostEstimator
  \/ SearchTool \/ HybridSearchTool \/ RerankTool \/ GraphQueryTool \/ EntitySearchTool
  \/ ChainReasoningTool \/ EntityReasoningTool \/ IterativeReasoningTool
  \/ IngestSourceTool \/ GetJobStatusTool
  \/ KubernetesSearchTool \/ HelmSearchTool \/ DockerfileSearchTool
  \/ GraphQLSearchTool \/ IstioSearchTool
  \/ FindCallersTool \/ FindCalleesTool \/ FindDeadCodeTool
  \/ GetComplexityTool \/ ClassHierarchyTool \/ GetModuleDepsTool
  \/ ExtractFromImageTool \/ AnalyzeVisualTool \/ ParseDocumentAdvancedTool
  \/ ColpalSearchTool \/ UISketchSearchTool \/ UISuggestionTool

-----------------------------------------------------------------------------
(* tools/ideation.py: json.loads is given what is parsed already, which only *)
(* a string survives.                                                       *)

IdeaGeneratorTool ==
  AsksLLM("idea_generate", {"prompt", "fallback"}, {"quoted"}, "fallback", {"output"})
BrainstormTool ==
  AsksLLM("brainstorm", {"start", "prompt", "fallback"}, {"quoted"}, "fallback", {})
\* An answer that is no JSON is returned as None.
TechnologyRecommenderTool ==
  AsksLLM("technology_recommend", {"fallback"}, Answers, "fallback", {})
PatternFinderTool == Computes("pattern_find", {"start"})

(* tools/requirements.py *)

UserStoryGeneratorTool ==
  AsksLLM("user_story_generate", {"start", "fallback"}, {"items"}, "fallback", {})
AcceptanceCriteriaGeneratorTool ==
  AsksLLM("acceptance_criteria_generate", {"start", "fallback"}, {"items"}, "fallback", {})
RequirementsValidatorTool == Computes("requirements_validate", {"start"})
GapAnalyzerTool == Computes("gap_analyze", {"start"})
RequirementsImporterTool == Imports("requirements_import")

(* tools/testing.py *)

TestGeneratorTool == AsksLLM("test_generate", {"fallback"}, {"items"}, "template", {})
TestExecutorTool == Reports("test_execute")
CoverageAnalyzerTool == Reports("coverage_analyze")
PropertyBasedTesterTool == Computes("property_test", {})
ContractTesterTool == Computes("contract_test", {"start"})
MutationTesterTool == Reports("mutation_test")

(* tools/deployment.py *)

CICDPipelineGeneratorTool == Asks("cicd_pipeline_generate", {}, Both)
DeploymentGeneratorTool == Asks("deployment_generate", {"fallback"}, Both)
HelmChartGeneratorTool == Asks("helm_chart_generate", {}, Both)
TerraformGeneratorTool == Asks("terraform_generate", {"prompt", "fallback"}, Both)
DockerComposeGeneratorTool == Asks("docker_compose_generate", {"prompt", "fallback"}, Both)
DeploymentValidatorTool == Asks("deployment_validate", {"fallback"}, {"result"})

(* tools/observability.py *)

MetricsCollectorTool == Asks("metrics_collect", {}, Both)
LogAggregatorTool == Asks("log_aggregate", {"prompt", "fallback"}, Both)
AlertManagerTool == Asks("alert_manager", {}, {"result"})
DashboardGeneratorTool == Asks("dashboard_generate", {"prompt", "fallback"}, Both)
TracingCollectorTool == Asks("tracing_collect", {}, Both)
SLOTrackerTool == Asks("slo_track", {"fallback"}, Both)
AnomalyDetectorTool == Asks("anomaly_detect", {"fallback"}, Both)

(* tools/feedback.py *)

\* A field is set in the answer.
UserFeedbackIngestTool ==
  AsksLLM("feedback_ingest", {}, {"object"}, "fallback", {"result"})
SentimentAnalyzerTool == Asks("sentiment_analyze", {"fallback"}, Both)
MetricTrendAnalyzerTool == Asks("trend_analyze", {}, Both)
FeatureRequestTrackerTool == Asks("feature_track", {}, {"result"})
ChurnPredictorTool == Asks("churn_predict", {}, Both)

(* tools/day2.py *)

AutoScalerTool == Asks("autoscale", {}, {"result"})
UpdateOrchestratorTool == Asks("update_orchestrate", {}, {"result"})
IncidentDetectorTool == Asks("incident_detect", {"fallback"}, Both)
RootCauseAnalyzerTool == Asks("root_cause_analyze", {}, Both)
RunbookGeneratorTool == Asks("runbook_generate", {}, Both)
BackupManagerTool == Asks("backup_manage", {}, {"result"})
CapacityPlannerTool == Asks("capacity_plan", {}, Both)

PDLCTools ==
  \/ IdeaGeneratorTool \/ BrainstormTool \/ TechnologyRecommenderTool \/ PatternFinderTool
  \/ UserStoryGeneratorTool \/ AcceptanceCriteriaGeneratorTool \/ RequirementsValidatorTool
  \/ GapAnalyzerTool \/ RequirementsImporterTool
  \/ TestGeneratorTool \/ TestExecutorTool \/ CoverageAnalyzerTool \/ PropertyBasedTesterTool
  \/ ContractTesterTool \/ MutationTesterTool
  \/ CICDPipelineGeneratorTool \/ DeploymentGeneratorTool \/ HelmChartGeneratorTool
  \/ TerraformGeneratorTool \/ DockerComposeGeneratorTool \/ DeploymentValidatorTool
  \/ MetricsCollectorTool \/ LogAggregatorTool \/ AlertManagerTool \/ DashboardGeneratorTool
  \/ TracingCollectorTool \/ SLOTrackerTool \/ AnomalyDetectorTool
  \/ UserFeedbackIngestTool \/ SentimentAnalyzerTool \/ MetricTrendAnalyzerTool
  \/ FeatureRequestTrackerTool \/ ChurnPredictorTool
  \/ AutoScalerTool \/ UpdateOrchestratorTool \/ IncidentDetectorTool
  \/ RootCauseAnalyzerTool \/ RunbookGeneratorTool \/ BackupManagerTool \/ CapacityPlannerTool

ToolsNext ==
  \/ ToolNotFound
  \/ InvalidInput
  \/ BaseTools \/ PDLCTools

ToolsSpec == ToolsInit /\ [][ToolsNext]_toolsVars

-----------------------------------------------------------------------------
(* Properties. *)

\* The tools that say only in "method" that they were not answered.
OnlyMethodSaysIt ==
  {"brainstorm", "technology_recommend", "user_story_generate",
   "acceptance_criteria_generate", "test_generate", "requirements_import"}

\* Whatever the LLM or a source answers or raises, an output that names it as
\* its method carries an answer that could be read - except from
\* technology_recommend - or says in its result that there was none; and one
\* that a tool gave instead is marked as not reliable somewhere, in the
\* output or in its result, except from six tools (AsksLLM, Imports).
\* A step of a plan never gets a result: every tool looks for the field args of
\* its input, and ToolExecutor gives it none (ToolExecutor.execute).
OutputsAreHonest ==
  \A k \in DOMAIN outputs :
    LET tool == batch[k].tool
        marked == outputs[k].marks # {} IN
    outputs[k].is = "result" =>
      /\ batch[k].via # "executor"
      /\ IF outputs[k].method \in {"llm", "api"}
         THEN heard[k] \in Readable \/ marked \/ tool = "technology_recommend"
         ELSE outputs[k].method # "none" => marked \/ tool \in OnlyMethodSaysIt
=============================================================================
