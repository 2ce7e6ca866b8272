----------------------------- MODULE MCServices -----------------------------
(***************************************************************************)
(* _compute_tiers, the router of the LLM and the ingestion jobs share no   *)
(* state, so a behaviour is one of them: Init picks which.                 *)
(***************************************************************************)
EXTENDS MCComputeTiers, MCLLMRouter, MCIngestionJobs

VARIABLE part

servicesVars == <<part, vars, routerVars, service, pipelineVars, artifactVars>>

\* Where another part runs, _compute_tiers has returned from an empty list.
NoTiers ==
  /\ pc = "done" /\ steps = <<>> /\ pos = 1 /\ currentTier = 0
  /\ queue = {} /\ nextQueue = {}
  /\ stepByType = <<>> /\ inDegree = <<>> /\ adjacency = <<>> /\ tier = <<>>

ServicesInit ==
  /\ part \in {"tiers", "router", "jobs"}
  /\ IF part = "tiers" THEN Init ELSE NoTiers
  /\ RouterInit
  /\ MCInit /\ (part # "jobs" => service = "pipeline")

ServicesNext ==
  /\ UNCHANGED part
  /\ \/ part = "tiers" /\ Next /\ UNCHANGED <<routerVars, service, pipelineVars, artifactVars>>
     \/ part = "router" /\ RouterNext /\ UNCHANGED <<vars, service, pipelineVars, artifactVars>>
     \/ part = "jobs" /\ MCNext /\ UNCHANGED <<vars, routerVars>>

\* Where another part runs nothing is begun, and the fairness of a part asks
\* nothing.
ServicesSpec ==
  /\ ServicesInit /\ [][ServicesNext]_servicesVars
  /\ WF_vars(Next) /\ RouterFairness /\ PipelineFairness
=============================================================================
