-------------------------- MODULE MCIngestionJobs --------------------------
(***************************************************************************)
(* The pipeline and the unified API share no state, so a behaviour is one  *)
(* of either: Init picks which.                                            *)
(*                                                                         *)
(* Registries have room for two jobs, and a behaviour has up to three.     *)
(* The pipeline gets a parallel batch of three documents with two slots, a *)
(* sequential batch of two, a codebase with and one without a graph, and a *)
(* document with GraphRAG.  The unified API gets requests for three        *)
(* sources, a parallel batch and a zip file with two of them each.         *)
(***************************************************************************)
EXTENDS PipelineJobs, ArtifactJobs

CONSTANTS d1, d2, d3, e1, e2, k1, n1, g1, i1, i2, i3, b1, b2, z1, z2

MCJobs == {d1, d2, d3, e1, e2, k1, n1, g1}
MCCalls == {"three", "two", "codebase", "codegraph", "graphrag"}
MCCallOf ==
  [j \in MCJobs |-> CASE j \in {d1, d2, d3} -> "three" [] j \in {e1, e2} -> "two"
                      [] j = k1 -> "codebase" [] j = n1 -> "codegraph"
                      [] j = g1 -> "graphrag"]
MCKind == [j \in MCJobs |-> IF j \in {k1, n1, g1} THEN MCCallOf[j] ELSE "document"]
MCSlots == [c \in MCCalls |-> IF c = "three" THEN 2 ELSE 1]

MCArtifacts == {i1, i2, i3, b1, b2, z1, z2}
MCIdOf ==
  [a \in MCArtifacts |-> CASE a \in {i1, b1, z1} -> "source" [] a \in {i2, b2, z2} -> "other"
                           [] a = i3 -> "third"]
MCRequests == {"one", "two", "three", "batch", "zip"}
MCRequestOf ==
  [a \in MCArtifacts |-> CASE a = i1 -> "one" [] a = i2 -> "two" [] a = i3 -> "three"
                           [] a \in {b1, b2} -> "batch" [] a \in {z1, z2} -> "zip"]
MCOrder == [a \in MCArtifacts |-> IF a \in {b2, z2} THEN 2 ELSE 1]
MCBatches == {"three", "two"}
MCSequential == {"two"}

MCAtOnce == {"one", "two", "three"}
MCParallel == {"batch"}

VARIABLE service

CONSTANT MaxMade   \* bound: the jobs of a behaviour

Made == Cardinality({j \in Jobs : at[j] # "new"} \cup {a \in Artifacts : step[a] # "new"})

MCInit ==
  /\ service \in {"pipeline", "unified"}
  /\ PipelineInit /\ ArtifactInit

MCNext ==
  /\ UNCHANGED service
  /\ \/ service = "pipeline" /\ PipelineNext /\ UNCHANGED artifactVars
     \/ service = "unified" /\ ArtifactNext /\ UNCHANGED pipelineVars
  /\ Made' <= MaxMade

MCSpec ==
  /\ MCInit /\ [][MCNext]_<<service, pipelineVars, artifactVars>>
  /\ PipelineFairness   \* in the other service nothing is begun
=============================================================================
