----------------------------- MODULE SourceJobs -----------------------------
(***************************************************************************)
(* The pipelines that ingest from outside: tickets, telemetry, knowledge   *)
(* bases, diagrams and requirements (ingestion/*/pipeline.py with their    *)
(* client.py), and IngestionCoordinator.ingest_all, which goes through     *)
(* several sources one after the other (ingestion/orchestrator.py).        *)
(*                                                                         *)
(* A pipeline makes a job, lists it and asks its client, which every job   *)
(* of the process shares.  A client that is not configured, or whose       *)
(* request fails, returns no entries; one that gets entries may raise over *)
(* them, as far as the fields the service documents let it.  What follows  *)
(* an answer - processing, counting, the last status - does not wait: it   *)
(* is one step with it.                                                    *)
(*                                                                         *)
(* Left out: the entries themselves and their number, the clients' other   *)
(* requests, which no pipeline makes, and that the tables of jobs have no  *)
(* bound.  Between two sources the coordinator does not wait; here others  *)
(* may step in.                                                            *)
(***************************************************************************)
EXTENDS Sequences, Functions, Integers

CONSTANTS
  SourceJobs,    \* the jobs asked for one by one
  SourceKind,    \* job -> the function that runs it
  RepoOf,        \* job -> the owner and repo its caller names, if any
  Configured,    \* the kinds whose client has its URL, key or token
  Ingests,       \* the calls of ingest_all
  SourcesOf,     \* call -> its sources in order
  WithContent,   \* the calls whose config has a document
  EnvRepo        \* GITHUB_OWNER and GITHUB_REPO

\* The pipeline function ingest_all calls for a source.
FunctionOf ==
  [tickets |-> "jira", telemetry |-> "loki", knowledge_base |-> "stackoverflow",
   architecture |-> "local_diagrams"]

\* No caller names a source twice: IngestSourceTool names one, and by default
\* they are the members of IngestionSource.
ASSUME SourceAssumption ==
  /\ \A i \in Ingests : SourcesOf[i] \in Seq(STRING) /\ IsInjective(SourcesOf[i])
  /\ SourceJobs \cap (Ingests \X DOMAIN FunctionOf) = {}

VARIABLES
  stage,      \* job -> where it is, and then its last status
  got,        \* history: job -> what its client returned
  client,     \* owner and repo of the shared GitHubIssuesClient
  token,      \* RedditClient._token is there
  turn,       \* call -> the source it is at, 0 before it is made
  results     \* call -> source -> what it reports

sourceVars == <<stage, got, client, token, turn, results>>

SourceJobIds == SourceJobs \cup Ingests \X DOMAIN FunctionOf
FunctionFor(j) == IF j \in SourceJobs THEN SourceKind[j] ELSE FunctionOf[j[2]]

SourceInit ==
  /\ stage = [j \in SourceJobIds |-> "new"]
  /\ got = [j \in SourceJobIds |-> "nothing"]
  /\ client = EnvRepo
  /\ token = FALSE
  /\ turn = [i \in Ingests |-> 0]
  /\ results = [i \in Ingests |-> [s \in {} |-> "none"]]

Source(i) == SourcesOf[i][turn[i]]
Returned(i) == turn[i] > Len(SourcesOf[i])
AtWork(i) == turn[i] > 0 /\ ~Returned(i)

-----------------------------------------------------------------------------
(* ingest_all *)

\* Mutant: an exception ends the loop.
GivesUp(i, result) ==
  /\ results' = [results EXCEPT ![i] = [s \in DOMAIN @ \cup {Source(i)} |->
                                          IF s = Source(i) THEN result ELSE @[s]]]
  /\ turn' = [turn EXCEPT ![i] = IF result = "error" THEN Len(SourcesOf[i]) + 1 ELSE @ + 1]

\* results[source.value] = ..., and on to the next source
Report(i, result) ==
  /\ results' = [results EXCEPT ![i] = [s \in DOMAIN @ \cup {Source(i)} |->
                                          IF s = Source(i) THEN result ELSE @[s]]]
  /\ turn' = [turn EXCEPT ![i] = @ + 1]

IngestAll(i) ==
  /\ turn[i] = 0
  /\ turn' = [turn EXCEPT ![i] = 1]
  /\ UNCHANGED <<stage, got, client, token, results>>

\* Without a repo_url there is an error, and with one _put_job, which calls
\* itself, raises.
IngestGit(i) == Source(i) = "git" /\ Report(i, "error")

\* upload_document may raise.
IngestDocument(i) ==
  /\ Source(i) = "documents"
  /\ \E result \in IF i \in WithContent THEN {"document", "error"} ELSE {"error"} :
       Report(i, result)

\* ingest_jira of the requirements has no parameter jql.
IngestRequirements(i) == Source(i) = "requirements" /\ Report(i, "error")

IngestWithoutJob(i) ==
  /\ AtWork(i)
  /\ IngestGit(i) \/ IngestDocument(i) \/ IngestRequirements(i)
  /\ UNCHANGED <<stage, got, client, token>>

-----------------------------------------------------------------------------
(* What a client and its pipeline do with a request. *)

Begins(j) ==
  /\ stage[j] = "new"
  /\ j \notin SourceJobs => AtWork(j[1]) /\ Source(j[1]) = j[2]

\* A job that ends is what the coordinator reports for the source.
JobEnds(j, status, entries) ==
  /\ stage' = [stage EXCEPT ![j] = status]
  /\ got' = [got EXCEPT ![j] = entries]
  /\ IF j \in SourceJobs THEN UNCHANGED <<turn, results>> ELSE Report(j[1], status)

JobAsks(j) == stage' = [stage EXCEPT ![j] = "fetching"] /\ UNCHANGED <<got, turn, results>>

Nothing(j) == JobEnds(j, "completed", "nothing")

AsksIf(j, condition) == Begins(j) /\ IF condition THEN JobAsks(j) ELSE Nothing(j)

\* The answer: nothing, or a failed request, which is the same, or entries
\* over which the job ends with one of the statuses.
Gets(j, statuses) ==
  /\ stage[j] = "fetching"
  /\ Nothing(j) \/ \E status \in statuses : JobEnds(j, status, "entries")

\* What is read from a disk is there without waiting.
Finds(j, statuses) ==
  /\ Begins(j)
  /\ Nothing(j) \/ \E status \in statuses : JobEnds(j, status, "entries")

Others == UNCHANGED <<client, token>>

-----------------------------------------------------------------------------
(* Tickets.  A field of an issue that is null raises, and so the job fails. *)

JiraIssues(j) == AsksIf(j, TRUE) \/ Gets(j, {"completed", "failed"})

IngestJira(j) == FunctionFor(j) = "jira" /\ JiraIssues(j) /\ Others

\* The request names the client's owner and repo as they are now.
GitHubIssues(j) ==
  AsksIf(j, client'.owner # "" /\ client'.repo # "") \/ Gets(j, {"completed", "failed"})

\* What the caller names is left in the client; the rest is what an earlier
\* caller left there.
Named(j) ==
  [owner |-> IF RepoOf[j].owner = "" THEN client.owner ELSE RepoOf[j].owner,
   repo |-> IF RepoOf[j].repo = "" THEN client.repo ELSE RepoOf[j].repo]

IngestGitHub(j) ==
  /\ FunctionFor(j) = "github"
  /\ client' = IF stage[j] = "new" THEN Named(j) ELSE client
  /\ GitHubIssues(j)
  /\ UNCHANGED token

-----------------------------------------------------------------------------
(* Telemetry.  A stream of Loki is an object, which LokiClient unpacks like *)
(* a pair: over any stream it raises.                                       *)

PrometheusRange(j) == AsksIf(j, TRUE) \/ Gets(j, {"completed"})
IngestPrometheus(j) == FunctionFor(j) = "prometheus" /\ PrometheusRange(j) /\ Others

ElasticsearchHits(j) == AsksIf(j, TRUE) \/ Gets(j, {"completed"})
IngestElasticsearch(j) == FunctionFor(j) = "elasticsearch" /\ ElasticsearchHits(j) /\ Others

LokiStreams(j) == AsksIf(j, TRUE) \/ Gets(j, {"failed"})
IngestLoki(j) == FunctionFor(j) = "loki" /\ LokiStreams(j) /\ Others

-----------------------------------------------------------------------------
(* Knowledge bases *)

StackOverflowQuestions(j) == AsksIf(j, "stackoverflow" \in Configured) \/ Gets(j, {"completed"})
IngestStackOverflow(j) == FunctionFor(j) = "stackoverflow" /\ StackOverflowQuestions(j) /\ Others

\* _get_token: without a token it asks for one; several jobs may do so at
\* the same time, and an answer without one takes it from the others.
RedditToken(j) ==
  \/ /\ Begins(j) /\ ~token /\ "reddit" \in Configured
     /\ stage' = [stage EXCEPT ![j] = "token"]
     /\ UNCHANGED <<token, got, turn, results>>
  \/ /\ stage[j] = "token"
     /\ token' \in BOOLEAN
     /\ IF token' THEN JobAsks(j) ELSE Nothing(j)

\* A submission whose link_flair_text is null raises.
RedditSubmissions(j) ==
  \/ /\ AsksIf(j, token) \/ Gets(j, {"completed", "failed"})
     /\ stage[j] = "new" => token \/ "reddit" \notin Configured
     /\ UNCHANGED token
  \/ RedditToken(j)

IngestReddit(j) == FunctionFor(j) = "reddit" /\ RedditSubmissions(j) /\ UNCHANGED client

ForumPosts(j) == AsksIf(j, "forum" \in Configured) \/ Gets(j, {"completed"})
IngestForum(j) == FunctionFor(j) = "forum" /\ ForumPosts(j) /\ Others

-----------------------------------------------------------------------------
(* Diagrams.  parse_architecture is a coroutine function, and its result is *)
(* used without being awaited: over any diagram the job fails.              *)

ConfluenceDiagrams(j) == AsksIf(j, "confluence_diagrams" \in Configured) \/ Gets(j, {"failed"})
IngestConfluenceDiagrams(j) == FunctionFor(j) = "confluence_diagrams" /\ ConfluenceDiagrams(j) /\ Others

GitHubDiagrams(j) == AsksIf(j, "github_diagrams" \in Configured) \/ Gets(j, {"failed"})
IngestGitHubDiagrams(j) == FunctionFor(j) = "github_diagrams" /\ GitHubDiagrams(j) /\ Others

LocalDiagrams(j) == Finds(j, {"failed"})
IngestLocalDiagrams(j) == FunctionFor(j) = "local_diagrams" /\ LocalDiagrams(j) /\ Others

-----------------------------------------------------------------------------
(* Requirements.  The description of an issue is searched like a text, and  *)
(* may be a list.                                                           *)

JiraRequirements(j) == AsksIf(j, "jira_requirements" \in Configured) \/ Gets(j, {"completed", "failed"})
IngestJiraRequirements(j) == FunctionFor(j) = "jira_requirements" /\ JiraRequirements(j) /\ Others

ConfluenceRequirements(j) == AsksIf(j, "confluence_requirements" \in Configured) \/ Gets(j, {"completed"})
IngestConfluenceRequirements(j) ==
  FunctionFor(j) = "confluence_requirements" /\ ConfluenceRequirements(j) /\ Others

LocalRequirements(j) == Finds(j, {"completed"})
IngestLocalRequirements(j) == FunctionFor(j) = "local_requirements" /\ LocalRequirements(j) /\ Others

-----------------------------------------------------------------------------
Ingest(j) ==
  \/ IngestJira(j) \/ IngestGitHub(j)
  \/ IngestPrometheus(j) \/ IngestElasticsearch(j) \/ IngestLoki(j)
  \/ IngestStackOverflow(j) \/ IngestReddit(j) \/ IngestForum(j)
  \/ IngestConfluenceDiagrams(j) \/ IngestGitHubDiagrams(j) \/ IngestLocalDiagrams(j)
  \/ IngestJiraRequirements(j) \/ IngestConfluenceRequirements(j) \/ IngestLocalRequirements(j)

SourceNext ==
  \/ \E i \in Ingests : IngestAll(i) \/ IngestWithoutJob(i)
  \/ \E j \in SourceJobIds : Ingest(j)

SourceSpec == SourceInit /\ [][SourceNext]_sourceVars

-----------------------------------------------------------------------------
(* Properties. *)

\* A call of ingest_all that returned reports every source it was asked for,
\* whatever raised before it, with the status the pipeline lists for the
\* job; and a job only fails over entries it got: a source that could not
\* be reached is reported as completed (ingest_all, the clients).
SourcesAreReported ==
  \A i \in Ingests : Returned(i) =>
    /\ DOMAIN results[i] = Range(SourcesOf[i])
    /\ \A s \in DOMAIN results[i] \cap DOMAIN FunctionOf :
         /\ results[i][s] = stage[<<i, s>>]
         /\ results[i][s] = "failed" => got[<<i, s>>] = "entries"
=============================================================================
