---------------------------- MODULE QueryService ----------------------------
(***************************************************************************)
(* What OrchestrationEngine.execute promises its caller, without plans,    *)
(* tiers or retries: a query is worked on for at most limit rounds, gets   *)
(* at most one verdict, and is answered with a verdict, early only when    *)
(* the verdict passes.  Module Orchestration implements this.              *)
(***************************************************************************)
EXTENDS Integers

CONSTANTS
  PossibleVerdicts, \* the possible verdicts
  Passing,         \* those that end the work early
  NoVerdict,
  Limits           \* the limits a query can be submitted with

VARIABLES
  phase,           \* "idle", "working", "answered", "aborted" or "crashed"
  limit,           \* rounds the query may take
  round,           \* current round, from 0
  verdict          \* the verdict on the query, or NoVerdict

vars == <<phase, limit, round, verdict>>

LastRound == round = limit - 1

Init ==
  /\ phase = "idle"
  /\ limit \in Limits
  /\ round = 0
  /\ verdict = NoVerdict

\* A query arrives, or a crashed one is taken up again from its start.
Accept ==
  /\ phase # "working"
  /\ phase' = "working"
  /\ limit' \in Limits
  /\ round' = 0
  /\ verdict' = NoVerdict

Judge ==
  /\ phase = "working"
  /\ verdict = NoVerdict
  /\ verdict' \in PossibleVerdicts
  /\ UNCHANGED <<phase, limit, round>>

NextRound ==
  /\ phase = "working"
  /\ verdict \notin Passing
  /\ ~LastRound
  /\ round' = round + 1
  /\ UNCHANGED <<phase, limit, verdict>>

Answer ==
  /\ phase = "working"
  /\ verdict # NoVerdict
  /\ verdict \in Passing \/ LastRound
  /\ phase' = "answered"
  /\ UNCHANGED <<limit, round, verdict>>

\* An error that no handler catches, or the end of the process, which forgets
\* what it knew about the query.
Fail ==
  /\ phase = "working"
  /\ phase' \in {"aborted", "crashed"}
  /\ limit' \in Limits
  /\ \/ round' = 0 /\ verdict' = NoVerdict
     \/ UNCHANGED <<round, verdict>>

Next == Accept \/ Judge \/ NextRound \/ Answer \/ Fail

\* A query that is worked on is eventually answered, unless it fails.
Ends == phase = "working" ~> phase # "working"

Spec == Init /\ [][Next]_vars /\ Ends

=============================================================================
