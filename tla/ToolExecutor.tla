---------------------------- MODULE ToolExecutor ----------------------------
(***************************************************************************)
(* ToolExecutor (agents/executor.py): execute, which tries a tool up to    *)
(* max_retries + 1 times, each time with a slot of the semaphore all calls *)
(* share, and the ways lists of tools are executed: together, one after    *)
(* the other until one fails, and one after the other to the end, which is *)
(* also what ToolStepExecutor does for a step of a plan.                   *)
(*                                                                         *)
(* Whether a tool is known and its input valid depends on the call alone.  *)
(* A call whose tool is unknown, whose input is not valid or whose         *)
(* validation raises never waits: it is one step.                          *)
(*                                                                         *)
(* Left out: arguments, outputs, errors and times, and the dictionary of   *)
(* results, where the calls of one tool in one list share an entry.        *)
(***************************************************************************)
EXTENDS FiniteSets, Integers

CONSTANTS
  Calls,          \* the calls of execute
  Input,          \* call -> what the registry and validate_input say
  List, Place,    \* call -> the list it is of, and where in it
  Mode,           \* list -> how it is executed
  MaxConcurrent, MaxRetries

ASSUME ToolExecutorAssumption ==
  /\ IsFiniteSet(Calls)
  /\ Input \in [Calls -> {"fine", "refused", "raises"}]
  /\ Place \in [Calls -> Nat]
  /\ \A c \in Calls : Mode[List[c]] \in {"parallel", "fail_fast", "continue"}
  /\ MaxConcurrent \in Nat \ {0} /\ MaxRetries \in Nat

VARIABLES
  call,        \* call -> new, waiting, running, completed or failed
  attempt,     \* call -> the attempt it is at
  free,        \* the value of _semaphore
  metrics,     \* _metrics, without the time
  runs         \* history: call -> how often its tool was started

toolVars == <<call, attempt, free, metrics, runs>>

Ended == {"completed", "failed"}

ToolInit ==
  /\ call = [c \in Calls |-> "new"]
  /\ attempt = [c \in Calls |-> 0]
  /\ free = MaxConcurrent
  /\ metrics = [total_executions |-> 0, successful |-> 0, failed |-> 0, retries |-> 0]
  /\ runs = [c \in Calls |-> 0]

Before(c) == {b \in Calls : List[b] = List[c] /\ Place[b] < Place[c]}

\* Its list comes to the call.
Turn(c) ==
  \/ Mode[List[c]] = "parallel"
  \/ /\ \A b \in Before(c) : call[b] \in Ended
     /\ Mode[List[c]] = "fail_fast" => \A b \in Before(c) : call[b] = "completed"

\* execute returns, after that many more attempts that failed (_update_metrics)
Ends(c, status, retried) ==
  /\ call' = [call EXCEPT ![c] = status]
  /\ metrics' = [metrics EXCEPT !.total_executions = @ + 1,
                                !.successful = @ + (IF status = "completed" THEN 1 ELSE 0),
                                !.failed = @ + (IF status = "failed" THEN 1 ELSE 0),
                                !.retries = @ + retried]

Execute(c) ==
  /\ call[c] = "new" /\ Turn(c)
  /\ \/ Input[c] = "fine" /\ call' = [call EXCEPT ![c] = "waiting"] /\ UNCHANGED <<attempt, metrics>>
     \/ Input[c] = "refused" /\ Ends(c, "failed", 0) /\ UNCHANGED attempt
     \/ /\ Input[c] = "raises" /\ Ends(c, "failed", MaxRetries)
        /\ attempt' = [attempt EXCEPT ![c] = MaxRetries]
  /\ UNCHANGED <<free, runs>>

\* `async with self._semaphore` is entered, and the tool is started.
Acquire(c) ==
  /\ call[c] = "waiting" /\ free > 0
  /\ free' = free - 1
  /\ call' = [call EXCEPT ![c] = "running"]
  /\ runs' = [runs EXCEPT ![c] = @ + 1]
  /\ UNCHANGED <<attempt, metrics>>

\* Mutant: an exception leaves the slot taken.
KeepSlot == free

\* `async with` is left by an exception.
ReleaseOnError == free + 1

Returns(c) ==
  /\ call[c] = "running"
  /\ free' = free + 1
  /\ Ends(c, "completed", 0)
  /\ UNCHANGED <<attempt, runs>>

\* Mutant: every failed attempt counts as a retry.
CountAll(c) == 1

\* The last attempt is not followed by another.
Retried(c) == IF attempt[c] < MaxRetries THEN 1 ELSE 0

\* The tool raises, or wait_for gives it up.
Fails(c) ==
  /\ call[c] = "running"
  /\ free' = ReleaseOnError
  /\ IF attempt[c] < MaxRetries
     THEN /\ attempt' = [attempt EXCEPT ![c] = @ + 1]
          /\ call' = [call EXCEPT ![c] = "waiting"]
          /\ metrics' = [metrics EXCEPT !.retries = @ + Retried(c)]
     ELSE Ends(c, "failed", Retried(c)) /\ UNCHANGED attempt
  /\ UNCHANGED runs

ToolNext == \E c \in Calls : Execute(c) \/ Acquire(c) \/ Returns(c) \/ Fails(c)

ToolSpec == ToolInit /\ [][ToolNext]_toolVars

Begun(l) == \E c \in Calls : List[c] = l /\ call[c] # "new"

\* A list that was begun goes on, a tool ends or is given up after its
\* timeout, and a slot that is free is given to one of those that wait.
ToolFairness ==
  WF_toolVars(\E c \in Calls : \/ Begun(List[c]) /\ Execute(c)
                              \/ Acquire(c) \/ Returns(c) \/ Fails(c))

-----------------------------------------------------------------------------
(* Properties. *)

\* The metrics agree with what was done, however calls overlap: every call
\* that is over is counted once and in one way, and a retry is counted for
\* every start of a tool but the first, and for every new attempt at an input
\* whose validation raises (execute, _update_metrics).
CountsAddUp ==
  LET With(status) == {c \in Calls : call[c] \in status}
      Again(c) == IF Input[c] = "fine"
                  THEN IF runs[c] = 0 THEN 0
                       ELSE runs[c] - (IF call[c] = "waiting" THEN 0 ELSE 1)
                  ELSE IF Input[c] = "raises" /\ call[c] \in Ended THEN MaxRetries ELSE 0
  IN /\ metrics.total_executions = Cardinality(With(Ended))
     /\ metrics.successful = Cardinality(With({"completed"}))
     /\ metrics.failed = Cardinality(With({"failed"}))
     /\ metrics.retries = Cardinality({r \in Calls \X (1..MaxRetries) : r[2] <= Again(r[1])})
     /\ \A c \in Calls : Again(c) <= MaxRetries

\* Every list that was begun comes to its end, or to the failure that stops
\* it, though its tools hang and all calls wait for the same slots (execute).
ListsEnd ==
  []<>\A c \in Calls : Begun(List[c]) => call[c] \in Ended \/ (call[c] = "new" /\ ~Turn(c))
=============================================================================
