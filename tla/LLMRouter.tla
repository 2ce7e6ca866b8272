----------------------------- MODULE LLMRouter -----------------------------
(***************************************************************************)
(* The circuit breaker of LLMRouter.chat (llm/router.py).  get_router is a *)
(* singleton, so all coroutines that talk to the LLM (the samples of a     *)
(* tree-of-thoughts answer, the planner, the tools, other requests) share  *)
(* the breaker, and interleave at every await of chat.                     *)
(*                                                                         *)
(* Time.  What the code keeps as a point in time is kept as the seconds    *)
(* left until then, and Tick lets a second pass, so time needs no bound.   *)
(*                                                                         *)
(* Left out: the token budget (nothing in the program enters a             *)
(* TokenBudget, so chat always finds none) and the checks of the arguments *)
(* (every caller passes constants in range).                               *)
(***************************************************************************)
EXTENDS Integers

CONSTANTS
  Callers,         \* the coroutines that call chat
  CircuitThreshold, CircuitResetSeconds,
  MaxRetries,      \* max_retries: the number of attempts, at least one
  Backoff          \* attempt, from 0 -> seconds to sleep when it has failed

ASSUME RouterAssumption ==
  /\ CircuitThreshold \in Nat \ {0}
  /\ CircuitResetSeconds \in Nat \ {0}
  /\ MaxRetries \in Nat \ {0}
  /\ Backoff \in [0..MaxRetries - 1 -> Nat]

VARIABLES
  consecutiveFailures,
  openFor,         \* seconds until _circuit_open_until, 0 from then on
  calls,           \* caller -> its call of chat
  streak,          \* history: failed attempts since an attempt returned or the
                   \* breaker half-opened, counted up to CircuitThreshold
  extra            \* history: caller -> its requests since the breaker opened

breaker == <<consecutiveFailures, openFor>>
routerVars == <<breaker, calls, streak, extra>>

Tripped == consecutiveFailures >= CircuitThreshold

\* Mutant: the breaker does not half-open.
OpenUntilSuccess == Tripped

\* _circuit_is_open
Open == Tripped /\ openFor > 0

NoRequests == [c \in Callers |-> 0]
NoCall == [at |-> "caller", attempt |-> 0, wait |-> 0]

RouterInit ==
  /\ consecutiveFailures = 0
  /\ openFor = 0
  /\ calls = [c \in Callers |-> NoCall]
  /\ streak = 0
  /\ extra = NoRequests

\* chat is called while the breaker is open, and raises.
FastFail(c) ==
  /\ calls[c].at = "caller"
  /\ Open
  /\ UNCHANGED routerVars

\* Mutant: the breaker is not looked at.
ChatUnchecked(c) ==
  /\ calls[c].at = "caller"
  /\ calls' = [calls EXCEPT ![c].at = "post"]
  /\ UNCHANGED <<breaker, streak, extra>>

\* chat is called otherwise and posts its first request.  A breaker that is
\* tripped is half-open now: it is reset, for this call and all that follow.
Chat(c) ==
  /\ calls[c].at = "caller"
  /\ ~Open
  /\ IF Tripped
       THEN consecutiveFailures' = 0 /\ streak' = 0 /\ extra' = NoRequests
       ELSE UNCHANGED <<consecutiveFailures, streak, extra>>
  /\ calls' = [calls EXCEPT ![c].at = "post"]
  /\ UNCHANGED openFor

\* _record_failure, when n failures were counted before.
RecordFailure(n) ==
  /\ consecutiveFailures' = n + 1
  /\ openFor' = IF n + 1 >= CircuitThreshold THEN CircuitResetSeconds ELSE openFor
  /\ streak' = IF streak < CircuitThreshold THEN streak + 1 ELSE streak
  /\ extra' = IF n + 1 >= CircuitThreshold THEN extra ELSE NoRequests

AttemptsLeft(c) == calls[c].attempt < MaxRetries - 1

\* After a failure: sleep, or raise if it was the last attempt.
RetryOrRaise(c) ==
  calls' = [calls EXCEPT ![c] =
              IF AttemptsLeft(c)
                THEN [at |-> "sleep", attempt |-> @.attempt, wait |-> Backoff[@.attempt]]
                ELSE NoCall]

\* Mutant: a success does not reset the breaker.
AnswerUnrecorded(c) ==
  /\ calls[c].at = "post"
  /\ streak' = 0
  /\ calls' = [calls EXCEPT ![c] = NoCall]
  /\ UNCHANGED <<breaker, extra>>

\* The answer arrives and has the expected form.
Answer(c) ==
  /\ calls[c].at = "post"
  /\ consecutiveFailures' = 0
  /\ streak' = 0
  /\ extra' = NoRequests
  /\ calls' = [calls EXCEPT ![c] = NoCall]
  /\ UNCHANGED openFor

\* The status is a success but the body cannot be read: _record_success, then
\* the exception leads to _record_failure.
UnreadableAnswer(c) ==
  /\ calls[c].at = "post"
  /\ RecordFailure(0)
  /\ RetryOrRaise(c)

\* An error status, a connection error or the timeout of the client.
PostFails(c) ==
  /\ calls[c].at = "post"
  /\ RecordFailure(consecutiveFailures)
  /\ RetryOrRaise(c)

\* The next attempt; it does not look at the breaker.
Retry(c) ==
  /\ calls[c].at = "sleep"
  /\ calls[c].wait = 0
  /\ calls' = [calls EXCEPT ![c].at = "post", ![c].attempt = @ + 1]
  /\ extra' = IF Open THEN [extra EXCEPT ![c] = @ + 1] ELSE extra
  /\ UNCHANGED <<breaker, streak>>

OneLess(n) == IF n > 0 THEN n - 1 ELSE 0

Tick ==
  /\ openFor > 0 \/ \E c \in Callers : calls[c].wait > 0
  /\ openFor' = OneLess(openFor)
  /\ calls' = [c \in Callers |-> [calls[c] EXCEPT !.wait = OneLess(@)]]
  /\ extra' = IF openFor' = 0 THEN NoRequests ELSE extra
  /\ UNCHANGED <<consecutiveFailures, streak>>

PostEnds(c) == Answer(c) \/ UnreadableAnswer(c) \/ PostFails(c)

RouterNext ==
  \/ Tick
  \/ \E c \in Callers : FastFail(c) \/ Chat(c) \/ PostEnds(c) \/ Retry(c)

\* Time passes, the HTTP client has a timeout, sleepers wake up.  Nobody has
\* to call chat.
RouterFairness ==
  /\ WF_routerVars(Tick)
  /\ \A c \in Callers : WF_routerVars(PostEnds(c)) /\ WF_routerVars(Retry(c))

RouterSpec == RouterInit /\ [][RouterNext]_routerVars /\ RouterFairness

-----------------------------------------------------------------------------
(***************************************************************************)
(* Properties                                                              *)
(***************************************************************************)
\* The types of the breaker and of the calls of chat.
RouterTypeOK ==
  /\ consecutiveFailures \in Nat
  /\ openFor \in 0..CircuitResetSeconds
  /\ calls \in [Callers -> [at : {"caller", "post", "sleep"},
                            attempt : 0..MaxRetries - 1,
                            wait : Nat]]
  /\ streak \in 0..CircuitThreshold
  /\ extra \in [Callers -> Nat]

\* chat fast-fails "after consecutive failures": whatever the order in which
\* concurrent attempts end, an open breaker has seen CircuitThreshold of them
\* fail and none return since.
FastFailIsEarned == Open => streak = CircuitThreshold

\* chat looks at the breaker once, before its first attempt: while the breaker
\* is open a failing provider still gets retries, but from each caller at most
\* those of the one call that was in flight.
OpenBreakerShedsLoad ==
  Open => \A c \in Callers : extra[c] <= MaxRetries - 1

\* An open breaker closes again, although every failing retry of a call in
\* flight extends the time it is open.
BreakerRecovers == []<>~Open

\* The comment in LLMRouter.__init__ on the threshold: "Trip after 5
\* consecutive failures".
TripsAfterThreshold == streak = CircuitThreshold => Tripped

=============================================================================
