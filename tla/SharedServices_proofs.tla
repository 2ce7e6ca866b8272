------------------------ MODULE SharedServices_proofs ------------------------
(***************************************************************************)
(* Theorems about the two objects of a process that all its requests go    *)
(* through: the circuit breaker of the LLM router, for any callers,        *)
(* threshold, reset time and number of attempts, and the MCP handler, for  *)
(* any requests, clients, sessions, limits and lifetimes.                  *)
(***************************************************************************)
EXTENDS LLMRouter, MCP, Data_proofs

-----------------------------------------------------------------------------
(***************************************************************************)
(* The inductive invariant                                                 *)
(***************************************************************************)
\* The failures the breaker has counted happened in a row.
FailuresAreEarned ==
  /\ consecutiveFailures < CircuitThreshold => consecutiveFailures <= streak
  /\ Tripped => streak = CircuitThreshold

\* A caller's requests since the breaker opened are retries of one call.
ExtraAreRetries ==
  IF Open
    THEN \A c \in Callers :
           /\ extra[c] <= MaxRetries - 1
           /\ calls[c].at # "caller" => extra[c] <= calls[c].attempt
    ELSE extra = NoRequests

\* Only a call that will be tried again sleeps.
SleepersRetry ==
  \A c \in Callers : calls[c].at = "sleep" => calls[c].attempt < MaxRetries - 1

IInv ==
  /\ RouterTypeOK
  /\ FailuresAreEarned
  /\ ExtraAreRetries
  /\ SleepersRetry

-----------------------------------------------------------------------------
(***************************************************************************)
(* The invariant is inductive                                              *)
(***************************************************************************)
THEOREM InitIInv == RouterInit => IInv
BY RouterAssumption
DEF RouterInit, IInv, RouterTypeOK, NoCall, NoRequests, FailuresAreEarned, ExtraAreRetries,
    SleepersRetry, Open, Tripped

\* RecordFailure and RetryOrRaise, as they are used together when an attempt
\* of c fails after n failures.
LEMMA FailedAttempt ==
  ASSUME IInv, NEW c \in Callers, calls[c].at = "post",
         NEW n \in Nat, n <= streak \/ streak = CircuitThreshold,
         n >= CircuitThreshold => Tripped,
         RecordFailure(n), RetryOrRaise(c)
  PROVE  IInv'
<1>1. /\ consecutiveFailures' \in Nat /\ openFor' \in 0..CircuitResetSeconds
      /\ streak' \in 0..CircuitThreshold /\ extra' \in [Callers -> Nat]
  BY RouterAssumption DEF IInv, RouterTypeOK, RecordFailure, NoRequests
<1>2. /\ calls[c] \in [at : {"caller", "post", "sleep"}, attempt : 0..MaxRetries - 1, wait : Nat]
      /\ calls \in [Callers -> [at : {"caller", "post", "sleep"},
                                attempt : 0..MaxRetries - 1, wait : Nat]]
  BY DEF IInv, RouterTypeOK
<1>3. /\ \A d \in Callers : d # c => calls'[d] = calls[d]
      /\ calls'[c].at # "caller" =>
           calls'[c].attempt = calls[c].attempt /\ calls[c].attempt < MaxRetries - 1
      /\ calls' \in [Callers -> [at : {"caller", "post", "sleep"},
                                attempt : 0..MaxRetries - 1, wait : Nat]]
  <2>1. CASE calls[c].attempt < MaxRetries - 1
    <3>1. Backoff[calls[c].attempt] \in Nat
      BY <1>2, RouterAssumption
    <3> QED
      BY <1>2, <2>1, <3>1 DEF RetryOrRaise, AttemptsLeft
  <2>2. CASE ~(calls[c].attempt < MaxRetries - 1)
    BY <1>2, <2>2, RouterAssumption DEF RetryOrRaise, AttemptsLeft, NoCall
  <2> QED
    BY <2>1, <2>2
<1>4. RouterTypeOK'
  BY <1>1, <1>3 DEF RouterTypeOK
<1>5. FailuresAreEarned'
  BY RouterAssumption DEF IInv, RouterTypeOK, FailuresAreEarned, RecordFailure, Tripped
<1>6. ExtraAreRetries'
  <2>1. CASE n + 1 >= CircuitThreshold
    <3>1. Open' /\ extra' = extra
      BY <2>1, RouterAssumption DEF RecordFailure, Open, Tripped
    <3>2. \A d \in Callers :
            /\ extra[d] <= MaxRetries - 1
            /\ calls[d].at # "caller" => extra[d] <= calls[d].attempt
      <4>1. CASE Open
        BY <4>1 DEF IInv, ExtraAreRetries
      <4>2. CASE ~Open
        <5>1. extra = NoRequests
          BY <4>2 DEF IInv, ExtraAreRetries
        <5> QED
          BY <5>1, RouterAssumption DEF NoRequests, IInv, RouterTypeOK
      <4> QED
        BY <4>1, <4>2
    <3> QED
      BY <1>3, <3>1, <3>2 DEF ExtraAreRetries
  <2>2. CASE ~(n + 1 >= CircuitThreshold)
    BY <2>2 DEF RecordFailure, ExtraAreRetries, Open, Tripped
  <2> QED
    BY <2>1, <2>2
<1>7. SleepersRetry'
  BY <1>3 DEF IInv, SleepersRetry
<1> QED
  BY <1>4, <1>5, <1>6, <1>7 DEF IInv

THEOREM NextIInv == IInv /\ [RouterNext]_routerVars => IInv'
<1> SUFFICES ASSUME IInv, [RouterNext]_routerVars PROVE IInv'
  OBVIOUS
<1> USE DEF breaker
<1>1. CASE Tick
  <2>1. \A c \in Callers : /\ calls'[c].at = calls[c].at
                           /\ calls'[c].attempt = calls[c].attempt
                           /\ calls'[c].wait \in Nat
    BY <1>1 DEF Tick, OneLess, IInv, RouterTypeOK
  <2>2. /\ openFor' \in 0..CircuitResetSeconds
        /\ openFor' > 0 => openFor > 0
        /\ UNCHANGED <<consecutiveFailures, streak>>
    BY <1>1, RouterAssumption DEF Tick, OneLess, IInv, RouterTypeOK
  <2>3. RouterTypeOK'
    <3>1. calls' \in [Callers -> [at : {"caller", "post", "sleep"},
                                 attempt : 0..MaxRetries - 1, wait : Nat]]
      <4>1. ASSUME NEW c \in Callers
            PROVE  [calls[c] EXCEPT !.wait = OneLess(@)]
                     \in [at : {"caller", "post", "sleep"}, attempt : 0..MaxRetries - 1, wait : Nat]
        <5>1. calls[c] \in [at : {"caller", "post", "sleep"}, attempt : 0..MaxRetries - 1, wait : Nat]
          BY DEF IInv, RouterTypeOK
        <5>2. OneLess(calls[c].wait) \in Nat
          BY <5>1 DEF OneLess
        <5> QED
          BY <5>1, <5>2
      <4>2. calls' = [c \in Callers |-> [calls[c] EXCEPT !.wait = OneLess(@)]]
        BY <1>1 DEF Tick
      <4> QED
        BY <4>1, <4>2
    <3>2. extra' \in [Callers -> Nat]
      <4>1. extra \in [Callers -> Nat] /\ (extra' = NoRequests \/ extra' = extra)
        BY <1>1 DEF Tick, IInv, RouterTypeOK
      <4>2. NoRequests \in [Callers -> Nat]
        BY DEF NoRequests
      <4> QED
        BY <4>1, <4>2
    <3> QED
      BY <2>2, <3>1, <3>2 DEF IInv, RouterTypeOK
  <2>4. FailuresAreEarned' /\ SleepersRetry'
    BY <2>1, <2>2 DEF IInv, FailuresAreEarned, SleepersRetry, Tripped
  <2>5. ExtraAreRetries'
    <3>1. CASE openFor' = 0
      BY <1>1, <3>1 DEF Tick, ExtraAreRetries, Open
    <3>2. CASE openFor' # 0
      <4>1. extra' = extra /\ Open' = Open
        BY <1>1, <2>2, <3>2 DEF Tick, Open, Tripped, IInv, RouterTypeOK
      <4> QED
        BY <2>1, <4>1 DEF IInv, ExtraAreRetries
    <3> QED
      BY <3>1, <3>2
  <2> QED
    BY <2>3, <2>4, <2>5 DEF IInv
<1>2. ASSUME NEW c \in Callers, Chat(c) PROVE IInv'
  <2>1. /\ calls' = [calls EXCEPT ![c].at = "post"]
        /\ calls[c].at = "caller" /\ openFor' = openFor
    BY <1>2 DEF Chat
  <2>2. RouterTypeOK' /\ SleepersRetry'
    <3>1. /\ calls' \in [Callers -> [at : {"caller", "post", "sleep"},
                                    attempt : 0..MaxRetries - 1, wait : Nat]]
          /\ \A d \in Callers : d # c => calls'[d] = calls[d]
          /\ calls'[c].at = "post"
      BY <2>1 DEF IInv, RouterTypeOK
    <3>2. /\ consecutiveFailures' \in Nat /\ streak' \in 0..CircuitThreshold
          /\ extra' \in [Callers -> Nat]
      <4>1. CASE Tripped
        <5>1. consecutiveFailures' = 0 /\ streak' = 0 /\ extra' = NoRequests
          BY <1>2, <4>1 DEF Chat
        <5>2. NoRequests \in [Callers -> Nat] /\ 0 \in 0..CircuitThreshold
          BY RouterAssumption DEF NoRequests
        <5> QED
          BY <5>1, <5>2
      <4>2. CASE ~Tripped
        <5>1. UNCHANGED <<consecutiveFailures, streak, extra>>
          BY <1>2, <4>2 DEF Chat
        <5> QED
          BY <5>1 DEF IInv, RouterTypeOK
      <4> QED
        BY <4>1, <4>2
    <3> QED
      BY <2>1, <3>1, <3>2 DEF IInv, RouterTypeOK, SleepersRetry
  <2>3. extra' = NoRequests /\ ~Open'
    BY <1>2, RouterAssumption DEF Chat, IInv, ExtraAreRetries, Open, Tripped
  <2>4. FailuresAreEarned'
    BY <1>2, RouterAssumption DEF Chat, IInv, RouterTypeOK, FailuresAreEarned, Tripped
  <2> QED
    BY <2>2, <2>3, <2>4 DEF IInv, ExtraAreRetries
<1>3. ASSUME NEW c \in Callers, Answer(c) PROVE IInv'
  <2>1. RouterTypeOK' /\ SleepersRetry'
    BY <1>3, RouterAssumption DEF Answer, IInv, RouterTypeOK, SleepersRetry, NoRequests, NoCall
  <2>2. FailuresAreEarned' /\ ExtraAreRetries'
    BY <1>3, RouterAssumption DEF Answer, FailuresAreEarned, ExtraAreRetries, Open, Tripped
  <2> QED
    BY <2>1, <2>2 DEF IInv
<1>4. ASSUME NEW c \in Callers, UnreadableAnswer(c) \/ PostFails(c) PROVE IInv'
  <2>1. CASE UnreadableAnswer(c)
    <3>1. calls[c].at = "post" /\ RecordFailure(0) /\ RetryOrRaise(c)
      BY <2>1 DEF UnreadableAnswer
    <3>2. 0 \in Nat /\ 0 <= streak /\ (0 >= CircuitThreshold => Tripped)
      BY RouterAssumption DEF IInv, RouterTypeOK
    <3> QED
      BY <3>1, <3>2, FailedAttempt
  <2>2. CASE PostFails(c)
    <3>1. calls[c].at = "post" /\ RecordFailure(consecutiveFailures) /\ RetryOrRaise(c)
      BY <2>2 DEF PostFails
    <3>2. /\ consecutiveFailures \in Nat
          /\ consecutiveFailures <= streak \/ streak = CircuitThreshold
          /\ consecutiveFailures >= CircuitThreshold => Tripped
      BY RouterAssumption DEF IInv, RouterTypeOK, FailuresAreEarned, Tripped
    <3> QED
      BY <3>1, <3>2, FailedAttempt
  <2> QED
    BY <1>4, <2>1, <2>2
<1>5. ASSUME NEW c \in Callers, Retry(c) PROVE IInv'
  <2>1. /\ calls[c].at = "sleep" /\ calls[c].attempt < MaxRetries - 1
        /\ calls[c].attempt \in Nat
        /\ calls' = [calls EXCEPT ![c].at = "post", ![c].attempt = @ + 1]
        /\ UNCHANGED <<consecutiveFailures, openFor, streak>>
    BY <1>5 DEF Retry, IInv, RouterTypeOK, SleepersRetry
  <2>2. /\ calls'[c].attempt = calls[c].attempt + 1
        /\ \A d \in Callers : d # c => calls'[d] = calls[d]
        /\ calls' \in [Callers -> [at : {"caller", "post", "sleep"},
                                  attempt : 0..MaxRetries - 1, wait : Nat]]
    <3>1. calls \in [Callers -> [at : {"caller", "post", "sleep"},
                                 attempt : 0..MaxRetries - 1, wait : Nat]]
      BY DEF IInv, RouterTypeOK
    <3>2. calls[c].attempt + 1 \in 0..MaxRetries - 1
      BY <2>1, RouterAssumption
    <3>3. [calls[c] EXCEPT !.at = "post", !.attempt = @ + 1]
            \in [at : {"caller", "post", "sleep"}, attempt : 0..MaxRetries - 1, wait : Nat]
      BY <3>1, <3>2
    <3>4. calls' = [calls EXCEPT ![c] = [calls[c] EXCEPT !.at = "post", !.attempt = @ + 1]]
      BY <2>1, <3>1
    <3> QED
      BY <3>1, <3>3, <3>4
  <2>3. extra' = (IF Open THEN [extra EXCEPT ![c] = @ + 1] ELSE extra)
    BY <1>5 DEF Retry
  <2>4. RouterTypeOK'
    BY <2>1, <2>2, <2>3 DEF IInv, RouterTypeOK
  <2>5. FailuresAreEarned' /\ SleepersRetry'
    BY <2>1, <2>2 DEF IInv, FailuresAreEarned, SleepersRetry, Tripped
  <2>6. Open' = Open
    BY <2>1 DEF Open, Tripped
  <2>7. ExtraAreRetries'
    <3>1. CASE Open
      <4>1. \A d \in Callers :
              /\ extra[d] \in Nat /\ extra[d] <= MaxRetries - 1
              /\ calls[d].at # "caller" => extra[d] <= calls[d].attempt
        BY <3>1 DEF IInv, RouterTypeOK, ExtraAreRetries
      <4>2. /\ extra'[c] = extra[c] + 1
            /\ \A d \in Callers : d # c => extra'[d] = extra[d]
        BY <2>3, <3>1 DEF IInv, RouterTypeOK
      <4>3. extra'[c] <= MaxRetries - 1 /\ extra'[c] <= calls'[c].attempt
        BY <2>1, <2>2, <4>1, <4>2, RouterAssumption
      <4> QED
        BY <2>2, <2>6, <3>1, <4>1, <4>2, <4>3 DEF ExtraAreRetries
    <3>2. CASE ~Open
      BY <2>3, <2>6, <3>2 DEF IInv, ExtraAreRetries
    <3> QED
      BY <3>1, <3>2
  <2> QED
    BY <2>4, <2>5, <2>7 DEF IInv
<1>6. CASE UNCHANGED routerVars
  BY <1>6
  DEF routerVars, IInv, RouterTypeOK, FailuresAreEarned, ExtraAreRetries, SleepersRetry, Open, Tripped
<1> QED
  BY <1>1, <1>2, <1>3, <1>4, <1>5, <1>6 DEF RouterNext, PostEnds, FastFail

\* The invariant holds in every reachable state.
THEOREM Invariance == RouterSpec => []IInv
BY InitIInv, NextIInv, PTL DEF RouterSpec

-----------------------------------------------------------------------------
(***************************************************************************)
(* What follows for every instance                                         *)
(***************************************************************************)
\* The breaker and the calls keep their types.
THEOREM TypeCorrect == RouterSpec => []RouterTypeOK
<1>1. IInv => RouterTypeOK
  BY DEF IInv
<1> QED
  BY <1>1, Invariance, PTL

\* However many callers share the breaker, it opens only after
\* CircuitThreshold failures in a row.
THEOREM FastFailsAreEarned == RouterSpec => []FastFailIsEarned
<1>1. IInv => FastFailIsEarned
  BY DEF IInv, FailuresAreEarned, FastFailIsEarned, Open
<1> QED
  BY <1>1, Invariance, PTL

\* While the breaker is open, each caller sends at most the retries of one call.
THEOREM LoadIsShed == RouterSpec => []OpenBreakerShedsLoad
<1>1. IInv => OpenBreakerShedsLoad
  BY DEF IInv, ExtraAreRetries, OpenBreakerShedsLoad
<1> QED
  BY <1>1, Invariance, PTL

-----------------------------------------------------------------------------
(***************************************************************************)
(* The MCP handler                                                         *)
(***************************************************************************)
\* The ages of sessions and subscriptions; finitely many of them.
TablesTyped ==
  /\ DOMAIN sessions \subseteq SessionIds
  /\ sessions \in [DOMAIN sessions -> 0..SessionTTL + 1]
  /\ DOMAIN subscriptions \subseteq SubscriptionIds
  /\ DOMAIN born \subseteq SessionIds
  /\ born \in [DOMAIN born -> 0..SessionTTL + 1]

\* born knows the sessions there are, with their age.
SessionsAreBorn ==
  \A s \in DOMAIN sessions : s \in DOMAIN born /\ born[s] = sessions[s]

\* While nothing else arrives, a request that waits finds its own id.
FieldIsOwn ==
  \A r \in Requests :
    exchanges[r].at = "waiting" /\ r \notin overlapped => requestId = IdOf(r)

CallsTyped ==
  exchanges \in [Requests -> [at : {"idle", "waiting", "answered"},
                          client : Clients \cup {NoId}, id : Ids, kind : Kinds]]

IdInv == CallsTyped /\ FieldIsOwn /\ OwnIdUnlessOverlapped
TableInv == TablesTyped /\ SessionsAreBorn /\ TablesBounded /\ SessionsAreKept

-----------------------------------------------------------------------------
(***************************************************************************)
(* The id of a response                                                    *)
(***************************************************************************)
LEMMA IdsTyped ==
  ASSUME NEW r \in Requests, NEW id \in Requests \cup {NoId}
  PROVE  /\ IdOf(r) \in Requests \cup {NoId} /\ IdOf(r) \in Ids
         /\ ResponseId(id) \in Ids
         /\ OwnId(r, IdOf(r)) /\ OwnId(r, ResponseId(IdOf(r)))
BY MCPAssumption DEF IdOf, ResponseId, Ids, OwnId

\* A request that arrives and is answered or starts to wait.
LEMMA ArriveKeepsIdInv ==
  ASSUME IdInv, NEW r \in Requests, NEW c \in Clients, Arrive(r),
         NEW e, exchanges' = [exchanges EXCEPT ![r] = e],
         e \in [at : {"waiting", "answered"}, client : Clients,
                id : Ids, kind : Kinds],
         e.at = "answered" => OwnId(r, e.id)
  PROVE  IdInv'
<1>1. CallsTyped'
  BY DEF IdInv, CallsTyped
<1>2. ASSUME NEW q \in Requests, q \notin overlapped', q # r
      PROVE  exchanges'[q] = exchanges[q] /\ exchanges[q].at # "waiting" /\ q \notin overlapped
  BY <1>2 DEF IdInv, CallsTyped, Arrive
<1>3. exchanges'[r] = e
  BY DEF IdInv, CallsTyped
<1>4. FieldIsOwn'
  BY <1>2, <1>3 DEF FieldIsOwn, Arrive, IdOf
<1>5. OwnIdUnlessOverlapped'
  BY <1>2, <1>3 DEF IdInv, OwnIdUnlessOverlapped, OwnId
<1> QED BY <1>1, <1>4, <1>5 DEF IdInv

LEMMA RespondKeepsIdInv ==
  ASSUME IdInv, NEW r \in Requests, NEW c \in Clients, Arrive(r),
         NEW id, NEW kind \in Kinds, Respond(r, c, id, kind),
         id = IdOf(r) \/ id = ResponseId(requestId')
  PROVE  IdInv'
<1>1. requestId' = IdOf(r)
  BY DEF Arrive
<1>2. id \in Ids /\ OwnId(r, id)
  BY <1>1, IdsTyped
<1> DEFINE e == [at |-> "answered", client |-> c, id |-> id, kind |-> kind]
<1>3. /\ exchanges' = [exchanges EXCEPT ![r] = e]
      /\ e \in [at : {"waiting", "answered"}, client : Clients, id : Ids, kind : Kinds]
      /\ e.at = "answered" => OwnId(r, e.id)
  BY <1>2 DEF Respond
<1> HIDE DEF e
<1> QED BY <1>3, ArriveKeepsIdInv

LEMMA InitIdInv == MCPInit => IdInv
BY DEF MCPInit, IdInv, CallsTyped, FieldIsOwn, OwnIdUnlessOverlapped, Idle, Ids, Kinds

LEMMA NextIdInv == requestId \in Requests \cup {NoId} /\ IdInv /\ [MCPNext]_mcpVars => IdInv'
<1> SUFFICES ASSUME requestId \in Requests \cup {NoId}, IdInv, [MCPNext]_mcpVars
             PROVE  IdInv'
  OBVIOUS
<1>1. CASE UNCHANGED <<requestId, exchanges, overlapped>>
  BY <1>1 DEF IdInv, CallsTyped, FieldIsOwn, OwnIdUnlessOverlapped, OwnId, IdOf
<1>2. ASSUME NEW r \in Requests, FinishWork(r)
      PROVE  IdInv'
  <2>1. PICK kind \in {"result", "error"} :
          Respond(r, exchanges[r].client, ResponseId(requestId), kind)
    BY <1>2 DEF FinishWork
  <2>2. UNCHANGED <<requestId, overlapped>> /\ exchanges[r].at = "waiting"
    BY <1>2 DEF FinishWork
  <2>3. /\ \A q \in Requests \ {r} : exchanges'[q] = exchanges[q]
        /\ exchanges'[r].at = "answered" /\ exchanges'[r].id = ResponseId(requestId)
    BY <2>1 DEF Respond, IdInv, CallsTyped
  <2>4. CallsTyped'
    BY <2>1, IdsTyped DEF Respond, IdInv, CallsTyped, Kinds
  <2>5. r \notin overlapped => OwnId(r, ResponseId(requestId))
    BY <2>2, IdsTyped DEF IdInv, FieldIsOwn
  <2> QED
    BY <2>2, <2>3, <2>4, <2>5
    DEF IdInv, FieldIsOwn, OwnIdUnlessOverlapped, OwnId, IdOf
<1>3. ASSUME NEW r \in Requests, WorkRaises(r)
      PROVE  IdInv'
  BY <1>3 DEF WorkRaises, IdInv, CallsTyped, FieldIsOwn, OwnIdUnlessOverlapped,
              OwnId, IdOf, Idle, Ids, Kinds
<1>4. ASSUME NEW r \in Requests, NEW c \in Clients,
             \/ RateLimited(r, c) \/ AnswerAtOnce(r, c) \/ MethodNotFound(r, c)
             \/ \E s \in SessionIds : SessionGet(r, c, s) \/ SessionSet(r, c, s)
             \/ \E s \in SubscriptionIds : Listen(r, c, s) \/ Unsubscribe(r, c, s)
      PROVE  IdInv'
  <2>1. /\ Arrive(r)
        /\ \E kind \in Kinds, id \in {IdOf(r), ResponseId(requestId')} :
             Respond(r, c, id, kind)
    BY <1>4, Zenon DEF RateLimited, AnswerAtOnce, MethodNotFound, SessionGet,
                SessionSet, Listen, Unsubscribe, Kinds
  <2> QED BY <2>1, RespondKeepsIdInv
<1>5. ASSUME NEW r \in Requests, NEW c \in Clients, StartWork(r, c)
      PROVE  IdInv'
  <2> DEFINE e == [at |-> "waiting", client |-> c, id |-> NoId, kind |-> "none"]
  <2>1. /\ Arrive(r)
        /\ exchanges' = [exchanges EXCEPT ![r] = e]
        /\ e \in [at : {"waiting", "answered"}, client : Clients, id : Ids, kind : Kinds]
        /\ e.at # "answered"
    BY <1>5 DEF StartWork, Ids, Kinds
  <2> HIDE DEF e
  <2> QED BY <2>1, ArriveKeepsIdInv
<1>6. CASE MCPTick
  BY <1>6, <1>1 DEF MCPTick
<1>7. CASE UNCHANGED mcpVars
  BY <1>7, <1>1 DEF mcpVars
<1> QED BY <1>2, <1>3, <1>4, <1>5, <1>6, <1>7 DEF MCPNext

\* A step of the handler, table by table: time passes, work ends and touches no
\* table, or a request arrives, meets the limit and the evictions, and may write
\* one entry of a table.
LEMMA MCPSteps ==
  ASSUME [MCPNext]_mcpVars
  PROVE  \/ MCPTick
         \/ UNCHANGED <<requestId, tables, limits, overlapped, born>>
         \/ \E r \in Requests, c \in Clients :
              /\ Arrive(r)
              /\ \/ Accept(c)
                 \/ rateLimits' = [rateLimits EXCEPT ![c] = Recent(c)] /\ UNCHANGED accepted
              /\ \/ sessions' \in SessionEvictions /\ UNCHANGED born
                 \/ \E s \in SessionIds : SessionSet(r, c, s)
              /\ \/ subscriptions' \in SubscriptionEvictions
                 \/ \E s \in SubscriptionIds : Listen(r, c, s) \/ Unsubscribe(r, c, s)
<1>1. \/ MCPTick
      \/ UNCHANGED mcpVars
      \/ \E r \in Requests : FinishWork(r) \/ WorkRaises(r)
      \/ \E r \in Requests, c \in Clients : RateLimited(r, c)
      \/ \E r \in Requests, c \in Clients :
           \/ AnswerAtOnce(r, c) \/ MethodNotFound(r, c) \/ StartWork(r, c)
           \/ \E s \in SessionIds : SessionGet(r, c, s)
      \/ \E r \in Requests, c \in Clients, s \in SessionIds : SessionSet(r, c, s)
      \/ \E r \in Requests, c \in Clients, s \in SubscriptionIds :
           Listen(r, c, s) \/ Unsubscribe(r, c, s)
  BY Zenon DEF MCPNext
<1>2. CASE UNCHANGED mcpVars
  BY <1>2 DEF mcpVars, tables, limits
<1>3. CASE \E r \in Requests : FinishWork(r) \/ WorkRaises(r)
  BY <1>3 DEF FinishWork, WorkRaises
<1>4. CASE \E r \in Requests, c \in Clients : RateLimited(r, c)
  <2>1. PICK r \in Requests, c \in Clients : RateLimited(r, c)
    BY <1>4
  <2>2. /\ Arrive(r) /\ sessions' \in SessionEvictions /\ UNCHANGED born
        /\ rateLimits' = [rateLimits EXCEPT ![c] = Recent(c)] /\ UNCHANGED accepted
        /\ subscriptions' \in SubscriptionEvictions
    BY <2>1 DEF RateLimited
  <2> QED
    BY <2>2, Zenon
<1>5. CASE \E r \in Requests, c \in Clients :
             \/ AnswerAtOnce(r, c) \/ MethodNotFound(r, c) \/ StartWork(r, c)
             \/ \E s \in SessionIds : SessionGet(r, c, s)
  <2>1. PICK r \in Requests, c \in Clients :
          \/ AnswerAtOnce(r, c) \/ MethodNotFound(r, c) \/ StartWork(r, c)
          \/ \E s \in SessionIds : SessionGet(r, c, s)
    BY <1>5
  <2>2. /\ Arrive(r) /\ Accept(c) /\ sessions' \in SessionEvictions /\ UNCHANGED born
        /\ subscriptions' \in SubscriptionEvictions
    BY <2>1 DEF AnswerAtOnce, MethodNotFound, StartWork, SessionGet
  <2> QED
    BY <2>2, Zenon
<1>6. CASE \E r \in Requests, c \in Clients, s \in SessionIds : SessionSet(r, c, s)
  <2>1. PICK r \in Requests, c \in Clients, s \in SessionIds : SessionSet(r, c, s)
    BY <1>6
  <2>2. Arrive(r) /\ Accept(c) /\ subscriptions' \in SubscriptionEvictions
    BY <2>1 DEF SessionSet
  <2> QED
    BY <2>1, <2>2, Zenon
<1>7. CASE \E r \in Requests, c \in Clients, s \in SubscriptionIds :
             Listen(r, c, s) \/ Unsubscribe(r, c, s)
  <2>1. PICK r \in Requests, c \in Clients, s \in SubscriptionIds :
          Listen(r, c, s) \/ Unsubscribe(r, c, s)
    BY <1>7
  <2>2. Arrive(r) /\ Accept(c) /\ sessions' \in SessionEvictions /\ UNCHANGED born
    BY <2>1 DEF Listen, Unsubscribe
  <2> QED
    BY <2>1, <2>2, Zenon
<1> QED
  BY <1>1, <1>2, <1>3, <1>4, <1>5, <1>6, <1>7, Zenon

LEMMA RequestIdTyped ==
  requestId \in Requests \cup {NoId} /\ [MCPNext]_mcpVars =>
    (requestId \in Requests \cup {NoId})'
<1> SUFFICES ASSUME requestId \in Requests \cup {NoId}, [MCPNext]_mcpVars
             PROVE  requestId' \in Requests \cup {NoId}
  OBVIOUS
<1>1. \/ requestId' = requestId
      \/ \E r \in Requests : Arrive(r)
  BY MCPSteps, Zenon DEF MCPTick
<1> QED BY <1>1 DEF Arrive, IdOf

\* A response carries another id than that of its request only if another
\* request arrived while it was worked on: nothing else about the shared
\* _request_id of handle_request can go wrong.
THEOREM ResponsesCarryOwnId == MCPSpec => []OwnIdUnlessOverlapped
<1> DEFINE I == requestId \in Requests \cup {NoId} /\ IdInv
<1>1. MCPInit => I
  BY InitIdInv DEF MCPInit
<1>2. I /\ [MCPNext]_mcpVars => I'
  BY NextIdInv, RequestIdTyped
<1>3. I => OwnIdUnlessOverlapped
  BY DEF IdInv
<1> QED BY <1>1, <1>2, <1>3, PTL DEF MCPSpec

-----------------------------------------------------------------------------
(***************************************************************************)
(* What _evict_expired_sessions keeps                                      *)
(***************************************************************************)
LEMMA EvictionFacts ==
  ASSUME NEW table, NEW ttl, NEW max, NEW t \in Evictions(table, ttl, max)
  PROVE  /\ DOMAIN t \subseteq DOMAIN table
         /\ \A i \in DOMAIN t : t[i] = table[i]
         /\ Cardinality(DOMAIN t) <= max
         /\ \A j \in Live(table, ttl) \ DOMAIN t :
              /\ Cardinality(DOMAIN t) = max
              /\ \A i \in DOMAIN t : table[i] <= table[j]
<1>1. PICK k \in SUBSET Live(table, ttl) :
        /\ t = Only(table, k)
        /\ Cardinality(k) <= max
        /\ k # Live(table, ttl) => Cardinality(k) = max
        /\ \A i \in k, j \in Live(table, ttl) \ k : table[i] <= table[j]
  BY DEF Evictions
<1>2. DOMAIN t = k /\ \A i \in k : t[i] = table[i]
  BY <1>1 DEF Only
<1> QED BY <1>1, <1>2 DEF Live

LEMMA OneMore ==
  ASSUME NEW S, IsFiniteSet(S), NEW max \in Nat, Cardinality(S) <= max, NEW x
  PROVE  Cardinality(S \cup {x}) <= max + 1
<1>1. Cardinality(S) \in Nat
  BY FS_CardinalityType
<1>2. Cardinality(S \cup {x}) = IF x \in S THEN Cardinality(S) ELSE Cardinality(S) + 1
  BY FS_AddElement
<1> QED BY <1>1, <1>2

LEMMA Fewer ==
  ASSUME NEW S, IsFiniteSet(S), NEW T \in SUBSET S
  PROVE  IsFiniteSet(T) /\ Cardinality(T) \in Nat /\ Cardinality(S) \in Nat
         /\ Cardinality(T) <= Cardinality(S)
BY FS_Subset, FS_CardinalityType

\* The sessions created since and up to when s was, by their ages b.
Since(b, s) == {t \in DOMAIN b \ {s} : b[t] <= b[s]}

\* SessionsAreKept for a table of sessions and the history b.
Keeps(table, b) ==
  \A s \in DOMAIN b : b[s] <= SessionTTL /\ s \notin DOMAIN table =>
    Cardinality(Since(b, s)) >= MaxSessions

LEMMA KeepsMeans == SessionsAreKept <=> Keeps(sessions, born)
BY DEF SessionsAreKept, Keeps, Since

LEMMA BornFacts ==
  ASSUME TableInv
  PROVE  /\ \A s \in DOMAIN born : born[s] \in 0..SessionTTL + 1
         /\ \A s \in DOMAIN sessions : sessions[s] \in 0..SessionTTL + 1
         /\ \A s : IsFiniteSet(Since(born, s))
         /\ IsFiniteSet(DOMAIN born)
<1>1. IsFiniteSet(DOMAIN born)
  BY MCPAssumption, FS_Subset DEF TableInv, TablesTyped
<1>2. ASSUME NEW s PROVE IsFiniteSet(Since(born, s))
  <2>1. Since(born, s) \subseteq DOMAIN born
    BY DEF Since
  <2> QED BY <1>1, <2>1, FS_Subset
<1> QED BY <1>1, <1>2 DEF TableInv, TablesTyped

\* Eviction drops a live session only when MaxSessions others, no older, stay.
LEMMA EvictionKeeps ==
  ASSUME TableInv, NEW kept \in SessionEvictions
  PROVE  Keeps(kept, born)
<1>1. SUFFICES ASSUME NEW s \in DOMAIN born, born[s] <= SessionTTL, s \notin DOMAIN kept
               PROVE  Cardinality(Since(born, s)) >= MaxSessions
  BY DEF Keeps
<1>2. CASE s \notin DOMAIN sessions
  BY <1>1, <1>2, KeepsMeans DEF TableInv, Keeps
<1>3. CASE s \in DOMAIN sessions
  <2>1. s \in Live(sessions, SessionTTL) \ DOMAIN kept
    BY <1>1, <1>3 DEF Live, TableInv, SessionsAreBorn
  <2>2. /\ Cardinality(DOMAIN kept) = MaxSessions
        /\ \A i \in DOMAIN kept : i \in DOMAIN sessions /\ sessions[i] <= sessions[s]
    BY <2>1, EvictionFacts DEF SessionEvictions
  <2>3. DOMAIN kept \in SUBSET Since(born, s)
    BY <1>1, <1>3, <2>2 DEF Since, TableInv, SessionsAreBorn
  <2>4. Cardinality(DOMAIN kept) <= Cardinality(Since(born, s))
        /\ Cardinality(Since(born, s)) \in Nat
    BY <2>3, Fewer, BornFacts
  <2> QED BY <2>2, <2>4, MCPAssumption
<1> QED BY <1>2, <1>3

-----------------------------------------------------------------------------
(***************************************************************************)
(* The three ways in which the sessions change                             *)
(***************************************************************************)
SessionsInv ==
  /\ DOMAIN sessions \subseteq SessionIds
  /\ sessions \in [DOMAIN sessions -> 0..SessionTTL + 1]
  /\ DOMAIN born \subseteq SessionIds
  /\ born \in [DOMAIN born -> 0..SessionTTL + 1]
  /\ SessionsAreBorn
  /\ Cardinality(DOMAIN sessions) <= MaxSessions + 1
  /\ Keeps(sessions, born)

LEMMA EvictKeepsInv ==
  ASSUME TableInv, sessions' \in SessionEvictions, born' = born
  PROVE  SessionsInv'
<1>1. /\ DOMAIN sessions' \subseteq DOMAIN sessions
      /\ \A i \in DOMAIN sessions' : sessions'[i] = sessions[i]
      /\ Cardinality(DOMAIN sessions') <= MaxSessions
  BY EvictionFacts DEF SessionEvictions
<1>2. sessions' = [i \in DOMAIN sessions' |-> sessions'[i]]
  <2>1. PICK k : sessions' = Only(sessions, k)
    BY DEF SessionEvictions, Evictions
  <2> QED BY <2>1 DEF Only
<1>3. IsFiniteSet(DOMAIN sessions')
  BY <1>1, MCPAssumption, FS_Subset DEF TableInv, TablesTyped
<1>4. Cardinality(DOMAIN sessions') <= MaxSessions + 1
  BY <1>1, <1>3, MCPAssumption, FS_CardinalityType
<1>5. Keeps(sessions', born')
  BY EvictionKeeps
<1>6. SessionsAreBorn'
  BY <1>1 DEF TableInv, SessionsAreBorn
<1>7. sessions' \in [DOMAIN sessions' -> 0..SessionTTL + 1]
  BY <1>1, <1>2, BornFacts
<1> QED
  BY <1>1, <1>4, <1>5, <1>6, <1>7 DEF SessionsInv, TableInv, TablesTyped, Keeps

\* session/set: an eviction, then perhaps a new session, the youngest.
LEMMA SetKeepsInv ==
  ASSUME TableInv, NEW s \in SessionIds, NEW kept \in SessionEvictions,
         sessions' = With(kept, s),
         born' = IF s \in DOMAIN kept THEN born
                 ELSE [t \in DOMAIN born \cup {s} |-> IF t = s THEN 0 ELSE born[t]]
  PROVE  SessionsInv'
<1>1. /\ DOMAIN kept \subseteq DOMAIN sessions
      /\ \A i \in DOMAIN kept : kept[i] = sessions[i]
      /\ Cardinality(DOMAIN kept) <= MaxSessions
  BY EvictionFacts DEF SessionEvictions
<1>2. /\ DOMAIN sessions' = DOMAIN kept \cup {s}
      /\ \A i \in DOMAIN kept : sessions'[i] = sessions[i]
      /\ s \notin DOMAIN kept => sessions'[s] = 0
      /\ sessions' = [i \in DOMAIN sessions' |-> sessions'[i]]
  BY <1>1 DEF With
<1>3. IsFiniteSet(DOMAIN kept)
  BY <1>1, MCPAssumption, FS_Subset DEF TableInv, TablesTyped
<1>4. Cardinality(DOMAIN sessions') <= MaxSessions + 1
  BY <1>1, <1>2, <1>3, OneMore, MCPAssumption
<1>5. /\ DOMAIN sessions' \subseteq SessionIds
      /\ sessions' \in [DOMAIN sessions' -> 0..SessionTTL + 1]
  <2>1. DOMAIN sessions' \subseteq SessionIds
    BY <1>1, <1>2 DEF TableInv, TablesTyped
  <2>2. \A i \in DOMAIN sessions' : sessions'[i] \in 0..SessionTTL + 1
    BY <1>1, <1>2, BornFacts, MCPAssumption
  <2> QED BY <1>2, <2>1, <2>2
<1>6. Keeps(kept, born)
  BY EvictionKeeps
<1>7. CASE s \in DOMAIN kept
  <2>1. DOMAIN sessions' = DOMAIN kept /\ born' = born
    BY <1>2, <1>7
  <2>2. Keeps(sessions', born')
    BY <1>6, <2>1 DEF Keeps
  <2>3. SessionsAreBorn'
    BY <1>1, <1>2, <2>1 DEF TableInv, SessionsAreBorn
  <2> QED BY <1>4, <1>5, <2>1, <2>2, <2>3
          DEF SessionsInv, TableInv, TablesTyped, Keeps
<1>8. CASE s \notin DOMAIN kept
  <2>1. /\ born' = [t \in DOMAIN born \cup {s} |-> IF t = s THEN 0 ELSE born[t]]
        /\ DOMAIN born' = DOMAIN born \cup {s}
        /\ born'[s] = 0
        /\ \A t \in DOMAIN born \ {s} : born'[t] = born[t]
    BY <1>8
  <2>2. DOMAIN born' \subseteq SessionIds /\ born' \in [DOMAIN born' -> 0..SessionTTL + 1]
    BY <2>1, MCPAssumption DEF TableInv, TablesTyped
  <2>3. SessionsAreBorn'
    BY <1>1, <1>2, <1>8, <2>1 DEF TableInv, SessionsAreBorn
  <2>4. ASSUME NEW t \in DOMAIN born', born'[t] <= SessionTTL, t \notin DOMAIN sessions'
        PROVE  Cardinality(Since(born', t)) >= MaxSessions
    <3>1. t # s /\ t \in DOMAIN born /\ born[t] <= SessionTTL /\ t \notin DOMAIN kept
      BY <1>2, <2>1, <2>4
    <3>2. Cardinality(Since(born, t)) >= MaxSessions
      BY <1>6, <3>1 DEF Keeps
    <3>3. Since(born, t) \in SUBSET Since(born', t)
      BY <2>1, <3>1, BornFacts DEF Since
    <3>4. IsFiniteSet(DOMAIN born')
      BY <2>2, MCPAssumption, FS_Subset
    <3>5. Since(born', t) \in SUBSET DOMAIN born'
      BY DEF Since
    <3>6. IsFiniteSet(Since(born', t))
      BY <3>4, <3>5, Fewer
    <3> QED BY <3>2, <3>3, <3>6, Fewer, MCPAssumption
  <2>5. Keeps(sessions', born')
    BY <2>4 DEF Keeps
  <2> QED BY <1>4, <1>5, <2>2, <2>3, <2>5 DEF SessionsInv, Keeps
<1> QED BY <1>7, <1>8

\* A second passes: ages grow together, up to the first that counts as expired.
LEMMA TickKeepsInv ==
  ASSUME TableInv, sessions' = Older(sessions, SessionTTL),
         born' = Older(born, SessionTTL)
  PROVE  SessionsInv'
<1>1. /\ DOMAIN sessions' = DOMAIN sessions /\ DOMAIN born' = DOMAIN born
      /\ sessions' \in [DOMAIN sessions -> 0..SessionTTL + 1]
      /\ born' \in [DOMAIN born -> 0..SessionTTL + 1]
  BY BornFacts, MCPAssumption DEF Older
<1>2. \A s \in DOMAIN born :
        born'[s] = IF born[s] <= SessionTTL THEN born[s] + 1 ELSE born[s]
  BY DEF Older
<1>3. SessionsAreBorn'
  BY <1>1 DEF TableInv, SessionsAreBorn, Older
<1>4. ASSUME NEW s \in DOMAIN born, born'[s] <= SessionTTL, s \notin DOMAIN sessions
      PROVE  Cardinality(Since(born', s)) >= MaxSessions
  <2>1. born[s] <= SessionTTL /\ born'[s] = born[s] + 1
    BY <1>2, <1>4, BornFacts, MCPAssumption
  <2>2. Cardinality(Since(born, s)) >= MaxSessions
    BY <1>4, <2>1, KeepsMeans DEF TableInv, Keeps
  <2>3. Since(born, s) \in SUBSET Since(born', s)
    BY <1>1, <1>2, <2>1, BornFacts, MCPAssumption DEF Since
  <2>4. Since(born', s) \in SUBSET DOMAIN born
    BY <1>1 DEF Since
  <2>5. IsFiniteSet(Since(born', s))
    BY <2>4, Fewer, BornFacts
  <2> QED BY <2>2, <2>3, <2>5, Fewer, MCPAssumption
<1>5. Keeps(sessions', born')
  BY <1>1, <1>4 DEF Keeps
<1> QED BY <1>1, <1>3, <1>5 DEF SessionsInv, TableInv, TablesTyped, TablesBounded, Keeps

-----------------------------------------------------------------------------
(***************************************************************************)
(* Subscriptions                                                           *)
(***************************************************************************)
SubscriptionsInv ==
  /\ DOMAIN subscriptions \subseteq SubscriptionIds
  /\ Cardinality(DOMAIN subscriptions) <= MaxSubscriptions + 1

LEMMA SubscriptionsKept ==
  ASSUME SubscriptionsInv, NEW kept \in SubscriptionEvictions
  PROVE  /\ DOMAIN kept \subseteq SubscriptionIds
         /\ IsFiniteSet(DOMAIN kept)
         /\ Cardinality(DOMAIN kept) <= MaxSubscriptions
<1>1. /\ DOMAIN kept \subseteq DOMAIN subscriptions
      /\ Cardinality(DOMAIN kept) <= MaxSubscriptions
  BY EvictionFacts DEF SubscriptionEvictions
<1> QED BY <1>1, MCPAssumption, FS_Subset DEF SubscriptionsInv

LEMMA SubscriptionsStep ==
  ASSUME SubscriptionsInv,
         \/ subscriptions' = subscriptions
         \/ subscriptions' = Older(subscriptions, SubscriptionTTL)
         \/ \E kept \in SubscriptionEvictions, s \in SubscriptionIds :
              \/ subscriptions' = With(kept, s)
              \/ subscriptions' = Only(kept, DOMAIN kept \ {s})
         \/ subscriptions' \in SubscriptionEvictions
  PROVE  SubscriptionsInv'
<1>1. CASE DOMAIN subscriptions' = DOMAIN subscriptions
  BY <1>1 DEF SubscriptionsInv
<1>2. ASSUME NEW kept \in SubscriptionEvictions, NEW s \in SubscriptionIds,
             DOMAIN subscriptions' = DOMAIN kept \cup {s}
      PROVE  SubscriptionsInv'
  BY <1>2, SubscriptionsKept, OneMore, MCPAssumption DEF SubscriptionsInv
<1>3. ASSUME NEW kept \in SubscriptionEvictions,
             DOMAIN subscriptions' \subseteq DOMAIN kept
      PROVE  SubscriptionsInv'
  <2>1. Cardinality(DOMAIN subscriptions') <= Cardinality(DOMAIN kept)
        /\ Cardinality(DOMAIN subscriptions') \in Nat /\ Cardinality(DOMAIN kept) \in Nat
    BY <1>3, SubscriptionsKept, Fewer
  <2> QED BY <1>3, <2>1, SubscriptionsKept, MCPAssumption DEF SubscriptionsInv
<1> QED BY <1>1, <1>2, <1>3 DEF Older, With, Only

\* What a step does to the subscriptions.
LEMMA SubscriptionSteps ==
  ASSUME [MCPNext]_mcpVars
  PROVE  \/ subscriptions' = subscriptions
         \/ subscriptions' = Older(subscriptions, SubscriptionTTL)
         \/ \E kept \in SubscriptionEvictions, s \in SubscriptionIds :
              \/ subscriptions' = With(kept, s)
              \/ subscriptions' = Only(kept, DOMAIN kept \ {s})
         \/ subscriptions' \in SubscriptionEvictions
<1>1. ASSUME NEW r \in Requests, NEW c \in Clients, NEW s \in SubscriptionIds,
             Listen(r, c, s) \/ Unsubscribe(r, c, s)
      PROVE  \E kept \in SubscriptionEvictions :
               \/ subscriptions' = With(kept, s)
               \/ subscriptions' = Only(kept, DOMAIN kept \ {s})
  BY <1>1 DEF Listen, Unsubscribe
<1>2. \/ MCPTick
      \/ subscriptions' = subscriptions
      \/ subscriptions' \in SubscriptionEvictions
      \/ \E r \in Requests, c \in Clients, s \in SubscriptionIds :
           Listen(r, c, s) \/ Unsubscribe(r, c, s)
  BY MCPSteps, Zenon DEF tables
<1>3. MCPTick => subscriptions' = Older(subscriptions, SubscriptionTTL)
  BY DEF MCPTick
<1> QED
  BY <1>1, <1>2, <1>3, Zenon

SubscriptionsHaveAges == subscriptions \in [DOMAIN subscriptions -> 0..SubscriptionTTL + 1]

LEMMA AgesStep ==
  ASSUME SubscriptionsHaveAges, [MCPNext]_mcpVars
  PROVE  SubscriptionsHaveAges'
<1> DEFINE Ages == 0..SubscriptionTTL + 1
           D == DOMAIN subscriptions
<1>1. SubscriptionTTL \in Nat
  BY MCPAssumption
<1>2. 0 \in Ages /\ \A a \in Ages : a <= SubscriptionTTL => a + 1 \in Ages
  BY <1>1
<1> HIDE DEF Ages
<1>3. subscriptions \in [D -> Ages]
  BY DEF SubscriptionsHaveAges, Ages
<1> HIDE DEF D
<1>4. ASSUME NEW T, subscriptions' \in [T -> Ages]
      PROVE  SubscriptionsHaveAges'
  BY <1>4 DEF SubscriptionsHaveAges, Ages
<1>5. ASSUME NEW kept \in SubscriptionEvictions
      PROVE  kept \in [DOMAIN kept -> Ages]
  <2>1. PICK k \in SUBSET D : kept = Only(subscriptions, k)
    BY DEF SubscriptionEvictions, Evictions, Live, D
  <2> QED
    BY <1>3, <2>1 DEF Only
<1>6. CASE subscriptions' = subscriptions
  BY <1>3, <1>4, <1>6
<1>7. CASE subscriptions' = Older(subscriptions, SubscriptionTTL)
  <2>1. subscriptions' = [i \in D |-> IF subscriptions[i] <= SubscriptionTTL
                                      THEN subscriptions[i] + 1 ELSE subscriptions[i]]
    BY <1>7 DEF Older, D
  <2>2. subscriptions' \in [D -> Ages]
    BY <1>2, <1>3, <2>1
  <2> QED
    BY <1>4, <2>2
<1>8. ASSUME NEW kept \in SubscriptionEvictions, NEW s \in SubscriptionIds,
             \/ subscriptions' = With(kept, s)
             \/ subscriptions' = Only(kept, DOMAIN kept \ {s})
      PROVE  SubscriptionsHaveAges'
  <2>1. kept \in [DOMAIN kept -> Ages]
    BY <1>5
  <2>2. CASE subscriptions' = With(kept, s)
    <3>1. subscriptions' \in [DOMAIN kept \cup {s} -> Ages]
      BY <1>2, <2>1, <2>2 DEF With
    <3> QED
      BY <1>4, <3>1
  <2>3. CASE subscriptions' = Only(kept, DOMAIN kept \ {s})
    <3>1. subscriptions' \in [DOMAIN kept \ {s} -> Ages]
      BY <2>1, <2>3 DEF Only
    <3> QED
      BY <1>4, <3>1
  <2> QED
    BY <1>8, <2>2, <2>3
<1>9. CASE subscriptions' \in SubscriptionEvictions
  BY <1>4, <1>5, <1>9
<1> QED
  BY <1>6, <1>7, <1>8, <1>9, SubscriptionSteps

-----------------------------------------------------------------------------
LEMMA InitTableInv == MCPInit => TableInv
<1> SUFFICES ASSUME MCPInit PROVE TableInv
  OBVIOUS
<1>1. DOMAIN sessions = {} /\ DOMAIN subscriptions = {} /\ DOMAIN born = {}
  BY DEF MCPInit
<1>2. Cardinality({}) = 0
  BY FS_EmptySet
<1> QED BY <1>1, <1>2, MCPAssumption
        DEF MCPInit, TableInv, TablesTyped, SessionsAreBorn, TablesBounded, SessionsAreKept

LEMMA TableInvParts == TableInv <=> SessionsInv /\ SubscriptionsInv
BY KeepsMeans DEF TableInv, TablesTyped, TablesBounded, SessionsInv, SubscriptionsInv

LEMMA NextTableInv == TableInv /\ [MCPNext]_mcpVars => TableInv'
<1> SUFFICES ASSUME TableInv, [MCPNext]_mcpVars
             PROVE  SessionsInv' /\ SubscriptionsInv'
  BY KeepsMeans DEF TableInv, TablesTyped, TablesBounded, SessionsInv, SubscriptionsInv,
     SessionsAreKept, Keeps, Since
<1>1. SubscriptionsInv'
  BY SubscriptionSteps, SubscriptionsStep, TableInvParts
<1>2. SessionsInv'
  <2>1. ASSUME UNCHANGED <<sessions, born>> PROVE SessionsInv'
    BY <2>1, TableInvParts DEF SessionsInv, SessionsAreBorn, Keeps, Since
  <2>2. ASSUME sessions' \in SessionEvictions, born' = born PROVE SessionsInv'
    BY <2>2, EvictKeepsInv
  <2>3. ASSUME NEW r \in Requests, NEW c \in Clients, NEW s \in SessionIds,
               SessionSet(r, c, s)
        PROVE  SessionsInv'
    BY <2>3, SetKeepsInv DEF SessionSet
  <2>4. ASSUME MCPTick PROVE SessionsInv'
    BY <2>4, TickKeepsInv DEF MCPTick
  <2>5. \/ UNCHANGED <<sessions, born>>
        \/ sessions' \in SessionEvictions /\ born' = born
        \/ \E r \in Requests, c \in Clients, s \in SessionIds : SessionSet(r, c, s)
        \/ MCPTick
    BY MCPSteps, Zenon DEF tables
  <2> QED BY <2>1, <2>2, <2>3, <2>4, <2>5
<1> QED BY <1>1, <1>2

LEMMA TableInvariance == MCPSpec => []TableInv
BY InitTableInv, NextTableInv, PTL DEF MCPSpec

\* However many requests create sessions and subscriptions between evictions, there
\* is never more than one above MAX_SESSIONS and MAX_SUBSCRIPTIONS.
THEOREM TablesStayBounded == MCPSpec => []TablesBounded
<1>1. TableInv => TablesBounded
  BY DEF TableInv
<1> QED BY <1>1, TableInvariance, PTL

\* _evict_expired_sessions drops a session before SESSION_TTL only when at least
\* MAX_SESSIONS others were created no earlier.
THEOREM SessionsStay == MCPSpec => []SessionsAreKept
<1>1. TableInv => SessionsAreKept
  BY DEF TableInv
<1> QED BY <1>1, TableInvariance, PTL

-----------------------------------------------------------------------------
(***************************************************************************)
(* The limit of calls                                                      *)
(*                                                                         *)
(* The calls that the handler has kept and that still count are those      *)
(* accepted in the last WindowSeconds, in the same order: keeping others   *)
(* does not make a difference, now or when all are older.                  *)
(***************************************************************************)
LEMMA WithinIsRecursive ==
  ASSUME NEW s \in Seq(Nat), NEW w \in Nat
  PROVE  \E f \in [0..Len(s) -> Seq(Nat)] :
           /\ Within(s, w) = f[Len(s)]
           /\ f[0] = <<>>
           /\ \A i \in 1..Len(s) : f[i] = IF s[i] < w THEN Append(f[i - 1], s[i]) ELSE f[i - 1]
<1> DEFINE n == Len(s)
           body(f) == [i \in 0..n |-> IF i = 0 THEN <<>>
                         ELSE IF s[i] < w THEN Append(f[i - 1], s[i]) ELSE f[i - 1]]
           within == CHOOSE f : f = body(f)
           step == [p \in (1..n) \X Seq(Nat) |-> IF s[p[1]] < w THEN Append(p[2], s[p[1]]) ELSE p[2]]
<1>1. n \in Nat /\ \A i \in 1..n : s[i] \in Nat
  OBVIOUS
<1>2. Within(s, w) = within[n]
  BY DEF Within
<1>3. step \in [(1..n) \X Seq(Nat) -> Seq(Nat)]
  <2>1. ASSUME NEW p \in (1..n) \X Seq(Nat)
        PROVE  (IF s[p[1]] < w THEN Append(p[2], s[p[1]]) ELSE p[2]) \in Seq(Nat)
    <3>1. p[2] \in Seq(Nat) /\ s[p[1]] \in Nat
      BY <1>1
    <3> QED
      BY <3>1
  <2> QED
    BY <2>1
<1>4. \A i \in 1..n, t \in Seq(Nat) : step[<<i, t>>] = IF s[i] < w THEN Append(t, s[i]) ELSE t
  OBVIOUS
<1> HIDE DEF n, step
<1>5. PICK f \in [0..n -> Seq(Nat)] :
        f[0] = <<>> /\ \A i \in 1..n : f[i] = step[<<i, f[i - 1]>>]
  <2>1. PICK S, base : S = Seq(Nat) /\ base = <<>>
    OBVIOUS
  <2>2. base \in S /\ step \in [(1..n) \X S -> S]
    BY <1>3, <2>1
  <2>3. \E f \in [0..n -> S] : f[0] = base /\ \A i \in 1..n : f[i] = step[<<i, f[i - 1]>>]
    <3>1. \E f \in [0..n -> S] : BuildsFromZero(f, n, base, step)
      BY <1>1, <2>2, IterationFromZero
    <3> QED
      BY <3>1 DEF BuildsFromZero
  <2> QED
    BY <2>1, <2>3
<1>6. \A i \in 1..n : f[i] = IF s[i] < w THEN Append(f[i - 1], s[i]) ELSE f[i - 1]
  <2>1. \A i \in 1..n : f[i - 1] \in Seq(Nat)
    BY <1>1
  <2> QED
    BY <1>4, <1>5, <2>1
<1>7. f = body(f)
  <2>1. ASSUME NEW i \in 0..n
        PROVE  f[i] = IF i = 0 THEN <<>>
                      ELSE IF s[i] < w THEN Append(f[i - 1], s[i]) ELSE f[i - 1]
    <3>1. i = 0 \/ i \in 1..n
      BY <1>1
    <3> QED
      BY <1>5, <1>6, <3>1
  <2> QED
    BY <1>5, <2>1
<1>8. within = body(within)
  BY <1>7
<1>9. \A i \in 0..n : within[i] = f[i]
  <2> HIDE DEF within
  <2> DEFINE T == {i \in 0..n : within[i] # f[i]}
  <2>0. PICK g : g = within
    OBVIOUS
  <2>4. g = [i \in 0..n |-> IF i = 0 THEN <<>>
                            ELSE IF s[i] < w THEN Append(g[i - 1], s[i]) ELSE g[i - 1]]
    BY <1>8, <2>0
  <2>1. within[0] = <<>>
    BY <1>1, <2>0, <2>4
  <2>2. \A i \in 1..n :
          within[i] = IF s[i] < w THEN Append(within[i - 1], s[i]) ELSE within[i - 1]
    <3>1. \A i \in 1..n : i \in 0..n /\ i # 0
      BY <1>1
    <3>2. \A i \in 1..n : g[i] = IF s[i] < w THEN Append(g[i - 1], s[i]) ELSE g[i - 1]
      BY <2>4, <3>1
    <3> QED
      BY <2>0, <3>2
  <2> HIDE DEF body
  <2>3. T = {}
    <3> SUFFICES ASSUME T # {}
                 PROVE  FALSE
      OBVIOUS
    <3>1. PICK i \in T : \A k \in T : i <= k
      <4>1. T \in SUBSET Nat
        BY <1>1
      <4> HIDE DEF T
      <4> QED
        BY <4>1, LeastNatural
    <3>2. i \in 1..n
      BY <1>1, <1>5, <2>1, <3>1
    <3>3. i - 1 \in 0..n /\ i - 1 < i
      BY <1>1, <3>2
    <3>4. within[i - 1] = f[i - 1]
      BY <1>1, <3>1, <3>2, <3>3
    <3> QED
      BY <1>6, <2>2, <3>1, <3>2, <3>4
  <2> QED
    BY <2>3
<1> HIDE DEF within, body
<1> QED
  <2>1. Within(s, w) = f[n]
    BY <1>1, <1>2, <1>9
  <2> QED
    BY <1>5, <1>6, <2>1 DEF n

\* The ages of a longer sequence are those of the shorter one, and its last.
LEMMA WithinAppend ==
  ASSUME NEW s \in Seq(Nat), NEW x \in Nat, NEW w \in Nat
  PROVE  Within(Append(s, x), w) = IF x < w THEN Append(Within(s, w), x) ELSE Within(s, w)
<1> DEFINE t == Append(s, x)
           n == Len(s)
<1>1. n \in Nat /\ t \in Seq(Nat) /\ Len(t) = n + 1 /\ t[n + 1] = x /\ \A i \in 1..n : t[i] = s[i]
  OBVIOUS
<1> HIDE DEF t
<1>2. PICK f \in [0..n -> Seq(Nat)] :
        /\ Within(s, w) = f[n]
        /\ f[0] = <<>>
        /\ \A i \in 1..n : f[i] = IF s[i] < w THEN Append(f[i - 1], s[i]) ELSE f[i - 1]
  BY WithinIsRecursive
<1> HIDE DEF n
<1>3. PICK g \in [0..(n + 1) -> Seq(Nat)] :
        /\ Within(t, w) = g[n + 1]
        /\ g[0] = <<>>
        /\ \A i \in 1..(n + 1) : g[i] = IF t[i] < w THEN Append(g[i - 1], t[i]) ELSE g[i - 1]
  <2>1. PICK m : m = Len(t)
    OBVIOUS
  <2>2. \E g \in [0..m -> Seq(Nat)] :
          /\ Within(t, w) = g[m]
          /\ g[0] = <<>>
          /\ \A i \in 1..m : g[i] = IF t[i] < w THEN Append(g[i - 1], t[i]) ELSE g[i - 1]
    BY <1>1, <2>1, WithinIsRecursive
  <2>3. m = n + 1
    BY <1>1, <2>1
  <2> QED
    BY <2>2, <2>3
<1> DEFINE T == {i \in 0..n : g[i] # f[i]}
<1>4. T = {}
  <2> SUFFICES ASSUME T # {}
               PROVE  FALSE
    OBVIOUS
  <2>1. PICK i \in T : \A k \in T : i <= k
    <3>1. T \in SUBSET Nat
      BY <1>1
    <3> HIDE DEF T
    <3> QED
      BY <3>1, LeastNatural
  <2>0. g[0] = f[0]
    BY <1>2, <1>3
  <2>2. i \in 1..n /\ i \in 1..(n + 1)
    BY <1>1, <2>0, <2>1
  <2>3. i - 1 \in 0..n /\ i - 1 < i
    BY <1>1, <2>2
  <2>4. g[i - 1] = f[i - 1]
    BY <1>1, <2>1, <2>2, <2>3
  <2>5. t[i] = s[i] /\ g[i] # f[i]
    BY <1>1, <2>1, <2>2
  <2>6. f[i] = IF s[i] < w THEN Append(f[i - 1], s[i]) ELSE f[i - 1]
    BY <1>2, <2>2
  <2>7. g[i] = IF t[i] < w THEN Append(g[i - 1], t[i]) ELSE g[i - 1]
    BY <1>3, <2>2
  <2> QED
    BY <2>4, <2>5, <2>6, <2>7
<1>5. n + 1 \in 1..(n + 1) /\ n \in 0..n /\ (n + 1) - 1 = n
  BY <1>1
<1>6. g[n] = f[n]
  BY <1>4, <1>5
<1>7. Within(t, w) = IF x < w THEN Append(f[n], x) ELSE f[n]
  BY <1>1, <1>3, <1>5, <1>6
<1> QED
  BY <1>2, <1>7 DEF t

LEMMA WithinEmpty == \A w \in Nat : Within(<<>>, w) = <<>>
<1> TAKE w \in Nat
<1>1. <<>> \in Seq(Nat)
  OBVIOUS
<1>2. PICK none : none = <<>>
  OBVIOUS
<1>3. none \in Seq(Nat) /\ Len(none) = 0
  BY <1>1, <1>2
<1>4. PICK f \in [0..Len(none) -> Seq(Nat)] : Within(none, w) = f[Len(none)] /\ f[0] = <<>>
  BY <1>3, WithinIsRecursive
<1>5. Within(none, w) = <<>>
  BY <1>3, <1>4
<1> QED
  BY <1>2, <1>5

\* Looking twice finds the same, and no more than there was.
LEMMA WithinFacts ==
  ASSUME NEW w \in Nat
  PROVE  \A s \in Seq(Nat) :
           /\ Within(s, w) \in Seq(Nat)
           /\ Within(Within(s, w), w) = Within(s, w)
           /\ Len(Within(s, w)) <= Len(s)
<1> DEFINE Fine(s) == /\ Within(s, w) \in Seq(Nat)
                      /\ Within(Within(s, w), w) = Within(s, w)
                      /\ Len(Within(s, w)) <= Len(s)
           T == {s \in Seq(Nat) : Fine(s)}
<1>1. <<>> \in T
  <2>1. <<>> \in Seq(Nat) /\ Len(<<>>) <= Len(<<>>)
    OBVIOUS
  <2> QED
    BY <2>1, WithinEmpty
<1>2. ASSUME NEW s \in T, NEW x \in Nat
      PROVE  Append(s, x) \in T
  <2>1. s \in Seq(Nat) /\ Fine(s)
    OBVIOUS
  <2>2. PICK t : t = Within(s, w)
    OBVIOUS
  <2>3. t \in Seq(Nat) /\ Within(t, w) = t /\ Len(t) <= Len(s)
    BY <2>1, <2>2
  <2>4. Append(s, x) \in Seq(Nat) /\ Len(Append(s, x)) = Len(s) + 1 /\ Len(s) \in Nat
    BY <2>1
  <2>5. CASE x < w
    <3>1. Within(Append(s, x), w) = Append(t, x)
      BY <2>1, <2>2, <2>5, WithinAppend
    <3>2. Within(Append(t, x), w) = Append(t, x)
      BY <2>3, <2>5, WithinAppend
    <3>3. Append(t, x) \in Seq(Nat) /\ Len(Append(t, x)) = Len(t) + 1 /\ Len(t) \in Nat
      BY <2>3
    <3>4. Len(Append(t, x)) <= Len(Append(s, x))
      BY <2>3, <2>4, <3>3
    <3> QED
      BY <2>4, <3>1, <3>2, <3>3, <3>4
  <2>6. CASE ~(x < w)
    <3>1. Within(Append(s, x), w) = t
      BY <2>1, <2>2, <2>6, WithinAppend
    <3>2. Len(t) \in Nat
      BY <2>3
    <3> QED
      BY <2>3, <2>4, <3>1, <3>2
  <2> QED
    BY <2>5, <2>6
<1>3. T \subseteq Seq(Nat)
  OBVIOUS
<1>4. T = Seq(Nat)
  <2> HIDE DEF T
  <2> QED
    BY <1>1, <1>2, <1>3, SequencesFromEmpty
<1> QED
  BY <1>4

LEMMA AgedFacts ==
  ASSUME NEW s \in Seq(Nat), NEW x \in Nat
  PROVE  /\ Aged(s) \in Seq(Nat) /\ Len(Aged(s)) = Len(s)
         /\ Aged(Append(s, x)) =
              Append(Aged(s), IF x < WindowSeconds THEN x + 1 ELSE x)
<1>1. PICK older : older = [y \in Nat |-> IF y < WindowSeconds THEN y + 1 ELSE y]
  OBVIOUS
<1>2. \A y \in Nat : older[y] \in Nat
  BY <1>1, MCPAssumption
<1>3. ASSUME NEW t \in Seq(Nat)
      PROVE  /\ Aged(t) \in Seq(Nat) /\ Len(Aged(t)) = Len(t)
             /\ \A i \in 1..Len(t) : Aged(t)[i] = older[t[i]]
  <2>1. PICK n : n = Len(t)
    OBVIOUS
  <2>2. n \in Nat /\ DOMAIN t = 1..n /\ \A i \in 1..n : t[i] \in Nat
    BY <2>1
  <2>3. PICK a : a = [i \in 1..n |-> older[t[i]]]
    OBVIOUS
  <2>4. Aged(t) = a
    BY <1>1, <2>2, <2>3 DEF Aged
  <2>5. a \in [1..n -> Nat]
    BY <1>2, <2>2, <2>3
  <2>6. a \in Seq(Nat) /\ Len(a) = n
    BY <2>2, <2>5
  <2> QED
    BY <2>1, <2>3, <2>4, <2>6
<1>4. PICK t : t = Append(s, x)
  OBVIOUS
<1>5. /\ t \in Seq(Nat) /\ Len(t) = Len(s) + 1 /\ Len(s) \in Nat
      /\ \A i \in 1..(Len(s) + 1) : t[i] = IF i = Len(s) + 1 THEN x ELSE s[i]
  BY <1>4
<1>6. PICK a : a = Aged(s)
  OBVIOUS
<1>7. PICK u : u = Append(a, older[x])
  OBVIOUS
<1>8. a \in Seq(Nat) /\ Len(a) = Len(s) /\ \A i \in 1..Len(s) : a[i] = older[s[i]]
  BY <1>3, <1>6
<1>9. /\ u \in Seq(Nat) /\ Len(u) = Len(s) + 1
      /\ \A i \in 1..(Len(s) + 1) : u[i] = IF i = Len(s) + 1 THEN older[x] ELSE a[i]
  BY <1>2, <1>5, <1>7, <1>8
<1>10. \A i \in 1..Len(u) : Aged(t)[i] = u[i]
  <2> SUFFICES ASSUME NEW i \in 1..Len(u)
               PROVE  Aged(t)[i] = u[i]
    OBVIOUS
  <2>1. i \in 1..(Len(s) + 1) /\ (i # Len(s) + 1 => i \in 1..Len(s))
    BY <1>5, <1>9
  <2>2. Aged(t)[i] = older[t[i]]
    BY <1>3, <1>5, <2>1
  <2>3. t[i] = IF i = Len(s) + 1 THEN x ELSE s[i]
    BY <1>5, <2>1
  <2>4. u[i] = IF i = Len(s) + 1 THEN older[x] ELSE a[i]
    BY <1>9, <2>1
  <2>5. i # Len(s) + 1 => a[i] = older[s[i]]
    BY <1>8, <2>1
  <2> QED
    BY <2>2, <2>3, <2>4, <2>5
<1>11. Aged(t) = u
  BY <1>3, <1>5, <1>9, <1>10, SeqEqual
<1>12. older[x] = IF x < WindowSeconds THEN x + 1 ELSE x
  BY <1>1
<1> QED
  BY <1>3, <1>4, <1>6, <1>7, <1>11, <1>12

\* When all are a second older, those that did not count any more still do not.
LEMMA AgedWithin ==
  \A s \in Seq(Nat) :
    Within(Aged(s), WindowSeconds) = Within(Aged(Within(s, WindowSeconds)), WindowSeconds)
<1> DEFINE w == WindowSeconds
           Fine(s) == Within(Aged(s), w) = Within(Aged(Within(s, w)), w)
           T == {s \in Seq(Nat) : Fine(s)}
<1>0. w \in Nat
  BY MCPAssumption
<1>1. <<>> \in T
  <2>1. <<>> \in Seq(Nat)
    OBVIOUS
  <2> QED
    BY <1>0, <2>1, WithinEmpty
<1>2. ASSUME NEW s \in T, NEW x \in Nat
      PROVE  Append(s, x) \in T
  <2>1. s \in Seq(Nat) /\ Fine(s) /\ Append(s, x) \in Seq(Nat)
    OBVIOUS
  <2>2. PICK t : t = Within(s, w)
    OBVIOUS
  <2>3. t \in Seq(Nat) /\ Within(Aged(s), w) = Within(Aged(t), w)
    BY <1>0, <2>1, <2>2, WithinFacts
  <2>4. PICK y : y = IF x < WindowSeconds THEN x + 1 ELSE x
    OBVIOUS
  <2>5. /\ y \in Nat /\ Aged(s) \in Seq(Nat) /\ Aged(t) \in Seq(Nat)
        /\ Aged(Append(s, x)) = Append(Aged(s), y) /\ Aged(Append(t, x)) = Append(Aged(t), y)
    <3>1. y \in Nat
      BY <1>0, <2>4
    <3>2. Aged(s) \in Seq(Nat) /\ Aged(Append(s, x)) = Append(Aged(s), y)
      BY <2>1, <2>4, AgedFacts
    <3>3. Aged(t) \in Seq(Nat) /\ Aged(Append(t, x)) = Append(Aged(t), y)
      BY <2>3, <2>4, AgedFacts
    <3> QED
      BY <3>1, <3>2, <3>3
  <2>6. Within(Append(Aged(s), y), w) = Within(Append(Aged(t), y), w)
    <3>1. PICK p, q : p = Aged(s) /\ q = Aged(t)
      OBVIOUS
    <3>2. /\ Within(Append(p, y), w) = IF y < w THEN Append(Within(p, w), y) ELSE Within(p, w)
          /\ Within(Append(q, y), w) = IF y < w THEN Append(Within(q, w), y) ELSE Within(q, w)
      BY <1>0, <2>5, <3>1, WithinAppend
    <3>3. Within(p, w) = Within(q, w)
      BY <2>3, <3>1
    <3> QED
      BY <3>1, <3>2, <3>3
  <2>7. CASE x < w
    <3>1. Within(Append(s, x), w) = Append(t, x)
      BY <1>0, <2>1, <2>2, <2>7, WithinAppend
    <3> QED
      BY <2>1, <2>5, <2>6, <3>1
  <2>8. CASE ~(x < w)
    <3>1. Within(Append(s, x), w) = t /\ y = x
      BY <1>0, <2>1, <2>2, <2>4, <2>8, WithinAppend
    <3>2. Within(Append(Aged(t), y), w) = Within(Aged(t), w)
      BY <1>0, <2>5, <2>8, <3>1, WithinAppend
    <3> QED
      BY <2>1, <2>5, <2>6, <3>1, <3>2
  <2> QED
    BY <2>7, <2>8
<1>3. T \subseteq Seq(Nat)
  OBVIOUS
<1>4. T = Seq(Nat)
  <2> HIDE DEF T
  <2> QED
    BY <1>1, <1>2, <1>3, SequencesFromEmpty
<1> QED
  BY <1>4

RateInv ==
  /\ rateLimits \in [Clients -> Seq(Nat)] /\ accepted \in [Clients -> Seq(Nat)]
  /\ \A c \in Clients : Recent(c) = accepted[c] /\ Len(accepted[c]) <= MaxCalls

LEMMA AcceptKeepsRateInv ==
  ASSUME RateInv, NEW c \in Clients, Accept(c)
  PROVE  RateInv'
<1>0. WindowSeconds \in Nat /\ 0 < WindowSeconds /\ MaxCalls \in Nat
  BY MCPAssumption
<1>1. /\ Recent(c) = accepted[c] /\ accepted[c] \in Seq(Nat) /\ Len(accepted[c]) \in Nat
      /\ rateLimits[c] \in Seq(Nat)
  BY DEF RateInv
<1>2. /\ rateLimits' = [rateLimits EXCEPT ![c] = Append(accepted[c], 0)]
      /\ accepted' = [accepted EXCEPT ![c] = Append(accepted[c], 0)]
      /\ Len(accepted[c]) < MaxCalls
  BY <1>1 DEF Accept, Allowed
<1>3. Append(accepted[c], 0) \in Seq(Nat) /\ Len(Append(accepted[c], 0)) <= MaxCalls
  BY <1>0, <1>1, <1>2
<1>4. Within(Append(accepted[c], 0), WindowSeconds) = Append(accepted[c], 0)
  <2>1. Within(accepted[c], WindowSeconds) = accepted[c]
    BY <1>0, <1>1, WithinFacts DEF Recent
  <2> QED
    BY <1>0, <1>1, <2>1, WithinAppend
<1>5. PICK next : next = Append(accepted[c], 0)
  OBVIOUS
<1>6. rateLimits' \in [Clients -> Seq(Nat)] /\ accepted' \in [Clients -> Seq(Nat)]
  BY <1>2, <1>3, <1>5 DEF RateInv
<1>7. ASSUME NEW d \in Clients
      PROVE  Within(rateLimits'[d], WindowSeconds) = accepted'[d] /\ Len(accepted'[d]) <= MaxCalls
  BY <1>2, <1>3, <1>4, <1>5 DEF RateInv, Recent
<1> QED
  BY <1>6, <1>7 DEF RateInv, Recent

LEMMA NextRateInv == RateInv /\ [MCPNext]_mcpVars => RateInv'
<1> SUFFICES ASSUME RateInv, [MCPNext]_mcpVars
             PROVE  RateInv'
  OBVIOUS
<1>0. WindowSeconds \in Nat /\ MaxCalls \in Nat
  BY MCPAssumption
<1>1. \/ UNCHANGED limits
      \/ \E c \in Clients : Accept(c)
      \/ \E c \in Clients : rateLimits' = [rateLimits EXCEPT ![c] = Recent(c)] /\ UNCHANGED accepted
      \/ MCPTick
  BY MCPSteps, Zenon DEF limits
<1>2. CASE UNCHANGED limits
  BY <1>2 DEF limits, RateInv, Recent
<1>3. ASSUME NEW c \in Clients, Accept(c)
      PROVE  RateInv'
  BY <1>3, AcceptKeepsRateInv
<1>4. ASSUME NEW c \in Clients, rateLimits' = [rateLimits EXCEPT ![c] = Recent(c)],
             UNCHANGED accepted
      PROVE  RateInv'
  <2>1. /\ Recent(c) = accepted[c] /\ accepted[c] \in Seq(Nat) /\ rateLimits[c] \in Seq(Nat)
    BY DEF RateInv
  <2>2. Within(accepted[c], WindowSeconds) = accepted[c]
    BY <1>0, <2>1, WithinFacts DEF Recent
  <2>3. rateLimits' \in [Clients -> Seq(Nat)]
    BY <1>4, <2>1 DEF RateInv
  <2>4. ASSUME NEW d \in Clients
        PROVE  Within(rateLimits'[d], WindowSeconds) = accepted[d]
    BY <1>4, <2>1, <2>2 DEF RateInv, Recent
  <2> QED
    BY <1>4, <2>3, <2>4 DEF RateInv, Recent
<1>5. CASE MCPTick
  <2>1. ASSUME NEW c \in Clients
        PROVE  /\ rateLimits'[c] \in Seq(Nat) /\ accepted'[c] \in Seq(Nat)
               /\ Within(rateLimits'[c], WindowSeconds) = accepted'[c]
               /\ Len(accepted'[c]) <= MaxCalls
    <3>1. PICK s, t : s = rateLimits[c] /\ t = accepted[c]
      OBVIOUS
    <3>2. s \in Seq(Nat) /\ t \in Seq(Nat) /\ Within(s, WindowSeconds) = t /\ Len(t) <= MaxCalls
      BY <3>1 DEF RateInv, Recent
    <3>3. rateLimits'[c] = Aged(s) /\ accepted'[c] = Within(Aged(t), WindowSeconds)
      BY <1>5, <3>1 DEF MCPTick
    <3>4. Aged(s) \in Seq(Nat) /\ Aged(t) \in Seq(Nat) /\ Len(Aged(t)) = Len(t)
      BY <1>0, <3>2, AgedFacts
    <3>5. Within(Aged(s), WindowSeconds) = Within(Aged(t), WindowSeconds)
      BY <3>2, AgedWithin
    <3>6. /\ Within(Aged(t), WindowSeconds) \in Seq(Nat)
          /\ Len(Within(Aged(t), WindowSeconds)) <= Len(t)
      BY <1>0, <3>4, WithinFacts
    <3>7. Len(Within(Aged(t), WindowSeconds)) \in Nat /\ Len(t) \in Nat
      BY <3>2, <3>6
    <3> QED
      BY <1>0, <3>2, <3>3, <3>4, <3>5, <3>6, <3>7
  <2>2. /\ rateLimits' = [c \in Clients |-> rateLimits'[c]]
        /\ accepted' = [c \in Clients |-> accepted'[c]]
    BY <1>5 DEF MCPTick
  <2> QED
    BY <2>1, <2>2 DEF RateInv, Recent
<1> QED
  BY <1>1, <1>2, <1>3, <1>4, <1>5

\* Only what is over the limit is answered so.
LEMMA OnlyLimitedAreRejected ==
  ASSUME RateInv, IdInv, MCPNext, NEW r \in Requests,
         exchanges'[r] # exchanges[r], exchanges'[r].kind = "ratelimited"
  PROVE  Len(accepted[exchanges'[r].client]) = MaxCalls
<1>1. exchanges = [q \in Requests |-> exchanges[q]]
  BY DEF IdInv, CallsTyped
<1>2. ASSUME NEW q \in Requests, NEW c \in Clients, RateLimited(q, c)
      PROVE  Len(accepted[exchanges'[r].client]) = MaxCalls
  <2>1. q = r /\ exchanges'[r].client = c
    BY <1>1, <1>2 DEF RateLimited, Respond
  <2>2. ~(Len(Recent(c)) < MaxCalls)
    BY <1>2 DEF RateLimited, Allowed
  <2>3. Recent(c) = accepted[c] /\ Len(accepted[c]) <= MaxCalls /\ Len(accepted[c]) \in Nat
    BY DEF RateInv
  <2> QED
    BY <2>1, <2>2, <2>3, MCPAssumption
<1>3. ASSUME NEW q \in Requests, NEW c, NEW id, NEW kind \in {"result", "error"},
             Respond(q, c, id, kind)
      PROVE  FALSE
  BY <1>1, <1>3 DEF Respond
<1>4. ASSUME NEW q \in Requests, NEW e, exchanges' = [exchanges EXCEPT ![q] = e], e.kind = "none"
      PROVE  FALSE
  BY <1>1, <1>4
<1>5. CASE MCPTick
  BY <1>5 DEF MCPTick
<1>6. ASSUME NEW q \in Requests, FinishWork(q) \/ WorkRaises(q)
      PROVE  FALSE
  BY <1>3, <1>4, <1>6 DEF FinishWork, WorkRaises, Idle
<1>7. ASSUME NEW q \in Requests, NEW c \in Clients, StartWork(q, c)
      PROVE  FALSE
  BY <1>4, <1>7 DEF StartWork
<1>8. ASSUME NEW q \in Requests, NEW c \in Clients,
             \/ AnswerAtOnce(q, c) \/ MethodNotFound(q, c)
             \/ \E s \in SessionIds : SessionGet(q, c, s) \/ SessionSet(q, c, s)
             \/ \E s \in SubscriptionIds : Listen(q, c, s) \/ Unsubscribe(q, c, s)
      PROVE  FALSE
  <2>1. \E id, kind : kind \in {"result", "error"} /\ Respond(q, c, id, kind)
    BY <1>8, Zenon DEF AnswerAtOnce, MethodNotFound, SessionGet, SessionSet, Listen, Unsubscribe
  <2> QED
    BY <1>3, <2>1
<1> QED
  BY <1>2, <1>5, <1>6, <1>7, <1>8 DEF MCPNext

LEMMA InitRateInv == MCPInit => RateInv
<1> SUFFICES ASSUME MCPInit
             PROVE  RateInv
  OBVIOUS
<1>1. <<>> \in Seq(Nat) /\ Len(<<>>) = 0 /\ WindowSeconds \in Nat /\ MaxCalls \in Nat
  BY MCPAssumption
<1> QED
  BY <1>1, WithinEmpty DEF MCPInit, RateInv, Recent

\* No client has more than max_calls calls accepted within any window_seconds,
\* and a call is only rejected when as many were accepted in the window before:
\* _check_rate_limit, whatever it has kept of older calls.
THEOREM RateLimitHolds == MCPSpec => RateLimitIsExact
<1> DEFINE I == requestId \in Requests \cup {NoId} /\ IdInv /\ RateInv
<1>1. MCPInit => I
  BY InitRateInv, InitIdInv DEF MCPInit
<1>2. I /\ [MCPNext]_mcpVars => I'
  BY NextIdInv, RequestIdTyped, NextRateInv
<1>3. I /\ I' /\ [MCPNext]_mcpVars =>
        [/\ \A c \in Clients : Len(accepted'[c]) <= MaxCalls
         /\ \A r \in Requests :
              exchanges'[r] # exchanges[r] /\ exchanges'[r].kind = "ratelimited" =>
                Len(accepted[exchanges'[r].client]) = MaxCalls]_mcpVars
  <2> SUFFICES ASSUME I, I', MCPNext
               PROVE  /\ \A c \in Clients : Len(accepted'[c]) <= MaxCalls
                      /\ \A r \in Requests :
                           exchanges'[r] # exchanges[r] /\ exchanges'[r].kind = "ratelimited" =>
                             Len(accepted[exchanges'[r].client]) = MaxCalls
    OBVIOUS
  <2>1. \A c \in Clients : Len(accepted'[c]) <= MaxCalls
    BY DEF RateInv
  <2> QED
    BY <2>1, OnlyLimitedAreRejected
<1> HIDE DEF I
<1> QED
  BY <1>1, <1>2, <1>3, PTL DEF MCPSpec, RateLimitIsExact

\* The tables and exchanges of the handler are of their types: handle_request, for
\* any requests, clients and ids.
THEOREM MCPTypeCorrect == MCPSpec => []MCPTypeOK
<1> DEFINE I == /\ requestId \in Requests \cup {NoId} /\ IdInv /\ RateInv
                /\ overlapped \subseteq Requests /\ SubscriptionsHaveAges
<1>1. MCPInit => I
  <2> SUFFICES ASSUME MCPInit
               PROVE  overlapped \subseteq Requests /\ SubscriptionsHaveAges
    BY InitRateInv, InitIdInv DEF MCPInit
  <2>1. DOMAIN subscriptions = {} /\ subscriptions = [s \in {} |-> 0]
    BY DEF MCPInit
  <2> QED
    BY <2>1 DEF MCPInit, SubscriptionsHaveAges
<1>2. I /\ [MCPNext]_mcpVars => I'
  <2> SUFFICES ASSUME I, [MCPNext]_mcpVars
               PROVE  overlapped' \subseteq Requests /\ SubscriptionsHaveAges'
    BY NextIdInv, RequestIdTyped, NextRateInv
  <2>1. overlapped' = overlapped \/ \E r \in Requests : Arrive(r)
    BY MCPSteps, Zenon DEF MCPTick
  <2>2. overlapped' \subseteq Requests
    BY <2>1 DEF Arrive
  <2> QED
    BY <2>2, AgesStep
<1>3. I /\ TableInv => MCPTypeOK
  BY DEF MCPTypeOK, IdInv, CallsTyped, RateInv, SubscriptionsHaveAges, TableInv, TablesTyped
<1> HIDE DEF I
<1> QED
  BY <1>1, <1>2, <1>3, TableInvariance, PTL DEF MCPSpec

=============================================================================
