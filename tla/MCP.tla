-------------------------------- MODULE MCP --------------------------------
(***************************************************************************)
(* MCPHandler (api/mcp.py), the JSON-RPC endpoint.  get_mcp_handler is a   *)
(* singleton: all requests share the tables of sessions, subscriptions and *)
(* calls per client, and the field _request_id.                            *)
(*                                                                         *)
(* One action per group of methods that do the same to the state.  Only    *)
(* tools/call, tools/call/batch and query wait for something; they are     *)
(* two actions, StartWork and FinishWork or WorkRaises.                    *)
(*                                                                         *)
(* Time.  A created_at is kept as an age in seconds, which stops at the    *)
(* first value that counts as expired; MCPTick lets a second pass.         *)
(*                                                                         *)
(* Left out: the tools, resources and prompts, and what is stored in a     *)
(* session, since only the caller reads it.                                *)
(***************************************************************************)
EXTENDS Integers, Sequences, FiniteSets

CONSTANTS
  Requests,        \* requests that can be open at a time; the named ones
                   \* are also their ids
  Anonymous,       \* those sent without an id
  Clients,         \* values of the parameter client_id
  SessionIds, SubscriptionIds,
  MaxSessions, SessionTTL,
  MaxSubscriptions, SubscriptionTTL,
  MaxCalls, WindowSeconds,
  NoId,            \* None
  RandomId         \* a new uuid

ASSUME MCPAssumption ==
  /\ IsFiniteSet(SessionIds) /\ IsFiniteSet(SubscriptionIds)
  /\ Anonymous \subseteq Requests
  /\ NoId \notin Requests /\ RandomId \notin Requests /\ NoId # RandomId
  /\ MaxSessions \in Nat /\ SessionTTL \in Nat
  /\ MaxSubscriptions \in Nat /\ SubscriptionTTL \in Nat
  /\ MaxCalls \in Nat \ {0} /\ WindowSeconds \in Nat \ {0}

VARIABLES
  requestId,       \* _request_id
  sessions,        \* session id -> age, for the sessions there are
  subscriptions,   \* subscription id -> age
  rateLimits,      \* client -> ages of its accepted calls, oldest first
  exchanges,       \* request -> where it is, and its response
  overlapped,      \* history: requests that waited while another arrived
  born,            \* history: session id -> age of the session last created
                   \* under this id, whether it still exists or not
  accepted         \* history: client -> ages of the calls accepted in the
                   \* last WindowSeconds

tables == <<sessions, subscriptions>>
limits == <<rateLimits, accepted>>
mcpVars == <<requestId, tables, limits, exchanges, overlapped, born>>

Ids == Requests \cup {NoId, RandomId}
Kinds == {"none", "result", "error", "ratelimited"}
Idle == [at |-> "idle", client |-> NoId, id |-> NoId, kind |-> "none"]

IdOf(r) == IF r \in Anonymous THEN NoId ELSE r

\* _response_id, given the value of _request_id.
ResponseId(id) == IF id = NoId THEN RandomId ELSE id

MCPInit ==
  /\ requestId = NoId
  /\ sessions = [s \in {} |-> 0]
  /\ subscriptions = [s \in {} |-> 0]
  /\ rateLimits = [c \in Clients |-> <<>>]
  /\ exchanges = [r \in Requests |-> Idle]
  /\ overlapped = {}
  /\ born = [s \in {} |-> 0]
  /\ accepted = [c \in Clients |-> <<>>]

-----------------------------------------------------------------------------
(***************************************************************************)
(* The start of handle_request                                             *)
(***************************************************************************)
Only(table, ids) == [i \in ids |-> table[i]]

\* Mutant: off by one.
LiveTooShort(table, ttl) == {i \in DOMAIN table : table[i] < ttl}

Live(table, ttl) == {i \in DOMAIN table : table[i] <= ttl}

\* _evict_expired_sessions, for one table: what is too old goes, and the oldest
\* of the rest until there are at most max.
Evictions(table, ttl, max) ==
  {Only(table, kept) : kept \in
     {k \in SUBSET Live(table, ttl) :
        /\ Cardinality(k) <= max
        /\ k # Live(table, ttl) => Cardinality(k) = max
        /\ \A i \in k, j \in Live(table, ttl) \ k : table[i] <= table[j]}}

SessionEvictions == Evictions(sessions, SessionTTL, MaxSessions)

SubscriptionEvictions ==
  Evictions(subscriptions, SubscriptionTTL, MaxSubscriptions)

\* The ages below a window, in their order.
Within(ages, window) ==
  LET within[i \in 0..Len(ages)] ==
        IF i = 0 THEN <<>>
        ELSE IF ages[i] < window THEN Append(within[i - 1], ages[i]) ELSE within[i - 1]
  IN  within[Len(ages)]

\* Mutant: a call that is window_seconds old still counts.
RecentTooLong(c) == Within(rateLimits[c], WindowSeconds + 1)

\* The calls of c that count against the limit.
Recent(c) == Within(rateLimits[c], WindowSeconds)

Allowed(c) == Len(Recent(c)) < MaxCalls

\* Mutant: the first id is kept, as for if a handler served one request only.
ArriveKeepingId(r) ==
  /\ exchanges[r].at # "waiting"
  /\ requestId' = IF requestId = NoId THEN IdOf(r) ELSE requestId
  /\ overlapped' = {q \in Requests \ {r} :
                      q \in overlapped \/ exchanges[q].at = "waiting"}

Arrive(r) ==
  /\ exchanges[r].at # "waiting"
  /\ requestId' = IdOf(r)
  /\ overlapped' = {q \in Requests \ {r} :
                      q \in overlapped \/ exchanges[q].at = "waiting"}

\* _check_rate_limit, when it lets the call of c pass.
Accept(c) ==
  /\ Allowed(c)
  /\ rateLimits' = [rateLimits EXCEPT ![c] = Append(Recent(c), 0)]
  /\ accepted' = [accepted EXCEPT ![c] = Append(@, 0)]

Respond(r, c, id, kind) ==
  exchanges' = [exchanges EXCEPT ![r] =
              [at |-> "answered", client |-> c, id |-> id, kind |-> kind]]

-----------------------------------------------------------------------------
(***************************************************************************)
(* Methods                                                                 *)
(***************************************************************************)
\* The limit is reached: the response is built from the request itself.
RateLimited(r, c) ==
  /\ Arrive(r)
  /\ ~Allowed(c)
  /\ rateLimits' = [rateLimits EXCEPT ![c] = Recent(c)]
  /\ sessions' \in SessionEvictions
  /\ subscriptions' \in SubscriptionEvictions
  /\ Respond(r, c, IdOf(r), "ratelimited")
  /\ UNCHANGED <<accepted, born>>

\* initialize, the lists, resources/read, prompts/get, methods with missing
\* parameters: a response at once, with _request_id.
AnswerAtOnce(r, c) ==
  /\ Arrive(r)
  /\ Accept(c)
  /\ sessions' \in SessionEvictions
  /\ subscriptions' \in SubscriptionEvictions
  /\ \E kind \in {"result", "error"} : Respond(r, c, ResponseId(requestId'), kind)
  /\ UNCHANGED born

\* An unknown method: the response is built from the request.
MethodNotFound(r, c) ==
  /\ Arrive(r)
  /\ Accept(c)
  /\ sessions' \in SessionEvictions
  /\ subscriptions' \in SubscriptionEvictions
  /\ Respond(r, c, IdOf(r), "error")
  /\ UNCHANGED born

SessionGet(r, c, s) ==
  /\ Arrive(r)
  /\ Accept(c)
  /\ sessions' \in SessionEvictions
  /\ subscriptions' \in SubscriptionEvictions
  /\ Respond(r, c, ResponseId(requestId'),
             IF s \in DOMAIN sessions' THEN "result" ELSE "error")
  /\ UNCHANGED born

With(table, i) ==
  [j \in DOMAIN table \cup {i} |-> IF j \in DOMAIN table THEN table[j] ELSE 0]

\* _get_or_create_session, with the id of the caller or a new one.  Without a
\* key the session is created all the same.
SessionSet(r, c, s) ==
  /\ Arrive(r)
  /\ Accept(c)
  /\ \E kept \in SessionEvictions :
       /\ sessions' = With(kept, s)
       /\ born' = IF s \in DOMAIN kept THEN born
                  ELSE [t \in DOMAIN born \cup {s} |-> IF t = s THEN 0 ELSE born[t]]
  /\ subscriptions' \in SubscriptionEvictions
  /\ \E kind \in {"result", "error"} : Respond(r, c, ResponseId(requestId'), kind)

\* The new subscription has an id no other has.
Listen(r, c, s) ==
  /\ Arrive(r)
  /\ Accept(c)
  /\ s \notin DOMAIN subscriptions
  /\ \E kept \in SubscriptionEvictions : subscriptions' = With(kept, s)
  /\ sessions' \in SessionEvictions
  /\ Respond(r, c, ResponseId(requestId'), "result")
  /\ UNCHANGED born

Unsubscribe(r, c, s) ==
  /\ Arrive(r)
  /\ Accept(c)
  /\ \E kept \in SubscriptionEvictions :
       /\ subscriptions' = Only(kept, DOMAIN kept \ {s})
       /\ Respond(r, c, ResponseId(requestId'),
                  IF s \in DOMAIN kept THEN "result" ELSE "error")
  /\ sessions' \in SessionEvictions
  /\ UNCHANGED born

\* tools/call, tools/call/batch and query wait for a tool or for the engine.
StartWork(r, c) ==
  /\ Arrive(r)
  /\ Accept(c)
  /\ sessions' \in SessionEvictions
  /\ subscriptions' \in SubscriptionEvictions
  /\ exchanges' = [exchanges EXCEPT ![r] = [at |-> "waiting", client |-> c, id |-> NoId,
                                    kind |-> "none"]]
  /\ UNCHANGED born

\* The response takes the id that is in _request_id by now.
FinishWork(r) ==
  /\ exchanges[r].at = "waiting"
  /\ \E kind \in {"result", "error"} :
       Respond(r, exchanges[r].client, ResponseId(requestId), kind)
  /\ UNCHANGED <<requestId, tables, limits, overlapped, born>>

\* The engine raises, or the result of a tool is not JSON: no JSON-RPC response.
WorkRaises(r) ==
  /\ exchanges[r].at = "waiting"
  /\ exchanges' = [exchanges EXCEPT ![r] = Idle]
  /\ UNCHANGED <<requestId, tables, limits, overlapped, born>>

-----------------------------------------------------------------------------
Older(table, ttl) ==
  [i \in DOMAIN table |-> IF table[i] <= ttl THEN table[i] + 1 ELSE table[i]]

Aged(ages) == [i \in DOMAIN ages |->
                 IF ages[i] < WindowSeconds THEN ages[i] + 1 ELSE ages[i]]

MCPTick ==
  /\ sessions' = Older(sessions, SessionTTL)
  /\ subscriptions' = Older(subscriptions, SubscriptionTTL)
  /\ rateLimits' = [c \in Clients |-> Aged(rateLimits[c])]
  /\ born' = Older(born, SessionTTL)
  /\ accepted' = [c \in Clients |-> Within(Aged(accepted[c]), WindowSeconds)]
  /\ UNCHANGED <<requestId, exchanges, overlapped>>

MCPNext ==
  \/ MCPTick
  \/ \E r \in Requests :
       \/ FinishWork(r) \/ WorkRaises(r)
       \/ \E c \in Clients :
            \/ RateLimited(r, c) \/ AnswerAtOnce(r, c) \/ MethodNotFound(r, c)
            \/ StartWork(r, c)
            \/ \E s \in SessionIds : SessionGet(r, c, s) \/ SessionSet(r, c, s)
            \/ \E s \in SubscriptionIds : Listen(r, c, s) \/ Unsubscribe(r, c, s)

MCPSpec == MCPInit /\ [][MCPNext]_mcpVars

-----------------------------------------------------------------------------
(***************************************************************************)
(* Properties                                                              *)
(***************************************************************************)
\* What is in the tables and the exchanges: ages stop one above the lifetime.
MCPTypeOK ==
  /\ requestId \in Requests \cup {NoId}
  /\ DOMAIN sessions \subseteq SessionIds
  /\ sessions \in [DOMAIN sessions -> 0..SessionTTL + 1]
  /\ DOMAIN subscriptions \subseteq SubscriptionIds
  /\ subscriptions \in [DOMAIN subscriptions -> 0..SubscriptionTTL + 1]
  /\ DOMAIN born \subseteq SessionIds
  /\ born \in [DOMAIN born -> 0..SessionTTL + 1]
  /\ rateLimits \in [Clients -> Seq(Nat)]
  /\ accepted \in [Clients -> Seq(Nat)]
  /\ exchanges \in [Requests -> [at : {"idle", "waiting", "answered"},
                                 client : Clients \cup {NoId}, id : Ids, kind : Kinds]]
  /\ overlapped \subseteq Requests

OwnId(r, id) == IF r \in Anonymous THEN id \in {NoId, RandomId} ELSE id = r

\* Whatever happens to the shared _request_id, a response only carries another
\* id than that of its request if another request arrived while it was worked on.
OwnIdUnlessOverlapped ==
  \A r \in Requests :
    exchanges[r].at = "answered" /\ r \notin overlapped => OwnId(r, exchanges[r].id)

\* MAX_SESSIONS and MAX_SUBSCRIPTIONS bound the tables although requests create
\* entries after the eviction: by one more at most.
TablesBounded ==
  /\ Cardinality(DOMAIN sessions) <= MaxSessions + 1
  /\ Cardinality(DOMAIN subscriptions) <= MaxSubscriptions + 1

\* A session that is gone before SESSION_TTL made room: MAX_SESSIONS others are
\* no older than it.
SessionsAreKept ==
  \A s \in DOMAIN born : born[s] <= SessionTTL /\ s \notin DOMAIN sessions =>
    Cardinality({t \in DOMAIN born \ {s} : born[t] <= born[s]}) >= MaxSessions

\* No client has more than max_calls calls accepted within any window_seconds,
\* and a call is only rejected when as many were accepted in the window before.
RateLimitIsExact ==
  [][/\ \A c \in Clients : Len(accepted'[c]) <= MaxCalls
     /\ \A r \in Requests :
          exchanges'[r] # exchanges[r] /\ exchanges'[r].kind = "ratelimited" =>
            Len(accepted[exchanges'[r].client]) = MaxCalls]_mcpVars

\* docs/mcp-tools.md: "The system uses JSON-RPC 2.0 for MCP communication", where
\* a response carries the id of its request.
ResponseIdsMatch ==
  \A r \in Requests : exchanges[r].at = "answered" => OwnId(r, exchanges[r].id)

=============================================================================
