------------------------ MODULE StepExecutors_proofs ------------------------
(***************************************************************************)
(* Proofs about the metrics of the tool executor, for all lists of calls,  *)
(* about the cache of the retrieval agent, for all plans, sources and      *)
(* bounds, and about the modes of the engine, for all plans and agents     *)
(* that fail.                                                              *)
(***************************************************************************)
EXTENDS ToolExecutor, RetrievalAgent, ExecutionModes, Data_proofs, FunctionTheorems

-----------------------------------------------------------------------------
(***************************************************************************)
(* The metrics of the tool executor                                        *)
(*                                                                         *)
(* An attempt of a call is a start of its tool, but the last while it      *)
(* waits for a slot; a retry is a call with the number of an attempt.      *)
(***************************************************************************)
CallStates == {"new", "waiting", "running", "completed", "failed"}

AttemptInv(c) ==
  /\ call[c] = "new" => attempt[c] = 0
  /\ Input[c] = "fine" =>
       runs[c] = IF call[c] \in {"new", "waiting"} THEN attempt[c] ELSE attempt[c] + 1
  /\ Input[c] = "refused" => attempt[c] = 0
  /\ Input[c] = "raises" => attempt[c] = IF call[c] = "new" THEN 0 ELSE MaxRetries
  /\ Input[c] # "fine" => call[c] \in {"new", "failed"}

InState(status) == {c \in Calls : call[c] \in status}

Retries == {r \in Calls \X (1..MaxRetries) : r[2] <= attempt[r[1]]}

Counts == [total_executions : Nat, successful : Nat, failed : Nat, retries : Nat]

ToolInv ==
  /\ call \in [Calls -> CallStates]
  /\ attempt \in [Calls -> 0..MaxRetries]
  /\ runs \in [Calls -> Nat]
  /\ metrics \in Counts
  /\ \A c \in Calls : AttemptInv(c)
  /\ metrics.total_executions = Cardinality(InState(Ended))
  /\ metrics.successful = Cardinality(InState({"completed"}))
  /\ metrics.failed = Cardinality(InState({"failed"}))
  /\ metrics.retries = Cardinality(Retries)

\* There are only finitely many of what is counted.
LEMMA CountedAreFinite ==
  /\ \A status : IsFiniteSet(InState(status)) /\ Cardinality(InState(status)) \in Nat
  /\ IsFiniteSet(Retries) /\ Cardinality(Retries) \in Nat
<1>1. IsFiniteSet(Calls) /\ MaxRetries \in Nat
  BY ToolExecutorAssumption
<1>2. ASSUME NEW status
      PROVE  IsFiniteSet(InState(status)) /\ Cardinality(InState(status)) \in Nat
  <2>1. InState(status) \in SUBSET Calls
    BY DEF InState
  <2> QED
    BY <1>1, <2>1, FS_Subset, FS_CardinalityType
<1>3. IsFiniteSet(Calls \X (1..MaxRetries))
  <2>1. IsFiniteSet(1..MaxRetries)
    BY <1>1, FS_Interval
  <2> QED
    BY <1>1, <2>1, FS_Product
<1>4. Retries \in SUBSET (Calls \X (1..MaxRetries))
  BY DEF Retries
<1>5. IsFiniteSet(Retries) /\ Cardinality(Retries) \in Nat
  BY <1>3, <1>4, FS_Subset, FS_CardinalityType
<1> QED
  BY <1>2, <1>5

\* A call that was not over counts once where it ends, and nowhere else.
LEMMA EndIsCounted ==
  ASSUME call \in [Calls -> CallStates], NEW c \in Calls, call[c] \notin Ended,
         NEW s \in Ended, call' = [call EXCEPT ![c] = s], NEW status \in SUBSET Ended
  PROVE  Cardinality(InState(status)') = Cardinality(InState(status)) + (IF s \in status THEN 1 ELSE 0)
<1>1. call'[c] = s /\ \A e \in Calls \ {c} : call'[e] = call[e]
  OBVIOUS
<1>2. c \notin InState(status)
  BY DEF InState
<1>3. CASE s \in status
  <2>1. InState(status)' = InState(status) \cup {c}
    BY <1>1, <1>3 DEF InState
  <2> QED
    BY <1>2, <1>3, <2>1, CountedAreFinite, FS_AddElement
<1>4. CASE s \notin status
  <2>1. InState(status)' = InState(status)
    BY <1>1, <1>2, <1>4 DEF InState
  <2> QED
    BY <1>4, <2>1, CountedAreFinite
<1> QED
  BY <1>3, <1>4

\* Where a call is in no state that ends it, before and after, nothing counts.
LEMMA NoEndIsCounted ==
  ASSUME call \in [Calls -> CallStates], NEW c \in Calls, call[c] \notin Ended,
         NEW s, s \notin Ended, call' = [call EXCEPT ![c] = s], NEW status \in SUBSET Ended
  PROVE  InState(status)' = InState(status)
BY DEF InState

\* The next attempt is one more retry.
LEMMA RetryIsCounted ==
  ASSUME attempt \in [Calls -> 0..MaxRetries], NEW c \in Calls, attempt[c] < MaxRetries,
         attempt' = [attempt EXCEPT ![c] = attempt[c] + 1]
  PROVE  Cardinality(Retries') = Cardinality(Retries) + 1
<1>1. MaxRetries \in Nat /\ attempt[c] \in Nat
  BY ToolExecutorAssumption
<1> DEFINE r == <<c, attempt[c] + 1>>
<1>2. r \notin Retries /\ r \in Calls \X (1..MaxRetries)
  BY <1>1 DEF Retries
<1>3. Retries' = Retries \cup {r}
  <2>1. ASSUME NEW q \in Calls \X (1..MaxRetries)
        PROVE  q[2] <= attempt'[q[1]] <=> q[2] <= attempt[q[1]] \/ q = r
    <3>1. CASE q[1] = c
      <4>1. q = <<c, q[2]>> /\ q[2] \in Nat /\ attempt'[c] = attempt[c] + 1
        BY <3>1
      <4> QED
        BY <1>1, <3>1, <4>1
    <3>2. CASE q[1] # c
      BY <3>2
    <3> QED
      BY <3>1, <3>2
  <2> QED
    BY <1>2, <2>1 DEF Retries
<1> HIDE DEF r
<1> QED
  BY <1>2, <1>3, CountedAreFinite, FS_AddElement

\* A validation that raises has made all its attempts at once.
LEMMA RetriesAreCounted ==
  ASSUME attempt \in [Calls -> 0..MaxRetries], NEW c \in Calls, attempt[c] = 0,
         attempt' = [attempt EXCEPT ![c] = MaxRetries]
  PROVE  Cardinality(Retries') = Cardinality(Retries) + MaxRetries
<1>1. MaxRetries \in Nat
  BY ToolExecutorAssumption
<1> DEFINE New == {c} \X (1..MaxRetries)
<1>2. IsFiniteSet(New) /\ Cardinality(New) = MaxRetries
  <2>1. IsFiniteSet({c}) /\ Cardinality({c}) = 1
    BY FS_Singleton
  <2>2. IsFiniteSet(1..MaxRetries) /\ Cardinality(1..MaxRetries) = MaxRetries
    BY <1>1, FS_Interval
  <2> QED
    BY <1>1, <2>1, <2>2, FS_Product
<1>3. Retries \cap New = {}
  BY <1>1 DEF Retries
<1>4. Retries' = Retries \cup New
  <2>1. ASSUME NEW q \in Calls \X (1..MaxRetries)
        PROVE  q[2] <= attempt'[q[1]] <=> q[2] <= attempt[q[1]] \/ q \in New
    <3>1. CASE q[1] = c
      <4>1. q = <<c, q[2]>> /\ q[2] \in 1..MaxRetries /\ attempt'[c] = MaxRetries
        BY <3>1
      <4> QED
        BY <1>1, <3>1, <4>1
    <3>2. CASE q[1] # c
      BY <3>2
    <3> QED
      BY <3>1, <3>2
  <2> QED
    BY <2>1 DEF Retries
<1> HIDE DEF New
<1>5. Cardinality(Retries \cup New) = Cardinality(Retries) + Cardinality(New) - Cardinality({})
  BY <1>2, <1>3, CountedAreFinite, FS_Union
<1> QED
  BY <1>1, <1>2, <1>4, <1>5, CountedAreFinite, FS_EmptySet

\* What execute adds to the metrics when a call ends.
LEMMA EndIsMeasured ==
  ASSUME ToolInv, NEW c \in Calls, call[c] \notin Ended, NEW s \in Ended, NEW n \in Nat,
         Ends(c, s, n), Cardinality(Retries') = Cardinality(Retries) + n
  PROVE  /\ metrics' \in Counts
         /\ metrics'.total_executions = Cardinality(InState(Ended)')
         /\ metrics'.successful = Cardinality(InState({"completed"})')
         /\ metrics'.failed = Cardinality(InState({"failed"})')
         /\ metrics'.retries = Cardinality(Retries')
<1>1. /\ call \in [Calls -> CallStates] /\ call' = [call EXCEPT ![c] = s]
      /\ metrics \in Counts
  BY DEF ToolInv, Ends
<1>2. /\ Cardinality(InState(Ended)') = Cardinality(InState(Ended)) + 1
      /\ Cardinality(InState({"completed"})')
           = Cardinality(InState({"completed"})) + (IF s = "completed" THEN 1 ELSE 0)
      /\ Cardinality(InState({"failed"})')
           = Cardinality(InState({"failed"})) + (IF s = "failed" THEN 1 ELSE 0)
  <2>1. /\ Ended \in SUBSET Ended /\ {"completed"} \in SUBSET Ended /\ {"failed"} \in SUBSET Ended
        /\ s \in {"completed"} <=> s = "completed"
        /\ s \in {"failed"} <=> s = "failed"
    BY DEF Ended
  <2>2. Cardinality(InState(Ended)') = Cardinality(InState(Ended)) + 1
    BY <1>1, <2>1, EndIsCounted
  <2>3. Cardinality(InState({"completed"})')
          = Cardinality(InState({"completed"})) + (IF s \in {"completed"} THEN 1 ELSE 0)
    BY <1>1, <2>1, EndIsCounted
  <2>4. Cardinality(InState({"failed"})')
          = Cardinality(InState({"failed"})) + (IF s \in {"failed"} THEN 1 ELSE 0)
    BY <1>1, <2>1, EndIsCounted
  <2> QED
    BY <2>1, <2>2, <2>3, <2>4
<1>3. /\ metrics'.total_executions = metrics.total_executions + 1
      /\ metrics'.successful = metrics.successful + (IF s = "completed" THEN 1 ELSE 0)
      /\ metrics'.failed = metrics.failed + (IF s = "failed" THEN 1 ELSE 0)
      /\ metrics'.retries = metrics.retries + n
      /\ metrics' \in Counts
  <2> DEFINE succ == IF s = "completed" THEN 1 ELSE 0
             fail == IF s = "failed" THEN 1 ELSE 0
  <2>1. succ \in Nat /\ fail \in Nat
    OBVIOUS
  <2>2. metrics' = [metrics EXCEPT !.total_executions = metrics.total_executions + 1,
                                   !.successful = metrics.successful + succ,
                                   !.failed = metrics.failed + fail,
                                   !.retries = metrics.retries + n]
    BY DEF Ends
  <2> HIDE DEF succ, fail
  <2>3. /\ metrics = [total_executions |-> metrics.total_executions, successful |-> metrics.successful,
                      failed |-> metrics.failed, retries |-> metrics.retries]
        /\ metrics.total_executions \in Nat /\ metrics.successful \in Nat
        /\ metrics.failed \in Nat /\ metrics.retries \in Nat
    BY <1>1 DEF Counts
  <2>4. metrics' = [total_executions |-> metrics.total_executions + 1,
                    successful |-> metrics.successful + succ,
                    failed |-> metrics.failed + fail, retries |-> metrics.retries + n]
    BY <2>2, <2>3
  <2>5. /\ metrics'.total_executions = metrics.total_executions + 1
        /\ metrics'.successful = metrics.successful + succ
        /\ metrics'.failed = metrics.failed + fail
        /\ metrics'.retries = metrics.retries + n
    BY <2>4
  <2>6. metrics' \in Counts
    BY <2>1, <2>3, <2>4 DEF Counts
  <2> QED
    BY <2>5, <2>6 DEF succ, fail
<1> QED
  BY <1>2, <1>3 DEF ToolInv

\* The inductive invariant holds of every state of every behaviour.
THEOREM ToolInvariant == ToolSpec => []ToolInv
<1>1. ToolInit => ToolInv
  <2> SUFFICES ASSUME ToolInit
               PROVE  ToolInv
    OBVIOUS
  <2>1. /\ InState(Ended) = {} /\ InState({"completed"}) = {} /\ InState({"failed"}) = {}
        /\ Retries = {}
    BY ToolExecutorAssumption DEF ToolInit, InState, Ended, Retries
  <2>2. \A c \in Calls : AttemptInv(c)
    BY ToolExecutorAssumption DEF ToolInit, AttemptInv
  <2>3. Cardinality({}) = 0
    BY FS_EmptySet
  <2>4. /\ metrics = [total_executions |-> 0, successful |-> 0, failed |-> 0, retries |-> 0]
        /\ call = [c \in Calls |-> "new"] /\ runs = [c \in Calls |-> 0]
        /\ attempt = [c \in Calls |-> 0]
    BY DEF ToolInit
  <2>5. /\ metrics \in Counts /\ metrics.total_executions = 0 /\ metrics.successful = 0
        /\ metrics.failed = 0 /\ metrics.retries = 0
    BY <2>4 DEF Counts
  <2>6. /\ call \in [Calls -> CallStates] /\ runs \in [Calls -> Nat]
        /\ attempt \in [Calls -> 0..MaxRetries]
    BY <2>4, ToolExecutorAssumption DEF CallStates
  <2> QED
    BY <2>1, <2>2, <2>3, <2>5, <2>6 DEF ToolInv
<1>2. ToolInv /\ [ToolNext]_toolVars => ToolInv'
  <2> SUFFICES ASSUME ToolInv, [ToolNext]_toolVars
               PROVE  ToolInv'
    OBVIOUS
  <2> USE ToolExecutorAssumption
  <2>1. /\ call \in [Calls -> CallStates] /\ attempt \in [Calls -> 0..MaxRetries]
        /\ runs \in [Calls -> Nat] /\ metrics \in Counts
        /\ \A c \in Calls : AttemptInv(c)
    BY DEF ToolInv
  <2>2. ASSUME NEW c \in Calls, Execute(c)
        PROVE  ToolInv'
    <3>1. call[c] = "new" /\ call[c] \notin Ended /\ runs' = runs /\ attempt[c] = 0
      BY <2>1, <2>2 DEF Execute, Ended, AttemptInv
    <3>2. CASE Input[c] = "fine" /\ call' = [call EXCEPT ![c] = "waiting"] /\ UNCHANGED <<attempt, metrics>>
      <4>1. \A status \in SUBSET Ended : InState(status)' = InState(status)
        <5>1. "waiting" \notin Ended
          BY DEF Ended
        <5> QED
          BY <2>1, <3>1, <3>2, <5>1, NoEndIsCounted
      <4>2. /\ InState(Ended)' = InState(Ended)
            /\ InState({"completed"})' = InState({"completed"}) /\ InState({"failed"})' = InState({"failed"})
        BY <4>1 DEF Ended
      <4>3. Retries' = Retries
        BY <3>2 DEF Retries
      <4>4. \A e \in Calls : AttemptInv(e)'
        BY <2>1, <3>1, <3>2 DEF AttemptInv
      <4> QED
        BY <2>1, <3>1, <3>2, <4>2, <4>3, <4>4 DEF ToolInv, CallStates
    <3>3. CASE Input[c] = "refused" /\ Ends(c, "failed", 0) /\ UNCHANGED attempt
      <4>1. Retries' = Retries /\ "failed" \in Ended
        BY <3>3 DEF Retries, Ended
      <4>2. call' = [call EXCEPT ![c] = "failed"]
        BY <3>3 DEF Ends
      <4>3. \A e \in Calls : AttemptInv(e)'
        BY <2>1, <3>1, <3>3, <4>2 DEF AttemptInv
      <4>4. Cardinality(Retries') = Cardinality(Retries) + 0
        BY <4>1, CountedAreFinite
      <4> QED
        BY <2>1, <3>1, <3>3, <4>1, <4>2, <4>3, <4>4, EndIsMeasured DEF ToolInv, CallStates
    <3>4. CASE /\ Input[c] = "raises" /\ Ends(c, "failed", MaxRetries)
               /\ attempt' = [attempt EXCEPT ![c] = MaxRetries]
      <4>1. Cardinality(Retries') = Cardinality(Retries) + MaxRetries /\ "failed" \in Ended
        BY <2>1, <3>1, <3>4, RetriesAreCounted DEF Ended
      <4>2. call' = [call EXCEPT ![c] = "failed"]
        BY <3>4 DEF Ends
      <4>3. \A e \in Calls : AttemptInv(e)'
        BY <2>1, <3>1, <3>4, <4>2 DEF AttemptInv
      <4> QED
        BY <2>1, <3>1, <3>4, <4>1, <4>2, <4>3, EndIsMeasured DEF ToolInv, CallStates
    <3> QED
      BY <2>2, <3>2, <3>3, <3>4 DEF Execute
  <2>3. ASSUME NEW c \in Calls, Acquire(c)
        PROVE  ToolInv'
    <3>1. /\ call[c] = "waiting" /\ call' = [call EXCEPT ![c] = "running"]
          /\ runs' = [runs EXCEPT ![c] = runs[c] + 1] /\ attempt' = attempt /\ metrics' = metrics
      BY <2>3 DEF Acquire
    <3>2. /\ InState(Ended)' = InState(Ended)
          /\ InState({"completed"})' = InState({"completed"}) /\ InState({"failed"})' = InState({"failed"})
      BY <2>1, <3>1, NoEndIsCounted DEF Ended
    <3>3. Retries' = Retries
      BY <3>1 DEF Retries
    <3>4. \A e \in Calls : AttemptInv(e)'
      BY <2>1, <3>1 DEF AttemptInv
    <3> QED
      BY <2>1, <3>1, <3>2, <3>3, <3>4 DEF ToolInv, CallStates
  <2>4. ASSUME NEW c \in Calls, Returns(c)
        PROVE  ToolInv'
    <3>1. /\ call[c] = "running" /\ Ends(c, "completed", 0) /\ call[c] \notin Ended
          /\ runs' = runs /\ attempt' = attempt /\ "completed" \in Ended
      BY <2>4 DEF Returns, Ended
    <3>2. call' = [call EXCEPT ![c] = "completed"]
      BY <3>1 DEF Ends
    <3>3. Cardinality(Retries') = Cardinality(Retries) + 0
      BY <3>1, CountedAreFinite DEF Retries
    <3>4. \A e \in Calls : AttemptInv(e)'
      BY <2>1, <3>1, <3>2 DEF AttemptInv
    <3> QED
      BY <2>1, <3>1, <3>2, <3>3, <3>4, EndIsMeasured DEF ToolInv, CallStates
  <2>5. ASSUME NEW c \in Calls, Fails(c)
        PROVE  ToolInv'
    <3>1. call[c] = "running" /\ call[c] \notin Ended /\ runs' = runs /\ Input[c] = "fine"
      BY <2>1, <2>5 DEF Fails, Ended, AttemptInv
    <3>2. CASE attempt[c] < MaxRetries
      <4>1. /\ attempt' = [attempt EXCEPT ![c] = attempt[c] + 1]
            /\ call' = [call EXCEPT ![c] = "waiting"]
            /\ metrics' = [metrics EXCEPT !.retries = metrics.retries + 1]
        BY <2>5, <3>2 DEF Fails, Retried
      <4>2. /\ InState(Ended)' = InState(Ended)
            /\ InState({"completed"})' = InState({"completed"}) /\ InState({"failed"})' = InState({"failed"})
        BY <2>1, <3>1, <4>1, NoEndIsCounted DEF Ended
      <4>3. Cardinality(Retries') = Cardinality(Retries) + 1
        BY <2>1, <3>2, <4>1, RetryIsCounted
      <4>4. \A e \in Calls : AttemptInv(e)'
        BY <2>1, <3>1, <4>1 DEF AttemptInv
      <4>5. /\ metrics' \in Counts /\ metrics'.retries = metrics.retries + 1
            /\ metrics'.total_executions = metrics.total_executions
            /\ metrics'.successful = metrics.successful /\ metrics'.failed = metrics.failed
        BY <2>1, <4>1 DEF Counts
      <4>6. attempt' \in [Calls -> 0..MaxRetries] /\ call' \in [Calls -> CallStates]
        BY <2>1, <3>2, <4>1 DEF CallStates
      <4> QED
        BY <2>1, <3>1, <4>2, <4>3, <4>4, <4>5, <4>6 DEF ToolInv
    <3>3. CASE ~(attempt[c] < MaxRetries)
      <4>1. Ends(c, "failed", 0) /\ attempt' = attempt /\ "failed" \in Ended
        BY <2>5, <3>3 DEF Fails, Retried, Ended
      <4>2. call' = [call EXCEPT ![c] = "failed"]
        BY <4>1 DEF Ends
      <4>3. Cardinality(Retries') = Cardinality(Retries) + 0
        BY <4>1, CountedAreFinite DEF Retries
      <4>4. \A e \in Calls : AttemptInv(e)'
        BY <2>1, <3>1, <4>1, <4>2 DEF AttemptInv
      <4> QED
        BY <2>1, <3>1, <4>1, <4>2, <4>3, <4>4, EndIsMeasured DEF ToolInv, CallStates
    <3> QED
      BY <3>2, <3>3
  <2>6. CASE UNCHANGED toolVars
    <3>1. call' = call /\ attempt' = attempt /\ metrics' = metrics /\ runs' = runs
      BY <2>6 DEF toolVars
    <3> QED
      BY <2>1, <3>1 DEF ToolInv, AttemptInv, InState, Retries
  <2> QED
    BY <2>2, <2>3, <2>4, <2>5, <2>6 DEF ToolNext
<1> QED
  BY <1>1, <1>2, PTL DEF ToolSpec

\* However calls overlap, every call that is over is counted once and in one
\* way, and every retry once (execute, _update_metrics).
THEOREM CountsAddUpHolds == ToolSpec => []CountsAddUp
<1>1. ToolInv => CountsAddUp
  <2> SUFFICES ASSUME ToolInv
               PROVE  CountsAddUp
    OBVIOUS
  <2> DEFINE Again(c) == IF Input[c] = "fine"
                         THEN IF runs[c] = 0 THEN 0
                              ELSE runs[c] - (IF call[c] = "waiting" THEN 0 ELSE 1)
                         ELSE IF Input[c] = "raises" /\ call[c] \in Ended THEN MaxRetries ELSE 0
  <2>1. ASSUME NEW c \in Calls
        PROVE  Again(c) = attempt[c] /\ attempt[c] \in 0..MaxRetries
    <3>1. /\ AttemptInv(c) /\ attempt[c] \in 0..MaxRetries /\ runs[c] \in Nat
          /\ call[c] \in CallStates /\ MaxRetries \in Nat /\ Input[c] \in {"fine", "refused", "raises"}
      BY ToolExecutorAssumption DEF ToolInv
    <3> QED
      BY <3>1 DEF AttemptInv, CallStates, Ended
  <2> HIDE DEF Again
  <2>2. {r \in Calls \X (1..MaxRetries) : r[2] <= Again(r[1])} = Retries
    BY <2>1 DEF Retries
  <2>3. \A c \in Calls : Again(c) <= MaxRetries
    BY <2>1, ToolExecutorAssumption
  <2>4. /\ metrics.total_executions = Cardinality(InState(Ended))
        /\ metrics.successful = Cardinality(InState({"completed"}))
        /\ metrics.failed = Cardinality(InState({"failed"}))
        /\ metrics.retries = Cardinality({r \in Calls \X (1..MaxRetries) : r[2] <= Again(r[1])})
    BY <2>2 DEF ToolInv
  <2> QED
    BY <2>3, <2>4 DEF CountsAddUp, InState, Again
<1> QED
  BY <1>1, ToolInvariant, PTL

-----------------------------------------------------------------------------
(***************************************************************************)
(* The cache of results                                                    *)
(***************************************************************************)
SearchType ==
  [at : {"new", "waiting", "fetching", "answered", "raised"}, left : SUBSET Sources,
   found : BOOLEAN, read : Nat, waited : Nat]

Entry == [found : BOOLEAN, read : Nat, age : Nat]

IsCache(d) ==
  /\ d = [val |-> d.val, before |-> d.before]
  /\ d.val \in [Keys(d) -> Entry]

\* What a search has read is as old as the search at most, and what an entry
\* has was read by a search that took ResponseTime at most before it was stored.
CacheAges ==
  /\ search \in [Searches -> SearchType]
  /\ \A s \in Searches : search[s].at = "fetching" =>
       search[s].read <= search[s].waited /\ search[s].waited <= ResponseTime
  /\ IsCache(results)
  /\ \A k \in Keys(results) : results.val[k].read <= results.val[k].age + ResponseTime

\* A cache without some of its keys is a cache with the other entries (`del`).
LEMMA WithoutCache ==
  ASSUME NEW d, IsCache(d), NEW S
  PROVE  /\ IsCache(Without(d, S))
         /\ Keys(Without(d, S)) \subseteq Keys(d)
         /\ \A k \in Keys(Without(d, S)) : Without(d, S).val[k] = d.val[k]
BY DEF IsCache, Without, Keys

\* What set leaves in the cache is the new entry, or was there before.
LEMMA StoredCache ==
  ASSUME NEW d, IsCache(d), NEW k, NEW e \in Entry
  PROVE  /\ IsCache(Stored(d, k, e))
         /\ \A j \in Keys(Stored(d, k, e)) :
              \/ Stored(d, k, e).val[j] = e
              \/ j \in Keys(d) /\ Stored(d, k, e).val[j] = d.val[j]
<1>1. ASSUME NEW c, IsCache(c)
      PROVE  /\ IsCache(Assign(c, k, e))
             /\ \A j \in Keys(Assign(c, k, e)) :
                  \/ Assign(c, k, e).val[j] = e
                  \/ j \in Keys(c) /\ Assign(c, k, e).val[j] = c.val[j]
  BY <1>1 DEF IsCache, Assign, Keys
<1>2. CASE Cardinality(Keys(d)) >= CacheSize
  <2>1. Stored(d, k, e) = Assign(PopOldest(d), k, e)
    BY <1>2 DEF Stored
  <2>2. /\ IsCache(PopOldest(d))
        /\ \A j \in Keys(PopOldest(d)) : j \in Keys(d) /\ PopOldest(d).val[j] = d.val[j]
    BY WithoutCache DEF PopOldest
  <2> QED
    BY <1>1, <2>1, <2>2
<1>3. CASE ~(Cardinality(Keys(d)) >= CacheSize)
  BY <1>1, <1>3 DEF Stored
<1> QED
  BY <1>2, <1>3

\* The ages are what they are said to be.
THEOREM CacheAgesInvariant == RetrievalSpec => []CacheAges
<1>1. RetrievalInit => CacheAges
  BY DEF RetrievalInit, CacheAges, SearchType, At, Search, IsCache, NoKeys, Keys
<1>2. CacheAges /\ [RetrievalNext]_retrievalVars => CacheAges'
  <2> SUFFICES ASSUME CacheAges, [RetrievalNext]_retrievalVars PROVE CacheAges'
    OBVIOUS
  <2> USE RetrievalAssumption
  <2>1. ASSUME NEW s \in Searches, Ask(s) PROVE CacheAges'
    <3> DEFINE k == Key[s]
    <3>1. CASE /\ Fresh(k)
               /\ search' = [search EXCEPT ![s] = Search("answered", {}, results.val[k].found, 0, 0)]
               /\ results' = Kept(k)
      <4>1. results.val[k].found \in BOOLEAN
        BY <3>1 DEF CacheAges, IsCache, Entry, Fresh
      <4> QED
        BY <3>1, <4>1 DEF CacheAges, SearchType, Search, Kept, IsCache, Keys
    <3>2. CASE /\ search' = [search EXCEPT ![s] = At("waiting")]
               /\ results' = Without(results, {k})
      <4>1. /\ IsCache(results')
            /\ \A j \in Keys(results') : j \in Keys(results) /\ results.val[j] = results'.val[j]
        BY <3>2, WithoutCache DEF CacheAges
      <4> QED
        BY <3>2, <4>1 DEF CacheAges, SearchType, Search, At
    <3> QED
      BY <2>1, <3>1, <3>2 DEF Ask
  <2>2. ASSUME NEW s \in Searches, GetSlot(s) PROVE CacheAges'
    <3>1. Asked[Key[s]] \subseteq Sources
      OBVIOUS
    <3> QED
      BY <2>2, <3>1 DEF GetSlot, CacheAges, SearchType, Search, At, IsCache, Keys
  <2>3. ASSUME NEW s \in Searches, SourceAnswers(s) PROVE CacheAges'
    <3>1. PICK source \in search[s].left, found \in BOOLEAN :
            search' = [search EXCEPT ![s].left = @ \ {source}, ![s].found = @ \/ found]
      BY <2>3 DEF SourceAnswers
    <3>2. search[s] \in SearchType
      BY DEF CacheAges
    <3>3. search'[s] = [search[s] EXCEPT !.left = @ \ {source}, !.found = @ \/ found]
      BY <3>1 DEF CacheAges
    <3>4. /\ search'[s] \in SearchType
          /\ search'[s].at = search[s].at /\ search'[s].read = search[s].read
          /\ search'[s].waited = search[s].waited
      <4> DEFINE l == search[s].left \ {source}
                 f == search[s].found \/ found
      <4>1. l \in SUBSET Sources /\ f \in BOOLEAN
        BY <3>2 DEF SearchType
      <4>2. search'[s] = [search[s] EXCEPT !.left = l, !.found = f]
        BY <3>3
      <4> HIDE DEF l, f
      <4>3. search'[s] = [at |-> search[s].at, left |-> l, found |-> f,
                          read |-> search[s].read, waited |-> search[s].waited]
        BY <3>2, <4>2 DEF SearchType
      <4> QED
        BY <3>2, <4>1, <4>3 DEF SearchType
    <3>5. \A t \in Searches \ {s} : search'[t] = search[t]
      BY <3>1 DEF CacheAges
    <3>6. search' \in [Searches -> SearchType]
      <4>1. search' = [t \in Searches |-> search'[t]]
        BY <3>1 DEF CacheAges
      <4> QED
        BY <3>4, <3>5, <4>1 DEF CacheAges
    <3> QED
      BY <2>3, <3>4, <3>5, <3>6 DEF SourceAnswers, CacheAges, IsCache, Keys
  <2>4. ASSUME NEW s \in Searches, Finish(s) PROVE CacheAges'
    <3> DEFINE e == [found |-> search[s].found, read |-> search[s].read, age |-> 0]
    <3>1. e \in Entry /\ e.read <= e.age + ResponseTime
      BY <2>4 DEF Finish, CacheAges, SearchType, Entry
    <3>2. results' = Stored(results, Key[s], e)
      BY <2>4 DEF Finish
    <3> HIDE DEF e
    <3>3. /\ IsCache(results')
          /\ \A j \in Keys(results') :
               results'.val[j] = e \/ (j \in Keys(results) /\ results'.val[j] = results.val[j])
      BY <3>1, <3>2, StoredCache DEF CacheAges
    <3>4. \A j \in Keys(results') : results'.val[j].read <= results'.val[j].age + ResponseTime
      BY <3>1, <3>3 DEF CacheAges
    <3>5. /\ search' \in [Searches -> SearchType]
          /\ \A t \in Searches : search'[t].at = "fetching" =>
               search'[t].read <= search'[t].waited /\ search'[t].waited <= ResponseTime
      BY <2>4 DEF Finish, CacheAges, SearchType, Search
    <3> QED
      BY <3>3, <3>4, <3>5 DEF CacheAges
  <2>5. ASSUME NEW s \in Searches, Raises(s) PROVE CacheAges'
    BY <2>5 DEF Raises, CacheAges, SearchType, Search, At, IsCache, Keys
  <2>6. CASE Clear
    BY <2>6 DEF Clear, CacheAges, IsCache, NoKeys, Keys
  <2>7. CASE Tick
    <3>1. ASSUME NEW s \in Searches
          PROVE  /\ search'[s] \in SearchType
                 /\ search'[s].at = "fetching" =>
                      search'[s].read <= search'[s].waited /\ search'[s].waited <= ResponseTime
      <4>1. search[s] \in SearchType
        BY DEF CacheAges
      <4>2. CASE search[s].at # "fetching"
        <5>1. search'[s] = search[s]
          BY <2>7, <4>2 DEF Tick
        <5> QED
          BY <4>1, <4>2, <5>1
      <4>3. CASE search[s].at = "fetching"
        <5> DEFINE r == IF search[s].left = Asked[Key[s]] THEN 0 ELSE search[s].read + 1
        <5>1. search'[s] = [search[s] EXCEPT !.waited = @ + 1, !.read = r]
          BY <2>7, <4>3 DEF Tick
        <5>2. /\ search[s].read <= search[s].waited /\ search[s].waited < ResponseTime
              /\ search[s].read \in Nat /\ search[s].waited \in Nat
          BY <2>7, <4>1, <4>3 DEF Tick, CacheAges, SearchType
        <5>3. r \in Nat /\ r <= search[s].waited + 1
          BY <5>2
        <5> HIDE DEF r
        <5>4. /\ search'[s] \in SearchType
              /\ search'[s].read = r /\ search'[s].waited = search[s].waited + 1
          <6>1. search'[s] = [at |-> search[s].at, left |-> search[s].left,
                              found |-> search[s].found, read |-> r,
                              waited |-> search[s].waited + 1]
            BY <4>1, <5>1 DEF SearchType
          <6> QED
            BY <4>1, <5>2, <5>3, <6>1 DEF SearchType
        <5> QED
          BY <5>2, <5>3, <5>4
      <4> QED
        BY <4>2, <4>3
    <3>2. search' \in [Searches -> SearchType]
      <4>1. search' = [s \in Searches |-> search'[s]]
        BY <2>7 DEF Tick
      <4> QED
        BY <3>1, <4>1
    <3>3. Keys(results') = Keys(results) /\ results' = [val |-> results'.val, before |-> results'.before]
      BY <2>7 DEF Tick, CacheAges, IsCache, Keys
    <3>4. ASSUME NEW k \in Keys(results)
          PROVE  /\ results'.val[k] \in Entry
                 /\ results'.val[k].read <= results'.val[k].age + ResponseTime
      <4>1. results.val[k] \in Entry /\ results.val[k].read <= results.val[k].age + ResponseTime
        BY DEF CacheAges, IsCache
      <4> DEFINE older == IF Fresh(k) THEN 1 ELSE 0
      <4>2. results'.val[k] = [found |-> results.val[k].found, read |-> results.val[k].read + older,
                               age |-> results.val[k].age + older]
        BY <2>7 DEF Tick, CacheAges, IsCache
      <4>3. older \in Nat
        OBVIOUS
      <4> QED
        BY <4>1, <4>2, <4>3 DEF Entry
    <3>5. results'.val \in [Keys(results') -> Entry]
      <4>1. results'.val = [k \in Keys(results) |-> results'.val[k]]
        BY <2>7 DEF Tick, CacheAges, IsCache
      <4> QED
        BY <3>3, <3>4, <4>1
    <3> QED
      BY <3>1, <3>2, <3>3, <3>4, <3>5 DEF CacheAges, IsCache
  <2>8. CASE UNCHANGED retrievalVars
    BY <2>8 DEF retrievalVars, CacheAges, IsCache, Keys
  <2> QED
    BY <2>1, <2>2, <2>3, <2>4, <2>5, <2>6, <2>7, <2>8 DEF RetrievalNext, Goes
<1> QED
  BY <1>1, <1>2, PTL DEF RetrievalSpec

\* Nothing served from the cache is older than its TTL and the time a search
\* takes (RetrievalCache.get, set).
THEOREM AnswersAreRecentHolds == RetrievalSpec => []AnswersAreRecent
<1>1. CacheAges => AnswersAreRecent
  BY RetrievalAssumption DEF CacheAges, AnswersAreRecent, Fresh, IsCache, Entry
<1> QED
  BY <1>1, CacheAgesInvariant, PTL

-----------------------------------------------------------------------------
(***************************************************************************)
(* The modes of the engine                                                 *)
(***************************************************************************)
State ==
  [type : STRING, status : {"completed", "failed"}, truthy : BOOLEAN, revise : BOOLEAN]

RoundType ==
  [no : Nat, plan : Nat, steps : Plans, states : Seq(State), left : Int, subs : Int]

OneAfterTheOther == {"planning", "executing", "deciding", "answering", "returning"}

\* The state of a call.  Where steps are executed there is one left to execute,
\* and once a reasoning step has ended the context has the answer of its round.
ModesTypes ==
  /\ mode \in {"none", "streaming", "recursive", "branching"}
  /\ iteration \in Nat /\ plans \in Nat /\ rounds \in Nat
  /\ stack \in Seq(RoundType)
  /\ context \in [reason_result : Nat, retrieval_results : SUBSET Nat]
  /\ at = "idle" => mode = "none" /\ iteration = 0 /\ rounds = 0 /\ stack = <<>> /\ verdicts = {}
  /\ at \in OneAfterTheOther => mode \in {"streaming", "recursive"}
  /\ at \in {"branching", "merged"} => mode = "branching"
  /\ at \in {"executing", "deciding", "returning"} => stack # <<>>

ReasonsFirst ==
  /\ mode \in {"none", "branching"} => context.reason_result = NoRound
  /\ at = "executing" =>
       /\ Len(Top.states) < Len(Top.steps)
       /\ (\E j \in 1..Len(Top.states) : Top.steps[j] = "reason") => context.reason_result = Top.no

\* A stream is at its last plan, and has iterations left while it executes.
StreamInv ==
  mode = "streaming" =>
    /\ at \in {"planning", "executing", "deciding"} => iteration < MaxIterations
    /\ at \in {"executing", "deciding"} => Top.plan = plans /\ Top.no = rounds
    /\ rounds <= IF at \in {"executing", "deciding"} THEN iteration + 1
                 ELSE IF at = "planning" THEN iteration ELSE MaxIterations

\* A call has a level less left than its caller, and waits for sub-queries only
\* if it has more than one.
DepthInv ==
  mode = "recursive" =>
    /\ \A i \in DOMAIN stack : stack[i].left = Depth - i + 1
                               /\ stack[i].left >= 1
                               /\ (stack[i].subs > 0 => stack[i].left > 1)
    /\ at = "planning" => stack = <<>> \/ Top.subs > 0

ModesInv ==
  ModesTypes /\ ReasonsFirst /\ StreamInv /\ DepthInv /\ VerdictIsOwn /\ AnswerIsOfLastPlan

LEMMA OutcomesAreStates ==
  ASSUME NEW type \in STRING
  PROVE  Outcomes(type) \subseteq State
BY DEF Outcomes, State

\* The steps of a plan are as many as it has, and it has one.
LEMMA PlansAreSequences ==
  ASSUME NEW p \in Plans
  PROVE  p \in Seq(STRING) /\ Len(p) \in Nat \ {0}
BY ModesAssumption

LEMMA TopIsARound ==
  ASSUME stack \in Seq(RoundType), stack # <<>>
  PROVE  Top \in RoundType /\ Top = stack[Len(stack)] /\ Len(stack) \in DOMAIN stack
BY DEF Top, Last

LEMMA NewRound ==
  ASSUME NEW no \in Nat, NEW plan \in Nat, NEW steps \in Plans, NEW left \in Int
  PROVE  /\ Round(no, plan, steps, left) \in RoundType
         /\ Round(no, plan, steps, left).no = no
         /\ Round(no, plan, steps, left).plan = plan
         /\ Round(no, plan, steps, left).steps = steps
         /\ Round(no, plan, steps, left).states = <<>>
         /\ Round(no, plan, steps, left).left = left
         /\ Round(no, plan, steps, left).subs = 0
BY DEF Round, RoundType

\* A step that ended is added to the states of its round and to nothing else.
LEMMA RoundWithState ==
  ASSUME NEW r \in RoundType, NEW state \in State
  PROVE  LET new == [r EXCEPT !.states = Append(@, state)] IN
         /\ new \in RoundType
         /\ new.no = r.no /\ new.plan = r.plan /\ new.steps = r.steps
         /\ new.left = r.left /\ new.subs = r.subs
         /\ new.states = Append(r.states, state)
<1> DEFINE states == Append(r.states, state)
<1>1. states \in Seq(State)
  BY DEF RoundType
<1>2. [r EXCEPT !.states = Append(@, state)] = [r EXCEPT !.states = states]
  OBVIOUS
<1> HIDE DEF states
<1>3. [r EXCEPT !.states = states] =
        [no |-> r.no, plan |-> r.plan, steps |-> r.steps, states |-> states,
         left |-> r.left, subs |-> r.subs]
  BY DEF RoundType
<1>4. states = Append(r.states, state)
  BY DEF states
<1> QED
  BY <1>1, <1>2, <1>3, <1>4 DEF RoundType

\* The number of sub-queries is set and nothing else.
LEMMA RoundWithSubs ==
  ASSUME NEW r \in RoundType, NEW n \in Int
  PROVE  LET new == [r EXCEPT !.subs = n] IN
         new \in RoundType /\ new.left = r.left /\ new.subs = n
<1>1. [r EXCEPT !.subs = n] =
        [no |-> r.no, plan |-> r.plan, steps |-> r.steps, states |-> r.states,
         left |-> r.left, subs |-> n]
  BY DEF RoundType
<1> QED
  BY <1>1 DEF RoundType

\* The callers of a call are those that were on the stack before it.
LEMMA Callers ==
  ASSUME stack \in Seq(RoundType), stack # <<>>
  PROVE  /\ Front(stack) \in Seq(RoundType)
         /\ Len(Front(stack)) = Len(stack) - 1
         /\ \A i \in 1..Len(stack) - 1 : Front(stack)[i] = stack[i]
<1>1. Len(stack) \in Nat /\ Len(stack) >= 1
  BY EmptySeq, LenProperties
<1>2. Front(stack) \in Seq(RoundType)
  BY DEF Front
<1>3. Len(Front(stack)) = Len(stack) - 1
  <2>1. ASSUME NEW n \in Nat, n <= Len(stack)
        PROVE  Len(SubSeq(stack, 1, n)) = n
    BY <2>1
  <2>2. Len(stack) - 1 \in Nat /\ Len(stack) - 1 <= Len(stack)
    BY <1>1
  <2> QED
    BY <2>1, <2>2 DEF Front
<1>4. \A i \in 1..Len(stack) - 1 : Front(stack)[i] = stack[i]
  BY DEF Front
<1> QED
  BY <1>2, <1>3, <1>4

\* Call, and the steps of a call that leave its rounds alone.
LEMMA InitialModes == ModesInit => ModesInv
BY DEF ModesInit, ModesInv, ModesTypes, ReasonsFirst, StreamInv, DepthInv, VerdictIsOwn,
       AnswerIsOfLastPlan, OneAfterTheOther, NoRound

LEMMA CallPreserves == ModesInv /\ Call => ModesInv'
<1> SUFFICES ASSUME ModesInv, Call PROVE ModesInv'
  OBVIOUS
<1> USE ModesAssumption
<1>1. at = "idle" /\ mode = "none" /\ iteration = 0 /\ rounds = 0 /\ stack = <<>> /\ verdicts = {}
  BY DEF Call, ModesInv, ModesTypes
<1>2. /\ mode' \in {"streaming", "recursive", "branching"}
      /\ at' = IF mode' = "branching" THEN "branching" ELSE "planning"
      /\ UNCHANGED <<iteration, plans, rounds, stack, branches, context, verdicts>>
  BY DEF Call
<1>3. ModesTypes'
  BY <1>1, <1>2 DEF ModesInv, ModesTypes, OneAfterTheOther
<1>4. ReasonsFirst'
  BY <1>1, <1>2 DEF ModesInv, ReasonsFirst
<1>5. StreamInv' /\ DepthInv' /\ AnswerIsOfLastPlan' /\ VerdictIsOwn'
  BY <1>1, <1>2 DEF StreamInv, DepthInv, AnswerIsOfLastPlan, VerdictIsOwn, ModesInv, ModesTypes
<1> QED
  BY <1>3, <1>4, <1>5 DEF ModesInv

\* Only what ends a call happens: its rounds and its context stay.
LEMMA EndPreserves ==
  ASSUME ModesInv,
         UNCHANGED <<mode, iteration, plans, rounds, stack, context, verdicts>>,
         at' \in {"ended", "raised", "merged", "branching"},
         at' \in {"merged", "branching"} => mode = "branching",
         mode = "streaming" => rounds <= MaxIterations
  PROVE  ModesInv'
<1>1. ModesTypes'
  BY DEF ModesInv, ModesTypes, OneAfterTheOther
<1>2. ReasonsFirst' /\ VerdictIsOwn' /\ AnswerIsOfLastPlan'
  BY DEF ModesInv, ReasonsFirst, VerdictIsOwn, AnswerIsOfLastPlan
<1>3. StreamInv' /\ DepthInv'
  BY DEF ModesInv, StreamInv, DepthInv
<1> QED
  BY <1>1, <1>2, <1>3 DEF ModesInv

LEMMA MakePlanPreserves == ModesInv /\ MakePlan => ModesInv'
<1> SUFFICES ASSUME ModesInv, MakePlan PROVE ModesInv'
  OBVIOUS
<1> USE ModesAssumption
<1>1. /\ at = "planning" /\ mode \in {"streaming", "recursive"}
      /\ ~(mode = "streaming" /\ iteration = MaxIterations)
      /\ plans \in Nat /\ rounds \in Nat /\ iteration \in Nat /\ stack \in Seq(RoundType)
  BY DEF MakePlan, ModesInv, ModesTypes, StreamInv, OneAfterTheOther
<1>2. PICK p \in Plans :
        /\ at' = "executing" /\ rounds' = rounds + 1 /\ plans' = plans + 1
        /\ stack' = IF mode = "streaming" \/ stack = <<>>
                    THEN <<Round(rounds', plans', p, Depth)>>
                    ELSE Append(stack, Round(rounds', plans', p, Top.left - 1))
  BY <1>1 DEF MakePlan
<1>3. UNCHANGED <<mode, iteration, context, verdicts>>
  BY DEF MakePlan
<1> DEFINE left == IF mode = "streaming" \/ stack = <<>> THEN Depth ELSE Top.left - 1
           new == Round(rounds', plans', p, left)
<1>4. left \in Int
  BY <1>1, TopIsARound DEF RoundType
<1>5. /\ new \in RoundType /\ new.no = rounds' /\ new.plan = plans' /\ new.steps = p
      /\ new.states = <<>> /\ new.left = left /\ new.subs = 0
  <2>1. rounds' \in Nat /\ plans' \in Nat
    BY <1>1, <1>2
  <2>2. ASSUME NEW l \in Int
        PROVE  LET r == Round(rounds', plans', p, l) IN
               /\ r \in RoundType /\ r.no = rounds' /\ r.plan = plans' /\ r.steps = p
               /\ r.states = <<>> /\ r.left = l /\ r.subs = 0
    BY <2>1 DEF Round, RoundType
  <2> HIDE DEF left
  <2> QED
    BY <1>4, <2>2
<1>6. stack' = IF mode = "streaming" \/ stack = <<>> THEN <<new>> ELSE Append(stack, new)
  BY <1>2
<1> HIDE DEF new, left
<1>7. /\ stack' \in Seq(RoundType) /\ stack' # <<>> /\ Top' = new
      /\ \A i \in 1..Len(stack') - 1 : i \in 1..Len(stack) /\ stack'[i] = stack[i]
      /\ Len(stack') = IF mode = "streaming" \/ stack = <<>> THEN 1 ELSE Len(stack) + 1
      /\ stack'[Len(stack')] = new
  BY <1>1, <1>5, <1>6 DEF Top, Last
<1>8. ModesTypes'
  BY <1>1, <1>2, <1>3, <1>7 DEF ModesInv, ModesTypes, OneAfterTheOther
<1>9. ReasonsFirst'
  <2>1. Len(p) \in Nat \ {0}
    BY PlansAreSequences
  <2>2. Len(Top'.states) = 0 /\ Top'.steps = p
    BY <1>5, <1>7
  <2>3. ~\E j \in 1..Len(Top'.states) : Top'.steps[j] = "reason"
    BY <2>2
  <2> QED
    BY <1>1, <1>2, <1>3, <2>1, <2>2, <2>3 DEF ReasonsFirst
<1>10. StreamInv'
  BY <1>1, <1>2, <1>3, <1>5, <1>7 DEF ModesInv, StreamInv
<1>11. DepthInv'
  <2> SUFFICES ASSUME mode = "recursive"
               PROVE  \A i \in DOMAIN stack' : /\ stack'[i].left = Depth - i + 1
                                               /\ stack'[i].left >= 1
                                               /\ (stack'[i].subs > 0 => stack'[i].left > 1)
    BY <1>2, <1>3 DEF DepthInv
  <2>1. \A i \in DOMAIN stack : stack[i].left = Depth - i + 1
                                /\ stack[i].left >= 1
                                /\ (stack[i].subs > 0 => stack[i].left > 1)
    BY DEF ModesInv, DepthInv
  <2>2. left = Depth - Len(stack') + 1 /\ left >= 1
    <3>1. CASE stack = <<>>
      BY <1>7, <3>1 DEF left
    <3>2. CASE stack # <<>>
      <4>1. Top.subs > 0 /\ Top = stack[Len(stack)] /\ Len(stack) \in DOMAIN stack
        BY <1>1, <3>2, TopIsARound DEF ModesInv, DepthInv
      <4>2. Top.left = Depth - Len(stack) + 1 /\ Top.left > 1
        BY <2>1, <4>1
      <4> QED
        BY <1>1, <1>7, <3>2, <4>2 DEF left
    <3> QED
      BY <3>1, <3>2
  <2>3. ASSUME NEW i \in DOMAIN stack', i # Len(stack')
        PROVE  i \in DOMAIN stack /\ stack'[i] = stack[i]
    BY <1>1, <1>7, <2>3
  <2>4. new.left = left /\ ~(new.subs > 0)
    BY <1>5
  <2> QED
    BY <1>7, <2>1, <2>2, <2>3, <2>4
<1>12. VerdictIsOwn' /\ AnswerIsOfLastPlan'
  BY <1>1, <1>2, <1>3 DEF ModesInv, VerdictIsOwn, AnswerIsOfLastPlan
<1> QED
  BY <1>8, <1>9, <1>10, <1>11, <1>12 DEF ModesInv

\* The round on top of the stack is another one of its kind.
LEMMA TopReplaced ==
  ASSUME stack \in Seq(RoundType), stack # <<>>,
         NEW r \in RoundType, stack' = [stack EXCEPT ![Len(stack)] = r]
  PROVE  /\ stack' \in Seq(RoundType) /\ stack' # <<>> /\ Len(stack') = Len(stack)
         /\ Top' = r
         /\ \A i \in DOMAIN stack' : i \in DOMAIN stack
                                     /\ stack'[i] = IF i = Len(stack) THEN r ELSE stack[i]
<1>1. Len(stack) \in 1..Len(stack)
  OBVIOUS
<1>2. stack' \in Seq(RoundType) /\ Len(stack') = Len(stack)
  BY <1>1
<1>3. \A i \in DOMAIN stack' : i \in DOMAIN stack
                               /\ stack'[i] = IF i = Len(stack) THEN r ELSE stack[i]
  BY <1>1
<1> QED
  BY <1>1, <1>2, <1>3 DEF Top, Last

LEMMA ExecuteStepPreserves == ModesInv /\ ExecuteStep => ModesInv'
<1> SUFFICES ASSUME ModesInv, ExecuteStep PROVE ModesInv'
  OBVIOUS
<1> DEFINE i == Len(Top.states) + 1
           type == Top.steps[i]
<1>1. /\ at = "executing" /\ mode \in {"streaming", "recursive"}
      /\ stack \in Seq(RoundType) /\ stack # <<>>
  BY DEF ExecuteStep, ModesInv, ModesTypes, OneAfterTheOther
<1>2. Top \in RoundType /\ Top = stack[Len(stack)] /\ Len(stack) \in DOMAIN stack
  BY <1>1, TopIsARound
<1>3. /\ Top.steps \in Plans /\ Top.steps \in Seq(STRING) /\ Len(Top.steps) \in Nat
      /\ Top.states \in Seq(State) /\ Len(Top.states) \in Nat /\ Top.no \in Nat
      /\ Len(Top.states) < Len(Top.steps)
  BY <1>1, <1>2, PlansAreSequences DEF RoundType, ModesInv, ReasonsFirst
<1>4. i \in DOMAIN Top.steps /\ type \in STRING
  BY <1>3
<1>5. PICK state \in Outcomes(type) :
        /\ stack' = [stack EXCEPT ![Len(stack)].states = Append(@, state)]
        /\ at' = IF Stops(state) \/ i = Len(Top.steps) THEN "deciding" ELSE "executing"
        /\ IF type = "reason" /\ state.status = "completed"
           THEN context' = [context EXCEPT !.reason_result = Top.no] ELSE UNCHANGED context
        /\ IF type = "validate" /\ state.status = "completed"
           THEN verdicts' = verdicts \cup {[of |-> context.reason_result, by |-> Top.no]}
           ELSE UNCHANGED verdicts
  BY DEF ExecuteStep
<1>6. UNCHANGED <<mode, iteration, plans, rounds>>
  BY DEF ExecuteStep
<1>7. state \in State
  BY <1>4, <1>5, OutcomesAreStates
<1> DEFINE new == [Top EXCEPT !.states = Append(@, state)]
<1>8. /\ new \in RoundType
      /\ new.no = Top.no /\ new.plan = Top.plan /\ new.steps = Top.steps
      /\ new.left = Top.left /\ new.subs = Top.subs
      /\ new.states = Append(Top.states, state)
  BY <1>2, <1>7, RoundWithState
<1>9. stack' = [stack EXCEPT ![Len(stack)] = new]
  BY <1>2, <1>5
<1> HIDE DEF new
<1>10. /\ stack' \in Seq(RoundType) /\ stack' # <<>> /\ Len(stack') = Len(stack)
       /\ Top' = new
       /\ \A j \in DOMAIN stack' : j \in DOMAIN stack
                                   /\ stack'[j] = IF j = Len(stack) THEN new ELSE stack[j]
  BY <1>1, <1>8, <1>9, TopReplaced
<1>11. /\ context' \in [reason_result : Nat, retrieval_results : SUBSET Nat]
       /\ context'.retrieval_results = context.retrieval_results
       /\ context'.reason_result = IF type = "reason" /\ state.status = "completed"
                                   THEN Top.no ELSE context.reason_result
  <2>1. context \in [reason_result : Nat, retrieval_results : SUBSET Nat]
    BY DEF ModesInv, ModesTypes
  <2> QED
    BY <1>3, <1>5, <2>1
<1>12. ModesTypes'
  BY <1>1, <1>5, <1>6, <1>10, <1>11 DEF ModesInv, ModesTypes, OneAfterTheOther
<1>13. ReasonsFirst'
  <2>1. mode' \notin {"none", "branching"}
    BY <1>1, <1>6
  <2> SUFFICES ASSUME at' = "executing"
               PROVE  /\ Len(Top'.states) < Len(Top'.steps)
                      /\ (\E j \in 1..Len(Top'.states) : Top'.steps[j] = "reason")
                            => context'.reason_result = Top'.no
    BY <2>1 DEF ReasonsFirst
  <2>2. i # Len(Top.steps) /\ state.status = "completed"
    BY <1>5, <1>7 DEF Stops, State
  <2>3. Len(Top'.states) = i /\ Top'.steps = Top.steps /\ Top'.no = Top.no
    BY <1>3, <1>7, <1>8, <1>10
  <2>4. ASSUME NEW j \in 1..i, Top.steps[j] = "reason"
        PROVE  context'.reason_result = Top.no
    <3>1. CASE j = i
      BY <1>11, <2>2, <2>4, <3>1
    <3>2. CASE j # i
      <4>1. j \in 1..Len(Top.states)
        BY <1>3, <2>4, <3>2
      <4>2. context.reason_result = Top.no
        BY <1>1, <2>4, <4>1 DEF ModesInv, ReasonsFirst
      <4> QED
        BY <1>11, <4>2
    <3> QED
      BY <3>1, <3>2
  <2> QED
    BY <1>3, <2>2, <2>3, <2>4
<1>14. StreamInv'
  BY <1>1, <1>5, <1>6, <1>8, <1>10 DEF ModesInv, StreamInv
<1>15. DepthInv'
  BY <1>1, <1>2, <1>5, <1>6, <1>8, <1>10 DEF ModesInv, DepthInv
<1>16. VerdictIsOwn'
  <2>1. mode # "branching" /\ mode' # "branching" /\ \A v \in verdicts : v.of = v.by
    BY <1>1, <1>6 DEF ModesInv, VerdictIsOwn
  <2>2. ASSUME type = "validate" PROVE context.reason_result = Top.no
    <3>1. PICK j \in 1..i - 1 : Top.steps[j] = "reason"
      BY <1>3, <1>4, <2>2, ModesAssumption
    <3>2. j \in 1..Len(Top.states)
      BY <1>3
    <3> QED
      BY <1>1, <3>1, <3>2 DEF ModesInv, ReasonsFirst
  <2> QED
    BY <1>5, <2>1, <2>2 DEF VerdictIsOwn
<1>17. AnswerIsOfLastPlan'
  BY <1>5 DEF AnswerIsOfLastPlan
<1> QED
  BY <1>12, <1>13, <1>14, <1>15, <1>16, <1>17 DEF ModesInv

\* The end of an iteration of a stream.
LEMMA GatherPreserves == ModesInv /\ (Revise \/ Repeat \/ Converge) => ModesInv'
<1> SUFFICES ASSUME ModesInv, Revise \/ Repeat \/ Converge PROVE ModesInv'
  OBVIOUS
<1> USE ModesAssumption
<1>1. /\ at = "deciding" /\ mode = "streaming"
      /\ context' = [context EXCEPT !.retrieval_results =
                       IF Aggregated(Top.states) = {} THEN {} ELSE {Top.no}]
      /\ UNCHANGED <<mode, plans, verdicts>>
  BY DEF Revise, Repeat, Converge, Gather
<1>2. /\ stack \in Seq(RoundType) /\ stack # <<>> /\ Top \in RoundType
      /\ plans \in Nat /\ rounds \in Nat /\ iteration \in Nat
      /\ context \in [reason_result : Nat, retrieval_results : SUBSET Nat]
      /\ iteration < MaxIterations /\ Top.plan = plans /\ Top.no = rounds
      /\ rounds <= iteration + 1
  BY <1>1, TopIsARound DEF ModesInv, ModesTypes, StreamInv
<1>3. /\ context' \in [reason_result : Nat, retrieval_results : SUBSET Nat]
      /\ context'.retrieval_results \subseteq {rounds}
  BY <1>1, <1>2
<1>4. VerdictIsOwn'
  BY <1>1 DEF ModesInv, VerdictIsOwn
<1>5. CASE Revise
  <2>1. /\ at' = "planning" /\ iteration' = iteration + 1 /\ iteration < MaxIterations - 1
        /\ UNCHANGED <<rounds, stack>>
    BY <1>5 DEF Revise, MayReplan
  <2>2. ModesTypes'
    BY <1>1, <1>2, <1>3, <2>1 DEF ModesInv, ModesTypes, OneAfterTheOther
  <2>3. ReasonsFirst' /\ StreamInv' /\ DepthInv' /\ AnswerIsOfLastPlan'
    BY <1>1, <1>2, <2>1 DEF ReasonsFirst, StreamInv, DepthInv, AnswerIsOfLastPlan
  <2> QED
    BY <1>4, <2>2, <2>3 DEF ModesInv
<1>6. CASE Repeat
  <2> DEFINE new == Round(rounds', Top.plan, Top.steps, Top.left)
  <2>1. /\ at' = "executing" /\ iteration' = iteration + 1 /\ rounds' = rounds + 1
        /\ iteration + 1 < MaxIterations /\ stack' = <<new>>
    BY <1>6 DEF Repeat
  <2>2. /\ new \in RoundType /\ new.no = rounds' /\ new.plan = plans
        /\ new.steps = Top.steps /\ new.states = <<>>
    <3>1. rounds' \in Nat /\ Top.plan \in Nat /\ Top.steps \in Plans /\ Top.left \in Int
      BY <1>2, <2>1 DEF RoundType
    <3> QED
      BY <1>2, <3>1 DEF Round, RoundType
  <2> HIDE DEF new
  <2>3. stack' \in Seq(RoundType) /\ stack' # <<>> /\ Top' = new
    BY <2>1, <2>2 DEF Top, Last
  <2>4. ModesTypes'
    BY <1>1, <1>2, <1>3, <2>1, <2>3 DEF ModesInv, ModesTypes, OneAfterTheOther
  <2>5. ReasonsFirst'
    <3>1. Top.steps \in Plans
      BY <1>2 DEF RoundType
    <3>2. Len(Top'.states) = 0 /\ Len(Top'.steps) \in Nat \ {0}
      BY <2>2, <2>3, <3>1, PlansAreSequences
    <3>3. ~\E j \in 1..Len(Top'.states) : Top'.steps[j] = "reason"
      BY <3>2
    <3> QED
      BY <1>1, <3>2, <3>3 DEF ReasonsFirst
  <2>6. StreamInv' /\ DepthInv' /\ AnswerIsOfLastPlan'
    BY <1>1, <1>2, <2>1, <2>2, <2>3 DEF StreamInv, DepthInv, AnswerIsOfLastPlan
  <2> QED
    BY <1>4, <2>4, <2>5, <2>6 DEF ModesInv
<1>7. CASE Converge
  <2>1. at' = "answering" /\ UNCHANGED <<iteration, rounds, stack>>
    BY <1>7 DEF Converge
  <2>2. ModesTypes'
    BY <1>1, <1>2, <1>3, <2>1 DEF ModesInv, ModesTypes, OneAfterTheOther
  <2>3. ReasonsFirst' /\ StreamInv' /\ DepthInv'
    BY <1>1, <1>2, <2>1 DEF ReasonsFirst, StreamInv, DepthInv
  <2>4. AnswerIsOfLastPlan'
    BY <1>1, <1>2, <1>3, <2>1 DEF AnswerIsOfLastPlan, Top
  <2> QED
    BY <1>4, <2>2, <2>3, <2>4 DEF ModesInv
<1> QED
  BY <1>5, <1>6, <1>7

LEMMA DescendPreserves == ModesInv /\ Descend => ModesInv'
<1> SUFFICES ASSUME ModesInv, Descend PROVE ModesInv'
  OBVIOUS
<1>1. /\ at = "deciding" /\ mode = "recursive" /\ Top.left > 1 /\ at' = "planning"
      /\ UNCHANGED <<mode, iteration, plans, rounds, context, verdicts>>
      /\ stack \in Seq(RoundType) /\ stack # <<>>
  BY DEF Descend, ModesInv, ModesTypes
<1>2. PICK n \in 1..MaxSubQueries : stack' = [stack EXCEPT ![Len(stack)].subs = FirstTwo(n)]
  BY DEF Descend
<1>3. FirstTwo(n) \in Int /\ FirstTwo(n) > 0
  BY ModesAssumption DEF FirstTwo
<1>4. Top \in RoundType /\ Top = stack[Len(stack)] /\ Len(stack) \in DOMAIN stack
  BY <1>1, TopIsARound
<1> DEFINE new == [Top EXCEPT !.subs = FirstTwo(n)]
<1>5. new \in RoundType /\ new.left = Top.left /\ new.subs = FirstTwo(n)
  BY <1>3, <1>4, RoundWithSubs
<1>6. stack' = [stack EXCEPT ![Len(stack)] = new]
  BY <1>2, <1>4
<1> HIDE DEF new
<1>7. /\ stack' \in Seq(RoundType) /\ stack' # <<>> /\ Top' = new
      /\ \A j \in DOMAIN stack' : j \in DOMAIN stack
                                  /\ stack'[j] = IF j = Len(stack) THEN new ELSE stack[j]
  BY <1>1, <1>5, <1>6, TopReplaced
<1>8. ModesTypes'
  BY <1>1, <1>7 DEF ModesInv, ModesTypes, OneAfterTheOther
<1>9. ReasonsFirst' /\ StreamInv' /\ VerdictIsOwn' /\ AnswerIsOfLastPlan'
  BY <1>1 DEF ModesInv, ReasonsFirst, StreamInv, VerdictIsOwn, AnswerIsOfLastPlan
<1>10. DepthInv'
  <2>1. \A j \in DOMAIN stack : stack[j].left = Depth - j + 1 /\ stack[j].left >= 1
                                /\ (stack[j].subs > 0 => stack[j].left > 1)
    BY <1>1 DEF ModesInv, DepthInv
  <2>2. ASSUME NEW j \in DOMAIN stack'
        PROVE  /\ stack'[j].left = Depth - j + 1 /\ stack'[j].left >= 1
               /\ (stack'[j].subs > 0 => stack'[j].left > 1)
    <3>1. CASE j = Len(stack)
      BY <1>1, <1>4, <1>5, <1>7, <2>1, <3>1
    <3>2. CASE j # Len(stack)
      BY <1>7, <2>1, <3>2
    <3> QED
      BY <3>1, <3>2
  <2> QED
    BY <1>1, <1>3, <1>5, <1>7, <2>2 DEF DepthInv
<1> QED
  BY <1>8, <1>9, <1>10 DEF ModesInv

LEMMA ReturnPreserves == ModesInv /\ Return => ModesInv'
<1> SUFFICES ASSUME ModesInv, Return PROVE ModesInv'
  OBVIOUS
<1> DEFINE callers == Front(stack)
<1>1. /\ at \in {"deciding", "returning"} /\ mode = "recursive"
      /\ stack' = IF callers = <<>> THEN <<>>
                  ELSE [callers EXCEPT ![Len(callers)].subs = @ - 1]
      /\ at' = IF stack' = <<>> THEN "ended"
               ELSE IF Last(stack').subs > 0 THEN "planning" ELSE "returning"
      /\ UNCHANGED <<mode, iteration, plans, rounds, context, verdicts>>
      /\ stack \in Seq(RoundType) /\ stack # <<>>
  BY DEF Return, ModesInv, ModesTypes
<1>2. /\ callers \in Seq(RoundType)
      /\ Len(callers) = Len(stack) - 1
      /\ \A i \in 1..Len(stack) - 1 : callers[i] = stack[i]
  BY <1>1, Callers
<1>3. \A i \in DOMAIN stack : /\ stack[i].left = Depth - i + 1 /\ stack[i].left >= 1
                              /\ (stack[i].subs > 0 => stack[i].left > 1)
                              /\ stack[i].subs \in Int
  <2>1. \A i \in DOMAIN stack : stack[i] \in RoundType
    BY <1>1
  <2> QED
    BY <1>1, <2>1 DEF ModesInv, DepthInv, RoundType
<1> HIDE DEF callers
<1>4. CASE callers = <<>>
  <2>1. stack' = <<>> /\ at' = "ended"
    BY <1>1, <1>4
  <2>2. ModesTypes'
    BY <1>1, <2>1 DEF ModesInv, ModesTypes, OneAfterTheOther
  <2> QED
    BY <1>1, <2>1, <2>2 DEF ModesInv, ReasonsFirst, StreamInv, DepthInv, VerdictIsOwn,
                            AnswerIsOfLastPlan
<1>5. CASE callers # <<>>
  <2> DEFINE last == callers[Len(callers)]
             new == [last EXCEPT !.subs = last.subs - 1]
  <2>1. Len(callers) \in DOMAIN callers /\ last \in RoundType
    BY <1>2, <1>5
  <2>2. new \in RoundType /\ new.left = last.left /\ new.subs = last.subs - 1
    <3>1. last.subs - 1 \in Int
      BY <2>1 DEF RoundType
    <3> HIDE DEF last
    <3> QED
      BY <2>1, <3>1, RoundWithSubs
  <2>3. stack' = [callers EXCEPT ![Len(callers)] = new]
    BY <1>1, <1>5, <2>1
  <2>4. last.left = Depth - Len(callers) + 1 /\ last.left >= 1
        /\ (last.subs > 0 => last.left > 1) /\ last.subs \in Int
    <3>1. Len(callers) \in 1..Len(stack) - 1 /\ Len(callers) \in DOMAIN stack
      BY <1>1, <1>2, <1>5
    <3>2. last = stack[Len(callers)]
      BY <1>2, <3>1
    <3> QED
      BY <1>3, <3>1, <3>2
  <2> HIDE DEF new, last
  <2>5. /\ stack' \in Seq(RoundType) /\ stack' # <<>> /\ Len(stack') = Len(callers)
        /\ Last(stack') = new
        /\ \A j \in DOMAIN stack' : j \in 1..Len(callers)
                                    /\ stack'[j] = IF j = Len(callers) THEN new ELSE callers[j]
    BY <1>2, <1>5, <2>1, <2>2, <2>3 DEF Last
  <2>6. ModesTypes'
    BY <1>1, <2>5 DEF ModesInv, ModesTypes, OneAfterTheOther
  <2>7. ReasonsFirst' /\ StreamInv' /\ VerdictIsOwn' /\ AnswerIsOfLastPlan'
    BY <1>1 DEF ModesInv, ReasonsFirst, StreamInv, VerdictIsOwn, AnswerIsOfLastPlan
  <2>8. ASSUME NEW j \in DOMAIN stack'
        PROVE  /\ stack'[j].left = Depth - j + 1 /\ stack'[j].left >= 1
               /\ (stack'[j].subs > 0 => stack'[j].left > 1)
    <3>1. CASE j = Len(callers)
      BY <2>2, <2>4, <2>5, <3>1
    <3>2. CASE j # Len(callers)
      <4>1. j \in 1..Len(stack) - 1 /\ j \in DOMAIN stack /\ stack'[j] = stack[j]
        BY <1>1, <1>2, <2>5, <3>2
      <4> QED
        BY <1>3, <4>1
    <3> QED
      BY <3>1, <3>2
  <2>9. DepthInv'
    BY <1>1, <2>5, <2>8 DEF DepthInv, Top
  <2> QED
    BY <2>6, <2>7, <2>9 DEF ModesInv
<1> QED
  BY <1>4, <1>5

LEMMA BranchPreserves ==
  ASSUME ModesInv, NEW b \in 1..Branches, PlanBranch(b) \/ BranchStep(b)
  PROVE  ModesInv'
<1>1. /\ at = "branching" /\ mode = "branching" /\ context.reason_result = NoRound
      /\ UNCHANGED <<mode, at, iteration, stack, context>>
  BY DEF PlanBranch, BranchStep, ModesInv, ModesTypes, ReasonsFirst
<1>2. plans' \in Nat /\ rounds' \in Nat
  <2>1. plans \in Nat /\ rounds \in Nat
    BY DEF ModesInv, ModesTypes
  <2>2. UNCHANGED <<plans, rounds>> \/ (plans' = plans + 1 /\ rounds' = rounds + 1)
    BY Zenon DEF PlanBranch, BranchStep
  <2> QED
    BY <2>1, <2>2
<1>3. ModesTypes'
  BY <1>1, <1>2 DEF ModesInv, ModesTypes, OneAfterTheOther
<1>4. ReasonsFirst' /\ StreamInv' /\ DepthInv' /\ AnswerIsOfLastPlan'
  BY <1>1 DEF ReasonsFirst, StreamInv, DepthInv, AnswerIsOfLastPlan
<1>5. \A v \in verdicts' : v.of = NoRound
  <2>1. \A v \in verdicts : v.of = NoRound
    BY <1>1 DEF ModesInv, VerdictIsOwn
  <2>2. CASE PlanBranch(b)
    BY <2>1, <2>2 DEF PlanBranch
  <2>3. CASE BranchStep(b)
    <3>1. \/ UNCHANGED verdicts
          \/ verdicts' = verdicts
                 \cup {[of |-> context.reason_result, by |-> branches[b].round.no]}
      BY <2>3 DEF BranchStep
    <3> QED
      BY <1>1, <2>1, <3>1
  <2> QED
    BY <2>2, <2>3
<1> QED
  BY <1>1, <1>3, <1>4, <1>5 DEF ModesInv, VerdictIsOwn

\* The state of a call is what it is said to be, in every mode.
THEOREM ModesInvariant == ModesSpec => []ModesInv
<1>1. ModesInv /\ [ModesNext]_modesVars => ModesInv'
  <2> SUFFICES ASSUME ModesInv, [ModesNext]_modesVars PROVE ModesInv'
    OBVIOUS
  <2>1. CASE Call
    BY <2>1, CallPreserves
  <2>2. CASE MakePlan
    BY <2>2, MakePlanPreserves
  <2>3. CASE ExecuteStep
    BY <2>3, ExecuteStepPreserves
  <2>4. CASE Revise \/ Repeat \/ Converge
    BY <2>4, GatherPreserves
  <2>5. CASE Descend
    BY <2>5, DescendPreserves
  <2>6. CASE Return
    BY <2>6, ReturnPreserves
  <2>7. ASSUME NEW b \in 1..Branches, PlanBranch(b) \/ BranchStep(b) PROVE ModesInv'
    BY <2>7, BranchPreserves
  <2>8. CASE PlannerRaises \/ Answer \/ Merge \/ ExecuteMerged
    <3>1. /\ UNCHANGED <<mode, iteration, plans, rounds, stack, context, verdicts>>
          /\ at' \in {"ended", "raised", "merged"}
          /\ at' = "merged" => mode = "branching"
      BY <2>8 DEF PlannerRaises, Answer, Merge, ExecuteMerged, ModesInv, ModesTypes
    <3>2. mode = "streaming" => rounds <= MaxIterations
      BY ModesAssumption DEF ModesInv, StreamInv, ModesTypes
    <3> QED
      BY <3>1, <3>2, EndPreserves
  <2>9. CASE UNCHANGED modesVars
    BY <2>9 DEF modesVars, ModesInv, ModesTypes, ReasonsFirst, StreamInv, DepthInv, Top,
                VerdictIsOwn, AnswerIsOfLastPlan
  <2> QED
    BY <2>1, <2>2, <2>3, <2>4, <2>5, <2>6, <2>7, <2>8, <2>9 DEF ModesNext, Continue
<1> QED
  BY <1>1, InitialModes, PTL DEF ModesSpec

\* A validator judges the answer of its own round, or none
\* (_execute_plan_sequential, execute_streaming, _execute_plan_parallel).
THEOREM VerdictIsOwnHolds == ModesSpec => []VerdictIsOwn
<1>1. ModesInv => VerdictIsOwn
  BY DEF ModesInv
<1> QED
  BY <1>1, ModesInvariant, PTL

\* The stream answers from the last execution of the plan it announced last
\* (execute_streaming).
THEOREM AnswerIsOfLastPlanHolds == ModesSpec => []AnswerIsOfLastPlan
<1>1. ModesInv => AnswerIsOfLastPlan
  BY DEF ModesInv
<1> QED
  BY <1>1, ModesInvariant, PTL

\* A stream executes at most max_iterations plans, and recursive calls are
\* never deeper than asked (execute_streaming, _recursive_execute): what
\* WorkIsBounded says but for the size of the tree.
THEOREM CallsAreBounded ==
  ModesSpec => [](/\ mode = "streaming" => rounds <= MaxIterations
                  /\ mode = "recursive" => Len(stack) <= Depth)
<1>1. ModesInv => /\ mode = "streaming" => rounds <= MaxIterations
                  /\ mode = "recursive" => Len(stack) <= Depth
  <2> SUFFICES ASSUME ModesInv
               PROVE  /\ mode = "streaming" => rounds <= MaxIterations
                      /\ mode = "recursive" => Len(stack) <= Depth
    OBVIOUS
  <2>1. mode = "streaming" => rounds <= MaxIterations
    BY ModesAssumption DEF ModesInv, ModesTypes, StreamInv
  <2>2. ASSUME mode = "recursive" PROVE Len(stack) <= Depth
    <3>1. CASE stack = <<>>
      BY <3>1, ModesAssumption
    <3>2. CASE stack # <<>>
      <4>1. stack \in Seq(RoundType) /\ Len(stack) \in DOMAIN stack /\ Len(stack) \in Nat
        BY <3>2 DEF ModesInv, ModesTypes
      <4>2. stack[Len(stack)].left = Depth - Len(stack) + 1 /\ stack[Len(stack)].left >= 1
        BY <2>2, <4>1 DEF ModesInv, DepthInv
      <4> QED
        BY <4>1, <4>2, ModesAssumption
    <3> QED
      BY <3>1, <3>2
  <2> QED
    BY <2>1, <2>2
<1> QED
  BY <1>1, ModesInvariant, PTL

-----------------------------------------------------------------------------
(***************************************************************************)
(* The rounds of a recursive call                                          *)
(*                                                                         *)
(* The rounds that were begun and those that may still begin are no more   *)
(* than the nodes of a binary tree.  What may still begin is a ledger over *)
(* the stack: a call that waits for the first of two sub-queries has yet   *)
(* to make a tree of the second.                                           *)
(***************************************************************************)
Nodes(depth) == 2 ^ depth - 1

Waiting(i) == IF stack[i].subs = 2 THEN Nodes(Depth - i) ELSE 0

Ledger(sum) ==
  /\ sum \in [0..Len(stack) -> Nat] /\ sum[0] = 0
  /\ \A i \in 1..Len(stack) : sum[i] = sum[i - 1] + Waiting(i)

\* What the call on top may still begin, or the one that the planner works for.
MayBegin ==
  CASE at = "planning" -> Nodes(Depth - Len(stack))
    [] at \in {"executing", "deciding"} -> 2 * Nodes(Depth - Len(stack))
    [] OTHER -> 0

AtWork == {"planning", "executing", "deciding", "returning"}

WorkInv ==
  mode = "recursive" =>
    /\ rounds <= Nodes(Depth)
    /\ at \in AtWork =>
         /\ \A i \in 1..Len(stack) - 1 : stack[i].subs \in {1, 2}
         /\ stack # <<>> => Top.subs \in (IF at = "planning" THEN {1, 2} ELSE {0})
         /\ \E sum : Ledger(sum) /\ rounds + sum[Len(stack)] + MayBegin <= Nodes(Depth)

LEMMA NodesOfTree ==
  ASSUME NEW d \in Nat
  PROVE  Nodes(d) \in Nat /\ (d > 0 => d - 1 \in Nat /\ Nodes(d) = 2 * Nodes(d - 1) + 1)
<1> DEFINE Two(k) == 2 ^ k
<1>1. \A k \in Nat : Two(k) \in Nat \ {0} /\ Two(k + 1) = Two(k) + Two(k)
  BY TwoPowers
<1>2. \A k : Nodes(k) = Two(k) - 1
  BY DEF Nodes
<1> HIDE DEF Two
<1>3. Nodes(d) \in Nat
  BY <1>1, <1>2
<1>4. ASSUME d > 0
      PROVE  d - 1 \in Nat /\ Nodes(d) = 2 * Nodes(d - 1) + 1
  <2>1. d - 1 \in Nat /\ (d - 1) + 1 = d
    BY <1>4
  <2>2. Two(d) = Two(d - 1) + Two(d - 1) /\ Two(d - 1) \in Nat
    BY <1>1, <2>1
  <2> QED
    BY <1>2, <2>1, <2>2
<1> QED
  BY <1>3, <1>4

\* How deep the call on top is, and what the ledger is made of.
LEMMA DepthOfStack ==
  ASSUME ModesInv, mode = "recursive"
  PROVE  /\ stack \in Seq(RoundType) /\ Len(stack) \in Nat /\ rounds \in Nat
         /\ Depth - Len(stack) \in Nat
         /\ stack # <<>> => Top = stack[Len(stack)] /\ Len(stack) \in DOMAIN stack
                            /\ Top.left = Depth - Len(stack) + 1
                            /\ (Top.subs > 0 => Depth - Len(stack) > 0)
         /\ \A i \in 1..Len(stack) : Depth - i \in Nat /\ Nodes(Depth - i) \in Nat
<1>1. stack \in Seq(RoundType) /\ Len(stack) \in Nat /\ rounds \in Nat /\ Depth \in Nat
  BY ModesAssumption DEF ModesInv, ModesTypes
<1>2. \A i \in DOMAIN stack : stack[i].left = Depth - i + 1 /\ stack[i].left >= 1
                              /\ (stack[i].subs > 0 => stack[i].left > 1)
  BY DEF ModesInv, DepthInv
<1>3. \A i \in 1..Len(stack) : Depth - i \in Nat
  <2> SUFFICES ASSUME NEW i \in 1..Len(stack)
               PROVE  Depth - i \in Nat
    OBVIOUS
  <2>1. i \in DOMAIN stack /\ i \in Nat
    BY <1>1
  <2>2. Depth - i + 1 >= 1
    BY <1>2, <2>1
  <2> QED
    BY <1>1, <2>1, <2>2
<1>4. ASSUME stack # <<>>
      PROVE  Top = stack[Len(stack)] /\ Len(stack) \in DOMAIN stack /\ Len(stack) \in 1..Len(stack)
  BY <1>1, <1>4, TopIsARound
<1>5. Depth - Len(stack) \in Nat
  <2>1. CASE stack = <<>>
    BY <1>1, <2>1
  <2>2. CASE stack # <<>>
    BY <1>3, <1>4, <2>2
  <2> QED
    BY <2>1, <2>2
<1>6. ASSUME stack # <<>>
      PROVE  Top.left = Depth - Len(stack) + 1 /\ (Top.subs > 0 => Depth - Len(stack) > 0)
  BY <1>1, <1>2, <1>4, <1>6
<1> QED
  BY <1>1, <1>3, <1>4, <1>5, <1>6, NodesOfTree

\* A round is begun: the first, or one for a sub-query.
LEMMA MakePlanWork == ModesInv /\ ModesInv' /\ WorkInv /\ MakePlan => WorkInv'
<1> SUFFICES ASSUME ModesInv, ModesInv', WorkInv, MakePlan, mode = "recursive"
             PROVE  WorkInv'
  BY DEF WorkInv, MakePlan
<1>0. PICK m : m = Len(stack)
  OBVIOUS
<1>1. /\ stack \in Seq(RoundType) /\ m \in Nat /\ rounds \in Nat /\ Depth - m \in Nat
      /\ stack # <<>> => Top = stack[m] /\ Top.left = Depth - m + 1
                         /\ (Top.subs > 0 => Depth - m > 0)
  BY <1>0, DepthOfStack
<1>2. at = "planning" /\ at \in AtWork /\ mode' = mode
  BY DEF MakePlan, AtWork
<1>3. PICK p \in Plans :
        /\ at' = "executing" /\ rounds' = rounds + 1
        /\ stack' = IF stack = <<>> THEN <<Round(rounds', plans', p, Depth)>>
                    ELSE Append(stack, Round(rounds', plans', p, Top.left - 1))
  BY DEF MakePlan
<1>4. \E left \in Int : stack' = Append(stack, Round(rounds', plans', p, left))
  <2>1. CASE stack = <<>>
    <3>1. stack' = Append(stack, Round(rounds', plans', p, Depth)) /\ Depth \in Int
      BY <1>3, <2>1, ModesAssumption
    <3> QED
      BY <3>1
  <2>2. CASE stack # <<>>
    BY <1>1, <1>3, <2>2, ModesAssumption
  <2> QED
    BY <2>1, <2>2
<1>5. PICK left \in Int : stack' = Append(stack, Round(rounds', plans', p, left))
  BY <1>4
<1> DEFINE new == Round(rounds', plans', p, left)
<1>6. new.subs = 0
  BY DEF Round
<1>7. stack' = Append(stack, new)
  BY <1>5
<1> HIDE DEF new
<1>8. /\ Len(stack') = m + 1 /\ stack'[m + 1] = new /\ stack' # <<>>
      /\ \A i \in 1..m : stack'[i] = stack[i]
      /\ Top' = new
  BY <1>0, <1>1, <1>7 DEF Top, Last
<1>9. PICK sum : Ledger(sum) /\ rounds + sum[m] + MayBegin <= Nodes(Depth)
  BY <1>0, <1>2 DEF WorkInv
<1>10. MayBegin = Nodes(Depth - m) /\ Depth - m > 0
  <2>1. Depth - m > 0
    <3>1. CASE stack = <<>>
      <4>1. m = 0
        BY <1>0, <3>1
      <4> QED
        BY <4>1, ModesAssumption
    <3>2. CASE stack # <<>>
      BY <1>1, <1>2, <3>2 DEF WorkInv
    <3> QED
      BY <3>1, <3>2
  <2> QED
    BY <1>0, <1>2, <2>1 DEF MayBegin
<1> DEFINE k == Nodes(Depth - (m + 1))
<1>11. Nodes(Depth - m) = 2 * k + 1 /\ k \in Nat
  <2>1. (Depth - m) - 1 = Depth - (m + 1) /\ (Depth - m) - 1 \in Nat
    BY <1>1, <1>10, ModesAssumption
  <2> QED
    BY <1>1, <1>10, <2>1, NodesOfTree
<1>12. MayBegin' = 2 * k
  BY <1>3, <1>8 DEF MayBegin
<1> HIDE DEF k
<1>13. /\ sum \in [0..m -> Nat] /\ sum[0] = 0
       /\ \A i \in 1..m : sum[i] = sum[i - 1] + Waiting(i)
  BY <1>0, <1>9 DEF Ledger
<1> DEFINE next == [i \in 0..(m + 1) |-> IF i = m + 1 THEN sum[m] ELSE sum[i]]
<1> PICK more : more = next
  OBVIOUS
<1>14. /\ more \in [0..(m + 1) -> Nat] /\ more[0] = 0 /\ more[m + 1] = sum[m]
       /\ \A i \in 0..m : more[i] = sum[i]
  BY <1>1, <1>13
<1> HIDE DEF next
<1>15. /\ \A i \in 1..m : Waiting(i)' = Waiting(i)
       /\ Waiting(m + 1)' = 0
  <2>1. \A i \in 1..m : Waiting(i)' = Waiting(i)
    BY <1>8 DEF Waiting
  <2>2. stack'[m + 1].subs = 0
    BY <1>6, <1>8
  <2> QED
    BY <2>1, <2>2 DEF Waiting
<1>16. ASSUME NEW i \in 1..(m + 1)
       PROVE  more[i] = more[i - 1] + Waiting(i)'
  <2>1. CASE i = m + 1
    BY <1>1, <1>13, <1>14, <1>15, <2>1
  <2>2. CASE i # m + 1
    <3>1. i \in 1..m /\ i - 1 \in 0..m /\ i \in 0..m
      BY <1>1, <2>2
    <3> QED
      BY <1>13, <1>14, <1>15, <3>1
  <2> QED
    BY <2>1, <2>2
<1>17. Ledger(more)'
  BY <1>8, <1>14, <1>16 DEF Ledger
<1>18. sum[m] \in Nat
  BY <1>1, <1>13
<1>19. Nodes(Depth) \in Nat
  BY NodesOfTree, ModesAssumption
<1>20. rounds' + more[Len(stack')] + MayBegin' <= Nodes(Depth) /\ rounds' <= Nodes(Depth)
  <2>1. rounds' = rounds + 1 /\ more[Len(stack')] = sum[m] /\ rounds \in Nat
    BY <1>1, <1>3, <1>8, <1>14
  <2>2. rounds + sum[m] + (2 * k + 1) <= Nodes(Depth)
    BY <1>9, <1>10, <1>11
  <2>3. \A r, s, l, all \in Nat :
          r + s + (2 * l + 1) <= all => (r + 1) + s + 2 * l <= all /\ r + 1 <= all
    OBVIOUS
  <2> QED
    BY <1>11, <1>12, <1>18, <1>19, <2>1, <2>2, <2>3
<1>21. \A i \in 1..Len(stack') - 1 : stack'[i].subs \in {1, 2}
  <2> SUFFICES ASSUME NEW i \in 1..m
               PROVE  stack[i].subs \in {1, 2}
    BY <1>1, <1>8
  <2>1. CASE i = m
    <3>1. stack # <<>>
      BY <1>0, <1>1, <2>1
    <3> QED
      BY <1>1, <1>2, <2>1, <3>1 DEF WorkInv
  <2>2. CASE i # m
    <3>1. i \in 1..Len(stack) - 1
      BY <1>0, <1>1, <2>2
    <3> QED
      BY <1>2, <3>1 DEF WorkInv
  <2> QED
    BY <2>1, <2>2
<1>22. Top'.subs \in (IF at' = "planning" THEN {1, 2} ELSE {0})
  BY <1>3, <1>6, <1>8
<1> QED
  BY <1>2, <1>3, <1>8, <1>17, <1>20, <1>21, <1>22 DEF WorkInv

\* The top of the stack is replaced, or was on top when the last one returns:
\* the ledger below it stays.
LEMMA LedgerWithNewTop ==
  ASSUME NEW sum, Ledger(sum), NEW m \in 1..Len(stack), Len(stack) \in Nat,
         stack' # <<>>, Len(stack') = m, \A i \in 1..(m - 1) : stack'[i] = stack[i],
         NEW w \in Nat, w = Waiting(m)'
  PROVE  \E new : Ledger(new)' /\ new[m] = sum[m - 1] + w
<1> DEFINE new == [i \in 0..m |-> IF i = m THEN sum[m - 1] + w ELSE sum[i]]
<1>1. /\ sum \in [0..Len(stack) -> Nat] /\ sum[0] = 0
      /\ \A i \in 1..Len(stack) : sum[i] = sum[i - 1] + Waiting(i)
  BY DEF Ledger
<1>2. /\ new \in [0..m -> Nat] /\ new[0] = 0 /\ new[m] = sum[m - 1] + w
      /\ \A i \in 0..(m - 1) : new[i] = sum[i]
  <2>1. sum[m - 1] \in Nat /\ \A i \in 0..m : i # m => i \in 0..Len(stack)
    BY <1>1
  <2>2. new \in [0..m -> Nat]
    <3>1. ASSUME NEW i \in 0..m
          PROVE  (IF i = m THEN sum[m - 1] + w ELSE sum[i]) \in Nat
      <4>1. CASE i = m
        BY <2>1, <4>1
      <4>2. CASE i # m
        <5>1. sum[i] \in Nat
          BY <1>1, <2>1, <4>2
        <5> QED
          BY <4>2, <5>1
      <4> QED
        BY <4>1, <4>2
    <3> QED
      BY <3>1
  <2>3. new[m] = sum[m - 1] + w /\ new[0] = sum[0]
    OBVIOUS
  <2>4. \A i \in 0..(m - 1) : new[i] = sum[i]
    OBVIOUS
  <2> QED
    BY <1>1, <2>2, <2>3, <2>4
<1> HIDE DEF new
<1>3. ASSUME NEW i \in 1..m
      PROVE  new[i] = new[i - 1] + Waiting(i)'
  <2>1. CASE i = m
    BY <1>2, <2>1
  <2>2. CASE i # m
    <3>1. i \in 1..(m - 1) /\ i \in 1..Len(stack) /\ i - 1 \in 0..(m - 1) /\ i \in 0..(m - 1)
      BY <2>2
    <3>2. Waiting(i)' = Waiting(i)
      BY <3>1 DEF Waiting
    <3> QED
      BY <1>1, <1>2, <3>1, <3>2
  <2> QED
    BY <2>1, <2>2
<1> QED
  BY <1>2, <1>3 DEF Ledger

\* A step ends: nothing begins, and nothing is given up.
LEMMA ExecuteStepWork == ModesInv /\ ModesInv' /\ WorkInv /\ ExecuteStep => WorkInv'
<1> SUFFICES ASSUME ModesInv, ModesInv', WorkInv, ExecuteStep, mode = "recursive"
             PROVE  WorkInv'
  BY DEF WorkInv, ExecuteStep
<1>1. /\ stack \in Seq(RoundType) /\ Len(stack) \in Nat /\ stack # <<>>
      /\ Top = stack[Len(stack)] /\ Len(stack) \in DOMAIN stack
  BY DepthOfStack DEF ExecuteStep, ModesInv, ModesTypes
<1>2. PICK state : stack' = [stack EXCEPT ![Len(stack)].states = Append(@, state)]
  BY DEF ExecuteStep
<1>3. /\ at = "executing" /\ at' \in {"executing", "deciding"} /\ mode' = mode /\ rounds' = rounds
  BY DEF ExecuteStep
<1> DEFINE new == [Top EXCEPT !.states = Append(@, state)]
<1>4. new.subs = Top.subs
  <2>1. Top \in RoundType
    BY <1>1
  <2> QED
    BY <2>1 DEF RoundType
<1>5. stack' = [stack EXCEPT ![Len(stack)] = new]
  BY <1>1, <1>2
<1> HIDE DEF new
<1>6. /\ Len(stack') = Len(stack) /\ Top'.subs = Top.subs /\ stack' # <<>>
      /\ \A i \in 1..Len(stack) : stack'[i].subs = stack[i].subs
  BY <1>1, <1>4, <1>5 DEF Top, Last
<1>7. \A i \in 1..Len(stack) : Waiting(i)' = Waiting(i)
  BY <1>6 DEF Waiting
<1>8. MayBegin' = MayBegin
  BY <1>3, <1>6 DEF MayBegin
<1>9. PICK sum : Ledger(sum) /\ rounds + sum[Len(stack)] + MayBegin <= Nodes(Depth)
  BY <1>3 DEF WorkInv, AtWork
<1>10. Ledger(sum)'
  BY <1>6, <1>7, <1>9 DEF Ledger
<1>11. rounds' + sum[Len(stack')] + MayBegin' <= Nodes(Depth)
  BY <1>3, <1>6, <1>8, <1>9
<1> QED
  BY <1>3, <1>6, <1>10, <1>11 DEF WorkInv, AtWork

\* At most two of the sub-queries are taken.
LEMMA DescendWork == ModesInv /\ ModesInv' /\ WorkInv /\ Descend => WorkInv'
<1> SUFFICES ASSUME ModesInv, ModesInv', WorkInv, Descend
             PROVE  WorkInv'
  OBVIOUS
<1>0. PICK m : m = Len(stack)
  OBVIOUS
<1> DEFINE k == Nodes(Depth - m)
<1>1. /\ at = "deciding" /\ mode = "recursive" /\ mode' = mode /\ at' = "planning"
      /\ rounds' = rounds
  BY DEF Descend
<1>2. /\ stack \in Seq(RoundType) /\ m \in Nat /\ stack # <<>> /\ rounds \in Nat
      /\ Top = stack[m] /\ m \in DOMAIN stack /\ m \in 1..m /\ k \in Nat
  BY <1>0, <1>1, DepthOfStack DEF ModesInv, ModesTypes
<1>3. PICK n \in 1..MaxSubQueries : stack' = [stack EXCEPT ![m].subs = FirstTwo(n)]
  BY <1>0 DEF Descend
<1>4. FirstTwo(n) \in {1, 2}
  BY ModesAssumption DEF FirstTwo
<1> DEFINE new == [Top EXCEPT !.subs = FirstTwo(n)]
<1>5. new.subs = FirstTwo(n)
  <2>1. Top \in RoundType
    BY <1>2
  <2> QED
    BY <2>1 DEF RoundType
<1>6. stack' = [stack EXCEPT ![m] = new]
  BY <1>2, <1>3
<1> HIDE DEF new
<1>7. /\ Len(stack') = m /\ Top'.subs = FirstTwo(n) /\ stack' # <<>>
      /\ stack'[m].subs = FirstTwo(n)
      /\ \A i \in 1..(m - 1) : stack'[i] = stack[i]
  BY <1>0, <1>2, <1>5, <1>6 DEF Top, Last
<1>8. Waiting(m)' = IF FirstTwo(n) = 2 THEN k ELSE 0
  BY <1>7 DEF Waiting
<1>9. MayBegin = 2 * k /\ MayBegin' = k
  BY <1>0, <1>1, <1>7 DEF MayBegin
<1> HIDE DEF k
<1>10. PICK sum : Ledger(sum) /\ rounds + sum[m] + MayBegin <= Nodes(Depth)
  BY <1>0, <1>1 DEF WorkInv, AtWork
<1>11. sum[m] = sum[m - 1] + Waiting(m) /\ sum[m - 1] \in Nat /\ Waiting(m) = 0
  <2>1. Top.subs = 0
    BY <1>1, <1>2 DEF WorkInv, AtWork
  <2>2. Waiting(m) = 0
    BY <1>0, <1>2, <2>1 DEF Waiting
  <2> QED
    BY <1>0, <1>2, <1>10, <2>2 DEF Ledger
<1>12. Waiting(m)' \in Nat /\ Waiting(m)' <= k
  BY <1>2, <1>8
<1>13. PICK more : Ledger(more)' /\ more[m] = sum[m - 1] + Waiting(m)'
  <2>1. PICK w \in Nat : w = Waiting(m)'
    BY <1>12
  <2>2. \E more : Ledger(more)' /\ more[m] = sum[m - 1] + w
    BY <1>0, <1>2, <1>7, <1>10, <2>1, LedgerWithNewTop
  <2> QED
    BY <2>1, <2>2
<1>14. Nodes(Depth) \in Nat
  BY NodesOfTree, ModesAssumption
<1>15. rounds' + more[Len(stack')] + MayBegin' <= Nodes(Depth)
  <2>1. rounds' = rounds /\ more[Len(stack')] = sum[m - 1] + Waiting(m)' /\ rounds \in Nat
    BY <1>1, <1>2, <1>7, <1>13
  <2>2. rounds + sum[m - 1] + 2 * k <= Nodes(Depth)
    BY <1>9, <1>10, <1>11
  <2>3. \A r, s, w, l, all \in Nat :
          w <= l /\ r + s + 2 * l <= all => r + (s + w) + l <= all
    OBVIOUS
  <2>4. PICK w : w = Waiting(m)'
    OBVIOUS
  <2>5. w \in Nat /\ w <= k
    BY <1>12, <2>4
  <2>6. rounds + (sum[m - 1] + w) + k <= Nodes(Depth)
    BY <1>2, <1>11, <1>14, <2>1, <2>2, <2>3, <2>5
  <2> QED
    BY <1>9, <2>1, <2>4, <2>6
<1>16. \A i \in 1..Len(stack') - 1 : stack'[i].subs \in {1, 2}
  BY <1>0, <1>1, <1>2, <1>7 DEF WorkInv, AtWork
<1>17. rounds' <= Nodes(Depth)
  BY <1>1 DEF WorkInv
<1> QED
  BY <1>1, <1>4, <1>7, <1>13, <1>15, <1>16, <1>17 DEF WorkInv

\* A call that returns gives up what it may still begin, and its caller what
\* it waited for.
LEMMA ReturnWork == ModesInv /\ ModesInv' /\ WorkInv /\ Return => WorkInv'
<1> SUFFICES ASSUME ModesInv, ModesInv', WorkInv, Return
             PROVE  WorkInv'
  OBVIOUS
<1> DEFINE callers == Front(stack)
<1>0. PICK m : m = Len(callers)
  OBVIOUS
<1>1. /\ at \in {"deciding", "returning"} /\ mode = "recursive" /\ mode' = mode
      /\ rounds' = rounds
      /\ stack' = IF callers = <<>> THEN <<>>
                  ELSE [callers EXCEPT ![m].subs = @ - 1]
      /\ at' = IF stack' = <<>> THEN "ended"
               ELSE IF Last(stack').subs > 0 THEN "planning" ELSE "returning"
  BY <1>0 DEF Return
<1>2. /\ stack \in Seq(RoundType) /\ Len(stack) \in Nat /\ stack # <<>> /\ rounds \in Nat
  BY <1>1, DepthOfStack DEF ModesInv, ModesTypes
<1>3. /\ callers \in Seq(RoundType) /\ m = Len(stack) - 1
      /\ \A i \in 1..Len(stack) - 1 : callers[i] = stack[i]
  BY <1>0, <1>2, Callers
<1>4. rounds' <= Nodes(Depth)
  BY <1>1 DEF WorkInv
<1> HIDE DEF callers
<1>5. CASE callers = <<>>
  BY <1>1, <1>4, <1>5 DEF WorkInv, AtWork
<1>6. CASE callers # <<>>
  <2> DEFINE last == callers[m]
             new == [last EXCEPT !.subs = last.subs - 1]
             k == Nodes(Depth - m)
  <2>1. m \in Nat /\ m \in DOMAIN callers /\ m \in 1..Len(stack) /\ m \in 1..Len(stack) - 1
    <3>1. m \in Nat /\ m # 0 /\ m = Len(stack) - 1 /\ DOMAIN callers = 1..m
      BY <1>0, <1>2, <1>3, <1>6, EmptySeq, LenProperties
    <3> QED
      BY <1>2, <3>1
  <2>2. last = stack[m] /\ last \in RoundType /\ last.subs \in {1, 2}
    <3>1. last = stack[m] /\ last \in RoundType
      BY <1>3, <2>1
    <3>2. at \in AtWork
      BY <1>1 DEF AtWork
    <3>3. stack[m].subs \in {1, 2}
      BY <1>1, <2>1, <3>2 DEF WorkInv
    <3> HIDE DEF last
    <3> QED
      BY <3>1, <3>3
  <2>3. new.subs = last.subs - 1
    <3> HIDE DEF last
    <3> QED
      BY <2>2 DEF RoundType
  <2>4. stack' = [callers EXCEPT ![m] = new]
    BY <1>0, <1>1, <1>6, <2>1
  <2> HIDE DEF new
  <2>5. /\ stack' # <<>> /\ Len(stack') = m /\ Last(stack') = new /\ stack'[m] = new
        /\ \A i \in 1..(m - 1) : stack'[i] = stack[i]
    <3>1. DOMAIN callers = 1..m /\ Len(callers) = m
      <4>1. DOMAIN callers = 1..Len(callers)
        BY <1>3, LenProperties
      <4> QED
        BY <1>0, <4>1
    <3>2. /\ DOMAIN stack' = 1..m /\ stack'[m] = new
          /\ \A i \in 1..(m - 1) : stack'[i] = callers[i]
      BY <2>1, <2>4, <3>1
    <3>3. stack' \in Seq(RoundType)
      BY <1>1, DepthOfStack DEF ModesInv, ModesTypes
    <3>4. Len(stack') = m
      BY <2>1, <3>2, <3>3
    <3>5. \A i \in 1..(m - 1) : stack'[i] = stack[i]
      BY <1>3, <2>1, <3>2
    <3> QED
      BY <2>1, <3>2, <3>3, <3>4, <3>5 DEF Last
  <2>6. k \in Nat /\ Nodes(Depth) \in Nat
    BY <1>1, <2>1, DepthOfStack, NodesOfTree, ModesAssumption
  <2>7. Waiting(m) = (IF last.subs = 2 THEN k ELSE 0) /\ Waiting(m)' = 0
    <3>1. stack'[m].subs = last.subs - 1 /\ last = stack[m] /\ last.subs \in {1, 2}
      BY <2>2, <2>3, <2>5
    <3> HIDE DEF last
    <3>2. stack'[m].subs # 2
      BY <3>1
    <3> QED
      BY <3>1, <3>2 DEF Waiting
  <2>8. MayBegin' = IF last.subs = 2 THEN k ELSE 0
    <3>1. CASE last.subs = 2
      <4>1. at' = "planning"
        BY <1>1, <2>3, <2>5, <3>1
      <4> QED
        BY <2>5, <3>1, <4>1 DEF MayBegin
    <3>2. CASE last.subs = 1
      <4>1. at' = "returning"
        BY <1>1, <2>3, <2>5, <3>2
      <4> QED
        BY <3>2, <4>1 DEF MayBegin
    <3> QED
      BY <2>2, <3>1, <3>2
  <2>9. PICK sum : Ledger(sum) /\ rounds + sum[Len(stack)] + MayBegin <= Nodes(Depth)
    BY <1>1 DEF WorkInv, AtWork
  <2>10. MayBegin \in Nat
    BY <1>1, DepthOfStack, NodesOfTree DEF MayBegin
  <2> HIDE DEF k, last
  <2>11. /\ sum[m] = sum[m - 1] + Waiting(m) /\ sum[m - 1] \in Nat /\ sum[m] \in Nat
         /\ sum[Len(stack)] = sum[m] + Waiting(Len(stack)) /\ Waiting(Len(stack)) \in Nat
    <3>1. /\ m - 1 \in 0..Len(stack) /\ m \in 0..Len(stack) /\ m \in 1..Len(stack)
          /\ Len(stack) \in 1..Len(stack) /\ Len(stack) - 1 = m
      BY <1>2, <1>3, <2>1
    <3>2. Waiting(Len(stack)) \in Nat
      BY <1>1, <3>1, DepthOfStack DEF Waiting
    <3> QED
      BY <2>9, <3>1, <3>2 DEF Ledger
  <2>12. PICK more : Ledger(more)' /\ more[m] = sum[m - 1] + Waiting(m)'
    <3>1. PICK w \in Nat : w = Waiting(m)'
      BY <2>7
    <3>2. \E more : Ledger(more)' /\ more[m] = sum[m - 1] + w
      BY <1>2, <2>1, <2>5, <2>9, <3>1, LedgerWithNewTop
    <3> QED
      BY <3>1, <3>2
  <2>13. rounds' + more[Len(stack')] + MayBegin' <= Nodes(Depth)
    <3>1. more[Len(stack')] = sum[m - 1]
      BY <2>5, <2>7, <2>11, <2>12
    <3>2. sum[Len(stack)] >= sum[m - 1] + MayBegin'
      BY <2>6, <2>7, <2>8, <2>11
    <3>3. MayBegin' \in Nat /\ sum[Len(stack)] \in Nat
      BY <2>6, <2>8, <2>11
    <3>4. rounds' = rounds /\ rounds \in Nat /\ Nodes(Depth) \in Nat /\ sum[m - 1] \in Nat
      BY <1>1, <1>2, <2>6, <2>11
    <3>5. rounds + sum[Len(stack)] + MayBegin <= Nodes(Depth)
      BY <2>9
    <3>6. \A r, t, s, b, c, all \in Nat : r + t + b <= all /\ t >= s + c => r + s + c <= all
      OBVIOUS
    <3> QED
      BY <2>10, <3>1, <3>2, <3>3, <3>4, <3>5, <3>6
  <2>14. \A i \in 1..Len(stack') - 1 : stack'[i].subs \in {1, 2}
    <3>1. \A i \in 1..(m - 1) : i \in 1..Len(stack) - 1
      BY <1>3, <2>1
    <3> QED
      BY <1>1, <2>5, <3>1 DEF WorkInv, AtWork
  <2>15. Top'.subs \in (IF at' = "planning" THEN {1, 2} ELSE {0})
    BY <1>1, <2>2, <2>3, <2>5 DEF Top
  <2> QED
    BY <1>1, <1>4, <2>5, <2>12, <2>13, <2>14, <2>15 DEF WorkInv
<1> QED
  BY <1>5, <1>6

\* The inductive invariant holds of every state of every behaviour.
THEOREM WorkInvariant == ModesSpec => []WorkInv
<1>1. ModesInit => WorkInv
  BY DEF ModesInit, WorkInv
<1>2. ModesInv /\ ModesInv' /\ WorkInv /\ [ModesNext]_modesVars => WorkInv'
  <2> SUFFICES ASSUME ModesInv, ModesInv', WorkInv, [ModesNext]_modesVars
               PROVE  WorkInv'
    OBVIOUS
  <2>1. CASE Call
    <3>1. stack = <<>> /\ stack' = <<>> /\ rounds' = 0
      BY <2>1 DEF Call, ModesInv, ModesTypes
    <3> SUFFICES ASSUME mode' = "recursive"
                 PROVE  WorkInv'
      BY DEF WorkInv
    <3>2. at' = "planning"
      BY <2>1 DEF Call
    <3>3. MayBegin' = Nodes(Depth - 0) /\ Nodes(Depth) \in Nat /\ Depth - 0 = Depth
      BY <3>1, <3>2, NodesOfTree, ModesAssumption DEF MayBegin
    <3> DEFINE sum == [i \in 0..0 |-> 0]
    <3>4. Ledger(sum)'
      BY <3>1 DEF Ledger
    <3>5. rounds' + sum[Len(stack')] + MayBegin' <= Nodes(Depth)
      BY <3>1, <3>3
    <3> HIDE DEF sum
    <3> QED
      BY <3>1, <3>2, <3>3, <3>4, <3>5 DEF WorkInv, AtWork
  <2>2. CASE MakePlan \/ ExecuteStep \/ Descend \/ Return
    BY <2>2, MakePlanWork, ExecuteStepWork, DescendWork, ReturnWork
  <2>3. CASE PlannerRaises
    BY <2>3 DEF PlannerRaises, WorkInv, AtWork
  <2>4. CASE Revise \/ Repeat \/ Converge
    BY <2>4 DEF Revise, Repeat, Converge, Gather, WorkInv
  <2>5. CASE Answer \/ Merge \/ ExecuteMerged
    BY <2>5 DEF Answer, Merge, ExecuteMerged, WorkInv, AtWork, ModesInv, ModesTypes
  <2>6. ASSUME NEW b \in 1..Branches, PlanBranch(b) \/ BranchStep(b)
        PROVE  WorkInv'
    BY <2>6 DEF PlanBranch, BranchStep, WorkInv, ModesInv, ModesTypes
  <2>7. CASE UNCHANGED modesVars
    <3>1. mode' = mode /\ at' = at /\ rounds' = rounds /\ stack' = stack
      BY <2>7 DEF modesVars
    <3> QED
      BY <3>1 DEF WorkInv, Ledger, Waiting, MayBegin, Top
  <2> QED
    BY <2>1, <2>2, <2>3, <2>4, <2>5, <2>6, <2>7 DEF ModesNext, Continue
<1> QED
  BY <1>1, <1>2, ModesInvariant, PTL DEF ModesSpec

\* A stream executes at most max_iterations plans, and the recursive calls are
\* no more than a binary tree has nodes and never deeper than asked, whatever
\* sub-queries the LLM finds (execute_streaming, _recursive_execute).
THEOREM WorkIsBoundedHolds == ModesSpec => []WorkIsBounded
<1>1. WorkInv /\ (mode = "streaming" => rounds <= MaxIterations)
              /\ (mode = "recursive" => Len(stack) <= Depth)
      => WorkIsBounded
  BY DEF WorkInv, WorkIsBounded, Nodes
<1> QED
  BY <1>1, WorkInvariant, CallsAreBounded, PTL
=============================================================================
