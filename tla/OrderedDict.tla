----------------------------- MODULE OrderedDict -----------------------------
(***************************************************************************)
(* collections.OrderedDict, as the caches and the registries of jobs use   *)
(* it.  A dictionary d is the mapping d.val with the order of its keys:    *)
(* <<k, l>> \in d.before when k comes before l.                            *)
(***************************************************************************)
EXTENDS FiniteSets

Keys(d) == DOMAIN d.val

NoKeys == [val |-> [k \in {} |-> {}], before |-> {}]

\* del d[k] for the keys k of S
Without(d, S) ==
  [val    |-> [k \in Keys(d) \ S |-> d.val[k]],
   before |-> {p \in d.before : p[1] \notin S /\ p[2] \notin S}]

\* d.move_to_end(k)
MoveToEnd(d, k) ==
  [val    |-> d.val,
   before |-> {p \in d.before : p[1] # k /\ p[2] # k}
                \cup ((Keys(d) \ {k}) \X {k})]

\* d[k] = v: a key of d keeps its place, a new one comes last
Assign(d, k, v) ==
  [val    |-> [j \in Keys(d) \cup {k} |-> IF j = k THEN v ELSE d.val[j]],
   before |-> IF k \in Keys(d) THEN d.before
              ELSE d.before \cup (Keys(d) \X {k})]

\* the key d.popitem(last=False) removes
Oldest(d) ==
  CHOOSE k \in Keys(d) : \A j \in Keys(d) \ {k} : <<k, j>> \in d.before

PopOldest(d) == Without(d, {Oldest(d)})

\* What every dictionary is: finitely many keys of K, values of V, and an
\* order that is total, transitive and irreflexive.
IsOrdered(d, K, V) ==
  /\ d = [val |-> d.val, before |-> d.before]
  /\ Keys(d) \in SUBSET K /\ IsFiniteSet(Keys(d))
  /\ d.val \in [Keys(d) -> V]
  /\ d.before \in SUBSET (Keys(d) \X Keys(d))
  /\ \A j, k \in Keys(d) : j # k => <<j, k>> \in d.before \/ <<k, j>> \in d.before
  /\ \A j \in Keys(d) : <<j, j>> \notin d.before
  /\ \A i, j, k \in Keys(d) :
       <<i, j>> \in d.before /\ <<j, k>> \in d.before => <<i, k>> \in d.before
=============================================================================
