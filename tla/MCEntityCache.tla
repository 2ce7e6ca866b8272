---------------------------- MODULE MCEntityCache ----------------------------
(***************************************************************************)
(* Two replicas, three entity names, room for two entries.  Both queries   *)
(* run on r1, so that their fills meet; r2 takes calls of invalidate only, *)
(* which r1 learns from its subscriber.                                    *)
(***************************************************************************)
EXTENDS EntityCache, TLC

CONSTANTS a, b, c, q1, q2, r1, r2

MCNames == {a, b, c}
MCReplicas == {r1, r2}
MCQueries == {q1, q2}
MCHome == [q \in MCQueries |-> r1]
MCChanging == {a}
MCPrefixes == {{b, c}}
MCFailing == {r1}

\* Nothing above tells b from c, or one query from the other.
Symmetry == Permutations({b, c}) \cup Permutations(MCQueries)
=============================================================================
