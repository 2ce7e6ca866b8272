-------------------------------- MODULE Places --------------------------------
(***************************************************************************)
(* The places of a sequence in their order, and what is at them.           *)
(*                                                                         *)
(* SortSeq and SelectSeq are known to the model checker alone; these are   *)
(* defined by counting, so that facts about them can be proved.            *)
(***************************************************************************)
EXTENDS Integers, FiniteSets

\* How many of these are before i.
Earlier(S, i) == Cardinality({j \in S : j < i})

\* The numbers of a finite set, in order.
InOrder(S) == [k \in 1 .. Cardinality(S) |-> CHOOSE i \in S : Earlier(S, i) = k - 1]

\* What a sequence has at these places, in order.
Taken(s, S) == [k \in 1 .. Cardinality(S) |-> s[InOrder(S)[k]]]
=============================================================================
