------------------------------- MODULE MCMCP -------------------------------
(***************************************************************************)
(* Instances of MCP.                                                       *)
(***************************************************************************)
EXTENDS MCP, TLC

Symmetry == Permutations(SessionIds) \cup Permutations(SubscriptionIds)
              \cup Permutations(Clients)

=============================================================================
