---------------------------- MODULE MCLLMRouter ----------------------------
(***************************************************************************)
(* LLMRouter with the delays of the code: asyncio.sleep(2**attempt).       *)
(***************************************************************************)
EXTENDS LLMRouter

ExponentialBackoff == [attempt \in 0..MaxRetries - 1 |-> 2 ^ attempt]

=============================================================================
