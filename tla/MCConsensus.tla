----------------------------- MODULE MCConsensus -----------------------------
(* A chain g1 on which two producers propose the rivals a2 and b2. *)
EXTENDS Consensus, TLC

CONSTANTS p1, p2
MCPrevOf == [b \in Block |-> IF b = "a3" THEN "a2" ELSE Genesis]
MCMakerOf == [b \in Block |-> IF b = "b2" THEN p2 ELSE p1]
ProducerSymmetry == Permutations(Producer \ {p1, p2})
=============================================================================
