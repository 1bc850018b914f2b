--------------------------- MODULE MCProducerLoop ---------------------------
(***************************************************************************)
(* Finite instances of ProducerLoop.  Blocks are named by their height: the *)
(* main chain is g1, a2, a3; b2 competes with a2, b3 follows b2, and x2 is  *)
(* a competitor of a2 that does not verify.                                *)
(***************************************************************************)
EXTENDS ProducerLoop, TLC

MCHeightOf == [b \in Block \cup {Genesis} |->
  IF b = Genesis THEN 1 ELSE IF b \in {"a2", "b2", "x2"} THEN 2 ELSE 3]

MCPrevOf == [b \in Block |-> CASE b = "a3" -> "a2"
                               [] b = "b3" -> "b2"
                               [] OTHER    -> Genesis]

PeerSymmetry == Permutations(Peer)
=============================================================================
