------------------------------- MODULE Chain -------------------------------
(***************************************************************************)
(* What a node promises about the blocks it has committed: the chain only  *)
(* grows, by one block of the next height at a time, and as long as the    *)
(* node knows the state of its last block every block names the one before *)
(* it as its predecessor.  The node may come to lose that state; once it   *)
(* committed a block that does not follow the last one, it never has a     *)
(* state again.                                                            *)
(***************************************************************************)
EXTENDS Naturals, Sequences

CONSTANTS Block, Genesis, PrevOf, HeightOf

VARIABLES
  chain,   \* the committed blocks, oldest first
  ready    \* the state of the last one is known

Last == chain[Len(chain)]

Init == chain = <<Genesis>> /\ ready = TRUE

Linked == \A i \in 1 .. Len(chain) - 1 : PrevOf[chain[i + 1]] = chain[i]

\* A block that was verified against the last one and executed on its state.
Extend(b) ==
  /\ Linked /\ PrevOf[b] = Last /\ HeightOf[b] = HeightOf[Last] + 1
  /\ chain' = Append(chain, b) /\ ready' = TRUE

\* A block of the right height, of which nothing else is known.
ExtendBlindly(b) ==
  /\ HeightOf[b] = HeightOf[Last] + 1
  /\ chain' = Append(chain, b) /\ ready' = FALSE

\* The last block is committed again, and refused.
Lose == ready' = FALSE /\ UNCHANGED chain

Next == Lose \/ \E b \in Block : Extend(b) \/ ExtendBlindly(b)

Spec == Init /\ [][Next]_<<chain, ready>>
=============================================================================
