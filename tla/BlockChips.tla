------------------------------ MODULE BlockChips ------------------------------
(* A block cut into chips and put together again from those in a collection   *)
(* (BlockChip.cs, Restore of BlockChipCollection.cs).                         *)
(*                                                                            *)
(* TotalCount chips, of which RestoreCount hold the bytes of the block and    *)
(* the others codes.                                                          *)
EXTENDS ErasureCoding, BlockChipCollection

CONSTANT BlockData
ASSUME ChipsAssumption == TotalCount < Order

Failed == <<-2>>

(******************************************************************************)
(* Cutting a block and putting it together                                    *)
(******************************************************************************)
\* How many of the chips StartLoop makes sufficient.
restoreCount(totalCount) == totalCount - totalCount \div 3

Padded(needed) ==
  LET more == (needed - (Len(BlockData) % needed)) % needed
  IN  BlockData \o Tuple(more, LAMBDA i : 0)
Column(bytes, stride, c) == Tuple(Len(bytes) \div stride, LAMBDA r : bytes[r * stride + c + 1])
Split(total, needed, vector) ==
  LET codes == total - needed
      ec == IF codes = 0 THEN <<>> ELSE Encode(Padded(needed), needed, codes, vector)
  IN  Tuple(total, LAMBDA i :
        IF i < needed THEN Column(Padded(needed), needed, i)
        ELSE Column(ec, codes, i - needed))

\* The n-th of a set of numbers, from 0.
Nth(S, n) == CHOOSE x \in S : Cardinality({y \in S : y < x}) = n

\* A code, lowest first, takes the place of each byte of the row that is lost;
\* the loop runs past the end of datas when there are too few chips.
Restore(needed, have, split, vector) ==
  LET lost == {i \in 0 .. needed - 1 : i \notin have}
      codes == {i \in have : i >= needed}
      indexes == Tuple(Cardinality(lost), LAMBDA n : <<Nth(lost, n), Nth(codes, n) - needed>>)
      from(i) == IF i \in have THEN i
                 ELSE Nth(codes, Cardinality({j \in lost : j < i}))
      rows == Len(Padded(needed)) \div needed
      buffer == Tuple(rows * needed, LAMBDA at :
                  split[from(at % needed) + 1][at \div needed + 1])
      block == IF lost = {} THEN buffer ELSE Decode(buffer, needed, indexes, vector)
  IN  IF Cardinality(codes) < Cardinality(lost) THEN Failed
      ELSE IF lost # {} /\ DecodeError(Len(buffer), needed, indexes) # 0 THEN Failed
      ELSE IF SubSeq(block, 1, Len(BlockData)) = BlockData THEN BlockData ELSE Failed

\* The node that split the block or this one may have no vector instructions.
Restorations(have) ==
  {Restore(RestoreCount, have, Split(TotalCount, RestoreCount, encoding), decoding) :
     encoding, decoding \in BOOLEAN}

\* A block of eleven bytes, for model checking.
SampleBlock == <<7, 200, 31, 0, 255, 90, 18, 143, 77, 6, 231>>

(******************************************************************************)
(* Properties                                                                 *)
(******************************************************************************)
\* Up to this many chips, with as many of them sufficient as StartLoop asks for,
\* no more than four bytes of a row are lost and no pivot is zero: beyond it
\* EnoughChipsRestore fails.
Restorable == 14

\* With no more than Restorable chips those collected restore the block, whatever
\* chips they are and while others are being stored, unless two threads counted
\* the same chip (BlockChipCollection.cs 53-57, 82-106; BlockChip.cs 92-131).
RestoresBlock ==
  /\ TotalCount <= Restorable /\ RestoreCount = restoreCount(TotalCount)
  /\ restored = Failed
  => count + Cardinality({t \in Threads : thread[t].at = "count"}) > Cardinality(datas)

\* As many chips as a chip says are needed restore the block, whichever they
\* are (BlockChip.cs 23: the number of chips to be collected).
EnoughChipsRestore == restored # Failed
===============================================================================
