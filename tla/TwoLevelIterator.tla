-------------------------- MODULE TwoLevelIterator --------------------------
(***************************************************************************)
(* LevelDB's iterator over blocks found through an index                   *)
(* (table/two_level_iterator.cc), for any iterators of the index and of    *)
(* the blocks: an operator of the index takes the container d, one of the  *)
(* data takes what OpenData makes of d and a value of the index.           *)
(***************************************************************************)
EXTENDS Naturals

CONSTANTS
  IndexSize(_), NewIndex(_), IndexValid(_, _), IndexValue(_, _),
  IndexSeek(_, _, _), IndexFirst(_, _), IndexLast(_, _), IndexNext(_, _), IndexPrev(_, _),
  OpenData(_, _), NewData(_), DataValid(_, _),
  DataSeek(_, _, _), DataFirst(_, _), DataLast(_, _), DataNext(_, _), DataPrev(_, _)

NoData == [none |-> TRUE]
NoHandle == 0

\* data is data_iter_; handle the index value it was made from.
NewIterator(d) == [index |-> NewIndex(d), data |-> NoData, handle |-> NoHandle]
Data(d, s) == OpenData(d, s.handle)
Valid(d, s) == s.data # NoData /\ DataValid(Data(d, s), s.data)

\* InitDataBlock, for an index iterator that has moved.
InitDataBlock(d, s, index) ==
  IF ~IndexValid(d, index) THEN [s EXCEPT !.index = index, !.data = NoData]
  ELSE LET handle == IndexValue(d, index)
       IN  IF s.data # NoData /\ handle = s.handle THEN [s EXCEPT !.index = index]
           ELSE [index |-> index, data |-> NewData(OpenData(d, handle)), handle |-> handle]

First(d, s) == IF s.data = NoData THEN s ELSE [s EXCEPT !.data = DataFirst(Data(d, s), @)]
Final(d, s) == IF s.data = NoData THEN s ELSE [s EXCEPT !.data = DataLast(Data(d, s), @)]

SkipEmptyDataBlocksForward(d, s) ==
  LET skip[n \in 0..IndexSize(d) + 1] ==
        IF n = 0 THEN s
        ELSE LET x == skip[n - 1]
             IN  IF Valid(d, x) THEN x
                 ELSE IF ~IndexValid(d, x.index) THEN [x EXCEPT !.data = NoData]
                 ELSE First(d, InitDataBlock(d, x, IndexNext(d, x.index)))
  IN  skip[IndexSize(d) + 1]

SkipEmptyDataBlocksBackward(d, s) ==
  LET skip[n \in 0..IndexSize(d) + 1] ==
        IF n = 0 THEN s
        ELSE LET x == skip[n - 1]
             IN  IF Valid(d, x) THEN x
                 ELSE IF ~IndexValid(d, x.index) THEN [x EXCEPT !.data = NoData]
                 ELSE Final(d, InitDataBlock(d, x, IndexPrev(d, x.index)))
  IN  skip[IndexSize(d) + 1]

Seek(d, s, target) ==
  LET x == InitDataBlock(d, s, IndexSeek(d, s.index, target))
  IN  SkipEmptyDataBlocksForward(d,
        IF x.data = NoData THEN x
        ELSE [x EXCEPT !.data = DataSeek(Data(d, x), @, target)])

SeekToFirst(d, s) ==
  SkipEmptyDataBlocksForward(d, First(d, InitDataBlock(d, s, IndexFirst(d, s.index))))
SeekToLast(d, s) ==
  SkipEmptyDataBlocksBackward(d, Final(d, InitDataBlock(d, s, IndexLast(d, s.index))))

Next(d, s) ==
  SkipEmptyDataBlocksForward(d, [s EXCEPT !.data = DataNext(Data(d, s), @)])
Prev(d, s) ==
  SkipEmptyDataBlocksBackward(d, [s EXCEPT !.data = DataPrev(Data(d, s), @)])
=============================================================================
