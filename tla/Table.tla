------------------------------- MODULE Table -------------------------------
(***************************************************************************)
(* The tables of LevelDB (table/table_builder.cc, table.cc,                *)
(* filter_block.cc, util/bloom.cc) and the sorted levels made of them      *)
(* (db/version_set.cc 159-228).                                            *)
(*                                                                         *)
(* Sizes and offsets count entries, and one for the trailer of a block.  A *)
(* handle is the number of its block.  A filter is [bits, set]: how many   *)
(* bits it has and which are set.                                          *)
(***************************************************************************)
EXTENDS Block

CONSTANTS
  BlockSize,          \* Options::block_size
  FilterBase,         \* kFilterBase
  BitsPerKey, Probes, \* bits_per_key_, k_
  MinBits,            \* bits of the smallest filter (64), rounded to a byte
  WordBits, Rotate,   \* the hash is a word of WordBits; its delta is rotated (32, 17)
  Hash(_)             \* BloomHash of a user key

---------------------------------------------------------------------------
(* Filters *)

Word == 2 ^ WordBits
Delta(h) == (h \div (2 ^ Rotate)) + ((h * 2 ^ (WordBits - Rotate)) % Word)
BitPositions(user, bits) ==
  {((Hash(user) + j * Delta(Hash(user))) % Word) % bits : j \in 0..(Probes - 1)}

EmptyFilter == [bits |-> 0, set |-> {}]
CreateFilter(users) ==
  LET bits == Max({MinBits, Cardinality(users) * BitsPerKey})
  IN  [bits |-> bits, set |-> UNION {BitPositions(u, bits) : u \in users}]

\* FilterBlockBuilder: the filters finished, and the keys of the one begun.
StartBlock(fb, offset) ==
  LET missing == offset \div FilterBase - Len(fb.filters)
      filter(i) == IF i = 1 /\ fb.keys # {} THEN CreateFilter(fb.keys) ELSE EmptyFilter
  IN  IF offset \div FilterBase <= Len(fb.filters) THEN fb
      ELSE [filters |-> fb.filters \o [i \in 1..missing |-> filter(i)], keys |-> {}]

\* FilterBlockReader::KeyMayMatch with BloomFilterPolicy::KeyMayMatch.
KeyMayMatch(filters, offset, user) ==
  LET index == offset \div FilterBase + 1
  IN  index <= Len(filters) =>
        /\ filters[index].bits # 0
        /\ BitPositions(user, filters[index].bits) \subseteq filters[index].set

---------------------------------------------------------------------------
(* Building a table *)

IndexKey(key, next) == FindShortestSeparator(key, next)

\* The table of a sorted sequence of [key, value].
TableOf(pairs) ==
  LET count == (Len(pairs) + BlockSize - 1) \div BlockSize
      first(i) == (i - 1) * BlockSize + 1
      last(i) == Min({i * BlockSize, Len(pairs)})
      part(i) == SubSeq(pairs, first(i), last(i))
      offset(i) == first(i) - 1 + (i - 1)
      size == Len(pairs) + count
      index == [i \in 1..count |->
                  [key |-> IF i < count THEN IndexKey(pairs[last(i)].key, pairs[first(i + 1)].key)
                           ELSE FindShortSuccessor(pairs[last(i)].key),
                   value |-> i]]
      users(i) == {UserOf(p.key) : p \in Range(part(i))}
      fb[i \in 0..count] ==
        IF i = 0 THEN [filters |-> <<>>, keys |-> {}]
        ELSE LET begun == StartBlock(fb[i - 1], offset(i))
             IN  [begun EXCEPT !.keys = @ \cup users(i)]
      end == StartBlock(fb[count], size)
  IN  [blocks |-> [i \in 1..count |-> [offset |-> offset(i),
                     contents |-> BlockOf(part(i), RestartInterval)]],
       index |-> BlockOf(index, 1), metaindex |-> size,
       filters |-> IF end.keys = {} THEN end.filters
                   ELSE Append(end.filters, CreateFilter(end.keys))]

---------------------------------------------------------------------------
(* Reading a table *)

IndexSeek(t, s, key) == BlockSeek(t.index, s, key)
IndexFirst(t, s) == BlockFirst(t.index, s)
IndexLast(t, s) == BlockLast(t.index, s)
IndexNext(t, s) == BlockNext(t.index, s)
IndexPrev(t, s) == BlockPrev(t.index, s)
IndexValid(t, s) == BlockValid(t.index, s)
IndexValue(t, s) == BlockValue(t.index, s)
IndexSize(t) == Len(t.index.entries)
NewIndex(t) == NewBlockIterator(t.index)
BlockReader(t, handle) == t.blocks[handle].contents

TableIterator == INSTANCE TwoLevelIterator WITH
  OpenData <- BlockReader, NewData <- NewBlockIterator, DataValid <- BlockValid,
  DataSeek <- BlockSeek, DataFirst <- BlockFirst, DataLast <- BlockLast,
  DataNext <- BlockNext, DataPrev <- BlockPrev

TableKey(t, s) == s.data.key
TableValue(t, s) == BlockValue(BlockReader(t, s.handle), s.data)

\* The entry a look-up hands to its callback, or NotFound.
NotFound == [key |-> <<>>, value |-> 0]
InternalGet(t, key) ==
  LET i == BlockSeek(t.index, NewIndex(t), key)
      block == t.blocks[BlockValue(t.index, i)]
      s == BlockSeek(block.contents, NewBlockIterator(block.contents), key)
  IN  IF ~BlockValid(t.index, i) THEN NotFound
      ELSE IF ~KeyMayMatch(t.filters, block.offset, UserOf(key)) THEN NotFound
      ELSE IF ~BlockValid(block.contents, s) THEN NotFound
      ELSE [key |-> s.key, value |-> BlockValue(block.contents, s)]

---------------------------------------------------------------------------
(* A level: a sequence of tables [table, largest]                          *)

FileSeek(level, i, key) ==
  Min({n \in 1..(Len(level) + 1) : n <= Len(level) => ~KeyBefore(level[n].largest, key)})
FileFirst(level, i) == 1
FileLast(level, i) == Max({1, Len(level)})
FileNext(level, i) == i + 1
FilePrev(level, i) == IF i = 1 THEN Len(level) + 1 ELSE i - 1
FileValid(level, i) == i <= Len(level)
FileHandle(level, i) == i
NewFileIndex(level) == Len(level) + 1
GetFileIterator(level, handle) == level[handle].table

LevelIterator == INSTANCE TwoLevelIterator WITH
  IndexSize <- Len, NewIndex <- NewFileIndex, IndexValid <- FileValid,
  IndexValue <- FileHandle, IndexSeek <- FileSeek, IndexFirst <- FileFirst,
  IndexLast <- FileLast, IndexNext <- FileNext, IndexPrev <- FilePrev,
  OpenData <- GetFileIterator, NewData <- TableIterator!NewIterator,
  DataValid <- TableIterator!Valid, DataSeek <- TableIterator!Seek,
  DataFirst <- TableIterator!SeekToFirst, DataLast <- TableIterator!SeekToLast,
  DataNext <- TableIterator!Next, DataPrev <- TableIterator!Prev

LevelKey(level, s) == TableKey(GetFileIterator(level, s.handle), s.data)
LevelValue(level, s) == TableValue(GetFileIterator(level, s.handle), s.data)
=============================================================================
