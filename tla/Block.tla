------------------------------- MODULE Block -------------------------------
(***************************************************************************)
(* The blocks of LevelDB's tables (table/block_builder.cc, block.cc): keys *)
(* are stored without the prefix they share with the key before, in full   *)
(* at restart points, and an iterator moves through them both ways.        *)
(*                                                                         *)
(* A key is a sequence of bytes followed by one trailer that stands for    *)
(* the sequence number and the type.  An entry's place in its block stands *)
(* for its offset.                                                         *)
(***************************************************************************)
EXTENDS Naturals, Sequences, FiniteSets, SequencesExt, FiniteSetsExt

CONSTANTS
  MaxByte,          \* 0xff
  MaxTrailer,       \* kMaxSequenceNumber with kValueTypeForSeek
  RestartInterval   \* Options::block_restart_interval

UserOf(key) == Front(key)

CommonPrefix(a, b) ==
  Max({n \in 0..Min({Len(a), Len(b)}) : SubSeq(a, 1, n) = SubSeq(b, 1, n)})

\* BytewiseComparator, and InternalKeyComparator on top of it.
DiffersBelow(a, b, n) == n < Len(b) /\ (n = Len(a) \/ a[n + 1] < b[n + 1])
UserBefore(a, b) == DiffersBelow(a, b, CommonPrefix(a, b))
KeyBefore(a, b) ==
  \/ UserBefore(UserOf(a), UserOf(b))
  \/ UserOf(a) = UserOf(b) /\ Last(a) > Last(b)

\* A short key not before start and before limit.
SeparatorAt(start, limit, n) ==
  IF /\ n < Min({Len(start), Len(limit)})
     /\ start[n + 1] < MaxByte /\ start[n + 1] + 1 < limit[n + 1]
  THEN Append(SubSeq(start, 1, n), start[n + 1] + 1)
  ELSE start
UserSeparator(start, limit) == SeparatorAt(start, limit, CommonPrefix(start, limit))

\* A short key not before k.
UserSuccessor(k) ==
  LET low == {i \in DOMAIN k : k[i] # MaxByte}
  IN  IF low = {} THEN k
      ELSE Append(SubSeq(k, 1, Min(low) - 1), k[Min(low)] + 1)

\* InternalKeyComparator shortens the user key only if that makes it larger.
Shortened(key, user) ==
  IF Len(user) < Len(UserOf(key)) /\ UserBefore(UserOf(key), user)
  THEN Append(user, MaxTrailer) ELSE key
FindShortestSeparator(start, limit) ==
  Shortened(start, UserSeparator(UserOf(start), UserOf(limit)))
FindShortSuccessor(key) == Shortened(key, UserSuccessor(UserOf(key)))

---------------------------------------------------------------------------
(* Building: pairs is the sequence of [key, value] added *)

Shared(pairs, i, interval) ==
  IF (i - 1) % interval = 0 THEN 0 ELSE CommonPrefix(pairs[i - 1].key, pairs[i].key)

BlockOf(pairs, interval) ==
  [entries |-> [i \in DOMAIN pairs |->
     LET shared == Shared(pairs, i, interval)
     IN  [shared |-> shared, value |-> pairs[i].value,
          delta |-> SubSeq(pairs[i].key, shared + 1, Len(pairs[i].key))]],
   restarts |-> [j \in 1..Max({1, (Len(pairs) + interval - 1) \div interval}) |->
                   (j - 1) * interval + 1]]

---------------------------------------------------------------------------
(* Iterating: current is past the entries when the iterator is not valid, *)
(* next is where the entry after the current one begins                   *)

Past(b) == Len(b.entries) + 1
BlockValid(b, s) == s.current < Past(b)
BlockValue(b, s) == b.entries[s.current].value
NewBlockIterator(b) ==
  [current |-> Past(b), restart |-> Len(b.restarts) + 1, key |-> <<>>, next |-> 1]
Nowhere(b, s) == [s EXCEPT !.current = Past(b), !.restart = Len(b.restarts) + 1]

ParseNextKey(b, s) ==
  LET e == b.entries[s.next]
  IN  IF s.next >= Past(b) THEN Nowhere(b, s)
      ELSE [current |-> s.next, next |-> s.next + 1,
            key |-> SubSeq(s.key, 1, e.shared) \o e.delta,
            restart |-> Max({s.restart} \cup
              {r \in (s.restart + 1)..Len(b.restarts) : b.restarts[r] < s.next})]

SeekToRestartPoint(b, s, r) ==
  [s EXCEPT !.key = <<>>, !.restart = r, !.next = b.restarts[r]]

\* The entries from s.next up to the given one are parsed.
RECURSIVE ParseUpTo(_, _, _)
ParseUpTo(b, s, last) ==
  IF s.next > last THEN s ELSE ParseUpTo(b, ParseNextKey(b, s), last)

BlockNext(b, s) == ParseNextKey(b, s)

\* Mutant: an entry at a restart point has none before it.
PrevFromHere(b, s) ==
  IF b.restarts[s.restart] >= s.current THEN Nowhere(b, s)
  ELSE ParseUpTo(b, SeekToRestartPoint(b, s, s.restart), s.current - 1)

BlockPrev(b, s) ==
  LET before == {r \in 1..Min({s.restart, Len(b.restarts)}) : b.restarts[r] < s.current}
  IN  IF before = {} THEN Nowhere(b, s)
      ELSE ParseUpTo(b, SeekToRestartPoint(b, s, Max(before)), s.current - 1)

\* The last restart point with a key before the target, by binary search.
RECURSIVE RestartBefore(_, _, _, _)
RestartBefore(b, target, left, right) ==
  LET mid == (left + right + 1) \div 2
  IN  IF left >= right THEN left
      ELSE IF KeyBefore(b.entries[b.restarts[mid]].delta, target)
      THEN RestartBefore(b, target, mid, right) ELSE RestartBefore(b, target, left, mid - 1)

RECURSIVE BlockScan(_, _, _)
BlockScan(b, s, target) ==
  IF BlockValid(b, s) /\ KeyBefore(s.key, target) THEN BlockScan(b, ParseNextKey(b, s), target)
  ELSE s

BlockSeek(b, s, target) ==
  BlockScan(b, ParseNextKey(b, SeekToRestartPoint(b, s, RestartBefore(b, target, 1, Len(b.restarts)))),
            target)

BlockFirst(b, s) == ParseNextKey(b, SeekToRestartPoint(b, s, 1))
BlockLast(b, s) ==
  ParseUpTo(b, SeekToRestartPoint(b, s, Len(b.restarts)), Len(b.entries))
=============================================================================
