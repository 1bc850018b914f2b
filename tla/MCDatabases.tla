---------------------------- MODULE MCDatabases ----------------------------
(* Small databases for an iterator to read: five writes, the oldest of them   *)
(* in a level, the next in a table of level 0, the rest in the memtable.      *)
EXTENDS Table

Keys == {<<1>>, <<1, 1>>, <<1, 3>>, <<3>>}

\* The entries of a sequence of writes, numbered from `from'.
Sorted(S) ==
  [i \in 1..Cardinality(S) |->
     CHOOSE e \in S : Cardinality({f \in S : KeyBefore(f.key, e.key)}) = i - 1]
Entry(w, n) == [key |-> Append(w.user, 2 * n + w.type), value |-> n]
EntriesOf(ws, a, b) == {Entry(ws[n], n) : n \in a..b}
MemOf(S) == [kind |-> "mem", of |-> Sorted(S)]
FileOf(pairs) == [table |-> TableOf(pairs), largest |-> Last(pairs).key]
LevelOf(pairs, cut) ==
  [kind |-> "level",
   of |-> IF pairs = <<>> THEN <<>>
          ELSE IF cut >= Len(pairs) THEN <<FileOf(pairs)>>
          ELSE <<FileOf(SubSeq(pairs, 1, cut)), FileOf(SubSeq(pairs, cut + 1, Len(pairs)))>>]

\* The oldest writes are in a level of one or two files, the next in a table
\* of level 0, the rest in the memtable.
Database(ws, level, table, cut, seq) ==
  [children |-> <<MemOf(EntriesOf(ws, table + 1, Len(ws)))>>
                \o (IF table = level THEN <<>>
                    ELSE <<[kind |-> "table",
                            of |-> TableOf(Sorted(EntriesOf(ws, level + 1, table)))]>>)
                \o <<LevelOf(Sorted(EntriesOf(ws, 1, level)), cut)>>,
   entries |-> EntriesOf(ws, 1, Len(ws)), sequence |-> seq]

Put(u) == [user |-> u, type |-> 1]
Delete(u) == [user |-> u, type |-> 0]
Databases ==
  {Database(<<Put(<<1>>), Put(<<3>>)>> \o ws, x[1], x[2], x[3], x[4]) :
     ws \in [1..3 -> {Put(<<1>>), Put(<<1, 1>>), Delete(<<1, 1>>), Put(<<1, 3>>), Delete(<<3>>)}],
     x \in {<<5, 5, 5, 5>>, <<5, 5, 2, 4>>, <<3, 4, 2, 5>>, <<3, 4, 3, 3>>,
            <<2, 4, 1, 4>>, <<0, 5, 1, 5>>}}
=============================================================================
