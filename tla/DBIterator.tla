----------------------------- MODULE DBIterator -----------------------------
(***************************************************************************)
(* An iterator over a LevelDB database at a snapshot (db/db_iter.cc): it   *)
(* moves a merging iterator (table/merger.cc) over the memtable, the       *)
(* tables of level 0 and the levels below, and hides what is overwritten,  *)
(* deleted or too new.  The database does not change under an iterator:    *)
(* LevelDB.tla shows that what it reads is pinned.                         *)
(***************************************************************************)
EXTENDS Table

CONSTANTS
  Databases,  \* databases [children, entries, sequence] to read
  UserKeys    \* user keys sought

VARIABLES
  children,   \* the sources: [kind, of], kind "mem", "table" or "level"
  entries,    \* all that is in them, as a set of [key, value]
  sequence,   \* sequence_
  contents,   \* what is to be seen of them, in order (auxiliary)
  it,         \* the merging iterator: [states, current, reverse]
  db          \* DBIter: [valid, reverse, key, value], the last two saved_

vars == <<children, entries, sequence, contents, it, db>>

Lookup(user, seq) == Append(user, 2 * seq + 1)
NumberOf(key) == Last(key) \div 2
IsPut(key) == Last(key) % 2 = 1

---------------------------------------------------------------------------
(* The children, whatever their kind; a memtable is a sorted sequence and  *)
(* its iterator a place in it                                              *)

NewChild(c) ==
  CASE c.kind = "mem" -> Len(c.of) + 1
    [] c.kind = "table" -> TableIterator!NewIterator(c.of)
    [] c.kind = "level" -> LevelIterator!NewIterator(c.of)
ChildValid(c, s) ==
  CASE c.kind = "mem" -> s <= Len(c.of)
    [] c.kind = "table" -> TableIterator!Valid(c.of, s)
    [] c.kind = "level" -> LevelIterator!Valid(c.of, s)
ChildKey(c, s) ==
  CASE c.kind = "mem" -> c.of[s].key
    [] c.kind = "table" -> TableKey(c.of, s)
    [] c.kind = "level" -> LevelKey(c.of, s)
ChildValue(c, s) ==
  CASE c.kind = "mem" -> c.of[s].value
    [] c.kind = "table" -> TableValue(c.of, s)
    [] c.kind = "level" -> LevelValue(c.of, s)
ChildFirst(c, s) ==
  CASE c.kind = "mem" -> 1
    [] c.kind = "table" -> TableIterator!SeekToFirst(c.of, s)
    [] c.kind = "level" -> LevelIterator!SeekToFirst(c.of, s)
ChildLast(c, s) ==
  CASE c.kind = "mem" -> IF c.of = <<>> THEN 1 ELSE Len(c.of)
    [] c.kind = "table" -> TableIterator!SeekToLast(c.of, s)
    [] c.kind = "level" -> LevelIterator!SeekToLast(c.of, s)
ChildSeek(c, s, key) ==
  CASE c.kind = "mem" ->
         Min({i \in 1..(Len(c.of) + 1) : i <= Len(c.of) => ~KeyBefore(c.of[i].key, key)})
    [] c.kind = "table" -> TableIterator!Seek(c.of, s, key)
    [] c.kind = "level" -> LevelIterator!Seek(c.of, s, key)
ChildNext(c, s) ==
  CASE c.kind = "mem" -> s + 1
    [] c.kind = "table" -> TableIterator!Next(c.of, s)
    [] c.kind = "level" -> LevelIterator!Next(c.of, s)
ChildPrev(c, s) ==
  CASE c.kind = "mem" -> IF s = 1 THEN Len(c.of) + 1 ELSE s - 1
    [] c.kind = "table" -> TableIterator!Prev(c.of, s)
    [] c.kind = "level" -> LevelIterator!Prev(c.of, s)

---------------------------------------------------------------------------
(* MergingIterator; current is 0 for a null current_                       *)

Kids == DOMAIN children
KeyAt(states, i) == ChildKey(children[i], states[i])
LiveKids(states) ==
  {[kid |-> i, key |-> KeyAt(states, i)] : i \in {i \in Kids : ChildValid(children[i], states[i])}}

\* The first child with the least key, the last one with the greatest.
Smallest(live) ==
  IF live = {} THEN 0
  ELSE Min({x.kid : x \in {x \in live : \A y \in live : ~KeyBefore(y.key, x.key)}})
Largest(live) ==
  IF live = {} THEN 0
  ELSE Max({x.kid : x \in {x \in live : \A y \in live : ~KeyBefore(x.key, y.key)}})
FindSmallest(states) == Smallest(LiveKids(states))
FindLargest(states) == Largest(LiveKids(states))

Forwards(states) ==
  [states |-> states, current |-> FindSmallest(states), reverse |-> FALSE]
Backwards(states) ==
  [states |-> states, current |-> FindLargest(states), reverse |-> TRUE]

MValid(m) == m.current # 0
MKey(m) == KeyAt(m.states, m.current)
MValue(m) == ChildValue(children[m.current], m.states[m.current])
MFirst(m) == Forwards([i \in Kids |-> ChildFirst(children[i], m.states[i])])
MLast(m) == Backwards([i \in Kids |-> ChildLast(children[i], m.states[i])])
MSeek(m, key) == Forwards([i \in Kids |-> ChildSeek(children[i], m.states[i], key)])

\* Mutant: the other children are not moved when the direction changes.
AfterKeyUnmoved(m) == m.states

\* Every child but the current one, moved after or before the current key.
AfterSought(c, s, key) == IF ChildValid(c, s) /\ ChildKey(c, s) = key THEN ChildNext(c, s) ELSE s
AfterKey(m) ==
  [i \in Kids |->
     IF i = m.current THEN m.states[i]
     ELSE AfterSought(children[i], ChildSeek(children[i], m.states[i], MKey(m)), MKey(m))]
BeforeSought(c, s) == IF ChildValid(c, s) THEN ChildPrev(c, s) ELSE ChildLast(c, s)
BeforeKey(m) ==
  [i \in Kids |->
     IF i = m.current THEN m.states[i]
     ELSE BeforeSought(children[i], ChildSeek(children[i], m.states[i], MKey(m)))]

CurrentNext(states, i) == [states EXCEPT ![i] = ChildNext(children[i], @)]
CurrentPrev(states, i) == [states EXCEPT ![i] = ChildPrev(children[i], @)]
MNext(m) == Forwards(CurrentNext(IF m.reverse THEN AfterKey(m) ELSE m.states, m.current))
MPrev(m) == Backwards(CurrentPrev(IF m.reverse THEN m.states ELSE BeforeKey(m), m.current))

---------------------------------------------------------------------------
(* DBIter *)

Visible(key) == NumberOf(key) <= sequence

\* Forward from m to the next entry to show: an entry that deletes its user key
\* hides those that follow.
Hidden(key, skipping, skip) == skipping /\ ~UserBefore(skip, UserOf(key))
Shown(key, skipping, skip) == Visible(key) /\ IsPut(key) /\ ~Hidden(key, skipping, skip)
Deletes(key) == Visible(key) /\ ~IsPut(key)

RECURSIVE NextShown(_, _, _)
NextShown(m, skipping, skip) ==
  IF ~MValid(m) THEN m
  ELSE IF Shown(MKey(m), skipping, skip) THEN m
  ELSE NextShown(MNext(m), skipping \/ Deletes(MKey(m)),
                 IF Deletes(MKey(m)) THEN UserOf(MKey(m)) ELSE skip)

\* What an operation leaves: the merging iterator and the saved fields.
StandAt(m) ==
  [it |-> m, db |-> [valid |-> MValid(m), reverse |-> FALSE, key |-> <<>>, value |-> 0]]
FindNextUserEntry(m, skipping, skip) == StandAt(NextShown(m, skipping, skip))

\* Back from m over the entries of one user key: the last of them that is not
\* too new is saved, unless it deletes the key.
NothingSaved == [put |-> FALSE, key |-> <<>>, value |-> 0]
SavedAt(m) ==
  IF IsPut(MKey(m)) THEN [put |-> TRUE, key |-> UserOf(MKey(m)), value |-> MValue(m)]
  ELSE NothingSaved

RECURSIVE PrevSaved(_, _)
PrevSaved(m, saved) ==
  LET k == MKey(m)
  IN  IF ~MValid(m) \/ (Visible(k) /\ saved.put /\ UserBefore(UserOf(k), saved.key))
      THEN [m |-> m, saved |-> saved]
      ELSE PrevSaved(MPrev(m), IF Visible(k) THEN SavedAt(m) ELSE saved)

StandBefore(end) ==
  [it |-> end.m,
   db |-> [valid |-> end.saved.put, reverse |-> end.saved.put,
           key |-> end.saved.key, value |-> end.saved.value]]
FindPrevUserEntry(m) == StandBefore(PrevSaved(m, NothingSaved))

Ended(m, reverse) ==
  [it |-> m, db |-> [valid |-> FALSE, reverse |-> reverse, key |-> <<>>, value |-> 0]]

\* The key-value pairs of the snapshot, from the entries themselves.
ContentsOf(all, seq) ==
  LET visible(e) == NumberOf(e.key) <= seq
      newest(e) == /\ visible(e)
                   /\ \A f \in all :
                        UserOf(f.key) = UserOf(e.key) /\ visible(f)
                          => Last(f.key) <= Last(e.key)
      live == {e \in all : newest(e) /\ IsPut(e.key)}
      item(e) == [key |-> UserOf(e.key), value |-> e.value]
  IN  [i \in 1..Cardinality(live) |->
         item(CHOOSE e \in live :
                Cardinality({f \in live : KeyBefore(f.key, e.key)}) = i - 1)]

Init ==
  \E d \in Databases :
    /\ children = d.children /\ entries = d.entries /\ sequence = d.sequence
    /\ contents = ContentsOf(d.entries, d.sequence)
    /\ it = [states |-> [i \in DOMAIN d.children |-> NewChild(d.children[i])],
             current |-> 0, reverse |-> FALSE]
    /\ db = [valid |-> FALSE, reverse |-> FALSE, key |-> <<>>, value |-> 0]

\* Forward from m, if there is an entry at all.
ShowFrom(m, skipping, skip) ==
  IF MValid(m) THEN FindNextUserEntry(m, skipping, skip) ELSE Ended(m, FALSE)

Firsts == ShowFrom(MFirst(it), FALSE, <<>>)
Lasts == FindPrevUserEntry(MLast(it))
Sought(user) == ShowFrom(MSeek(it, Lookup(user, sequence)), FALSE, <<>>)
Nexts ==
  ShowFrom(IF ~db.reverse THEN it ELSE IF MValid(it) THEN MNext(it) ELSE MFirst(it),
           TRUE, IF db.reverse THEN db.key ELSE UserOf(MKey(it)))

\* Back to before the entries of the current user key, then over those before.
RECURSIVE BackBefore(_, _)
BackBefore(m, user) ==
  IF MValid(m) /\ ~UserBefore(UserOf(MKey(m)), user) THEN BackBefore(MPrev(m), user) ELSE m
BackFrom(m) == IF db.reverse \/ MValid(m) THEN FindPrevUserEntry(m) ELSE Ended(m, FALSE)
Prevs == BackFrom(IF db.reverse THEN it ELSE BackBefore(it, UserOf(MKey(it))))

Become(stand) ==
  /\ it' = stand.it /\ db' = stand.db
  /\ UNCHANGED <<children, entries, sequence, contents>>

SeekToFirst == Become(Firsts)
SeekToLast == Become(Lasts)
Seek == \E user \in UserKeys : Become(Sought(user))
Forward == db.valid /\ Become(Nexts)
Back == db.valid /\ Become(Prevs)

Next == SeekToFirst \/ SeekToLast \/ Seek \/ Forward \/ Back
Spec == Init /\ [][Next]_vars

---------------------------------------------------------------------------
(* Properties *)

Shows(s) ==
  IF s.db.reverse THEN [key |-> s.db.key, value |-> s.db.value]
  ELSE [key |-> UserOf(MKey(s.it)), value |-> MValue(s.it)]

\* The place among the live keys; past them when what is shown is none of them.
PlaceOf(s) ==
  IF ~s.db.valid THEN 0
  ELSE LET shown == {i \in DOMAIN contents : contents[i] = Shows(s)}
       IN  IF shown = {} THEN Len(contents) + 1 ELSE Min(shown)

Where(c, s) == IF ChildValid(c, s) THEN ChildKey(c, s) ELSE <<>>

AroundSought(c, s, after, reverse) ==
  Where(c, s) = Where(c, IF ~reverse THEN after
                         ELSE IF ChildValid(c, after) THEN ChildPrev(c, after)
                         ELSE ChildLast(c, after))

\* What MergingIterator::Next and Prev rely on when they move one child only
\* (merger.cc 56-107): every other child stands at its first entry after the
\* current key, or, in the reverse direction, at its last entry before it; and
\* DBIter, moving forward, is valid only where the merging iterator is.
ChildrenAround ==
  /\ db.valid /\ ~db.reverse => MValid(it)
  /\ MValid(it) =>
       \A i \in Kids \ {it.current} :
         AroundSought(children[i], it.states[i],
                      ChildSeek(children[i], NewChild(children[i]), MKey(it)), it.reverse)

IteratesOver == INSTANCE Cursor WITH
  Targets <- UserKeys, NotBefore <- LAMBDA i, t : ~UserBefore(i.key, t),
  items <- contents, at <- PlaceOf([it |-> it, db |-> db])

\* The direction may change anywhere, at a restart point, a block, a file or a
\* run of hidden entries: an iterator moves over exactly the live keys of its
\* snapshot, and from wherever it may be each operation leads where the
\* cursor's does: Next to the key after, Prev to the one before, Seek to the
\* first that is not before what is sought (db_iter.cc 142-297, merger.cc
\* 56-107).
ImplementsCursor ==
  /\ IteratesOver!Spec
  /\ [](/\ PlaceOf(Firsts) = IteratesOver!ToFirst
        /\ PlaceOf(Lasts) = IteratesOver!ToLast
        /\ \A user \in UserKeys : PlaceOf(Sought(user)) = IteratesOver!To(user)
        /\ db.valid => /\ PlaceOf(Nexts) = IteratesOver!ToNext
                       /\ PlaceOf(Prevs) = IteratesOver!ToPrev)

Tables == UNION {IF c.kind = "table" THEN {c.of}
                 ELSE IF c.kind = "level" THEN {f.table : f \in Range(c.of)}
                 ELSE {} : c \in Range(children)}

FoundBoth(t, user, s, got) ==
  IF TableIterator!Valid(t, s) /\ UserOf(TableKey(t, s)) = user
  THEN got = [key |-> TableKey(t, s), value |-> TableValue(t, s)]
  ELSE got.key # <<>> => UserOf(got.key) # user

\* Index separators, filters and blocks together: a look-up that a filter may
\* stop finds an entry of the user key whenever a search finds one, and the
\* same (table.cc 214-241).
LookupsAgree ==
  \A t \in Tables, user \in UserKeys, n \in 0..sequence :
    FoundBoth(t, user,
              TableIterator!Seek(t, TableIterator!NewIterator(t), Lookup(user, n)),
              InternalGet(t, Lookup(user, n)))
=============================================================================
