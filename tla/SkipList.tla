------------------------------- MODULE SkipList -------------------------------
(* The list behind a memory table of LevelDB: one writer inserts, a reader    *)
(* walks without a lock (db/skiplist.h). Loads and stores are those of the    *)
(* C++ memory model for one writer: a load may return an old value, unless a  *)
(* later store to the same place is known to the reader; a store with release *)
(* makes every store before it known to whoever loads it with acquire.        *)
EXTENDS Naturals, Sequences, FiniteSets

CONSTANTS
  Keys,          \* positive naturals, inserted once each
  kMaxHeight,
  MaxReads       \* operations of the reader, a bound

VARIABLES
  stores,      \* every store so far, in order: [at, to, release]
  insert,      \* the writer: [key, height, prev, todo], todo the stores left
  published,   \* stores done when the last finished Insert gave up the lock
  reader       \* the reader: [op, key, x, level, view, node, known, reads]

vars == <<stores, insert, published, reader>>

head == 0
Nil == 1 + CHOOSE k \in Keys : \A l \in Keys : l <= k     \* after every key
Unset == Nil + 1                                \* memory not yet written to
Height == <<"max_height_">>
Next(x, i) == <<x, i>>

Store(l, v, release) == [at |-> l, to |-> v, release |-> release]
NoBarrier_SetNext(x, i, v) == Store(Next(x, i), v, FALSE)
SetNext(x, i, v) == Store(Next(x, i), v, TRUE)

(******************************************************************************)
(* The writer                                                                 *)
(******************************************************************************)
\* What the writer loads: its own last store.
Latest(l) ==
  LET mine == {t \in 1 .. Len(stores) : stores[t].at = l}
  IN  IF mine = {} THEN Unset ELSE stores[CHOOSE t \in mine : \A u \in mine : u <= t].to
GetMaxHeight == Latest(Height)

\* The keys linked by the first view stores.
Known(view) == {stores[t].to : t \in {u \in 1 .. view : stores[u].at # Height}} \cap Keys

Idle == [key |-> Nil, height |-> 0, prev |-> <<>>, todo |-> <<>>]

KeyIsAfterNode(key, n) == n < key       \* Nil is after every key

\* The last node before key, level by level, from the top: the prev array.
RECURSIVE WalkTo(_, _, _), Before(_, _)
WalkTo(key, x, i) ==
  LET next == Latest(Next(x, i)) IN IF KeyIsAfterNode(key, next) THEN WalkTo(key, next, i) ELSE x
Before(key, i) ==
  WalkTo(key, IF i = GetMaxHeight - 1 THEN head ELSE Before(key, i + 1), i)

\* Both links of a level: the new node's own, and the one that publishes it.
LinkLevel(key, prev, i) ==
  <<NoBarrier_SetNext(key, i, Latest(Next(prev[i], i))), SetNext(prev[i], i, key)>>

Links(key, prev, height) ==
  LET links[i \in 0 .. height] ==
        IF i = 0 THEN <<>> ELSE links[i - 1] \o LinkLevel(key, prev, i - 1)
  IN  links[height]
\* Only the writer stores, so what it finds stays true until it stores itself.
Insert(key, height) ==
  /\ insert = Idle
  /\ key \notin Known(Len(stores))
  /\ LET prev == [i \in 0 .. kMaxHeight - 1 |->
                    IF i < GetMaxHeight THEN Before(key, i) ELSE head]
         raised == IF height > GetMaxHeight THEN <<Store(Height, height, FALSE)>> ELSE <<>>
     IN  insert' = [key |-> key, height |-> height, prev |-> prev,
                    todo |-> raised \o Links(key, prev, height)]
  /\ UNCHANGED <<stores, published, reader>>

\* One store of an Insert. After the last, the writer takes the lock again.
StoreNext ==
  /\ insert.todo # <<>>
  /\ stores' = Append(stores, Head(insert.todo))
  /\ IF Len(insert.todo) = 1 THEN insert' = Idle /\ published' = Len(stores')
     ELSE insert' = [insert EXCEPT !.todo = Tail(@)] /\ UNCHANGED published
  /\ UNCHANGED reader

(******************************************************************************)
(* The reader                                                                 *)
(******************************************************************************)
\* The stores a load of l may return when those up to view are known.
Loadable(l, view) ==
  {t \in 1 .. Len(stores) :
     stores[t].at = l /\ ~ \E u \in t + 1 .. view : stores[u].at = l}
\* The initial content as well, when no store to l is known.
MayBeUnset(l, view) == ~ \E u \in 1 .. view : stores[u].at = l

\* The reader had the lock before it began, and then loads the height.
Begin(op, key) ==
  /\ reader.op = "none" /\ reader.reads < MaxReads
  /\ LET view == IF reader.view > published THEN reader.view ELSE published
     IN  \E t \in Loadable(Height, view) :
           reader' = [reader EXCEPT !.op = op, !.key = key, !.view = view, !.x = head,
                                    !.level = stores[t].to - 1, !.reads = @ + 1,
                                    !.known = Known(view)]
  /\ UNCHANGED <<stores, insert, published>>

Seek(target) == Begin("Seek", target)
SeekToLast == Begin("SeekToLast", Nil)
Prev == reader.node \in Keys /\ Begin("Prev", reader.node)

\* head_->Next(0), and node_->Next(0).
Advance(op, x) ==
  /\ reader.op = "none" /\ reader.reads < MaxReads
  /\ LET view == IF reader.view > published THEN reader.view ELSE published
     IN  reader' = [reader EXCEPT !.op = op, !.key = x, !.view = view, !.x = x, !.level = 0,
                                  !.reads = @ + 1, !.known = Known(view)]
  /\ UNCHANGED <<stores, insert, published>>
SeekToFirst == Advance("SeekToFirst", head)
NextNode == reader.node \in Keys /\ Advance("Next", reader.node)

\* Prev and SeekToLast give up a node that is the head.
Given(x) == IF x = head THEN Nil ELSE x

Finish(r, node) == [r EXCEPT !.op = "none", !.node = node]

\* The iterators' Next and First stop at the node loaded; FindGreaterOrEqual,
\* FindLessThan and FindLast go on, and down a level before a node not below key.
Continue(r, next) ==
  IF r.op \in {"SeekToFirst", "Next"} \/ next = Unset THEN Finish(r, next)
  ELSE IF KeyIsAfterNode(r.key, next) THEN [r EXCEPT !.x = next]
  ELSE IF r.level > 0 THEN [r EXCEPT !.level = @ - 1]
  ELSE Finish(r, IF r.op = "Seek" THEN next ELSE Given(r.x))

\* One load of a link, and what it makes known.
Load ==
  /\ reader.op # "none"
  /\ LET l == Next(reader.x, reader.level)
         Seen(t) == IF stores[t].release /\ t > reader.view THEN t ELSE reader.view
     IN  \/ \E t \in Loadable(l, reader.view) :
              reader' = Continue([reader EXCEPT !.view = Seen(t)], stores[t].to)
         \/ MayBeUnset(l, reader.view) /\ reader' = Continue(reader, Unset)
  /\ UNCHANGED <<stores, insert, published>>

(******************************************************************************)
(* The list                                                                   *)
(******************************************************************************)
Constructed ==
  <<Store(Height, 1, FALSE)>> \o [i \in 1 .. kMaxHeight |-> SetNext(head, i - 1, Nil)]

Init ==
  /\ stores = Constructed /\ published = Len(Constructed)
  /\ insert = Idle
  /\ reader = [op |-> "none", key |-> Nil, x |-> head, level |-> 0, view |-> 0, node |-> Nil,
               known |-> {}, reads |-> 0]

NextStep ==
  \/ \E key \in Keys, height \in 1 .. kMaxHeight : Insert(key, height)
  \/ StoreNext
  \/ \E target \in Keys : Seek(target)
  \/ SeekToFirst \/ SeekToLast \/ NextNode \/ Prev
  \/ Load

Spec == Init /\ [][NextStep]_vars

(******************************************************************************)
(* Properties                                                                 *)
(******************************************************************************)
Between(low, high) == {k \in Keys : low < k /\ k < high}

\* Where an operation may end: at a node that holds what the writer put there, on
\* the right side of its key, with nothing between that the reader knew of. A key
\* found once counts as known from then on (skiplist.h 260-335).
RightEnd(r, node) ==
  /\ node # Unset
  /\ CASE r.op = "Seek" -> node >= r.key /\ Between(r.key - 1, node) \cap r.known = {}
       [] r.op \in {"SeekToFirst", "Next"} -> node > r.x /\ Between(r.x, node) \cap r.known = {}
       [] r.op \in {"Prev", "SeekToLast"} ->
            /\ node # Nil => node < r.key
            /\ Between(IF node = Nil THEN head ELSE node, r.key) \cap r.known = {}

\* No reader without the lock sees half a node, misses a key inserted before it
\* began, or finds keys out of order (skiplist.h 9-27).
ReadsWhole ==
  [][reader.op # "none" /\ reader'.op = "none" => RightEnd(reader, reader'.node)]_vars
===============================================================================
