----------------------- MODULE BlockChipCollectionProofs -----------------------
(* Whatever the threads that add chips do, a collection with enough chips is  *)
(* handed to the loop: proof of Collected for any number of chips and threads.*)
EXTENDS BlockChipCollection, FiniteSetTheorems, TLAPS

(******************************************************************************)
(* The invariant                                                              *)
(******************************************************************************)
Steps ==
  {"idle", "create", "enter", "check", "store", "count", "mark", "leave", "last", "result"}
Inside == {"check", "store", "count", "mark", "leave"}   \* between the two changes of writeCount
At(S) == {t \in Threads : thread[t].at \in S}

Types ==
  /\ datas = NoCollection \/ datas \subseteq Indexes
  /\ count \in Nat /\ writeCount \in Nat
  /\ isReadOnly \in BOOLEAN /\ CanRestore \in BOOLEAN /\ completed \in BOOLEAN
  /\ arrived \in [Indexes -> Nat]
  /\ thread \in [Threads -> [at : Steps, chip : Indexes \cup {0}]]

\* writeCount is the number of threads inside Add, none before there is a
\* collection.
WritersCounted ==
  /\ writeCount = Cardinality(At(Inside))
  /\ datas = NoCollection => count = 0 /\ At(Inside \cup {"enter"}) = {}

\* A chip that is stored is counted or about to be.
ChipsCounted ==
  datas # NoCollection => Cardinality(datas) <= count + Cardinality(At({"count"}))

\* The thread whose count reaches RestoreCount marks the collection.
ReachedMarks ==
  count >= RestoreCount /\ RestoreCount > 1 => CanRestore \/ At({"mark"}) # {}

\* A marked collection has its result, or a thread on the way out of Add that
\* will find the mark.
MarkLeadsToResult ==
  CanRestore => completed \/ At({"last", "result"} \cup Inside) # {}

CollectInv ==
  Types /\ WritersCounted /\ ChipsCounted /\ ReachedMarks /\ MarkLeadsToResult

(******************************************************************************)
(* Threads that are somewhere                                                 *)
(******************************************************************************)
LEMMA AtFinite ==
  ASSUME NEW S
  PROVE  IsFiniteSet(At(S)) /\ Cardinality(At(S)) \in Nat
<1>1. At(S) \subseteq Threads
  BY DEF At
<1> QED  BY <1>1, CollectionAssumption, FS_Subset, FS_CardinalityType

\* A thread that moves from outside a set of steps into it, out of it, or
\* neither.
LEMMA Moves ==
  ASSUME Types, NEW t \in Threads, NEW step \in Steps, NEW c \in Indexes \cup {0},
         thread' = [thread EXCEPT ![t] = [at |-> step, chip |-> c]], NEW S
  PROVE  /\ step \in S => At(S)' = At(S) \cup {t}
         /\ step \notin S => At(S)' = At(S) \ {t}
         /\ step \in S /\ thread[t].at \notin S =>
              Cardinality(At(S)') = Cardinality(At(S)) + 1
         /\ step \notin S /\ thread[t].at \in S =>
              Cardinality(At(S)') = Cardinality(At(S)) - 1
         /\ (step \in S <=> thread[t].at \in S) => At(S)' = At(S)
<1>1. \A u \in Threads : thread'[u].at = IF u = t THEN step ELSE thread[u].at
  BY DEF Types
<1>2. At(S)' = {u \in Threads : thread'[u].at \in S}
  BY DEF At
<1>3. step \in S => At(S)' = At(S) \cup {t}
  BY <1>1, <1>2 DEF At
<1>4. step \notin S => At(S)' = At(S) \ {t}
  BY <1>1, <1>2 DEF At
<1>5. t \in At(S) <=> thread[t].at \in S
  BY DEF At
<1>6. IsFiniteSet(At(S)) /\ Cardinality(At(S)) \in Nat
  BY AtFinite
<1>7. step \in S /\ thread[t].at \notin S => Cardinality(At(S)') = Cardinality(At(S)) + 1
  BY <1>3, <1>5, <1>6, FS_AddElement
<1>8. step \notin S /\ thread[t].at \in S => Cardinality(At(S)') = Cardinality(At(S)) - 1
  BY <1>4, <1>5, <1>6, FS_RemoveElement
<1>9. (step \in S <=> thread[t].at \in S) => At(S)' = At(S)
  BY <1>3, <1>4, <1>5
<1> QED  BY <1>3, <1>4, <1>7, <1>8, <1>9

\* What a move between two steps does to the threads in any set of steps.
Moved(t, from, step) ==
  \A S :
    /\ (step \in S <=> from \in S) => At(S)' = At(S)
    /\ step \in S /\ from \notin S =>
         /\ At(S)' = At(S) \cup {t}
         /\ Cardinality(At(S)') = Cardinality(At(S)) + 1
    /\ step \notin S /\ from \in S =>
         /\ At(S)' = At(S) \ {t}
         /\ Cardinality(At(S)') = Cardinality(At(S)) - 1

LEMMA Move ==
  ASSUME Types, NEW t \in Threads, NEW step \in Steps, NEW c \in Indexes \cup {0},
         thread' = [thread EXCEPT ![t] = [at |-> step, chip |-> c]]
  PROVE  /\ Moved(t, thread[t].at, step)
         /\ thread' \in [Threads -> [at : Steps, chip : Indexes \cup {0}]]
<1>1. Moved(t, thread[t].at, step)
  BY Moves DEF Moved
<1> QED  BY <1>1 DEF Types

\* The assignments to thread.
LEMMA GotoMoves ==
  ASSUME Types, NEW t \in Threads, NEW step \in Steps, Goto(t, step)
  PROVE  /\ Moved(t, thread[t].at, step)
         /\ thread' \in [Threads -> [at : Steps, chip : Indexes \cup {0}]]
<1>1. thread[t] \in [at : Steps, chip : Indexes \cup {0}]
  BY DEF Types
<1>2. [thread[t] EXCEPT !.at = step] = [at |-> step, chip |-> thread[t].chip]
  BY <1>1
<1>3. thread' = [thread EXCEPT ![t] = [at |-> step, chip |-> thread[t].chip]]
  BY <1>2, Zenon DEF Goto
<1> QED  BY <1>1, <1>3, Move

LEMMA EndMoves ==
  ASSUME Types, NEW t \in Threads, End(t)
  PROVE  /\ Moved(t, thread[t].at, "idle")
         /\ thread' \in [Threads -> [at : Steps, chip : Indexes \cup {0}]]
BY Move DEF End, Idle, Steps

LEMMA ChipHasIndex ==
  ASSUME Types, NEW t \in Threads
  PROVE  thread[t].chip \in Indexes
BY CollectionAssumption DEF Types, Indexes

\* A thread inside Add has a collection to add its chip to.
LEMMA InCollection ==
  ASSUME CollectInv, NEW t \in Threads, thread[t].at \in Inside \cup {"enter"}
  PROVE  datas # NoCollection /\ datas \subseteq Indexes /\ IsFiniteSet(datas)
<1>1. t \in At(Inside \cup {"enter"})
  BY DEF At
<1>2. datas # NoCollection
  BY <1>1 DEF CollectInv, WritersCounted
<1>3. datas \subseteq Indexes
  BY <1>2 DEF CollectInv, Types
<1>4. IsFiniteSet(Indexes)
  BY CollectionAssumption, FS_Interval DEF Indexes
<1> QED  BY <1>2, <1>3, <1>4, FS_Subset

(******************************************************************************)
(* Every step keeps the invariant                                             *)
(******************************************************************************)
LEMMA InitCollect == Init => CollectInv
<1> SUFFICES ASSUME Init PROVE CollectInv
  OBVIOUS
<1>1. \A S : "idle" \notin S => At(S) = {}
  BY DEF Init, At, Idle
<1>2. /\ At(Inside) = {} /\ At(Inside \cup {"enter"}) = {}
  BY <1>1 DEF Inside
<1>3. Types
  BY DEF Init, Types, Idle, Steps
<1> QED  BY <1>2, <1>3, FS_EmptySet, CollectionAssumption
  DEF Init, CollectInv, WritersCounted, ChipsCounted, ReachedMarks, MarkLeadsToResult

LEMMA NextCollect ==
  ASSUME CollectInv, [Next]_vars
  PROVE  CollectInv'
<1> USE DEF CollectInv
<1>0. {"check", "store", "count", "mark", "leave", "last", "result"} \subseteq Steps
  BY DEF Steps
<1>1. CASE UNCHANGED vars
  <2>1. \A S : At(S)' = At(S)
    BY <1>1 DEF vars, At
  <2> QED  BY <1>1, <2>1
    DEF vars, Types, WritersCounted, ChipsCounted, ReachedMarks, MarkLeadsToResult
<1>2. CASE TryGetBlock
  <2>1. \A S : At(S)' = At(S)
    BY <1>2 DEF TryGetBlock, At
  <2> QED  BY <1>2, <2>1
    DEF TryGetBlock, Types, WritersCounted, ChipsCounted, ReachedMarks, MarkLeadsToResult
<1>3. ASSUME NEW t \in Threads, NEW i \in Indexes, Arrive(t, i)
      PROVE  CollectInv'
  <2> DEFINE step == IF datas = NoCollection THEN "create" ELSE "enter"
  <2>1. \/ thread' = thread
        \/ thread' = [thread EXCEPT ![t] = [at |-> step, chip |-> i]]
    <3>1. CASE datas # NoCollection /\ isReadOnly /\ writeCount = 0
      <4>1. thread' = [thread EXCEPT ![t] = thread[t]]
        BY <1>3, <3>1 DEF Arrive
      <4> QED  BY <4>1 DEF Types
    <3>2. CASE datas = NoCollection
      BY <1>3, <3>2 DEF Arrive
    <3>3. CASE datas # NoCollection /\ ~ (isReadOnly /\ writeCount = 0)
      BY <1>3, <3>3 DEF Arrive
    <3> QED  BY <3>1, <3>2, <3>3
  <2>2. step \in {"create", "enter"} /\ step \in Steps
    BY DEF Steps
  <2>3. thread[t].at = "idle"
    BY <1>3 DEF Arrive, Idle
  <2>4. ASSUME NEW S, S \cap {"idle", step} = {}
        PROVE  At(S)' = At(S)
    <3>1. CASE thread' = thread
      BY <3>1 DEF At
    <3>2. CASE thread' = [thread EXCEPT ![t] = [at |-> step, chip |-> i]]
      <4>1. step \notin S /\ thread[t].at \notin S
        BY <2>3, <2>4
      <4> QED  BY <2>2, <3>2, <4>1, Moves
    <3> QED  BY <2>1, <3>1, <3>2
  <2>5. Types'
    <3>1. arrived' \in [Indexes -> Nat]
      BY <1>3 DEF Arrive, Types
    <3>2. thread' \in [Threads -> [at : Steps, chip : Indexes \cup {0}]]
      BY <2>1, <2>2 DEF Types
    <3> QED  BY <1>3, <3>1, <3>2 DEF Arrive, Types
  <2>6. /\ At(Inside)' = At(Inside) /\ At({"count"})' = At({"count"})
        /\ At({"mark"})' = At({"mark"})
        /\ At({"last", "result"} \cup Inside)' = At({"last", "result"} \cup Inside)
        /\ datas = NoCollection => At(Inside \cup {"enter"})' = At(Inside \cup {"enter"})
    BY <2>2, <2>4 DEF Inside
  <2> HIDE DEF step
  <2> QED  BY <1>3, <2>5, <2>6
    DEF Arrive, WritersCounted, ChipsCounted, ReachedMarks, MarkLeadsToResult
<1>4. ASSUME NEW t \in Threads, Create(t)
      PROVE  CollectInv'
  <2>1. /\ Moved(t, "create", "idle")
        /\ thread' \in [Threads -> [at : Steps, chip : Indexes \cup {0}]]
    BY <1>4, EndMoves DEF Create
  <2>3. /\ At(Inside)' = At(Inside) /\ At({"count"})' = At({"count"})
        /\ At({"mark"})' = At({"mark"})
        /\ At({"last", "result"} \cup Inside)' = At({"last", "result"} \cup Inside)
        /\ At(Inside \cup {"enter"})' = At(Inside \cup {"enter"})
    BY <2>1 DEF Inside, Moved
  <2>4. thread[t].chip \in Indexes
    BY ChipHasIndex
  <2>5. Types'
    BY <1>4, <2>1, <2>4 DEF Create, Types
  <2>6. CASE datas = NoCollection
    <3>1. datas' = {thread[t].chip} /\ count' = 1 /\ datas' # NoCollection
      BY <1>4, <2>4, <2>6 DEF Create, NoCollection, Indexes
    <3>2. Cardinality(datas') = 1 /\ Cardinality(At({"count"})) \in Nat
      BY <3>1, FS_Singleton, AtFinite
    <3>3. WritersCounted'
      BY <1>4, <2>3, <3>1 DEF Create, WritersCounted
    <3>4. ChipsCounted'
      BY <2>3, <3>1, <3>2 DEF ChipsCounted
    <3>5. ReachedMarks'
      BY <3>1, CollectionAssumption DEF ReachedMarks
    <3>6. MarkLeadsToResult'
      BY <1>4, <2>3 DEF Create, MarkLeadsToResult
    <3> QED  BY <2>5, <3>3, <3>4, <3>5, <3>6
  <2>7. CASE datas # NoCollection
    BY <1>4, <2>3, <2>5, <2>7
      DEF Create, WritersCounted, ChipsCounted, ReachedMarks, MarkLeadsToResult
  <2> QED  BY <2>6, <2>7
<1>5. ASSUME NEW t \in Threads, Enter(t)
      PROVE  CollectInv'
  <2>1. /\ Moved(t, "enter", "check")
        /\ thread' \in [Threads -> [at : Steps, chip : Indexes \cup {0}]]
    BY <1>5, <1>0, GotoMoves DEF Enter
  <2>2. datas # NoCollection
    BY <1>5, InCollection DEF Enter
  <2>3. /\ Cardinality(At(Inside)') = Cardinality(At(Inside)) + 1
        /\ At({"count"})' = At({"count"}) /\ At({"mark"})' = At({"mark"})
        /\ At({"last", "result"} \cup Inside)' = At({"last", "result"} \cup Inside) \cup {t}
    BY <2>1 DEF Moved, Inside
  <2>4. Types'
    BY <1>5, <2>1 DEF Enter, Types
  <2> QED  BY <1>5, <2>2, <2>3, <2>4
    DEF Enter, WritersCounted, ChipsCounted, ReachedMarks, MarkLeadsToResult
<1>6. ASSUME NEW t \in Threads, Check(t)
      PROVE  CollectInv'
  <2> DEFINE step == IF thread[t].chip \in datas THEN "leave" ELSE "store"
  <2>1. step \in {"leave", "store"} /\ Goto(t, step) /\ thread[t].at = "check"
    BY <1>6 DEF Check
  <2> HIDE DEF step
  <2>2. datas # NoCollection
    BY <2>1, InCollection DEF Inside
  <2>5. /\ Moved(t, "check", step)
        /\ thread' \in [Threads -> [at : Steps, chip : Indexes \cup {0}]]
    BY <2>1, <1>0, GotoMoves
  <2>3. /\ At(Inside)' = At(Inside)
        /\ At({"count"})' = At({"count"}) /\ At({"mark"})' = At({"mark"})
        /\ At({"last", "result"} \cup Inside)' = At({"last", "result"} \cup Inside)
    <3>1. step \in Inside /\ step \notin {"count"} /\ step \notin {"mark"}
      BY <2>1 DEF Inside
    <3> QED  BY <2>5, <3>1 DEF Moved, Inside
  <2>4. Types'
    BY <1>6, <2>5 DEF Check, Types
  <2> QED  BY <1>6, <2>2, <2>3, <2>4
    DEF Check, WritersCounted, ChipsCounted, ReachedMarks, MarkLeadsToResult
<1>7. ASSUME NEW t \in Threads, Store(t)
      PROVE  CollectInv'
  <2>1. /\ Moved(t, "store", "count")
        /\ thread' \in [Threads -> [at : Steps, chip : Indexes \cup {0}]]
    BY <1>7, <1>0, GotoMoves DEF Store
  <2>2. datas # NoCollection /\ datas \subseteq Indexes /\ IsFiniteSet(datas)
    BY <1>7, InCollection DEF Store, Inside
  <2>3. /\ At(Inside)' = At(Inside)
        /\ Cardinality(At({"count"})') = Cardinality(At({"count"})) + 1
        /\ At({"mark"})' = At({"mark"})
        /\ At({"last", "result"} \cup Inside)' = At({"last", "result"} \cup Inside)
    BY <2>1 DEF Moved, Inside
  <2>4. thread[t].chip \in Indexes
    BY ChipHasIndex
  <2>5. datas' = datas \cup {thread[t].chip} /\ datas' # NoCollection
    BY <1>7, <2>4 DEF Store, NoCollection, Indexes
  <2>6. /\ Cardinality(datas) \in Nat
        /\ Cardinality(datas') <= Cardinality(datas) + 1
    <3> DEFINE c == thread[t].chip
    <3>1. datas' = datas \cup {c}
      BY <2>5
    <3> HIDE DEF c
    <3>2. \/ Cardinality(datas \cup {c}) = Cardinality(datas)
          \/ Cardinality(datas \cup {c}) = Cardinality(datas) + 1
      BY <2>2, FS_AddElement
    <3>3. Cardinality(datas) \in Nat
      BY <2>2, FS_CardinalityType
    <3> QED  BY <3>1, <3>2, <3>3
  <2>7. Types'
    BY <1>7, <2>1, <2>2, <2>4, <2>5 DEF Store, Types
  <2>8. Cardinality(At({"count"})) \in Nat /\ Cardinality(datas') \in Nat
    BY <2>2, <2>5, AtFinite, FS_AddElement, FS_CardinalityType
  <2>9. ChipsCounted'
    <3>1. Cardinality(datas) <= count + Cardinality(At({"count"}))
      BY <2>2 DEF ChipsCounted
    <3>2. Cardinality(datas') <= count + (Cardinality(At({"count"})) + 1)
      BY <2>6, <2>8, <3>1 DEF Types
    <3> QED  BY <1>7, <2>3, <3>2 DEF ChipsCounted, Store
  <2> QED  BY <1>7, <2>3, <2>5, <2>7, <2>9
    DEF Store, WritersCounted, ReachedMarks, MarkLeadsToResult
<1>8. ASSUME NEW t \in Threads, Count(t)
      PROVE  CollectInv'
  <2> DEFINE step == IF Reached(count) THEN "mark" ELSE "leave"
  <2>1. /\ thread[t].at = "count" /\ step \in {"leave", "mark"} /\ Goto(t, step)
        /\ count' = count + 1
        /\ count + 1 = RestoreCount => step = "mark"
    BY <1>8 DEF Count, Reached
  <2> HIDE DEF step
  <2>2. datas # NoCollection
    BY <2>1, InCollection DEF Inside
  <2>3. /\ Moved(t, "count", step)
        /\ thread' \in [Threads -> [at : Steps, chip : Indexes \cup {0}]]
    BY <2>1, <1>0, GotoMoves
  <2>4. step \in Inside /\ step \notin {"count"}
    BY <2>1 DEF Inside
  <2>5. /\ At(Inside)' = At(Inside)
        /\ Cardinality(At({"count"})') = Cardinality(At({"count"})) - 1
        /\ At({"last", "result"} \cup Inside)' = At({"last", "result"} \cup Inside)
    BY <2>3, <2>4 DEF Moved, Inside
  <2>6. /\ step = "mark" => At({"mark"})' # {}
        /\ At({"mark"}) # {} => At({"mark"})' # {}
    BY <2>3 DEF Moved
  <2>7. Types'
    BY <1>8, <2>1, <2>3 DEF Count, Types
  <2>8. ChipsCounted'
    <3>1. Cardinality(datas) <= count + Cardinality(At({"count"}))
      BY <2>2 DEF ChipsCounted
    <3>2. Cardinality(datas) <= (count + 1) + (Cardinality(At({"count"})) - 1)
      BY <3>1, AtFinite DEF Types
    <3> QED  BY <1>8, <2>1, <2>5, <3>2 DEF ChipsCounted, Count
  <2>9. ReachedMarks'
    <3>1. CASE count >= RestoreCount
      BY <1>8, <2>6, <3>1 DEF Count, ReachedMarks
    <3>2. CASE ~ (count >= RestoreCount)
      BY <2>1, <2>6, <3>2, CollectionAssumption DEF ReachedMarks, Types
    <3> QED  BY <3>1, <3>2
  <2> QED  BY <1>8, <2>2, <2>5, <2>7, <2>8, <2>9
    DEF Count, WritersCounted, MarkLeadsToResult
<1>9. ASSUME NEW t \in Threads, Mark(t)
      PROVE  CollectInv'
  <2>1. thread[t].at = "mark" /\ Goto(t, "leave")
    BY <1>9 DEF Mark
  <2>2. /\ Moved(t, "mark", "leave")
        /\ thread' \in [Threads -> [at : Steps, chip : Indexes \cup {0}]]
    BY <2>1, <1>0, GotoMoves
  <2>3. /\ At(Inside)' = At(Inside) /\ At({"count"})' = At({"count"})
        /\ At({"last", "result"} \cup Inside)' = At({"last", "result"} \cup Inside)
    BY <2>2 DEF Moved, Inside
  <2>4. datas # NoCollection /\ At({"last", "result"} \cup Inside) # {}
    BY <2>1, InCollection DEF At, Inside
  <2>5. Types'
    BY <1>9, <2>2 DEF Mark, Types
  <2> QED  BY <1>9, <2>3, <2>4, <2>5
    DEF Mark, WritersCounted, ChipsCounted, ReachedMarks, MarkLeadsToResult
<1>10. ASSUME NEW t \in Threads, Leave(t)
       PROVE  CollectInv'
  <2>1. thread[t].at = "leave" /\ datas # NoCollection
    BY <1>10, InCollection DEF Leave, Inside
  <2>2. Cardinality(At(Inside)) \in Nat \ {0}
    <3>1. At(Inside) # {}
      BY <2>1 DEF At, Inside
    <3> QED  BY <3>1, AtFinite, FS_EmptySet
  <2>3. ASSUME NEW step \in {"idle", "last"}, Moved(t, "leave", step),
               thread' \in [Threads -> [at : Steps, chip : Indexes \cup {0}]],
               writeCount' = 0 => step = "last"
        PROVE  CollectInv'
    <3>1. step \notin Inside
      BY DEF Inside
    <3>2. /\ Cardinality(At(Inside)') = Cardinality(At(Inside)) - 1
          /\ At({"count"})' = At({"count"}) /\ At({"mark"})' = At({"mark"})
      BY <3>1, <2>3 DEF Moved, Inside
    <3>3. writeCount' = Cardinality(At(Inside)') /\ writeCount' \in Nat
      BY <1>10, <2>2, <3>2 DEF Leave, WritersCounted
    <3>4. At({"last", "result"} \cup Inside)' # {}
      <4>1. CASE step = "last"
        <5>1. At({"last", "result"} \cup Inside)' = At({"last", "result"} \cup Inside)
          BY <2>3, <4>1 DEF Moved, Inside
        <5> QED  BY <2>1, <5>1 DEF At, Inside
      <4>2. CASE writeCount' # 0
        <5>1. At(Inside)' # {}
          BY <3>3, <4>2, FS_EmptySet
        <5> QED  BY <5>1 DEF At
      <4> QED  BY <2>3, <4>1, <4>2
    <3>5. Types'
      BY <1>10, <2>3, <3>3 DEF Leave, Types
    <3> QED  BY <1>10, <2>1, <3>2, <3>3, <3>4, <3>5
      DEF Leave, WritersCounted, ChipsCounted, ReachedMarks, MarkLeadsToResult
  <2>4. CASE writeCount' = 0
    BY <1>10, <2>1, <2>3, <2>4, <1>0, GotoMoves DEF Leave
  <2>5. CASE writeCount' # 0
    BY <1>10, <2>1, <2>3, <2>5, EndMoves DEF Leave
  <2> QED  BY <2>4, <2>5
<1>11. ASSUME NEW t \in Threads, Close(t)
       PROVE  CollectInv'
  <2>1. thread[t].at = "last"
    BY <1>11 DEF Close
  <2>2. ASSUME NEW step \in {"idle", "result"}, Moved(t, "last", step),
               thread' \in [Threads -> [at : Steps, chip : Indexes \cup {0}]],
               CanRestore => step = "result"
        PROVE  CollectInv'
    <3>1. step \notin Inside \cup {"enter"} /\ step \notin {"count"} /\ step \notin {"mark"}
      BY DEF Inside
    <3>2. /\ At(Inside)' = At(Inside) /\ At(Inside \cup {"enter"})' = At(Inside \cup {"enter"})
          /\ At({"count"})' = At({"count"}) /\ At({"mark"})' = At({"mark"})
      BY <3>1, <2>2 DEF Moved, Inside
    <3>3. CanRestore => At({"last", "result"} \cup Inside)' # {}
      <4>1. CanRestore => At({"last", "result"} \cup Inside)' = At({"last", "result"} \cup Inside)
        BY <2>2 DEF Moved
      <4> QED  BY <2>1, <4>1 DEF At
    <3>4. Types'
      BY <1>11, <2>2 DEF Close, Types
    <3> QED  BY <1>11, <3>2, <3>3, <3>4
      DEF Close, WritersCounted, ChipsCounted, ReachedMarks, MarkLeadsToResult
  <2>3. CASE CanRestore
    BY <1>11, <2>1, <2>2, <2>3, <1>0, GotoMoves DEF Close
  <2>4. CASE ~ CanRestore
    BY <1>11, <2>1, <2>2, <2>4, EndMoves DEF Close
  <2> QED  BY <2>3, <2>4
<1>12. ASSUME NEW t \in Threads, Result(t)
       PROVE  CollectInv'
  <2>2. /\ Moved(t, "result", "idle")
        /\ thread' \in [Threads -> [at : Steps, chip : Indexes \cup {0}]]
    BY <1>12, EndMoves DEF Result
  <2>3. /\ At(Inside)' = At(Inside) /\ At(Inside \cup {"enter"})' = At(Inside \cup {"enter"})
        /\ At({"count"})' = At({"count"}) /\ At({"mark"})' = At({"mark"})
    BY <2>2 DEF Moved, Inside
  <2>4. Types'
    BY <1>12, <2>2 DEF Result, Types
  <2> QED  BY <1>12, <2>3, <2>4
    DEF Result, WritersCounted, ChipsCounted, ReachedMarks, MarkLeadsToResult
<1> QED
  BY <1>1, <1>2, <1>3, <1>4, <1>5, <1>6, <1>7, <1>8, <1>9, <1>10, <1>11, <1>12 DEF Next

(******************************************************************************)
(* The theorem                                                                *)
(******************************************************************************)
\* Enough chips set the result, for any number of chips and threads: the
\* increments of count and writeCount are atomic, the reads and writes of
\* datas, CanRestore and isReadOnly between them are not.
THEOREM CollectedCorrect == Spec => []Collected
<1>1. CollectInv => Collected
  <2> SUFFICES ASSUME CollectInv, \A t \in Threads : thread[t] = Idle,
                      Cardinality(datas) >= RestoreCount, RestoreCount > 1
               PROVE  completed
    BY DEF Collected
  <2>1. \A S : "idle" \notin S => At(S) = {}
    BY DEF At, Idle
  <2>2. At({"count"}) = {} /\ At({"mark"}) = {} /\ At({"last", "result"} \cup Inside) = {}
    BY <2>1 DEF Inside
  <2>3. datas # NoCollection
    BY FS_Singleton, CollectionAssumption DEF NoCollection
  <2>4. Cardinality(datas) <= count
    <3>1. Cardinality(datas) <= count + Cardinality(At({"count"}))
      BY <2>3 DEF CollectInv, ChipsCounted
    <3> QED  BY <2>2, <3>1, FS_EmptySet DEF CollectInv, Types
  <2>5. count >= RestoreCount
    <3>1. IsFiniteSet(datas)
      <4>1. datas \subseteq Indexes
        BY <2>3 DEF CollectInv, Types
      <4>2. IsFiniteSet(Indexes)
        BY CollectionAssumption, FS_Interval DEF Indexes
      <4> QED  BY <4>1, <4>2, FS_Subset
    <3> QED  BY <2>4, <3>1, FS_CardinalityType, CollectionAssumption DEF CollectInv, Types
  <2> QED  BY <2>2, <2>5 DEF CollectInv, ReachedMarks, MarkLeadsToResult
<1> QED  BY <1>1, InitCollect, NextCollect, PTL DEF Spec
===============================================================================
