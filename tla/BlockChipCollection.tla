-------------------------- MODULE BlockChipCollection --------------------------
(* The chips of a block that reach a producer on several connections, and the *)
(* collection they are added to (BlockChipCollection.cs, BlockChipArrived of  *)
(* ProducerSystem.cs).                                                        *)
(*                                                                            *)
(* The chips of one block are well signed and agree in everything but their   *)
(* index; a thread is a connection on which one arrives after the other, and  *)
(* no chip arrives more than Arrivals times.                                  *)
EXTENDS Integers, FiniteSets

CONSTANTS TotalCount, RestoreCount, Threads,
  Arrivals,    \* bound: how often a chip arrives
  Outcomes(_)  \* what Restore may make of the chips in the collection
ASSUME CollectionAssumption ==
  /\ RestoreCount \in Nat \ {0} /\ TotalCount \in Nat /\ TotalCount >= RestoreCount
  /\ Arrivals \in Nat /\ IsFiniteSet(Threads)

VARIABLES
  datas,       \* the indexes of the chips in the collection, or NoCollection
  count, writeCount, isReadOnly, CanRestore,
  completed,   \* the result of restoreTaskSource is set
  restored,    \* what Restore makes of it, or Unset
  arrived,     \* how often each chip has arrived
  thread       \* the step a thread is at and the chip it carries

vars == <<datas, count, writeCount, isReadOnly, CanRestore, completed, restored, arrived, thread>>

Indexes == 0 .. TotalCount - 1
NoCollection == {-1}
Unset == <<-1>>
Idle == [at |-> "idle", chip |-> 0]

Init ==
  /\ datas = NoCollection /\ count = 0 /\ writeCount = 0
  /\ isReadOnly = FALSE /\ CanRestore = FALSE /\ completed = FALSE /\ restored = Unset
  /\ arrived = [i \in Indexes |-> 0]
  /\ thread = [t \in Threads |-> Idle]

Goto(t, step) == thread' = [thread EXCEPT ![t].at = step]
End(t) == thread' = [thread EXCEPT ![t] = Idle]

\* BlockChipArrived finds the collection, or not; Add may find it complete.
\* What arrives after TryGetBlock took it out begins another collection.
Arrive(t, i) ==
  /\ restored = Unset /\ thread[t] = Idle /\ arrived[i] < Arrivals
  /\ arrived' = [arrived EXCEPT ![i] = @ + 1]
  /\ thread' = [thread EXCEPT ![t] =
       IF datas = NoCollection THEN [at |-> "create", chip |-> i]
       ELSE IF isReadOnly /\ writeCount = 0 THEN Idle ELSE [at |-> "enter", chip |-> i]]
  /\ UNCHANGED <<datas, count, writeCount, isReadOnly, CanRestore, completed, restored>>

\* The dictionary keeps the first collection; the chip of another is lost with it.
Create(t) ==
  /\ thread[t].at = "create"
  /\ IF datas = NoCollection THEN datas' = {thread[t].chip} /\ count' = 1
     ELSE UNCHANGED <<datas, count>>
  /\ End(t)
  /\ UNCHANGED <<writeCount, isReadOnly, CanRestore, completed, restored, arrived>>

Enter(t) ==
  /\ thread[t].at = "enter"
  /\ writeCount' = writeCount + 1
  /\ Goto(t, "check")
  /\ UNCHANGED <<datas, count, isReadOnly, CanRestore, completed, restored, arrived>>

\* A chip that is there already ends in an exception, after the finally.
Check(t) ==
  /\ thread[t].at = "check"
  /\ Goto(t, IF thread[t].chip \in datas THEN "leave" ELSE "store")
  /\ UNCHANGED <<datas, count, writeCount, isReadOnly, CanRestore, completed, restored, arrived>>

Store(t) ==
  /\ thread[t].at = "store"
  /\ datas' = datas \cup {thread[t].chip}
  /\ Goto(t, "count")
  /\ UNCHANGED <<count, writeCount, isReadOnly, CanRestore, completed, restored, arrived>>

\* Mutant: compared before the increment.
ReachedBefore(n) == n = RestoreCount

Reached(n) == n + 1 = RestoreCount
Count(t) ==
  /\ thread[t].at = "count"
  /\ count' = count + 1
  /\ Goto(t, IF Reached(count) THEN "mark" ELSE "leave")
  /\ UNCHANGED <<datas, writeCount, isReadOnly, CanRestore, completed, restored, arrived>>

Mark(t) ==
  /\ thread[t].at = "mark"
  /\ CanRestore' = TRUE
  /\ Goto(t, "leave")
  /\ UNCHANGED <<datas, count, writeCount, isReadOnly, completed, restored, arrived>>

Leave(t) ==
  /\ thread[t].at = "leave"
  /\ writeCount' = writeCount - 1
  /\ IF writeCount' = 0 THEN Goto(t, "last") ELSE End(t)
  /\ UNCHANGED <<datas, count, isReadOnly, CanRestore, completed, restored, arrived>>

\* The last to leave closes a collection that can be restored.
Close(t) ==
  /\ thread[t].at = "last"
  /\ isReadOnly' = (isReadOnly \/ CanRestore)
  /\ IF CanRestore THEN Goto(t, "result") ELSE End(t)
  /\ UNCHANGED <<datas, count, writeCount, CanRestore, completed, restored, arrived>>

Result(t) ==
  /\ thread[t].at = "result"
  /\ completed' = TRUE
  /\ End(t)
  /\ UNCHANGED <<datas, count, writeCount, isReadOnly, CanRestore, restored, arrived>>

\* The loop waits for the task, restores the block from a copy of datas and
\* takes the collection out, whatever came of it.
TryGetBlock ==
  /\ completed /\ restored = Unset
  /\ restored' \in Outcomes(datas)
  /\ UNCHANGED <<datas, count, writeCount, isReadOnly, CanRestore, completed, arrived, thread>>

Next ==
  \/ TryGetBlock
  \/ \E t \in Threads :
       \/ \E i \in Indexes : Arrive(t, i)
       \/ Create(t) \/ Enter(t) \/ Check(t) \/ Store(t) \/ Count(t)
       \/ Mark(t) \/ Leave(t) \/ Close(t) \/ Result(t)
Spec == Init /\ [][Next]_vars

(******************************************************************************)
(* Properties                                                                 *)
(******************************************************************************)
\* Whichever thread stores the last chip that was needed and whichever leaves
\* last, somebody sets the result: with no thread in Add and enough chips (but
\* for a single one, which no call of Add follows) it is set
\* (BlockChipCollection.cs 47-70).
Collected ==
  (\A t \in Threads : thread[t] = Idle) /\ Cardinality(datas) >= RestoreCount /\ RestoreCount > 1
    => completed
================================================================================
