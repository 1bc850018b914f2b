--------------------------- MODULE KeyValueStore ---------------------------
(***************************************************************************)
(* What users of LevelDB rely on: batches are applied one after another    *)
(* and as a whole, a reader sees the last write of each key, and a failure *)
(* loses no batch whose synchronous write was acknowledged.  It may lose   *)
(* others, and bring to light a batch that was never acknowledged.         *)
(*                                                                         *)
(* A batch has the fields seq, ops and sync; its i-th operation has number seq + i - 1, *)
(* which also stands for the value a put writes.                           *)
(***************************************************************************)
EXTENDS Naturals, Sequences, FiniteSets, SequencesExt, Orders

CONSTANTS Keys, Batches

VARIABLES
  history,    \* the acknowledged batches
  unacked,    \* batches begun, or ended with an error
  contents    \* what is read of each key: the set of the number of its put,
              \* empty when there is none; <<>> while the store is down

vars == <<history, unacked, contents>>

Apply(c, b) ==
  [k \in Keys |->
     LET mine == {i \in DOMAIN b.ops : b.ops[i].key = k}
         last == CHOOSE i \in mine : \A j \in mine : j <= i
     IN  IF mine = {} THEN c[k]
         ELSE IF b.ops[last].put THEN {b.seq + last - 1} ELSE {}]

Down == <<>>
Empty == [k \in Keys |-> {}]
Contents(h) ==
  LET after[n \in 0..Len(h)] == IF n = 0 THEN Empty ELSE Apply(after[n - 1], h[n])
  IN  after[Len(h)]

\* What was never acknowledged may survive, but is not promised to.
Unpromised(bs) == [i \in DOMAIN bs |-> [bs[i] EXCEPT !.sync = FALSE]]

Init == history = <<>> /\ unacked = <<>> /\ contents = Down

Open ==
  /\ contents = Down
  /\ contents' = Contents(history)
  /\ UNCHANGED <<history, unacked>>

Begin ==
  /\ contents # Down
  /\ Len(unacked') = Len(unacked) + 1
  /\ IsPrefix(unacked, unacked')
  /\ Last(unacked').ops \in Batches
  /\ UNCHANGED <<history, contents>>

Acknowledge ==
  /\ unacked # <<>>
  /\ unacked' = Front(unacked)
  /\ history' = Append(history, Last(unacked))
  /\ contents' = Apply(contents, Last(unacked))

\* A crash, or the end of the process: what is left is in the old order, with
\* all that was synchronised.
Fail ==
  /\ unacked' = <<>>
  /\ contents' = Down
  /\ LET S == Range(history')
     IN  /\ \A b \in Range(history) : b.sync => b \in S
         /\ history' = Only(history \o Unpromised(unacked), S)

Next == Open \/ Begin \/ Acknowledge \/ Fail

Spec == Init /\ [][Next]_vars
============================================================================
