------------------------------- MODULE Cursor -------------------------------
(***************************************************************************)
(* What an iterator of LevelDB promises (include/leveldb/iterator.h): it   *)
(* is nowhere or at one item of a sorted sequence that does not change.    *)
(***************************************************************************)
EXTENDS Naturals, Sequences

CONSTANTS Targets, NotBefore(_, _)   \* keys sought; NotBefore(item, target)

VARIABLES items, at    \* at = 0: not valid

Place(i) == IF i \in DOMAIN items THEN i ELSE 0

\* Where each operation leads.
ToFirst == Place(1)
ToLast == Len(items)
To(t) ==
  LET S == {i \in DOMAIN items : NotBefore(items[i], t)}
  IN  IF S = {} THEN 0 ELSE CHOOSE i \in S : \A j \in S : i <= j
ToNext == Place(at + 1)
ToPrev == Place(at - 1)

Init == at = 0
Next ==
  /\ \/ at' \in {ToFirst, ToLast} \cup {To(t) : t \in Targets}
     \/ at # 0 /\ at' \in {ToNext, ToPrev}
  /\ UNCHANGED items
Spec == Init /\ [][Next]_<<items, at>>
=============================================================================
