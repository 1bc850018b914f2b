-------------------------------- MODULE MCCore ---------------------------------
(* Two parts of OnlyChain.Core that keep no state in common, one of them in   *)
(* each behaviour: the turns of the producers and the trees of the world      *)
(* state.                                                                     *)
EXTENDS Election

CONSTANT Absent
VARIABLES part, heap, trees

treeVars == <<heap, trees>>

\* Three of five nodes are producers. The lists agree in some of them by twos and
\* in none all together.
MCRankings == {<<1, 2, 3, 4, 5>>, <<3, 1, 4, 5, 2>>, <<4, 5, 2, 1, 3>>}
MCFirst == [i \in 1 .. Cardinality(Node) |-> i]

\* Keys of three digits: three of them meet in a map below a path, two part at the
\* last digit, and paths of one to three digits are split and joined. One has two
\* values.
TreeKeys == {<<0, 0, 0>>, <<0, 1, 0>>, <<0, 1, 1>>, <<0, 2, 0>>}
Tree == INSTANCE MerklePatriciaTree WITH
  Digit <- {0, 1, 2}, Key <- TreeKeys, Value <- {"x", "y"},
  Item <- TreeKeys \X {"x"} \cup {<<<<0, 1, 0>>, "y">>},
  MaxTrees <- 2, None <- Absent

MCInit == part \in {"turns", "tree"} /\ Init /\ Tree!Init /\ (part = "tree" => tally = First)
MCNext ==
  \/ part = "turns" /\ Next /\ UNCHANGED <<part, treeVars>>
  \/ part = "tree" /\ Tree!Next /\ UNCHANGED <<part, vars>>
MCSpec == MCInit /\ [][MCNext]_<<part, vars, treeVars>>

ContentsDecide == part = "tree" => Tree!ContentsDecide
MapsDictionary == Tree!MapsDictionary
================================================================================
