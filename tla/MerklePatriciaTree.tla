-------------------------- MODULE MerklePatriciaTree --------------------------
(* Core/MerklePatriciaTree.cs: a radix tree over the half bytes of the keys    *)
(* whose nodes carry hashes. A tree whose hash was computed is read-only;      *)
(* NextNew makes a tree of the next generation that shares all of its nodes.   *)
(* A node of the tree's own generation is changed in place, a node of an older *)
(* generation is replaced by a copy. The nodes are objects in a heap, since    *)
(* sharing them is what can go wrong.                                          *)
EXTENDS Naturals, Sequences, FiniteSets, SequencesExt

CONSTANTS
  Digit,      \* the half bytes that occur in keys, numbers
  Key,        \* sequences of digits, all of the same length and not empty
  Value,
  Item,       \* bound: the keys and values that may be added together
  MaxTrees,   \* bound: trees made by NextNew, the first one included
  None        \* no node, no value

VARIABLES
  heap,    \* the nodes that some tree reaches
  trees    \* the MerklePatriciaTree objects, each with its EmptyNode

vars == <<heap, trees>>

(* Nodes. A node is named by the tree that created it and by the digits that   *)
(* lead to it, which never change while it lives: a tree has at most one node  *)
(* at a position. "kids" maps labels to nodes: the path of a LongPathNode, the *)
(* single digits of a BinaryBranchNode and of a PrefixMapNode.                 *)
Ref  == (1 .. MaxTrees) \X UNION {{SubSeq(k, 1, i) : i \in 0 .. Len(k)} : k \in Key}
Kind == {"value", "path", "pair", "map"}

\* Hashes are ideal. ComputeHash(key, value) of a value, ComputeHash(hashes) of an inner node.
HashValue(k, v) == <<"value", k, v>>
HashNodes(hs)   == <<"nodes", hs>>
Uncomputed      == <<>>
HashEmpty       == HashNodes(<<>>)

NewNode(gen, kind, value, kids) ==
  [gen |-> gen, kind |-> kind, value |-> value, kids |-> kids, hash |-> Uncomputed]

Drop(f, x) == [z \in DOMAIN f \ {x} |-> f[z]]

(* The operations return the changed heap, the node to be used from now on and *)
(* the flags Result and Update of AddArgs and RemoveArgs. "a" holds the        *)
(* arguments: the tree, its generation, the key, the value and what is asked.  *)
Outcome(h, r, result, update) == [heap |-> h, ref |-> r, result |-> result, update |-> update]

Create(h, a, pos, kind, value, kids) ==
  Outcome((<<a.tree, pos>> :> NewNode(a.gen, kind, value, kids)) @@ h, <<a.tree, pos>>, TRUE, FALSE)

\* CreateLongPathNode: no node for an empty path.
LongPath(h, a, pos, path, child) ==
  IF path = <<>> THEN Outcome(h, child, TRUE, FALSE)
  ELSE Create(h, a, pos, "path", None, path :> child)

Rest(a, pos) == SubSeq(a.key, Len(pos) + 1, Len(a.key))

\* A new value and the path that leads to it.
Leaf(h, a, pos) ==
  LET leaf == Create(h, a, a.key, "value", a.value, <<>>)
  IN  LongPath(leaf.heap, a, pos, Rest(a, pos), leaf.ref)

\* Stores a child that Add or Remove returned: in place or in a copy.
SetKidInPlace(a, r, label, out) ==
  [out EXCEPT !.heap[r].kids = (label :> out.ref) @@ @, !.ref = r]
SetKid(a, r, label, out) ==
  LET n == out.heap[r] IN
    IF n.gen = a.gen
    THEN [out EXCEPT !.heap[r].kids = (label :> out.ref) @@ n.kids, !.ref = r]
    ELSE IF label \in DOMAIN n.kids /\ n.kids[label] = out.ref THEN [out EXCEPT !.ref = r]
    ELSE LET copy == Create(out.heap, a, r[2], n.kind, n.value, (label :> out.ref) @@ n.kids)
         IN  [out EXCEPT !.heap = copy.heap, !.ref = copy.ref]

\* The label that the rest of the key starts with.
Match(n, rest) == {label \in DOMAIN n.kids : IsPrefix(label, rest)}

\* What is left of a path behind the digit after its first n.
Behind(path, n) == SubSeq(path, n + 2, Len(path))

\* LongPathNode.Add where the key leaves the path.
Split(h, a, r, label) ==
  LET pos    == r[2]
      common == LongestCommonPrefix({label, Rest(a, pos)})
      fork   == pos \o common
      Side(s) == fork \o <<s[Len(common) + 1]>>
      old  == LongPath(h, a, Side(label), Behind(label, Len(common)), h[r].kids[label])
      new  == Leaf(old.heap, a, Side(Rest(a, pos)))
      pair == Create(new.heap, a, fork, "pair", None,
                     <<label[Len(common) + 1]>> :> old.ref
                     @@ <<Rest(a, pos)[Len(common) + 1]>> :> new.ref)
  IN  LongPath(pair.heap, a, pos, common, pair.ref)

\* BinaryBranchNode.Add of a third digit: a map of this generation; PrefixMapNode.Add: one more child.
Widen(h, a, r) ==
  LET digit == <<Head(Rest(a, r[2]))>>
      leaf  == Leaf(h, a, r[2] \o digit)
  IN  IF h[r].kind = "pair"
      THEN Create(leaf.heap, a, r[2], "map", None, (digit :> leaf.ref) @@ h[r].kids)
      ELSE SetKid(a, r, digit, leaf)

\* Add of a node: a value is replaced if Update is set, a path is split where the key leaves it,
\* a node without a child for the next digit gets one.
RECURSIVE AddNode(_, _, _)
AddNode(h, a, r) ==
  LET n == h[r]  match == Match(n, Rest(a, r[2])) IN
    CASE n.kind = "value" /\ ~a.update -> Outcome(h, r, FALSE, FALSE)
      [] n.kind = "value" /\ a.update ->
           IF n.gen = a.gen THEN Outcome([h EXCEPT ![r].value = a.value], r, TRUE, TRUE)
           ELSE [Create(h, a, r[2], "value", a.value, <<>>) EXCEPT !.update = TRUE]
      [] match # {} ->
           LET label == CHOOSE l \in match : TRUE
               out   == AddNode(h, a, n.kids[label])
           IN  IF out.result THEN SetKid(a, r, label, out) ELSE [out EXCEPT !.ref = r]
      [] n.kind = "path" /\ match = {} -> Split(h, a, r, CHOOSE l \in DOMAIN n.kids : TRUE)
      [] OTHER -> Widen(h, a, r)

\* PrefixConcat: the path of length one is joined with the path below it.
Concat(h, a, pos, digit, child) ==
  IF h[child].kind # "path" THEN LongPath(h, a, pos, digit, child)
  ELSE LET label == CHOOSE l \in DOMAIN h[child].kids : TRUE
       IN  LongPath(h, a, pos, digit \o label, h[child].kids[label])

\* The child under the digit is gone. A map counts its children while it still has the one
\* being removed, and if that is the only one, puts it under a path.
Shrink(h, a, r, digit) ==
  LET n == h[r]
      last == CHOOSE d \in DOMAIN n.kids : \A e \in DOMAIN n.kids : e[1] <= d[1]
  IN  CASE n.kind = "path" -> Outcome(h, None, TRUE, FALSE)
        [] n.kind = "pair" ->
             LET other == CHOOSE d \in DOMAIN n.kids : d # digit
             IN  Concat(h, a, r[2], other, n.kids[other])
        [] n.kind = "map" /\ Cardinality(DOMAIN n.kids) >= 2 ->
             IF n.gen = a.gen THEN Outcome([h EXCEPT ![r].kids = Drop(@, digit)], r, TRUE, FALSE)
             ELSE Create(h, a, r[2], "map", None, Drop(n.kids, digit))
        [] OTHER -> Concat(h, a, r[2], last, n.kids[last])

\* Remove of a node. A child that comes back without Result set has not changed.
RECURSIVE RemoveNode(_, _, _)
RemoveNode(h, a, r) ==
  LET n == h[r]  match == Match(n, Rest(a, r[2])) IN
    CASE n.kind = "value" ->
           IF a.item \notin {None, n.value} THEN Outcome(h, r, FALSE, FALSE)
           ELSE Outcome(h, None, TRUE, FALSE)
      [] n.kind # "value" /\ match = {} -> Outcome(h, r, FALSE, FALSE)
      [] OTHER ->
           LET label == CHOOSE l \in match : TRUE
               out   == RemoveNode(h, a, n.kids[label])
           IN  CASE ~out.result -> [out EXCEPT !.ref = r]
                 [] out.result /\ out.ref # None -> SetKid(a, r, label, out)
                 [] OTHER -> Shrink(out.heap, a, r, label)

\* TryGetValue below a node.
RECURSIVE FindValue(_, _, _)
FindValue(h, r, k) ==
  LET n == h[r]  match == Match(n, SubSeq(k, Len(r[2]) + 1, Len(k))) IN
    CASE n.kind = "value" -> n.value
      [] n.kind # "value" /\ match = {} -> None
      [] OTHER -> FindValue(h, n.kids[CHOOSE l \in match : TRUE], k)

\* A long path passes the hash of its child on.
InnerHashAlways(kind, hs) == HashNodes(hs)
InnerHash(kind, hs) == IF kind = "path" THEN hs[1] ELSE HashNodes(hs)

\* ComputeHash of a node: children of older generations keep the hash they have.
RECURSIVE HashOf(_, _, _)
HashOf(h, gen, r) ==
  LET n      == h[r]
      labels == SetToSortSeq(DOMAIN n.kids, LAMBDA l, m : l[1] < m[1])
      Kid(i) == LET kid == n.kids[labels[i]]
                IN  IF h[kid].gen = gen THEN HashOf(h, gen, kid) ELSE h[kid].hash
  IN  IF n.kind = "value" THEN HashValue(r[2], n.value)
      ELSE InnerHash(n.kind, [i \in DOMAIN labels |-> Kid(i)])

\* The nodes whose hashes ComputeHash stores.
RECURSIVE OwnNodes(_, _, _)
OwnNodes(h, gen, r) ==
  IF r = None THEN {}
  ELSE IF h[r].gen # gen THEN {}
  ELSE {r} \cup UNION {OwnNodes(h, gen, h[r].kids[l]) : l \in DOMAIN h[r].kids}

\* The node and those below it, as Enumerate visits them.
RECURSIVE Reachable(_, _)
Reachable(h, r) ==
  IF r = None THEN {} ELSE {r} \cup UNION {Reachable(h, h[r].kids[l]) : l \in DOMAIN h[r].kids}

\* Nodes that no tree reaches any more are gone.
Collect(h, ts) == [r \in UNION {Reachable(h, ts[t].child) : t \in DOMAIN ts} |-> h[r]]

Tree(gen, child, count) ==
  [gen |-> gen, child |-> child, hash |-> Uncomputed, count |-> count, readOnly |-> FALSE]

-----------------------------------------------------------------------------
Init ==
  /\ heap = <<>>
  /\ trees = <<Tree(0, None, 0)>>

Change(t, h, child, count) ==
  /\ trees' = [trees EXCEPT ![t].child = child, ![t].count = count]
  /\ heap' = Collect(h, trees')

AddOrUpdate(t, k, v, update) ==
  LET a   == [tree |-> t, gen |-> trees[t].gen, key |-> k, value |-> v, update |-> update]
      out == IF trees[t].child = None THEN Leaf(heap, a, <<>>)
             ELSE AddNode(heap, a, trees[t].child)
  IN  /\ ~trees[t].readOnly
      /\ Change(t, out.heap, out.ref,
                IF out.result /\ ~out.update THEN trees[t].count + 1 ELSE trees[t].count)

\* The three Remove methods; only the one with an item compares the value.
RemoveKey(t, k, item) ==
  LET a   == [tree |-> t, gen |-> trees[t].gen, key |-> k, item |-> item]
      out == IF trees[t].child = None THEN Outcome(heap, None, FALSE, FALSE)
             ELSE RemoveNode(heap, a, trees[t].child)
  IN  /\ ~trees[t].readOnly /\ trees[t].count # 0
      /\ Change(t, out.heap, out.ref, IF out.result THEN trees[t].count - 1 ELSE trees[t].count)

Clear(t) ==
  /\ ~trees[t].readOnly /\ trees[t].count # 0
  /\ Change(t, heap, None, 0)

NextNew(t) ==
  /\ trees[t].readOnly /\ Len(trees) < MaxTrees
  /\ trees' = Append(trees, Tree(trees[t].gen + 1, trees[t].child, trees[t].count))
  /\ UNCHANGED heap

ComputeHash(t) ==
  LET child == trees[t].child
      gen   == trees[t].gen
      own   == OwnNodes(heap, gen, child)
  IN  /\ ~trees[t].readOnly
      /\ heap' = [r \in DOMAIN heap |->
                    IF r \in own THEN [heap[r] EXCEPT !.hash = HashOf(heap, gen, r)] ELSE heap[r]]
      /\ trees' = [trees EXCEPT ![t].readOnly = TRUE,
                                ![t].hash = IF child = None THEN HashEmpty ELSE heap'[child].hash]

Next ==
  \E t \in DOMAIN trees :
    \/ \E item \in Item, update \in BOOLEAN : AddOrUpdate(t, item[1], item[2], update)
    \/ \E k \in Key, item \in Value \cup {None} : RemoveKey(t, k, item)
    \/ Clear(t)
    \/ NextNew(t)
    \/ ComputeHash(t)

Spec == Init /\ [][Next]_vars

-----------------------------------------------------------------------------
\* Nodes have their fields, sit where their parents say, and no path is empty.
TypeOK ==
  /\ DOMAIN heap \subseteq Ref
  /\ \A r \in DOMAIN heap :
       /\ heap[r].gen \in 0 .. MaxTrees - 1 /\ heap[r].kind \in Kind
       /\ heap[r].value \in Value \cup {None}
       /\ \A l \in DOMAIN heap[r].kids :
            /\ l # <<>> /\ heap[r].kids[l] \in DOMAIN heap
            /\ heap[r].kids[l][2] = r[2] \o l
       /\ heap[r].kind = "value" <=> r[2] \in Key
       /\ heap[r].kind = "value" <=> heap[r].kids = <<>>
       /\ heap[r].kind \in {"pair", "map"} => \A l \in DOMAIN heap[r].kids : Len(l) = 1
  /\ \A t \in DOMAIN trees :
       /\ trees[t].gen \in 0 .. MaxTrees - 1 /\ trees[t].readOnly \in BOOLEAN
       /\ trees[t].count \in 0 .. Cardinality(Key)

\* TryGetValue: a tree whose Count is zero is not searched.
TryGetValue(t, k) ==
  IF trees[t].count = 0 \/ trees[t].child = None THEN None ELSE FindValue(heap, trees[t].child, k)

\* The values that can be reached, with their keys.
Values(t) ==
  {<<r[2], heap[r].value>> : r \in {r \in Reachable(heap, trees[t].child) : heap[r].kind = "value"}}

\* GetEnumerator: a tree whose Count is zero is empty.
Contents(t) == IF trees[t].count = 0 THEN {} ELSE Values(t)

(* What Remove assumes of a tree: every PrefixMapNode has two children or      *)
(* more, and Count is right. Its comment says that a map stays a map if two or *)
(* more children are left after the removal, but it counts the one removed     *)
(* too, so a map may be left with one child. Removing that one removes nothing *)
(* and counts one less.                                                        *)
Branches(t) ==
  \A r \in Reachable(heap, trees[t].child) :
    heap[r].kind = "map" => Cardinality(DOMAIN heap[r].kids) >= 2
Sound(t) == Branches(t) /\ trees[t].count = Cardinality(Values(t))

\* The hash of contents, whatever their history: a node for every digit at which keys differ.
RECURSIVE HashFrom(_, _)
HashFrom(contents, depth) ==
  LET digits  == SetToSortSeq({item[1][depth] : item \in contents}, LAMBDA d, e : d < e)
      Part(d) == {item \in contents : item[1][depth] = d}
  IN  CASE contents = {} -> HashEmpty
        [] Cardinality(contents) = 1 ->
             LET item == CHOOSE i \in contents : TRUE IN HashValue(item[1], item[2])
        [] Cardinality(contents) > 1 /\ Len(digits) = 1 -> HashFrom(contents, depth + 1)
        [] OTHER -> HashNodes([i \in DOMAIN digits |-> HashFrom(Part(digits[i]), depth + 1)])

(* TryGetValue finds the keys that GetEnumerator lists, with their values, and *)
(* no others, in every tree and after any splits and concatenations of paths.  *)
LookupsAgree ==
  \A t \in DOMAIN trees :
    Contents(t) = {<<k, TryGetValue(t, k)>> : k \in {k \in Key : TryGetValue(t, k) # None}}

(* The root hash of a read-only tree depends on its contents alone, by         *)
(* whatever additions, removals and generations they came about: two producers *)
(* that hold the same accounts compute the same HashWorldState, and the hash   *)
(* of no shared node is stale - as long as no removal has left a map of the    *)
(* tree with one child, which hashes otherwise.                                *)
HashFromContents ==
  \A t \in DOMAIN trees :
    trees[t].readOnly /\ Sound(t) => trees[t].hash = HashFrom(Contents(t), 1)

(* Whatever operations led to a tree, its contents decide what it answers, how *)
(* it hashes if it is sound and, as far as TypeOK says, what it is made of.    *)
ContentsDecide == TypeOK /\ LookupsAgree /\ HashFromContents

D == INSTANCE Dictionaries WITH
       dicts <- [t \in DOMAIN trees |->
                   [contents |-> Contents(t), count |-> trees[t].count,
                    readOnly |-> trees[t].readOnly]]

(* The trees are the independent dictionaries of Dictionaries.tla: from sound  *)
(* trees an operation on one tree changes that tree alone and only as asked,   *)
(* also if it leaves a map with one child; Count is the number of its keys,    *)
(* and read-only trees never change although their nodes are shared with trees *)
(* that do.                                                                    *)
MapsDictionary == D!Init /\ [][(\A t \in DOMAIN trees : Sound(t)) => D!Next]_(D!vars)
=============================================================================
