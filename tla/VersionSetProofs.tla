--------------------------- MODULE VersionSetProofs ---------------------------
(***************************************************************************)
(* Versions and the choices made from them: the version a manifest gives,  *)
(* files that fit the tables, the inputs and outputs of a compaction and   *)
(* the order of a look-up stay inside the version, for every tree.         *)
(***************************************************************************)
EXTENDS LevelDB, Recursion

IsSeq(s) == s \in Seq(Range(s))
IKey == Keys \X (0 .. MaxSequence) \X {Deletion, Value}
IsContents(S) == S \subseteq IKey /\ IsFiniteSet(S)

\* A sequence is one over its own range, which is finite.
LEMMA SeqOver ==
  ASSUME NEW X, NEW s \in Seq(X)
  PROVE  IsSeq(s) /\ Range(s) \subseteq X /\ IsFiniteSet(Range(s))
<1>1. Range(s) = {s[i] : i \in 1 .. Len(s)} /\ Len(s) \in Nat
  BY DEF Range
<1>2. Range(s) \subseteq X
  BY <1>1
<1>3. s \in Seq(Range(s))
  <2>1. s \in [1 .. Len(s) -> Range(s)]
    BY <1>1
  <2> QED  BY <1>1, <2>1
<1>4. IsFiniteSet(Range(s))
  <2>1. s \in Surjection(1 .. Len(s), Range(s))
    BY <1>1 DEF Surjection
  <2>2. IsFiniteSet(1 .. Len(s))
    BY <1>1, FS_Interval
  <2> QED  BY <2>1, <2>2, FS_Surjection
<1> QED  BY <1>2, <1>3, <1>4 DEF IsSeq

\* Appending adds one element.
LEMMA AppendRange ==
  ASSUME NEW X, NEW s \in Seq(X), NEW e
  PROVE  /\ Append(s, e) # <<>> /\ Range(Append(s, e)) = Range(s) \cup {e}
<1> DEFINE t == Append(s, e)
<1>1. /\ Len(t) = Len(s) + 1 /\ Len(s) \in Nat
      /\ \A i \in 1 .. Len(s) : t[i] = s[i]
      /\ t[Len(s) + 1] = e
      /\ DOMAIN t = 1 .. Len(s) + 1 /\ DOMAIN s = 1 .. Len(s)
  OBVIOUS
<1> HIDE DEF t
<1>2. t # <<>>
  BY <1>1
<1>3. Range(t) = {t[i] : i \in 1 .. Len(s) + 1} /\ Range(s) = {s[i] : i \in 1 .. Len(s)}
  BY <1>1 DEF Range
<1>4. \A i \in 1 .. Len(s) + 1 : i \in 1 .. Len(s) \/ i = Len(s) + 1
  BY <1>1
<1>5. \A i \in 1 .. Len(s) : i \in 1 .. Len(s) + 1
  BY <1>1
<1>6. Len(s) + 1 \in 1 .. Len(s) + 1
  BY <1>1
<1>7. Range(t) = Range(s) \cup {e}
  BY <1>1, <1>3, <1>4, <1>5, <1>6, Zenon
<1> QED  BY <1>2, <1>7 DEF t

\* A sequence without elements is empty.
LEMMA SeqNotEmpty ==
  ASSUME NEW X, NEW s \in Seq(X)
  PROVE  /\ s # <<>> <=> Range(s) # {}
         /\ Len(s) > 0 => s # <<>>
<1>1. /\ Len(s) \in Nat /\ Range(s) = {s[i] : i \in 1 .. Len(s)}
      /\ s # <<>> => Len(s) > 0
      /\ Len(s) > 0 => s # <<>>
  BY DEF Range
<1>2. Len(s) > 0 => 1 \in 1 .. Len(s)
  BY <1>1
<1>3. s = <<>> => Range(s) = {}
  BY DEF Range
<1> QED  BY <1>1, <1>2, <1>3

(******************************************************************************)
(* Internal keys are in a strict total order                                  *)
(******************************************************************************)
LEMMA IKeyParts ==
  ASSUME NEW a \in IKey
  PROVE  /\ UserKey(a) \in Nat /\ Sequence(a) \in Nat /\ Type(a) \in Nat
         /\ a = <<UserKey(a), Sequence(a), Type(a)>>
<1>1. PICK k \in Keys, s \in 0 .. MaxSequence, t \in {Deletion, Value} : a = <<k, s, t>>
  BY DEF IKey
<1> QED  BY <1>1, BoundsAssumption DEF UserKey, Sequence, Type, Deletion, Value

\* Internal keys are in a strict total order.
LEMMA BeforeIsOrder ==
  ASSUME NEW a \in IKey, NEW b \in IKey, NEW c \in IKey
  PROVE  /\ ~Before(a, a)
         /\ a = b \/ Before(a, b) \/ Before(b, a)
         /\ Before(a, b) /\ Before(b, c) => Before(a, c)
<1>1. /\ UserKey(a) \in Nat /\ Sequence(a) \in Nat /\ Type(a) \in Nat
      /\ UserKey(b) \in Nat /\ Sequence(b) \in Nat /\ Type(b) \in Nat
      /\ UserKey(c) \in Nat /\ Sequence(c) \in Nat /\ Type(c) \in Nat
  BY IKeyParts
<1>2. UserKey(a) = UserKey(b) /\ Sequence(a) = Sequence(b) /\ Type(a) = Type(b) => a = b
  BY IKeyParts
<1>3. ~Before(a, a)
  BY <1>1 DEF Before
<1>4. a = b \/ Before(a, b) \/ Before(b, a)
  BY <1>1, <1>2 DEF Before
<1>5. Before(a, b) /\ Before(b, c) => Before(a, c)
  BY <1>1 DEF Before
<1> QED  BY <1>3, <1>4, <1>5

\* A table that is not empty has a smallest key.
LEMMA SmallestKey ==
  ASSUME NEW S, IsContents(S), S # {}, NEW n
  PROVE  FileOf(n, S).smallest \in S /\ FileOf(n, S).number = n
<1> DEFINE R == {p \in S \X S : Before(p[1], p[2])}
<1>1. \A x, y \in S : <<x, y>> \in R <=> Before(x, y)
  OBVIOUS
<1>2. StrictOrder(S, R)
  <2>1. \A x \in S : x \in IKey
    BY DEF IsContents
  <2> HIDE DEF R
  <2>2. \A x \in S : ~Before(x, x)
    BY <2>1, BeforeIsOrder
  <2>3. \A x, y \in S : x = y \/ Before(x, y) \/ Before(y, x)
    BY <2>1, BeforeIsOrder
  <2>4. \A x, y, z \in S : Before(x, y) /\ Before(y, z) => Before(x, z)
    BY <2>1, BeforeIsOrder
  <2> QED  BY <1>1, <2>2, <2>3, <2>4 DEF StrictOrder
<1>3. IsFiniteSet(S)
  BY DEF IsContents
<1> HIDE DEF R
<1>4. \E x \in S : \A y \in S : ~Before(y, x)
  BY <1>1, <1>2, <1>3, LeastMember
<1>5. FileOf(n, S).smallest = CHOOSE x \in S : \A y \in S : ~Before(y, x)
  BY DEF FileOf
<1>6. FileOf(n, S).number = n
  BY DEF FileOf
<1> QED  BY <1>4, <1>5, <1>6

(******************************************************************************)
(* Files with different numbers are in a strict total order                   *)
(******************************************************************************)
FileSet(S) ==
  /\ IsFiniteSet(S)
  /\ \A f \in S : f.smallest \in IKey /\ f.number \in Nat
  /\ \A f, g \in S : f.number = g.number => f = g

FileOrder(S) == {p \in S \X S : BySmallestKey(p[1], p[2])}

\* Files are in a strict total order, by their smallest key and then by number.
LEMMA FilesAreOrdered ==
  ASSUME NEW S, FileSet(S)
  PROVE  /\ StrictOrder(S, FileOrder(S))
         /\ \A x, y \in S : <<x, y>> \in FileOrder(S) <=> BySmallestKey(x, y)
<1> DEFINE R == FileOrder(S)
<1>1. \A x, y \in S : <<x, y>> \in R <=> BySmallestKey(x, y)
  BY DEF FileOrder
<1> HIDE DEF R
<1>2. StrictOrder(S, R)
  <2>1. \A f \in S : ~BySmallestKey(f, f)
    BY BeforeIsOrder DEF BySmallestKey, FileSet
  <2>2. ASSUME NEW f \in S, NEW g \in S
        PROVE  f = g \/ BySmallestKey(f, g) \/ BySmallestKey(g, f)
    <3>1. f.smallest = g.smallest \/ Before(f.smallest, g.smallest)
            \/ Before(g.smallest, f.smallest)
      BY BeforeIsOrder DEF FileSet
    <3>2. f.number = g.number => f = g
      BY DEF FileSet
    <3>3. f.number \in Nat /\ g.number \in Nat
      BY DEF FileSet
    <3> QED  BY <3>1, <3>2, <3>3 DEF BySmallestKey
  <2>3. ASSUME NEW f \in S, NEW g \in S, NEW h \in S, BySmallestKey(f, g), BySmallestKey(g, h)
        PROVE  BySmallestKey(f, h)
    <3>1. Before(f.smallest, g.smallest) /\ Before(g.smallest, h.smallest)
            => Before(f.smallest, h.smallest)
      BY BeforeIsOrder DEF FileSet
    <3>2. f.number \in Nat /\ g.number \in Nat /\ h.number \in Nat
      BY DEF FileSet
    <3> QED  BY <2>3, <3>1, <3>2 DEF BySmallestKey
  <2> QED  BY <1>1, <2>1, <2>2, <2>3 DEF StrictOrder
<1> QED  BY <1>1, <1>2 DEF R

\* The files of a level in order are all the files of the level.
LEMMA FilesInOrder ==
  ASSUME NEW S, FileSet(S)
  PROVE  /\ InOrder(S, BySmallestKey) \in Seq(S)
         /\ Range(InOrder(S, BySmallestKey)) = S
         /\ \A i, j \in 1 .. Len(InOrder(S, BySmallestKey)) :
              i < j => BySmallestKey(InOrder(S, BySmallestKey)[i], InOrder(S, BySmallestKey)[j])
<1> DEFINE R == FileOrder(S)
           q == InOrder(S, BySmallestKey)
<1>1. \A x, y \in S : <<x, y>> \in R <=> BySmallestKey(x, y)
  BY FilesAreOrdered
<1>2. StrictOrder(S, R)
  BY FilesAreOrdered
<1> HIDE DEF R
<1>3. \A x \in S : Below(S, R, x) = {y \in S : BySmallestKey(y, x)}
  BY <1>1 DEF Below
<1>4. q = [i \in 1 .. Cardinality(S) |->
             CHOOSE x \in S : Cardinality({y \in S : BySmallestKey(y, x)}) = i - 1]
  BY DEF InOrder
<1> HIDE DEF q
<1>5. Ranks(q, S, R)
  <2>1. ASSUME NEW i \in 1 .. Cardinality(S), NEW x \in S, Cardinality(Below(S, R, x)) = i - 1
        PROVE  q[i] \in S /\ Cardinality(Below(S, R, q[i])) = i - 1
    <3>1. Cardinality({y \in S : BySmallestKey(y, x)}) = i - 1
      BY <1>3, <2>1
    <3>2. q[i] \in S /\ Cardinality({y \in S : BySmallestKey(y, q[i])}) = i - 1
      BY <1>4, <3>1
    <3> QED  BY <1>3, <3>2
  <2>2. q = [i \in 1 .. Cardinality(S) |-> q[i]]
    <3> DEFINE First(i) ==
                 CHOOSE x \in S : Cardinality({y \in S : BySmallestKey(y, x)}) = i - 1
    <3>1. q = [i \in 1 .. Cardinality(S) |-> First(i)]
      BY <1>4
    <3> HIDE DEF First
    <3> QED  BY <3>1
  <2> QED  BY <2>1, <2>2 DEF Ranks
<1>6. IsFiniteSet(S)
  BY DEF FileSet
<1>7. /\ q \in Seq(S) /\ Len(q) = Cardinality(S)
      /\ \A x \in S : \E i \in 1 .. Len(q) : q[i] = x
      /\ \A i, j \in 1 .. Len(q) : i < j => <<q[i], q[j]>> \in R
  BY <1>2, <1>5, <1>6, RanksList
<1>8. Range(q) = S
  BY <1>7 DEF Range
<1>9. \A i, j \in 1 .. Len(q) : i < j => BySmallestKey(q[i], q[j])
  <2>1. \A i \in 1 .. Len(q) : q[i] \in S
    BY <1>7
  <2> QED  BY <1>1, <1>7, <2>1
<1> QED  BY <1>7, <1>8, <1>9 DEF q

(******************************************************************************)
(* The version after the edits of a manifest                                  *)
(******************************************************************************)
\* The recursive function behind VersionOf; s is a set of positions.
After(recs, f, s) ==
  IF s = {} THEN EmptyVersion ELSE SaveTo(f[s \ {Max(s)}], recs[Max(s)])
Folds(recs, f, n) == f = [s \in SUBSET (1 .. n) |-> After(recs, f, s)]
FoldsUpto(recs, f, n, m) == f = [s \in Upto(1 .. n, m) |-> After(recs, f, s)]

\* The largest number of a finite set.
LEMMA MaxOfSome ==
  ASSUME NEW s, s \subseteq Nat, IsFiniteSet(s), s # {}
  PROVE  Max(s) \in s /\ \A x \in s : x <= Max(s)
<1> DEFINE Good == {t \in SUBSET s : t # {} => \E x \in t : \A y \in t : y <= x}
<1>1. ASSUME NEW t \in SUBSET s, \A x \in t : t \ {x} \in Good PROVE t \in Good
  <2> SUFFICES ASSUME t # {} PROVE \E x \in t : \A y \in t : y <= x
    OBVIOUS
  <2>1. PICK x \in t : TRUE
    OBVIOUS
  <2>2. CASE t \ {x} = {}
    BY <2>1, <2>2
  <2>3. CASE t \ {x} # {}
    <3>1. PICK z \in t \ {x} : \A y \in t \ {x} : y <= z
      BY <1>1, <2>1, <2>3
    <3>2. x \in Nat /\ z \in Nat
      BY <2>1, <3>1
    <3>3. CASE x <= z
      BY <2>1, <3>1, <3>2, <3>3
    <3>4. CASE ~(x <= z)
      <4>1. ASSUME NEW y \in t PROVE y <= x
        <5>1. CASE y = x
          BY <3>2, <5>1
        <5>2. CASE y # x
          <6>1. y <= z /\ y \in Nat
            BY <3>1, <5>2
          <6> QED  BY <3>2, <3>4, <6>1
        <5> QED  BY <5>1, <5>2
      <4> QED  BY <2>1, <4>1
    <3> QED  BY <3>3, <3>4
  <2> QED  BY <2>2, <2>3
<1>2. SUBSET s \subseteq Good
  <2> HIDE DEF Good
  <2> QED  BY <1>1, SubsetInduction
<1>3. \E x \in s : \A y \in s : y <= x
  BY <1>2
<1>4. \E x \in s : \A y \in s : x >= y
  BY <1>3
<1>5. Max(s) \in s /\ \A y \in s : Max(s) >= y
  BY <1>4 DEF Max
<1> QED  BY <1>5

\* The least of some numbers.
LEMMA MinOfSome ==
  ASSUME NEW s, s \subseteq Nat, s # {}
  PROVE  Min(s) \in s /\ \A x \in s : Min(s) <= x
<1>1. \E n \in s : \A m \in s : n <= m
  BY Smallest
<1> QED  BY <1>1 DEF Min

\* The image of a finite set is finite.
LEMMA ImageIsFinite ==
  ASSUME NEW S, IsFiniteSet(S), NEW f
  PROVE  IsFiniteSet({f[x] : x \in S})
<1> DEFINE h == [x \in S |-> f[x]]
           T == {f[x] : x \in S}
<1>1. h \in Surjection(S, T)
  BY DEF Surjection
<1> QED  BY <1>1, FS_Surjection

\* The function behind the fold over the edits exists.
LEMMA FoldExists ==
  ASSUME NEW n \in Nat, NEW recs
  PROVE  \E f : Folds(recs, f, n)
<1> DEFINE S == 1 .. n
           T == {m \in Nat : \E f : FoldsUpto(recs, f, n, m)}
<1>0. IsFiniteSet(S) /\ Cardinality(S) = n /\ S \subseteq Nat
  BY FS_Interval
<1>1. \A s \in SUBSET S : IsFiniteSet(s) /\ Cardinality(s) \in Nat
  BY <1>0, FS_Subset, FS_CardinalityType
<1>2. 0 \in T
  <2> DEFINE f == [s \in Upto(S, 0) |-> EmptyVersion]
  <2>1. \A s \in Upto(S, 0) : s = {}
    BY <1>1, FS_EmptySet DEF Upto
  <2>2. f = [s \in Upto(S, 0) |-> After(recs, f, s)]
    BY <2>1 DEF After
  <2>3. FoldsUpto(recs, f, n, 0)
    BY <2>2 DEF FoldsUpto
  <2> HIDE DEF f
  <2> QED  BY <2>3
<1>3. ASSUME NEW m \in Nat, m \in T PROVE m + 1 \in T
  <2>1. PICK f : FoldsUpto(recs, f, n, m)
    BY <1>3
  <2> DEFINE g == [s \in Upto(S, m + 1) |-> After(recs, f, s)]
  <2>2. ASSUME NEW s \in Upto(S, m + 1), s # {}
        PROVE  s \ {Max(s)} \in Upto(S, m)
    <3> DEFINE x == Max(s)
    <3>1. s \in SUBSET S /\ Cardinality(s) <= m + 1
      BY DEF Upto
    <3>2. s \subseteq Nat /\ IsFiniteSet(s)
      BY <1>0, <1>1, <3>1
    <3>3. x \in s
      BY <2>2, <3>2, MaxOfSome
    <3> HIDE DEF x
    <3>4. Cardinality(s \ {x}) <= m
      BY <1>1, <3>1, <3>3, FS_RemoveElement
    <3>5. s \ {x} \in Upto(S, m)
      BY <3>1, <3>4 DEF Upto
    <3> QED  BY <3>5 DEF x
  <2>3. ASSUME NEW s \in Upto(S, m) PROVE g[s] = f[s]
    <3>1. s \in Upto(S, m + 1)
      BY <1>1 DEF Upto
    <3> QED  BY <2>1, <3>1 DEF FoldsUpto
  <2>4. ASSUME NEW s \in Upto(S, m + 1) PROVE After(recs, f, s) = After(recs, g, s)
    <3> HIDE DEF g
    <3> QED  BY <2>2, <2>3 DEF After
  <2>5. FoldsUpto(recs, g, n, m + 1)
    BY <2>4 DEF FoldsUpto
  <2> HIDE DEF g
  <2> QED  BY <2>5
<1>4. n \in T
  <2> HIDE DEF T
  <2> QED  BY <1>2, <1>3, NatSetInduction
<1>5. Upto(S, n) = SUBSET S
  BY <1>0, <1>1, FS_Subset DEF Upto
<1> QED  BY <1>4, <1>5 DEF Folds, FoldsUpto

Agree(recs, front, m) == \A i \in 1 .. m : recs[i] = front[i]

\* What it gives for the first m edits depends on those only.
LEMMA FoldAgrees ==
  ASSUME NEW n \in Nat, NEW m \in Nat, m <= n, NEW recs, NEW front,
         Agree(recs, front, m),
         NEW f, NEW g, Folds(recs, f, n), Folds(front, g, m)
  PROVE  f[1 .. m] = g[1 .. m]
<1> DEFINE R == 1 .. m
           Good == {s \in SUBSET R : f[s] = g[s]}
<1>0. IsFiniteSet(R) /\ R \subseteq Nat /\ R \subseteq 1 .. n
  BY FS_Interval
<1>1. ASSUME NEW s \in SUBSET R, \A x \in s : s \ {x} \in Good
      PROVE  s \in Good
  <2>1. f[s] = After(recs, f, s) /\ g[s] = After(front, g, s)
    BY <1>0 DEF Folds
  <2>2. s # {} => Max(s) \in s
    BY <1>0, FS_Subset, MaxOfSome
  <2>3. s \subseteq R
    OBVIOUS
  <2>4. CASE s = {}
    BY <2>1, <2>4 DEF After
  <2>5. CASE s # {}
    <3>1. Max(s) \in R /\ s \ {Max(s)} \in Good
      BY <1>1, <2>2, <2>3, <2>5
    <3>2. recs[Max(s)] = front[Max(s)]
      BY <3>1 DEF Agree
    <3>3. f[s \ {Max(s)}] = g[s \ {Max(s)}]
      BY <3>1
    <3>4. After(recs, f, s) = After(front, g, s)
      BY <3>2, <3>3, <2>5, Zenon DEF After
    <3> QED  BY <2>1, <2>3, <3>4
  <2> QED  BY <2>4, <2>5
<1>3. SUBSET R \subseteq Good
  <2>1. IsFiniteSet(R)
    BY <1>0
  <2> HIDE DEF Good, R
  <2>2. \A s \in SUBSET R : (\A x \in s : s \ {x} \in Good) => s \in Good
    BY <1>1, Zenon
  <2> QED  BY <2>1, <2>2, SubsetInduction, Zenon
<1> QED  BY <1>3

\* The version of a manifest is what it gives for all edits.
LEMMA VersionOfIs ==
  ASSUME NEW recs, IsSeq(recs)
  PROVE  \E f : Folds(recs, f, Len(recs)) /\ VersionOf(recs) = f[1 .. Len(recs)]
<1>1. Len(recs) \in Nat /\ DOMAIN recs = 1 .. Len(recs)
  BY DEF IsSeq
<1> DEFINE S == DOMAIN recs
           f == CHOOSE f : f = [s \in SUBSET S |-> After(recs, f, s)]
<1>2. \E h : h = [s \in SUBSET S |-> After(recs, h, s)]
  <2>1. PICK h : Folds(recs, h, Len(recs))
    BY <1>1, FoldExists
  <2>2. h = [s \in SUBSET (1 .. Len(recs)) |-> After(recs, h, s)]
    BY <2>1, Zenon DEF Folds
  <2>3. S = 1 .. Len(recs)
    BY <1>1
  <2> QED  BY <2>2, <2>3, Zenon
<1>3. f = [s \in SUBSET S |-> After(recs, f, s)]
  BY <1>2, Zenon
<1>4. VersionOf(recs) = f[S]
  BY Zenon DEF VersionOf, FoldLeft, MapThenFoldSet, After
<1> HIDE DEF f
<1> QED  BY <1>1, <1>3, <1>4 DEF Folds

\* The first n elements of a sequence.
LEMMA Prefix ==
  ASSUME NEW s, IsSeq(s), NEW n \in 0 .. Len(s)
  PROVE  /\ IsSeq(SubSeq(s, 1, n)) /\ Len(SubSeq(s, 1, n)) = n
         /\ \A i \in 1 .. n : SubSeq(s, 1, n)[i] = s[i]
<1> DEFINE X == Range(s)
           t == SubSeq(s, 1, n)
<1>1. s \in Seq(X) /\ Len(s) \in Nat
  BY DEF IsSeq
<1> HIDE DEF X
<1>2. t \in Seq(X) /\ Len(t) = n /\ \A i \in 1 .. n : t[i] = s[i]
  BY <1>1, SubSeqProperties
<1>3. IsSeq(t)
  BY <1>2, SeqOver
<1> QED  BY <1>2, <1>3

\* The last edit is applied to the version of the edits before it.
LEMMA VersionStep ==
  ASSUME NEW recs, IsSeq(recs), Len(recs) # 0
  PROVE  VersionOf(recs) = SaveTo(VersionOf(SubSeq(recs, 1, Len(recs) - 1)), recs[Len(recs)])
<1> DEFINE n == Len(recs)
           front == SubSeq(recs, 1, n - 1)
<1>1. n \in Nat /\ n # 0 /\ n - 1 \in Nat
  BY DEF IsSeq
<1>2. Len(front) = n - 1 /\ \A i \in 1 .. n - 1 : recs[i] = front[i]
  <2> DEFINE k == n - 1
  <2>1. k \in 0 .. Len(recs)
    BY <1>1
  <2> HIDE DEF k
  <2>2. Len(SubSeq(recs, 1, k)) = k /\ \A i \in 1 .. k : SubSeq(recs, 1, k)[i] = recs[i]
    BY <2>1, Prefix
  <2> QED  BY <2>2 DEF k
<1>3. IsSeq(front)
  <2>1. n - 1 \in 0 .. Len(recs)
    BY <1>1
  <2> QED  BY <2>1, Prefix
<1> HIDE DEF front
<1>4. PICK f : Folds(recs, f, n) /\ VersionOf(recs) = f[1 .. n]
  BY VersionOfIs
<1>5. PICK g : Folds(front, g, n - 1) /\ VersionOf(front) = g[1 .. n - 1]
  BY <1>2, <1>3, VersionOfIs
<1> HIDE DEF n
<1>6. f[1 .. n - 1] = g[1 .. n - 1]
  <2> DEFINE m == n - 1
  <2>1. m \in Nat /\ m <= n /\ Agree(recs, front, m)
    BY <1>1, <1>2 DEF Agree
  <2>2. Folds(recs, f, n) /\ Folds(front, g, m)
    BY <1>4, <1>5
  <2> HIDE DEF m
  <2>3. f[1 .. m] = g[1 .. m]
    BY <1>1, <2>1, <2>2, FoldAgrees
  <2> QED  BY <2>3 DEF m
<1> DEFINE S == 1 .. n
<1>7. f[S] = After(recs, f, S)
  BY <1>4 DEF Folds
<1>8. Max(S) = n /\ S # {} /\ S \ {n} = 1 .. n - 1
  <2>0. n \in Int /\ 1 \in Int
    BY <1>1
  <2>1. S \subseteq Nat /\ IsFiniteSet(S) /\ S # {} /\ n \in S
    <3>1. IsFiniteSet(S)
      BY <2>0, FS_Interval
    <3>2. n \in S /\ S \subseteq Nat
      BY <1>1
    <3> QED  BY <3>1, <3>2
  <2>2. Max(S) \in S /\ n <= Max(S)
    BY <2>1, MaxOfSome
  <2> QED  BY <1>1, <2>1, <2>2
<1>9. f[S] = SaveTo(f[1 .. n - 1], recs[n])
  BY <1>7, <1>8 DEF After
<1> QED  BY <1>4, <1>5, <1>6, <1>9 DEF front, n

\* No edit gives the empty version.
LEMMA VersionOfNone == VersionOf(<<>>) = EmptyVersion
<1>1. IsSeq(<<>>) /\ Len(<<>>) = 0
  BY DEF IsSeq
<1>2. PICK f : Folds(<<>>, f, 0) /\ VersionOf(<<>>) = f[1 .. 0]
  BY <1>1, VersionOfIs
<1>3. f[{}] = After(<<>>, f, {}) /\ 1 .. 0 = {}
  BY <1>2 DEF Folds
<1> QED  BY <1>2, <1>3 DEF After

\* The version after n edits, from the one after n - 1.
LEMMA VersionPrefix ==
  ASSUME NEW recs, IsSeq(recs), NEW n \in 1 .. Len(recs)
  PROVE  VersionOf(SubSeq(recs, 1, n)) = SaveTo(VersionOf(SubSeq(recs, 1, n - 1)), recs[n])
<1> DEFINE s == SubSeq(recs, 1, n)
<1>0. n \in 0 .. Len(recs) /\ Len(recs) \in Nat /\ n - 1 \in 0 .. Len(recs)
      /\ n - 1 \in 0 .. n
  BY DEF IsSeq
<1>1. Len(s) = n /\ \A i \in 1 .. n : s[i] = recs[i]
  BY <1>0, Prefix
<1>2. IsSeq(s)
  BY <1>0, Prefix
<1>3. SubSeq(s, 1, n - 1) = SubSeq(recs, 1, n - 1)
  <2> DEFINE p == SubSeq(s, 1, n - 1)
             q == SubSeq(recs, 1, n - 1)
  <2>1. IsSeq(p) /\ Len(p) = n - 1 /\ \A i \in 1 .. n - 1 : p[i] = s[i]
    BY <1>0, <1>1, <1>2, Prefix
  <2>2. IsSeq(q) /\ Len(q) = n - 1 /\ \A i \in 1 .. n - 1 : q[i] = recs[i]
    BY <1>0, Prefix
  <2>3. \A i \in 1 .. n - 1 : p[i] = q[i]
    BY <1>0, <1>1, <2>1, <2>2
  <2>4. p \in Seq(Range(p)) /\ q \in Seq(Range(q))
    BY <2>1, <2>2 DEF IsSeq
  <2> HIDE DEF p, q
  <2>5. p = q
    BY <2>1, <2>2, <2>3, <2>4, SeqEqual
  <2> QED  BY <2>5 DEF p, q
<1> HIDE DEF s
<1>4. VersionOf(s) = SaveTo(VersionOf(SubSeq(s, 1, n - 1)), s[n])
  <2>1. Len(s) # 0
    BY <1>0, <1>1
  <2>2. VersionOf(s) = SaveTo(VersionOf(SubSeq(s, 1, Len(s) - 1)), s[Len(s)])
    BY <1>2, <2>1, VersionStep
  <2> QED  BY <1>1, <2>2
<1>5. s[n] = recs[n]
  BY <1>0, <1>1
<1> QED  BY <1>3, <1>4, <1>5 DEF s

(******************************************************************************)
(* Files and versions that fit the tables                                     *)
(******************************************************************************)
IsTables(tb) ==
  /\ tb = [n \in DOMAIN tb |-> tb[n]] /\ DOMAIN tb \subseteq Nat
  /\ \A n \in DOMAIN tb : IsContents(tb[n]) /\ tb[n] # {}

\* f has a number below n and describes the table of that number.
GoodFile(f, tb, n) ==
  /\ f.number \in DOMAIN tb /\ f.number < n
  /\ f = FileOf(f.number, tb[f.number])
GoodFiles(S, tb, n) == \A f \in S : GoodFile(f, tb, n)

GoodVersion(v, tb, n) ==
  /\ v = [l \in Levels |-> InOrder(Range(v[l]), BySmallestKey)]
  /\ \A l \in Levels : GoodFiles(Range(v[l]), tb, n)

GoodEdit(e, tb, n) == \A l \in Levels : GoodFiles(AddedAt(e, l), tb, n)

\* Files that describe tables have an order of their own.
LEMMA GoodFileSet ==
  ASSUME NEW tb, IsTables(tb), NEW n \in Nat, NEW S, GoodFiles(S, tb, n)
  PROVE  FileSet(S)
<1>1. \A f \in S : f.number \in Nat /\ f.number \in 0 .. n - 1
  BY DEF IsTables, GoodFiles, GoodFile
<1>2. \A f, g \in S : f.number = g.number => f = g
  <2> SUFFICES ASSUME NEW f \in S, NEW g \in S, f.number = g.number PROVE f = g
    OBVIOUS
  <2>1. f = FileOf(f.number, tb[f.number]) /\ g = FileOf(g.number, tb[g.number])
    BY DEF GoodFiles, GoodFile
  <2> QED  BY <2>1
<1>3. IsFiniteSet(S)
  <2> DEFINE num == [f \in S |-> f.number]
  <2>1. num \in Injection(S, 0 .. n - 1)
    BY <1>1, <1>2 DEF Injection, IsInjective
  <2>2. IsFiniteSet(0 .. n - 1)
    BY FS_Interval
  <2> QED  BY <2>1, <2>2, FS_Injection
<1>4. ASSUME NEW f \in S PROVE f.smallest \in IKey
  <2> DEFINE k == f.number
             T == tb[k]
  <2>1. k \in DOMAIN tb /\ f = FileOf(k, T)
    BY DEF GoodFiles, GoodFile
  <2>2. IsContents(T) /\ T # {}
    BY <2>1 DEF IsTables
  <2> HIDE DEF k, T
  <2>3. f.smallest \in T
    BY <2>1, <2>2, SmallestKey
  <2> QED  BY <2>2, <2>3 DEF IsContents
<1> QED  BY <1>1, <1>2, <1>3, <1>4 DEF FileSet

\* Some of a set of good files.
LEMMA GoodSubset ==
  ASSUME NEW tb, NEW n, NEW S, GoodFiles(S, tb, n), NEW R, R \subseteq S
  PROVE  GoodFiles(R, tb, n)
BY DEF GoodFiles

\* A table that is added leaves the files that have theirs as they are.
LEMMA GoodInMore ==
  ASSUME NEW tb, NEW more, NEW n \in Nat, NEW m \in Nat, n <= m,
         \A x \in DOMAIN tb : x < n => x \in DOMAIN more /\ more[x] = tb[x],
         IsTables(tb), NEW S, GoodFiles(S, tb, n)
  PROVE  GoodFiles(S, more, m)
<1> SUFFICES ASSUME NEW f \in S PROVE GoodFile(f, more, m)
  BY DEF GoodFiles
<1>1. f.number \in DOMAIN tb /\ f.number < n /\ f = FileOf(f.number, tb[f.number])
  BY DEF GoodFiles, GoodFile
<1>2. f.number \in Nat
  BY <1>1 DEF IsTables
<1>3. f.number \in DOMAIN more /\ more[f.number] = tb[f.number] /\ f.number < m
  BY <1>1, <1>2
<1> QED  BY <1>1, <1>3 DEF GoodFile

\* The files of a level that stay, and those that come.
KeptAt(v, e, l) ==
  {f \in Range(v[l]) : f.number \notin DeletedAt(e, l) \ {g.number : g \in AddedAt(e, l)}}
    \cup AddedAt(e, l)

\* A good edit of a good version gives a good one; its files are known.
LEMMA SaveToIs ==
  ASSUME NEW tb, IsTables(tb), NEW n \in Nat, NEW v, NEW e, GoodEdit(e, tb, n),
         \A l \in Levels : GoodFiles(Range(v[l]), tb, n)
  PROVE  /\ GoodVersion(SaveTo(v, e), tb, n)
         /\ \A l \in Levels : Range(SaveTo(v, e)[l]) = KeptAt(v, e, l)
         /\ \A l \in Levels : Range(SaveTo(v, e)[l]) \subseteq Range(v[l]) \cup AddedAt(e, l)
<1> DEFINE w == SaveTo(v, e)
<1>1. w = [l \in Levels |-> InOrder(KeptAt(v, e, l), BySmallestKey)]
  BY DEF SaveTo, KeptAt
<1> HIDE DEF w
<1>2. ASSUME NEW l \in Levels PROVE GoodFiles(KeptAt(v, e, l), tb, n)
  BY DEF KeptAt, GoodEdit, GoodFiles
<1>3. ASSUME NEW l \in Levels
      PROVE  w[l] = InOrder(KeptAt(v, e, l), BySmallestKey) /\ Range(w[l]) = KeptAt(v, e, l)
  <2>1. FileSet(KeptAt(v, e, l))
    BY <1>2, GoodFileSet
  <2>2. w[l] = InOrder(KeptAt(v, e, l), BySmallestKey)
    BY <1>1
  <2> QED  BY <2>1, <2>2, FilesInOrder
<1>4. w = [l \in Levels |-> InOrder(Range(w[l]), BySmallestKey)]
  BY <1>1, <1>3
<1>5. \A l \in Levels : KeptAt(v, e, l) \subseteq Range(v[l]) \cup AddedAt(e, l)
  BY DEF KeptAt
<1>6. \A l \in Levels : GoodFiles(Range(w[l]), tb, n)
  BY <1>2, <1>3
<1> QED  BY <1>3, <1>4, <1>5, <1>6 DEF w, GoodVersion

\* Every file of a good version is good.
LEMMA GoodVersionFiles ==
  ASSUME NEW tb, IsTables(tb), NEW n \in Nat, NEW v, GoodVersion(v, tb, n)
  PROVE  /\ GoodFiles(FilesOf(v), tb, n)
         /\ DOMAIN v = Levels
         /\ \A l \in Levels : IsSeq(v[l]) /\ Range(v[l]) \subseteq FilesOf(v)
         /\ \A f \in FilesOf(v) : \E l \in Levels : f \in Range(v[l])
<1>1. DOMAIN v = Levels
  BY DEF GoodVersion
<1>2. \A l \in Levels : Range(v[l]) \subseteq FilesOf(v)
  BY <1>1 DEF FilesOf
<1>3. \A f \in FilesOf(v) : \E l \in Levels : f \in Range(v[l])
  BY <1>1 DEF FilesOf
<1>4. GoodFiles(FilesOf(v), tb, n)
  BY <1>3 DEF GoodVersion, GoodFiles
<1>5. ASSUME NEW l \in Levels PROVE IsSeq(v[l])
  <2>1. FileSet(Range(v[l]))
    BY GoodFileSet DEF GoodVersion
  <2>2. v[l] = InOrder(Range(v[l]), BySmallestKey)
    BY DEF GoodVersion
  <2> QED  BY <2>1, <2>2, FilesInOrder DEF IsSeq
<1> QED  BY <1>1, <1>2, <1>3, <1>4, <1>5

\* A version that is good for some tables is good for more tables.
LEMMA GoodVersionInMore ==
  ASSUME NEW tb, NEW more, NEW n \in Nat, NEW m \in Nat, n <= m,
         \A x \in DOMAIN tb : x < n => x \in DOMAIN more /\ more[x] = tb[x],
         IsTables(tb), NEW v, GoodVersion(v, tb, n)
  PROVE  GoodVersion(v, more, m)
<1>1. \A l \in Levels : GoodFiles(Range(v[l]), more, m)
  BY GoodInMore DEF GoodVersion
<1> QED  BY <1>1 DEF GoodVersion

\* The empty version is good.
LEMMA GoodEmpty ==
  ASSUME NEW tb, NEW n
  PROVE  GoodVersion(EmptyVersion, tb, n)
<1>1. \A l \in Levels : EmptyVersion[l] = <<>> /\ Range(EmptyVersion[l]) = {}
  BY DEF EmptyVersion, Range
<1>2. InOrder({}, BySmallestKey) = <<>>
  BY FS_EmptySet DEF InOrder
<1>3. EmptyVersion = [l \in Levels |-> InOrder(Range(EmptyVersion[l]), BySmallestKey)]
  BY <1>1, <1>2 DEF EmptyVersion
<1> QED  BY <1>1, <1>3 DEF GoodVersion, GoodFiles

\* A snapshot of a version gives the version back.
LEMMA SnapshotGivesBack ==
  ASSUME NEW tb, IsTables(tb), NEW n \in Nat, NEW v, GoodVersion(v, tb, n), NEW e,
         \A l \in Levels : AddedAt(e, l) = Range(v[l])
  PROVE  SaveTo(EmptyVersion, e) = v
<1> DEFINE w == SaveTo(EmptyVersion, e)
<1>1. GoodEdit(e, tb, n)
  BY DEF GoodEdit, GoodVersion
<1>2. \A l \in Levels : GoodFiles(Range(EmptyVersion[l]), tb, n)
  BY GoodEmpty DEF GoodVersion
<1>3. /\ GoodVersion(w, tb, n)
      /\ \A l \in Levels : Range(w[l]) = KeptAt(EmptyVersion, e, l)
  BY <1>1, <1>2, SaveToIs
<1> HIDE DEF w
<1>4. \A l \in Levels : Range(EmptyVersion[l]) = {}
  BY DEF EmptyVersion, Range
<1>5. \A l \in Levels : Range(w[l]) = Range(v[l])
  BY <1>3, <1>4 DEF KeptAt
<1>6. w = [l \in Levels |-> InOrder(Range(w[l]), BySmallestKey)]
      /\ v = [l \in Levels |-> InOrder(Range(v[l]), BySmallestKey)]
  BY <1>3 DEF GoodVersion
<1>7. w = v
  BY <1>5, <1>6
<1> QED  BY <1>7 DEF w

(******************************************************************************)
(* Sizes of levels                                                            *)
(******************************************************************************)
SizeStep(h, s) ==
  IF s = {} THEN 0
  ELSE (CHOOSE x \in s : TRUE).size + h[s \ {CHOOSE x \in s : TRUE}]

\* The size of a level is a number, 0 when it is empty.
LEMMA SizeType ==
  ASSUME NEW files, IsFiniteSet(Range(files)), \A f \in Range(files) : f.size \in Nat
  PROVE  /\ TotalFileSize(files) \in Nat
         /\ Range(files) = {} => TotalFileSize(files) = 0
<1> DEFINE S == Range(files)
           v == [f \in S |-> f.size]
           h == CHOOSE h : h = [s \in SUBSET S |-> SizeStep(h, s)]
<1>1. \A s \in SUBSET S : \A e : SizeStep(e, s) = Step(v, e, s)
  <2> SUFFICES ASSUME NEW s \in SUBSET S, NEW e PROVE SizeStep(e, s) = Step(v, e, s)
    OBVIOUS
  <2> DEFINE x == CHOOSE x \in s : TRUE
  <2>1. s # {} => x \in s
    OBVIOUS
  <2>2. s # {} => v[x] = x.size
    BY <2>1
  <2> HIDE DEF x
  <2>3. SizeStep(e, s) = IF s = {} THEN 0 ELSE x.size + e[s \ {x}]
    BY DEF SizeStep, x
  <2>4. Step(v, e, s) = IF s = {} THEN 0 ELSE v[x] + e[s \ {x}]
    BY DEF Step, x
  <2> QED  BY <2>2, <2>3, <2>4
<1>2. PICK e : Sums(v, e, S)
  BY SumExists
<1> HIDE DEF v
<1>3. e = [s \in SUBSET S |-> SizeStep(e, s)]
  BY <1>1, <1>2 DEF Sums
<1>4. h = [s \in SUBSET S |-> SizeStep(h, s)]
  BY <1>3
<1>5. TotalFileSize(files) = h[S]
  BY Zenon DEF TotalFileSize, MapThenSumSet, MapThenFoldSet, SizeStep
<1> HIDE DEF h
<1>6. Sums(v, h, S)
  BY <1>1, <1>4 DEF Sums
<1>7. PICK g : Sums(v, g, S) /\ SumFunctionOnSet(v, S) = g[S]
  BY SumIs
<1>8. h[S] = SumFunctionOnSet(v, S)
  BY <1>6, <1>7, SumUnique
<1>9. \A f \in S : v[f] \in Nat
  BY DEF v
<1>10. SumFunctionOnSet(v, S) \in Nat
  BY <1>9, SumType
<1>11. S = {} => SumFunctionOnSet(v, S) = 0
  BY SumEmpty
<1> QED  BY <1>5, <1>8, <1>10, <1>11

\* The size of a file is a number.
LEMMA GoodSize ==
  ASSUME NEW tb, IsTables(tb), NEW n \in Nat, NEW S, GoodFiles(S, tb, n)
  PROVE  \A f \in S : f.size \in Nat
<1> SUFFICES ASSUME NEW f \in S PROVE f.size \in Nat
  OBVIOUS
<1>1. f.number \in DOMAIN tb /\ f = FileOf(f.number, tb[f.number])
  BY DEF GoodFiles, GoodFile
<1>2. f.size = Cardinality(tb[f.number])
  BY <1>1 DEF FileOf
<1>3. IsFiniteSet(tb[f.number])
  BY <1>1 DEF IsTables, IsContents
<1> QED  BY <1>2, <1>3, FS_CardinalityType

(******************************************************************************)
(* There is a level most in need of a compaction                              *)
(******************************************************************************)
LEMMA TimesOrder ==
  ASSUME NEW x \in Nat, NEW y \in Nat, NEW z \in Nat \ {0}
  PROVE  x * z > y * z <=> x > y
OBVIOUS

\* Comparing fractions crosswise is transitive.
LEMMA FractionsOrder ==
  ASSUME NEW a \in Nat, NEW b \in Nat, NEW c \in Nat,
         NEW u \in Nat \ {0}, NEW v \in Nat \ {0}, NEW w \in Nat \ {0},
         a * v > b * u, b * w >= c * v
  PROVE  a * w > c * u
<1>1. (a * v) * w > (b * u) * w
  <2>1. a * v \in Nat /\ b * u \in Nat
    OBVIOUS
  <2> DEFINE p == a * v
             q == b * u
  <2>2. p \in Nat /\ q \in Nat /\ p > q
    BY <2>1
  <2> HIDE DEF p, q
  <2>3. p * w > q * w
    BY <2>2, TimesOrder
  <2> QED  BY <2>3 DEF p, q
<1>2. (b * w) * u >= (c * v) * u
  <2> DEFINE p == b * w
             q == c * v
  <2>1. p \in Nat /\ q \in Nat /\ p >= q
    OBVIOUS
  <2> HIDE DEF p, q
  <2>2. ~(q * u > p * u)
    BY <2>1, TimesOrder
  <2>3. p * u \in Nat /\ q * u \in Nat
    BY <2>1
  <2>4. p * u >= q * u
    BY <2>2, <2>3
  <2> QED  BY <2>4 DEF p, q
<1>3. (b * u) * w = (b * w) * u /\ (a * v) * w = (a * w) * v /\ (c * v) * u = (c * u) * v
  OBVIOUS
<1>4. (a * w) * v > (c * u) * v
  <2>1. (a * w) * v \in Nat /\ (c * u) * v \in Nat /\ (b * w) * u \in Nat
    OBVIOUS
  <2> QED  BY <1>1, <1>2, <1>3, <2>1
<1>5. a * w \in Nat /\ c * u \in Nat
  OBVIOUS
<1> DEFINE p == a * w
           q == c * u
<1>6. p \in Nat /\ q \in Nat /\ p * v > q * v
  BY <1>4, <1>5
<1> HIDE DEF p, q
<1>7. p > q
  BY <1>6, TimesOrder
<1> QED  BY <1>7 DEF p, q

MoreNeeded(over, under, l, m) ==
  \/ over[l] * under[m] > over[m] * under[l]
  \/ over[l] * under[m] = over[m] * under[l] /\ l <= m

\* Some level has the largest score, the first such one.
LEMMA MostNeeded ==
  ASSUME NEW n \in Nat, NEW over \in [0 .. n -> Nat], NEW under \in [0 .. n -> Nat \ {0}]
  PROVE  \E l \in 0 .. n : \A m \in 0 .. n : MoreNeeded(over, under, l, m)
<1> DEFINE Good == {k \in 0 .. n : \E l \in 0 .. k : \A m \in 0 .. k : MoreNeeded(over, under, l, m)}
<1>1. 0 \in Good
  <2>1. over[0] * under[0] = over[0] * under[0]
    OBVIOUS
  <2> QED  BY <2>1 DEF MoreNeeded
<1>2. ASSUME NEW k \in 1 .. n, k - 1 \in Good PROVE k \in Good
  <2>1. PICK l \in 0 .. k - 1 : \A m \in 0 .. k - 1 : MoreNeeded(over, under, l, m)
    BY <1>2
  <2>2. l \in 0 .. n /\ k \in 0 .. n /\ l \in Nat /\ k \in Nat
    OBVIOUS
  <2>3. /\ over[l] \in Nat /\ over[k] \in Nat
        /\ under[l] \in Nat \ {0} /\ under[k] \in Nat \ {0}
    BY <2>2
  <2>4. CASE over[k] * under[l] > over[l] * under[k]
    <3>1. ASSUME NEW m \in 0 .. k PROVE MoreNeeded(over, under, k, m)
      <4>1. CASE m = k
        BY <2>2, <4>1 DEF MoreNeeded
      <4>2. CASE m # k
        <5>1. m \in 0 .. k - 1 /\ m \in 0 .. n
          BY <4>2
        <5>2. over[m] \in Nat /\ under[m] \in Nat \ {0}
          BY <5>1
        <5>3. over[l] * under[m] >= over[m] * under[l]
          <6>1. over[l] * under[m] \in Nat /\ over[m] * under[l] \in Nat
            <7>1. \A x, y \in Nat : x * y \in Nat
              OBVIOUS
            <7>2. over[l] \in Nat /\ under[l] \in Nat /\ over[m] \in Nat /\ under[m] \in Nat
              BY <2>3, <5>2
            <7> QED  BY <7>1, <7>2, Zenon
          <6>2. MoreNeeded(over, under, l, m)
            BY <2>1, <5>1
          <6>3. over[l] * under[m] > over[m] * under[l]
                \/ over[l] * under[m] = over[m] * under[l]
            BY <6>2 DEF MoreNeeded
          <6> QED  BY <6>1, <6>3
        <5>4. over[k] * under[m] > over[m] * under[k]
          BY <2>3, <2>4, <5>2, <5>3, FractionsOrder
        <5> QED  BY <5>4 DEF MoreNeeded
      <4> QED  BY <4>1, <4>2
    <3> QED  BY <2>2, <3>1
  <2>5. CASE ~(over[k] * under[l] > over[l] * under[k])
    <3>1. over[k] * under[l] \in Nat /\ over[l] * under[k] \in Nat
      BY <2>3
    <3>2. MoreNeeded(over, under, l, k)
      BY <2>2, <2>5, <3>1 DEF MoreNeeded
    <3>3. \A m \in 0 .. k : m \in 0 .. k - 1 \/ m = k
      OBVIOUS
    <3>4. l \in 0 .. k
      OBVIOUS
    <3> QED  BY <2>1, <2>2, <3>2, <3>3, <3>4
  <2> QED  BY <2>4, <2>5
<1> HIDE DEF Good
<1>3. \A k \in 1 .. n : k - 1 \in Good => k \in Good
  BY <1>2
<1>4. \A k \in 0 .. n : k \in Good
  BY <1>1, <1>3, UptoInduction
<1>5. n \in Good
  BY <1>4
<1> QED  BY <1>5 DEF Good

\* The levels of the tree.
LEMMA LevelsAre ==
  /\ NumLevels \in Nat /\ NumLevels >= 2 /\ NumLevels - 2 \in Nat
  /\ 0 \in Levels /\ Levels = 0 .. NumLevels - 1
  /\ \A l \in 0 .. NumLevels - 2 : l \in Levels /\ l + 1 \in Levels
BY LevelsAssumption DEF Levels

\* Finalize picks a level that has a level below, and files when it is over.
LEMMA LevelToCompact ==
  ASSUME NEW tb, IsTables(tb), NEW n \in Nat, NEW v, GoodVersion(v, tb, n)
  PROVE  /\ CompactionLevel(v) \in 0 .. NumLevels - 2
         /\ SizeCompaction(v) => v[CompactionLevel(v)] # <<>>
<1> DEFINE N == NumLevels - 2
           over == [l \in 0 .. N |-> ScoreOver(v, l)]
           under == [l \in 0 .. N |-> ScoreUnder(l)]
           best == CompactionLevel(v)
<1>1. N \in Nat /\ \A l \in 0 .. N : l \in Levels
  BY LevelsAre
<1>2. ASSUME NEW l \in Levels
      PROVE  /\ Len(v[l]) \in Nat /\ TotalFileSize(v[l]) \in Nat
             /\ (v[l] = <<>> => Len(v[l]) = 0 /\ TotalFileSize(v[l]) = 0)
  <2>1. IsSeq(v[l]) /\ GoodFiles(Range(v[l]), tb, n)
    BY GoodVersionFiles DEF GoodVersion
  <2>2. IsFiniteSet(Range(v[l])) /\ \A f \in Range(v[l]) : f.size \in Nat
    BY <2>1, GoodFileSet, GoodSize DEF FileSet
  <2>3. v[l] = <<>> => Range(v[l]) = {} /\ Len(v[l]) = 0
    BY DEF Range
  <2> QED  BY <2>1, <2>2, <2>3, SizeType DEF IsSeq
<1>3. ASSUME NEW l \in 0 .. N
      PROVE  /\ ScoreOver(v, l) \in Nat /\ ScoreUnder(l) \in Nat \ {0}
             /\ v[l] = <<>> => ScoreOver(v, l) = 0
  <2>1. l \in Levels /\ (l # 0 => l \in 1 .. N) /\ 0 \in Levels
    BY <1>1, LevelsAre
  <2> QED  BY <1>2, <2>1, LevelsAssumption, BytesAssumption DEF ScoreOver, ScoreUnder
<1> HIDE DEF N
<1>4. over \in [0 .. N -> Nat] /\ under \in [0 .. N -> Nat \ {0}]
  BY <1>3
<1>5. \E l \in 0 .. N : \A m \in 0 .. N : MoreNeeded(over, under, l, m)
  BY <1>1, <1>4, MostNeeded
<1>6. \A l, m \in 0 .. N : MoreNeeded(over, under, l, m) <=>
        \/ ScoreOver(v, l) * ScoreUnder(m) > ScoreOver(v, m) * ScoreUnder(l)
        \/ ScoreOver(v, l) * ScoreUnder(m) = ScoreOver(v, m) * ScoreUnder(l) /\ l <= m
  BY DEF MoreNeeded
<1>7. best \in 0 .. N
  <2>1. \E l \in 0 .. N : \A m \in 0 .. N :
          \/ ScoreOver(v, l) * ScoreUnder(m) > ScoreOver(v, m) * ScoreUnder(l)
          \/ ScoreOver(v, l) * ScoreUnder(m) = ScoreOver(v, m) * ScoreUnder(l) /\ l <= m
    BY <1>5, <1>6
  <2>2. best = CHOOSE l \in 0 .. N : \A m \in 0 .. N :
          \/ ScoreOver(v, l) * ScoreUnder(m) > ScoreOver(v, m) * ScoreUnder(l)
          \/ ScoreOver(v, l) * ScoreUnder(m) = ScoreOver(v, m) * ScoreUnder(l) /\ l <= m
    BY Zenon DEF CompactionLevel, N
  <2> QED  BY <2>1, <2>2
<1>8. SizeCompaction(v) => v[best] # <<>>
  <2> SUFFICES ASSUME SizeCompaction(v), v[best] = <<>> PROVE FALSE
    OBVIOUS
  <2>1. ScoreOver(v, best) = 0 /\ ScoreUnder(best) \in Nat \ {0}
    BY <1>3, <1>7
  <2>2. ScoreOver(v, best) >= ScoreUnder(best)
    BY DEF SizeCompaction
  <2> QED  BY <2>1, <2>2
<1> QED  BY <1>7, <1>8 DEF N

(******************************************************************************)
(* The inputs of a compaction are files of the version                        *)
(******************************************************************************)
LEMMA OverlappingInside ==
  ASSUME NEW v, NEW l, IsSeq(v[l]), NEW begin, NEW end
  PROVE  GetOverlappingInputs(v, l, begin, end) \in Seq(Range(v[l]))
<1> DEFINE X == Range(v[l])
<1>1. \E S : GetOverlappingInputs(v, l, begin, end) = Only(v[l], S)
  BY DEF GetOverlappingInputs
<1>2. v[l] \in Seq(X)
  BY DEF IsSeq
<1> HIDE DEF X
<1>3. \A S : Only(v[l], S) \in Seq(X)
  BY <1>2, OnlySelects
<1>4. GetOverlappingInputs(v, l, begin, end) \in Seq(X)
  BY <1>1, <1>3
<1> QED  BY <1>4 DEF X

Boundary(files, key) == FindSmallestBoundaryFile(files, key)

\* A boundary file begins with the user key the largest ends with.
LEMMA BoundaryIs ==
  ASSUME NEW files, FileSet(Range(files)), NEW key, Boundary(files, key) # None,
         NEW f, f = Boundary(files, key)
  PROVE  f \in Range(files) /\ Before(key, f.smallest) /\ UserKey(f.smallest) = UserKey(key)
<1> DEFINE S == {g \in Range(files) : /\ Before(key, g.smallest)
                                      /\ UserKey(g.smallest) = UserKey(key)}
<1>1. Boundary(files, key) = IF S = {} THEN None
                             ELSE CHOOSE g \in S : \A h \in S : ~Before(h.smallest, g.smallest)
  BY DEF Boundary, FindSmallestBoundaryFile
<1>2. S \subseteq Range(files)
  OBVIOUS
<1> HIDE DEF S
<1>3. FileSet(S)
  BY <1>2, FS_Subset DEF FileSet
<1>4. S # {} => \E g \in S : \A h \in S : ~Before(h.smallest, g.smallest)
  <2> SUFFICES ASSUME S # {} PROVE \E g \in S : \A h \in S : ~Before(h.smallest, g.smallest)
    OBVIOUS
  <2>1. IsFiniteSet(S) /\ StrictOrder(S, FileOrder(S))
    BY <1>3, FilesAreOrdered DEF FileSet
  <2>2. PICK g \in S : \A h \in S : <<h, g>> \notin FileOrder(S)
    BY <2>1, LeastMember
  <2>3. \A h \in S : ~BySmallestKey(h, g)
    BY <1>3, <2>2, FilesAreOrdered
  <2> QED  BY <2>3 DEF BySmallestKey
<1>5. f \in S
  BY <1>1, <1>4
<1> QED  BY <1>5 DEF S

\* A boundary file is a file of the level.
LEMMA BoundaryInside ==
  ASSUME NEW files, FileSet(Range(files)), NEW key
  PROVE  Boundary(files, key) = None \/ Boundary(files, key) \in Range(files)
BY BoundaryIs

Grow(files, t) ==
  IF Boundary(files, t.key) = None THEN t
  ELSE [in |-> Append(t.in, Boundary(files, t.key)), key |-> Boundary(files, t.key).largest]

GrownIs(h, files, inputs) ==
  h = [n \in 0 .. Len(files) |->
         IF n = 0 THEN [in |-> inputs, key |-> GetRange(Range(inputs)).largest]
         ELSE Grow(files, h[n - 1])]

\* AddBoundaryInputs, step by step.
LEMMA GrownDef ==
  ASSUME NEW files, NEW inputs, inputs # <<>>, NEW e, GrownIs(e, files, inputs)
  PROVE  \E h : GrownIs(h, files, inputs) /\ AddBoundaryInputs(files, inputs) = h[Len(files)].in
<1> DEFINE h == CHOOSE h : GrownIs(h, files, inputs)
<1>1. GrownIs(h, files, inputs)
  OBVIOUS
<1>2. AddBoundaryInputs(files, inputs) = h[Len(files)].in
  BY Zenon DEF AddBoundaryInputs, GrownIs, Grow, Boundary
<1> HIDE DEF h
<1> QED  BY <1>1, <1>2

\* AddBoundaryInputs adds files of the level.
LEMMA AddBoundaryInside ==
  ASSUME NEW files, IsSeq(files), FileSet(Range(files)), NEW inputs \in Seq(Range(files))
  PROVE  AddBoundaryInputs(files, inputs) \in Seq(Range(files))
<1>1. CASE inputs = <<>>
  BY <1>1 DEF AddBoundaryInputs
<1>2. CASE inputs # <<>>
  <2> DEFINE F == Range(files)
             n == Len(files)
             b == [in |-> inputs, key |-> GetRange(Range(inputs)).largest]
             T == [in : Seq(F), key : {b.key} \cup {f.largest : f \in F}]
             g == [p \in (1 .. n) \X T |-> Grow(files, p[2])]
  <2>1. n \in Nat
    BY DEF IsSeq
  <2>2. b \in T
    OBVIOUS
  <2>3. ASSUME NEW t \in T PROVE Grow(files, t) \in T
    <3>1. CASE Boundary(files, t.key) = None
      BY <3>1 DEF Grow
    <3>2. CASE Boundary(files, t.key) # None
      <4> DEFINE f == Boundary(files, t.key)
      <4>1. f \in F
        BY <3>2, BoundaryInside
      <4>2. t.in \in Seq(F)
        OBVIOUS
      <4> HIDE DEF f, F
      <4>3. Append(t.in, f) \in Seq(F)
        BY <4>1, <4>2, AppendProperties
      <4>4. Grow(files, t) = [in |-> Append(t.in, f), key |-> f.largest]
        BY <3>2 DEF Grow, f
      <4> QED  BY <4>1, <4>3, <4>4
    <3> QED  BY <3>1, <3>2
  <2> HIDE DEF n, b, T
  <2>4. g \in [(1 .. n) \X T -> T]
    BY <2>3
  <2>5. \A i \in 1 .. n, t \in T : g[<<i, t>>] = Grow(files, t)
    OBVIOUS
  <2> HIDE DEF g
  <2>6. PICK e : Iterates(e, n, T, b, g)
    BY <2>1, <2>2, <2>4, RecursiveFunction
  <2>7. GrownIs(e, files, inputs)
    <3>1. e \in [0 .. n -> T] /\ e[0] = b
      BY <2>6 DEF Iterates
    <3>2. ASSUME NEW i \in 0 .. n, i # 0 PROVE e[i] = Grow(files, e[i - 1])
      <4>1. i \in 1 .. n /\ i - 1 \in 0 .. n
        BY <2>1, <3>2
      <4> QED  BY <2>5, <2>6, <3>1, <4>1 DEF Iterates
    <3>3. e = [i \in 0 .. n |-> IF i = 0 THEN b ELSE Grow(files, e[i - 1])]
      BY <3>1, <3>2
    <3> QED  BY <3>3 DEF GrownIs, n, b
  <2>8. PICK h : GrownIs(h, files, inputs) /\ AddBoundaryInputs(files, inputs) = h[n].in
    BY <1>2, <2>7, GrownDef DEF n
  <2>9. Iterates(h, n, T, b, g)
    <3> DEFINE Body(i) == IF i = 0 THEN b ELSE Grow(files, h[i - 1])
    <3>1. h = [i \in 0 .. n |-> Body(i)]
      BY <2>8 DEF GrownIs, n, b
    <3>2. h = [i \in 0 .. n |-> h[i]] /\ \A i \in 0 .. n : h[i] = Body(i)
      <4> HIDE DEF Body
      <4> QED  BY <3>1
    <3>3. h[0] = b /\ \A i \in 1 .. n : h[i] = Grow(files, h[i - 1])
      BY <2>1, <3>2
    <3>4. \A i \in 1 .. n : h[i - 1] \in T => h[i] = g[<<i, h[i - 1]>>]
      BY <2>5, <3>3
    <3> QED  BY <2>1, <2>2, <2>4, <3>2, <3>3, <3>4, IteratesInside
  <2>10. h[n] \in T
    BY <2>1, <2>9 DEF Iterates
  <2> QED  BY <2>8, <2>10 DEF T
<1> QED  BY <1>1, <1>2

\* What the inputs of a compaction of a version are.
Inputs(v, c) ==
  /\ c.level \in 0 .. NumLevels - 2
  /\ c.in0 \in Seq(Range(v[c.level])) /\ c.in1 \in Seq(Range(v[c.level + 1]))

\* SetupOtherInputs takes files of two neighbouring levels.
LEMMA SetupInside ==
  ASSUME NEW tb, IsTables(tb), NEW n \in Nat, NEW v, GoodVersion(v, tb, n),
         NEW level \in 0 .. NumLevels - 2, NEW inputs \in Seq(Range(v[level])),
         NEW c, c = SetupOtherInputs(v, level, inputs)
  PROVE  Inputs(v, c)
<1> DEFINE X == Range(v[level])
           Y == Range(v[level + 1])
<1>1. level \in Levels /\ level + 1 \in Levels
  BY LevelsAre
<1>2. IsSeq(v[level]) /\ FileSet(X) /\ IsSeq(v[level + 1])
  BY <1>1, GoodVersionFiles, GoodFileSet DEF GoodVersion
<1>3. \A in \in Seq(X) : AddBoundaryInputs(v[level], in) \in Seq(X)
  BY <1>2, AddBoundaryInside
<1>4. \A r : Over(v, level, r) \in Seq(X) /\ Over(v, level + 1, r) \in Seq(Y)
  BY <1>2, OverlappingInside DEF Over
<1> HIDE DEF X, Y
<1>5. /\ c.level = level
      /\ \E r : c.in0 \in {AddBoundaryInputs(v[level], inputs),
                            AddBoundaryInputs(v[level], Over(v, level, r))}
      /\ \E r : c.in1 = Over(v, level + 1, r)
  <2> DEFINE in0 == AddBoundaryInputs(v[level], inputs)
             in1 == Over(v, level + 1, GetRange(Range(in0)))
             all == GetRange(Range(in0) \cup Range(in1))
             wide0 == AddBoundaryInputs(v[level], Over(v, level, all))
             use == Widened(v, level, in0, in1, wide0)
  <2>1. c = Compaction(v, level, use[1], use[2])
    BY Zenon DEF SetupOtherInputs
  <2>2. c.level = level /\ c.in0 = use[1] /\ c.in1 = use[2]
    BY <2>1 DEF Compaction
  <2>3. \/ use = <<in0, in1>>
        \/ \E r : use = <<wide0, Over(v, level + 1, r)>>
    BY Zenon DEF Widened
  <2>4. CASE use = <<in0, in1>>
    <3>1. c.in0 = in0 /\ c.in1 = in1
      BY <2>2, <2>4
    <3> QED  BY <3>1, <2>2, Zenon
  <2>5. CASE \E r : use = <<wide0, Over(v, level + 1, r)>>
    <3>1. PICK r : use = <<wide0, Over(v, level + 1, r)>>
      BY <2>5
    <3>2. c.in0 = wide0 /\ c.in1 = Over(v, level + 1, r)
      BY <2>2, <3>1
    <3> QED  BY <3>2, <2>2, Zenon
  <2> QED  BY <2>3, <2>4, <2>5, Zenon
<1>6. c.in0 \in Seq(X) /\ c.in1 \in Seq(Y)
  <2>1. inputs \in Seq(X)
    BY DEF X
  <2> QED  BY <1>3, <1>4, <1>5, <2>1
<1> QED  BY <1>5, <1>6 DEF Inputs, X, Y

\* A compaction is picked from one file of a level of the version.
PickedFiles(v, level, first) ==
  IF level = 0 THEN Over(v, 0, GetRange({first})) ELSE <<first>>

\* The tree starts from one file, and from all it overlaps in level 0.
LEMMA PickedFrom ==
  ASSUME NEW tb, IsTables(tb), NEW n \in Nat, NEW v, GoodVersion(v, tb, n),
         NEW pointers, NEW sk,
         SizeCompaction(v) \/ (sk.level \in 0 .. NumLevels - 2 /\ sk.file \in Range(v[sk.level])),
         NEW c, c = PickCompaction(v, pointers, sk)
  PROVE  \E level \in 0 .. NumLevels - 2 : \E first \in Range(v[level]) :
           c = SetupOtherInputs(v, level, PickedFiles(v, level, first))
<1> DEFINE level == IF SizeCompaction(v) THEN CompactionLevel(v) ELSE sk.level
           past == {i \in DOMAIN v[level] :
                      \/ pointers[level] = NoEntry
                      \/ Before(pointers[level], v[level][i].largest)}
           first == IF ~SizeCompaction(v) THEN sk.file
                    ELSE IF past = {} THEN v[level][1] ELSE v[level][Min(past)]
           X == Range(v[level])
<1>1. c = SetupOtherInputs(v, level, PickedFiles(v, level, first))
  BY DEF PickCompaction, PickedFiles
<1>2. level \in Levels /\ level \in 0 .. NumLevels - 2
      /\ (SizeCompaction(v) => v[level] # <<>>)
  BY LevelToCompact, LevelsAre
<1>3. IsSeq(v[level])
  BY <1>2, GoodVersionFiles DEF GoodVersion
<1>4. Len(v[level]) \in Nat /\ DOMAIN v[level] = 1 .. Len(v[level])
      /\ \A i \in 1 .. Len(v[level]) : v[level][i] \in X
  <2>1. v[level] \in Seq(X)
    BY <1>3 DEF IsSeq
  <2> HIDE DEF level, X
  <2> QED  BY <2>1
<1>5. first \in X
  <2>1. CASE ~SizeCompaction(v)
    BY <2>1
  <2>2. CASE SizeCompaction(v) /\ past = {}
    <3>1. Len(v[level]) # 0
      <4>1. v[level] \in Seq(X) /\ v[level] # <<>>
        BY <1>2, <1>3, <2>2 DEF IsSeq
      <4> HIDE DEF level, X
      <4> QED  BY <4>1
    <3>2. 1 \in 1 .. Len(v[level])
      BY <1>4, <3>1
    <3> QED  BY <1>4, <2>2, <3>2
  <2>3. CASE SizeCompaction(v) /\ past # {}
    <3>1. past \subseteq 1 .. Len(v[level]) /\ past \subseteq Nat
      BY <1>4
    <3> HIDE DEF past
    <3>2. Min(past) \in past
      BY <2>3, <3>1, MinOfSome
    <3>3. first = v[level][Min(past)]
      BY <2>3
    <3> QED  BY <1>4, <3>1, <3>2, <3>3
  <2> QED  BY <2>1, <2>2, <2>3
<1> HIDE DEF first, past, level
<1> QED  BY <1>1, <1>2, <1>5

\* A compaction picked moves or merges files of one level of the version.
LEMMA PickedInside ==
  ASSUME NEW tb, IsTables(tb), NEW n \in Nat, NEW v, GoodVersion(v, tb, n),
         NEW pointers, NEW sk,
         SizeCompaction(v) \/ (sk.level \in 0 .. NumLevels - 2 /\ sk.file \in Range(v[sk.level])),
         NEW c, c = PickCompaction(v, pointers, sk)
  PROVE  Inputs(v, c)
<1>1. PICK level \in 0 .. NumLevels - 2 : \E first \in Range(v[level]) :
        c = SetupOtherInputs(v, level, PickedFiles(v, level, first))
  BY PickedFrom
<1>2. PICK first \in Range(v[level]) : c = SetupOtherInputs(v, level, PickedFiles(v, level, first))
  BY <1>1
<1>3. IsSeq(v[level])
  BY LevelsAre, GoodVersionFiles DEF GoodVersion
<1>4. PickedFiles(v, level, first) \in Seq(Range(v[level]))
  <2>1. CASE level = 0
    BY <1>3, <2>1, OverlappingInside DEF PickedFiles, Over
  <2>2. CASE level # 0
    BY <2>2 DEF PickedFiles
  <2> QED  BY <2>1, <2>2
<1> QED  BY <1>2, <1>4, SetupInside

\* A compaction of a range is set up from some files of the level named.
LEMMA RangeFrom ==
  ASSUME NEW tb, IsTables(tb), NEW n \in Nat, NEW v, GoodVersion(v, tb, n),
         NEW level \in 0 .. NumLevels - 2, NEW begin, NEW end,
         NEW c, c = CompactRange(v, level, begin, end), c # None
  PROVE  \E inputs \in Seq(Range(v[level])) :
           inputs # <<>> /\ c = SetupOtherInputs(v, level, inputs)
<1> DEFINE files == GetOverlappingInputs(v, level, begin, end)
           large == {i \in DOMAIN files : TotalFileSize(SubSeq(files, 1, i)) >= MaxFileSize}
           inputs == IF level = 0 \/ large = {} THEN files
                     ELSE SubSeq(files, 1, Min(large))
           X == Range(v[level])
<1>1. level \in Levels /\ IsSeq(v[level])
  BY LevelsAre, GoodVersionFiles DEF GoodVersion
<1>2. files \in Seq(X)
  BY <1>1, OverlappingInside
<1>3. c = SetupOtherInputs(v, level, inputs) /\ files # <<>>
  BY Zenon DEF CompactRange
<1> HIDE DEF files, X
<1>4. inputs \in Seq(X) /\ inputs # <<>>
  <2>1. CASE level = 0 \/ large = {}
    BY <1>2, <1>3, <2>1
  <2>2. CASE ~(level = 0 \/ large = {})
    <3>1. large \subseteq 1 .. Len(files) /\ large \subseteq Nat /\ Len(files) \in Nat
      BY <1>2
    <3> HIDE DEF large
    <3>2. Min(large) \in large
      BY <2>2, <3>1, MinOfSome
    <3> DEFINE m == Min(large)
               q == SubSeq(files, 1, m)
    <3>3. m \in 1 .. Len(files)
      BY <3>1, <3>2
    <3> HIDE DEF m
    <3>4. q \in Seq(X) /\ Len(q) = m
      BY <1>2, <3>1, <3>3, SubSeqProperties
    <3>5. q # <<>>
      BY <3>3, <3>4
    <3>6. inputs = q
      BY <2>2 DEF m
    <3> HIDE DEF q, inputs
    <3> QED  BY <3>4, <3>5, <3>6
  <2> QED  BY <2>1, <2>2
<1> HIDE DEF inputs
<1> QED  BY <1>3, <1>4 DEF X

\* A compaction of a range takes files of two neighbouring levels too.
LEMMA RangeInside ==
  ASSUME NEW tb, IsTables(tb), NEW n \in Nat, NEW v, GoodVersion(v, tb, n),
         NEW level \in 0 .. NumLevels - 2, NEW begin, NEW end,
         NEW c, c = CompactRange(v, level, begin, end), c # None
  PROVE  Inputs(v, c)
<1>1. PICK inputs \in Seq(Range(v[level])) : c = SetupOtherInputs(v, level, inputs)
  BY RangeFrom
<1> QED  BY <1>1, SetupInside

(******************************************************************************)
(* The binary search stays inside the level                                   *)
(******************************************************************************)
Halving(files, ikey, h, p) ==
  IF p[1] >= p[2] THEN p[2]
  ELSE IF Before(files[(p[1] + p[2]) \div 2].largest, ikey)
       THEN h[<<(p[1] + p[2]) \div 2 + 1, p[2]>>]
       ELSE h[<<p[1], (p[1] + p[2]) \div 2>>]

SearchIs(h, files, ikey) ==
  h = [p \in (1 .. (Len(files) + 1)) \X (1 .. (Len(files) + 1)) |->
         Halving(files, ikey, h, p)]

\* FindFile, one halving at a time.
LEMMA SearchDef ==
  ASSUME NEW files, NEW ikey, NEW e, SearchIs(e, files, ikey)
  PROVE  \E h : SearchIs(h, files, ikey) /\ FindFile(files, ikey) = h[<<1, Len(files) + 1>>]
<1> DEFINE h == CHOOSE h : SearchIs(h, files, ikey)
<1>1. SearchIs(h, files, ikey)
  OBVIOUS
<1>2. FindFile(files, ikey) = h[<<1, Len(files) + 1>>]
  BY Zenon DEF FindFile, SearchIs, Halving
<1> HIDE DEF h
<1> QED  BY <1>1, <1>2

Narrow(N, m) == {p \in (1 .. N) \X (1 .. N) : p[2] - p[1] <= m}

\* Each half is narrower.
LEMMA Halves ==
  ASSUME NEW N \in Nat, NEW m \in Nat, NEW p \in Narrow(N, m + 1), ~(p[1] >= p[2])
  PROVE  /\ <<(p[1] + p[2]) \div 2 + 1, p[2]>> \in Narrow(N, m)
         /\ <<p[1], (p[1] + p[2]) \div 2>> \in Narrow(N, m)
<1> DEFINE l == p[1]
           r == p[2]
           mid == (l + r) \div 2
<1>0. l \in 1 .. N /\ r \in 1 .. N /\ r - l <= m + 1 /\ l < r
  BY DEF Narrow
<1> HIDE DEF l, r
<1>1. mid \in Nat /\ l <= mid /\ mid + 1 <= r
  BY <1>0
<1> HIDE DEF mid
<1>2. mid + 1 \in 1 .. N /\ mid \in 1 .. N /\ r - (mid + 1) <= m /\ mid - l <= m
  BY <1>0, <1>1
<1>3. <<mid + 1, r>> \in Narrow(N, m) /\ <<l, mid>> \in Narrow(N, m)
  BY <1>0, <1>2 DEF Narrow
<1> QED  BY <1>3 DEF mid, l, r

\* The halvings end.
LEMMA SearchExists ==
  ASSUME NEW files, Len(files) \in Nat, NEW ikey
  PROVE  \E h : SearchIs(h, files, ikey)
<1> DEFINE N == Len(files) + 1
           Is(h, m) == h = [p \in Narrow(N, m) |-> Halving(files, ikey, h, p)]
           T == {m \in Nat : \E h : Is(h, m)}
<1>1. N \in Nat
  OBVIOUS
<1> HIDE DEF N
<1>2. 0 \in T
  <2> DEFINE h == [p \in Narrow(N, 0) |-> p[2]]
  <2>1. \A p \in Narrow(N, 0) : Halving(files, ikey, h, p) = p[2]
    <3> SUFFICES ASSUME NEW p \in Narrow(N, 0) PROVE Halving(files, ikey, h, p) = p[2]
      OBVIOUS
    <3>1. p[1] >= p[2]
      BY <1>1 DEF Narrow
    <3> HIDE DEF h
    <3> QED  BY <3>1 DEF Halving
  <2>2. Is(h, 0)
    BY <2>1
  <2> HIDE DEF h
  <2> QED  BY <2>2
<1>3. ASSUME NEW m \in Nat, m \in T PROVE m + 1 \in T
  <2>1. PICK h : Is(h, m)
    BY <1>3
  <2> DEFINE k == [p \in Narrow(N, m + 1) |-> Halving(files, ikey, h, p)]
  <2>2. ASSUME NEW p \in Narrow(N, m) PROVE k[p] = h[p]
    <3>1. p \in Narrow(N, m + 1)
      BY <1>1 DEF Narrow
    <3> QED  BY <2>1, <3>1
  <2>3. ASSUME NEW p \in Narrow(N, m + 1)
        PROVE  Halving(files, ikey, h, p) = Halving(files, ikey, k, p)
    <3> HIDE DEF k
    <3>1. CASE p[1] >= p[2]
      BY <3>1 DEF Halving
    <3>2. CASE ~(p[1] >= p[2])
      <4> DEFINE low == <<(p[1] + p[2]) \div 2 + 1, p[2]>>
                 high == <<p[1], (p[1] + p[2]) \div 2>>
      <4>1. low \in Narrow(N, m) /\ high \in Narrow(N, m)
        BY <1>1, <3>2, Halves
      <4>2. k[low] = h[low] /\ k[high] = h[high]
        <5> HIDE DEF low, high
        <5> QED  BY <2>2, <4>1
      <4>3. Halving(files, ikey, h, p)
              = (IF Before(files[(p[1] + p[2]) \div 2].largest, ikey) THEN h[low] ELSE h[high])
        BY <3>2 DEF Halving
      <4>4. Halving(files, ikey, k, p)
              = (IF Before(files[(p[1] + p[2]) \div 2].largest, ikey) THEN k[low] ELSE k[high])
        BY <3>2 DEF Halving
      <4> HIDE DEF low, high
      <4> QED  BY <4>2, <4>3, <4>4
    <3> QED  BY <3>1, <3>2
  <2>4. Is(k, m + 1)
    BY <2>3
  <2> HIDE DEF k
  <2> QED  BY <2>4
<1>4. N \in T
  <2> HIDE DEF T
  <2> QED  BY <1>1, <1>2, <1>3, NatSetInduction
<1>5. Narrow(N, N) = (1 .. N) \X (1 .. N)
  BY <1>1 DEF Narrow
<1>6. PICK h : h = [p \in (1 .. N) \X (1 .. N) |-> Halving(files, ikey, h, p)]
  BY <1>4, <1>5
<1> QED  BY <1>6 DEF SearchIs, N

\* FindFile gives a position in the level, or the one behind it.
LEMMA FindFileInside ==
  ASSUME NEW files, Len(files) \in Nat, NEW ikey
  PROVE  FindFile(files, ikey) \in 1 .. Len(files) + 1
<1> DEFINE N == Len(files) + 1
<1>1. N \in Nat /\ 1 \in 1 .. N /\ N \in 1 .. N
  OBVIOUS
<1>2. PICK h : SearchIs(h, files, ikey) /\ FindFile(files, ikey) = h[<<1, N>>]
  BY SearchExists, SearchDef
<1>3. h = [p \in (1 .. N) \X (1 .. N) |-> Halving(files, ikey, h, p)]
  BY <1>2 DEF SearchIs
<1> HIDE DEF N
<1>4. \A p \in (1 .. N) \X (1 .. N) : h[p] = Halving(files, ikey, h, p)
  BY <1>3
<1> DEFINE T == {m \in Nat : \A p \in Narrow(N, m) : h[p] \in 1 .. N}
<1>5. 0 \in T
  <2> SUFFICES ASSUME NEW p \in Narrow(N, 0) PROVE h[p] \in 1 .. N
    OBVIOUS
  <2>1. p \in (1 .. N) \X (1 .. N) /\ p[2] \in 1 .. N /\ p[1] >= p[2]
    BY <1>1 DEF Narrow
  <2>2. h[p] = Halving(files, ikey, h, p)
    BY <1>4, <2>1
  <2> QED  BY <2>1, <2>2 DEF Halving
<1>6. ASSUME NEW m \in Nat, m \in T PROVE m + 1 \in T
  <2> SUFFICES ASSUME NEW p \in Narrow(N, m + 1) PROVE h[p] \in 1 .. N
    OBVIOUS
  <2>1. p \in (1 .. N) \X (1 .. N) /\ p[2] \in 1 .. N
    BY <1>1 DEF Narrow
  <2>2. h[p] = Halving(files, ikey, h, p)
    BY <1>4, <2>1
  <2>3. CASE p[1] >= p[2]
    BY <2>1, <2>2, <2>3 DEF Halving
  <2>4. CASE ~(p[1] >= p[2])
    <3> DEFINE low == <<(p[1] + p[2]) \div 2 + 1, p[2]>>
               high == <<p[1], (p[1] + p[2]) \div 2>>
    <3>1. low \in Narrow(N, m) /\ high \in Narrow(N, m)
      BY <1>1, <2>4, Halves
    <3>2. h[p] \in {h[low], h[high]}
      BY <2>2, <2>4 DEF Halving
    <3> HIDE DEF low, high
    <3>3. h[low] \in 1 .. N /\ h[high] \in 1 .. N
      BY <1>6, <3>1
    <3> QED  BY <3>2, <3>3
  <2> QED  BY <2>3, <2>4
<1>7. N \in T
  <2> HIDE DEF T
  <2> QED  BY <1>1, <1>5, <1>6, NatSetInduction
<1> DEFINE whole == <<1, N>>
<1>8. whole \in Narrow(N, N)
  BY <1>1 DEF Narrow
<1> HIDE DEF whole
<1>9. h[whole] \in 1 .. N
  BY <1>7, <1>8
<1> QED  BY <1>2, <1>9 DEF N, whole

NewerFirst(S) == {p \in S \X S : p[1].number > p[2].number}

\* A look-up in one level opens files of that level.
LEMMA SearchedInside ==
  ASSUME NEW tb, IsTables(tb), NEW n \in Nat, NEW v, GoodVersion(v, tb, n),
         NEW l \in Levels, NEW ikey
  PROVE  FilesToSearch(v, l, ikey) \in Seq(Range(v[l]))
<1>1. IsSeq(v[l]) /\ FileSet(Range(v[l])) /\ IsFiniteSet(Range(v[l]))
  BY GoodVersionFiles, GoodFileSet, SeqOver DEF GoodVersion, IsSeq
<1>2. CASE l = 0
  <2> DEFINE S == {f \in Range(v[l]) : CoversUserKey(f, UserKey(ikey))}
             R == NewerFirst(S)
             q == InOrder(S, LAMBDA f, g : f.number > g.number)
  <2>0. FilesToSearch(v, l, ikey) = q
    BY <1>2 DEF FilesToSearch
  <2>1. S \in SUBSET Range(v[l]) /\ IsFiniteSet(S)
    BY <1>1, FS_Subset
  <2>2. \A f \in S : f.number \in Nat
    BY <1>1 DEF FileSet
  <2>3. \A f, g \in S : f.number = g.number => f = g
    BY <1>1 DEF FileSet
  <2> HIDE DEF S
  <2>4. \A f, g \in S : <<f, g>> \in R <=> f.number > g.number
    BY DEF NewerFirst
  <2> HIDE DEF R
  <2>5. StrictOrder(S, R)
    BY <2>2, <2>3, <2>4 DEF StrictOrder
  <2>6. \A x \in S : Below(S, R, x) = {y \in S : y.number > x.number}
    BY <2>4 DEF Below
  <2> DEFINE First(i) == CHOOSE x \in S : Cardinality({y \in S : y.number > x.number}) = i - 1
  <2>7. q = [i \in 1 .. Cardinality(S) |-> First(i)]
    BY DEF InOrder
  <2> HIDE DEF q
  <2>8. Ranks(q, S, R)
    <3>1. ASSUME NEW i \in 1 .. Cardinality(S), NEW x \in S,
                 Cardinality(Below(S, R, x)) = i - 1
          PROVE  q[i] \in S /\ Cardinality(Below(S, R, q[i])) = i - 1
      <4>1. Cardinality({y \in S : y.number > x.number}) = i - 1
        BY <2>6, <3>1
      <4>2. First(i) \in S /\ Cardinality({y \in S : y.number > First(i).number}) = i - 1
        BY <4>1
      <4> HIDE DEF First
      <4> QED  BY <2>6, <2>7, <4>2
    <3>2. q = [i \in 1 .. Cardinality(S) |-> q[i]]
      <4> HIDE DEF First
      <4> QED  BY <2>7
    <3> QED  BY <3>1, <3>2 DEF Ranks
  <2>9. q \in Seq(S)
    BY <2>1, <2>5, <2>8, RanksList
  <2>10. q \in Seq(Range(v[l]))
    BY <2>1, <2>9
  <2> QED  BY <2>0, <2>10
<1>3. CASE l # 0
  <2> DEFINE i == FindFile(v[l], ikey)
             X == Range(v[l])
  <2>1. v[l] \in Seq(X) /\ Len(v[l]) \in Nat
    BY <1>1 DEF IsSeq
  <2>2. i \in 1 .. Len(v[l]) + 1
    BY <2>1, FindFileInside
  <2>3. FilesToSearch(v, l, ikey)
          = IF i > Len(v[l]) \/ UserKey(ikey) < UserKey(v[l][i].smallest) THEN <<>> ELSE <<v[l][i]>>
    BY <1>3 DEF FilesToSearch
  <2> HIDE DEF i, X
  <2>4. CASE i > Len(v[l]) \/ UserKey(ikey) < UserKey(v[l][i].smallest)
    <3>1. <<>> \in Seq(X)
      OBVIOUS
    <3> QED  BY <2>3, <2>4, <3>1 DEF X
  <2>5. CASE ~(i > Len(v[l]) \/ UserKey(ikey) < UserKey(v[l][i].smallest))
    <3>1. v[l][i] \in X
      BY <2>1, <2>2, <2>5
    <3> QED  BY <2>3, <2>5, <3>1 DEF X
  <2> QED  BY <2>4, <2>5
<1> QED  BY <1>2, <1>3

SearchAbove(h, v, ikey) ==
  h = [l \in 0 .. NumLevels |->
         IF l = 0 THEN <<>> ELSE h[l - 1] \o FilesToSearch(v, l - 1, ikey)]

\* The order of a look-up, level by level.
LEMMA SearchOrderDef ==
  ASSUME NEW v, NEW ikey, NEW e, SearchAbove(e, v, ikey)
  PROVE  \E h : SearchAbove(h, v, ikey) /\ SearchOrder(v, ikey) = h[NumLevels]
<1> DEFINE h == CHOOSE h : SearchAbove(h, v, ikey)
<1>1. SearchAbove(h, v, ikey)
  OBVIOUS
<1>2. SearchOrder(v, ikey) = h[NumLevels]
  BY Zenon DEF SearchOrder, SearchAbove
<1> HIDE DEF h
<1> QED  BY <1>1, <1>2

\* The search goes through the levels, one after the other.
Searches(h, v, ikey) ==
  /\ \A l \in 0 .. NumLevels : h[l] \in Seq(FilesOf(v))
  /\ h[0] = <<>>
  /\ \A l \in 1 .. NumLevels : h[l] = h[l - 1] \o FilesToSearch(v, l - 1, ikey)
  /\ SearchOrder(v, ikey) = h[NumLevels]

\* A look-up opens files of the version only.
LEMMA SearchOrderInside ==
  ASSUME NEW tb, IsTables(tb), NEW n \in Nat, NEW v, GoodVersion(v, tb, n), NEW ikey
  PROVE  \E h : Searches(h, v, ikey)
<1> DEFINE N == NumLevels
           F == FilesOf(v)
           T == Seq(F)
           b == <<>>
           at == [i \in 1 .. N |-> FilesToSearch(v, i - 1, ikey)]
           g == [p \in (1 .. N) \X T |-> p[2] \o at[p[1]]]
<1>1. N \in Nat /\ \A i \in 1 .. N : i - 1 \in Levels /\ i \in 0 .. N /\ i # 0
  BY LevelsAre
<1>2. ASSUME NEW i \in 1 .. N PROVE at[i] \in T
  <2>1. FilesToSearch(v, i - 1, ikey) \in Seq(Range(v[i - 1]))
    BY <1>1, SearchedInside
  <2>2. Range(v[i - 1]) \subseteq F
    BY <1>1, GoodVersionFiles
  <2> QED  BY <2>1, <2>2
<1>3. b \in T /\ \A s, t \in T : s \o t \in T
  OBVIOUS
<1>4. \A i \in 1 .. N : at[i] = FilesToSearch(v, i - 1, ikey)
  OBVIOUS
<1> HIDE DEF N, F, T, at, b
<1>5. g \in [(1 .. N) \X T -> T]
  BY <1>2, <1>3
<1>6. \A i \in 1 .. N, t \in T : g[<<i, t>>] = t \o at[i]
  OBVIOUS
<1> HIDE DEF g
<1>7. PICK e : Iterates(e, N, T, b, g)
  BY <1>1, <1>3, <1>5, RecursiveFunction
<1>8. e \in [0 .. N -> T] /\ e[0] = b /\ \A i \in 1 .. N : e[i] = g[<<i, e[i - 1]>>]
  BY <1>7 DEF Iterates
<1>9. ASSUME NEW l \in 0 .. N, l # 0 PROVE e[l] = e[l - 1] \o FilesToSearch(v, l - 1, ikey)
  <2>1. l \in 1 .. N /\ l - 1 \in 0 .. N
    BY <1>1, <1>9
  <2>2. e[l - 1] \in T
    BY <1>8, <2>1
  <2> QED  BY <1>4, <1>6, <1>8, <2>1, <2>2
<1>10. SearchAbove(e, v, ikey)
  BY <1>8, <1>9 DEF SearchAbove, N, b
<1>11. PICK h : SearchAbove(h, v, ikey) /\ SearchOrder(v, ikey) = h[N]
  BY <1>10, SearchOrderDef DEF N
<1> DEFINE Rest(l) == IF l = 0 THEN <<>> ELSE h[l - 1] \o FilesToSearch(v, l - 1, ikey)
<1>12. \A l \in 0 .. N : h[l] = Rest(l)
  <2>1. h = [l \in 0 .. N |-> Rest(l)]
    BY <1>11 DEF SearchAbove, N
  <2> HIDE DEF Rest
  <2> QED  BY <2>1
<1> DEFINE Good == {l \in 0 .. N : h[l] \in T}
<1>13. 0 \in Good
  BY <1>1, <1>3, <1>12 DEF b
<1>14. ASSUME NEW i \in 1 .. N, i - 1 \in Good PROVE i \in Good
  <2>1. h[i] = h[i - 1] \o at[i]
    BY <1>1, <1>4, <1>12
  <2> QED  BY <1>1, <1>2, <1>3, <1>14, <2>1
<1>15. \A i \in 0 .. N : i \in Good
  <2> HIDE DEF Good
  <2> QED  BY <1>1, <1>13, <1>14, UptoInduction
<1>16. \A i \in 0 .. N : h[i] \in T
  BY <1>15
<1>17. ASSUME NEW i \in 1 .. N PROVE h[i] = h[i - 1] \o FilesToSearch(v, i - 1, ikey)
  BY <1>1, <1>12
<1>18. h[0] = <<>>
  BY <1>1, <1>12
<1> QED  BY <1>11, <1>16, <1>17, <1>18 DEF Searches, T, F, N

\* What is charged is a file of the version, and there is a level below its level.
LEMMA ChargeInside ==
  ASSUME NEW tb, IsTables(tb), NEW n \in Nat, NEW v, GoodVersion(v, tb, n), NEW ikey,
         NEW sk, sk = SeekCharge(v, ikey)
  PROVE  sk = None \/ (sk.level \in 0 .. NumLevels - 2 /\ sk.file \in Range(v[sk.level]))
<1> DEFINE order == SearchOrder(v, ikey)
           S == {l \in Levels : FilesToSearch(v, l, ikey) # <<>>}
           N == NumLevels
           F == FilesOf(v)
           T == Seq(F)
<1>1. PICK h : Searches(h, v, ikey)
  BY SearchOrderInside
<1>2. sk = IF Len(order) < 2 THEN None ELSE [file |-> order[1], level |-> Min(S)]
  BY DEF SeekCharge
<1> SUFFICES ASSUME ~(Len(order) < 2)
             PROVE  sk.level \in 0 .. N - 2 /\ sk.file \in Range(v[sk.level])
  BY <1>2
<1>3. N \in Nat /\ N >= 2 /\ Levels = 0 .. N - 1
  BY LevelsAre
<1>4. /\ \A l \in 0 .. N : h[l] \in T
      /\ h[0] = <<>> /\ order = h[N]
      /\ \A l \in 1 .. N : h[l] = h[l - 1] \o FilesToSearch(v, l - 1, ikey)
  BY <1>1 DEF Searches
<1>5. \A l \in Levels : FilesToSearch(v, l, ikey) \in Seq(Range(v[l])) /\ Range(v[l]) \subseteq F
  BY SearchedInside, GoodVersionFiles
<1> HIDE DEF S, N, F, T
\* Nothing has been met before the first level with something to search.
<1>6. ASSUME NEW m \in 0 .. N, \A l \in Levels : l < m => l \notin S
      PROVE  h[m] = <<>>
  <2> DEFINE Good == {i \in 0 .. N : i <= m => h[i] = <<>>}
  <2>1. 0 \in Good
    BY <1>3, <1>4
  <2>2. ASSUME NEW i \in 1 .. N, i - 1 \in Good PROVE i \in Good
    <3> SUFFICES ASSUME i <= m PROVE h[i] = <<>>
      BY <1>3
    <3>1. i - 1 \in Levels /\ i - 1 < m
      BY <1>3
    <3>2. FilesToSearch(v, i - 1, ikey) = <<>>
      BY <1>6, <3>1 DEF S
    <3>3. h[i - 1] = <<>>
      BY <2>2, <3>1
    <3>4. h[i] = h[i - 1] \o FilesToSearch(v, i - 1, ikey)
      BY <1>4
    <3>5. <<>> \o <<>> = <<>>
      OBVIOUS
    <3> QED  BY <3>2, <3>3, <3>4, <3>5
  <2>3. \A i \in 0 .. N : i \in Good
    <3> HIDE DEF Good
    <3> QED  BY <1>3, <2>1, <2>2, UptoInduction
  <2> QED  BY <1>3, <2>3
<1>7. S # {}
  <2> SUFFICES ASSUME S = {} PROVE FALSE
    OBVIOUS
  <2>1. h[N] = <<>>
    BY <1>3, <1>6
  <2> QED  BY <1>4, <2>1
<1>8. PICK m \in S : \A i \in S : m <= i
  <2>1. S \subseteq Nat
    BY <1>3 DEF S
  <2> QED  BY <1>7, <2>1, Smallest
<1>9. Min(S) = m
  <2>1. \A x, y \in S : x <= y /\ y <= x => x = y
    BY <1>3 DEF S
  <2>2. Min(S) \in S /\ \A i \in S : Min(S) <= i
    BY <1>8 DEF Min
  <2> QED  BY <1>8, <2>1, <2>2
<1> DEFINE q == FilesToSearch(v, m, ikey)
<1>10. m \in Levels /\ m \in 0 .. N - 1 /\ m + 1 \in 1 .. N /\ q # <<>>
  BY <1>3, <1>8 DEF S
<1>11. q \in Seq(Range(v[m])) /\ q \in T /\ Len(q) \in Nat /\ Len(q) # 0
  BY <1>5, <1>10 DEF T
<1>12. h[m] = <<>>
  <2>1. \A l \in Levels : l < m => l \notin S
    BY <1>3, <1>8, <1>10
  <2> QED  BY <1>3, <1>6, <1>10, <2>1
<1>13. h[m + 1] = q
  <2>0. (m + 1) - 1 = m
    BY <1>3, <1>10
  <2>1. h[m + 1] = h[m] \o q
    BY <1>4, <1>10, <2>0
  <2> HIDE DEF q
  <2> QED  BY <1>11, <1>12, <2>1 DEF T
<1>14. ASSUME NEW s \in T, NEW t \in T, Len(s) >= 1
       PROVE  Len(s \o t) >= 1 /\ (s \o t)[1] = s[1]
  BY <1>14 DEF T
<1> HIDE DEF q
<1> DEFINE Good == {i \in 0 .. N : m + 1 <= i => Len(h[i]) >= 1 /\ h[i][1] = q[1]}
<1>15. 0 \in Good
  BY <1>3, <1>10
<1>16. ASSUME NEW i \in 1 .. N, i - 1 \in Good PROVE i \in Good
  <2>1. CASE i = m + 1
    BY <1>3, <1>11, <1>13, <2>1
  <2>2. CASE i < m + 1
    BY <1>3, <1>10, <2>2
  <2>3. CASE i > m + 1
    <3>1. Len(h[i - 1]) >= 1 /\ h[i - 1][1] = q[1] /\ i - 1 \in 0 .. N /\ i - 1 \in Levels
      BY <1>3, <1>10, <1>16, <2>3
    <3>2. FilesToSearch(v, i - 1, ikey) \in T
      BY <1>5, <3>1 DEF T
    <3>3. h[i] = h[i - 1] \o FilesToSearch(v, i - 1, ikey)
      BY <1>4
    <3>4. Len(h[i]) >= 1 /\ h[i][1] = q[1]
      <4> DEFINE s == h[i - 1]
                 t == FilesToSearch(v, i - 1, ikey)
      <4>1. s \in T /\ t \in T /\ Len(s) >= 1 /\ s[1] = q[1] /\ h[i] = s \o t
        BY <1>4, <3>1, <3>2, <3>3
      <4> HIDE DEF s, t
      <4> QED  BY <1>14, <4>1
    <3> QED  BY <1>3, <3>4
  <2> QED  BY <1>3, <1>10, <2>1, <2>2, <2>3
<1>17. \A i \in 0 .. N : i \in Good
  <2> HIDE DEF Good
  <2> QED  BY <1>3, <1>15, <1>16, UptoInduction
<1>18. order[1] = q[1]
  BY <1>3, <1>4, <1>10, <1>17
<1>19. q[1] \in Range(v[m])
  BY <1>11
<1>20. m # N - 1
  <2> SUFFICES ASSUME m = N - 1 PROVE FALSE
    OBVIOUS
  <2>1. m # 0 /\ m + 1 = N
    BY <1>3
  <2>2. order = q
    BY <1>4, <1>13, <2>1
  <2>3. q = <<>> \/ q = <<v[m][FindFile(v[m], ikey)]>>
    BY <2>1 DEF FilesToSearch, q
  <2>4. Len(q) < 2
    <3>1. CASE q = <<>>
      BY <3>1
    <3>2. CASE q = <<v[m][FindFile(v[m], ikey)]>>
      BY <3>2
    <3> QED  BY <2>3, <3>1, <3>2
  <2> QED  BY <2>2, <2>4
<1>21. m \in 0 .. N - 2
  BY <1>3, <1>10, <1>20
<1> QED  BY <1>2, <1>9, <1>18, <1>19, <1>21 DEF N

(******************************************************************************)
(* What a compaction writes: sets of the entries kept, none of them empty     *)
(******************************************************************************)
Passed(c, keys, i, from) ==
  {f \in Range(c.grandparents) : /\ Before(f.largest, keys[i])
                                 /\ ~Before(f.largest, keys[from])}
AddKey(kept, s, e) ==
  IF e \notin kept THEN s
  ELSE LET files == IF s.open
                    THEN ReplaceAt(s.files, Len(s.files), Last(s.files) \cup {e})
                    ELSE Append(s.files, {e})
       IN  [s EXCEPT !.files = files,
                     !.open = Cardinality(Last(files)) < MaxFileSize]
OutputStep(c, keys, kept, i, s) ==
  LET stop == MapThenSumSet(LAMBDA f : f.size, Passed(c, keys, i, s.from)) > GrandParentLimit
  IN  AddKey(kept, IF stop THEN [s EXCEPT !.open = FALSE, !.from = i] ELSE s, keys[i])
OutputIs(h, c, keys, kept) ==
  h = [i \in 0 .. Len(keys) |->
         IF i = 0 THEN [files |-> <<>>, open |-> FALSE, from |-> 1]
         ELSE OutputStep(c, keys, kept, i, h[i - 1])]

\* The outputs of a compaction, key by key.
LEMMA OutputsDef ==
  ASSUME NEW c, NEW entries, NEW kept, NEW e, OutputIs(e, c, Sorted(entries), kept)
  PROVE  \E h : /\ OutputIs(h, c, Sorted(entries), kept)
                /\ Outputs(c, entries, kept) = h[Len(Sorted(entries))].files
<1> DEFINE h == CHOOSE h : OutputIs(h, c, Sorted(entries), kept)
<1>1. OutputIs(h, c, Sorted(entries), kept)
  OBVIOUS
<1>2. Outputs(c, entries, kept) = h[Len(Sorted(entries))].files
  BY Zenon DEF Outputs, OutputIs, OutputStep, AddKey, Passed
<1> HIDE DEF h
<1> QED  BY <1>1, <1>2

OutputState(kept, n) ==
  {s \in [files : Seq((SUBSET kept) \ {{}}), open : BOOLEAN, from : 1 .. n] :
     s.open => s.files # <<>>}

\* A key is added to the open file, or to a new one.
LEMMA AddKeyType ==
  ASSUME NEW kept, IsFiniteSet(kept), NEW n \in Nat, NEW s \in OutputState(kept, n), NEW e
  PROVE  AddKey(kept, s, e) \in OutputState(kept, n)
<1> DEFINE X == (SUBSET kept) \ {{}}
           files == IF s.open
                    THEN ReplaceAt(s.files, Len(s.files), Last(s.files) \cup {e})
                    ELSE Append(s.files, {e})
           fits == Cardinality(Last(files)) < MaxFileSize
           t == [s EXCEPT !.files = files, !.open = fits]
<1>1. s.files \in Seq(X) /\ s.open \in BOOLEAN /\ s.from \in 1 .. n /\ (s.open => s.files # <<>>)
      /\ s \in [files : Seq(X), open : BOOLEAN, from : 1 .. n]
  BY DEF OutputState
<1>2. CASE e \notin kept
  BY <1>2 DEF AddKey
<1>3. CASE e \in kept
  <2>1. AddKey(kept, s, e) = t
    BY <1>3 DEF AddKey
  <2>2. files \in Seq(X) /\ files # <<>>
    <3>1. CASE s.open
      <4>1. Len(s.files) \in 1 .. Len(s.files) /\ Last(s.files) = s.files[Len(s.files)]
            /\ s.files[Len(s.files)] \in X
        BY <1>1, <3>1 DEF Last
      <4> DEFINE k == Len(s.files)
                 y == Last(s.files) \cup {e}
      <4>2. y \in X /\ k \in 1 .. k
        <5>1. Last(s.files) \subseteq kept
          BY <4>1
        <5>2. y \subseteq kept /\ e \in y
          BY <1>3, <5>1
        <5> HIDE DEF y
        <5> QED  BY <4>1, <5>2
      <4>3. files = ReplaceAt(s.files, k, y)
        BY <3>1
      <4> HIDE DEF y, X, files
      <4>4. files = [s.files EXCEPT ![k] = y]
        BY <4>2, <4>3 DEF ReplaceAt
      <4>5. files \in Seq(X) /\ Len(files) = k
        BY <1>1, <4>2, <4>4, ExceptSeq
      <4> QED  BY <4>2, <4>5
    <3>2. CASE ~s.open
      <4>1. files = Append(s.files, {e})
        BY <3>2
      <4>2. {e} \in X
        <5>1. {e} \subseteq kept /\ {e} # {}
          BY <1>3
        <5> QED  BY <5>1
      <4> HIDE DEF X, files
      <4> QED  BY <1>1, <4>1, <4>2
    <3> QED  BY <1>1, <3>1, <3>2
  <2> HIDE DEF files
  <2>3. Last(files) \in X
    <3> HIDE DEF X
    <3>1. Len(files) \in 1 .. Len(files)
      BY <2>2
    <3> QED  BY <2>2, <3>1 DEF Last
  <2>4. Cardinality(Last(files)) \in Nat
    BY <2>3, FS_Subset, FS_CardinalityType
  <2>5. fits \in BOOLEAN
    <3> DEFINE k == Cardinality(Last(files))
    <3>1. k \in Nat /\ MaxFileSize \in Nat
      BY <2>4, LevelsAssumption
    <3> HIDE DEF k
    <3>2. CASE k < MaxFileSize
      <4>1. (k < MaxFileSize) = TRUE
        BY <3>2
      <4> QED  BY <4>1 DEF k
    <3>3. CASE ~(k < MaxFileSize)
      <4>1. (k < MaxFileSize) = FALSE
        BY <3>3
      <4> QED  BY <4>1 DEF k
    <3> QED  BY <3>2, <3>3
  <2> HIDE DEF fits
  <2> HIDE DEF X
  <2>7. /\ t \in [files : Seq(X), open : BOOLEAN, from : 1 .. n]
        /\ t.open => t.files # <<>>
    BY <1>1, <2>2, <2>5
  <2> HIDE DEF t
  <2> QED  BY <2>1, <2>7 DEF OutputState, X
<1> QED  BY <1>2, <1>3

\* The outputs are made one key after the other; none of them is empty.
LEMMA OutputsSteps ==
  ASSUME NEW c, NEW entries, IsFiniteSet(entries), NEW kept, kept \subseteq entries,
         NEW size, size = Len(Sorted(entries))
  PROVE  \E h : /\ size \in Nat /\ size = Cardinality(entries)
                /\ Outputs(c, entries, kept) = h[size].files
                /\ h[0] = [files |-> <<>>, open |-> FALSE, from |-> 1]
                /\ \A i \in 0 .. size : h[i] \in OutputState(kept, size + 1)
                /\ \A i \in 1 .. size : h[i] = OutputStep(c, Sorted(entries), kept, i, h[i - 1])
<1> DEFINE keys == Sorted(entries)
           n == Len(keys)
           m == n + 1
           T == OutputState(kept, m)
           b == [files |-> <<>>, open |-> FALSE, from |-> 1]
           g == [p \in (1 .. n) \X T |-> OutputStep(c, keys, kept, p[1], p[2])]
<1>1. n \in Nat /\ n = Cardinality(entries)
  <2> DEFINE First(i) == CHOOSE x \in entries : Cardinality({y \in entries : Before(y, x)}) = i - 1
  <2>1. keys = [i \in 1 .. Cardinality(entries) |-> First(i)]
    BY DEF Sorted, InOrder
  <2>2. Cardinality(entries) \in Nat
    BY FS_CardinalityType
  <2> HIDE DEF First
  <2> QED  BY <2>1, <2>2
<1>2. IsFiniteSet(kept)
  BY FS_Subset
<1> HIDE DEF keys, n
<1>3. m \in Nat /\ 1 .. n \subseteq 1 .. m /\ 1 \in 1 .. m
  BY <1>1
<1>4. b \in T
  BY <1>3 DEF OutputState
<1> HIDE DEF b
<1>5. ASSUME NEW i \in 1 .. n, NEW s \in T PROVE OutputStep(c, keys, kept, i, s) \in T
  <2> DEFINE stop == MapThenSumSet(LAMBDA f : f.size, Passed(c, keys, i, s.from)) > GrandParentLimit
             u == [s EXCEPT !.open = FALSE, !.from = i]
             from == IF stop THEN u ELSE s
  <2>1. u \in T
    <3>1. i \in 1 .. m
      BY <1>3
    <3> HIDE DEF m
    <3> QED  BY <3>1 DEF OutputState
  <2>2. OutputStep(c, keys, kept, i, s) = AddKey(kept, from, keys[i])
    BY DEF OutputStep
  <2> HIDE DEF stop, u
  <2>3. from \in T
    BY <2>1
  <2> HIDE DEF from, m
  <2> QED  BY <1>2, <1>3, <2>2, <2>3, AddKeyType
<1> HIDE DEF T
<1>6. g \in [(1 .. n) \X T -> T]
  BY <1>5
<1>7. \A i \in 1 .. n, t \in T : g[<<i, t>>] = OutputStep(c, keys, kept, i, t)
  OBVIOUS
<1> HIDE DEF g
<1>8. PICK e : Iterates(e, n, T, b, g)
  BY <1>1, <1>4, <1>6, RecursiveFunction
<1>9. e \in [0 .. n -> T] /\ e[0] = b /\ \A i \in 1 .. n : e[i] = g[<<i, e[i - 1]>>]
  BY <1>8 DEF Iterates
<1>10. ASSUME NEW i \in 0 .. n, i # 0 PROVE e[i] = OutputStep(c, keys, kept, i, e[i - 1])
  <2>1. i \in 1 .. n /\ i - 1 \in 0 .. n
    BY <1>1, <1>10
  <2>2. e[i - 1] \in T
    BY <1>9, <2>1
  <2> QED  BY <1>7, <1>9, <2>1, <2>2
<1>11. OutputIs(e, c, keys, kept)
  BY <1>9, <1>10 DEF OutputIs, n, b
<1>12. PICK h : OutputIs(h, c, keys, kept) /\ Outputs(c, entries, kept) = h[n].files
  BY <1>11, OutputsDef DEF keys, n
<1> DEFINE Next1(i) == IF i = 0 THEN b ELSE OutputStep(c, keys, kept, i, h[i - 1])
<1>13. \A i \in 0 .. n : h[i] = Next1(i)
  <2>1. h = [i \in 0 .. n |-> Next1(i)]
    BY <1>12 DEF OutputIs, n, b
  <2> HIDE DEF Next1
  <2> QED  BY <2>1
<1> DEFINE Good == {i \in 0 .. n : h[i] \in T}
<1>14. 0 \in Good
  BY <1>1, <1>4, <1>13
<1>15. ASSUME NEW i \in 1 .. n, i - 1 \in Good PROVE i \in Good
  <2>1. i \in 0 .. n /\ i # 0 /\ h[i] = OutputStep(c, keys, kept, i, h[i - 1])
    BY <1>1, <1>13
  <2> QED  BY <1>5, <1>15, <2>1
<1>16. \A i \in 0 .. n : i \in Good
  <2> HIDE DEF Good
  <2> QED  BY <1>1, <1>14, <1>15, UptoInduction
<1>17. \A i \in 0 .. n : h[i] \in T
  BY <1>16
<1>18. h[0] = b /\ \A i \in 1 .. n : h[i] = OutputStep(c, keys, kept, i, h[i - 1])
  <2>1. 0 \in 0 .. n /\ \A i \in 1 .. n : i \in 0 .. n /\ i # 0
    BY <1>1
  <2> QED  BY <1>13, <2>1, Zenon
<1> QED  BY <1>1, <1>12, <1>17, <1>18 DEF keys, n, b, T

\* The outputs are tables of kept entries, none of them empty.
LEMMA OutputsAre ==
  ASSUME NEW c, NEW entries, IsFiniteSet(entries), NEW kept, kept \subseteq entries
  PROVE  Outputs(c, entries, kept) \in Seq((SUBSET kept) \ {{}})
<1>1. \E h, n : n \in 0 .. n /\ h[n] \in OutputState(kept, n + 1) /\ Outputs(c, entries, kept) = h[n].files
  <2> DEFINE n == Len(Sorted(entries))
  <2>1. PICK h : /\ n \in Nat /\ Outputs(c, entries, kept) = h[n].files
                 /\ \A i \in 0 .. n : h[i] \in OutputState(kept, n + 1)
    BY OutputsSteps
  <2> HIDE DEF n
  <2>2. n \in 0 .. n
    BY <2>1
  <2> QED  BY <2>1, <2>2
<1> QED  BY <1>1 DEF OutputState

(******************************************************************************)
(* Ends of files                                                              *)
(******************************************************************************)
\* The order of internal keys follows the user keys.
LEMMA KeyOrder ==
  ASSUME NEW a \in IKey, NEW b \in IKey, NEW c \in IKey
  PROVE  /\ ~Before(b, a) => UserKey(a) <= UserKey(b)
         /\ UserKey(a) < UserKey(b) => Before(a, b)
         /\ Before(a, b) => ~Before(b, a)
         /\ Before(a, b) /\ ~Before(c, b) => Before(a, c)
         /\ ~Before(b, a) /\ Before(b, c) => Before(a, c)
         /\ ~Before(b, a) /\ ~Before(c, b) => ~Before(c, a)
<1>1. /\ UserKey(a) \in Nat /\ Sequence(a) \in Nat /\ Type(a) \in Nat
      /\ UserKey(b) \in Nat /\ Sequence(b) \in Nat /\ Type(b) \in Nat
      /\ UserKey(c) \in Nat /\ Sequence(c) \in Nat /\ Type(c) \in Nat
  BY IKeyParts
<1> QED  BY <1>1 DEF Before

\* User keys are keys; none of them is the open bound.
LEMMA UserKeyType ==
  ASSUME NEW a \in IKey
  PROVE  UserKey(a) \in Keys /\ UserKey(a) \in Nat /\ UserKey(a) # NoKey
<1>1. UserKey(a) \in Keys
  BY DEF IKey, UserKey
<1> QED  BY <1>1, BoundsAssumption

\* Some keys have a first and a last one.
LEMMA EndKeys ==
  ASSUME NEW S, IsContents(S), S # {}
  PROVE  /\ \E x \in S : \A y \in S : ~Before(y, x)
         /\ \E x \in S : \A y \in S : ~Before(x, y)
<1> DEFINE R == {p \in S \X S : Before(p[1], p[2])}
           Q == {p \in S \X S : Before(p[2], p[1])}
<1>1. /\ \A x, y \in S : <<x, y>> \in R <=> Before(x, y)
      /\ \A x, y \in S : <<x, y>> \in Q <=> Before(y, x)
  OBVIOUS
<1>2. \A x \in S : x \in IKey
  BY DEF IsContents
<1> HIDE DEF R, Q
<1>3. /\ \A x \in S : ~Before(x, x)
      /\ \A x, y \in S : x = y \/ Before(x, y) \/ Before(y, x)
      /\ \A x, y, z \in S : Before(x, y) /\ Before(y, z) => Before(x, z)
  BY <1>2, BeforeIsOrder
<1>4. StrictOrder(S, R)
  BY <1>1, <1>3 DEF StrictOrder
<1>5. StrictOrder(S, Q)
  BY <1>1, <1>3 DEF StrictOrder
<1>6. IsFiniteSet(S)
  BY DEF IsContents
<1>7. \E x \in S : \A y \in S : ~Before(y, x)
  BY <1>1, <1>4, <1>6, LeastMember
<1>8. \E x \in S : \A y \in S : ~Before(x, y)
  BY <1>1, <1>5, <1>6, LeastMember
<1> QED  BY <1>7, <1>8

\* The file of a table ends with keys of it, and all others are between them.
LEMMA FileEnds ==
  ASSUME NEW S, IsContents(S), S # {}, NEW n
  PROVE  /\ FileOf(n, S).smallest \in S /\ FileOf(n, S).largest \in S
         /\ \A x \in S : ~Before(x, FileOf(n, S).smallest) /\ ~Before(FileOf(n, S).largest, x)
<1>1. /\ \E x \in S : \A y \in S : ~Before(y, x)
      /\ \E x \in S : \A y \in S : ~Before(x, y)
  BY EndKeys
<1>2. /\ FileOf(n, S).smallest = CHOOSE x \in S : \A y \in S : ~Before(y, x)
      /\ FileOf(n, S).largest = CHOOSE x \in S : \A y \in S : ~Before(x, y)
  BY DEF FileOf
<1>3. FileOf(n, S).smallest \in S /\ \A x \in S : ~Before(x, FileOf(n, S).smallest)
  BY <1>1, <1>2
<1>4. FileOf(n, S).largest \in S /\ \A x \in S : ~Before(FileOf(n, S).largest, x)
  BY <1>1, <1>2
<1> QED  BY <1>3, <1>4

\* Files with a first and a last key in order.
Ended(f) ==
  /\ f.smallest \in IKey /\ f.largest \in IKey
  /\ ~Before(f.largest, f.smallest)
EndedFiles(S) == FileSet(S) /\ \A f \in S : Ended(f)

\* The ends of a good file are entries of its table, and bound the others.
LEMMA GoodEnds ==
  ASSUME NEW tb, IsTables(tb), NEW n, NEW f, GoodFile(f, tb, n)
  PROVE  /\ Ended(f)
         /\ f.smallest \in tb[f.number] /\ f.largest \in tb[f.number]
         /\ \A x \in tb[f.number] : /\ x \in IKey
                                    /\ ~Before(x, f.smallest) /\ ~Before(f.largest, x)
<1> DEFINE k == f.number
           T == tb[k]
<1>1. k \in DOMAIN tb /\ f = FileOf(k, T)
  BY DEF GoodFile
<1>2. IsContents(T) /\ T # {}
  BY <1>1 DEF IsTables
<1> HIDE DEF k, T
<1>3. /\ f.smallest \in T /\ f.largest \in T
      /\ \A x \in T : ~Before(x, f.smallest) /\ ~Before(f.largest, x)
  BY <1>1, <1>2, FileEnds
<1>4. \A x \in T : x \in IKey
  BY <1>2 DEF IsContents
<1>5. Ended(f)
  BY <1>3, <1>4 DEF Ended
<1> QED  BY <1>3, <1>4, <1>5 DEF T, k

\* Good files have their ends in order.
LEMMA GoodEnded ==
  ASSUME NEW tb, IsTables(tb), NEW n \in Nat, NEW S, GoodFiles(S, tb, n)
  PROVE  EndedFiles(S)
<1>1. \A f \in S : Ended(f)
  BY GoodEnds DEF GoodFiles
<1> QED  BY <1>1, GoodFileSet DEF EndedFiles

\* The user keys at the ends of a file.
LEMMA EndsOf ==
  ASSUME NEW f, Ended(f)
  PROVE  /\ UserKey(f.smallest) \in Nat /\ UserKey(f.largest) \in Nat
         /\ UserKey(f.smallest) # NoKey /\ UserKey(f.largest) # NoKey
         /\ UserKey(f.smallest) <= UserKey(f.largest)
BY KeyOrder, UserKeyType DEF Ended

\* The range of some files begins and ends with one of them.
LEMMA RangeOfFiles ==
  ASSUME NEW S, EndedFiles(S), S # {}
  PROVE  /\ Ended(GetRange(S))
         /\ \E f \in S : GetRange(S).smallest = f.smallest
         /\ \E f \in S : GetRange(S).largest = f.largest
         /\ \A f \in S : /\ ~Before(f.smallest, GetRange(S).smallest)
                         /\ ~Before(GetRange(S).largest, f.largest)
<1> DEFINE A == {f.smallest : f \in S}
           Z == {f.largest : f \in S}
           r == GetRange(S)
<1>1. IsFiniteSet(S) /\ \A f \in S : Ended(f)
  BY DEF EndedFiles, FileSet
<1>2. A # {} /\ Z # {} /\ A \subseteq IKey /\ Z \subseteq IKey
  BY <1>1 DEF Ended
<1>3. IsFiniteSet(A) /\ IsFiniteSet(Z)
  <2> DEFINE a == [f \in S |-> f.smallest]
             z == [f \in S |-> f.largest]
  <2>1. A = {a[f] : f \in S} /\ Z = {z[f] : f \in S}
    OBVIOUS
  <2> HIDE DEF a, z, A, Z
  <2> QED  BY <1>1, <2>1, ImageIsFinite
<1>4. r.smallest = (CHOOSE x \in A : \A f \in S : ~Before(f.smallest, x))
      /\ r.largest = (CHOOSE x \in Z : \A f \in S : ~Before(x, f.largest))
  BY DEF GetRange
<1>5. /\ \E x \in A : \A f \in S : ~Before(f.smallest, x)
      /\ \E x \in Z : \A f \in S : ~Before(x, f.largest)
  <2>1. IsContents(A) /\ IsContents(Z)
    BY <1>2, <1>3 DEF IsContents
  <2>2. PICK x \in A : \A y \in A : ~Before(y, x)
    BY <1>2, <2>1, EndKeys
  <2>3. PICK z \in Z : \A y \in Z : ~Before(z, y)
    BY <1>2, <2>1, EndKeys
  <2> QED  BY <2>2, <2>3
<1>6. r.smallest \in A /\ \A f \in S : ~Before(f.smallest, r.smallest)
  <2> HIDE DEF A
  <2> QED  BY <1>4, <1>5
<1>7. r.largest \in Z /\ \A f \in S : ~Before(r.largest, f.largest)
  <2> HIDE DEF Z
  <2> QED  BY <1>4, <1>5
<1> HIDE DEF r
<1>8. Ended(r)
  <2>1. r.smallest \in IKey /\ r.largest \in IKey
    BY <1>2, <1>6, <1>7
  <2>2. PICK f \in S : TRUE
    OBVIOUS
  <2>3. ~Before(f.smallest, r.smallest) /\ ~Before(r.largest, f.largest) /\ ~Before(f.largest, f.smallest)
        /\ f.smallest \in IKey /\ f.largest \in IKey
    BY <1>1, <1>6, <1>7 DEF Ended
  <2>4. ~Before(f.largest, r.smallest)
    BY <2>1, <2>3, KeyOrder
  <2>5. ~Before(r.largest, r.smallest)
    BY <2>1, <2>3, <2>4, KeyOrder
  <2> QED  BY <2>1, <2>5 DEF Ended
<1> QED  BY <1>6, <1>7, <1>8 DEF r

(******************************************************************************)
(* Levels whose files do not overlap                                          *)
(******************************************************************************)
DisjointLevel(S) ==
  \A f, g \in S : f # g => Before(f.largest, g.smallest) \/ Before(g.largest, f.smallest)
Disjoint(v) == \A l \in Levels \ {0} : DisjointLevel(Range(v[l]))

\* Each file of a list ends before any later one begins.
Following(q) == \A i, j \in 1 .. Len(q) : i < j => Before(q[i].largest, q[j].smallest)

\* The files of a level that do not overlap follow each other.
LEMMA FilesFollow ==
  ASSUME NEW S, EndedFiles(S), DisjointLevel(S), NEW q, q = InOrder(S, BySmallestKey)
  PROVE  Following(q) /\ IsSeq(q) /\ Range(q) = S
<1>1. FileSet(S) /\ \A f \in S : Ended(f)
  BY DEF EndedFiles
<1>2. /\ q \in Seq(S) /\ Range(q) = S
      /\ \A i, j \in 1 .. Len(q) : i < j => BySmallestKey(q[i], q[j])
  BY <1>1, FilesInOrder
<1>3. ASSUME NEW i \in 1 .. Len(q), NEW j \in 1 .. Len(q), i < j
      PROVE  Before(q[i].largest, q[j].smallest)
  <2> DEFINE f == q[i]
             g == q[j]
  <2>1. f \in S /\ g \in S /\ BySmallestKey(f, g)
    <3>1. q \in Seq(S)
      BY <1>2
    <3>2. f \in S /\ g \in S
      BY <3>1
    <3>3. BySmallestKey(f, g)
      BY <1>2, <1>3
    <3> QED  BY <3>2, <3>3
  <2> HIDE DEF f, g
  <2>2. Ended(f) /\ Ended(g) /\ f.number \in Nat
    BY <1>1, <2>1 DEF FileSet
  <2>3. f # g
    <3> SUFFICES ASSUME f = g PROVE FALSE
      OBVIOUS
    <3>1. ~Before(f.smallest, f.smallest) /\ ~(f.number < f.number)
      BY <2>2, BeforeIsOrder DEF Ended
    <3> QED  BY <2>1, <3>1 DEF BySmallestKey
  <2>4. ~Before(g.largest, f.smallest)
    <3> SUFFICES ASSUME Before(g.largest, f.smallest) PROVE FALSE
      OBVIOUS
    <3>1. /\ f.smallest \in IKey /\ g.smallest \in IKey /\ g.largest \in IKey
          /\ ~Before(g.largest, g.smallest)
      BY <2>2 DEF Ended
    <3>2. Before(g.smallest, f.smallest)
      BY <3>1, KeyOrder
    <3>3. ~Before(f.smallest, g.smallest) /\ f.smallest # g.smallest
      BY <3>1, <3>2, KeyOrder, BeforeIsOrder
    <3> QED  BY <2>1, <3>3 DEF BySmallestKey
  <2> QED  BY <2>1, <2>3, <2>4 DEF f, g, DisjointLevel
<1>4. IsSeq(q)
  BY <1>2 DEF IsSeq
<1> QED  BY <1>2, <1>3, <1>4 DEF Following

\* What a search finds: the files before it end before the key, the others do not.
LEMMA FindFileFinds ==
  ASSUME NEW q, IsSeq(q), EndedFiles(Range(q)), Following(q), NEW k \in IKey
  PROVE  /\ FindFile(q, k) \in 1 .. Len(q) + 1
         /\ \A j \in 1 .. Len(q) : Before(q[j].largest, k) <=> j < FindFile(q, k)
<1> DEFINE N == Len(q) + 1
           W == {j \in 1 .. Len(q) : Before(q[j].largest, k)}
<1>1. Len(q) \in Nat /\ N \in Nat /\ 1 \in 1 .. N /\ N \in 1 .. N /\ 1 <= N
  BY DEF IsSeq
<1>2. \A j \in 1 .. Len(q) : q[j] \in Range(q) /\ Ended(q[j])
  BY DEF IsSeq, EndedFiles, Range
<1>3. ASSUME NEW i \in 1 .. Len(q), NEW j \in W, i < j PROVE i \in W
  <2> DEFINE a == q[i].largest
             b == q[j].smallest
             c == q[j].largest
  <2>1. /\ a \in IKey /\ b \in IKey /\ c \in IKey /\ ~Before(c, b)
        /\ Before(a, b) /\ Before(c, k)
    BY <1>2, <1>3 DEF Ended, Following
  <2> HIDE DEF a, b, c
  <2>2. Before(a, c)
    BY <2>1, KeyOrder
  <2>3. Before(a, k)
    BY <2>1, <2>2, BeforeIsOrder
  <2> QED  BY <2>3 DEF a
<1>4. \A j \in 1 .. Len(q) : Before(q[j].largest, k) <=> j \in W
  OBVIOUS
<1>5. PICK h : SearchIs(h, q, k) /\ FindFile(q, k) = h[<<1, N>>]
  BY <1>1, SearchExists, SearchDef
<1>6. h = [p \in (1 .. N) \X (1 .. N) |-> Halving(q, k, h, p)]
  BY <1>5 DEF SearchIs
<1> DEFINE Right(p) == /\ p[1] <= p[2]
                       /\ \A j \in 1 .. Len(q) : /\ j < p[1] => j \in W
                                                 /\ p[2] <= j => j \notin W
           Found(p) == \A j \in 1 .. Len(q) : j \in W <=> j < h[p]
           T == {m \in Nat : \A p \in Narrow(N, m) : Right(p) => Found(p)}
<1>7. \A p \in (1 .. N) \X (1 .. N) : h[p] = Halving(q, k, h, p)
  BY <1>6
<1>8. \A m \in Nat : \A p \in Narrow(N, m) : p \in (1 .. N) \X (1 .. N) /\ p[1] \in 1 .. N /\ p[2] \in 1 .. N
  BY <1>1 DEF Narrow
<1>9. N = Len(q) + 1
  OBVIOUS
<1> HIDE DEF N, W
<1>10. 0 \in T
  <2> SUFFICES ASSUME NEW p \in Narrow(N, 0), Right(p) PROVE Found(p)
    OBVIOUS
  <2>1. p \in (1 .. N) \X (1 .. N) /\ p[2] \in 1 .. N /\ p[1] \in 1 .. N /\ p[1] >= p[2] /\ p[1] = p[2]
    BY <1>1, <1>8 DEF Narrow
  <2>2. h[p] = Halving(q, k, h, p)
    BY <1>7, <2>1
  <2>3. h[p] = p[2]
    BY <2>1, <2>2 DEF Halving
  <2> QED  BY <1>1, <2>1, <2>3
<1>11. ASSUME NEW m \in Nat, m \in T PROVE m + 1 \in T
  <2> SUFFICES ASSUME NEW p \in Narrow(N, m + 1), Right(p) PROVE Found(p)
    OBVIOUS
  <2>1. p \in (1 .. N) \X (1 .. N) /\ p[2] \in 1 .. N /\ p[1] \in 1 .. N
    BY <1>8
  <2>2. h[p] = Halving(q, k, h, p)
    BY <1>7, <2>1
  <2>3. CASE p[1] >= p[2]
    <3>1. h[p] = p[2] /\ p[1] = p[2]
      BY <2>1, <2>2, <2>3 DEF Halving
    <3> QED  BY <1>1, <2>1, <3>1
  <2>4. CASE ~(p[1] >= p[2])
    <3> DEFINE mid == (p[1] + p[2]) \div 2
               low == <<mid + 1, p[2]>>
               high == <<p[1], mid>>
    <3>1. low \in Narrow(N, m) /\ high \in Narrow(N, m)
      BY <1>1, <2>4, Halves
    <3>2. h[p] = IF Before(q[mid].largest, k) THEN h[low] ELSE h[high]
      BY <2>2, <2>4 DEF Halving
    <3>3. low[1] = mid + 1 /\ low[2] = p[2] /\ high[1] = p[1] /\ high[2] = mid
      OBVIOUS
    <3>4. mid \in Nat /\ p[1] <= mid /\ mid < p[2] /\ mid \in 1 .. Len(q)
      BY <1>1, <1>9, <2>1, <2>4
    <3> HIDE DEF low, high, mid
    <3>5. CASE Before(q[mid].largest, k)
      <4>1. mid \in W
        BY <1>4, <3>4, <3>5
      <4>2. Right(low)
        <5>1. \A j \in 1 .. Len(q) : j < mid + 1 => j = mid \/ j < mid
          BY <1>1, <3>4
        <5> QED  BY <1>3, <2>1, <3>3, <3>4, <4>1, <5>1
      <4>3. Found(low)
        BY <1>11, <3>1, <4>2
      <4> QED  BY <3>2, <3>5, <4>3
    <3>6. CASE ~Before(q[mid].largest, k)
      <4>1. mid \notin W
        BY <1>4, <3>4, <3>6
      <4>2. Right(high)
        <5>1. \A j \in 1 .. Len(q) : mid <= j => j = mid \/ mid < j
          BY <1>1, <3>4
        <5> QED  BY <1>3, <2>1, <3>3, <3>4, <4>1, <5>1
      <4>3. Found(high)
        BY <1>11, <3>1, <4>2
      <4> QED  BY <3>2, <3>6, <4>3
    <3> QED  BY <3>5, <3>6
  <2> QED  BY <2>3, <2>4
<1>12. N \in T
  <2> HIDE DEF T
  <2> QED  BY <1>1, <1>10, <1>11, NatSetInduction
<1> DEFINE whole == <<1, N>>
<1>13. whole \in Narrow(N, N)
  BY <1>1 DEF Narrow
<1>14. Right(whole)
  <2>1. whole[1] = 1 /\ whole[2] = N
    OBVIOUS
  <2> HIDE DEF whole
  <2> QED  BY <1>1, <1>9, <2>1
<1> HIDE DEF whole
<1>15. Found(whole)
  BY <1>12, <1>13, <1>14
<1>16. FindFile(q, k) = h[whole]
  BY <1>5 DEF whole
<1> QED  BY <1>1, <1>4, <1>15, <1>16, FindFileInside

\* A file overlaps some user keys or is wholly on one side of them.
Apart(f, a, z) == UserKey(f.largest) < a \/ z < UserKey(f.smallest)

\* A file overlaps two user keys exactly when it is not apart from them.
LEMMA OverlapIs ==
  ASSUME NEW f, NEW a \in Keys, NEW z \in Keys
  PROVE  Overlaps(f, a, z) <=> ~Apart(f, a, z)
BY BoundsAssumption DEF Overlaps, Apart, AfterFile, BeforeFile

\* When the search says that no file of the level overlaps, none does.
LEMMA NoOverlap ==
  ASSUME NEW S, EndedFiles(S), NEW disjoint \in BOOLEAN, disjoint => DisjointLevel(S),
         NEW q, q = InOrder(S, BySmallestKey), NEW a \in Keys, NEW z \in Keys,
         ~SomeFileOverlapsRange(q, disjoint, a, z)
  PROVE  \A f \in S : Apart(f, a, z)
<1>1. IsSeq(q) /\ Range(q) = S
  <2>1. q \in Seq(S) /\ Range(q) = S
    BY FilesInOrder DEF EndedFiles
  <2> QED  BY <2>1 DEF IsSeq
<1>2. CASE ~disjoint
  <2>1. \A f \in S : ~Overlaps(f, a, z)
    BY <1>1, <1>2 DEF SomeFileOverlapsRange
  <2> QED  BY <2>1, OverlapIs
<1>3. CASE disjoint
  <2> DEFINE k == LookupKey(a, MaxSequence)
             i == FindFile(q, k)
  <2>1. k \in IKey /\ UserKey(k) = a /\ Sequence(k) = MaxSequence /\ Type(k) = Value
    BY DEF IKey, LookupKey, UserKey, Sequence, Type, MaxSequence
  <2>2. Following(q) /\ EndedFiles(Range(q))
    BY <1>1, <1>3, FilesFollow
  <2>3. i \in 1 .. Len(q) + 1 /\ \A j \in 1 .. Len(q) : Before(q[j].largest, k) <=> j < i
    BY <1>1, <2>1, <2>2, FindFileFinds
  <2>4. a # NoKey /\ a \in Nat /\ z # NoKey /\ z \in Nat
    BY BoundsAssumption
  <2>5. ~(i <= Len(q) /\ ~BeforeFile(z, q[i]))
    BY <1>3, <2>4 DEF SomeFileOverlapsRange
  <2> HIDE DEF k, i
  <2> SUFFICES ASSUME NEW j \in 1 .. Len(q) PROVE Apart(q[j], a, z)
    BY <1>1 DEF Range
  <2>6. Len(q) \in Nat /\ q[j] \in S /\ Ended(q[j])
    BY <1>1 DEF IsSeq, EndedFiles, Range
  <2>7. q[j].largest \in IKey /\ q[j].smallest \in IKey
    BY <2>6 DEF Ended
  <2>8. CASE j < i
    <3>1. Before(q[j].largest, k)
      BY <2>3, <2>8
    <3> DEFINE y == q[j].largest
    <3>2. UserKey(y) \in Nat /\ Sequence(y) \in 0 .. MaxSequence /\ Type(y) \in {Deletion, Value}
      <4>1. y \in IKey
        BY <2>7
      <4> HIDE DEF y
      <4>2. UserKey(y) \in Nat
        BY <4>1, UserKeyType
      <4> QED  BY <4>1, <4>2 DEF IKey, Sequence, Type
    <3> HIDE DEF y
    <3>3. UserKey(y) < a
      <4>1. Sequence(y) \in Nat /\ Sequence(y) <= Sequence(k) /\ Sequence(k) \in Nat
        <5>1. MaxSequence \in Nat
          BY DEF MaxSequence
        <5> QED  BY <2>1, <3>2, <5>1
      <4>2. Type(y) <= Type(k)
        BY <2>1, <3>2 DEF Deletion, Value
      <4>3. Type(y) \in Nat /\ Type(k) \in Nat
        BY <2>1, <3>2 DEF Deletion, Value
      <4>4. ~(Sequence(y) > Sequence(k)) /\ ~(Type(y) > Type(k))
        BY <4>1, <4>2, <4>3
      <4>5. UserKey(y) < UserKey(k)
        BY <3>1, <4>4 DEF Before, y
      <4> QED  BY <2>1, <4>5
    <3> QED  BY <3>3 DEF Apart, y
  <2>9. CASE ~(j < i)
    <3>1. i \in 1 .. Len(q) /\ i <= j
      BY <2>3, <2>6, <2>9
    <3>2. z < UserKey(q[i].smallest)
      BY <2>5, <3>1 DEF BeforeFile
    <3>3. q[i] \in S /\ Ended(q[i])
      BY <1>1, <3>1 DEF IsSeq, EndedFiles, Range
    <3>4. CASE i = j
      BY <3>2, <3>4 DEF Apart
    <3>5. CASE i < j
      <4>1. Before(q[i].largest, q[j].smallest)
        BY <2>2, <3>1, <3>5 DEF Following
      <4>2. q[i].largest \in IKey /\ q[i].smallest \in IKey /\ ~Before(q[i].largest, q[i].smallest)
        BY <3>3 DEF Ended
      <4>3. UserKey(q[i].smallest) <= UserKey(q[i].largest)
        BY <4>2, KeyOrder
      <4>4. UserKey(q[i].largest) <= UserKey(q[j].smallest)
        BY <2>7, <4>1, <4>2, KeyOrder
      <4>5. UserKey(q[i].smallest) \in Nat /\ UserKey(q[i].largest) \in Nat /\ UserKey(q[j].smallest) \in Nat
        BY <2>7, <4>2, UserKeyType
      <4>6. z < UserKey(q[j].smallest)
        BY <2>4, <3>2, <4>3, <4>4, <4>5
      <4> QED  BY <4>6 DEF Apart
    <3> QED  BY <2>3, <2>6, <3>1, <3>4, <3>5
  <2> QED  BY <2>8, <2>9
<1> QED  BY <1>2, <1>3

(******************************************************************************)
(* The files of a level that overlap a range                                  *)
(******************************************************************************)

Hit(files, r) == Only(files, {f \in Range(files) : Overlaps(f, r[1], r[2])})
LowerEnd(k, S) == IF k = NoKey THEN NoKey ELSE Min({k} \cup {UserKey(f.smallest) : f \in S})
UpperEnd(k, S) == IF k = NoKey THEN NoKey ELSE Max({k} \cup {UserKey(f.largest) : f \in S})
Widen(files, r) ==
  <<LowerEnd(r[1], Range(Hit(files, r))), UpperEnd(r[2], Range(Hit(files, r)))>>
WidenedIs(h, files, a, z) ==
  h = [n \in 0 .. Len(files) |-> IF n = 0 THEN <<a, z>> ELSE Widen(files, h[n - 1])]

\* GetOverlappingInputs, one restart at a time.
LEMMA OverlappingDef ==
  ASSUME NEW v, NEW l, NEW a, NEW z, NEW x, WidenedIs(x, v[l], a, z)
  PROVE  \E h : /\ WidenedIs(h, v[l], a, z)
                /\ GetOverlappingInputs(v, l, a, z)
                     = Hit(v[l], IF l = 0 THEN h[Len(v[0])] ELSE <<a, z>>)
<1> DEFINE h == CHOOSE h : WidenedIs(h, v[l], a, z)
<1>1. WidenedIs(h, v[l], a, z)
  OBVIOUS
<1>2. GetOverlappingInputs(v, l, a, z) = Hit(v[l], IF l = 0 THEN h[Len(v[0])] ELSE <<a, z>>)
  BY Zenon DEF GetOverlappingInputs, WidenedIs, Widen, Hit, LowerEnd, UpperEnd
<1> HIDE DEF h
<1> QED  BY <1>1, <1>2

\* No file has a key between these two.
NoneBetween(S, x, y) == x <= y /\ \A f \in S : Apart(f, x, y)

\* The range grows, but never over keys between two of which there is no file.
RangeState(S, a, z) ==
  {r \in Keys \X Keys :
     /\ r[1] <= a /\ z <= r[2] /\ r[1] <= r[2]
     /\ \A x, y \in Keys : NoneBetween(S, x, y) => /\ z < x => r[2] < x
                                                   /\ y < a => y < r[1]}

\* What overlaps two user keys is what is not apart from them.
LEMMA HitIs ==
  ASSUME NEW files, IsSeq(files), NEW a \in Keys, NEW z \in Keys
  PROVE  Range(Hit(files, <<a, z>>)) = {f \in Range(files) : ~Apart(f, a, z)}
<1> DEFINE F == Range(files)
           S == {f \in F : Overlaps(f, a, z)}
<1>1. files \in Seq(F)
  BY DEF IsSeq
<1>2. Hit(files, <<a, z>>) = Only(files, S)
  BY DEF Hit
<1>3. Range(files) = F
  OBVIOUS
<1>4. S = {f \in F : ~Apart(f, a, z)}
  BY OverlapIs
<1> HIDE DEF F, S
<1>5. Range(Only(files, S)) = Range(files) \cap S
  BY <1>1, OnlySelects
<1>6. Range(Only(files, S)) = {f \in F : ~Apart(f, a, z)}
  BY <1>3, <1>4, <1>5
<1> QED  BY <1>2, <1>3, <1>6

\* One round of GetOverlappingInputs passes over no gap between files.
LEMMA WidenType ==
  ASSUME NEW files, IsSeq(files), EndedFiles(Range(files)), NEW a \in Keys, NEW z \in Keys,
         NEW r \in RangeState(Range(files), a, z)
  PROVE  Widen(files, r) \in RangeState(Range(files), a, z)
<1> DEFINE F == Range(files)
           b == r[1]
           e == r[2]
           S == {f \in F : ~Apart(f, b, e)}
           A == {b} \cup {UserKey(f.smallest) : f \in S}
           Z == {e} \cup {UserKey(f.largest) : f \in S}
<1>1. /\ r = <<b, e>> /\ b \in Keys /\ e \in Keys /\ b <= a /\ z <= e /\ b <= e
      /\ \A x, y \in Keys : NoneBetween(F, x, y) => (z < x => e < x) /\ (y < a => y < b)
  BY DEF RangeState
<1>2. IsFiniteSet(F) /\ \A f \in F : Ended(f)
  BY DEF EndedFiles, FileSet
<1> HIDE DEF b, e
<1>3. Range(Hit(files, r)) = S
  BY <1>1, HitIs
<1>4. \A k \in Keys : k \in Nat /\ k # NoKey
  BY BoundsAssumption
<1>5. Widen(files, r) = <<Min(A), Max(Z)>>
  BY <1>1, <1>3, <1>4 DEF Widen, LowerEnd, UpperEnd, b, e
<1> HIDE DEF F
<1>6. \A f \in S : f \in F /\ UserKey(f.smallest) \in Keys /\ UserKey(f.largest) \in Keys
  BY <1>2, UserKeyType DEF Ended
<1>7. A \subseteq Keys /\ Z \subseteq Keys /\ b \in A /\ e \in Z
  BY <1>1, <1>6
<1>8. IsFiniteSet(Z)
  <2> DEFINE u == [f \in S |-> UserKey(f.largest)]
  <2>1. IsFiniteSet(S)
    BY <1>2, FS_Subset
  <2>2. {UserKey(f.largest) : f \in S} = {u[f] : f \in S}
    OBVIOUS
  <2> HIDE DEF u, S
  <2>3. IsFiniteSet({UserKey(f.largest) : f \in S})
    BY <2>1, <2>2, ImageIsFinite
  <2> QED  BY <2>3, FS_Singleton, FS_Union
<1> DEFINE lo == Min(A)
           hi == Max(Z)
<1>9. lo \in A /\ \A x \in A : lo <= x
  <2> HIDE DEF A
  <2> QED  BY <1>4, <1>7, MinOfSome
<1>10. hi \in Z /\ \A x \in Z : x <= hi
  <2> HIDE DEF Z
  <2> QED  BY <1>4, <1>7, <1>8, MaxOfSome
<1> HIDE DEF lo, hi
<1>11. lo \in Keys /\ hi \in Keys /\ lo <= b /\ e <= hi
  BY <1>7, <1>9, <1>10
<1>12. lo <= a /\ z <= hi /\ lo <= hi
  BY <1>1, <1>4, <1>11
<1>13. ASSUME NEW x \in Keys, NEW y \in Keys, NoneBetween(F, x, y)
       PROVE  (z < x => hi < x) /\ (y < a => y < lo)
  <2>0. x \in Nat /\ y \in Nat /\ x <= y
    BY <1>4, <1>13 DEF NoneBetween
  <2>1. ASSUME z < x PROVE hi < x
    <3>1. e < x
      BY <1>1, <1>13, <2>1
    <3>2. ASSUME NEW f \in S PROVE UserKey(f.largest) < x
      <4> DEFINE s == UserKey(f.smallest)
                 t == UserKey(f.largest)
      <4>1. s \in Keys /\ t \in Keys /\ (t < x \/ y < s) /\ ~(e < s)
        BY <1>6, <1>13 DEF NoneBetween, Apart
      <4> HIDE DEF s, t
      <4>2. s \in Nat /\ t \in Nat /\ e \in Nat
        BY <1>1, <1>4, <4>1
      <4>3. t < x
        BY <2>0, <3>1, <4>1, <4>2
      <4> QED  BY <4>3 DEF t
    <3>3. hi = e \/ \E f \in S : hi = UserKey(f.largest)
      BY <1>10
    <3> QED  BY <3>1, <3>2, <3>3
  <2>2. ASSUME y < a PROVE y < lo
    <3>1. y < b
      BY <1>1, <1>13, <2>2
    <3>2. ASSUME NEW f \in S PROVE y < UserKey(f.smallest)
      <4> DEFINE s == UserKey(f.smallest)
                 t == UserKey(f.largest)
      <4>1. s \in Keys /\ t \in Keys /\ (t < x \/ y < s) /\ ~(t < b)
        BY <1>6, <1>13 DEF NoneBetween, Apart
      <4> HIDE DEF s, t
      <4>2. s \in Nat /\ t \in Nat /\ b \in Nat
        BY <1>1, <1>4, <4>1
      <4>3. y < s
        BY <2>0, <3>1, <4>1, <4>2
      <4> QED  BY <4>3 DEF s
    <3>3. lo = b \/ \E f \in S : lo = UserKey(f.smallest)
      BY <1>9
    <3> QED  BY <3>1, <3>2, <3>3
  <2> QED  BY <2>1, <2>2
<1>14. Widen(files, r) = <<lo, hi>>
  BY <1>5 DEF lo, hi
<1> DEFINE w == <<lo, hi>>
<1>15. w \in Keys \X Keys /\ w[1] = lo /\ w[2] = hi
  BY <1>11
<1> HIDE DEF w
<1>16. w \in RangeState(F, a, z)
  BY <1>12, <1>13, <1>15 DEF RangeState
<1> QED  BY <1>14, <1>16 DEF w, F

\* What overlaps a range: the files that reach into it, above level 0 just those.
LEMMA OverlappingIs ==
  ASSUME NEW v, NEW l, IsSeq(v[l]), EndedFiles(Range(v[l])),
         NEW a \in Keys, NEW z \in Keys, a <= z
  PROVE  \E r \in RangeState(Range(v[l]), a, z) :
           /\ Range(GetOverlappingInputs(v, l, a, z)) = {f \in Range(v[l]) : ~Apart(f, r[1], r[2])}
           /\ l # 0 => r = <<a, z>>
<1> DEFINE files == v[l]
           F == Range(files)
           n == Len(files)
           b == <<a, z>>
           T == RangeState(F, a, z)
           g == [p \in (1 .. n) \X T |-> Widen(files, p[2])]
<1>1. n \in Nat /\ IsSeq(files) /\ EndedFiles(F)
  BY DEF IsSeq
<1>2. b \in T
  <2>1. b \in Keys \X Keys /\ b[1] = a /\ b[2] = z /\ a \in Nat /\ z \in Nat
    BY BoundsAssumption
  <2> HIDE DEF b
  <2> QED  BY <2>1 DEF RangeState
<1>3. ASSUME NEW t \in T PROVE Widen(files, t) \in T
  BY <1>1, WidenType
<1> HIDE DEF n, b, T, files
<1>4. g \in [(1 .. n) \X T -> T] /\ \A i \in 1 .. n, t \in T : g[<<i, t>>] = Widen(files, t)
  BY <1>3
<1> HIDE DEF g
<1>5. PICK x : Iterates(x, n, T, b, g)
  BY <1>1, <1>2, <1>4, RecursiveFunction
<1>6. WidenedIs(x, files, a, z)
  <2>1. x \in [0 .. n -> T] /\ x[0] = b
    BY <1>5 DEF Iterates
  <2>2. ASSUME NEW i \in 0 .. n, i # 0 PROVE x[i] = Widen(files, x[i - 1])
    <3>1. i \in 1 .. n /\ i - 1 \in 0 .. n
      BY <1>1, <2>2
    <3> QED  BY <1>4, <1>5, <2>1, <3>1 DEF Iterates
  <2>3. x = [i \in 0 .. n |-> IF i = 0 THEN b ELSE Widen(files, x[i - 1])]
    BY <2>1, <2>2
  <2> QED  BY <2>3 DEF WidenedIs, n, b
<1>7. PICK h : /\ WidenedIs(h, files, a, z)
               /\ GetOverlappingInputs(v, l, a, z)
                    = Hit(files, IF l = 0 THEN h[Len(v[0])] ELSE <<a, z>>)
  BY <1>6, OverlappingDef DEF files
<1>8. Iterates(h, n, T, b, g)
  <2> DEFINE Body(i) == IF i = 0 THEN b ELSE Widen(files, h[i - 1])
  <2>1. h = [i \in 0 .. n |-> Body(i)]
    BY <1>7 DEF WidenedIs, n, b
  <2>2. h = [i \in 0 .. n |-> h[i]] /\ \A i \in 0 .. n : h[i] = Body(i)
    <3> HIDE DEF Body
    <3> QED  BY <2>1
  <2>3. h[0] = b /\ \A i \in 1 .. n : h[i] = Widen(files, h[i - 1])
    <3>1. 0 \in 0 .. n /\ \A i \in 1 .. n : i \in 0 .. n /\ i # 0
      BY <1>1
    <3> QED  BY <2>2, <3>1, Zenon
  <2>4. \A i \in 1 .. n : h[i - 1] \in T => h[i] = g[<<i, h[i - 1]>>]
    BY <1>4, <2>3
  <2> QED  BY <1>1, <1>2, <1>4, <2>2, <2>3, <2>4, IteratesInside
<1>9. h[n] \in T
  BY <1>1, <1>8 DEF Iterates
<1> DEFINE r == IF l = 0 THEN h[n] ELSE b
<1>10. r \in T /\ (l # 0 => r = <<a, z>>)
  BY <1>2, <1>9 DEF b
<1>11. GetOverlappingInputs(v, l, a, z) = Hit(files, r)
  BY <1>7 DEF n, b, files
<1> HIDE DEF r
<1>12. r \in Keys \X Keys /\ r = <<r[1], r[2]>> /\ r[1] \in Keys /\ r[2] \in Keys
  BY <1>10 DEF T, RangeState
<1>13. Range(Hit(files, r)) = {f \in F : ~Apart(f, r[1], r[2])}
  BY <1>1, <1>12, HitIs
<1> QED  BY <1>10, <1>11, <1>13 DEF T, files

\* Files on one side of keys that no file of the level has stay on that side.
LeftOf(S, x) == \A f \in S : UserKey(f.largest) < x
RightOf(S, y) == \A f \in S : y < UserKey(f.smallest)
SidesKept(S, less, more) ==
  \A x, y \in Keys : NoneBetween(S, x, y) => /\ LeftOf(less, x) => LeftOf(more, x)
                                             /\ RightOf(less, y) => RightOf(more, y)

\* What overlaps the range of some files is on the same side as they are.
LEMMA OverlapKeepsSide ==
  ASSUME NEW v, NEW l, IsSeq(v[l]), EndedFiles(Range(v[l])), NEW S, EndedFiles(S), S # {},
         NEW r, r = GetRange(S)
  PROVE  /\ SidesKept(Range(v[l]), S, Range(Over(v, l, r)))
         /\ l # 0 => Range(Over(v, l, r)) =
                       {f \in Range(v[l]) : ~Apart(f, UserKey(r.smallest), UserKey(r.largest))}
         /\ \A f \in Range(v[l]) : ~Apart(f, UserKey(r.smallest), UserKey(r.largest))
                                     => f \in Range(Over(v, l, r))
         /\ Range(Over(v, l, r)) \subseteq Range(v[l])
<1> DEFINE F == Range(v[l])
           a == UserKey(r.smallest)
           z == UserKey(r.largest)
<1>1. Ended(r) /\ (\E f \in S : r.smallest = f.smallest) /\ (\E f \in S : r.largest = f.largest)
  BY RangeOfFiles
<1>2. /\ a \in Keys /\ z \in Keys /\ a \in Nat /\ z \in Nat /\ a <= z
      /\ (\E f \in S : a = UserKey(f.smallest)) /\ (\E f \in S : z = UserKey(f.largest))
  BY <1>1, EndsOf, UserKeyType DEF Ended
<1>3. Over(v, l, r) = GetOverlappingInputs(v, l, a, z)
  BY DEF Over
<1> HIDE DEF a, z
<1>4. PICK w \in RangeState(F, a, z) :
         /\ Range(Over(v, l, r)) = {f \in F : ~Apart(f, w[1], w[2])}
         /\ l # 0 => w = <<a, z>>
  BY <1>2, <1>3, OverlappingIs
<1> DEFINE b == w[1]
           e == w[2]
<1>5. /\ b \in Keys /\ e \in Keys /\ b <= a /\ z <= e
      /\ \A x, y \in Keys : NoneBetween(F, x, y) => (z < x => e < x) /\ (y < a => y < b)
      /\ l # 0 => b = a /\ e = z
  BY <1>4 DEF RangeState
<1>6. Range(Over(v, l, r)) = {f \in F : ~Apart(f, b, e)}
  BY <1>4
<1> HIDE DEF b, e
<1>7. \A k \in Keys : k \in Nat /\ k # NoKey
  BY BoundsAssumption
<1>8. ASSUME NEW f \in F
      PROVE  UserKey(f.smallest) \in Nat /\ UserKey(f.largest) \in Nat
  BY EndsOf DEF EndedFiles
<1>9. SidesKept(F, S, {f \in F : ~Apart(f, b, e)})
  <2> SUFFICES ASSUME NEW x \in Keys, NEW y \in Keys, NoneBetween(F, x, y),
                      NEW f \in F, ~Apart(f, b, e)
               PROVE  /\ LeftOf(S, x) => UserKey(f.largest) < x
                      /\ RightOf(S, y) => y < UserKey(f.smallest)
    BY DEF SidesKept, LeftOf, RightOf
  <2> DEFINE s == UserKey(f.smallest)
             t == UserKey(f.largest)
  <2>1. /\ s \in Nat /\ t \in Nat /\ b \in Nat /\ e \in Nat /\ x \in Nat /\ y \in Nat /\ x <= y
        /\ (t < x \/ y < s) /\ ~(t < b) /\ ~(e < s)
    BY <1>5, <1>7, <1>8 DEF NoneBetween, Apart
  <2>2. LeftOf(S, x) => z < x
    BY <1>2 DEF LeftOf
  <2>3. RightOf(S, y) => y < a
    BY <1>2 DEF RightOf
  <2>4. (z < x => e < x) /\ (y < a => y < b)
    BY <1>5
  <2> HIDE DEF s, t
  <2>5. (LeftOf(S, x) => t < x) /\ (RightOf(S, y) => y < s)
    BY <2>1, <2>2, <2>3, <2>4
  <2> QED  BY <2>5 DEF s, t
<1>10. ASSUME NEW f \in F, ~Apart(f, a, z) PROVE ~Apart(f, b, e)
  <2> DEFINE s == UserKey(f.smallest)
             t == UserKey(f.largest)
  <2>1. s \in Nat /\ t \in Nat /\ a \in Nat /\ z \in Nat /\ b \in Nat /\ e \in Nat /\ ~(t < a) /\ ~(z < s)
    BY <1>5, <1>7, <1>2, <1>8, <1>10 DEF Apart
  <2> HIDE DEF s, t
  <2>2. ~(t < b) /\ ~(e < s)
    BY <1>5, <2>1
  <2> QED  BY <2>2 DEF Apart, s, t
<1>11. l # 0 => {f \in F : ~Apart(f, b, e)} = {f \in F : ~Apart(f, a, z)}
  BY <1>5
<1> HIDE DEF F
<1>12. /\ SidesKept(F, S, Range(Over(v, l, r)))
       /\ l # 0 => Range(Over(v, l, r)) = {f \in F : ~Apart(f, a, z)}
       /\ \A f \in F : ~Apart(f, a, z) => f \in Range(Over(v, l, r))
       /\ Range(Over(v, l, r)) \subseteq F
  BY <1>6, <1>9, <1>10, <1>11
<1> QED  BY <1>12 DEF a, z, F

BoundaryState(F, inputs) ==
  {t \in [in : Seq(F), key : IKey] :
     /\ t.in # <<>> /\ Range(inputs) \subseteq Range(t.in)
     /\ \E f \in Range(t.in) : t.key = f.largest
     /\ SidesKept(F, Range(inputs), Range(t.in))}

\* One boundary file more passes over no gap between files.
LEMMA GrowType ==
  ASSUME NEW files, IsSeq(files), EndedFiles(Range(files)), NEW inputs,
         NEW t \in BoundaryState(Range(files), inputs)
  PROVE  Grow(files, t) \in BoundaryState(Range(files), inputs)
<1> DEFINE F == Range(files)
<1>1. CASE Boundary(files, t.key) = None
  BY <1>1 DEF Grow
<1>2. CASE Boundary(files, t.key) # None
  <2> DEFINE f == Boundary(files, t.key)
             in == Append(t.in, f)
             u == [in |-> in, key |-> f.largest]
  <2>1. f \in F /\ UserKey(f.smallest) = UserKey(t.key)
    BY <1>2, BoundaryIs DEF EndedFiles
  <2>2. Grow(files, t) = u
    BY <1>2 DEF Grow
  <2>3. \A g \in F : Ended(g)
    BY DEF EndedFiles
  <2> HIDE DEF f, F
  <2>4. /\ t.in \in Seq(F) /\ t.key \in IKey /\ Range(inputs) \subseteq Range(t.in)
        /\ \E g \in Range(t.in) : t.key = g.largest
        /\ SidesKept(F, Range(inputs), Range(t.in))
    BY DEF BoundaryState, F
  <2>5. PICK g \in Range(t.in) : t.key = g.largest
    BY <2>4
  <2>6. Range(in) = Range(t.in) \cup {f} /\ in # <<>>
    BY <2>4, AppendRange
  <2>7. in \in Seq(F)
    BY <2>1, <2>4, AppendProperties
  <2> HIDE DEF in
  <2>8. Ended(f) /\ f.largest \in IKey
    BY <2>1, <2>3 DEF Ended
  <2>9. Range(t.in) \subseteq F
    BY <2>4, SeqOver
  <2>10. Ended(g)
    BY <2>3, <2>9
  <2>11. ASSUME NEW x \in Keys, NEW y \in Keys, NoneBetween(F, x, y)
         PROVE  /\ LeftOf(Range(inputs), x) => LeftOf(Range(in), x)
                /\ RightOf(Range(inputs), y) => RightOf(Range(in), y)
    <3>1. /\ LeftOf(Range(inputs), x) => LeftOf(Range(t.in), x)
          /\ RightOf(Range(inputs), y) => RightOf(Range(t.in), y)
      BY <2>4, <2>11 DEF SidesKept
    <3> DEFINE s == UserKey(f.smallest)
               e == UserKey(f.largest)
               gs == UserKey(g.smallest)
               ge == UserKey(g.largest)
    <3>2. /\ s \in Nat /\ e \in Nat /\ gs \in Nat /\ ge \in Nat /\ s <= e /\ gs <= ge
          /\ x \in Nat /\ y \in Nat /\ s = ge
      BY <2>1, <2>5, <2>8, <2>10, EndsOf, BoundsAssumption
    <3>3. x <= y /\ (e < x \/ y < s)
      BY <2>1, <2>11 DEF NoneBetween, Apart
    <3>4. LeftOf(Range(t.in), x) => ge < x
      BY DEF LeftOf
    <3>5. RightOf(Range(t.in), y) => y < gs
      BY DEF RightOf
    <3> HIDE DEF s, e, gs, ge
    <3>6. (LeftOf(Range(t.in), x) => e < x) /\ (RightOf(Range(t.in), y) => y < s)
      BY <3>2, <3>3, <3>4, <3>5
    <3>7. LeftOf(Range(inputs), x) => LeftOf(Range(in), x)
      BY <2>6, <3>1, <3>6 DEF LeftOf, e
    <3>8. RightOf(Range(inputs), y) => RightOf(Range(in), y)
      BY <2>6, <3>1, <3>6 DEF RightOf, s
    <3> QED  BY <3>7, <3>8
  <2>12. SidesKept(F, Range(inputs), Range(in))
    BY <2>11 DEF SidesKept
  <2>13. u \in [in : Seq(F), key : IKey] /\ u.in = in /\ u.key = f.largest
    BY <2>7, <2>8
  <2>14. Range(inputs) \subseteq Range(in) /\ f \in Range(in)
    BY <2>4, <2>6
  <2> HIDE DEF u
  <2>15. u \in BoundaryState(F, inputs)
    BY <2>6, <2>12, <2>13, <2>14 DEF BoundaryState
  <2> QED  BY <2>2, <2>15 DEF F
<1> QED  BY <1>1, <1>2

\* Boundary files are on the same side as the inputs they are added to.
LEMMA BoundaryKeepsSide ==
  ASSUME NEW files, IsSeq(files), EndedFiles(Range(files)),
         NEW inputs \in Seq(Range(files)), inputs # <<>>,
         NEW in, in = AddBoundaryInputs(files, inputs)
  PROVE  /\ in \in Seq(Range(files)) /\ in # <<>> /\ Range(inputs) \subseteq Range(in)
         /\ SidesKept(Range(files), Range(inputs), Range(in))
<1> DEFINE F == Range(files)
           n == Len(files)
           b == [in |-> inputs, key |-> GetRange(Range(inputs)).largest]
           T == BoundaryState(F, inputs)
           g == [p \in (1 .. n) \X T |-> Grow(files, p[2])]
<1>1. n \in Nat
  BY DEF IsSeq
<1>2. b \in T
  <2>1. Range(inputs) \subseteq F /\ Range(inputs) # {} /\ IsFiniteSet(Range(inputs))
    <3>1. Len(inputs) # 0
      OBVIOUS
    <3>2. Len(inputs) \in Nat /\ 1 \in 1 .. Len(inputs)
      BY <3>1
    <3>3. inputs[1] \in Range(inputs)
      BY <3>2 DEF Range
    <3> QED  BY <3>3, SeqOver
  <2>2. EndedFiles(Range(inputs))
    BY <2>1, FS_Subset DEF EndedFiles, FileSet
  <2> DEFINE k == GetRange(Range(inputs)).largest
  <2>3. k \in IKey /\ \E f \in Range(inputs) : k = f.largest
    BY <2>1, <2>2, RangeOfFiles DEF Ended
  <2> HIDE DEF k
  <2>4. SidesKept(F, Range(inputs), Range(inputs))
    BY DEF SidesKept
  <2>5. b \in [in : Seq(F), key : IKey] /\ b.in = inputs /\ b.key = k
    BY <2>3 DEF k
  <2> HIDE DEF b
  <2> QED  BY <2>3, <2>4, <2>5 DEF BoundaryState
<1>3. ASSUME NEW t \in T PROVE Grow(files, t) \in T
  BY GrowType
<1> HIDE DEF n, b, T
<1>4. g \in [(1 .. n) \X T -> T] /\ \A i \in 1 .. n, t \in T : g[<<i, t>>] = Grow(files, t)
  BY <1>3
<1> HIDE DEF g
<1>5. PICK e : Iterates(e, n, T, b, g)
  BY <1>1, <1>2, <1>4, RecursiveFunction
<1>6. GrownIs(e, files, inputs)
  <2>1. e \in [0 .. n -> T] /\ e[0] = b
    BY <1>5 DEF Iterates
  <2>2. ASSUME NEW i \in 0 .. n, i # 0 PROVE e[i] = Grow(files, e[i - 1])
    <3>1. i \in 1 .. n /\ i - 1 \in 0 .. n
      BY <1>1, <2>2
    <3> QED  BY <1>4, <1>5, <2>1, <3>1 DEF Iterates
  <2>3. e = [i \in 0 .. n |-> IF i = 0 THEN b ELSE Grow(files, e[i - 1])]
    BY <2>1, <2>2
  <2> QED  BY <2>3 DEF GrownIs, n, b
<1>7. PICK h : GrownIs(h, files, inputs) /\ AddBoundaryInputs(files, inputs) = h[n].in
  BY <1>6, GrownDef DEF n
<1>8. Iterates(h, n, T, b, g)
  <2> DEFINE Body(i) == IF i = 0 THEN b ELSE Grow(files, h[i - 1])
  <2>1. h = [i \in 0 .. n |-> Body(i)]
    BY <1>7 DEF GrownIs, n, b
  <2>2. h = [i \in 0 .. n |-> h[i]] /\ \A i \in 0 .. n : h[i] = Body(i)
    <3> HIDE DEF Body
    <3> QED  BY <2>1
  <2>3. h[0] = b /\ \A i \in 1 .. n : h[i] = Grow(files, h[i - 1])
    <3>1. 0 \in 0 .. n /\ \A i \in 1 .. n : i \in 0 .. n /\ i # 0
      BY <1>1
    <3> QED  BY <2>2, <3>1, Zenon
  <2>4. \A i \in 1 .. n : h[i - 1] \in T => h[i] = g[<<i, h[i - 1]>>]
    BY <1>4, <2>3
  <2> QED  BY <1>1, <1>2, <1>4, <2>2, <2>3, <2>4, IteratesInside
<1>9. h[n] \in T
  BY <1>1, <1>8 DEF Iterates
<1> HIDE DEF F
<1>10. in = h[n].in
  BY <1>7
<1>11. /\ h[n].in \in Seq(F) /\ h[n].in # <<>> /\ Range(inputs) \subseteq Range(h[n].in)
       /\ SidesKept(F, Range(inputs), Range(h[n].in))
  BY <1>9 DEF T, BoundaryState
<1> QED  BY <1>10, <1>11 DEF F

(******************************************************************************)
(* What is beside the inputs of a compaction                                  *)
(******************************************************************************)
InputSet(c) == Range(c.in0) \cup Range(c.in1)

\* Wholly before or wholly behind all of them.
BesideAll(g, S) ==
  \/ \A i \in S : Before(g.largest, i.smallest)
  \/ \A i \in S : Before(i.largest, g.smallest)

\* What of a level does not overlap the range of some files, and the rest.
LEMMA BesideRange ==
  ASSUME NEW S, EndedFiles(S), S # {}, NEW G, EndedFiles(G), DisjointLevel(G),
         NEW r, r = GetRange(S), NEW X,
         X = {f \in G : ~Apart(f, UserKey(r.smallest), UserKey(r.largest))},
         NEW g \in G \ X
  PROVE  BesideAll(g, S \cup X)
<1> DEFINE a == UserKey(r.smallest)
           z == UserKey(r.largest)
<1>1. /\ Ended(r)
      /\ \A f \in S : ~Before(f.smallest, r.smallest) /\ ~Before(r.largest, f.largest)
  BY RangeOfFiles
<1>2. /\ r.smallest \in IKey /\ r.largest \in IKey /\ a \in Nat /\ z \in Nat /\ a <= z
  BY <1>1, EndsOf DEF Ended
<1>3. \A f \in S \cup G : /\ Ended(f) /\ f.smallest \in IKey /\ f.largest \in IKey
                          /\ UserKey(f.smallest) \in Nat /\ UserKey(f.largest) \in Nat
                          /\ UserKey(f.smallest) <= UserKey(f.largest)
  BY EndsOf DEF EndedFiles, Ended
<1>4. \A f \in S : a <= UserKey(f.smallest) /\ UserKey(f.largest) <= z
  BY <1>1, <1>2, <1>3, KeyOrder
<1>5. X = {f \in G : ~Apart(f, a, z)}
  OBVIOUS
<1> HIDE DEF a, z
<1>6. Apart(g, a, z)
  BY <1>5
<1>7. CASE UserKey(g.largest) < a
  <2>1. ASSUME NEW i \in S PROVE Before(g.largest, i.smallest)
    <3>1. UserKey(g.largest) < UserKey(i.smallest)
      BY <1>2, <1>3, <1>4, <1>7
    <3> QED  BY <1>3, <3>1, KeyOrder
  <2>2. ASSUME NEW i \in X PROVE Before(g.largest, i.smallest)
    <3>1. i \in G /\ ~Apart(i, a, z) /\ i # g
      BY <1>5
    <3>2. Before(g.largest, i.smallest) \/ Before(i.largest, g.smallest)
      BY <3>1 DEF DisjointLevel
    <3>3. ASSUME Before(i.largest, g.smallest) PROVE FALSE
      <4>1. UserKey(i.largest) <= UserKey(g.smallest)
        BY <1>3, <3>1, <3>3, KeyOrder
      <4>2. UserKey(i.largest) < a
        BY <1>2, <1>3, <1>7, <3>1, <4>1
      <4> QED  BY <3>1, <4>2 DEF Apart
    <3> QED  BY <3>2, <3>3
  <2> QED  BY <2>1, <2>2 DEF BesideAll
<1>8. CASE z < UserKey(g.smallest)
  <2>1. ASSUME NEW i \in S PROVE Before(i.largest, g.smallest)
    <3>1. UserKey(i.largest) < UserKey(g.smallest)
      BY <1>2, <1>3, <1>4, <1>8
    <3> QED  BY <1>3, <3>1, KeyOrder
  <2>2. ASSUME NEW i \in X PROVE Before(i.largest, g.smallest)
    <3>1. i \in G /\ ~Apart(i, a, z) /\ i # g
      BY <1>5
    <3>2. Before(g.largest, i.smallest) \/ Before(i.largest, g.smallest)
      BY <3>1 DEF DisjointLevel
    <3>3. ASSUME Before(g.largest, i.smallest) PROVE FALSE
      <4>1. UserKey(g.largest) <= UserKey(i.smallest)
        BY <1>3, <3>1, <3>3, KeyOrder
      <4>2. z < UserKey(i.smallest)
        BY <1>2, <1>3, <1>8, <3>1, <4>1
      <4> QED  BY <3>1, <4>2 DEF Apart
    <3> QED  BY <3>2, <3>3
  <2> QED  BY <2>1, <2>2 DEF BesideAll
<1> QED  BY <1>6, <1>7, <1>8 DEF Apart

\* Sides are kept among more files, one step after another, and for a union.
LEMMA SidesJoin ==
  ASSUME NEW F, NEW G, NEW A, NEW B, NEW C
  PROVE  /\ SidesKept(F, A, B) => SidesKept(F \cup G, A, B) /\ SidesKept(G \cup F, A, B)
         /\ SidesKept(F, A, B) /\ SidesKept(F, B, C) => SidesKept(F, A, C)
         /\ SidesKept(F, A, B) /\ SidesKept(F, A, C) => SidesKept(F, A, B \cup C)
<1>1. \A x, y : NoneBetween(F \cup G, x, y) => NoneBetween(F, x, y)
  BY DEF NoneBetween
<1>2. SidesKept(F, A, B) => SidesKept(F \cup G, A, B) /\ SidesKept(G \cup F, A, B)
  <2>1. F \cup G = G \cup F
    OBVIOUS
  <2>2. SidesKept(F, A, B) => SidesKept(F \cup G, A, B)
    BY <1>1 DEF SidesKept
  <2> QED  BY <2>1, <2>2
<1>3. SidesKept(F, A, B) /\ SidesKept(F, B, C) => SidesKept(F, A, C)
  BY DEF SidesKept
<1>4. SidesKept(F, A, B) /\ SidesKept(F, A, C) => SidesKept(F, A, B \cup C)
  BY DEF SidesKept, LeftOf, RightOf
<1> QED  BY <1>2, <1>3, <1>4

\* The files chosen: those of the next level that overlap them, all on the side
\* of the first ones.
Chosen(v, level, inputs, c) ==
  /\ c.level = level
  /\ c.in0 \in Seq(Range(v[level])) /\ c.in1 \in Seq(Range(v[level + 1])) /\ c.in0 # <<>>
  /\ c.in1 = Over(v, level + 1, GetRange(Range(c.in0)))
  /\ SidesKept(Range(v[level]) \cup Range(v[level + 1]), Range(inputs), InputSet(c))

\* SetupOtherInputs chooses so, from any files of the level.
LEMMA SetupChooses ==
  ASSUME NEW tb, IsTables(tb), NEW n \in Nat, NEW v, GoodVersion(v, tb, n),
         NEW level \in 0 .. NumLevels - 2, NEW inputs \in Seq(Range(v[level])), inputs # <<>>,
         NEW c, c = SetupOtherInputs(v, level, inputs)
  PROVE  Chosen(v, level, inputs, c)
<1> DEFINE F == Range(v[level])
           G == Range(v[level + 1])
           A == Range(inputs)
           in0 == AddBoundaryInputs(v[level], inputs)
           in1 == Over(v, level + 1, GetRange(Range(in0)))
           all == GetRange(Range(in0) \cup Range(in1))
           over == Over(v, level, all)
           wide0 == AddBoundaryInputs(v[level], over)
           wide1 == Over(v, level + 1, GetRange(Range(wide0)))
           use == Widened(v, level, in0, in1, wide0)
<1>1. level \in Levels /\ level + 1 \in Levels
  BY LevelsAre
<1>2. /\ IsSeq(v[level]) /\ IsSeq(v[level + 1]) /\ EndedFiles(F) /\ EndedFiles(G)
  BY <1>1, GoodVersionFiles, GoodEnded DEF GoodVersion
<1>3. \A S : (S \subseteq F \/ S \subseteq G) => EndedFiles(S)
  BY <1>2, FS_Subset DEF EndedFiles, FileSet
<1>4. \A S, T : S \subseteq F /\ T \subseteq G => EndedFiles(S \cup T)
  <2> SUFFICES ASSUME NEW S, NEW T, S \subseteq F, T \subseteq G PROVE EndedFiles(S \cup T)
    OBVIOUS
  <2>1. GoodFiles(F \cup G, tb, n)
    BY <1>1 DEF GoodVersion, GoodFiles
  <2>2. GoodFiles(S \cup T, tb, n)
    BY <2>1, GoodSubset
  <2> QED  BY <2>2, GoodEnded
<1>5. /\ in0 \in Seq(F) /\ in0 # <<>> /\ SidesKept(F, A, Range(in0))
  BY <1>2, BoundaryKeepsSide
<1>6. c = Compaction(v, level, use[1], use[2])
  BY Zenon DEF SetupOtherInputs
<1>7. c.level = level /\ c.in0 = use[1] /\ c.in1 = use[2]
  BY <1>6 DEF Compaction
<1>8. \/ use = <<in0, in1>>
      \/ Len(wide0) > Len(in0) /\ use = <<wide0, wide1>>
  BY Zenon DEF Widened
<1> HIDE DEF in0, wide0, over, use, F, G, A
<1>9. ASSUME NEW s \in Seq(F), s # <<>>
      PROVE  /\ Over(v, level + 1, GetRange(Range(s))) \in Seq(G)
             /\ SidesKept(G, Range(s), Range(Over(v, level + 1, GetRange(Range(s)))))
  <2>1. Range(s) \subseteq F /\ Range(s) # {}
    BY <1>9, SeqOver, SeqNotEmpty
  <2>2. EndedFiles(Range(s))
    BY <1>3, <2>1
  <2> QED  BY <1>2, <2>1, <2>2, OverlapKeepsSide, OverlappingInside DEF Over, G
<1>10. ASSUME NEW s \in Seq(F), s # <<>>, SidesKept(F \cup G, A, Range(s)),
              c.in0 = s, c.in1 = Over(v, level + 1, GetRange(Range(s)))
       PROVE  Chosen(v, level, inputs, c)
  <2>1. c.in1 \in Seq(G) /\ SidesKept(G, Range(s), Range(c.in1))
    BY <1>9, <1>10
  <2>2. SidesKept(F \cup G, Range(s), Range(c.in1))
    BY <2>1, SidesJoin
  <2>3. SidesKept(F \cup G, A, Range(c.in1))
    BY <1>10, <2>2, SidesJoin
  <2>4. SidesKept(F \cup G, A, InputSet(c))
    BY <1>10, <2>3, SidesJoin DEF InputSet
  <2> QED  BY <1>7, <1>10, <2>1, <2>4 DEF Chosen, F, G, A
<1>11. SidesKept(F \cup G, A, Range(in0))
  BY <1>5, SidesJoin
<1>12. CASE use = <<in0, in1>>
  BY <1>5, <1>7, <1>10, <1>11, <1>12
<1>13. CASE Len(wide0) > Len(in0) /\ use = <<wide0, wide1>>
  <2>1. Range(in0) \subseteq F /\ Range(in0) # {}
    BY <1>5, SeqOver, SeqNotEmpty
  <2>2. in1 \in Seq(G) /\ SidesKept(G, Range(in0), Range(in1))
    BY <1>5, <1>9
  <2> HIDE DEF in1
  <2>3. Range(in1) \subseteq G
    BY <2>2, SeqOver
  <2> DEFINE S == Range(in0) \cup Range(in1)
  <2>4. EndedFiles(S) /\ S # {}
    BY <1>4, <2>1, <2>3
  <2>5. SidesKept(F \cup G, A, S)
    <3>1. SidesKept(F \cup G, Range(in0), Range(in1))
      BY <2>2, SidesJoin
    <3>2. SidesKept(F \cup G, A, Range(in1))
      BY <1>11, <3>1, SidesJoin
    <3> QED  BY <1>11, <3>2, SidesJoin
  <2>6. SidesKept(F, S, Range(over)) /\ over \in Seq(F)
    <3> HIDE DEF S
    <3>1. all = GetRange(S)
      BY DEF S
    <3> HIDE DEF all
    <3> QED  BY <1>2, <2>4, <3>1, OverlapKeepsSide, OverlappingInside DEF Over, F, over
  <2>7. SidesKept(F \cup G, A, Range(over))
    <3> HIDE DEF S
    <3>1. SidesKept(F \cup G, S, Range(over))
      BY <2>6, SidesJoin
    <3> QED  BY <2>5, <3>1, SidesJoin
  <2>8. over # <<>>
    <3> SUFFICES ASSUME over = <<>> PROVE FALSE
      OBVIOUS
    <3>1. wide0 = <<>>
      BY DEF AddBoundaryInputs, wide0
    <3>2. Len(wide0) = 0 /\ Len(in0) \in Nat
      BY <1>5, <3>1
    <3> QED  BY <1>13, <3>2
  <2>9. wide0 \in Seq(F) /\ wide0 # <<>> /\ SidesKept(F, Range(over), Range(wide0))
    BY <1>2, <2>6, <2>8, BoundaryKeepsSide DEF wide0, F
  <2>10. SidesKept(F \cup G, A, Range(wide0))
    <3>1. SidesKept(F \cup G, Range(over), Range(wide0))
      BY <2>9, SidesJoin
    <3> QED  BY <2>7, <3>1, SidesJoin
  <2> QED  BY <1>7, <1>10, <1>13, <2>9, <2>10
<1> QED  BY <1>8, <1>12, <1>13

\* Inputs set up from some files are beside all other files of the next level.
SetUp(v, c) == \E level \in 0 .. NumLevels - 2 : \E inputs : Chosen(v, level, inputs, c)

\* Such inputs are beside every file of the next level they leave out.
LEMMA SetUpBeside ==
  ASSUME NEW tb, IsTables(tb), NEW n \in Nat, NEW v, GoodVersion(v, tb, n), Disjoint(v),
         NEW c, SetUp(v, c)
  PROVE  /\ c.level \in 0 .. NumLevels - 2
         /\ Range(c.in0) \subseteq Range(v[c.level]) /\ Range(c.in1) \subseteq Range(v[c.level + 1])
         /\ EndedFiles(InputSet(c)) /\ InputSet(c) # {}
         /\ \A g \in Range(v[c.level + 1]) \ Range(c.in1) : BesideAll(g, InputSet(c))
<1>0. PICK level \in 0 .. NumLevels - 2 : \E inputs : Chosen(v, level, inputs, c)
  BY DEF SetUp
<1>1. PICK inputs : Chosen(v, level, inputs, c)
  BY <1>0
<1> DEFINE F == Range(v[level])
           G == Range(v[level + 1])
           r == GetRange(Range(c.in0))
<1>2. /\ c.level = level /\ c.in0 \in Seq(F) /\ c.in1 \in Seq(G) /\ c.in0 # <<>>
      /\ c.in1 = Over(v, level + 1, r)
  BY <1>1 DEF Chosen
<1>3. /\ level \in Levels /\ level + 1 \in Levels /\ level + 1 # 0
  BY LevelsAre
<1>4. IsSeq(v[level + 1]) /\ EndedFiles(G)
  BY <1>3, GoodVersionFiles, GoodEnded DEF GoodVersion
<1>5. GoodFiles(F \cup G, tb, n)
  BY <1>3 DEF GoodVersion, GoodFiles
<1>6. DisjointLevel(G)
  BY <1>3 DEF Disjoint
<1> HIDE DEF F, G, r
<1>7. Range(c.in0) \subseteq F /\ Range(c.in0) # {} /\ Range(c.in1) \subseteq G
  BY <1>2, SeqOver, SeqNotEmpty
<1>8. EndedFiles(InputSet(c)) /\ EndedFiles(Range(c.in0)) /\ InputSet(c) # {}
  <2>1. GoodFiles(InputSet(c), tb, n) /\ GoodFiles(Range(c.in0), tb, n)
    BY <1>5, <1>7, GoodSubset DEF InputSet
  <2> QED  BY <1>7, <2>1, GoodEnded DEF InputSet
<1>9. Range(c.in1) = {f \in G : ~Apart(f, UserKey(r.smallest), UserKey(r.largest))}
  BY <1>2, <1>3, <1>4, <1>7, <1>8, OverlapKeepsSide DEF G, r
<1>10. \A g \in G \ Range(c.in1) : BesideAll(g, InputSet(c))
  BY <1>4, <1>6, <1>7, <1>8, <1>9, BesideRange DEF r, InputSet
<1> QED  BY <1>2, <1>7, <1>8, <1>10 DEF F, G

\* Between two keys where no file of the two levels is, all inputs are on one side.
OneSided(v, level, S) ==
  \A x, y \in Keys :
    NoneBetween(Range(v[level]) \cup Range(v[level + 1]), x, y) => LeftOf(S, x) \/ RightOf(S, y)

\* No room between files separates the inputs of a compaction the tree picks.
LEMMA PickedOneSided ==
  ASSUME NEW tb, IsTables(tb), NEW n \in Nat, NEW v, GoodVersion(v, tb, n),
         NEW pointers, NEW sk,
         SizeCompaction(v) \/ (sk.level \in 0 .. NumLevels - 2 /\ sk.file \in Range(v[sk.level])),
         NEW c, c = PickCompaction(v, pointers, sk)
  PROVE  SetUp(v, c) /\ OneSided(v, c.level, InputSet(c))
<1>0. PICK level \in 0 .. NumLevels - 2 : \E first \in Range(v[level]) :
        c = SetupOtherInputs(v, level, PickedFiles(v, level, first))
  BY PickedFrom
<1>1. PICK first \in Range(v[level]) : c = SetupOtherInputs(v, level, PickedFiles(v, level, first))
  BY <1>0
<1> DEFINE F == Range(v[level])
           G == Range(v[level + 1])
           inputs == PickedFiles(v, level, first)
<1>2. level \in Levels
  BY LevelsAre
<1>3. IsSeq(v[level]) /\ EndedFiles(F) /\ first \in F
  BY <1>2, GoodVersionFiles, GoodEnded DEF GoodVersion
<1>4. EndedFiles({first}) /\ Ended(first)
  BY <1>3, FS_Subset DEF EndedFiles, FileSet
<1>5. inputs \in Seq(F) /\ inputs # <<>> /\ SidesKept(F, {first}, Range(inputs))
  <2>1. CASE level = 0
    <3> DEFINE r == GetRange({first})
               over == Over(v, level, r)
    <3>1. inputs = over
      BY <2>1 DEF PickedFiles
    <3>2. r.smallest = first.smallest /\ r.largest = first.largest
      BY <1>4, RangeOfFiles
    <3> HIDE DEF r
    <3>3. over \in Seq(F)
      BY <1>3, OverlappingInside DEF Over
    <3>4. ~Apart(first, UserKey(r.smallest), UserKey(r.largest))
      <4>1. /\ UserKey(first.smallest) \in Nat /\ UserKey(first.largest) \in Nat
            /\ UserKey(first.smallest) <= UserKey(first.largest)
        BY <1>4, EndsOf
      <4> QED  BY <3>2, <4>1 DEF Apart
    <3>5. SidesKept(F, {first}, Range(over)) /\ first \in Range(over)
      BY <1>3, <1>4, <3>4, OverlapKeepsSide DEF r
    <3> HIDE DEF over
    <3>6. over # <<>>
      BY <3>3, <3>5, SeqNotEmpty
    <3> QED  BY <3>1, <3>3, <3>5, <3>6
  <2>2. CASE level # 0
    <3>1. inputs = <<first>>
      BY <2>2 DEF PickedFiles
    <3>2. Range(<<first>>) = {first}
      BY DEF Range
    <3>3. SidesKept(F, {first}, {first})
      BY DEF SidesKept
    <3> HIDE DEF inputs
    <3> QED  BY <1>3, <3>1, <3>2, <3>3
  <2> QED  BY <2>1, <2>2
<1> HIDE DEF inputs
<1>6. Chosen(v, level, inputs, c)
  BY <1>1, <1>5, SetupChooses DEF inputs, F
<1>7. c.level = level /\ SidesKept(F \cup G, Range(inputs), InputSet(c))
  BY <1>6 DEF Chosen
<1>8. SidesKept(F \cup G, {first}, InputSet(c))
  <2>1. SidesKept(F \cup G, {first}, Range(inputs))
    BY <1>5, SidesJoin
  <2> HIDE DEF F, G
  <2> QED  BY <1>7, <2>1, SidesJoin
<1>9. OneSided(v, c.level, InputSet(c))
  <2> SUFFICES ASSUME NEW x \in Keys, NEW y \in Keys, NoneBetween(F \cup G, x, y)
               PROVE  LeftOf(InputSet(c), x) \/ RightOf(InputSet(c), y)
    BY <1>7 DEF OneSided, F, G
  <2>1. LeftOf({first}, x) \/ RightOf({first}, y)
    BY <1>3 DEF NoneBetween, Apart, LeftOf, RightOf
  <2> QED  BY <1>8, <2>1 DEF SidesKept
<1> QED  BY <1>6, <1>9 DEF SetUp

(******************************************************************************)
(* The outputs of a compaction follow each other                              *)
(******************************************************************************)
KeyOrderOf(S) == {p \in S \X S : Before(p[1], p[2])}

\* The entries of a compaction in order.
LEMMA KeysInOrder ==
  ASSUME NEW S, IsContents(S), NEW q, q = Sorted(S)
  PROVE  /\ q \in Seq(S)
         /\ \A i, j \in 1 .. Len(q) : i < j => Before(q[i], q[j])
<1> DEFINE R == KeyOrderOf(S)
<1>1. \A x, y \in S : <<x, y>> \in R <=> Before(x, y)
  BY DEF KeyOrderOf
<1>2. \A x \in S : x \in IKey
  BY DEF IsContents
<1> HIDE DEF R
<1>3. StrictOrder(S, R)
  BY <1>1, <1>2, BeforeIsOrder DEF StrictOrder
<1>4. \A x \in S : Below(S, R, x) = {y \in S : Before(y, x)}
  BY <1>1 DEF Below
<1>5. q = [i \in 1 .. Cardinality(S) |->
             CHOOSE x \in S : Cardinality({y \in S : Before(y, x)}) = i - 1]
  BY DEF InOrder, Sorted
<1>6. Ranks(q, S, R)
  <2>1. ASSUME NEW i \in 1 .. Cardinality(S), NEW x \in S, Cardinality(Below(S, R, x)) = i - 1
        PROVE  q[i] \in S /\ Cardinality(Below(S, R, q[i])) = i - 1
    <3>1. Cardinality({y \in S : Before(y, x)}) = i - 1
      BY <1>4, <2>1
    <3>2. q[i] \in S /\ Cardinality({y \in S : Before(y, q[i])}) = i - 1
      BY <1>5, <3>1
    <3> QED  BY <1>4, <3>2
  <2>2. q = [i \in 1 .. Cardinality(S) |-> q[i]]
    <3> DEFINE First(i) == CHOOSE x \in S : Cardinality({y \in S : Before(y, x)}) = i - 1
    <3>1. q = [i \in 1 .. Cardinality(S) |-> First(i)]
      BY <1>5
    <3> HIDE DEF First
    <3> QED  BY <3>1
  <2> QED  BY <2>1, <2>2 DEF Ranks
<1>7. IsFiniteSet(S)
  BY DEF IsContents
<1>8. /\ q \in Seq(S)
      /\ \A i, j \in 1 .. Len(q) : i < j => <<q[i], q[j]>> \in R
  BY <1>3, <1>6, <1>7, RanksList
<1>9. \A i \in 1 .. Len(q) : q[i] \in S
  BY <1>8
<1> QED  BY <1>1, <1>8, <1>9

\* Each table of a list ends before any later one begins.
TablesFollow(q) ==
  \A i, j \in 1 .. Len(q) : i < j => \A x \in q[i] : \A y \in q[j] : Before(x, y)
EntriesIn(q) == UNION {q[k] : k \in 1 .. Len(q)}

\* A key behind all of them is added to the last table or to a new one.
LEMMA AddKeyFollows ==
  ASSUME NEW kept, NEW n, NEW s \in OutputState(kept, n), NEW e,
         TablesFollow(s.files), \A x \in EntriesIn(s.files) : Before(x, e),
         NEW t, t = AddKey(kept, s, e)
  PROVE  /\ TablesFollow(t.files)
         /\ \A x \in EntriesIn(t.files) : x = e \/ x \in EntriesIn(s.files)
<1> DEFINE X == (SUBSET kept) \ {{}}
           q == s.files
           r == t.files
           k == Len(q)
<1>1. /\ s \in [files : Seq(X), open : BOOLEAN, from : 1 .. n]
      /\ q \in Seq(X) /\ k \in Nat /\ (s.open => q # <<>>)
  BY DEF OutputState
<1>2. CASE e \notin kept
  BY <1>2 DEF AddKey
<1>3. CASE e \in kept /\ s.open
  <2>1. r = ReplaceAt(q, k, Last(q) \cup {e})
    BY <1>1, <1>3 DEF AddKey
  <2>2. k \in 1 .. k /\ Last(q) = q[k]
    BY <1>1, <1>3 DEF Last
  <2> HIDE DEF q, r, k
  <2>3. r = [q EXCEPT ![k] = q[k] \cup {e}]
    BY <2>1, <2>2 DEF ReplaceAt
  <2>4. Len(r) = k /\ DOMAIN q = 1 .. k
    <3>1. q \in Seq(X) /\ k = Len(q)
      BY <1>1 DEF k
    <3> HIDE DEF X
    <3>2. DOMAIN q = 1 .. k
      BY <3>1
    <3>3. DOMAIN r = 1 .. k
      BY <2>3, <3>2
    <3> QED  BY <1>1, <3>2, <3>3
  <2>5. \A i \in 1 .. k : r[i] = IF i = k THEN q[k] \cup {e} ELSE q[i]
    BY <2>3, <2>4
  <2>6. \A x \in EntriesIn(r) : x = e \/ x \in EntriesIn(q)
    <3> SUFFICES ASSUME NEW x, NEW i \in 1 .. k, x \in r[i] PROVE x = e \/ x \in EntriesIn(q)
      BY <2>4 DEF EntriesIn
    <3>1. CASE i = k
      BY <2>2, <2>5, <3>1 DEF EntriesIn, k
    <3>2. CASE i # k
      BY <2>2, <2>5, <3>2 DEF EntriesIn, k
    <3> QED  BY <3>1, <3>2
  <2>7. ASSUME NEW i \in 1 .. k, NEW j \in 1 .. k, i < j, NEW x \in r[i], NEW y \in r[j]
        PROVE  Before(x, y)
    <3>1. i # k /\ x \in q[i]
      BY <1>1, <2>5, <2>7
    <3>2. Before(x, e)
      <4>1. x \in EntriesIn(q)
        BY <3>1 DEF EntriesIn, k
      <4> QED  BY <4>1 DEF q
    <3>3. y \in q[j] \/ y = e
      BY <2>5
    <3>4. y \in q[j] => Before(x, y)
      BY <2>7, <3>1 DEF TablesFollow, q, k
    <3> QED  BY <3>2, <3>3, <3>4
  <2>8. TablesFollow(r)
    BY <2>4, <2>7 DEF TablesFollow
  <2> QED  BY <2>6, <2>8 DEF q, r
<1>4. CASE e \in kept /\ ~s.open
  <2>1. r = Append(q, {e})
    BY <1>1, <1>4 DEF AddKey
  <2>2. /\ Len(r) = k + 1 /\ r[k + 1] = {e}
        /\ \A i \in 1 .. k : r[i] = q[i]
    <3> HIDE DEF X, r
    <3> QED  BY <1>1, <2>1
  <2> HIDE DEF r
  <2>3. \A i \in 1 .. Len(r) : i = k + 1 \/ i \in 1 .. k
    BY <1>1, <2>2
  <2>4. \A x \in EntriesIn(r) : x = e \/ x \in EntriesIn(q)
    <3> SUFFICES ASSUME NEW x, NEW i \in 1 .. Len(r), x \in r[i] PROVE x = e \/ x \in EntriesIn(q)
      BY DEF EntriesIn
    <3> HIDE DEF q
    <3> QED  BY <2>2, <2>3 DEF EntriesIn
  <2>5. ASSUME NEW i \in 1 .. Len(r), NEW j \in 1 .. Len(r), i < j, NEW x \in r[i], NEW y \in r[j]
        PROVE  Before(x, y)
    <3>1. i \in 1 .. k /\ x \in q[i]
      BY <1>1, <2>2, <2>3, <2>5
    <3>2. x \in EntriesIn(q)
      BY <3>1 DEF EntriesIn
    <3>3. CASE j = k + 1
      BY <2>2, <3>2, <3>3
    <3>4. CASE j \in 1 .. k
      BY <2>2, <2>5, <3>1, <3>4 DEF TablesFollow
    <3> QED  BY <2>3, <3>3, <3>4
  <2>6. TablesFollow(r)
    BY <2>5 DEF TablesFollow
  <2> QED  BY <2>4, <2>6 DEF r
<1> QED  BY <1>2, <1>3, <1>4

\* The outputs of a compaction follow each other.
LEMMA OutputsFollow ==
  ASSUME NEW c, NEW entries, IsContents(entries), NEW kept, kept \subseteq entries
  PROVE  TablesFollow(Outputs(c, entries, kept))
<1> DEFINE keys == Sorted(entries)
           size == Len(keys)
<1>1. keys \in Seq(entries) /\ \A i, j \in 1 .. Len(keys) : i < j => Before(keys[i], keys[j])
  BY KeysInOrder
<1>2. PICK h : /\ size \in Nat /\ Outputs(c, entries, kept) = h[size].files
               /\ h[0] = [files |-> <<>>, open |-> FALSE, from |-> 1]
               /\ \A i \in 0 .. size : h[i] \in OutputState(kept, size + 1)
               /\ \A i \in 1 .. size : h[i] = OutputStep(c, keys, kept, i, h[i - 1])
  <2>1. IsFiniteSet(entries)
    BY DEF IsContents
  <2>2. size = Len(Sorted(entries))
    OBVIOUS
  <2> HIDE DEF size
  <2> QED  BY <2>1, <2>2, OutputsSteps
<1> HIDE DEF keys
<1> DEFINE Ahead(i) == \A x \in EntriesIn(h[i].files) :
                         \A j \in i + 1 .. size : Before(x, keys[j])
           Good == {i \in 0 .. size : TablesFollow(h[i].files) /\ Ahead(i)}
<1>3. 0 \in Good
  <2>1. h[0].files = <<>> /\ Len(<<>>) = 0
    BY <1>2
  <2>2. TablesFollow(h[0].files) /\ Ahead(0)
    <3>1. \A k \in 1 .. Len(h[0].files) : FALSE
      BY <2>1
    <3> QED  BY <3>1, Zenon DEF TablesFollow, EntriesIn
  <2> QED  BY <1>2, <2>2
<1>4. ASSUME NEW i \in 1 .. size, i - 1 \in Good PROVE i \in Good
  <2> DEFINE s == h[i - 1]
             stop == MapThenSumSet(LAMBDA f : f.size, Passed(c, keys, i, s.from)) > GrandParentLimit
             u == [s EXCEPT !.open = FALSE, !.from = i]
             w == IF stop THEN u ELSE s
  <2>1. i - 1 \in 0 .. size /\ i \in 0 .. size /\ i \in 1 .. size + 1
    BY <1>2
  <2>2. s \in OutputState(kept, size + 1) /\ TablesFollow(s.files) /\ Ahead(i - 1)
    BY <1>2, <1>4, <2>1
  <2>3. h[i] = AddKey(kept, w, keys[i])
    BY <1>2 DEF OutputStep
  <2> HIDE DEF s, stop
  <2>4. w \in OutputState(kept, size + 1) /\ w.files = s.files
    <3>1. u \in OutputState(kept, size + 1) /\ u.files = s.files
      BY <2>1, <2>2 DEF OutputState
    <3> QED  BY <2>2, <3>1
  <2> HIDE DEF u, w
  <2>5. \A x \in EntriesIn(s.files) : \A j \in i .. size : Before(x, keys[j])
    <3>1. i - 1 + 1 = i
      OBVIOUS
    <3> QED  BY <2>2, <3>1 DEF s
  <2>6. /\ TablesFollow(h[i].files)
        /\ \A x \in EntriesIn(h[i].files) : x = keys[i] \/ x \in EntriesIn(s.files)
    <3>1. \A x \in EntriesIn(w.files) : Before(x, keys[i])
      BY <1>2, <2>4, <2>5
    <3> QED  BY <2>2, <2>3, <2>4, <3>1, AddKeyFollows
  <2>7. Ahead(i)
    <3> SUFFICES ASSUME NEW x \in EntriesIn(h[i].files), NEW j \in i + 1 .. size
                 PROVE  Before(x, keys[j])
      OBVIOUS
    <3>1. j \in i .. size /\ i < j /\ j \in 1 .. size
      BY <1>2
    <3>2. CASE x = keys[i]
      BY <1>1, <3>1, <3>2
    <3>3. CASE x \in EntriesIn(s.files)
      BY <2>5, <3>1, <3>3
    <3> QED  BY <2>6, <3>2, <3>3
  <2> QED  BY <2>1, <2>6, <2>7
<1>5. \A i \in 0 .. size : i \in Good
  <2> HIDE DEF Good
  <2> QED  BY <1>2, <1>3, <1>4, UptoInduction
<1>6. size \in Good
  BY <1>2, <1>5
<1> QED  BY <1>2, <1>6

\* From the beginning of some file on, up to the end of some file.
Within(x, y, S) == (\E i \in S : ~Before(x, i.smallest)) /\ (\E i \in S : ~Before(i.largest, y))

\* The entries of files are within them.
LEMMA EntriesWithin ==
  ASSUME NEW tb, IsTables(tb), NEW n \in Nat, NEW S, GoodFiles(S, tb, n),
         NEW f \in S, NEW x \in tb[f.number]
  PROVE  x \in IKey /\ Within(x, x, S)
BY GoodEnds DEF GoodFiles, Within

\* What is beside some files is beside all that is within them.
LEMMA BesideWithin ==
  ASSUME NEW S, EndedFiles(S), NEW g, Ended(g), BesideAll(g, S),
         NEW x \in IKey, NEW y \in IKey, Within(x, y, S)
  PROVE  Before(g.largest, x) \/ Before(y, g.smallest)
<1>1. g.largest \in IKey /\ g.smallest \in IKey /\ \A i \in S : i.smallest \in IKey /\ i.largest \in IKey
  BY DEF EndedFiles, Ended
<1>2. PICK i \in S : ~Before(x, i.smallest)
  BY DEF Within
<1>3. PICK j \in S : ~Before(j.largest, y)
  BY DEF Within
<1>4. Before(g.largest, i.smallest) \/ Before(j.largest, g.smallest)
  BY DEF BesideAll
<1>5. Before(g.largest, i.smallest) => Before(g.largest, x)
  BY <1>1, <1>2, KeyOrder
<1>6. Before(j.largest, g.smallest) => Before(y, g.smallest)
  BY <1>1, <1>3, KeyOrder
<1> QED  BY <1>4, <1>5, <1>6

(******************************************************************************)
(* Edits that keep the levels in order                                        *)
(******************************************************************************)
Beside(f, g) == Before(f.largest, g.smallest) \/ Before(g.largest, f.smallest)
Stay(v, e, l) == KeptAt(v, e, l) \ AddedAt(e, l)

\* Levels stay in order when what is added follows itself and what stays.
LEMMA SaveToDisjoint ==
  ASSUME NEW tb, IsTables(tb), NEW n \in Nat, NEW v, GoodVersion(v, tb, n), Disjoint(v),
         NEW e, GoodEdit(e, tb, n),
         \A l \in Levels \ {0} :
           /\ DisjointLevel(AddedAt(e, l))
           /\ \A f \in Stay(v, e, l), g \in AddedAt(e, l) : Beside(f, g)
  PROVE  Disjoint(SaveTo(v, e))
<1> SUFFICES ASSUME NEW l \in Levels \ {0} PROVE DisjointLevel(Range(SaveTo(v, e)[l]))
  BY DEF Disjoint
<1>1. Range(SaveTo(v, e)[l]) = KeptAt(v, e, l)
  BY SaveToIs DEF GoodVersion
<1> DEFINE A == AddedAt(e, l)
           K == KeptAt(v, e, l)
<1>2. DisjointLevel(A) /\ \A f \in K \ A, g \in A : Beside(f, g)
  BY DEF Stay
<1>3. K \ A \subseteq Range(v[l])
  BY DEF KeptAt
<1>4. DisjointLevel(Range(v[l]))
  BY DEF Disjoint
<1> HIDE DEF A, K
<1>5. DisjointLevel(K)
  <2> SUFFICES ASSUME NEW f \in K, NEW g \in K, f # g PROVE Beside(f, g)
    BY DEF DisjointLevel, Beside
  <2>1. CASE f \in A /\ g \in A
    BY <1>2, <2>1 DEF DisjointLevel, Beside
  <2>2. CASE f \notin A /\ g \in A
    BY <1>2, <2>2
  <2>3. CASE f \in A /\ g \notin A
    <3>1. Beside(g, f)
      BY <1>2, <2>3
    <3> QED  BY <3>1 DEF Beside
  <2>4. CASE f \notin A /\ g \notin A
    BY <1>3, <1>4, <2>4 DEF DisjointLevel, Beside
  <2> QED  BY <2>1, <2>2, <2>3, <2>4
<1> QED  BY <1>1, <1>5 DEF K

\* The files that an edit with one added file adds.
LEMMA OneAdded ==
  ASSUME NEW e, NEW level, NEW f, e.added = {<<level, f>>}, NEW l
  PROVE  AddedAt(e, l) = IF l = level THEN {f} ELSE {}
<1> DEFINE p == <<level, f>>
           some == {x \in e.added : x[1] = l}
<1>1. p[1] = level /\ p[2] = f
  OBVIOUS
<1>2. e.added = {p}
  OBVIOUS
<1> HIDE DEF p
<1>3. some = IF l = level THEN {p} ELSE {}
  BY <1>1, <1>2
<1>4. AddedAt(e, l) = {a[2] : a \in some}
  BY DEF AddedAt
<1> HIDE DEF some
<1> QED  BY <1>1, <1>3, <1>4

\* An edit that deletes nothing keeps all files.
LEMMA NoneDeleted ==
  ASSUME NEW e, e.deleted = {}, NEW v, NEW l
  PROVE  DeletedAt(e, l) = {} /\ KeptAt(v, e, l) = Range(v[l]) \cup AddedAt(e, l)
BY DEF DeletedAt, KeptAt

\* Edits that only add files to level 0.
LEMMA OpenKeepsOrder ==
  ASSUME NEW tb, IsTables(tb), NEW n \in Nat, NEW v, GoodVersion(v, tb, n), Disjoint(v),
         NEW e, GoodEdit(e, tb, n), \A a \in e.added : a[1] = 0
  PROVE  Disjoint(SaveTo(v, e))
<1>1. \A l \in Levels \ {0} : AddedAt(e, l) = {}
  BY DEF AddedAt
<1>2. \A l \in Levels \ {0} : DisjointLevel(AddedAt(e, l))
  BY <1>1 DEF DisjointLevel
<1> QED  BY <1>1, <1>2, SaveToDisjoint

\* Where the memtable goes, and above, nothing overlaps it.
LEMMA PickedLevelApart ==
  ASSUME NEW tb, IsTables(tb), NEW n \in Nat, NEW v, GoodVersion(v, tb, n), Disjoint(v),
         NEW a \in Keys, NEW z \in Keys,
         NEW level, level = PickLevelForMemTableOutput(v, a, z)
  PROVE  /\ level \in Levels
         /\ level # 0 => \A m \in 0 .. level : \A f \in Range(v[m]) : Apart(f, a, z)
<1> DEFINE free(l) == /\ ~OverlapInLevel(v, l, a, z)
                      /\ \/ l + 1 >= NumLevels
                         \/ TotalFileSize(GetOverlappingInputs(v, l + 1, a, z)) <= GrandParentLimit
           S == {l \in 0 .. MaxMemLevel : \A m \in 1 .. l : free(m)}
<1>1. level = IF OverlapInLevel(v, 0, a, z) THEN 0 ELSE Max(S)
  BY DEF PickLevelForMemTableOutput
<1>2. Max(S) \in S
  <2>1. S \subseteq 0 .. MaxMemLevel /\ MaxMemLevel \in Nat
    BY LevelsAssumption
  <2>2. 0 \in S
    BY LevelsAssumption
  <2> HIDE DEF S
  <2>3. S \subseteq Nat /\ IsFiniteSet(S)
    <3>1. 0 .. MaxMemLevel \subseteq Nat /\ IsFiniteSet(0 .. MaxMemLevel)
      BY <2>1, FS_Interval
    <3>2. IsFiniteSet(S)
      BY <2>1, <3>1, FS_Subset
    <3> QED  BY <2>1, <3>1, <3>2
  <2> QED  BY <2>2, <2>3, MaxOfSome
<1>3. 0 .. MaxMemLevel \subseteq Levels /\ 0 \in Levels
  BY LevelsAssumption DEF Levels
<1>4. level \in Levels
  BY <1>1, <1>2, <1>3
<1>5. ASSUME level # 0, NEW m \in 0 .. level PROVE ~OverlapInLevel(v, m, a, z) /\ m \in Levels
  <2>1. ~OverlapInLevel(v, 0, a, z) /\ level \in S
    BY <1>1, <1>2, <1>5
  <2>2. m \in Levels
    BY <1>4, LevelsAre
  <2>3. m = 0 \/ m \in 1 .. level
    OBVIOUS
  <2>4. m \in 1 .. level => free(m)
    BY <2>1
  <2> QED  BY <2>1, <2>2, <2>3, <2>4
<1>6. ASSUME level # 0, NEW m \in 0 .. level PROVE \A f \in Range(v[m]) : Apart(f, a, z)
  <2>1. ~SomeFileOverlapsRange(v[m], m > 0, a, z) /\ m \in Levels
    BY <1>5, <1>6 DEF OverlapInLevel
  <2>2. EndedFiles(Range(v[m])) /\ v[m] = InOrder(Range(v[m]), BySmallestKey)
    BY <2>1, GoodEnded DEF GoodVersion
  <2>3. CASE m = 0
    <3>1. ~SomeFileOverlapsRange(v[m], FALSE, a, z)
      BY <2>1, <2>3 DEF SomeFileOverlapsRange
    <3> QED  BY <2>2, <3>1, NoOverlap
  <2>4. CASE m # 0
    <3>1. m > 0
      BY <2>1, <2>4 DEF Levels
    <3>2. ~SomeFileOverlapsRange(v[m], TRUE, a, z)
      BY <2>1, <3>1 DEF SomeFileOverlapsRange
    <3>3. DisjointLevel(Range(v[m]))
      BY <2>1, <2>4 DEF Disjoint
    <3> QED  BY <2>2, <3>2, <3>3, NoOverlap
  <2> QED  BY <2>3, <2>4
<1> QED  BY <1>4, <1>6

\* The inputs of a compaction while it runs: everything else of the next level
\* is beside them.
Prepared(v, c) ==
  /\ c.level \in 0 .. NumLevels - 2
  /\ EndedFiles(InputSet(c)) /\ InputSet(c) # {}
  /\ \A g \in Range(v[c.level + 1]) \ Range(c.in1) : BesideAll(g, InputSet(c))

\* They are on one side of any room between the files.
Sided(v, c) == OneSided(v, c.level, InputSet(c))

\* A compaction stays prepared among more files beside its inputs.
LEMMA PreparedInMore ==
  ASSUME NEW v, NEW c, Prepared(v, c), NEW w,
         Range(v[c.level]) \subseteq Range(w[c.level]),
         Range(v[c.level + 1]) \subseteq Range(w[c.level + 1]),
         \A g \in Range(w[c.level + 1]) \ Range(v[c.level + 1]) : BesideAll(g, InputSet(c))
  PROVE  Prepared(w, c) /\ (Sided(v, c) => Sided(w, c))
<1> DEFINE l == c.level
           A == Range(v[l]) \cup Range(v[l + 1])
           B == Range(w[l]) \cup Range(w[l + 1])
<1>1. A \subseteq B
  OBVIOUS
<1>2. \A x, y : NoneBetween(B, x, y) => NoneBetween(A, x, y)
  <2> HIDE DEF A, B
  <2> QED  BY <1>1 DEF NoneBetween
<1>3. Sided(v, c) => Sided(w, c)
  BY <1>2 DEF Sided, OneSided
<1>4. \A g \in Range(w[c.level + 1]) \ Range(c.in1) : BesideAll(g, InputSet(c))
  BY DEF Prepared
<1> QED  BY <1>3, <1>4 DEF Prepared

\* A memtable written beside the inputs of a compaction, or alone.
LEMMA FlushKeepsOrder ==
  ASSUME NEW tb, IsTables(tb), NEW n \in Nat, NEW v, GoodVersion(v, tb, n), Disjoint(v),
         NEW f, Ended(f),
         NEW level, level = PickLevelForMemTableOutput(v, UserKey(f.smallest), UserKey(f.largest)),
         NEW e, GoodEdit(e, tb, n), e.deleted = {}, e.added = {<<level, f>>}
  PROVE  /\ Disjoint(SaveTo(v, e))
         /\ \A c : Prepared(v, c) /\ Sided(v, c)
                    => Prepared(SaveTo(v, e), c) /\ Sided(SaveTo(v, e), c)
<1> DEFINE a == UserKey(f.smallest)
           z == UserKey(f.largest)
<1>1. a \in Keys /\ z \in Keys /\ a \in Nat /\ z \in Nat /\ a <= z
      /\ f.smallest \in IKey /\ f.largest \in IKey
  BY EndsOf, UserKeyType DEF Ended
<1>2. /\ level \in Levels
      /\ level # 0 => \A m \in 0 .. level : \A g \in Range(v[m]) : Apart(g, a, z)
  <2> HIDE DEF a, z
  <2> QED  BY <1>1, PickedLevelApart DEF a, z
<1> HIDE DEF a, z
<1>3. ASSUME NEW l
      PROVE  /\ AddedAt(e, l) = IF l = level THEN {f} ELSE {}
             /\ KeptAt(v, e, l) = Range(v[l]) \cup AddedAt(e, l)
  <2>0. e.added = {<<level, f>>}
    OBVIOUS
  <2>1. AddedAt(e, l) = IF l = level THEN {f} ELSE {}
    BY ONLY <2>0, OneAdded
  <2>2. KeptAt(v, e, l) = Range(v[l]) \cup AddedAt(e, l)
    BY NoneDeleted
  <2> QED  BY <2>1, <2>2
<1>4. \A l \in Levels : /\ Range(SaveTo(v, e)[l]) = KeptAt(v, e, l)
                        /\ \A g \in Range(v[l]) : Ended(g)
  BY SaveToIs, GoodEnds DEF GoodVersion, GoodFiles
<1>5. Disjoint(SaveTo(v, e))
  <2> SUFFICES ASSUME NEW l \in Levels \ {0}
               PROVE  /\ DisjointLevel(AddedAt(e, l))
                      /\ \A g \in Stay(v, e, l), h \in AddedAt(e, l) : Beside(g, h)
    BY SaveToDisjoint
  <2>1. DisjointLevel(AddedAt(e, l))
    BY <1>3 DEF DisjointLevel
  <2>2. ASSUME NEW g \in Stay(v, e, l), NEW h \in AddedAt(e, l) PROVE Beside(g, h)
    <3>1. h = f /\ l = level /\ g \in Range(v[l])
      BY <1>3, <2>2 DEF Stay
    <3>2. level \in 0 .. level
      BY <1>2, LevelsAre
    <3>3. Apart(g, a, z) /\ Ended(g)
      BY <1>2, <1>4, <3>1, <3>2
    <3>4. g.smallest \in IKey /\ g.largest \in IKey
      BY <3>3 DEF Ended
    <3> QED  BY <1>1, <3>1, <3>3, <3>4, KeyOrder DEF Beside, Apart, a, z
  <2> QED  BY <2>1, <2>2
<1>6. ASSUME NEW c, Prepared(v, c), Sided(v, c)
      PROVE  Prepared(SaveTo(v, e), c) /\ Sided(SaveTo(v, e), c)
  <2> DEFINE w == SaveTo(v, e)
             l == c.level
  <2>1. l \in Levels /\ l + 1 \in Levels /\ l + 1 # 0 /\ l \in Nat
    BY <1>6, LevelsAre DEF Prepared
  <2>2. /\ Range(w[l]) = Range(v[l]) \cup AddedAt(e, l)
        /\ Range(w[l + 1]) = Range(v[l + 1]) \cup AddedAt(e, l + 1)
    BY <1>3, <1>4, <2>1
  <2> HIDE DEF w
  <2>3. ASSUME NEW g \in Range(w[l + 1]) \ Range(v[l + 1]) PROVE BesideAll(g, InputSet(c))
    <3>1. g = f /\ level = l + 1
      BY <1>3, <2>2, <2>3
    <3>2. l \in 0 .. level /\ l + 1 \in 0 .. level
      BY <2>1, <3>1
    <3>3. NoneBetween(Range(v[l]) \cup Range(v[l + 1]), a, z)
      BY <1>1, <1>2, <2>1, <3>1, <3>2 DEF NoneBetween
    <3>4. LeftOf(InputSet(c), a) \/ RightOf(InputSet(c), z)
      BY <1>1, <1>6, <3>3 DEF Sided, OneSided
    <3>5. \A i \in InputSet(c) : i.smallest \in IKey /\ i.largest \in IKey
      BY <1>6 DEF Prepared, EndedFiles, Ended
    <3> QED  BY <1>1, <3>1, <3>4, <3>5, KeyOrder DEF LeftOf, RightOf, BesideAll, a, z
  <2>4. Prepared(w, c) /\ Sided(w, c)
    BY <1>6, <2>2, <2>3, PreparedInMore
  <2> QED  BY <2>4 DEF w
<1> QED  BY <1>5, <1>6

\* A memtable without entries.
LEMMA EmptyKeepsOrder ==
  ASSUME NEW tb, IsTables(tb), NEW n \in Nat, NEW v, GoodVersion(v, tb, n), Disjoint(v),
         NEW e, GoodEdit(e, tb, n), e.deleted = {}, e.added = {}
  PROVE  /\ Disjoint(SaveTo(v, e))
         /\ \A c : Prepared(v, c) =>
              Prepared(SaveTo(v, e), c) /\ (Sided(v, c) => Sided(SaveTo(v, e), c))
<1>1. \A l : AddedAt(e, l) = {} /\ KeptAt(v, e, l) = Range(v[l]) \cup AddedAt(e, l)
  BY NoneDeleted DEF AddedAt
<1>2. \A l \in Levels : Range(SaveTo(v, e)[l]) = Range(v[l])
  BY <1>1, SaveToIs DEF GoodVersion
<1>3. Disjoint(SaveTo(v, e))
  BY OpenKeepsOrder
<1>4. ASSUME NEW c, Prepared(v, c)
      PROVE  Prepared(SaveTo(v, e), c) /\ (Sided(v, c) => Sided(SaveTo(v, e), c))
  <2>1. c.level \in Levels /\ c.level + 1 \in Levels
    BY <1>4, LevelsAre DEF Prepared
  <2> QED  BY <1>2, <1>4, <2>1, PreparedInMore
<1> QED  BY <1>3, <1>4

\* A file that moves one level down, where nothing overlaps it.
LEMMA MoveKeepsOrder ==
  ASSUME NEW tb, IsTables(tb), NEW n \in Nat, NEW v, GoodVersion(v, tb, n), Disjoint(v),
         NEW c, Prepared(v, c), c.in1 = <<>>, NEW f \in InputSet(c),
         NEW e, GoodEdit(e, tb, n), e.added = {<<c.level + 1, f>>}
  PROVE  Disjoint(SaveTo(v, e))
<1> SUFFICES ASSUME NEW l \in Levels \ {0}
             PROVE  /\ DisjointLevel(AddedAt(e, l))
                    /\ \A g \in Stay(v, e, l), h \in AddedAt(e, l) : Beside(g, h)
  BY SaveToDisjoint
<1>1. AddedAt(e, l) = IF l = c.level + 1 THEN {f} ELSE {}
  BY OneAdded
<1>2. DisjointLevel(AddedAt(e, l))
  BY <1>1 DEF DisjointLevel
<1>3. ASSUME NEW g \in Stay(v, e, l), NEW h \in AddedAt(e, l) PROVE Beside(g, h)
  <2>1. h = f /\ l = c.level + 1 /\ g \in Range(v[l])
    BY <1>1, <1>3 DEF Stay, KeptAt
  <2>2. g \notin Range(c.in1)
    BY DEF Range
  <2>3. BesideAll(g, InputSet(c))
    BY <2>1, <2>2 DEF Prepared
  <2> QED  BY <2>1, <2>3 DEF BesideAll, Beside
<1> QED  BY <1>2, <1>3

\* The files of a compaction replace its inputs.
LEMMA CompactionKeepsOrder ==
  ASSUME NEW tb, IsTables(tb), NEW n \in Nat, NEW v, GoodVersion(v, tb, n), Disjoint(v),
         NEW c, Prepared(v, c), NEW done, IsSeq(done), Following(done),
         \A f \in Range(done) : Within(f.smallest, f.largest, InputSet(c)),
         NEW e, GoodEdit(e, tb, n),
         e.deleted = InputFiles(c), e.added = {<<c.level + 1, f>> : f \in Range(done)}
  PROVE  Disjoint(SaveTo(v, e))
<1> SUFFICES ASSUME NEW l \in Levels \ {0}
             PROVE  /\ DisjointLevel(AddedAt(e, l))
                    /\ \A g \in Stay(v, e, l), h \in AddedAt(e, l) : Beside(g, h)
  BY SaveToDisjoint
<1>1. AddedAt(e, l) \subseteq Range(done) /\ (AddedAt(e, l) # {} => l = c.level + 1 /\ AddedAt(e, l) = Range(done))
  <2>1. \A f \in Range(done) : <<c.level + 1, f>> \in e.added
    OBVIOUS
  <2>2. \A x \in e.added : x[1] = c.level + 1 /\ x[2] \in Range(done)
    OBVIOUS
  <2>3. l # c.level + 1 => AddedAt(e, l) = {}
    BY <2>2 DEF AddedAt
  <2>4. l = c.level + 1 => AddedAt(e, l) = Range(done)
    <3>1. ASSUME l = c.level + 1, NEW f \in Range(done) PROVE f \in AddedAt(e, l)
      <4> DEFINE p == <<c.level + 1, f>>
      <4>1. p \in e.added /\ p[1] = l /\ p[2] = f
        BY <2>1, <3>1
      <4> HIDE DEF p
      <4> QED  BY <4>1 DEF AddedAt
    <3>2. AddedAt(e, l) \subseteq Range(done)
      BY <2>2 DEF AddedAt
    <3> QED  BY <3>1, <3>2
  <2> QED  BY <2>3, <2>4
<1>2. DisjointLevel(Range(done))
  <2> SUFFICES ASSUME NEW f \in Range(done), NEW g \in Range(done), f # g PROVE Beside(f, g)
    BY DEF DisjointLevel, Beside
  <2>1. PICK i \in 1 .. Len(done) : done[i] = f
    BY DEF IsSeq, Range
  <2>2. PICK j \in 1 .. Len(done) : done[j] = g
    BY DEF IsSeq, Range
  <2>3. i # j /\ i \in Int /\ j \in Int
    BY <2>1, <2>2
  <2>4. i < j \/ j < i
    BY <2>3
  <2> QED  BY <2>1, <2>2, <2>4 DEF Following, Beside
<1>3. DisjointLevel(AddedAt(e, l))
  BY <1>1, <1>2 DEF DisjointLevel
<1>4. ASSUME NEW g \in Stay(v, e, l), NEW h \in AddedAt(e, l) PROVE Beside(g, h)
  <2>1. /\ h \in Range(done) /\ l = c.level + 1 /\ g \in Range(v[l]) /\ g \notin AddedAt(e, l)
        /\ g.number \notin DeletedAt(e, l) \ {x.number : x \in AddedAt(e, l)}
    BY <1>1 DEF Stay, KeptAt
  <2>2. GoodFile(g, tb, n) /\ GoodFile(h, tb, n) /\ GoodFiles(Range(v[l]) \cup AddedAt(e, l), tb, n)
    BY <1>4, <2>1 DEF GoodVersion, GoodEdit, GoodFiles
  <2>3. g \notin Range(c.in1)
    <3> SUFFICES ASSUME g \in Range(c.in1) PROVE FALSE
      OBVIOUS
    <3>1. g.number \in DeletedAt(e, l)
      <4> DEFINE p == <<c.level + 1, g>>
      <4>1. p \in e.deleted /\ p[1] = l /\ p[2] = g
        BY <2>1 DEF InputFiles
      <4> HIDE DEF p
      <4> QED  BY <4>1 DEF DeletedAt
    <3>2. PICK x \in AddedAt(e, l) : x.number = g.number
      BY <2>1, <3>1
    <3>3. x = g
      <4>1. GoodFile(x, tb, n)
        BY <2>2 DEF GoodFiles
      <4> QED  BY <2>2, <3>2, <4>1 DEF GoodFile
    <3> QED  BY <2>1, <3>3
  <2>4. BesideAll(g, InputSet(c)) /\ EndedFiles(InputSet(c))
    BY <2>1, <2>3 DEF Prepared
  <2>5. Ended(g) /\ h.smallest \in IKey /\ h.largest \in IKey
    BY <2>2, GoodEnds DEF Ended
  <2>6. Within(h.smallest, h.largest, InputSet(c))
    BY <2>1
  <2> QED  BY <2>4, <2>5, <2>6, BesideWithin DEF Beside
<1> QED  BY <1>3, <1>4

\* Inputs that are set up are prepared, and those the tree chooses on one side.
LEMMA SetUpPrepared ==
  ASSUME NEW tb, IsTables(tb), NEW n \in Nat, NEW v, GoodVersion(v, tb, n), Disjoint(v),
         NEW c, SetUp(v, c)
  PROVE  Prepared(v, c) /\ GoodFiles(InputSet(c), tb, n)
<1>1. /\ c.level \in 0 .. NumLevels - 2 /\ EndedFiles(InputSet(c)) /\ InputSet(c) # {}
      /\ Range(c.in0) \subseteq Range(v[c.level]) /\ Range(c.in1) \subseteq Range(v[c.level + 1])
      /\ \A g \in Range(v[c.level + 1]) \ Range(c.in1) : BesideAll(g, InputSet(c))
  BY SetUpBeside
<1>2. GoodFiles(InputSet(c), tb, n)
  BY <1>1, LevelsAre DEF GoodVersion, GoodFiles, InputSet
<1> QED  BY <1>1, <1>2 DEF Prepared

\* The inputs of a requested compaction are set up in the same way.
LEMMA RangeSetUp ==
  ASSUME NEW tb, IsTables(tb), NEW n \in Nat, NEW v, GoodVersion(v, tb, n),
         NEW level \in 0 .. NumLevels - 2, NEW begin, NEW end,
         NEW c, c = CompactRange(v, level, begin, end), c # None
  PROVE  SetUp(v, c)
<1>1. PICK inputs \in Seq(Range(v[level])) :
        inputs # <<>> /\ c = SetupOtherInputs(v, level, inputs)
  BY RangeFrom
<1>2. Chosen(v, level, inputs, c)
  BY <1>1, SetupChooses
<1> QED  BY <1>2 DEF SetUp

(******************************************************************************)
(* A compaction under way                                                     *)
(******************************************************************************)
\* The entries of the tables a compaction reads.
InputEntries(tb, c) == UNION {tb[i[2].number] : i \in InputFiles(c)}

\* The entries of the inputs are contents, and lie within the inputs.
LEMMA InputEntriesAre ==
  ASSUME NEW tb, IsTables(tb), NEW n \in Nat, NEW c, GoodFiles(InputSet(c), tb, n)
  PROVE  /\ IsContents(InputEntries(tb, c))
         /\ \A x \in InputEntries(tb, c) : Within(x, x, InputSet(c))
<1> DEFINE I == InputFiles(c)
           part == [i \in I |-> tb[i[2].number]]
           entries == UNION {part[i] : i \in I}
<1>1. InputEntries(tb, c) = entries
  BY DEF InputEntries
<1>2. \A i \in I : i[2] \in InputSet(c)
  BY DEF InputFiles, InputSet
<1>3. IsFiniteSet(I)
  <2> DEFINE f0 == [f \in Range(c.in0) |-> <<c.level, f>>]
             f1 == [f \in Range(c.in1) |-> <<c.level + 1, f>>]
  <2>1. IsFiniteSet(Range(c.in0)) /\ IsFiniteSet(Range(c.in1))
    <3>1. IsFiniteSet(InputSet(c))
      BY GoodFileSet DEF FileSet
    <3> QED  BY <3>1, FS_Subset DEF InputSet
  <2>2. I = {f0[f] : f \in Range(c.in0)} \cup {f1[f] : f \in Range(c.in1)}
    BY DEF InputFiles
  <2> HIDE DEF f0, f1, I
  <2>3. IsFiniteSet({f0[f] : f \in Range(c.in0)}) /\ IsFiniteSet({f1[f] : f \in Range(c.in1)})
    BY <2>1, ImageIsFinite
  <2> QED  BY <2>2, <2>3, FS_Union
<1>4. ASSUME NEW i \in I
      PROVE  IsContents(part[i]) /\ \A x \in part[i] : Within(x, x, InputSet(c))
  <2> DEFINE f == i[2]
  <2>1. f \in InputSet(c) /\ GoodFile(f, tb, n) /\ part[i] = tb[f.number]
    BY <1>2 DEF GoodFiles
  <2> HIDE DEF f
  <2>2. f.number \in DOMAIN tb /\ IsContents(tb[f.number])
    BY <2>1 DEF GoodFile, IsTables
  <2> QED  BY <2>1, <2>2, EntriesWithin
<1> HIDE DEF I, part
<1>5. IsFiniteSet({part[i] : i \in I})
  BY <1>3, ImageIsFinite
<1>6. IsFiniteSet(entries)
  BY <1>4, <1>5, FS_UNION DEF IsContents
<1>7. entries \subseteq IKey
  BY <1>4 DEF IsContents
<1>8. \A x \in entries : Within(x, x, InputSet(c))
  BY <1>4
<1> HIDE DEF entries
<1> QED  BY <1>1, <1>6, <1>7, <1>8 DEF IsContents

\* The files made so far follow each other, those still to be made follow them,
\* and all of them are within the inputs.
OutputsInOrder(m) ==
  /\ Following(m.done) /\ TablesFollow(m.todo)
  /\ \A f \in Range(m.done) :
       /\ Within(f.smallest, f.largest, InputSet(m.c))
       /\ \A x \in EntriesIn(m.todo) : Before(f.largest, x)
  /\ \A x \in EntriesIn(m.todo) : x \in IKey /\ Within(x, x, InputSet(m.c))

\* Before the first output.
LEMMA FirstOutputs ==
  ASSUME NEW tb, IsTables(tb), NEW n \in Nat, NEW c, GoodFiles(InputSet(c), tb, n),
         NEW kept, kept \subseteq InputEntries(tb, c),
         NEW m, m.c = c, m.done = <<>>, m.todo = Outputs(c, InputEntries(tb, c), kept)
  PROVE  OutputsInOrder(m)
<1> DEFINE entries == InputEntries(tb, c)
           q == Outputs(c, entries, kept)
<1>1. IsContents(entries) /\ \A x \in entries : x \in IKey /\ Within(x, x, InputSet(c))
  BY InputEntriesAre DEF IsContents
<1> HIDE DEF entries
<1>2. TablesFollow(q) /\ q \in Seq((SUBSET kept) \ {{}})
  <2>1. IsFiniteSet(entries) /\ kept \subseteq entries
    BY <1>1 DEF IsContents, entries
  <2> QED  BY <1>1, <2>1, OutputsFollow, OutputsAre
<1> HIDE DEF q
<1>3. EntriesIn(q) \subseteq entries
  <2>1. ASSUME NEW k \in 1 .. Len(q) PROVE q[k] \subseteq entries
    <3> DEFINE X == (SUBSET kept) \ {{}}
    <3>1. q \in Seq(X)
      BY <1>2
    <3> HIDE DEF X
    <3>2. q[k] \in X
      BY <3>1
    <3> QED  BY <3>2 DEF X, entries
  <2> QED  BY <2>1 DEF EntriesIn
<1>4. Following(<<>>) /\ Range(<<>>) = {}
  BY DEF Following, Range
<1>5. m.todo = q
  BY DEF q, entries
<1> QED  BY <1>1, <1>2, <1>3, <1>4, <1>5 DEF OutputsInOrder

\* One more output is written.
LEMMA NextOutput ==
  ASSUME NEW m, OutputsInOrder(m), IsSeq(m.done), NEW X, m.todo \in Seq(X), m.todo # <<>>,
         IsContents(Head(m.todo)), Head(m.todo) # {},
         NEW n, NEW w, w.c = m.c, w.todo = Tail(m.todo),
         w.done = Append(m.done, FileOf(n, Head(m.todo)))
  PROVE  OutputsInOrder(w)
<1> DEFINE S == Head(m.todo)
           f == FileOf(n, S)
           q == m.todo
           r == Tail(q)
           k == Len(q)
           d == m.done
<1>1. /\ f.smallest \in S /\ f.largest \in S
  BY FileEnds
<1>2. /\ k \in Nat \ {0} /\ S = q[1] /\ Len(r) = k - 1
      /\ \A i \in 1 .. k - 1 : r[i] = q[i + 1]
  <2> HIDE DEF S
  <2> QED  BY DEF S
<1> HIDE DEF S, f, q, r, k
<1>3. S \subseteq EntriesIn(q) /\ EntriesIn(r) \subseteq EntriesIn(q)
  <2>1. 1 \in 1 .. Len(q) /\ \A i \in 1 .. Len(r) : i + 1 \in 1 .. Len(q) /\ r[i] = q[i + 1]
    BY <1>2 DEF k
  <2> QED  BY <1>2, <2>1 DEF EntriesIn
<1>4. TablesFollow(r)
  <2> SUFFICES ASSUME NEW i \in 1 .. Len(r), NEW j \in 1 .. Len(r), i < j, NEW x \in r[i], NEW y \in r[j]
               PROVE  Before(x, y)
    BY DEF TablesFollow
  <2>1. i + 1 \in 1 .. Len(q) /\ j + 1 \in 1 .. Len(q) /\ i + 1 < j + 1 /\ x \in q[i + 1] /\ y \in q[j + 1]
    BY <1>2 DEF k
  <2>2. TablesFollow(q)
    BY DEF OutputsInOrder, q
  <2> QED  BY <2>1, <2>2 DEF TablesFollow
<1>5. \A x \in EntriesIn(r) : Before(f.largest, x)
  <2> SUFFICES ASSUME NEW j \in 1 .. Len(r), NEW x \in r[j] PROVE Before(f.largest, x)
    BY DEF EntriesIn
  <2>1. j + 1 \in 1 .. Len(q) /\ 1 < j + 1 /\ 1 \in 1 .. Len(q) /\ x \in q[j + 1] /\ f.largest \in q[1]
    BY <1>1, <1>2 DEF k
  <2>2. TablesFollow(q)
    BY DEF OutputsInOrder, q
  <2> QED  BY <2>1, <2>2 DEF TablesFollow
<1>6. Within(f.smallest, f.largest, InputSet(m.c))
  <2>1. Within(f.smallest, f.smallest, InputSet(m.c)) /\ Within(f.largest, f.largest, InputSet(m.c))
    BY <1>1, <1>3 DEF OutputsInOrder, q
  <2> QED  BY <2>1 DEF Within
<1>7. \A g \in Range(d) : Before(g.largest, f.smallest)
  BY <1>1, <1>3 DEF OutputsInOrder, q
<1>8. /\ d \in Seq(Range(d)) /\ Len(d) \in Nat
      /\ Len(w.done) = Len(d) + 1 /\ w.done[Len(d) + 1] = f
      /\ \A i \in 1 .. Len(d) : w.done[i] = d[i] /\ d[i] \in Range(d)
      /\ Range(w.done) = Range(d) \cup {f}
  <2>1. d \in Seq(Range(d)) /\ w.done = Append(d, f)
    BY DEF IsSeq, S, f
  <2> HIDE DEF d
  <2>2. Range(w.done) = Range(d) \cup {f}
    BY <2>1, AppendRange
  <2>3. \A i \in 1 .. Len(d) : d[i] \in Range(d)
    BY <2>1
  <2>4. /\ Len(d) \in Nat /\ Len(w.done) = Len(d) + 1 /\ w.done[Len(d) + 1] = f
        /\ \A i \in 1 .. Len(d) : w.done[i] = d[i]
    <3> DEFINE Y == Range(d) \cup {f}
    <3>1. d \in Seq(Y) /\ f \in Y
      BY <2>1
    <3> HIDE DEF Y
    <3> QED  BY <2>1, <3>1, AppendProperties
  <2> QED  BY <2>1, <2>2, <2>3, <2>4
<1>9. Following(w.done)
  <2> SUFFICES ASSUME NEW i \in 1 .. Len(w.done), NEW j \in 1 .. Len(w.done), i < j
               PROVE  Before(w.done[i].largest, w.done[j].smallest)
    BY DEF Following
  <2>1. i \in 1 .. Len(d)
    BY <1>8
  <2>2. CASE j = Len(d) + 1
    BY <1>7, <1>8, <2>1, <2>2
  <2>3. CASE j \in 1 .. Len(d)
    <3>1. Before(d[i].largest, d[j].smallest)
      BY <2>1, <2>3 DEF OutputsInOrder, Following
    <3> QED  BY <1>8, <2>1, <2>3, <3>1
  <2> QED  BY <1>8, <2>2, <2>3
<1>10. w.todo = r /\ m.todo = q
  BY DEF q, r
<1> HIDE DEF d
<1>11. \A g \in Range(w.done) : /\ Within(g.smallest, g.largest, InputSet(w.c))
                                /\ \A x \in EntriesIn(w.todo) : Before(g.largest, x)
  BY <1>3, <1>5, <1>6, <1>8, <1>10 DEF OutputsInOrder, d
<1>12. \A x \in EntriesIn(w.todo) : x \in IKey /\ Within(x, x, InputSet(w.c))
  BY <1>3, <1>10 DEF OutputsInOrder
<1> QED  BY <1>4, <1>9, <1>10, <1>11, <1>12 DEF OutputsInOrder

\* A sequence over a smaller set.
LEMMA SeqOfMore ==
  ASSUME NEW S, NEW T, S \subseteq T, NEW s \in Seq(S)
  PROVE  s \in Seq(T)
OBVIOUS

(******************************************************************************)
(* What is nearer to the memtable is newer                                    *)
(******************************************************************************)
LevelEntries(tb, v, l) == UNION {tb[f.number] : f \in Range(v[l])}
VersionEntries(tb, v) == UNION {LevelEntries(tb, v, l) : l \in Levels}
Older(S, T) == \A x \in S, y \in T : Sequence(x) < Sequence(y)
OneEach(S) == \A x, y \in S : Sequence(x) = Sequence(y) => x = y
AtMost(S, s) == \A x \in S : Sequence(x) <= s

NewerLevels(tb, v) ==
  \A i, j \in Levels : i < j =>
    \A x \in LevelEntries(tb, v, i), y \in LevelEntries(tb, v, j) :
      UserKey(x) = UserKey(y) => Sequence(x) > Sequence(y)

\* A version whose entries are numbered up to s, each number once.
Layered(tb, v, s) ==
  /\ NewerLevels(tb, v)
  /\ OneEach(VersionEntries(tb, v)) /\ AtMost(VersionEntries(tb, v), s)

\* What a compaction leaves in its level is newer than what it takes.
LeavesNewer(tb, v, c) ==
  \A f \in Range(c.in0), g \in Range(v[c.level]) \ Range(c.in0) :
    \A x \in tb[f.number], y \in tb[g.number] :
      UserKey(x) = UserKey(y) => Sequence(y) > Sequence(x)

SameFiles(tb, more, v) == \A l \in Levels : \A f \in Range(v[l]) : more[f.number] = tb[f.number]

\* Only the tables of its files matter to a version.
LEMMA SameEntries ==
  ASSUME NEW tb, NEW more, NEW v, SameFiles(tb, more, v)
  PROVE  /\ VersionEntries(more, v) = VersionEntries(tb, v)
         /\ \A s : Layered(tb, v, s) => Layered(more, v, s)
         /\ \A c : Inputs(v, c) => InputEntries(more, c) = InputEntries(tb, c)
         /\ \A c : Inputs(v, c) /\ LeavesNewer(tb, v, c) => LeavesNewer(more, v, c)
<1>1. \A l \in Levels : LevelEntries(more, v, l) = LevelEntries(tb, v, l)
  <2> SUFFICES ASSUME NEW l \in Levels
               PROVE  LevelEntries(more, v, l) = LevelEntries(tb, v, l)
    OBVIOUS
  <2>1. \A f \in Range(v[l]) : more[f.number] = tb[f.number]
    BY DEF SameFiles
  <2> QED  BY <2>1 DEF LevelEntries
<1>2. VersionEntries(more, v) = VersionEntries(tb, v)
  BY <1>1 DEF VersionEntries
<1>3. NewerLevels(tb, v) => NewerLevels(more, v)
  BY <1>1 DEF NewerLevels
<1>4. ASSUME NEW c, Inputs(v, c)
      PROVE  /\ \A f \in Range(c.in0) : more[f.number] = tb[f.number]
             /\ \A f \in Range(c.in1) : more[f.number] = tb[f.number]
             /\ \A f \in Range(v[c.level]) : more[f.number] = tb[f.number]
  <2>1. /\ c.level \in Levels /\ c.level + 1 \in Levels
        /\ c.in0 \in Seq(Range(v[c.level])) /\ c.in1 \in Seq(Range(v[c.level + 1]))
    BY <1>4, LevelsAre DEF Inputs
  <2>2. Range(c.in0) \subseteq Range(v[c.level]) /\ Range(c.in1) \subseteq Range(v[c.level + 1])
    BY <2>1, SeqOver
  <2> QED  BY <2>1, <2>2 DEF SameFiles
<1>5. ASSUME NEW c, Inputs(v, c) PROVE InputEntries(more, c) = InputEntries(tb, c)
  <2>1. \A i \in InputFiles(c) : more[i[2].number] = tb[i[2].number]
    BY <1>4, <1>5 DEF InputFiles
  <2> QED  BY <2>1 DEF InputEntries
<1>6. ASSUME NEW c, Inputs(v, c), LeavesNewer(tb, v, c) PROVE LeavesNewer(more, v, c)
  BY <1>4, <1>6 DEF LeavesNewer
<1> QED  BY <1>2, <1>3, <1>5, <1>6 DEF Layered

\* The entries of a version are keys.
LEMMA EntriesOfVersion ==
  ASSUME NEW tb, IsTables(tb), NEW n, NEW v, GoodVersion(v, tb, n)
  PROVE  /\ VersionEntries(tb, v) \subseteq IKey
         /\ \A x \in VersionEntries(tb, v) : Sequence(x) \in Nat /\ UserKey(x) \in Nat
<1>1. ASSUME NEW l \in Levels, NEW f \in Range(v[l]) PROVE tb[f.number] \subseteq IKey
  <2>1. GoodFile(f, tb, n)
    BY DEF GoodVersion, GoodFiles
  <2> QED  BY <2>1 DEF GoodFile, IsTables, IsContents
<1>2. VersionEntries(tb, v) \subseteq IKey
  BY <1>1 DEF VersionEntries, LevelEntries
<1> QED  BY <1>2, IKeyParts

\* New files of one level, whose entries are newer than all and of other keys
\* than all above.
LEMMA AddedNewer ==
  ASSUME NEW tb, IsTables(tb), NEW n \in Nat, NEW v, GoodVersion(v, tb, n),
         NEW e, GoodEdit(e, tb, n), e.deleted = {},
         NEW level \in Levels, \A a \in e.added : a[1] = level,
         NEW S, S \subseteq IKey, \A l \in Levels : \A f \in AddedAt(e, l) : tb[f.number] \subseteq S,
         \A m \in Levels : m < level =>
           \A y \in LevelEntries(tb, v, m), x \in S : UserKey(x) # UserKey(y),
         Older(VersionEntries(tb, v), S), OneEach(S)
  PROVE  /\ VersionEntries(tb, SaveTo(v, e)) \subseteq VersionEntries(tb, v) \cup S
         /\ \A s : Layered(tb, v, s) /\ AtMost(S, s) => Layered(tb, SaveTo(v, e), s)
         /\ \A c : Inputs(v, c) => Inputs(SaveTo(v, e), c)
         /\ \A c : Inputs(v, c) /\ LeavesNewer(tb, v, c) => LeavesNewer(tb, SaveTo(v, e), c)
<1> DEFINE w == SaveTo(v, e)
<1>1. ASSUME NEW l \in Levels
      PROVE  Range(w[l]) = Range(v[l]) \cup AddedAt(e, l) /\ (l # level => AddedAt(e, l) = {})
  <2>1. Range(w[l]) = KeptAt(v, e, l)
    BY SaveToIs DEF GoodVersion
  <2>2. KeptAt(v, e, l) = Range(v[l]) \cup AddedAt(e, l)
    BY NoneDeleted
  <2>3. l # level => AddedAt(e, l) = {}
    BY DEF AddedAt
  <2> HIDE DEF w
  <2> QED  BY <2>1, <2>2, <2>3
<1> HIDE DEF w
<1>2. ASSUME NEW l \in Levels, NEW x \in LevelEntries(tb, w, l)
      PROVE  x \in LevelEntries(tb, v, l) \/ (l = level /\ x \in S)
  <2>1. PICK f \in Range(w[l]) : x \in tb[f.number]
    BY DEF LevelEntries
  <2>2. CASE f \in Range(v[l])
    BY <2>1, <2>2 DEF LevelEntries
  <2>3. CASE f \notin Range(v[l])
    <3>1. f \in AddedAt(e, l)
      BY <1>1, <2>3
    <3> QED  BY <1>1, <2>1, <3>1
  <2> QED  BY <2>2, <2>3
<1>3. \A l \in Levels : LevelEntries(tb, v, l) \subseteq VersionEntries(tb, v)
  BY DEF VersionEntries
<1>4. VersionEntries(tb, w) \subseteq VersionEntries(tb, v) \cup S
  BY <1>2, <1>3 DEF VersionEntries
<1>5. /\ \A x \in VersionEntries(tb, v) \cup S : Sequence(x) \in Nat
      /\ Levels \subseteq Nat
  BY EntriesOfVersion, IKeyParts DEF Levels
<1>6. ASSUME NEW s, Layered(tb, v, s), AtMost(S, s) PROVE Layered(tb, w, s)
  <2>1. AtMost(VersionEntries(tb, w), s)
    BY <1>4, <1>6 DEF Layered, AtMost
  <2>2. OneEach(VersionEntries(tb, v) \cup S)
    <3> SUFFICES ASSUME NEW x \in VersionEntries(tb, v) \cup S,
                        NEW y \in VersionEntries(tb, v) \cup S, Sequence(x) = Sequence(y)
                 PROVE  x = y
      BY DEF OneEach
    <3>1. Sequence(x) \in Nat /\ Sequence(y) \in Nat
      BY <1>5
    <3>2. CASE x \in VersionEntries(tb, v) /\ y \in S
      BY <3>1, <3>2 DEF Older
    <3>3. CASE x \in S /\ y \in VersionEntries(tb, v)
      BY <3>1, <3>3 DEF Older
    <3>4. CASE x \in S /\ y \in S
      BY <3>4 DEF OneEach
    <3>5. CASE x \in VersionEntries(tb, v) /\ y \in VersionEntries(tb, v)
      BY <1>6, <3>5 DEF OneEach, Layered
    <3> QED  BY <3>2, <3>3, <3>4, <3>5
  <2>3. OneEach(VersionEntries(tb, w))
    BY <1>4, <2>2 DEF OneEach
  <2>4. NewerLevels(tb, w)
    <3> SUFFICES ASSUME NEW i \in Levels, NEW j \in Levels, i < j,
                        NEW x \in LevelEntries(tb, w, i), NEW y \in LevelEntries(tb, w, j),
                        UserKey(x) = UserKey(y)
                 PROVE  Sequence(x) > Sequence(y)
      BY DEF NewerLevels
    <3>1. i \in Nat /\ j \in Nat /\ level \in Nat /\ i # j
      BY <1>5
    <3>2. CASE x \in LevelEntries(tb, v, i) /\ y \in LevelEntries(tb, v, j)
      BY <1>6, <3>2 DEF Layered, NewerLevels
    <3>3. CASE x \in S /\ i = level /\ y \in LevelEntries(tb, v, j)
      <4>1. y \in VersionEntries(tb, v)
        BY <1>3, <3>3
      <4>2. Sequence(y) < Sequence(x) /\ Sequence(x) \in Nat /\ Sequence(y) \in Nat
        BY <1>5, <3>3, <4>1 DEF Older
      <4> QED  BY <4>2
    <3>4. CASE y \in S /\ j = level /\ x \in LevelEntries(tb, v, i)
      BY <3>4
    <3> QED  BY <1>2, <3>1, <3>2, <3>3, <3>4
  <2> QED  BY <2>1, <2>3, <2>4 DEF Layered
<1>7. ASSUME NEW c, Inputs(v, c) PROVE Inputs(w, c)
  <2>1. c.level \in Levels /\ c.level + 1 \in Levels
    BY <1>7, LevelsAre DEF Inputs
  <2>2. /\ Range(v[c.level]) \subseteq Range(w[c.level])
        /\ Range(v[c.level + 1]) \subseteq Range(w[c.level + 1])
    BY <1>1, <2>1
  <2> QED  BY <1>7, <2>2, SeqOfMore DEF Inputs
<1>8. ASSUME NEW c, Inputs(v, c), LeavesNewer(tb, v, c) PROVE LeavesNewer(tb, w, c)
  <2>1. c.level \in Levels /\ c.in0 \in Seq(Range(v[c.level]))
    BY <1>8, LevelsAre DEF Inputs
  <2>2. Range(c.in0) \subseteq Range(v[c.level])
    BY <2>1, SeqOver
  <2> SUFFICES ASSUME NEW f \in Range(c.in0), NEW g \in Range(w[c.level]) \ Range(c.in0),
                      NEW x \in tb[f.number], NEW y \in tb[g.number], UserKey(x) = UserKey(y)
               PROVE  Sequence(y) > Sequence(x)
    BY DEF LeavesNewer
  <2>3. CASE g \in Range(v[c.level])
    BY <1>8, <2>3 DEF LeavesNewer
  <2>4. CASE g \notin Range(v[c.level])
    <3>1. y \in S
      BY <1>1, <2>1, <2>4
    <3>2. x \in VersionEntries(tb, v)
      BY <2>1, <2>2 DEF VersionEntries, LevelEntries
    <3>3. Sequence(x) < Sequence(y) /\ Sequence(x) \in Nat /\ Sequence(y) \in Nat
      BY <1>5, <3>1, <3>2 DEF Older
    <3> QED  BY <3>3
  <2> QED  BY <2>3, <2>4
<1> QED  BY <1>4, <1>6, <1>7, <1>8 DEF w

\* A memtable goes to a level above which its keys are not.
LEMMA FlushedNewer ==
  ASSUME NEW tb, IsTables(tb), NEW n \in Nat, NEW v, GoodVersion(v, tb, n), Disjoint(v),
         NEW f, GoodFile(f, tb, n),
         NEW level, level = PickLevelForMemTableOutput(v, UserKey(f.smallest), UserKey(f.largest)),
         NEW e, GoodEdit(e, tb, n), e.deleted = {}, e.added = {<<level, f>>},
         Older(VersionEntries(tb, v), tb[f.number]), OneEach(tb[f.number])
  PROVE  /\ VersionEntries(tb, SaveTo(v, e)) \subseteq VersionEntries(tb, v) \cup tb[f.number]
         /\ \A s : Layered(tb, v, s) /\ AtMost(tb[f.number], s) => Layered(tb, SaveTo(v, e), s)
         /\ \A c : Inputs(v, c) => Inputs(SaveTo(v, e), c)
         /\ \A c : Inputs(v, c) /\ LeavesNewer(tb, v, c) => LeavesNewer(tb, SaveTo(v, e), c)
<1> DEFINE S == tb[f.number]
           a == UserKey(f.smallest)
           z == UserKey(f.largest)
<1>1. /\ Ended(f) /\ S \subseteq IKey
      /\ \A x \in S : ~Before(x, f.smallest) /\ ~Before(f.largest, x)
  BY GoodEnds
<1>2. a \in Keys /\ z \in Keys
  BY <1>1, UserKeyType DEF Ended
<1>3. /\ level \in Levels
      /\ level # 0 => \A m \in 0 .. level : \A g \in Range(v[m]) : Apart(g, a, z)
  BY <1>2, PickedLevelApart
<1>4. ASSUME NEW m \in Levels, m < level, NEW y \in LevelEntries(tb, v, m), NEW x \in S
      PROVE  UserKey(x) # UserKey(y)
  <2>1. PICK g \in Range(v[m]) : y \in tb[g.number]
    BY DEF LevelEntries
  <2>2. Apart(g, a, z)
    <3>1. level # 0 /\ m \in 0 .. level
      BY <1>3, <1>4 DEF Levels
    <3> QED  BY <1>3, <3>1
  <2>3. GoodFile(g, tb, n)
    BY DEF GoodVersion, GoodFiles
  <2>4. /\ Ended(g) /\ y \in IKey
        /\ ~Before(y, g.smallest) /\ ~Before(g.largest, y)
    BY <2>1, <2>3, GoodEnds
  <2>5. UserKey(g.smallest) <= UserKey(y) /\ UserKey(y) <= UserKey(g.largest)
    BY <2>4, KeyOrder DEF Ended
  <2>6. a <= UserKey(x) /\ UserKey(x) <= z
    BY <1>1, KeyOrder DEF Ended
  <2>7. /\ UserKey(x) \in Nat /\ UserKey(y) \in Nat /\ a \in Nat /\ z \in Nat
        /\ UserKey(g.smallest) \in Nat /\ UserKey(g.largest) \in Nat
    BY <1>1, <2>4, IKeyParts DEF Ended
  <2> HIDE DEF a, z
  <2> QED  BY <2>2, <2>5, <2>6, <2>7 DEF Apart
<1>5. \A b \in e.added : b[1] = level
  OBVIOUS
<1>6. \A l \in Levels : \A g \in AddedAt(e, l) : tb[g.number] \subseteq S
  <2> SUFFICES ASSUME NEW l \in Levels, NEW g \in AddedAt(e, l) PROVE tb[g.number] \subseteq S
    OBVIOUS
  <2>1. AddedAt(e, l) = IF l = level THEN {f} ELSE {}
    BY OneAdded
  <2> QED  BY <2>1
<1> HIDE DEF S
<1>7. /\ VersionEntries(tb, SaveTo(v, e)) \subseteq VersionEntries(tb, v) \cup S
      /\ \A s : Layered(tb, v, s) /\ AtMost(S, s) => Layered(tb, SaveTo(v, e), s)
      /\ \A c : Inputs(v, c) => Inputs(SaveTo(v, e), c)
      /\ \A c : Inputs(v, c) /\ LeavesNewer(tb, v, c) => LeavesNewer(tb, SaveTo(v, e), c)
  <2>1. Older(VersionEntries(tb, v), S) /\ OneEach(S)
    BY DEF S
  <2> QED  BY <1>1, <1>3, <1>4, <1>5, <1>6, <2>1, AddedNewer
<1> QED  BY <1>7 DEF S

\* A compaction writes nothing that it has not read, one level below.
LEMMA CompactedNewer ==
  ASSUME NEW tb, IsTables(tb), NEW n \in Nat, NEW v, GoodVersion(v, tb, n),
         NEW c, Inputs(v, c), LeavesNewer(tb, v, c),
         NEW F, \A f \in F : tb[f.number] \subseteq InputEntries(tb, c),
         NEW e, GoodEdit(e, tb, n),
         e.deleted = InputFiles(c), e.added = {<<c.level + 1, f>> : f \in F},
         NEW s, Layered(tb, v, s)
  PROVE  /\ VersionEntries(tb, SaveTo(v, e)) \subseteq VersionEntries(tb, v)
         /\ Layered(tb, SaveTo(v, e), s)
<1> DEFINE w == SaveTo(v, e)
           k == c.level
<1>1. /\ k \in Nat /\ k \in Levels /\ k + 1 \in Levels /\ Levels \subseteq Nat
      /\ Range(c.in0) \subseteq Range(v[k]) /\ Range(c.in1) \subseteq Range(v[k + 1])
  BY LevelsAre, SeqOver DEF Inputs, Levels
<1>2. \A l \in Levels : Range(w[l]) = KeptAt(v, e, l)
  BY SaveToIs DEF GoodVersion
<1>3. \A l \in Levels : AddedAt(e, l) = IF l = k + 1 THEN F ELSE {}
  <2> SUFFICES ASSUME NEW l \in Levels PROVE AddedAt(e, l) = IF l = k + 1 THEN F ELSE {}
    OBVIOUS
  <2>1. \A a \in e.added : a[1] = k + 1 /\ a[2] \in F
    OBVIOUS
  <2>2. ASSUME NEW f \in F, l = k + 1 PROVE f \in AddedAt(e, l)
    <3> DEFINE a == <<k + 1, f>>
    <3>1. a \in e.added /\ a[1] = l /\ a[2] = f
      BY <2>2
    <3> HIDE DEF a
    <3> QED  BY <3>1 DEF AddedAt
  <2>3. ASSUME NEW f \in AddedAt(e, l) PROVE l = k + 1 /\ f \in F
    BY <2>1, <2>3 DEF AddedAt
  <2> QED  BY <2>2, <2>3
<1>4. \A g \in Range(w[k]) : g \in Range(v[k]) \ Range(c.in0)
  <2> SUFFICES ASSUME NEW g \in Range(w[k]) PROVE g \in Range(v[k]) \ Range(c.in0)
    OBVIOUS
  <2>1. AddedAt(e, k) = {}
    BY <1>1, <1>3
  <2>2. g \in Range(v[k]) /\ g.number \notin DeletedAt(e, k)
    BY <1>1, <1>2, <2>1 DEF KeptAt
  <2>3. \A f \in Range(c.in0) : <<k, f>> \in e.deleted
    BY DEF InputFiles
  <2>4. ASSUME NEW f \in Range(c.in0) PROVE f.number \in DeletedAt(e, k)
    <3> DEFINE d == <<k, f>>
    <3>1. d \in e.deleted /\ d[1] = k /\ d[2] = f
      BY <2>3
    <3> HIDE DEF d
    <3> QED  BY <3>1 DEF DeletedAt
  <2> QED  BY <2>2, <2>4
<1>5. \A l \in Levels : l # k + 1 => Range(w[l]) \subseteq Range(v[l])
  BY <1>2, <1>3 DEF KeptAt
<1>6. Range(w[k + 1]) \subseteq Range(v[k + 1]) \cup F
  BY <1>1, <1>2, <1>3 DEF KeptAt
<1> HIDE DEF w
<1>7. \A x \in InputEntries(tb, c) :
        \/ \E f \in Range(c.in0) : x \in tb[f.number]
        \/ \E f \in Range(c.in1) : x \in tb[f.number]
  BY DEF InputEntries, InputFiles
<1>8. ASSUME NEW l \in Levels, NEW x \in LevelEntries(tb, w, l)
      PROVE  \/ x \in LevelEntries(tb, v, l) /\ (l = k => \E g \in Range(v[k]) \ Range(c.in0) : x \in tb[g.number])
             \/ l = k + 1 /\ x \in LevelEntries(tb, v, k) /\ \E f \in Range(c.in0) : x \in tb[f.number]
  <2>1. PICK g \in Range(w[l]) : x \in tb[g.number]
    BY DEF LevelEntries
  <2>2. CASE l = k
    <3>1. g \in Range(v[k]) \ Range(c.in0)
      BY <1>4, <2>1, <2>2
    <3> QED  BY <2>1, <2>2, <3>1 DEF LevelEntries
  <2>3. CASE l = k + 1 /\ g \in F
    <3>1. x \in InputEntries(tb, c)
      BY <2>1, <2>3
    <3>2. CASE \E f \in Range(c.in0) : x \in tb[f.number]
      BY <1>1, <2>3, <3>2 DEF LevelEntries
    <3>3. CASE \E f \in Range(c.in1) : x \in tb[f.number]
      <4>1. x \in LevelEntries(tb, v, l) /\ l # k
        BY <1>1, <2>3, <3>3 DEF LevelEntries
      <4> QED  BY <4>1
    <3> QED  BY <1>7, <3>1, <3>2, <3>3
  <2>4. CASE l # k /\ g \in Range(v[l])
    BY <2>1, <2>4 DEF LevelEntries
  <2> QED  BY <1>5, <1>6, <2>2, <2>3, <2>4
<1>9. VersionEntries(tb, w) \subseteq VersionEntries(tb, v)
  BY <1>1, <1>8 DEF VersionEntries
<1>10. ASSUME NEW i \in Levels, NEW j \in Levels, i < j,
              NEW x \in LevelEntries(tb, w, i), NEW y \in LevelEntries(tb, w, j),
              UserKey(x) = UserKey(y)
       PROVE  Sequence(x) > Sequence(y)
  <2>0. i \in Nat /\ j \in Nat
    BY <1>1
  <2>1. \A l, m \in Levels : \A p \in LevelEntries(tb, v, l), q \in LevelEntries(tb, v, m) :
          l < m /\ UserKey(p) = UserKey(q) => Sequence(p) > Sequence(q)
    BY DEF Layered, NewerLevels
  <2>2. CASE x \in LevelEntries(tb, v, i) /\ y \in LevelEntries(tb, v, j)
    BY <1>10, <2>1, <2>2
  <2>3. CASE /\ i = k + 1 /\ x \in LevelEntries(tb, v, k)
             /\ y \in LevelEntries(tb, v, j)
    <3>1. k < j
      BY <1>1, <1>10, <2>0, <2>3
    <3> QED  BY <1>1, <1>10, <2>1, <2>3, <3>1
  <2>4. CASE j = k + 1 /\ y \in LevelEntries(tb, v, k) /\ i # k /\ x \in LevelEntries(tb, v, i)
    <3>1. i < k
      BY <1>1, <1>10, <2>0, <2>4
    <3> QED  BY <1>1, <1>10, <2>1, <2>4, <3>1
  <2>5. CASE /\ i = k /\ \E g \in Range(v[k]) \ Range(c.in0) : x \in tb[g.number]
             /\ \E f \in Range(c.in0) : y \in tb[f.number]
    BY <1>10, <2>5 DEF LeavesNewer
  <2>6. i = k + 1 => j # k + 1
    BY <1>10, <2>0, <1>1
  <2> HIDE DEF k
  <2> QED  BY <1>8, <2>2, <2>3, <2>4, <2>5, <2>6
<1>11. NewerLevels(tb, w)
  BY <1>10 DEF NewerLevels
<1>12. OneEach(VersionEntries(tb, w)) /\ AtMost(VersionEntries(tb, w), s)
  BY <1>9 DEF Layered, OneEach, AtMost
<1> QED  BY <1>9, <1>11, <1>12 DEF Layered, w

(******************************************************************************)
(* The inputs of a compaction leave nothing older behind                      *)
(******************************************************************************)
Covers(r, S) == \A f \in S : /\ r[1] <= UserKey(f.smallest)
                             /\ r[2] = NoKey \/ UserKey(f.largest) <= r[2]

\* What overlaps a range whose ends may be null.
LEMMA RangeHit ==
  ASSUME NEW files, IsSeq(files), NEW r
  PROVE  Range(Hit(files, r)) = {f \in Range(files) : Overlaps(f, r[1], r[2])}
<1> DEFINE F == Range(files)
           S == {f \in F : Overlaps(f, r[1], r[2])}
<1>1. files \in Seq(F)
  BY DEF IsSeq
<1>2. Hit(files, r) = Only(files, S)
  BY DEF Hit
<1>3. S \subseteq F /\ Range(files) = F
  OBVIOUS
<1> HIDE DEF F, S
<1>4. Range(Only(files, S)) = Range(files) \cap S
  BY <1>1, OnlySelects
<1>5. Range(Hit(files, r)) = S
  BY <1>2, <1>3, <1>4
<1> QED  BY <1>5 DEF S, F

\* The next range covers the files met by this one, and is no other when this
\* one does.
LEMMA WidenCovers ==
  ASSUME NEW files, IsSeq(files), EndedFiles(Range(files)), NEW r \in Nat \X Nat,
         NEW S, S = Range(Hit(files, r))
  PROVE  /\ Widen(files, r) \in Nat \X Nat
         /\ Covers(Widen(files, r), S)
         /\ Covers(r, S) => Widen(files, r) = r
         /\ S \subseteq Range(Hit(files, Widen(files, r)))
<1> DEFINE b == r[1]
           e == r[2]
           A == {b} \cup {UserKey(f.smallest) : f \in S}
           Z == {e} \cup {UserKey(f.largest) : f \in S}
           lo == LowerEnd(b, S)
           hi == UpperEnd(e, S)
           w == Widen(files, r)
<1>1. r = <<b, e>> /\ b \in Nat /\ e \in Nat  /\ NoKey = 0
  BY BoundsAssumption DEF NoKey
<1>2. S = {f \in Range(files) : Overlaps(f, b, e)}
  BY RangeHit
<1>3. IsFiniteSet(S) /\ S \subseteq Range(files)
  BY <1>2, FS_Subset DEF EndedFiles, FileSet
<1>4. ASSUME NEW f \in S
      PROVE  /\ UserKey(f.smallest) \in Keys /\ UserKey(f.largest) \in Keys
             /\ UserKey(f.smallest) \in Nat /\ UserKey(f.largest) \in Nat
             /\ UserKey(f.smallest) <= UserKey(f.largest)
  <2>1. Ended(f)
    BY <1>3 DEF EndedFiles
  <2> QED  BY <2>1, EndsOf, UserKeyType DEF Ended
<1>5. w = <<lo, hi>>
  BY DEF Widen
<1> HIDE DEF b, e
<1>6. A \subseteq Nat /\ A \subseteq Nat /\ b \in A /\ Z \subseteq Nat /\ Z \subseteq Nat /\ e \in Z
  BY <1>1, <1>4
<1>7. IsFiniteSet(Z)
  <2> DEFINE u == [f \in S |-> UserKey(f.largest)]
  <2>1. {UserKey(f.largest) : f \in S} = {u[f] : f \in S}
    OBVIOUS
  <2> HIDE DEF u
  <2>2. IsFiniteSet({UserKey(f.largest) : f \in S})
    <3>1. IsFiniteSet({u[f] : f \in S})
      BY <1>3, ImageIsFinite
    <3> QED  BY <2>1, <3>1
  <2> DEFINE Y == {UserKey(f.largest) : f \in S}
  <2>3. Z = {e} \cup Y /\ IsFiniteSet(Y)
    BY <2>2
  <2> HIDE DEF Y, Z
  <2> QED  BY <2>3, FS_Singleton, FS_Union
<1>8. /\ lo = IF b = NoKey THEN NoKey ELSE Min(A)
      /\ hi = IF e = NoKey THEN NoKey ELSE Max(Z)
  BY Zenon DEF LowerEnd, UpperEnd
<1>9. Min(A) \in A /\ \A x \in A : Min(A) <= x
  <2> HIDE DEF A
  <2> QED  BY <1>6, MinOfSome
<1>10. Max(Z) \in Z /\ \A x \in Z : x <= Max(Z)
  <2> HIDE DEF Z
  <2> QED  BY <1>6, <1>7, MaxOfSome
<1> HIDE DEF lo, hi
<1>11. lo \in Nat /\ hi \in Nat /\ lo \in Nat /\ hi \in Nat
  BY <1>1, <1>6, <1>8, <1>9, <1>10
<1>12. ASSUME NEW f \in S
       PROVE  lo <= UserKey(f.smallest) /\ (hi = NoKey \/ UserKey(f.largest) <= hi)
  <2>1. UserKey(f.smallest) \in A /\ UserKey(f.largest) \in Z
    OBVIOUS
  <2> HIDE DEF A, Z
  <2> QED  BY <1>1, <1>4, <1>8, <1>9, <1>10, <2>1
<1>13. w \in Nat \X Nat /\ w[1] = lo /\ w[2] = hi
  BY <1>5, <1>11
<1>14. Covers(w, S)
  <2> HIDE DEF w
  <2> QED  BY <1>12, <1>13 DEF Covers
<1>15. ASSUME Covers(r, S) PROVE w = r
  <2>1. \A f \in S : b <= UserKey(f.smallest) /\ (e = NoKey \/ UserKey(f.largest) <= e)
    BY <1>15 DEF Covers, b, e
  <2>2. \A x \in A : b <= x
    BY <1>1, <2>1
  <2>3. e # NoKey => \A x \in Z : x <= e
    BY <1>1, <2>1
  <2> HIDE DEF A, Z
  <2>4. Min(A) \in Nat /\ Max(Z) \in Nat /\ b \in Nat /\ e \in Nat
    BY <1>6, <1>9, <1>10
  <2>5. lo = b
    BY <1>6, <1>8, <1>9, <2>2, <2>4
  <2>6. hi = e
    BY <1>6, <1>8, <1>10, <2>3, <2>4
  <2> QED  BY <1>1, <1>5, <2>5, <2>6
<1> HIDE DEF w
<1>16. \A f \in S : f \in Range(Hit(files, w))
  <2> SUFFICES ASSUME NEW f \in S PROVE f \in Range(files) /\ Overlaps(f, w[1], w[2])
    BY RangeHit
  <2>1. /\ w[1] \in Nat /\ w[2] \in Nat /\ w[1] <= UserKey(f.smallest)
        /\ (w[2] = NoKey \/ UserKey(f.largest) <= w[2])
    BY <1>11, <1>12, <1>13
  <2>2. /\ UserKey(f.smallest) \in Nat /\ UserKey(f.largest) \in Nat
        /\ UserKey(f.smallest) <= UserKey(f.largest)
    BY <1>4
  <2>3. Overlaps(f, w[1], w[2])
    BY <2>1, <2>2 DEF Overlaps, AfterFile, BeforeFile
  <2> QED  BY <1>3, <2>3
<1> QED  BY <1>13, <1>14, <1>15, <1>16 DEF w

\* A sequence has no more members than its length.
LEMMA FewMembers ==
  ASSUME NEW s, IsSeq(s)
  PROVE  IsFiniteSet(Range(s)) /\ Cardinality(Range(s)) <= Len(s) /\ Cardinality(Range(s)) \in Nat
<1> DEFINE D == 1 .. Len(s)
           T == Range(s)
<1>1. Len(s) \in Nat /\ s \in [D -> T] /\ T = {s[i] : i \in D}
  BY DEF IsSeq, Range
<1>2. IsFiniteSet(D) /\ Cardinality(D) = Len(s)
  <2>1. ASSUME NEW m \in Nat PROVE IsFiniteSet(1 .. m) /\ Cardinality(1 .. m) = m
    <3>1. Cardinality(1 .. m) = IF 1 > m THEN 0 ELSE m - 1 + 1
      BY FS_Interval
    <3> QED  BY <3>1, FS_Interval
  <2> QED  BY <1>1, <2>1
<1>3. s \in Surjection(D, T)
  <2> HIDE DEF D, T
  <2> QED  BY <1>1 DEF Surjection
<1> HIDE DEF D, T
<1>4. IsFiniteSet(T) /\ Cardinality(T) <= Cardinality(D)
  BY <1>2, <1>3, FS_Surjection
<1> QED  BY <1>2, <1>4, FS_CardinalityType DEF T

\* Level 0 is searched until nothing is met any more: what is left shares no
\* user key with what was found.
LEMMA OverlapCloses ==
  ASSUME NEW v, IsSeq(v[0]), EndedFiles(Range(v[0])), NEW a \in Nat, NEW z \in Nat,
         NEW S, S = Range(GetOverlappingInputs(v, 0, a, z)),
         NEW f \in S, NEW g \in Range(v[0]) \ S
  PROVE  UserKey(g.largest) < UserKey(f.smallest) \/ UserKey(f.largest) < UserKey(g.smallest)
<1> DEFINE files == v[0]
           n == Len(files)
           b == <<a, z>>
           T == Nat \X Nat
           step == [p \in (1 .. n) \X T |-> Widen(files, p[2])]
<1>1. n \in Nat /\ IsSeq(files) /\ EndedFiles(Range(files))
  BY DEF IsSeq
<1>2. b \in T
  OBVIOUS
<1>3. ASSUME NEW t \in T PROVE Widen(files, t) \in T
  BY <1>1, WidenCovers
<1> HIDE DEF n, b, T, files
<1>4. step \in [(1 .. n) \X T -> T] /\ \A i \in 1 .. n, t \in T : step[<<i, t>>] = Widen(files, t)
  BY <1>3
<1> HIDE DEF step
<1>5. PICK x : Iterates(x, n, T, b, step)
  BY <1>1, <1>2, <1>4, RecursiveFunction
<1>6. WidenedIs(x, files, a, z)
  <2>1. x \in [0 .. n -> T] /\ x[0] = b
    BY <1>5 DEF Iterates
  <2>2. ASSUME NEW i \in 0 .. n, i # 0 PROVE x[i] = Widen(files, x[i - 1])
    <3>1. i \in 1 .. n /\ i - 1 \in 0 .. n
      BY <1>1, <2>2
    <3> QED  BY <1>4, <1>5, <2>1, <3>1 DEF Iterates
  <2>3. x = [i \in 0 .. n |-> IF i = 0 THEN b ELSE Widen(files, x[i - 1])]
    BY <2>1, <2>2
  <2> QED  BY <2>3 DEF WidenedIs, n, b
<1>7. PICK h : WidenedIs(h, files, a, z) /\ GetOverlappingInputs(v, 0, a, z) = Hit(files, h[n])
  <2>1. \E h : /\ WidenedIs(h, v[0], a, z)
               /\ GetOverlappingInputs(v, 0, a, z)
                    = Hit(v[0], IF 0 = 0 THEN h[Len(v[0])] ELSE <<a, z>>)
    BY <1>6, OverlappingDef DEF files
  <2> QED  BY <2>1 DEF files, n
<1>8. h[0] = b /\ \A i \in 1 .. n : h[i] = Widen(files, h[i - 1])
  <2> DEFINE Body(i) == IF i = 0 THEN b ELSE Widen(files, h[i - 1])
  <2>1. h = [i \in 0 .. n |-> Body(i)]
    BY <1>7 DEF WidenedIs, n, b
  <2>2. \A i \in 0 .. n : h[i] = Body(i)
    <3> HIDE DEF Body
    <3> QED  BY <2>1
  <2>3. 0 \in 0 .. n /\ \A i \in 1 .. n : i \in 0 .. n /\ i # 0
    BY <1>1
  <2> QED  BY <2>2, <2>3, Zenon
<1> HIDE DEF n
<1> DEFINE H(i) == Range(Hit(files, h[i]))
           Good == {i \in 0 .. n : /\ h[i] \in T
                                   /\ Covers(h[i], H(i)) \/ Cardinality(H(i)) > i}
<1>9. \A r : /\ Range(Hit(files, r)) \subseteq Range(files)
             /\ IsFiniteSet(Range(Hit(files, r)))
             /\ Cardinality(Range(Hit(files, r))) \in Nat
             /\ Cardinality(Range(Hit(files, r))) <= n
  <2> SUFFICES ASSUME NEW r, NEW R, R = Range(Hit(files, r))
               PROVE  /\ R \subseteq Range(files) /\ IsFiniteSet(R)
                      /\ Cardinality(R) \in Nat /\ Cardinality(R) <= n
    OBVIOUS
  <2>1. R \subseteq Range(files)
    BY <1>1, RangeHit
  <2>2. /\ IsFiniteSet(Range(files)) /\ Cardinality(Range(files)) <= n
        /\ Cardinality(Range(files)) \in Nat
    BY <1>1, FewMembers DEF n
  <2>3. IsFiniteSet(R) /\ Cardinality(R) <= Cardinality(Range(files)) /\ Cardinality(R) \in Nat
    BY <2>1, <2>2, FS_Subset, FS_CardinalityType
  <2> QED  BY <1>1, <2>1, <2>2, <2>3
<1>10. 0 \in Good
  <2>1. h[0] \in T
    BY <1>2, <1>8
  <2>2. CASE H(0) = {}
    BY <1>1, <2>1, <2>2 DEF Covers
  <2>3. CASE H(0) # {}
    <3>1. IsFiniteSet(H(0)) /\ Cardinality(H(0)) \in Nat
      BY <1>9
    <3> HIDE DEF H
    <3>2. Cardinality(H(0)) # 0
      BY <2>3, <3>1, FS_EmptySet
    <3> QED  BY <1>1, <2>1, <3>1, <3>2
  <2> QED  BY <2>2, <2>3
<1>11. ASSUME NEW i \in 1 .. n, i - 1 \in Good PROVE i \in Good
  <2> DEFINE r == h[i - 1]
             w == h[i]
  <2>1. r \in T /\ w = Widen(files, r) /\ i \in Nat /\ i - 1 \in Nat /\ i \in 0 .. n
    BY <1>1, <1>8, <1>11
  <2>2. Covers(r, H(i - 1)) \/ Cardinality(H(i - 1)) > i - 1
    BY <1>11
  <2>3. /\ w \in T /\ Covers(w, H(i - 1)) /\ (Covers(r, H(i - 1)) => w = r)
        /\ H(i - 1) \subseteq H(i)
    <3> HIDE DEF r, w
    <3>1. /\ Widen(files, r) \in T /\ Covers(Widen(files, r), Range(Hit(files, r)))
          /\ Covers(r, Range(Hit(files, r))) => Widen(files, r) = r
          /\ Range(Hit(files, r)) \subseteq Range(Hit(files, Widen(files, r)))
      BY <1>1, <2>1, WidenCovers DEF T
    <3> QED  BY <2>1, <3>1 DEF r, w
  <2>4. CASE Covers(r, H(i - 1))
    BY <2>1, <2>3, <2>4
  <2>5. CASE H(i - 1) = H(i)
    <3>1. Covers(w, H(i))
      BY <2>3, <2>5
    <3> QED  BY <2>1, <2>3, <3>1
  <2>6. CASE Cardinality(H(i - 1)) > i - 1 /\ H(i - 1) # H(i)
    <3>1. /\ IsFiniteSet(H(i)) /\ Cardinality(H(i)) \in Nat /\ Cardinality(H(i - 1)) \in Nat
      BY <1>9
    <3> HIDE DEF H
    <3>2. /\ Cardinality(H(i - 1)) <= Cardinality(H(i)) /\ Cardinality(H(i - 1)) # Cardinality(H(i))
      BY <2>3, <2>6, <3>1, FS_Subset
    <3>3. Cardinality(H(i)) > i
      BY <2>1, <2>6, <3>1, <3>2
    <3> QED  BY <2>1, <2>3, <3>3
  <2> QED  BY <2>2, <2>4, <2>5, <2>6
<1>12. n \in Good
  <2>1. \A i \in 0 .. n : i \in Good
    <3> HIDE DEF Good
    <3> QED  BY <1>1, <1>10, <1>11, UptoInduction
  <2> QED  BY <1>1, <2>1
<1>13. h[n] \in T /\ Covers(h[n], H(n))
  <2>1. Cardinality(H(n)) \in Nat /\ Cardinality(H(n)) <= n
    BY <1>9
  <2> QED  BY <1>1, <1>12, <2>1
<1> DEFINE lo == h[n][1]
           hi == h[n][2]
<1>14. S = H(n)
  BY <1>7
<1>15. /\ lo <= UserKey(f.smallest) /\ (hi = NoKey \/ UserKey(f.largest) <= hi)
       /\ ~Overlaps(g, lo, hi) /\ lo \in Nat /\ hi \in Nat
  <2>1. lo \in Nat /\ hi \in Nat
    <3>1. h[n] \in Nat \X Nat
      BY <1>13 DEF T
    <3>2. lo \in Nat /\ hi \in Nat
      BY <3>1
    <3> QED  BY <3>2
  <2>2. g \in Range(files) /\ g \notin H(n)
    BY <1>14 DEF files
  <2>3. ~Overlaps(g, lo, hi)
    BY <1>1, <2>2, RangeHit
  <2> QED  BY <1>13, <1>14, <2>1, <2>3 DEF Covers
<1>16. /\ UserKey(f.smallest) \in Nat /\ UserKey(f.largest) \in Nat
       /\ UserKey(g.smallest) \in Nat /\ UserKey(g.largest) \in Nat
  <2>1. f \in Range(files) /\ g \in Range(files)
    BY <1>9, <1>14 DEF files
  <2> QED  BY <1>1, <2>1, EndsOf DEF EndedFiles
<1> HIDE DEF lo, hi
<1> QED  BY <1>15, <1>16 DEF Overlaps, AfterFile, BeforeFile

\* AddBoundaryInputs goes through states of this kind.
LEMMA BoundarySteps ==
  ASSUME NEW files, IsSeq(files), EndedFiles(Range(files)),
         NEW inputs \in Seq(Range(files)), inputs # <<>>
  PROVE  \E h : /\ h[0] = [in |-> inputs, key |-> GetRange(Range(inputs)).largest]
                /\ \A i \in 1 .. Len(files) : h[i] = Grow(files, h[i - 1])
                /\ \A i \in 0 .. Len(files) : h[i] \in BoundaryState(Range(files), inputs)
                /\ AddBoundaryInputs(files, inputs) = h[Len(files)].in
<1> DEFINE F == Range(files)
           n == Len(files)
           b == [in |-> inputs, key |-> GetRange(Range(inputs)).largest]
           T == BoundaryState(F, inputs)
           g == [p \in (1 .. n) \X T |-> Grow(files, p[2])]
<1>1. n \in Nat
  BY DEF IsSeq
<1>2. b \in T
  <2>1. Range(inputs) \subseteq F /\ Range(inputs) # {} /\ IsFiniteSet(Range(inputs))
    BY SeqOver, SeqNotEmpty
  <2>2. EndedFiles(Range(inputs))
    BY <2>1, FS_Subset DEF EndedFiles, FileSet
  <2> DEFINE k == GetRange(Range(inputs)).largest
  <2>3. k \in IKey /\ \E f \in Range(inputs) : k = f.largest
    BY <2>1, <2>2, RangeOfFiles DEF Ended
  <2> HIDE DEF k
  <2>4. SidesKept(F, Range(inputs), Range(inputs))
    BY DEF SidesKept
  <2>5. b \in [in : Seq(F), key : IKey] /\ b.in = inputs /\ b.key = k
    BY <2>3 DEF k
  <2> HIDE DEF b
  <2> QED  BY <2>3, <2>4, <2>5 DEF BoundaryState
<1>3. ASSUME NEW t \in T PROVE Grow(files, t) \in T
  BY GrowType
<1> HIDE DEF n, b, T
<1>4. g \in [(1 .. n) \X T -> T] /\ \A i \in 1 .. n, t \in T : g[<<i, t>>] = Grow(files, t)
  BY <1>3
<1> HIDE DEF g
<1>5. PICK e : Iterates(e, n, T, b, g)
  BY <1>1, <1>2, <1>4, RecursiveFunction
<1>6. GrownIs(e, files, inputs)
  <2>1. e \in [0 .. n -> T] /\ e[0] = b
    BY <1>5 DEF Iterates
  <2>2. ASSUME NEW i \in 0 .. n, i # 0 PROVE e[i] = Grow(files, e[i - 1])
    <3>1. i \in 1 .. n /\ i - 1 \in 0 .. n
      BY <1>1, <2>2
    <3> QED  BY <1>4, <1>5, <2>1, <3>1 DEF Iterates
  <2>3. e = [i \in 0 .. n |-> IF i = 0 THEN b ELSE Grow(files, e[i - 1])]
    BY <2>1, <2>2
  <2> QED  BY <2>3 DEF GrownIs, n, b
<1>7. PICK h : GrownIs(h, files, inputs) /\ AddBoundaryInputs(files, inputs) = h[n].in
  BY <1>6, GrownDef DEF n
<1> DEFINE Body(i) == IF i = 0 THEN b ELSE Grow(files, h[i - 1])
<1>8. h = [i \in 0 .. n |-> Body(i)]
  BY <1>7 DEF GrownIs, n, b
<1>9. h = [i \in 0 .. n |-> h[i]] /\ \A i \in 0 .. n : h[i] = Body(i)
  <2> HIDE DEF Body
  <2> QED  BY <1>8
<1>10. h[0] = b /\ \A i \in 1 .. n : h[i] = Grow(files, h[i - 1])
  <2>1. 0 \in 0 .. n /\ \A i \in 1 .. n : i \in 0 .. n /\ i # 0
    BY <1>1
  <2> QED  BY <1>9, <2>1, Zenon
<1>11. \A i \in 1 .. n : h[i - 1] \in T => h[i] = g[<<i, h[i - 1]>>]
  BY <1>4, <1>10
<1>12. Iterates(h, n, T, b, g)
  BY <1>1, <1>2, <1>4, <1>9, <1>10, <1>11, IteratesInside
<1>13. \A i \in 0 .. n : h[i] \in T
  BY <1>1, <1>12 DEF Iterates
<1> QED  BY <1>7, <1>10, <1>13 DEF n, b, T

\* The boundary file is the first one, and there is none only when no file
\* begins with that user key.
LEMMA BoundaryLeast ==
  ASSUME NEW files, FileSet(Range(files)), None \notin Range(files), NEW key,
         NEW g \in Range(files), Before(key, g.smallest), UserKey(g.smallest) = UserKey(key)
  PROVE  Boundary(files, key) # None /\ ~Before(g.smallest, Boundary(files, key).smallest)
<1> DEFINE S == {f \in Range(files) : /\ Before(key, f.smallest)
                                      /\ UserKey(f.smallest) = UserKey(key)}
           f == CHOOSE f \in S : \A h \in S : ~Before(h.smallest, f.smallest)
<1>1. g \in S /\ S \subseteq Range(files)
  OBVIOUS
<1>2. Boundary(files, key) = IF S = {} THEN None ELSE f
  BY DEF Boundary, FindSmallestBoundaryFile
<1> HIDE DEF S
<1>3. FileSet(S)
  BY <1>1, FS_Subset DEF FileSet
<1>4. \E x \in S : \A h \in S : ~Before(h.smallest, x.smallest)
  <2>1. IsFiniteSet(S) /\ StrictOrder(S, FileOrder(S))
    BY <1>3, FilesAreOrdered DEF FileSet
  <2>2. PICK x \in S : \A h \in S : <<h, x>> \notin FileOrder(S)
    BY <1>1, <2>1, LeastMember
  <2>3. \A h \in S : ~BySmallestKey(h, x)
    BY <1>3, <2>2, FilesAreOrdered
  <2> QED  BY <2>3 DEF BySmallestKey
<1>5. f \in S /\ \A h \in S : ~Before(h.smallest, f.smallest)
  BY <1>4
<1> HIDE DEF f
<1> QED  BY <1>1, <1>2, <1>5

\* A file is not a null pointer.
LEMMA FileIsSome ==
  ASSUME NEW tb, NEW n, NEW S, GoodFiles(S, tb, n)
  PROVE  None \notin S
<1> SUFFICES ASSUME None \in S PROVE FALSE
  OBVIOUS
<1>1. None = FileOf(None.number, tb[None.number])
  BY DEF GoodFiles, GoodFile
<1>2. \A x, y, z, w : "none" \notin DOMAIN [number |-> x, size |-> y, smallest |-> z, largest |-> w]
  OBVIOUS
<1>3. "none" \notin DOMAIN FileOf(None.number, tb[None.number])
  BY <1>2, Zenon DEF FileOf
<1>4. "none" \in DOMAIN None
  BY DEF None
<1> QED  BY <1>1, <1>3, <1>4

(******************************************************************************)
(* Whole inputs: no file is left out between two of them                      *)
(******************************************************************************)
Gapless(F, S) ==
  \A f, h \in S, g \in F :
    Before(f.largest, g.smallest) /\ Before(g.largest, h.smallest) => g \in S
KeysApart(F, S) ==
  \A f \in S, g \in F \ S :
    UserKey(g.largest) < UserKey(f.smallest) \/ UserKey(f.largest) < UserKey(g.smallest)
Whole(F, level, S) == IF level = 0 THEN KeysApart(F, S) ELSE Gapless(F, S)

\* What stays in the level is of other keys, or before.
FilesLeft(F, S) ==
  \A f \in S, g \in F \ S :
    UserKey(f.largest) < UserKey(g.smallest) \/ Before(g.largest, f.smallest)

\* What overlaps a range is whole.
LEMMA OverlapWhole ==
  ASSUME NEW v, NEW l \in Levels, IsSeq(v[l]), EndedFiles(Range(v[l])),
         NEW a \in Nat, NEW z \in Nat
  PROVE  Whole(Range(v[l]), l, Range(GetOverlappingInputs(v, l, a, z)))
<1>1. CASE l = 0
  BY <1>1, OverlapCloses DEF Whole, KeysApart
<1>2. CASE l # 0
  <2> DEFINE files == v[l]
             S == {f \in Range(files) : Overlaps(f, a, z)}
             r == <<a, z>>
  <2>1. GetOverlappingInputs(v, l, a, z) = Hit(files, r)
    BY <1>2, Zenon DEF GetOverlappingInputs, Hit
  <2>2. r[1] = a /\ r[2] = z
    OBVIOUS
  <2> HIDE DEF r
  <2>3. Range(Hit(files, r)) = S
    BY <2>2, RangeHit
  <2> SUFFICES ASSUME NEW f \in S, NEW h \in S, NEW g \in Range(files),
                      Before(f.largest, g.smallest), Before(g.largest, h.smallest)
               PROVE  Overlaps(g, a, z)
    BY <1>2, <2>1, <2>3 DEF Whole, Gapless
  <2>4. /\ f.largest \in IKey /\ g.smallest \in IKey /\ g.largest \in IKey /\ h.smallest \in IKey
        /\ UserKey(g.smallest) \in Nat /\ UserKey(g.largest) \in Nat
        /\ UserKey(f.largest) \in Nat /\ UserKey(h.smallest) \in Nat
        /\ UserKey(g.smallest) <= UserKey(g.largest)
    BY EndsOf DEF EndedFiles, Ended
  <2>5. UserKey(f.largest) <= UserKey(g.smallest) /\ UserKey(g.largest) <= UserKey(h.smallest)
    BY <2>4, KeyOrder
  <2>6. ~AfterFile(a, f) /\ ~BeforeFile(z, h)
    BY DEF Overlaps
  <2> QED  BY <2>4, <2>5, <2>6 DEF Overlaps, AfterFile, BeforeFile
<1> QED  BY <1>1, <1>2

\* One file is.
LEMMA SingleGapless ==
  ASSUME NEW F, EndedFiles(F), NEW f \in F
  PROVE  Gapless(F, {f})
<1> SUFFICES ASSUME NEW g \in F, Before(f.largest, g.smallest), Before(g.largest, f.smallest)
             PROVE  FALSE
  BY DEF Gapless
<1>1. Ended(f) /\ Ended(g)
  BY DEF EndedFiles
<1>2. Before(f.largest, g.largest)
  BY <1>1, KeyOrder DEF Ended
<1>3. Before(f.largest, f.smallest)
  BY <1>1, <1>2, BeforeIsOrder DEF Ended
<1> QED  BY <1>1, <1>3 DEF Ended

\* In a level in order, one more boundary file leaves no gap.
Growing(F, t) ==
  /\ t.key \in IKey /\ Range(t.in) \subseteq F
  /\ \E m \in Range(t.in) : t.key = m.largest
  /\ \A f \in Range(t.in) : ~Before(t.key, f.largest)
  /\ Gapless(F, Range(t.in))

\* A boundary file leaves no file of the level out in between.
LEMMA GrowGapless ==
  ASSUME NEW files, IsSeq(files), EndedFiles(Range(files)), DisjointLevel(Range(files)),
         None \notin Range(files),
         NEW t, t.in \in Seq(Range(files)), Growing(Range(files), t),
         NEW b, b = Boundary(files, t.key), b # None,
         NEW u, u.in = Append(t.in, b), u.key = b.largest
  PROVE  Growing(Range(files), u)
<1> DEFINE F == Range(files)
           S == Range(t.in)
<1>1. FileSet(F)
  BY DEF EndedFiles
<1>2. b \in F /\ Before(t.key, b.smallest) /\ UserKey(b.smallest) = UserKey(t.key)
  BY <1>1, BoundaryIs
<1>3. Range(u.in) = S \cup {b}
  BY AppendRange
<1>4. ASSUME NEW g \in F, Before(t.key, g.smallest), UserKey(g.smallest) = UserKey(t.key)
      PROVE  ~Before(g.smallest, b.smallest)
  BY <1>1, <1>4, BoundaryLeast
<1>5. S \subseteq F /\ \A f \in F : Ended(f)
  BY DEF Growing, EndedFiles
<1>6. PICK m \in S : t.key = m.largest
  BY DEF Growing
<1>7. t.key \in IKey /\ \A f \in S : ~Before(t.key, f.largest)
  BY DEF Growing
<1>8. DisjointLevel(F) /\ Gapless(F, S)
  BY DEF Growing
<1> HIDE DEF F, S
<1>9. /\ b.smallest \in IKey /\ b.largest \in IKey /\ ~Before(b.largest, b.smallest)
      /\ Before(t.key, b.largest)
  BY <1>2, <1>5, <1>7, KeyOrder DEF Ended
<1>10. \A f \in S \cup {b} : ~Before(b.largest, f.largest)
  <2> SUFFICES ASSUME NEW f \in S PROVE ~Before(b.largest, f.largest)
    BY <1>9, BeforeIsOrder
  <2>1. f.largest \in IKey /\ ~Before(t.key, f.largest)
    BY <1>5, <1>7 DEF Ended
  <2> QED  BY <1>7, <1>9, <2>1, KeyOrder
<1>11. ASSUME NEW f \in S \cup {b}, NEW h \in S \cup {b}, NEW g \in F,
              Before(f.largest, g.smallest), Before(g.largest, h.smallest)
       PROVE  g \in S \cup {b}
  <2>1. /\ f \in F /\ h \in F
        /\ f.largest \in IKey /\ f.smallest \in IKey
        /\ g.largest \in IKey /\ g.smallest \in IKey /\ ~Before(g.largest, g.smallest)
        /\ h.largest \in IKey /\ h.smallest \in IKey /\ ~Before(h.largest, h.smallest)
        /\ m.largest \in IKey /\ m.smallest \in IKey
    BY <1>2, <1>5, <1>6 DEF Ended
  <2>2. ~Before(b.largest, h.largest)
    BY <1>10
  <2>3. CASE f = b
    <3>1. Before(b.largest, g.largest)
      BY <1>9, <1>11, <2>1, <2>3, KeyOrder
    <3>2. Before(g.largest, h.largest)
      BY <1>11, <2>1, KeyOrder
    <3>3. Before(b.largest, h.largest)
      BY <1>9, <2>1, <3>1, <3>2, BeforeIsOrder
    <3> QED  BY <2>2, <3>3
  <2>4. CASE f \in S /\ h \in S
    BY <1>8, <1>11, <2>4 DEF Gapless
  <2>5. CASE f \in S /\ h = b /\ g # m
    <3>1. CASE Before(g.largest, m.smallest)
      BY <1>6, <1>8, <1>11, <2>5, <3>1 DEF Gapless
    <3>2. CASE Before(m.largest, g.smallest)
      <4>1. Before(t.key, g.smallest)
        BY <1>6, <3>2
      <4>2. Before(g.smallest, b.smallest)
        BY <1>9, <1>11, <2>1, <2>5, KeyOrder
      <4>3. UserKey(g.smallest) = UserKey(t.key)
        <5>1. UserKey(t.key) <= UserKey(g.smallest) /\ UserKey(g.smallest) <= UserKey(b.smallest)
          BY <1>7, <1>9, <2>1, <4>1, <4>2, KeyOrder
        <5>2. UserKey(t.key) \in Nat /\ UserKey(g.smallest) \in Nat
          BY <1>7, <2>1, IKeyParts
        <5> QED  BY <1>2, <5>1, <5>2
      <4> QED  BY <1>4, <4>1, <4>2, <4>3
    <3> QED  BY <1>5, <1>6, <1>8, <2>5, <3>1, <3>2 DEF DisjointLevel
  <2> QED  BY <1>6, <2>3, <2>4, <2>5
<1>12. Gapless(F, S \cup {b})
  BY <1>11 DEF Gapless
<1>13. Growing(F, u)
  BY <1>2, <1>3, <1>5, <1>9, <1>10, <1>12 DEF Growing
<1> QED  BY <1>13 DEF F

\* When no boundary file is left, nothing newer of the same keys stays.
LEMMA GrownLeaves ==
  ASSUME NEW files, IsSeq(files), EndedFiles(Range(files)), DisjointLevel(Range(files)),
         None \notin Range(files),
         NEW t, Growing(Range(files), t), Boundary(files, t.key) = None
  PROVE  FilesLeft(Range(files), Range(t.in))
<1> DEFINE F == Range(files)
           S == Range(t.in)
<1>1. S \subseteq F /\ \A f \in F : Ended(f)
  BY DEF Growing, EndedFiles
<1>2. PICK m \in S : t.key = m.largest
  BY DEF Growing
<1>3. t.key \in IKey /\ \A f \in S : ~Before(t.key, f.largest)
  BY DEF Growing
<1>4. DisjointLevel(F) /\ Gapless(F, S)
  BY DEF Growing
<1>5. \A g \in F : Before(t.key, g.smallest) => UserKey(g.smallest) # UserKey(t.key)
  BY BoundaryLeast DEF EndedFiles
<1> HIDE DEF F, S
<1> SUFFICES ASSUME NEW f \in S, NEW g \in F \ S, ~Before(g.largest, f.smallest)
             PROVE  UserKey(f.largest) < UserKey(g.smallest)
  BY DEF FilesLeft, F, S
<1>6. Before(f.largest, g.smallest)
  BY <1>1, <1>4 DEF DisjointLevel
<1>7. ~Before(g.largest, m.smallest)
  BY <1>2, <1>4, <1>6 DEF Gapless
<1>8. Before(t.key, g.smallest)
  BY <1>1, <1>2, <1>4, <1>7 DEF DisjointLevel
<1>9. f.largest \in IKey /\ g.smallest \in IKey
  BY <1>1 DEF Ended
<1>10. UserKey(f.largest) <= UserKey(t.key) /\ UserKey(t.key) <= UserKey(g.smallest)
  BY <1>3, <1>8, <1>9, KeyOrder
<1>11. UserKey(f.largest) \in Nat /\ UserKey(t.key) \in Nat /\ UserKey(g.smallest) \in Nat
  BY <1>3, <1>9, IKeyParts
<1> QED  BY <1>5, <1>8, <1>10, <1>11

\* Whole inputs with their boundary files leave nothing older.
LEMMA BoundaryLeaves ==
  ASSUME NEW files, IsSeq(files), EndedFiles(Range(files)), None \notin Range(files),
         NEW level \in Nat, level # 0 => DisjointLevel(Range(files)) /\ Following(files),
         NEW inputs \in Seq(Range(files)), inputs # <<>>, Whole(Range(files), level, Range(inputs))
  PROVE  FilesLeft(Range(files), Range(AddBoundaryInputs(files, inputs)))
<1> DEFINE F == Range(files)
           n == Len(files)
           b == [in |-> inputs, key |-> GetRange(Range(inputs)).largest]
<1>1. PICK h : /\ h[0] = b
               /\ \A i \in 1 .. n : h[i] = Grow(files, h[i - 1])
               /\ \A i \in 0 .. n : h[i] \in BoundaryState(F, inputs)
               /\ AddBoundaryInputs(files, inputs) = h[n].in
  BY BoundarySteps
<1>2. n \in Nat /\ FileSet(F) /\ \A f \in F : Ended(f)
  BY DEF IsSeq, EndedFiles
<1>3. Range(inputs) \subseteq F /\ Range(inputs) # {} /\ EndedFiles(Range(inputs))
  <2>1. Range(inputs) \subseteq F /\ Range(inputs) # {} /\ IsFiniteSet(Range(inputs))
    BY SeqOver, SeqNotEmpty
  <2> QED  BY <2>1 DEF EndedFiles, FileSet
<1>4. b.in = inputs /\ b.key = GetRange(Range(inputs)).largest
  OBVIOUS
<1>5. /\ b.key \in IKey
      /\ \E m \in Range(inputs) : b.key = m.largest
      /\ \A f \in Range(inputs) : ~Before(b.key, f.largest)
  BY <1>3, <1>4, RangeOfFiles DEF Ended
<1> HIDE DEF n, b
<1>6. CASE level = 0
  <2>1. Boundary(files, b.key) = None
    <3> SUFFICES ASSUME NEW g, g = Boundary(files, b.key), g # None PROVE FALSE
      OBVIOUS
    <3>1. g \in F /\ Before(b.key, g.smallest) /\ UserKey(g.smallest) = UserKey(b.key)
      BY <1>2, BoundaryIs
    <3>2. PICK m \in Range(inputs) : b.key = m.largest
      BY <1>5
    <3>3. /\ m.smallest \in IKey /\ m.largest \in IKey /\ ~Before(m.largest, m.smallest)
          /\ g.smallest \in IKey /\ g.largest \in IKey /\ ~Before(g.largest, g.smallest)
      BY <1>2, <1>3, <3>1 DEF Ended
    <3>4. CASE g \in Range(inputs)
      <4>1. Before(b.key, g.largest)
        BY <3>1, <3>2, <3>3, KeyOrder
      <4> QED  BY <1>5, <3>4, <4>1
    <3>5. CASE g \notin Range(inputs)
      <4>1. \/ UserKey(g.largest) < UserKey(m.smallest)
            \/ UserKey(m.largest) < UserKey(g.smallest)
        BY <1>6, <3>1, <3>5 DEF Whole, KeysApart
      <4>2. /\ UserKey(g.largest) \in Nat /\ UserKey(m.smallest) \in Nat
            /\ UserKey(m.largest) \in Nat /\ UserKey(g.smallest) \in Nat
            /\ UserKey(g.smallest) <= UserKey(g.largest)
            /\ UserKey(m.smallest) <= UserKey(m.largest)
        BY <3>3, EndsOf DEF Ended
      <4> QED  BY <3>1, <3>2, <4>1, <4>2
    <3> QED  BY <3>4, <3>5
  <2> DEFINE Good == {i \in 0 .. n : h[i] = b}
  <2>2. 0 \in Good
    BY <1>1, <1>2
  <2>3. ASSUME NEW i \in 1 .. n, i - 1 \in Good PROVE i \in Good
    <3>1. Grow(files, b) = b
      BY <2>1 DEF Grow
    <3>2. h[i - 1] = b /\ i \in 0 .. n
      BY <1>2, <2>3
    <3>3. h[i] = Grow(files, h[i - 1])
      BY <1>1
    <3> QED  BY <3>1, <3>2, <3>3
  <2>4. \A i \in 0 .. n : i \in Good
    <3> HIDE DEF Good
    <3> QED  BY <1>2, <2>2, <2>3, UptoInduction
  <2>5. h[n] = b
    BY <1>2, <2>4
  <2>6. AddBoundaryInputs(files, inputs) = inputs
    BY <1>1, <1>4, <2>5
  <2>7. KeysApart(F, Range(inputs))
    BY <1>6 DEF Whole
  <2>8. FilesLeft(F, Range(inputs))
    <3> SUFFICES ASSUME NEW f \in Range(inputs), NEW g \in F \ Range(inputs),
                        UserKey(g.largest) < UserKey(f.smallest)
                 PROVE  Before(g.largest, f.smallest)
      BY <2>7 DEF FilesLeft, KeysApart
    <3> QED  BY DEF Before
  <2> QED  BY <2>6, <2>8
<1>7. CASE level # 0
  <2> DEFINE Ends(i) == \/ Boundary(files, h[i].key) = None
                        \/ \E p \in 1 .. n : p > i /\ h[i].key = files[p].largest
             Good == {i \in 0 .. n : Growing(F, h[i]) /\ Ends(i)}
  <2>1. F = {files[p] : p \in 1 .. n} /\ \A p \in 1 .. n : files[p] \in F
    BY DEF IsSeq, Range, n
  <2>2. 0 \in Good
    <3>1. Growing(F, b)
      BY <1>3, <1>4, <1>5, <1>7 DEF Growing, Whole
    <3>2. PICK m \in Range(inputs) : b.key = m.largest
      BY <1>5
    <3>3. PICK p \in 1 .. n : m = files[p]
      BY <1>3, <2>1
    <3>4. p > 0
      BY <1>2
    <3>5. h[0].key = files[p].largest /\ h[0] = b
      BY <1>1, <3>2, <3>3
    <3>6. Ends(0) /\ Growing(F, h[0]) /\ 0 \in 0 .. n
      BY <1>2, <3>1, <3>4, <3>5
    <3> QED  BY <3>6
  <2>3. ASSUME NEW i \in 1 .. n, i - 1 \in Good PROVE i \in Good
    <3> DEFINE t == h[i - 1]
               u == h[i]
               f == Boundary(files, t.key)
    <3>1. i \in 0 .. n /\ i - 1 \in 0 .. n /\ i \in Nat
      BY <1>2
    <3>2. Growing(F, t) /\ t \in BoundaryState(F, inputs) /\ u = Grow(files, t) /\ Ends(i - 1)
      BY <1>1, <2>3, <3>1
    <3>3. CASE f = None
      <4>1. u = t
        BY <3>2, <3>3 DEF Grow
      <4> QED  BY <3>1, <3>2, <3>3, <4>1
    <3>4. CASE f # None
      <4>1. u.in = Append(t.in, f) /\ u.key = f.largest
        BY <3>2, <3>4 DEF Grow
      <4>2. t.in \in Seq(F)
        BY <3>2 DEF BoundaryState
      <4>3. Growing(F, u)
        BY <1>7, <3>2, <3>4, <4>1, <4>2, GrowGapless
      <4>4. f \in F /\ Before(t.key, f.smallest)
        BY <1>2, <3>4, BoundaryIs
      <4>5. PICK p \in 1 .. n : p > i - 1 /\ t.key = files[p].largest
        BY <3>2, <3>4
      <4>6. PICK q \in 1 .. n : f = files[q]
        BY <2>1, <4>4
      <4>7. Ended(files[p]) /\ Ended(files[q])
        BY <1>2, <2>1
      <4>8. Before(files[p].largest, files[q].smallest)
        BY <4>4, <4>5, <4>6
      <4>9. q # p
        BY <4>7, <4>8 DEF Ended
      <4>10. ~(q < p)
        <5> SUFFICES ASSUME q < p PROVE FALSE
          OBVIOUS
        <5>1. Before(files[q].largest, files[p].smallest)
          BY <1>7 DEF Following, n
        <5>2. Before(files[q].largest, files[p].largest)
          BY <4>7, <5>1, KeyOrder DEF Ended
        <5>3. Before(files[q].largest, files[q].smallest)
          BY <4>7, <4>8, <5>2, BeforeIsOrder DEF Ended
        <5> QED  BY <4>7, <5>3 DEF Ended
      <4>11. q > i
        BY <1>2, <4>5, <4>9, <4>10
      <4> QED  BY <3>1, <4>1, <4>3, <4>6, <4>11
    <3> QED  BY <3>3, <3>4
  <2>4. \A i \in 0 .. n : i \in Good
    <3> HIDE DEF Good
    <3> QED  BY <1>2, <2>2, <2>3, UptoInduction
  <2>5. Growing(F, h[n]) /\ Ends(n)
    BY <1>2, <2>4
  <2>6. Boundary(files, h[n].key) = None
    BY <1>2, <2>5
  <2>7. FilesLeft(F, Range(h[n].in))
    BY <1>7, <2>5, <2>6, GrownLeaves
  <2> QED  BY <1>1, <2>7
<1> QED  BY <1>6, <1>7

\* A level in order selects in order.
LEMMA OnlyFollows ==
  ASSUME NEW q, IsSeq(q), Following(q), NEW S
  PROVE  Following(Only(q, S))
<1> DEFINE X == Range(q)
           n == Len(q)
<1>1. q \in Seq(X) /\ n \in Nat /\ \A i \in 1 .. n : q[i] \in X
  BY DEF IsSeq
<1>2. PICK h : OnlyIs(h, q, S) /\ Only(q, S) = h[n]
  BY <1>1, OnlyDef
<1> HIDE DEF X, n
<1>3. h[0] = <<>> /\ \A k \in 1 .. n : h[k] = IF q[k] \in S THEN Append(h[k - 1], q[k]) ELSE h[k - 1]
  BY <1>1, <1>2, OnlyUnfold DEF n
<1>4. \A k \in 0 .. n : h[k] \in Seq(X)
                     /\ \A x \in X : (\E j \in 1 .. Len(h[k]) : h[k][j] = x) => \E j \in 1 .. k : q[j] = x
  <2> SUFFICES ASSUME NEW k \in 0 .. n
               PROVE  /\ h[k] \in Seq(X)
                      /\ \A x \in X : (\E j \in 1 .. Len(h[k]) : h[k][j] = x)
                                          => \E j \in 1 .. k : q[j] = x
    OBVIOUS
  <2>1. k \in 0 .. Len(q) /\ OnlyIs(h, q, S)
    BY <1>2 DEF n
  <2> QED  BY <1>1, <2>1, OnlySteps
<1> DEFINE Good == {k \in 0 .. n : Following(h[k])}
<1>5. 0 \in Good
  BY <1>1, <1>3 DEF Following
<1>6. ASSUME NEW k \in 1 .. n, k - 1 \in Good PROVE k \in Good
  <2>1. k \in 0 .. n /\ k - 1 \in 0 .. n /\ Following(h[k - 1])
    BY <1>1, <1>6
  <2>2. CASE q[k] \notin S
    BY <1>3, <2>1, <2>2
  <2>3. CASE q[k] \in S
    <3> DEFINE t == h[k - 1]
    <3>1. h[k] = Append(t, q[k]) /\ t \in Seq(X)
      BY <1>3, <1>4, <2>1, <2>3
    <3>2. \A j \in 1 .. Len(t) : Before(t[j].largest, q[k].smallest)
      <4> SUFFICES ASSUME NEW j \in 1 .. Len(t) PROVE Before(t[j].largest, q[k].smallest)
        OBVIOUS
      <4>1. t[j] \in X
        BY <3>1
      <4>2. PICK i \in 1 .. k - 1 : q[i] = t[j]
        BY <1>4, <2>1, <4>1
      <4>3. i \in 1 .. n /\ i < k
        BY <1>1
      <4> QED  BY <4>2, <4>3 DEF Following, n
    <3> HIDE DEF t
    <3>3. /\ Len(h[k]) = Len(t) + 1 /\ Len(t) \in Nat
          /\ \A j \in 1 .. Len(t) : h[k][j] = t[j]
          /\ h[k][Len(t) + 1] = q[k]
      BY <1>1, <3>1, AppendProperties
    <3>4. \A i, j \in 1 .. Len(t) : i < j => Before(t[i].largest, t[j].smallest)
      BY <2>1 DEF Following, t
    <3>5. Following(h[k])
      <4> SUFFICES ASSUME NEW i \in 1 .. Len(t) + 1, NEW j \in 1 .. Len(t) + 1, i < j
                   PROVE  Before(h[k][i].largest, h[k][j].smallest)
        BY <3>3 DEF Following
      <4>1. i \in 1 .. Len(t) /\ h[k][i] = t[i]
        BY <3>3
      <4>2. CASE j = Len(t) + 1
        BY <3>2, <3>3, <4>1, <4>2
      <4>3. CASE j \in 1 .. Len(t)
        BY <3>3, <3>4, <4>1, <4>3
      <4> QED  BY <3>3, <4>2, <4>3
    <3> QED  BY <2>1, <3>5
  <2> QED  BY <2>2, <2>3
<1>7. \A k \in 0 .. n : k \in Good
  <2> HIDE DEF Good
  <2> QED  BY <1>1, <1>5, <1>6, UptoInduction
<1>8. Following(h[n])
  BY <1>1, <1>7
<1> QED  BY <1>2, <1>8

\* The first files of those that overlap a range leave no gap either.
LEMMA FirstGapless ==
  ASSUME NEW F, EndedFiles(F), NEW q \in Seq(F), Following(q), Gapless(F, Range(q)),
         NEW k \in 1 .. Len(q)
  PROVE  Gapless(F, Range(SubSeq(q, 1, k)))
<1> DEFINE p == SubSeq(q, 1, k)
<1>1. IsSeq(q) /\ Range(q) \subseteq F
  BY SeqOver
<1>2. k \in 0 .. Len(q) /\ Len(q) \in Nat
  OBVIOUS
<1>3. IsSeq(p) /\ Len(p) = k /\ \A i \in 1 .. k : p[i] = q[i]
  BY <1>1, <1>2, Prefix
<1> HIDE DEF p
<1>4. Range(p) = {q[i] : i \in 1 .. k}
  BY <1>3 DEF IsSeq, Range
<1>5. Range(q) = {q[i] : i \in 1 .. Len(q)}
  BY <1>1 DEF IsSeq, Range
<1>6. ASSUME NEW i \in 1 .. k, NEW j \in 1 .. k, NEW g \in F,
             Before(q[i].largest, g.smallest), Before(g.largest, q[j].smallest)
      PROVE  g \in Range(p)
  <2>1. i \in 1 .. Len(q) /\ j \in 1 .. Len(q)
    BY <1>2
  <2>2. q[i] \in Range(q) /\ q[j] \in Range(q)
    BY <1>5, <2>1
  <2>3. g \in Range(q)
    BY <1>6, <2>2 DEF Gapless
  <2>4. PICK m \in 1 .. Len(q) : g = q[m]
    BY <1>5, <2>3
  <2>5. Ended(g) /\ Ended(q[j])
    BY <1>1, <2>2 DEF EndedFiles
  <2>6. m # j
    <3>1. Before(g.largest, g.smallest) => FALSE
      BY <2>5 DEF Ended
    <3> QED  BY <1>6, <2>4, <3>1
  <2>7. ~(j < m)
    <3> SUFFICES ASSUME j < m PROVE FALSE
      OBVIOUS
    <3>1. Before(q[j].largest, g.smallest)
      BY <2>1, <2>4 DEF Following
    <3>2. Before(q[j].largest, g.largest)
      BY <2>5, <3>1, KeyOrder DEF Ended
    <3>3. Before(q[j].largest, q[j].smallest)
      BY <1>6, <2>5, <3>2, BeforeIsOrder DEF Ended
    <3> QED  BY <2>5, <3>3 DEF Ended
  <2>8. m \in 1 .. k
    BY <1>2, <2>6, <2>7
  <2> QED  BY <1>4, <2>4, <2>8
<1>7. Gapless(F, Range(p))
  BY <1>4, <1>6 DEF Gapless
<1> QED  BY <1>7 DEF p

\* Files left are newer, entry by entry.
LEMMA LeftNewer ==
  ASSUME NEW tb, IsTables(tb), NEW n \in Nat, NEW v, GoodVersion(v, tb, n),
         OneEach(VersionEntries(tb, v)),
         NEW c, Inputs(v, c), FilesLeft(Range(v[c.level]), Range(c.in0))
  PROVE  LeavesNewer(tb, v, c)
<1>1. c.level \in Levels /\ Range(c.in0) \subseteq Range(v[c.level])
  BY LevelsAre, SeqOver DEF Inputs
<1> SUFFICES ASSUME NEW f \in Range(c.in0), NEW g \in Range(v[c.level]) \ Range(c.in0),
                    NEW x \in tb[f.number], NEW y \in tb[g.number], UserKey(x) = UserKey(y)
             PROVE  Sequence(y) > Sequence(x)
  BY DEF LeavesNewer
<1>2. GoodFile(f, tb, n) /\ GoodFile(g, tb, n)
  BY <1>1 DEF GoodVersion, GoodFiles
<1>3. /\ Ended(f) /\ x \in IKey /\ ~Before(x, f.smallest) /\ ~Before(f.largest, x)
      /\ Ended(g) /\ y \in IKey /\ ~Before(y, g.smallest) /\ ~Before(g.largest, y)
  BY <1>2, GoodEnds
<1>4. ~(UserKey(f.largest) < UserKey(g.smallest))
  <2>1. UserKey(x) <= UserKey(f.largest) /\ UserKey(g.smallest) <= UserKey(y)
    BY <1>3, KeyOrder DEF Ended
  <2>2. /\ UserKey(x) \in Nat /\ UserKey(f.largest) \in Nat /\ UserKey(g.smallest) \in Nat
        /\ UserKey(y) \in Nat
    BY <1>3, IKeyParts DEF Ended
  <2> QED  BY <2>1, <2>2
<1>5. Before(g.largest, f.smallest)
  BY <1>4 DEF FilesLeft
<1>6. Before(y, f.smallest)
  BY <1>3, <1>5, KeyOrder DEF Ended
<1>7. Before(y, x)
  BY <1>3, <1>6, KeyOrder DEF Ended
<1>8. x \in VersionEntries(tb, v) /\ y \in VersionEntries(tb, v)
  BY <1>1 DEF VersionEntries, LevelEntries
<1>9. Sequence(x) # Sequence(y)
  <2> SUFFICES ASSUME Sequence(x) = Sequence(y) PROVE FALSE
    OBVIOUS
  <2>1. x = y
    BY <1>8 DEF OneEach
  <2> QED  BY <1>3, <1>7, <2>1, BeforeIsOrder
<1> QED  BY <1>3, <1>7, <1>9, IKeyParts DEF Before

\* Inputs that are whole stay so in what SetupOtherInputs makes of them.
LEMMA SetupLeaves ==
  ASSUME NEW tb, IsTables(tb), NEW n \in Nat, NEW v, GoodVersion(v, tb, n), Disjoint(v),
         NEW level \in 0 .. NumLevels - 2, NEW inputs \in Seq(Range(v[level])), inputs # <<>>,
         Whole(Range(v[level]), level, Range(inputs)),
         NEW c, c = SetupOtherInputs(v, level, inputs)
  PROVE  c.level = level /\ FilesLeft(Range(v[level]), Range(c.in0))
<1> DEFINE F == Range(v[level])
           in0 == AddBoundaryInputs(v[level], inputs)
           in1 == Over(v, level + 1, GetRange(Range(in0)))
           all == GetRange(Range(in0) \cup Range(in1))
           over == Over(v, level, all)
           wide0 == AddBoundaryInputs(v[level], over)
           wide1 == Over(v, level + 1, GetRange(Range(wide0)))
           use == Widened(v, level, in0, in1, wide0)
<1>1. level \in Levels /\ level + 1 \in Levels /\ level \in Nat
  BY LevelsAre
<1>2. /\ IsSeq(v[level]) /\ IsSeq(v[level + 1]) /\ EndedFiles(F)
      /\ GoodFiles(F, tb, n) /\ GoodFiles(Range(v[level + 1]), tb, n)
  BY <1>1, GoodVersionFiles, GoodEnded DEF GoodVersion
<1>3. None \notin F
  BY <1>2, FileIsSome
<1>4. level # 0 => DisjointLevel(F) /\ Following(v[level])
  <2> SUFFICES ASSUME level # 0 PROVE DisjointLevel(F) /\ Following(v[level])
    OBVIOUS
  <2>1. DisjointLevel(F)
    BY <1>1 DEF Disjoint
  <2>2. v[level] = InOrder(F, BySmallestKey)
    BY <1>1 DEF GoodVersion
  <2> QED  BY <1>2, <2>1, <2>2, FilesFollow
<1>5. c = Compaction(v, level, use[1], use[2])
  BY Zenon DEF SetupOtherInputs
<1>6. c.level = level /\ c.in0 = use[1]
  BY <1>5 DEF Compaction
<1>7. \/ use = <<in0, in1>>
      \/ Len(wide0) > Len(in0) /\ use = <<wide0, wide1>>
  BY Zenon DEF Widened
<1>8. FilesLeft(F, Range(in0)) /\ in0 \in Seq(F) /\ in0 # <<>>
  BY <1>1, <1>2, <1>3, <1>4, BoundaryLeaves, BoundaryKeepsSide
<1> HIDE DEF in0, wide0, over, use, F
<1>9. CASE use = <<in0, in1>>
  BY <1>6, <1>8, <1>9 DEF F
<1>10. CASE Len(wide0) > Len(in0) /\ use = <<wide0, wide1>>
  <2>1. Range(in0) \subseteq F /\ Range(in0) # {}
    BY <1>8, SeqOver, SeqNotEmpty
  <2>2. in1 \in Seq(Range(v[level + 1]))
    BY <1>2, OverlappingInside DEF Over
  <2> HIDE DEF in1
  <2>3. Range(in1) \subseteq Range(v[level + 1])
    BY <2>2, SeqOver
  <2> DEFINE S == Range(in0) \cup Range(in1)
  <2>4. EndedFiles(S) /\ S # {}
    <3>1. GoodFiles(S, tb, n)
      BY <1>2, <2>1, <2>3 DEF GoodFiles
    <3>2. S # {}
      BY <2>1
    <3> HIDE DEF S
    <3> QED  BY <3>1, <3>2, GoodEnded
  <2>5. Ended(all)
    <3> HIDE DEF S
    <3>1. Ended(GetRange(S))
      BY <2>4, RangeOfFiles
    <3> QED  BY <3>1 DEF S
  <2> HIDE DEF all
  <2>6. UserKey(all.smallest) \in Nat /\ UserKey(all.largest) \in Nat
    BY <2>5, EndsOf
  <2>7. Whole(F, level, Range(over)) /\ over \in Seq(F)
    BY <1>1, <1>2, <2>6, OverlapWhole, OverlappingInside DEF Over, over, F
  <2>8. over # <<>>
    <3> SUFFICES ASSUME over = <<>> PROVE FALSE
      OBVIOUS
    <3>1. wide0 = <<>>
      BY DEF AddBoundaryInputs, wide0
    <3>2. Len(wide0) = 0 /\ Len(in0) \in Nat
      BY <1>8, <3>1
    <3> QED  BY <1>10, <3>2
  <2>9. FilesLeft(F, Range(wide0))
    BY <1>1, <1>2, <1>3, <1>4, <2>7, <2>8, BoundaryLeaves DEF wide0, F
  <2> QED  BY <1>6, <1>10, <2>9 DEF F
<1> QED  BY <1>7, <1>9, <1>10

\* What PickCompaction takes leaves nothing older.
LEMMA PickedLeaves ==
  ASSUME NEW tb, IsTables(tb), NEW n \in Nat, NEW v, GoodVersion(v, tb, n), Disjoint(v),
         NEW pointers, NEW sk,
         SizeCompaction(v) \/ (sk.level \in 0 .. NumLevels - 2 /\ sk.file \in Range(v[sk.level])),
         NEW c, c = PickCompaction(v, pointers, sk)
  PROVE  FilesLeft(Range(v[c.level]), Range(c.in0))
<1>1. PICK level \in 0 .. NumLevels - 2 : \E first \in Range(v[level]) :
        c = SetupOtherInputs(v, level, PickedFiles(v, level, first))
  BY PickedFrom
<1>2. PICK first \in Range(v[level]) : c = SetupOtherInputs(v, level, PickedFiles(v, level, first))
  BY <1>1
<1> DEFINE F == Range(v[level])
           inputs == PickedFiles(v, level, first)
<1>3. level \in Levels
  BY LevelsAre
<1>4. IsSeq(v[level]) /\ EndedFiles(F) /\ first \in F
  BY <1>3, GoodVersionFiles, GoodEnded DEF GoodVersion
<1>5. EndedFiles({first}) /\ Ended(first)
  BY <1>4, FS_Subset DEF EndedFiles, FileSet
<1>6. inputs \in Seq(F) /\ inputs # <<>> /\ Whole(F, level, Range(inputs))
  <2>1. CASE level = 0
    <3> DEFINE r == GetRange({first})
               over == Over(v, level, r)
    <3>1. inputs = over
      BY <2>1 DEF PickedFiles
    <3>2. r.smallest = first.smallest /\ r.largest = first.largest
      BY <1>5, RangeOfFiles
    <3> HIDE DEF r
    <3>3. UserKey(r.smallest) \in Nat /\ UserKey(r.largest) \in Nat
      BY <1>5, <3>2, EndsOf
    <3>4. over \in Seq(F) /\ Whole(F, level, Range(over))
      BY <1>3, <1>4, <3>3, OverlapWhole, OverlappingInside DEF Over
    <3>5. ~Apart(first, UserKey(r.smallest), UserKey(r.largest))
      <4>1. /\ UserKey(first.smallest) \in Nat /\ UserKey(first.largest) \in Nat
            /\ UserKey(first.smallest) <= UserKey(first.largest)
        BY <1>5, EndsOf
      <4> QED  BY <3>2, <4>1 DEF Apart
    <3>6. first \in Range(over)
      BY <1>4, <1>5, <3>5, OverlapKeepsSide DEF r
    <3> HIDE DEF over
    <3>7. over # <<>>
      BY <3>4, <3>6, SeqNotEmpty
    <3> QED  BY <3>1, <3>4, <3>7
  <2>2. CASE level # 0
    <3>1. inputs = <<first>>
      BY <2>2 DEF PickedFiles
    <3>2. Range(<<first>>) = {first}
      BY DEF Range
    <3>3. Gapless(F, {first})
      BY <1>4, SingleGapless
    <3> HIDE DEF inputs
    <3> QED  BY <1>4, <2>2, <3>1, <3>2, <3>3 DEF Whole
  <2> QED  BY <2>1, <2>2
<1> HIDE DEF inputs
<1> QED  BY <1>2, <1>6, SetupLeaves DEF inputs, F

\* Nor does a compaction of a range.
LEMMA RangeLeaves ==
  ASSUME NEW tb, IsTables(tb), NEW n \in Nat, NEW v, GoodVersion(v, tb, n), Disjoint(v),
         NEW level \in 0 .. NumLevels - 2, NEW begin \in Nat, NEW end \in Nat,
         NEW c, c = CompactRange(v, level, begin, end), c # None
  PROVE  FilesLeft(Range(v[c.level]), Range(c.in0))
<1> DEFINE files == GetOverlappingInputs(v, level, begin, end)
           large == {i \in DOMAIN files : TotalFileSize(SubSeq(files, 1, i)) >= MaxFileSize}
           inputs == IF level = 0 \/ large = {} THEN files
                     ELSE SubSeq(files, 1, Min(large))
           F == Range(v[level])
<1>1. level \in Levels /\ IsSeq(v[level]) /\ EndedFiles(F)
  BY LevelsAre, GoodVersionFiles, GoodEnded DEF GoodVersion
<1>2. files \in Seq(F) /\ Whole(F, level, Range(files))
  BY <1>1, OverlappingInside, OverlapWhole
<1>3. c = SetupOtherInputs(v, level, inputs) /\ files # <<>>
  BY Zenon DEF CompactRange
<1>4. level # 0 => Following(files)
  <2> SUFFICES ASSUME level # 0 PROVE Following(files)
    OBVIOUS
  <2>1. DisjointLevel(F)
    BY <1>1 DEF Disjoint
  <2>2. v[level] = InOrder(F, BySmallestKey)
    BY <1>1 DEF GoodVersion
  <2>3. Following(v[level])
    BY <1>1, <2>1, <2>2, FilesFollow
  <2> DEFINE r == <<begin, end>>
             S == {f \in Range(v[level]) : Overlaps(f, r[1], r[2])}
  <2>4. files = Hit(v[level], r)
    BY Zenon DEF GetOverlappingInputs, Hit
  <2>5. files = Only(v[level], S)
    BY <2>4 DEF Hit
  <2> HIDE DEF S, files
  <2> QED  BY <1>1, <2>3, <2>5, OnlyFollows
<1> HIDE DEF files, F
<1>5. inputs \in Seq(F) /\ inputs # <<>> /\ Whole(F, level, Range(inputs))
  <2>1. CASE level = 0 \/ large = {}
    BY <1>2, <1>3, <2>1
  <2>2. CASE ~(level = 0 \/ large = {})
    <3>1. large \subseteq 1 .. Len(files) /\ large \subseteq Nat /\ Len(files) \in Nat
      BY <1>2
    <3> HIDE DEF large
    <3>2. Min(large) \in large
      BY <2>2, <3>1, MinOfSome
    <3> DEFINE m == Min(large)
               q == SubSeq(files, 1, m)
    <3>3. m \in 1 .. Len(files)
      BY <3>1, <3>2
    <3> HIDE DEF m
    <3>4. q \in Seq(F) /\ Len(q) = m
      BY <1>2, <3>1, <3>3, SubSeqProperties
    <3>5. q # <<>>
      BY <3>3, <3>4
    <3>6. inputs = q
      BY <2>2 DEF m
    <3>7. Gapless(F, Range(q))
      BY <1>1, <1>2, <1>4, <2>2, <3>3, FirstGapless DEF Whole, F
    <3> HIDE DEF q, inputs
    <3> QED  BY <2>2, <3>4, <3>5, <3>6, <3>7 DEF Whole
  <2> QED  BY <2>1, <2>2
<1> HIDE DEF inputs
<1> QED  BY <1>3, <1>5, SetupLeaves DEF F

===============================================================================
