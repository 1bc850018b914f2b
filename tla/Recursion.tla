------------------------------ MODULE Recursion -------------------------------
(***************************************************************************)
(* What recursive functions compute: sums over finite sets, functions on   *)
(* 0 .. n, the operators Only and InOrder of Orders.                       *)
(***************************************************************************)
EXTENDS Integers, FiniteSets, Functions, Orders, FiniteSetTheorems, SequenceTheorems,
        WellFoundedInduction, TLAPS

(******************************************************************************)
(* Induction, on sets rather than on predicates                               *)
(******************************************************************************)
LEMMA Smallest ==
  ASSUME NEW T, T \subseteq Nat, T # {}
  PROVE  \E n \in T : \A m \in T : n <= m
<1>1. PICK n \in T : \A m \in T : ~ (<<m, n>> \in OpToRel(<, Nat))
  BY NatLessThanWellFounded, WFMin
<1>2. \A m \in T : ~ (m < n)
  <2> TAKE m \in T
  <2>1. <<m, n>> \in Nat \X Nat /\ <<m, n>>[1] = m /\ <<m, n>>[2] = n
    OBVIOUS
  <2> QED  BY <1>1, <2>1 DEF OpToRel
<1> QED  BY <1>2

LEMMA NatSetInduction ==
  ASSUME NEW T, 0 \in T, \A n \in Nat : n \in T => n + 1 \in T
  PROVE  Nat \subseteq T
<1> SUFFICES ASSUME Nat \ T # {} PROVE FALSE
  OBVIOUS
<1>1. PICK n \in Nat \ T : \A m \in Nat \ T : n <= m
  BY Smallest
<1>2. n - 1 \in Nat /\ n - 1 \in T
  BY <1>1
<1> QED  BY <1>1, <1>2

\* Every subset is good when a set is as soon as all those with one element
\* less are.
LEMMA SubsetInduction ==
  ASSUME NEW S, IsFiniteSet(S), NEW Good,
         \A s \in SUBSET S : (\A x \in s : s \ {x} \in Good) => s \in Good
  PROVE  SUBSET S \subseteq Good
<1> DEFINE T == {n \in Nat : \A s \in SUBSET S : Cardinality(s) = n => s \in Good}
<1>1. \A s \in SUBSET S : IsFiniteSet(s) /\ Cardinality(s) \in Nat
  BY FS_Subset, FS_CardinalityType
<1>2. 0 \in T
  BY <1>1, FS_EmptySet
<1>3. ASSUME NEW n \in Nat, n \in T PROVE n + 1 \in T
  <2> SUFFICES ASSUME NEW s \in SUBSET S, Cardinality(s) = n + 1 PROVE s \in Good
    OBVIOUS
  <2>1. \A x \in s : Cardinality(s \ {x}) = n
    BY <1>1, FS_RemoveElement
  <2> QED  BY <1>3, <2>1
<1>4. Nat \subseteq T
  <2> HIDE DEF T
  <2> QED  BY <1>2, <1>3, NatSetInduction
<1> QED  BY <1>1, <1>4

(******************************************************************************)
(* The recursive function behind a sum                                        *)
(******************************************************************************)
Step(v, f, s) ==
  IF s = {} THEN 0 ELSE v[CHOOSE x \in s : TRUE] + f[s \ {CHOOSE x \in s : TRUE}]
Sums(v, f, S) == f = [s \in SUBSET S |-> Step(v, f, s)]

Upto(S, n) == {s \in SUBSET S : Cardinality(s) <= n}
SumsUpto(v, f, S, n) == f = [s \in Upto(S, n) |-> Step(v, f, s)]

LEMMA SumExists ==
  ASSUME NEW S, IsFiniteSet(S), NEW v
  PROVE  \E f : Sums(v, f, S)
<1> DEFINE T == {n \in Nat : \E f : SumsUpto(v, f, S, n)}
<1>1. \A s \in SUBSET S : IsFiniteSet(s) /\ Cardinality(s) \in Nat
  BY FS_Subset, FS_CardinalityType
<1>2. 0 \in T
  <2> DEFINE f == [s \in Upto(S, 0) |-> 0]
  <2>1. \A s \in Upto(S, 0) : s = {}
    BY <1>1, FS_EmptySet DEF Upto
  <2>2. f = [s \in Upto(S, 0) |-> Step(v, f, s)]
    BY <2>1 DEF Step
  <2>3. SumsUpto(v, f, S, 0)
    BY <2>2 DEF SumsUpto
  <2> HIDE DEF f
  <2> QED  BY <2>3
<1>3. ASSUME NEW n \in Nat, n \in T PROVE n + 1 \in T
  <2>1. PICK f : SumsUpto(v, f, S, n)
    BY <1>3
  <2> DEFINE g == [s \in Upto(S, n + 1) |-> Step(v, f, s)]
  <2>2. ASSUME NEW s \in Upto(S, n + 1), s # {}
        PROVE  s \ {CHOOSE x \in s : TRUE} \in Upto(S, n)
    <3> DEFINE x == CHOOSE x \in s : TRUE
    <3>1. x \in s
      BY <2>2
    <3> HIDE DEF x
    <3>2. s \in SUBSET S /\ Cardinality(s) <= n + 1
      BY DEF Upto
    <3>3. Cardinality(s \ {x}) <= n
      BY <1>1, <3>1, <3>2, FS_RemoveElement
    <3>4. s \ {x} \in Upto(S, n)
      BY <3>2, <3>3 DEF Upto
    <3> QED  BY <3>4 DEF x
  <2>3. ASSUME NEW s \in Upto(S, n) PROVE g[s] = f[s]
    <3>1. s \in Upto(S, n + 1)
      BY <1>1 DEF Upto
    <3> QED  BY <2>1, <3>1 DEF SumsUpto
  <2>4. ASSUME NEW s \in Upto(S, n + 1) PROVE Step(v, f, s) = Step(v, g, s)
    <3> HIDE DEF g
    <3> QED  BY <2>2, <2>3 DEF Step
  <2>5. SumsUpto(v, g, S, n + 1)
    BY <2>4 DEF SumsUpto
  <2> HIDE DEF g
  <2> QED  BY <2>5
<1>4. Nat \subseteq T
  <2> HIDE DEF T
  <2> QED  BY <1>2, <1>3, NatSetInduction
<1>5. Upto(S, Cardinality(S)) = SUBSET S
  BY <1>1, FS_Subset DEF Upto
<1> QED  BY <1>1, <1>4, <1>5, ZenonT(60) DEF Sums, SumsUpto

LEMMA SumUnique ==
  ASSUME NEW S, IsFiniteSet(S), NEW v, NEW f, NEW g, NEW R, R \subseteq S,
         Sums(v, f, S), Sums(v, g, R)
  PROVE  f[R] = g[R]
<1> DEFINE Good == {s \in SUBSET R : f[s] = g[s]}
<1>1. ASSUME NEW s \in SUBSET R, \A x \in s : s \ {x} \in Good
      PROVE  s \in Good
  <2>1. f[s] = Step(v, f, s) /\ g[s] = Step(v, g, s)
    BY DEF Sums
  <2> QED  BY <1>1, <2>1 DEF Step
<1>2. IsFiniteSet(R)
  BY FS_Subset
<1>3. SUBSET R \subseteq Good
  <2> HIDE DEF Good
  <2> QED  BY <1>1, <1>2, SubsetInduction
<1> QED  BY <1>3

LEMMA SumIs ==
  ASSUME NEW S, IsFiniteSet(S), NEW v
  PROVE  \E f : Sums(v, f, S) /\ SumFunctionOnSet(v, S) = f[S]
<1> DEFINE f == CHOOSE f : f = [s \in SUBSET S |-> Step(v, f, s)]
<1>1. f = [s \in SUBSET S |-> Step(v, f, s)]
  BY SumExists DEF Sums
<1>2. SumFunctionOnSet(v, S) = f[S]
  BY Zenon DEF SumFunctionOnSet, FoldFunctionOnSet, MapThenFoldSet, Step
<1> QED  BY <1>1, <1>2 DEF Sums

(******************************************************************************)
(* Sums over a set and over one with an element less                          *)
(******************************************************************************)
LEMMA SumEmpty ==
  ASSUME NEW v
  PROVE  SumFunctionOnSet(v, {}) = 0
<1>1. PICK f : Sums(v, f, {}) /\ SumFunctionOnSet(v, {}) = f[{}]
  BY FS_EmptySet, SumIs
<1> QED  BY <1>1 DEF Sums, Step

LEMMA SumChoice ==
  ASSUME NEW S, IsFiniteSet(S), S # {}, NEW v
  PROVE  \E x \in S : SumFunctionOnSet(v, S) = v[x] + SumFunctionOnSet(v, S \ {x})
<1> DEFINE x == CHOOSE x \in S : TRUE
<1>1. x \in S
  OBVIOUS
<1>2. PICK f : Sums(v, f, S) /\ SumFunctionOnSet(v, S) = f[S]
  BY SumIs
<1>3. f[S] = v[x] + f[S \ {x}]
  BY <1>2 DEF Sums, Step
<1> HIDE DEF x
<1>4. IsFiniteSet(S \ {x})
  BY FS_RemoveElement
<1>5. PICK g : Sums(v, g, S \ {x}) /\ SumFunctionOnSet(v, S \ {x}) = g[S \ {x}]
  BY <1>4, SumIs
<1>6. f[S \ {x}] = g[S \ {x}]
  BY <1>2, <1>5, SumUnique
<1> QED  BY <1>1, <1>2, <1>3, <1>5, <1>6

\* A sum of integers is an integer, one of naturals a natural.
LEMMA SumType ==
  ASSUME NEW S, IsFiniteSet(S), NEW v, \A x \in S : v[x] \in Int
  PROVE  /\ SumFunctionOnSet(v, S) \in Int
         /\ (\A x \in S : v[x] \in Nat) => SumFunctionOnSet(v, S) \in Nat
<1> DEFINE Good == {s \in SUBSET S :
              /\ SumFunctionOnSet(v, s) \in Int
              /\ (\A x \in S : v[x] \in Nat) => SumFunctionOnSet(v, s) \in Nat}
<1>1. ASSUME NEW s \in SUBSET S, \A x \in s : s \ {x} \in Good PROVE s \in Good
  <2>1. CASE s = {}
    BY <2>1, SumEmpty
  <2>2. CASE s # {}
    <3>1. IsFiniteSet(s)
      BY FS_Subset
    <3>2. PICK x \in s : SumFunctionOnSet(v, s) = v[x] + SumFunctionOnSet(v, s \ {x})
      BY <2>2, <3>1, SumChoice
    <3>3. s \ {x} \in Good
      BY <1>1
    <3> QED  BY <3>2, <3>3
  <2> QED  BY <2>1, <2>2
<1>2. SUBSET S \subseteq Good
  <2> HIDE DEF Good
  <2> QED  BY <1>1, SubsetInduction
<1> QED  BY <1>2

\* Any element may be taken first.
LEMMA SumRemove ==
  ASSUME NEW S, IsFiniteSet(S), NEW v, \A x \in S : v[x] \in Int, NEW a \in S
  PROVE  SumFunctionOnSet(v, S) = v[a] + SumFunctionOnSet(v, S \ {a})
<1> DEFINE Good == {s \in SUBSET S :
              \A x \in s : SumFunctionOnSet(v, s) = v[x] + SumFunctionOnSet(v, s \ {x})}
<1>1. ASSUME NEW s \in SUBSET S, \A x \in s : s \ {x} \in Good PROVE s \in Good
  <2> SUFFICES ASSUME NEW x \in s
               PROVE  SumFunctionOnSet(v, s) = v[x] + SumFunctionOnSet(v, s \ {x})
    OBVIOUS
  <2>1. IsFiniteSet(s)
    BY FS_Subset
  <2>2. PICK c \in s : SumFunctionOnSet(v, s) = v[c] + SumFunctionOnSet(v, s \ {c})
    BY <2>1, SumChoice
  <2>3. CASE x = c
    BY <2>2, <2>3
  <2>4. CASE x # c
    <3>1. SumFunctionOnSet(v, s \ {c}) = v[x] + SumFunctionOnSet(v, (s \ {c}) \ {x})
      BY <1>1, <2>4
    <3>2. SumFunctionOnSet(v, s \ {x}) = v[c] + SumFunctionOnSet(v, (s \ {x}) \ {c})
      BY <1>1, <2>4
    <3>3. (s \ {c}) \ {x} = (s \ {x}) \ {c}
      OBVIOUS
    <3> DEFINE rest == SumFunctionOnSet(v, (s \ {x}) \ {c})
    <3>4. rest \in Int
      BY <2>1, FS_Subset, SumType
    <3>5. v[x] \in Int /\ v[c] \in Int
      OBVIOUS
    <3> HIDE DEF rest
    <3>6. SumFunctionOnSet(v, s) = v[c] + (v[x] + rest)
      BY <2>2, <3>1, <3>3 DEF rest
    <3>7. SumFunctionOnSet(v, s \ {x}) = v[c] + rest
      BY <3>2 DEF rest
    <3>8. SumFunctionOnSet(v, s) = v[x] + (v[c] + rest)
      BY <3>4, <3>5, <3>6
    <3> QED  BY <3>7, <3>8
  <2> QED  BY <2>3, <2>4
<1>2. SUBSET S \subseteq Good
  <2> HIDE DEF Good
  <2> QED  BY <1>1, SubsetInduction
<1> QED  BY <1>2

(******************************************************************************)
(* Two sums                                                                   *)
(******************************************************************************)
\* Sums of functions that agree, or lie below one another, on the set.
LEMMA SumCompare ==
  ASSUME NEW S, IsFiniteSet(S), NEW u, NEW v,
         \A x \in S : u[x] \in Int /\ v[x] \in Int /\ u[x] <= v[x]
  PROVE  SumFunctionOnSet(u, S) <= SumFunctionOnSet(v, S)
<1> DEFINE Good == {s \in SUBSET S : SumFunctionOnSet(u, s) <= SumFunctionOnSet(v, s)}
<1>1. ASSUME NEW s \in SUBSET S, \A x \in s : s \ {x} \in Good PROVE s \in Good
  <2>1. CASE s = {}
    BY <2>1, SumEmpty
  <2>2. CASE s # {}
    <3>1. IsFiniteSet(s)
      BY FS_Subset
    <3>2. PICK x \in s : SumFunctionOnSet(u, s) = u[x] + SumFunctionOnSet(u, s \ {x})
      BY <2>2, <3>1, SumChoice
    <3>3. SumFunctionOnSet(v, s) = v[x] + SumFunctionOnSet(v, s \ {x})
      BY <3>1, SumRemove
    <3>4. SumFunctionOnSet(u, s \ {x}) <= SumFunctionOnSet(v, s \ {x})
      BY <1>1
    <3>5. SumFunctionOnSet(u, s \ {x}) \in Int /\ SumFunctionOnSet(v, s \ {x}) \in Int
      BY <3>1, FS_Subset, SumType
    <3>6. u[x] <= v[x] /\ u[x] \in Int /\ v[x] \in Int
      OBVIOUS
    <3> QED  BY <3>2, <3>3, <3>4, <3>5, <3>6
  <2> QED  BY <2>1, <2>2
<1>2. SUBSET S \subseteq Good
  <2> HIDE DEF Good
  <2> QED  BY <1>1, SubsetInduction
<1> QED  BY <1>2

LEMMA SumSame ==
  ASSUME NEW S, IsFiniteSet(S), NEW u, NEW v, \A x \in S : u[x] \in Int /\ u[x] = v[x]
  PROVE  SumFunctionOnSet(u, S) = SumFunctionOnSet(v, S)
<1>1. SumFunctionOnSet(u, S) <= SumFunctionOnSet(v, S)
  BY SumCompare
<1>2. SumFunctionOnSet(v, S) <= SumFunctionOnSet(u, S)
  BY SumCompare
<1>3. SumFunctionOnSet(u, S) \in Int /\ SumFunctionOnSet(v, S) \in Int
  BY SumType
<1> QED  BY <1>1, <1>2, <1>3

\* One value changes.
LEMMA SumUpdate ==
  ASSUME NEW S, IsFiniteSet(S), NEW u, NEW v, NEW a \in S,
         \A x \in S : u[x] \in Int /\ v[x] \in Int /\ (x # a => u[x] = v[x])
  PROVE  SumFunctionOnSet(v, S) = SumFunctionOnSet(u, S) + (v[a] - u[a])
<1>1. IsFiniteSet(S \ {a})
  BY FS_RemoveElement
<1>2. SumFunctionOnSet(u, S \ {a}) = SumFunctionOnSet(v, S \ {a})
  BY <1>1, SumSame
<1>3. SumFunctionOnSet(u, S) = u[a] + SumFunctionOnSet(u, S \ {a})
  BY SumRemove
<1>4. SumFunctionOnSet(v, S) = v[a] + SumFunctionOnSet(v, S \ {a})
  BY SumRemove
<1>5. SumFunctionOnSet(u, S \ {a}) \in Int
  BY <1>1, SumType
<1> QED  BY <1>2, <1>3, <1>4, <1>5

\* The values are listed in another way, by f.
LEMMA SumRelabel ==
  ASSUME NEW S, IsFiniteSet(S), NEW T, NEW u, NEW v, NEW f,
         \A x \in S : f[x] \in T /\ u[x] \in Int /\ v[f[x]] = u[x],
         \A x, y \in S : f[x] = f[y] => x = y,
         \A y \in T : \E x \in S : f[x] = y
  PROVE  SumFunctionOnSet(v, T) = SumFunctionOnSet(u, S)
<1> DEFINE Image(s) == {f[x] : x \in s}
           Good == {s \in SUBSET S :
              IsFiniteSet(Image(s)) /\ SumFunctionOnSet(v, Image(s)) = SumFunctionOnSet(u, s)}
<1>1. ASSUME NEW s \in SUBSET S, \A x \in s : s \ {x} \in Good PROVE s \in Good
  <2>1. CASE s = {}
    <3>1. Image(s) = {}
      BY <2>1
    <3> QED  BY <2>1, <3>1, SumEmpty, FS_EmptySet
  <2>2. CASE s # {}
    <3>1. IsFiniteSet(s)
      BY FS_Subset
    <3>2. PICK a \in s : SumFunctionOnSet(u, s) = u[a] + SumFunctionOnSet(u, s \ {a})
      BY <2>2, <3>1, SumChoice
    <3>3. Image(s \ {a}) = Image(s) \ {f[a]} /\ f[a] \in Image(s)
      OBVIOUS
    <3>4. IsFiniteSet(Image(s) \ {f[a]})
      <4>1. IsFiniteSet(Image(s \ {a}))
        BY <1>1
      <4> QED  BY <3>3, <4>1
    <3>5. Image(s) = (Image(s) \ {f[a]}) \cup {f[a]}
      BY <3>3
    <3>6. IsFiniteSet(Image(s))
      <4> HIDE DEF Image
      <4> QED  BY <3>4, <3>5, FS_AddElement, SMTT(30)
    <3>7. \A y \in Image(s) : v[y] \in Int
      OBVIOUS
    <3>8. SumFunctionOnSet(v, Image(s)) = v[f[a]] + SumFunctionOnSet(v, Image(s) \ {f[a]})
      <4> HIDE DEF Image
      <4> QED  BY <3>3, <3>6, <3>7, SumRemove
    <3>9. SumFunctionOnSet(v, Image(s) \ {f[a]}) = SumFunctionOnSet(u, s \ {a})
      BY <1>1, <3>3
    <3>10. v[f[a]] = u[a]
      OBVIOUS
    <3> QED  BY <3>2, <3>6, <3>8, <3>9, <3>10
  <2> QED  BY <2>1, <2>2
<1>2. SUBSET S \subseteq Good
  <2> HIDE DEF Good
  <2> QED  BY <1>1, SubsetInduction
<1>3. Image(S) = T
  OBVIOUS
<1>4. S \in Good
  BY <1>2
<1> QED  BY <1>3, <1>4

\* A set in two parts.
LEMMA SumUnion ==
  ASSUME NEW S, IsFiniteSet(S), NEW T, IsFiniteSet(T), S \cap T = {}, NEW v,
         \A x \in S \cup T : v[x] \in Int
  PROVE  SumFunctionOnSet(v, S \cup T) = SumFunctionOnSet(v, S) + SumFunctionOnSet(v, T)
<1> DEFINE Good == {t \in SUBSET T :
      SumFunctionOnSet(v, S \cup t) = SumFunctionOnSet(v, S) + SumFunctionOnSet(v, t)}
<1>1. ASSUME NEW t \in SUBSET T, \A x \in t : t \ {x} \in Good PROVE t \in Good
  <2>1. IsFiniteSet(t) /\ IsFiniteSet(S \cup t)
    BY FS_Subset, FS_Union
  <2>2. SumFunctionOnSet(v, S) \in Int
    BY SumType
  <2>3. CASE t = {}
    <3>1. S \cup t = S
      BY <2>3
    <3> QED  BY <2>2, <2>3, <3>1, SumEmpty
  <2>4. CASE t # {}
    <3>1. PICK x \in t : SumFunctionOnSet(v, t) = v[x] + SumFunctionOnSet(v, t \ {x})
      BY <2>1, <2>4, SumChoice
    <3>2. SumFunctionOnSet(v, S \cup t) = v[x] + SumFunctionOnSet(v, (S \cup t) \ {x})
      BY <2>1, SumRemove
    <3>3. (S \cup t) \ {x} = S \cup (t \ {x})
      OBVIOUS
    <3>4. SumFunctionOnSet(v, S \cup (t \ {x})) =
            SumFunctionOnSet(v, S) + SumFunctionOnSet(v, t \ {x})
      BY <1>1
    <3>5. SumFunctionOnSet(v, t \ {x}) \in Int
      BY <2>1, FS_Subset, SumType
    <3>6. v[x] \in Int
      OBVIOUS
    <3>7. SumFunctionOnSet(v, S \cup t) =
            v[x] + (SumFunctionOnSet(v, S) + SumFunctionOnSet(v, t \ {x}))
      BY <3>2, <3>3, <3>4
    <3> QED  BY <2>2, <3>1, <3>5, <3>6, <3>7
  <2> QED  BY <2>3, <2>4
<1>2. SUBSET T \subseteq Good
  <2> HIDE DEF Good
  <2> QED  BY <1>1, SubsetInduction
<1> QED  BY <1>2
LEMMA SumZero ==
  ASSUME NEW S, IsFiniteSet(S), NEW v, \A x \in S : v[x] = 0
  PROVE  SumFunctionOnSet(v, S) = 0
<1> DEFINE Good == {s \in SUBSET S : SumFunctionOnSet(v, s) = 0}
<1>1. ASSUME NEW s \in SUBSET S, \A x \in s : s \ {x} \in Good
      PROVE  s \in Good
  <2>1. CASE s = {}
    BY <2>1, SumEmpty
  <2>2. CASE s # {}
    <3>1. IsFiniteSet(s)
      BY FS_Subset
    <3>2. PICK x \in s : SumFunctionOnSet(v, s) = v[x] + SumFunctionOnSet(v, s \ {x})
      BY <2>2, <3>1, SumChoice
    <3>3. v[x] = 0 /\ SumFunctionOnSet(v, s \ {x}) = 0
      BY <1>1
    <3> QED  BY <3>2, <3>3
  <2> QED  BY <2>1, <2>2
<1> HIDE DEF Good
<1>2. SUBSET S \subseteq Good
  BY <1>1, SubsetInduction
<1> QED  BY <1>2 DEF Good

(******************************************************************************)
(* Recursive functions on 0 .. n                                              *)
(******************************************************************************)
Iterates(f, n, T, b, g) ==
  /\ f \in [0 .. n -> T]
  /\ f[0] = b
  /\ \A i \in 1 .. n : f[i] = g[<<i, f[i - 1]>>]

\* What each value of a recursive function on 0 .. n is made from exists.
LEMMA RecursiveFunction ==
  ASSUME NEW n \in Nat, NEW T, NEW b \in T, NEW g \in [(1 .. n) \X T -> T]
  PROVE  \E f : Iterates(f, n, T, b, g)
<1> DEFINE Computes(f, m) == f[0] = b /\ \A i \in 1 .. m : f[i] = g[<<i, f[i - 1]>>]
           Good == {m \in Nat : m <= n => \E f \in [0 .. m -> T] : Computes(f, m)}
<1>1. 0 \in Good
  <2>1. [i \in 0 .. 0 |-> b] \in [0 .. 0 -> T] /\ Computes([i \in 0 .. 0 |-> b], 0)
    OBVIOUS
  <2> QED  BY <2>1
<1>2. ASSUME NEW m \in Nat, m \in Good PROVE m + 1 \in Good
  <2> SUFFICES ASSUME m + 1 <= n PROVE \E f \in [0 .. m + 1 -> T] : Computes(f, m + 1)
    OBVIOUS
  <2>1. PICK f \in [0 .. m -> T] : Computes(f, m)
    BY <1>2
  <2> DEFINE h == [i \in 0 .. m + 1 |-> IF i <= m THEN f[i] ELSE g[<<m + 1, f[m]>>]]
  <2>2. g[<<m + 1, f[m]>>] \in T
    OBVIOUS
  <2>3. h \in [0 .. m + 1 -> T]
    BY <2>2
  <2>4. Computes(h, m + 1)
    <3>1. h[0] = b
      BY <2>1
    <3>2. ASSUME NEW i \in 1 .. m + 1 PROVE h[i] = g[<<i, h[i - 1]>>]
      <4>1. CASE i <= m
        <5>1. i \in 1 .. m /\ h[i] = f[i] /\ h[i - 1] = f[i - 1]
          BY <4>1
        <5> QED  BY <2>1, <5>1
      <4>2. CASE i = m + 1
        <5>1. h[i] = g[<<m + 1, f[m]>>] /\ h[i - 1] = f[m]
          BY <4>2
        <5> QED  BY <4>2, <5>1
      <4> QED  BY <4>1, <4>2
    <3> QED  BY <3>1, <3>2
  <2> QED  BY <2>3, <2>4
<1>3. n \in Good
  <2> HIDE DEF Good
  <2> QED  BY <1>1, <1>2, NatSetInduction
<1> QED  BY <1>3 DEF Iterates

\* What holds at 0, and at i when it holds at i - 1, holds from 0 to n.
LEMMA UptoInduction ==
  ASSUME NEW n \in Nat, NEW Good, 0 \in Good,
         \A i \in 1 .. n : i - 1 \in Good => i \in Good
  PROVE  \A i \in 0 .. n : i \in Good
<1> DEFINE T == {m \in Nat : m <= n => m \in Good}
<1>1. 0 \in T
  OBVIOUS
<1>2. ASSUME NEW m \in Nat, m \in T PROVE m + 1 \in T
  <2> SUFFICES ASSUME m + 1 <= n PROVE m + 1 \in Good
    OBVIOUS
  <2>1. m + 1 \in 1 .. n /\ (m + 1) - 1 = m /\ m \in Good
    BY <1>2
  <2> QED  BY <2>1
<1>3. Nat \subseteq T
  <2> HIDE DEF T
  <2> QED  BY <1>1, <1>2, NatSetInduction
<1> QED  BY <1>3

\* A function given by its steps stays in T when each step does.
LEMMA IteratesInside ==
  ASSUME NEW n \in Nat, NEW T, NEW b \in T, NEW g \in [(1 .. n) \X T -> T],
         NEW f, f = [i \in 0 .. n |-> f[i]], f[0] = b,
         \A i \in 1 .. n : f[i - 1] \in T => f[i] = g[<<i, f[i - 1]>>]
  PROVE  Iterates(f, n, T, b, g)
<1> DEFINE Good == {i \in 0 .. n : f[i] \in T}
<1>1. 0 \in Good
  OBVIOUS
<1>2. \A i \in 1 .. n : i - 1 \in Good => i \in Good
  <2> SUFFICES ASSUME NEW i \in 1 .. n, f[i - 1] \in T PROVE i \in Good
    OBVIOUS
  <2>1. f[i] = g[<<i, f[i - 1]>>] /\ <<i, f[i - 1]>> \in (1 .. n) \X T
    OBVIOUS
  <2> QED  BY <2>1
<1> HIDE DEF Good
<1>3. \A i \in 0 .. n : i \in Good
  BY <1>1, <1>2, UptoInduction
<1>4. \A i \in 0 .. n : f[i] \in T
  BY <1>3 DEF Good
<1>5. f \in [0 .. n -> T]
  BY <1>4
<1>6. \A i \in 1 .. n : f[i] = g[<<i, f[i - 1]>>]
  <2> SUFFICES ASSUME NEW i \in 1 .. n PROVE f[i] = g[<<i, f[i - 1]>>]
    OBVIOUS
  <2>1. i - 1 \in 0 .. n
    OBVIOUS
  <2> QED  BY <1>4, <2>1
<1> QED  BY <1>5, <1>6 DEF Iterates

(******************************************************************************)
(* What is selected from a sequence                                           *)
(******************************************************************************)
OnlyIs(f, s, S) ==
  /\ f = [i \in 0 .. Len(s) |->
           IF i = 0 THEN <<>>
           ELSE IF s[i] \in S THEN Append(f[i - 1], s[i]) ELSE f[i - 1]]

\* The function behind Only, step by step.
LEMMA OnlyUnfold ==
  ASSUME NEW s, Len(s) \in Nat, NEW S, NEW f, OnlyIs(f, s, S)
  PROVE  /\ f[0] = <<>>
         /\ \A k \in 1 .. Len(s) :
              f[k] = IF s[k] \in S THEN Append(f[k - 1], s[k]) ELSE f[k - 1]
<1> DEFINE Body(k) == IF k = 0 THEN <<>>
                      ELSE IF s[k] \in S THEN Append(f[k - 1], s[k]) ELSE f[k - 1]
<1>1. f = [k \in 0 .. Len(s) |-> Body(k)]
  BY DEF OnlyIs
<1>2. \A k \in 0 .. Len(s) : f[k] = Body(k)
  <2> HIDE DEF Body
  <2> QED  BY <1>1
<1>3. f[0] = Body(0) /\ \A k \in 1 .. Len(s) : k # 0 /\ f[k] = Body(k)
  <2> HIDE DEF Body
  <2> QED  BY <1>2
<1> QED  BY <1>3

\* There is such a function.
LEMMA OnlyExists ==
  ASSUME NEW X, NEW s \in Seq(X), NEW S
  PROVE  \E f : OnlyIs(f, s, S)
<1> DEFINE n == Len(s)
           T == Seq(X)
           b == <<>>
           g == [p \in (1 .. n) \X T |->
                   IF s[p[1]] \in S THEN Append(p[2], s[p[1]]) ELSE p[2]]
<1>1. n \in Nat /\ \A i \in 1 .. n : s[i] \in X
  OBVIOUS
<1>2. b \in T /\ \A t \in T, x \in X : Append(t, x) \in T
  BY AppendProperties
<1> HIDE DEF n, T, b
<1>3. g \in [(1 .. n) \X T -> T]
  BY <1>1, <1>2
<1>4. \A i \in 1 .. n, t \in T : g[<<i, t>>] = IF s[i] \in S THEN Append(t, s[i]) ELSE t
  OBVIOUS
<1> HIDE DEF g
<1>5. PICK e : Iterates(e, n, T, b, g)
  BY <1>1, <1>2, <1>3, RecursiveFunction
<1>6. e \in [0 .. n -> T] /\ e[0] = b
  BY <1>5 DEF Iterates
<1>7. ASSUME NEW i \in 0 .. n, i # 0
      PROVE  e[i] = IF s[i] \in S THEN Append(e[i - 1], s[i]) ELSE e[i - 1]
  <2>1. i \in 1 .. n /\ i - 1 \in 0 .. n
    BY <1>1, <1>7
  <2>2. e[i - 1] \in T
    BY <1>6, <2>1
  <2>3. e[i] = g[<<i, e[i - 1]>>]
    BY <1>5, <2>1 DEF Iterates
  <2> QED  BY <1>4, <2>1, <2>2, <2>3
<1>8. e = [i \in 0 .. n |->
             IF i = 0 THEN b
             ELSE IF s[i] \in S THEN Append(e[i - 1], s[i]) ELSE e[i - 1]]
  BY <1>6, <1>7
<1> QED  BY <1>8 DEF OnlyIs, n, b

\* Only is what it gives for the whole sequence.
LEMMA OnlyDef ==
  ASSUME NEW X, NEW s \in Seq(X), NEW S
  PROVE  \E f : OnlyIs(f, s, S) /\ Only(s, S) = f[Len(s)]
<1> DEFINE f == CHOOSE f : OnlyIs(f, s, S)
<1>1. OnlyIs(f, s, S)
  BY OnlyExists
<1>2. Only(s, S) = f[Len(s)]
  BY Zenon DEF Only, OnlyIs
<1> HIDE DEF f
<1> QED  BY <1>1, <1>2

\* What is taken from the first i members of s, for every i.
LEMMA OnlySteps ==
  ASSUME NEW X, NEW s \in Seq(X), NEW S, NEW f, OnlyIs(f, s, S), NEW i \in 0 .. Len(s)
  PROVE  /\ f[i] \in Seq(X)
         /\ \A x \in X : (\E j \in 1 .. Len(f[i]) : f[i][j] = x)
                           <=> (x \in S /\ \E j \in 1 .. i : s[j] = x)
<1> DEFINE n == Len(s)
           T == Seq(X)
           Has(t, x) == \E j \in 1 .. Len(t) : t[j] = x
           Good == {k \in 0 .. n : /\ f[k] \in T
                                   /\ \A x \in X : Has(f[k], x)
                                        <=> (x \in S /\ \E j \in 1 .. k : s[j] = x)}
<1>1. n \in Nat /\ \A k \in 1 .. n : s[k] \in X
  OBVIOUS
<1>2. /\ <<>> \in T /\ \A x : ~Has(<<>>, x)
      /\ \A t \in T, x \in X : /\ Append(t, x) \in T
                               /\ \A y : Has(Append(t, x), y) <=> (Has(t, y) \/ y = x)
  <2>1. \A t \in T, x \in X : Append(t, x) \in T
    BY AppendProperties
  <2>2. ASSUME NEW t \in T, NEW x \in X, NEW y
        PROVE  Has(Append(t, x), y) <=> (Has(t, y) \/ y = x)
    <3>1. /\ Len(Append(t, x)) = Len(t) + 1 /\ Len(t) \in Nat
          /\ \A j \in 1 .. Len(t) : Append(t, x)[j] = t[j]
          /\ Append(t, x)[Len(t) + 1] = x
      BY AppendProperties
    <3> QED  BY <3>1
  <2>3. <<>> \in T /\ \A x : ~Has(<<>>, x)
    OBVIOUS
  <2> QED  BY <2>1, <2>2, <2>3
<1>3. f[0] = <<>>
  BY <1>1, OnlyUnfold
<1>4. \A k \in 1 .. n : f[k] = IF s[k] \in S THEN Append(f[k - 1], s[k]) ELSE f[k - 1]
  BY <1>1, OnlyUnfold
<1> HIDE DEF n, T, Has
<1>5. 0 \in Good
  BY <1>1, <1>2, <1>3
<1>6. ASSUME NEW k \in 1 .. n, k - 1 \in Good PROVE k \in Good
  <2>1. s[k] \in X /\ f[k - 1] \in T /\ k \in 0 .. n
    BY <1>1, <1>6
  <2>2. f[k] \in T
    BY <1>2, <1>4, <2>1
  <2>3. ASSUME NEW x \in X
        PROVE  Has(f[k], x) <=> (x \in S /\ \E j \in 1 .. k : s[j] = x)
    <3>1. Has(f[k - 1], x) <=> (x \in S /\ \E j \in 1 .. k - 1 : s[j] = x)
      BY <1>6
    <3>2. (\E j \in 1 .. k : s[j] = x) <=> ((\E j \in 1 .. k - 1 : s[j] = x) \/ s[k] = x)
      BY <1>1
    <3>3. CASE s[k] \in S
      <4>1. Has(f[k], x) <=> (Has(f[k - 1], x) \/ x = s[k])
        BY <1>2, <1>4, <2>1, <3>3
      <4> QED  BY <3>1, <3>2, <3>3, <4>1
    <3>4. CASE s[k] \notin S
      BY <1>4, <3>1, <3>2, <3>4
    <3> QED  BY <3>3, <3>4
  <2> QED  BY <2>1, <2>2, <2>3
<1>7. \A k \in 0 .. n : k \in Good
  <2> HIDE DEF Good
  <2> QED  BY <1>1, <1>5, <1>6, UptoInduction
<1>8. i \in Good
  BY <1>7 DEF n
<1> QED  BY <1>8 DEF T, Has

\* What is selected are the members of s that are in S.
LEMMA OnlySelects ==
  ASSUME NEW X, NEW s \in Seq(X), NEW S
  PROVE  Only(s, S) \in Seq(X) /\ Range(Only(s, S)) = Range(s) \cap S
<1>1. PICK f : OnlyIs(f, s, S) /\ Only(s, S) = f[Len(s)]
  BY OnlyDef
<1>2. Len(s) \in 0 .. Len(s)
  OBVIOUS
<1> DEFINE t == Only(s, S)
<1>3. /\ t \in Seq(X)
      /\ \A x \in X : (\E j \in 1 .. Len(t) : t[j] = x)
                         <=> (x \in S /\ \E j \in 1 .. Len(s) : s[j] = x)
  BY <1>1, <1>2, OnlySteps
<1> HIDE DEF t
<1>4. Range(s) = {s[j] : j \in 1 .. Len(s)} /\ Range(t) = {t[j] : j \in 1 .. Len(t)}
  BY <1>3 DEF Range
<1>5. \A j \in 1 .. Len(s) : s[j] \in X
  OBVIOUS
<1>6. \A j \in 1 .. Len(t) : t[j] \in X
  BY <1>3
<1>7. ASSUME NEW x PROVE x \in Range(t) <=> x \in Range(s) \cap S
  BY <1>3, <1>4, <1>5, <1>6
<1>8. Range(t) = Range(s) \cap S
  BY <1>7
<1> QED  BY <1>3, <1>8 DEF t

\* Two sets that agree on s select the same.
LEMMA OnlyAgrees ==
  ASSUME NEW X, NEW s \in Seq(X), NEW S, NEW R,
         \A i \in 1 .. Len(s) : s[i] \in S <=> s[i] \in R
  PROVE  Only(s, S) = Only(s, R)
<1>1. PICK f : OnlyIs(f, s, S) /\ Only(s, S) = f[Len(s)]
  BY OnlyDef
<1>2. PICK h : OnlyIs(h, s, R) /\ Only(s, R) = h[Len(s)]
  BY OnlyDef
<1> DEFINE n == Len(s)
           Good == {k \in 0 .. n : f[k] = h[k]}
<1>3. n \in Nat
  OBVIOUS
<1> HIDE DEF n
<1>4. 0 \in Good
  BY <1>1, <1>2, <1>3, OnlyUnfold DEF n
<1>5. ASSUME NEW k \in 1 .. n, k - 1 \in Good PROVE k \in Good
  <2>1. f[k] = IF s[k] \in S THEN Append(f[k - 1], s[k]) ELSE f[k - 1]
    BY <1>1, <1>3, OnlyUnfold DEF n
  <2>2. h[k] = IF s[k] \in R THEN Append(h[k - 1], s[k]) ELSE h[k - 1]
    BY <1>2, <1>3, OnlyUnfold DEF n
  <2>3. s[k] \in S <=> s[k] \in R
    BY DEF n
  <2>4. k \in 0 .. n /\ f[k - 1] = h[k - 1]
    BY <1>3, <1>5
  <2> QED  BY <2>1, <2>2, <2>3, <2>4
<1>6. \A k \in 0 .. n : k \in Good
  <2> HIDE DEF Good
  <2> QED  BY <1>3, <1>4, <1>5, UptoInduction
<1>7. f[n] = h[n]
  BY <1>3, <1>6
<1> QED  BY <1>1, <1>2, <1>7 DEF n

(******************************************************************************)
(* The members of a finite set in a strict total order                        *)
(******************************************************************************)
Below(S, R, x) == {y \in S : <<y, x>> \in R}

StrictOrder(S, R) ==
  /\ \A x \in S : <<x, x>> \notin R
  /\ \A x, y \in S : x = y \/ <<x, y>> \in R \/ <<y, x>> \in R
  /\ \A x, y, z \in S : <<x, y>> \in R /\ <<y, z>> \in R => <<x, z>> \in R

\* The i-th of the list is one with i - 1 below it, if there is one.
Ranks(q, S, R) ==
  /\ q = [i \in 1 .. Cardinality(S) |-> q[i]]
  /\ \A i \in 1 .. Cardinality(S), x \in S : Cardinality(Below(S, R, x)) = i - 1 =>
       q[i] \in S /\ Cardinality(Below(S, R, q[i])) = i - 1

\* A member has more members below it than any member below it has.
LEMMA RanksDiffer ==
  ASSUME NEW S, IsFiniteSet(S), NEW R, StrictOrder(S, R)
  PROVE  /\ \A x \in S : Cardinality(Below(S, R, x)) \in 0 .. Cardinality(S) - 1
         /\ \A x, y \in S : <<x, y>> \in R =>
              Cardinality(Below(S, R, x)) < Cardinality(Below(S, R, y))
<1>1. \A x \in S : IsFiniteSet(Below(S, R, x)) /\ Cardinality(Below(S, R, x)) \in Nat
  <2>1. \A x \in S : Below(S, R, x) \in SUBSET S
    BY DEF Below
  <2> QED  BY <2>1, FS_Subset, FS_CardinalityType
<1>2. Cardinality(S) \in Nat
  BY FS_CardinalityType
<1>3. ASSUME NEW x \in S
      PROVE  Cardinality(Below(S, R, x)) \in 0 .. Cardinality(S) - 1
  <2>1. Below(S, R, x) \in SUBSET S /\ x \notin Below(S, R, x)
    BY DEF Below, StrictOrder
  <2>2. Below(S, R, x) # S
    BY <2>1
  <2>3. Cardinality(Below(S, R, x)) <= Cardinality(S)
        /\ Cardinality(S) # Cardinality(Below(S, R, x))
    BY <2>1, <2>2, FS_Subset
  <2> QED  BY <1>1, <1>2, <2>3
<1>4. ASSUME NEW x \in S, NEW y \in S, <<x, y>> \in R
      PROVE  Cardinality(Below(S, R, x)) < Cardinality(Below(S, R, y))
  <2>1. Below(S, R, x) \in SUBSET Below(S, R, y)
    BY <1>4 DEF Below, StrictOrder
  <2>2. x \in Below(S, R, y) /\ x \notin Below(S, R, x)
    BY <1>4 DEF Below, StrictOrder
  <2>3. Below(S, R, x) # Below(S, R, y)
    BY <2>2
  <2>4. Cardinality(Below(S, R, x)) <= Cardinality(Below(S, R, y))
        /\ Cardinality(Below(S, R, y)) # Cardinality(Below(S, R, x))
    BY <1>1, <2>1, <2>3, FS_Subset
  <2> QED  BY <1>1, <2>4
<1> QED  BY <1>3, <1>4

\* A finite set in a strict order has a least member.
LEMMA LeastMember ==
  ASSUME NEW S, IsFiniteSet(S), S # {}, NEW R, StrictOrder(S, R)
  PROVE  \E x \in S : \A y \in S : <<y, x>> \notin R
<1> DEFINE T == {Cardinality(Below(S, R, x)) : x \in S}
<1>1. T \subseteq Nat /\ T # {}
  BY RanksDiffer
<1>2. PICK n \in T : \A m \in T : n <= m
  BY <1>1, Smallest
<1>3. PICK x \in S : n = Cardinality(Below(S, R, x))
  BY <1>2
<1>4. ASSUME NEW y \in S PROVE <<y, x>> \notin R
  <2>1. Cardinality(Below(S, R, y)) \in T /\ Cardinality(Below(S, R, y)) \in Nat /\ n \in Nat
    BY <1>1
  <2>2. n <= Cardinality(Below(S, R, y))
    BY <1>2, <2>1
  <2>3. <<y, x>> \in R => Cardinality(Below(S, R, y)) < n
    BY <1>3, RanksDiffer
  <2> QED  BY <2>1, <2>2, <2>3
<1> QED  BY <1>4

\* The list has each member of the set, and nothing else.
LEMMA RanksList ==
  ASSUME NEW S, IsFiniteSet(S), NEW R, StrictOrder(S, R), NEW q, Ranks(q, S, R)
  PROVE  /\ q \in Seq(S) /\ Len(q) = Cardinality(S)
         /\ \A x \in S : \E i \in 1 .. Len(q) : q[i] = x
         /\ \A i, j \in 1 .. Len(q) : i < j => <<q[i], q[j]>> \in R
<1> DEFINE n == Cardinality(S)
           rank == [x \in S |-> Cardinality(Below(S, R, x))]
<1>1. n \in Nat
  BY FS_CardinalityType
<1>2. /\ \A x \in S : rank[x] \in 0 .. n - 1
      /\ \A x, y \in S : <<x, y>> \in R => rank[x] < rank[y]
  BY RanksDiffer
<1>3. /\ q = [i \in 1 .. n |-> q[i]]
      /\ \A i \in 1 .. n, x \in S : rank[x] = i - 1 => q[i] \in S /\ rank[q[i]] = i - 1
  BY DEF Ranks
<1>4. rank \in [S -> 0 .. n - 1]
  BY <1>2
<1> HIDE DEF rank, n
<1>5. rank \in Injection(S, 0 .. n - 1)
  <2>1. \A x, y \in S : rank[x] = rank[y] => x = y
    <3> SUFFICES ASSUME NEW x \in S, NEW y \in S, x # y PROVE rank[x] # rank[y]
      OBVIOUS
    <3>1. <<x, y>> \in R \/ <<y, x>> \in R
      BY DEF StrictOrder
    <3>2. rank[x] \in Int /\ rank[y] \in Int
      BY <1>1, <1>2
    <3>3. rank[x] < rank[y] \/ rank[y] < rank[x]
      BY <1>2, <3>1
    <3> QED  BY <3>2, <3>3
  <2> QED  BY <1>4, <2>1 DEF Injection, IsInjective
<1>6. rank \in Surjection(S, 0 .. n - 1)
  <2>1. IsFiniteSet(0 .. n - 1) /\ Cardinality(0 .. n - 1) = n
    BY <1>1, FS_Interval
  <2>2. Cardinality(S) = Cardinality(0 .. n - 1)
    BY <2>1 DEF n
  <2> QED  BY <1>5, <2>1, <2>2, FS_Injection
<1>7. ASSUME NEW i \in 1 .. n PROVE q[i] \in S /\ rank[q[i]] = i - 1
  <2>1. i - 1 \in 0 .. n - 1
    BY <1>1
  <2>2. \E x \in S : rank[x] = i - 1
    BY <1>6, <2>1 DEF Surjection
  <2> QED  BY <1>3, <2>2
<1>8. q \in Seq(S) /\ Len(q) = n
  <2>1. q \in [1 .. n -> S]
    BY <1>3, <1>7
  <2> QED  BY <1>1, <2>1
<1>9. ASSUME NEW x \in S PROVE \E i \in 1 .. n : q[i] = x
  <2>1. rank[x] + 1 \in 1 .. n /\ (rank[x] + 1) - 1 = rank[x]
    BY <1>1, <1>2
  <2>2. q[rank[x] + 1] \in S /\ rank[q[rank[x] + 1]] = rank[x]
    BY <1>7, <2>1
  <2>3. q[rank[x] + 1] = x
    BY <1>5, <2>2 DEF Injection, IsInjective
  <2> QED  BY <2>1, <2>3
<1>10. ASSUME NEW i \in 1 .. n, NEW j \in 1 .. n, i < j PROVE <<q[i], q[j]>> \in R
  <2>1. q[i] \in S /\ q[j] \in S /\ rank[q[i]] < rank[q[j]]
    BY <1>1, <1>7, <1>10
  <2>2. ~(<<q[j], q[i]>> \in R) /\ q[i] # q[j]
    BY <1>2, <1>4, <1>1, <2>1
  <2> QED  BY <2>1, <2>2 DEF StrictOrder
<1> QED  BY <1>8, <1>9, <1>10 DEF n
===============================================================================
