----------------------------- MODULE LedgerProofs -----------------------------
(* What execution does to the accounts: amounts and locks stay sound, no      *)
(* coins come into being, and votes are backed by pledges.                    *)
EXTENDS Ledger, Recursion, SequenceTheorems

(******************************************************************************)
(* Locks                                                                      *)
(******************************************************************************)
LEMMA LockTypes ==
  ASSUME NEW locks \in Seq(LockStatus), NEW i \in 1 .. Len(locks)
  PROVE  locks[i].value \in Nat /\ locks[i].value \in Int /\ locks[i].unlock \in Nat
<1>1. locks[i] \in LockStatus
  BY ElementOfSeq
<1> QED  BY <1>1 DEF LockStatus, Coins

LEMMA LockedCoinsNat ==
  ASSUME NEW locks \in Seq(LockStatus)
  PROVE  LockedCoins(locks) \in Nat
<1> DEFINE v == [i \in DOMAIN locks |-> locks[i].value]
<1>1. DOMAIN locks = 1 .. Len(locks) /\ Len(locks) \in Nat
  OBVIOUS
<1>2. IsFiniteSet(DOMAIN locks)
  BY <1>1, FS_Interval
<1>3. \A i \in DOMAIN locks : v[i] \in Nat
  BY <1>1, LockTypes
<1>4. SumFunctionOnSet(v, DOMAIN locks) \in Nat
  <2> HIDE DEF v
  <2> QED  BY <1>2, <1>3, SumType
<1>5. LockedCoins(locks) = SumFunctionOnSet(v, DOMAIN locks)
  BY Zenon DEF LockedCoins, SumFunction
<1> QED  BY <1>4, <1>5

\* LockedCoins as a sum over positions.
LEMMA LockedCoinsIs ==
  ASSUME NEW locks \in Seq(LockStatus), NEW v, \A i \in 1 .. Len(locks) : v[i] = locks[i].value
  PROVE  LockedCoins(locks) = SumFunctionOnSet(v, 1 .. Len(locks))
<1> DEFINE u == [i \in DOMAIN locks |-> locks[i].value]
<1>1. DOMAIN locks = 1 .. Len(locks) /\ Len(locks) \in Nat
  OBVIOUS
<1>2. IsFiniteSet(1 .. Len(locks))
  BY <1>1, FS_Interval
<1>3. \A i \in 1 .. Len(locks) : u[i] \in Int /\ u[i] = v[i]
  BY <1>1, LockTypes
<1>4. LockedCoins(locks) = SumFunctionOnSet(u, DOMAIN locks)
  BY Zenon DEF LockedCoins, SumFunction
<1>5. SumFunctionOnSet(u, 1 .. Len(locks)) = SumFunctionOnSet(v, 1 .. Len(locks))
  <2> HIDE DEF u
  <2> QED  BY <1>2, <1>3, SumSame
<1> QED  BY <1>1, <1>4, <1>5

\* The coins of the locks that have expired and of those that have not.
LEMMA LockedCoinsSplit ==
  ASSUME NEW locks \in Seq(LockStatus), NEW n \in 0 .. Len(locks)
  PROVE  LockedCoins(locks) =
           LockedCoins(SubSeq(locks, 1, n)) + LockedCoins(SubSeq(locks, n + 1, Len(locks)))
<1> DEFINE len == Len(locks)
           first == SubSeq(locks, 1, n)
           rest == SubSeq(locks, n + 1, len)
           v == [i \in 1 .. len |-> locks[i].value]
           u == [i \in 1 .. len - n |-> locks[n + i].value]
           f == [i \in 1 .. len - n |-> n + i]
<1>1. len \in Nat /\ n \in Nat /\ n <= len
  OBVIOUS
<1>2. first \in Seq(LockStatus) /\ Len(first) = n /\ \A i \in 1 .. n : first[i] = locks[i]
  BY <1>1, SubSeqProperties
<1>3. /\ rest \in Seq(LockStatus) /\ Len(rest) = len - n
      /\ \A i \in 1 .. len - n : rest[i] = locks[n + i]
  BY <1>1, SubSeqProperties
<1>4. \A i \in 1 .. len : v[i] \in Int
  BY LockTypes
<1>5. LockedCoins(locks) = SumFunctionOnSet(v, 1 .. len)
  BY LockedCoinsIs
<1>6. LockedCoins(first) = SumFunctionOnSet(v, 1 .. n)
  <2>1. \A i \in 1 .. n : v[i] = first[i].value
    BY <1>1, <1>2
  <2> HIDE DEF v, first
  <2> QED  BY <1>2, <2>1, LockedCoinsIs
<1>7. LockedCoins(rest) = SumFunctionOnSet(u, 1 .. len - n)
  <2>1. \A i \in 1 .. len - n : u[i] = rest[i].value
    BY <1>1, <1>3
  <2> HIDE DEF u, rest
  <2> QED  BY <1>3, <2>1, LockedCoinsIs
<1>8. SumFunctionOnSet(v, n + 1 .. len) = SumFunctionOnSet(u, 1 .. len - n)
  <2> DEFINE S == 1 .. len - n
             T == n + 1 .. len
  <2>1. \A i \in S : f[i] \in T /\ u[i] \in Int /\ v[f[i]] = u[i]
    BY <1>1, <1>4
  <2>2. \A i, j \in S : f[i] = f[j] => i = j
    BY <1>1
  <2>3. \A j \in T : \E i \in S : f[i] = j
    <3> TAKE j \in T
    <3>1. j - n \in S /\ f[j - n] = j
      BY <1>1
    <3> QED  BY <3>1
  <2>4. IsFiniteSet(S)
    <3>1. 1 \in Int /\ len - n \in Int
      BY <1>1
    <3> QED  BY <3>1, FS_Interval
  <2>5. SumFunctionOnSet(v, T) = SumFunctionOnSet(u, S)
    <3> HIDE DEF f, u, v, S, T
    <3> QED  BY <2>1, <2>2, <2>3, <2>4, SumRelabel
  <2> QED  BY <2>5
<1>9. SumFunctionOnSet(v, (1 .. n) \cup (n + 1 .. len)) =
         SumFunctionOnSet(v, 1 .. n) + SumFunctionOnSet(v, n + 1 .. len)
  <2>1. IsFiniteSet(1 .. n) /\ IsFiniteSet(n + 1 .. len)
    BY <1>1, FS_Interval
  <2>2. (1 .. n) \cap (n + 1 .. len) = {} /\ \A i \in (1 .. n) \cup (n + 1 .. len) : v[i] \in Int
    BY <1>1, <1>4
  <2> HIDE DEF v, len
  <2> QED  BY <2>1, <2>2, SumUnion
<1>10. (1 .. n) \cup (n + 1 .. len) = 1 .. len
  BY <1>1
<1> HIDE DEF v, u, f, first, rest
<1> QED  BY <1>5, <1>6, <1>7, <1>8, <1>9, <1>10 DEF first, rest

\* Where InsertLock puts a lock, and what the list is then.
LEMMA InsertLockIs ==
  ASSUME NEW locks \in Seq(LockStatus), NEW lock \in LockStatus
  PROVE  \E at \in 1 .. Len(locks) + 1 :
           /\ InsertLock(locks, lock) \in Seq(LockStatus)
           /\ Len(InsertLock(locks, lock)) = Len(locks) + 1
           /\ \A i \in 1 .. at - 1 : InsertLock(locks, lock)[i] = locks[i]
           /\ InsertLock(locks, lock)[at] = lock
           /\ \A i \in at .. Len(locks) : InsertLock(locks, lock)[i + 1] = locks[i]
           /\ \A i \in 1 .. at - 1 : locks[i].unlock < lock.unlock
           /\ at <= Len(locks) => locks[at].unlock >= lock.unlock
<1> DEFINE later == {i \in DOMAIN locks : locks[i].unlock >= lock.unlock}
           at == IF later = {} THEN Len(locks) + 1
                 ELSE CHOOSE j \in later : \A k \in later : j <= k
           a == SubSeq(locks, 1, at - 1)
           b == SubSeq(locks, at, Len(locks))
<1>1. DOMAIN locks = 1 .. Len(locks) /\ Len(locks) \in Nat
  OBVIOUS
<1>2. \A i \in 1 .. Len(locks) : locks[i].unlock \in Nat
  BY LockTypes
<1>3. lock.unlock \in Nat
  BY DEF LockStatus
<1>4. later # {} => at \in later /\ \A k \in later : at <= k
  <2>1. later \subseteq Nat
    BY <1>1
  <2> HIDE DEF later
  <2>2. later # {} => \E j \in later : \A k \in later : j <= k
    BY <2>1, Smallest
  <2> QED  BY <2>2
<1>5. /\ at \in 1 .. Len(locks) + 1
      /\ at <= Len(locks) => locks[at].unlock >= lock.unlock
      /\ \A i \in 1 .. at - 1 : locks[i].unlock < lock.unlock
  <2>1. CASE later = {}
    <3>1. at = Len(locks) + 1
      BY <2>1
    <3>2. \A i \in 1 .. Len(locks) : ~ (locks[i].unlock >= lock.unlock)
      BY <1>1, <2>1
    <3> HIDE DEF at
    <3> QED  BY <1>1, <1>2, <1>3, <3>1, <3>2
  <2>2. CASE later # {}
    <3>1. at \in 1 .. Len(locks) /\ locks[at].unlock >= lock.unlock
      BY <1>1, <1>4, <2>2
    <3>2. \A i \in 1 .. Len(locks) : locks[i].unlock >= lock.unlock => at <= i
      BY <1>1, <1>4, <2>2
    <3> HIDE DEF at
    <3> QED  BY <1>1, <1>2, <1>3, <3>1, <3>2
  <2> QED  BY <2>1, <2>2
<1>6. InsertLock(locks, lock) = a \o <<lock>> \o b
  BY Zenon DEF InsertLock, InsertAt
<1> HIDE DEF at
<1>7. /\ a \in Seq(LockStatus) /\ Len(a) = at - 1
      /\ \A i \in 1 .. at - 1 : a[i] = locks[i]
  BY <1>1, <1>5, SubSeqProperties
<1>8. /\ b \in Seq(LockStatus) /\ Len(b) = Len(locks) - at + 1
      /\ \A i \in 1 .. Len(locks) - at + 1 : b[i] = locks[at + i - 1]
  BY <1>1, <1>5, SubSeqProperties
<1> HIDE DEF a, b
<1> DEFINE c == a \o <<lock>>
<1>9. /\ c \in Seq(LockStatus) /\ Len(c) = at
      /\ \A i \in 1 .. at - 1 : c[i] = locks[i]
      /\ c[at] = lock
  <2>1. at - 1 \in Nat /\ at \in Nat
    BY <1>1, <1>5
  <2> QED  BY <1>7, <2>1
<1>10. /\ InsertLock(locks, lock) = c \o b
  BY <1>6
<1> HIDE DEF c
<1>11. /\ c \o b \in Seq(LockStatus) /\ Len(c \o b) = Len(locks) + 1
       /\ \A i \in 1 .. at : (c \o b)[i] = c[i]
       /\ \A i \in at .. Len(locks) : (c \o b)[i + 1] = locks[i]
  <2>1. /\ c \o b \in Seq(LockStatus) /\ Len(c \o b) = Len(c) + Len(b)
        /\ \A i \in 1 .. Len(c) + Len(b) :
              (c \o b)[i] = IF i <= Len(c) THEN c[i] ELSE b[i - Len(c)]
    BY <1>8, <1>9
  <2>2. ASSUME NEW i \in at .. Len(locks) PROVE (c \o b)[i + 1] = locks[i]
    <3>1. i + 1 - at \in 1 .. Len(locks) - at + 1 /\ i + 1 \in 1 .. Len(c) + Len(b)
      BY <1>1, <1>5, <1>8, <1>9
    <3>2. (c \o b)[i + 1] = b[i + 1 - at]
      BY <1>1, <1>5, <1>9, <2>1, <3>1
    <3>3. at + (i + 1 - at) - 1 = i
      BY <1>5
    <3> QED  BY <1>8, <3>1, <3>2, <3>3
  <2> QED  BY <1>1, <1>5, <1>8, <1>9, <2>1, <2>2
<1>12. /\ \A i \in 1 .. at - 1 : InsertLock(locks, lock)[i] = locks[i]
       /\ InsertLock(locks, lock)[at] = lock
  BY <1>1, <1>5, <1>9, <1>10, <1>11
<1> QED  BY <1>5, <1>10, <1>11, <1>12

\* A lock adds its coins.
LEMMA LockedCoinsInsert ==
  ASSUME NEW locks \in Seq(LockStatus), NEW lock \in LockStatus
  PROVE  LockedCoins(InsertLock(locks, lock)) = LockedCoins(locks) + lock.value
<1> DEFINE len == Len(locks)
           more == InsertLock(locks, lock)
<1>1. PICK at \in 1 .. len + 1 :
        /\ more \in Seq(LockStatus) /\ Len(more) = len + 1
        /\ \A i \in 1 .. at - 1 : more[i] = locks[i]
        /\ more[at] = lock
        /\ \A i \in at .. len : more[i + 1] = locks[i]
  BY InsertLockIs
<1>2. len \in Nat
  OBVIOUS
<1> DEFINE v == [i \in 1 .. len + 1 |-> more[i].value]
           u == [i \in 1 .. len |-> locks[i].value]
           f == [i \in 1 .. len |-> IF i < at THEN i ELSE i + 1]
           S == 1 .. len
           T == (1 .. len + 1) \ {at}
<1> HIDE DEF more
<1>3. \A i \in 1 .. len + 1 : v[i] \in Int
  BY <1>1, LockTypes
<1>4. SumFunctionOnSet(v, 1 .. len + 1) = LockedCoins(more)
  <2>1. \A i \in 1 .. Len(more) : v[i] = more[i].value
    BY <1>1
  <2> HIDE DEF v
  <2> QED  BY <1>1, <2>1, LockedCoinsIs
<1>5. SumFunctionOnSet(u, S) = LockedCoins(locks)
  <2>1. \A i \in 1 .. Len(locks) : u[i] = locks[i].value
    OBVIOUS
  <2> HIDE DEF u
  <2> QED  BY <2>1, LockedCoinsIs
<1>6. SumFunctionOnSet(v, T) = SumFunctionOnSet(u, S)
  <2>1. \A i \in S : f[i] \in T /\ u[i] \in Int /\ v[f[i]] = u[i]
    <3> SUFFICES ASSUME NEW i \in S PROVE f[i] \in T /\ u[i] \in Int /\ v[f[i]] = u[i]
      OBVIOUS
    <3>1. u[i] \in Int
      BY LockTypes
    <3>2. CASE i < at
      BY <1>1, <1>2, <3>1, <3>2
    <3>3. CASE ~ (i < at)
      BY <1>1, <1>2, <3>1, <3>3
    <3> QED  BY <3>2, <3>3
  <2>2. \A i, j \in S : f[i] = f[j] => i = j
    BY <1>1, <1>2
  <2>3. \A j \in T : \E i \in S : f[i] = j
    <3> TAKE j \in T
    <3>1. CASE j < at
      <4>1. j \in S /\ f[j] = j
        BY <1>1, <1>2, <3>1
      <4> QED  BY <4>1
    <3>2. CASE ~ (j < at)
      <4>1. j - 1 \in S /\ f[j - 1] = j
        BY <1>1, <1>2, <3>2
      <4> QED  BY <4>1
    <3> QED  BY <3>1, <3>2
  <2>4. IsFiniteSet(S)
    BY <1>2, FS_Interval
  <2> HIDE DEF f, u, v, S, T
  <2> QED  BY <2>1, <2>2, <2>3, <2>4, SumRelabel
<1>7. SumFunctionOnSet(v, 1 .. len + 1) = v[at] + SumFunctionOnSet(v, T)
  <2>1. IsFiniteSet(1 .. len + 1)
    BY <1>2, FS_Interval
  <2> HIDE DEF v
  <2> QED  BY <1>1, <1>3, <2>1, SumRemove
<1>8. v[at] = lock.value /\ lock.value \in Int
  BY <1>1 DEF LockStatus, Coins
<1>9. LockedCoins(locks) \in Int
  BY LockedCoinsNat
<1> HIDE DEF v, u, f, S, T
<1> QED  BY <1>4, <1>5, <1>6, <1>7, <1>8, <1>9 DEF more

\* The list stays in order: a new lock goes before the later ones, and what the
\* scan takes is its head.
LEMMA InsertLockSorted ==
  ASSUME NEW locks \in Seq(LockStatus), NEW lock \in LockStatus, Sorted(locks)
  PROVE  Sorted(InsertLock(locks, lock))
<1> DEFINE len == Len(locks)
           more == InsertLock(locks, lock)
<1>1. PICK at \in 1 .. len + 1 :
        /\ more \in Seq(LockStatus) /\ Len(more) = len + 1
        /\ \A i \in 1 .. at - 1 : more[i] = locks[i]
        /\ more[at] = lock
        /\ \A i \in at .. len : more[i + 1] = locks[i]
        /\ \A i \in 1 .. at - 1 : locks[i].unlock < lock.unlock
        /\ at <= len => locks[at].unlock >= lock.unlock
  BY InsertLockIs
<1>2. len \in Nat /\ DOMAIN more = 1 .. len + 1 /\ DOMAIN locks = 1 .. len
  BY <1>1
<1>3. \A i \in 1 .. len : locks[i].unlock \in Nat
  BY LockTypes
<1>4. lock.unlock \in Nat
  BY DEF LockStatus
<1>5. \A i, j \in 1 .. len : i < j => locks[i].unlock <= locks[j].unlock
  BY <1>2 DEF Sorted
<1> HIDE DEF more
<1>6. \A i \in at .. len : lock.unlock <= locks[i].unlock
  <2> SUFFICES ASSUME NEW i \in at .. len PROVE lock.unlock <= locks[i].unlock
    OBVIOUS
  <2>1. at \in 1 .. len /\ i \in 1 .. len
    BY <1>1, <1>2
  <2>2. lock.unlock <= locks[at].unlock
    BY <1>1, <1>3, <1>4, <2>1
  <2>3. at = i \/ locks[at].unlock <= locks[i].unlock
    BY <1>5, <2>1
  <2> QED  BY <1>3, <1>4, <2>1, <2>2, <2>3
<1>7. ASSUME NEW i \in 1 .. len + 1, NEW j \in 1 .. len + 1, i < j
      PROVE  more[i].unlock <= more[j].unlock
  <2>1. \A k \in 1 .. len + 1 :
          \/ k < at /\ k \in 1 .. len /\ more[k] = locks[k]
          \/ k = at /\ more[k] = lock
          \/ k > at /\ k - 1 \in at .. len /\ k - 1 \in 1 .. len /\ more[k] = locks[k - 1]
    <3> SUFFICES ASSUME NEW k \in 1 .. len + 1
                 PROVE  \/ k < at /\ k \in 1 .. len /\ more[k] = locks[k]
                        \/ k = at /\ more[k] = lock
                        \/ /\ k > at /\ k - 1 \in at .. len /\ k - 1 \in 1 .. len
                           /\ more[k] = locks[k - 1]
      OBVIOUS
    <3>1. CASE k < at
      BY <1>1, <1>2, <3>1
    <3>2. CASE k = at
      BY <1>1, <3>2
    <3>3. CASE k > at
      <4>1. k - 1 \in at .. len /\ k - 1 \in 1 .. len /\ (k - 1) + 1 = k
        BY <1>1, <1>2, <3>3
      <4>2. more[(k - 1) + 1] = locks[k - 1]
        BY <1>1, <4>1
      <4> QED  BY <3>3, <4>1, <4>2
    <3> QED  BY <1>2, <3>1, <3>2, <3>3
  <2>2. CASE i < at /\ j < at
    BY <1>5, <1>7, <2>1, <2>2
  <2>3. CASE i < at /\ j = at
    <3>1. more[i] = locks[i] /\ more[j] = lock /\ i \in 1 .. at - 1 /\ i \in 1 .. len
      BY <1>2, <2>1, <2>3
    <3>2. locks[i].unlock < lock.unlock
      BY <1>1, <3>1
    <3> QED  BY <1>3, <1>4, <3>1, <3>2
  <2>4. CASE i < at /\ j > at
    <3>1. i \in 1 .. len /\ j - 1 \in 1 .. len /\ i < j - 1
      BY <1>1, <1>2, <2>1, <2>4
    <3>2. more[i] = locks[i] /\ more[j] = locks[j - 1]
      BY <2>1, <2>4
    <3> QED  BY <1>5, <3>1, <3>2
  <2>5. CASE i = at
    <3>1. j - 1 \in at .. len /\ more[i] = lock /\ more[j] = locks[j - 1]
      BY <1>1, <1>2, <1>7, <2>1, <2>5
    <3> QED  BY <1>6, <3>1
  <2>6. CASE i > at
    <3>1. /\ i - 1 \in 1 .. len /\ j - 1 \in 1 .. len /\ i - 1 < j - 1
          /\ more[i] = locks[i - 1] /\ more[j] = locks[j - 1]
      BY <1>1, <1>2, <1>7, <2>1, <2>6
    <3> QED  BY <1>5, <3>1
  <2> QED  BY <1>1, <1>2, <1>7, <2>2, <2>3, <2>4, <2>5, <2>6
<1>8. Sorted(more)
  BY <1>2, <1>7 DEF Sorted
<1> QED  BY <1>8 DEF more

LEMMA RestSorted ==
  ASSUME NEW locks \in Seq(LockStatus), NEW n \in 0 .. Len(locks), Sorted(locks)
  PROVE  /\ SubSeq(locks, n + 1, Len(locks)) \in Seq(LockStatus)
         /\ Sorted(SubSeq(locks, n + 1, Len(locks)))
<1> DEFINE len == Len(locks)
           rest == SubSeq(locks, n + 1, len)
<1>1. len \in Nat /\ n \in Nat /\ n <= len
  OBVIOUS
<1>2. /\ rest \in Seq(LockStatus) /\ Len(rest) = len - n
      /\ \A i \in 1 .. len - n : rest[i] = locks[n + i]
  BY <1>1, SubSeqProperties
<1>3. DOMAIN rest = 1 .. len - n
  BY <1>2
<1> HIDE DEF rest
<1>4. ASSUME NEW i \in 1 .. len - n, NEW j \in 1 .. len - n, i < j
      PROVE  rest[i].unlock <= rest[j].unlock
  <2>0. DOMAIN locks = 1 .. len
    OBVIOUS
  <2>1. n + i \in DOMAIN locks /\ n + j \in DOMAIN locks /\ n + i < n + j
    BY <1>1, <1>4, <2>0
  <2> QED  BY <1>2, <2>1 DEF Sorted
<1>5. Sorted(rest)
  BY <1>3, <1>4 DEF Sorted
<1> QED  BY <1>2, <1>5 DEF rest

\* There is a first lock that has not expired, or all have.
LEMMA ExpiredIs ==
  ASSUME NEW locks \in Seq(LockStatus), NEW ts \in Nat
  PROVE  Expired(locks, ts) \in 0 .. Len(locks)
<1> DEFINE len == Len(locks)
           open == {i \in 1 .. len : locks[i].unlock > ts}
<1>1. len \in Nat /\ \A i \in 1 .. len : locks[i].unlock \in Nat
  BY LockTypes
<1>2. \E n \in 0 .. len : /\ \A i \in 1 .. n : locks[i].unlock <= ts
                          /\ n < len => locks[n + 1].unlock > ts
  <2>1. CASE open = {}
    <3>1. \A i \in 1 .. len : ~ (locks[i].unlock > ts)
      BY <2>1
    <3>2. \A i \in 1 .. len : locks[i].unlock <= ts
      BY <1>1, <3>1
    <3>3. len \in 0 .. len /\ ~ (len < len)
      BY <1>1
    <3> QED  BY <3>2, <3>3
  <2>2. CASE open # {}
    <3>1. open \subseteq Nat
      OBVIOUS
    <3>2. PICK k \in open : \A m \in open : k <= m
      <4> HIDE DEF open
      <4> QED  BY <2>2, <3>1, Smallest
    <3>3. k \in 1 .. len /\ locks[k].unlock > ts
      OBVIOUS
    <3>4. \A i \in 1 .. len : locks[i].unlock > ts => k <= i
      BY <3>2
    <3>5. k - 1 \in 0 .. len /\ (k - 1) + 1 = k
      BY <1>1, <3>3
    <3>6. \A i \in 1 .. k - 1 : locks[i].unlock <= ts
      BY <1>1, <3>3, <3>4
    <3> QED  BY <3>3, <3>5, <3>6
  <2> QED  BY <2>1, <2>2
<1> QED  BY <1>2 DEF Expired

(******************************************************************************)
(* One account in ExecuteTransaction                                          *)
(******************************************************************************)
SoundAccount(acc) == acc \in UserState /\ Sorted(acc.locks)

SoundWorld(w) ==
  /\ w \in World
  /\ \A a \in Address : w[a] # Absent => Sorted(w[a].locks)

\* What identifies an account's votes, received and given.
SameVotes(acc, old) ==
  acc.votes = old.votes /\ acc.voteFor = old.voteFor /\ acc.votePledge = old.votePledge

LEMMA AccountTypes ==
  ASSUME NEW acc \in UserState
  PROVE  /\ acc.balance \in Nat /\ acc.nonce \in Nat /\ acc.votePledge \in Nat
         /\ acc.voteFor \in Seq(Address) /\ acc.voteTime \in Nat /\ acc.superPledge \in Nat
         /\ acc.superTime \in Nat /\ acc.votes \in Nat /\ acc.locks \in Seq(LockStatus)
  BY DEF UserState, Coins

LEMMA WorthIs ==
  ASSUME NEW acc \in UserState
  PROVE  /\ Worth(acc) = acc.balance + acc.votePledge + acc.superPledge + LockedCoins(acc.locks)
         /\ Worth(acc) \in Nat /\ LockedCoins(acc.locks) \in Nat
         /\ acc # Absent
<1>1. acc # Absent
  BY LedgerAssumption
<1>2. LockedCoins(acc.locks) \in Nat
  BY AccountTypes, LockedCoinsNat
<1> QED  BY <1>1, <1>2, AccountTypes DEF Worth

LEMMA NoLocks ==
  LockedCoins(<<>>) = 0 /\ Sorted(<<>>) /\ <<>> \in Seq(LockStatus)
<1> DEFINE v == [i \in {} |-> 0]
<1>1. LockedCoins(<<>>) = SumFunctionOnSet(v, 1 .. Len(<<>>))
  <2>1. \A i \in 1 .. Len(<<>>) : v[i] = <<>>[i].value
    OBVIOUS
  <2>2. <<>> \in Seq(LockStatus)
    OBVIOUS
  <2> HIDE DEF v
  <2> QED  BY <2>1, <2>2, LockedCoinsIs
<1>2. 1 .. Len(<<>>) = {}
  OBVIOUS
<1> QED  BY <1>1, <1>2, SumEmpty DEF Sorted

LEMMA FreshIs ==
  SoundAccount(Fresh) /\ Worth(Fresh) = 0
<1>1. Fresh \in UserState
  BY NoLocks DEF Fresh, UserState, Coins
<1> QED  BY <1>1, NoLocks, WorthIs DEF Fresh, SoundAccount

\* Expired locks are paid out and no coin is lost.
LEMMA UnlockedIs ==
  ASSUME NEW acc, SoundAccount(acc), NEW ts \in Nat
  PROVE  /\ SoundAccount(Unlocked(acc, ts))
         /\ Worth(Unlocked(acc, ts)) = Worth(acc)
         /\ SameVotes(Unlocked(acc, ts), acc)
<1> DEFINE n == Expired(acc.locks, ts)
           paid == LockedCoins(SubSeq(acc.locks, 1, n))
           rest == SubSeq(acc.locks, n + 1, Len(acc.locks))
           new == [acc EXCEPT !.balance = @ + paid, !.locks = rest]
<1>1. acc \in UserState /\ acc.locks \in Seq(LockStatus) /\ Sorted(acc.locks)
  BY AccountTypes DEF SoundAccount
<1>2. n \in 0 .. Len(acc.locks)
  BY <1>1, ExpiredIs
<1> HIDE DEF n
<1>3. rest \in Seq(LockStatus) /\ Sorted(rest)
  BY <1>1, <1>2, RestSorted
<1>4. LockedCoins(acc.locks) = paid + LockedCoins(rest)
  BY <1>1, <1>2, LockedCoinsSplit
<1>5. paid \in Nat
  <2>1. SubSeq(acc.locks, 1, n) \in Seq(LockStatus)
    BY <1>1, <1>2, SubSeqProperties
  <2> QED  BY <2>1, LockedCoinsNat
<1>6. LockedCoins(rest) \in Nat
  BY <1>3, LockedCoinsNat
<1>7. Unlocked(acc, ts) = new
  BY Zenon DEF Unlocked, n
<1> HIDE DEF paid, rest
<1>8. new \in UserState
  <2>1. acc.balance + paid \in Nat
    BY <1>1, <1>5, AccountTypes
  <2> QED  BY <1>1, <1>3, <2>1 DEF UserState, Coins
<1>9. /\ new.balance = acc.balance + paid /\ new.votePledge = acc.votePledge
      /\ new.superPledge = acc.superPledge /\ new.locks = rest
      /\ new.votes = acc.votes /\ new.voteFor = acc.voteFor
  BY <1>1 DEF UserState
<1> HIDE DEF new
<1>10. Worth(new) = Worth(acc)
  <2>1. Worth(acc) = acc.balance + acc.votePledge + acc.superPledge + LockedCoins(acc.locks)
    BY <1>1, WorthIs
  <2>2. Worth(new) = new.balance + new.votePledge + new.superPledge + LockedCoins(new.locks)
    BY <1>8, WorthIs
  <2>3. acc.balance \in Nat /\ acc.votePledge \in Nat /\ acc.superPledge \in Nat
    BY <1>1, AccountTypes
  <2> QED  BY <1>4, <1>5, <1>6, <1>9, <2>1, <2>2, <2>3
<1> QED  BY <1>3, <1>7, <1>8, <1>9, <1>10 DEF SoundAccount, SameVotes

\* A call that is not refused: two accounts exist and the sender's holds the fee.
LEMMA PaidIs ==
  ASSUME NEW w, SoundWorld(w), NEW p \in Producer, NEW ts \in Nat, NEW tx \in Tx,
         ~Refused(w, p, ts, tx)
  PROVE  /\ w[tx.from] \in UserState /\ w[p] \in UserState
         /\ SoundAccount(Paid(w, ts, tx)) /\ SoundAccount(Rewarded(w, p))
         /\ Worth(Paid(w, ts, tx)) = Worth(w[tx.from]) - Fee
         /\ Worth(Rewarded(w, p)) = Worth(w[p]) + Fee
         /\ SameVotes(Paid(w, ts, tx), w[tx.from]) /\ SameVotes(Rewarded(w, p), w[p])
<1> DEFINE from == w[tx.from]
           open == Unlocked(from, ts)
           paid == [open EXCEPT !.balance = @ - Fee]
           reward == [w[p] EXCEPT !.balance = @ + Fee]
<1>1. tx.from \in Address /\ p \in Address /\ Fee \in Nat /\ MaxFee \in Nat /\ Fee <= MaxFee
  BY LedgerAssumption DEF TxType
<1>2. from # Absent /\ w[p] # Absent /\ ~ (open.balance < MaxFee)
  BY DEF Refused
<1>3. from \in UserState /\ w[p] \in UserState /\ SoundAccount(from) /\ Sorted(w[p].locks)
  BY <1>1, <1>2 DEF SoundWorld, World, SoundAccount
<1>4. SoundAccount(open) /\ Worth(open) = Worth(from) /\ SameVotes(open, from)
  BY <1>3, UnlockedIs
<1>5. Paid(w, ts, tx) = paid /\ Rewarded(w, p) = reward
  BY DEF Paid, Rewarded
<1> HIDE DEF open, from
<1>6. open \in UserState /\ open.balance \in Nat /\ open.balance - Fee \in Nat
  BY <1>1, <1>2, <1>4, AccountTypes DEF SoundAccount
<1>7. paid \in UserState
  BY <1>6 DEF UserState, Coins
<1>8. /\ paid.balance = open.balance - Fee /\ paid.votePledge = open.votePledge
      /\ paid.superPledge = open.superPledge /\ paid.locks = open.locks
      /\ paid.votes = open.votes /\ paid.voteFor = open.voteFor
  BY <1>6 DEF UserState
<1>9. reward \in UserState
  <2>1. w[p].balance + Fee \in Nat
    BY <1>1, <1>3, AccountTypes
  <2> QED  BY <1>3, <2>1 DEF UserState, Coins
<1>10. /\ reward.balance = w[p].balance + Fee /\ reward.votePledge = w[p].votePledge
       /\ reward.superPledge = w[p].superPledge /\ reward.locks = w[p].locks
       /\ reward.votes = w[p].votes /\ reward.voteFor = w[p].voteFor
  BY <1>3 DEF UserState
<1> HIDE DEF paid, reward
<1>11. Worth(paid) = Worth(from) - Fee
  <2>1. Worth(open) = open.balance + open.votePledge + open.superPledge + LockedCoins(open.locks)
    BY <1>6, WorthIs
  <2>2. Worth(paid) = paid.balance + paid.votePledge + paid.superPledge + LockedCoins(paid.locks)
    BY <1>7, WorthIs
  <2>3. /\ open.votePledge \in Nat /\ open.superPledge \in Nat
        /\ LockedCoins(open.locks) \in Nat
    BY <1>6, AccountTypes, WorthIs
  <2> QED  BY <1>1, <1>4, <1>6, <1>8, <2>1, <2>2, <2>3
<1>12. Worth(reward) = Worth(w[p]) + Fee
  <2>1. Worth(w[p]) =
          w[p].balance + w[p].votePledge + w[p].superPledge + LockedCoins(w[p].locks)
    BY <1>3, WorthIs
  <2>2. Worth(reward) =
          reward.balance + reward.votePledge + reward.superPledge + LockedCoins(reward.locks)
    BY <1>9, WorthIs
  <2>3. /\ w[p].balance \in Nat /\ w[p].votePledge \in Nat /\ w[p].superPledge \in Nat
        /\ LockedCoins(w[p].locks) \in Nat
    BY <1>3, AccountTypes, WorthIs
  <2> QED  BY <1>1, <1>10, <2>1, <2>2, <2>3
<1>13. SoundAccount(paid) /\ SoundAccount(reward)
  BY <1>3, <1>4, <1>7, <1>8, <1>9, <1>10 DEF SoundAccount
<1> QED  BY <1>3, <1>4, <1>5, <1>8, <1>10, <1>11, <1>12, <1>13 DEF SameVotes, from

\* The coins a transaction moves to its receiver.
Sent(tx) == IF tx.kind \in {"transfer", "lock"} THEN tx.value ELSE 0

LEMMA TxTypes ==
  ASSUME NEW tx \in Tx
  PROVE  /\ tx.from \in Address /\ tx.to \in Address /\ tx.nonce \in Nat /\ tx.value \in Nat
         /\ tx.kind \in Kinds /\ tx.voteFor \in Seq(Address) /\ tx.round \in Nat
         /\ tx.unlock \in Nat /\ Sent(tx) \in Nat
  BY LedgerAssumption DEF TxType, Coins, Sent

LEMMA DebitedIs ==
  ASSUME NEW acc, SoundAccount(acc), NEW tx \in Tx, tx.value <= acc.balance
  PROVE  /\ SoundAccount(Debited(acc, tx))
         /\ Worth(Debited(acc, tx)) = Worth(acc) - tx.value
         /\ SameVotes(Debited(acc, tx), acc)
<1> DEFINE new == [acc EXCEPT !.balance = @ - tx.value, !.nonce = @ + 1]
<1>1. acc \in UserState /\ Sorted(acc.locks) /\ acc.balance \in Nat /\ acc.nonce \in Nat
  BY AccountTypes DEF SoundAccount
<1>2. tx.value \in Nat
  BY TxTypes
<1>3. Debited(acc, tx) = new
  BY DEF Debited
<1>4. new \in UserState
  <2>1. acc.balance - tx.value \in Nat /\ acc.nonce + 1 \in Nat
    BY <1>1, <1>2
  <2> QED  BY <1>1, <2>1 DEF UserState, Coins
<1>5. /\ new.balance = acc.balance - tx.value /\ new.votePledge = acc.votePledge
      /\ new.superPledge = acc.superPledge /\ new.locks = acc.locks
      /\ new.votes = acc.votes /\ new.voteFor = acc.voteFor
  BY <1>1 DEF UserState
<1> HIDE DEF new
<1>6. Worth(new) = Worth(acc) - tx.value
  <2>1. Worth(acc) = acc.balance + acc.votePledge + acc.superPledge + LockedCoins(acc.locks)
    BY <1>1, WorthIs
  <2>2. Worth(new) = new.balance + new.votePledge + new.superPledge + LockedCoins(new.locks)
    BY <1>4, WorthIs
  <2>3. acc.votePledge \in Nat /\ acc.superPledge \in Nat /\ LockedCoins(acc.locks) \in Nat
    BY <1>1, AccountTypes, WorthIs
  <2> QED  BY <1>1, <1>2, <1>5, <2>1, <2>2, <2>3
<1> QED  BY <1>1, <1>3, <1>4, <1>5, <1>6 DEF SoundAccount, SameVotes

\* The switch moves coins within the sender's account: what leaves it goes to
\* the receiver, and a redemption that carries coins has failed before.
LEMMA ChangedIs ==
  ASSUME NEW acc, SoundAccount(acc), NEW ts \in Nat, NEW tx \in Tx,
         tx.kind \in {"redeem", "unvote"} => tx.value = 0
  PROVE  /\ SoundAccount(Changed(ts, tx, acc))
         /\ Worth(Changed(ts, tx, acc)) = Worth(acc) + tx.value - Sent(tx)
<1> DEFINE new == Changed(ts, tx, acc)
<1>1. /\ acc \in UserState /\ Sorted(acc.locks) /\ acc.balance \in Nat
      /\ acc.votePledge \in Nat /\ acc.superPledge \in Nat /\ LockedCoins(acc.locks) \in Nat
  BY AccountTypes, WorthIs DEF SoundAccount
<1>2. tx.value \in Nat /\ tx.kind \in Kinds /\ tx.voteFor \in Seq(Address)
  BY TxTypes
<1>3. Worth(acc) = acc.balance + acc.votePledge + acc.superPledge + LockedCoins(acc.locks)
  BY <1>1, WorthIs
<1>4. ASSUME new \in UserState, new.locks = acc.locks,
             new.balance + new.votePledge + new.superPledge =
               acc.balance + acc.votePledge + acc.superPledge + tx.value - Sent(tx)
      PROVE  SoundAccount(new) /\ Worth(new) = Worth(acc) + tx.value - Sent(tx)
  <2> HIDE DEF new
  <2>1. Worth(new) = new.balance + new.votePledge + new.superPledge + LockedCoins(new.locks)
    BY <1>4, WorthIs
  <2>2. new.balance \in Nat /\ new.votePledge \in Nat /\ new.superPledge \in Nat
    BY <1>4, AccountTypes
  <2>3. Sent(tx) \in Nat
    BY TxTypes
  <2>4. LockedCoins(new.locks) = LockedCoins(acc.locks) /\ Sorted(new.locks)
    BY <1>1, <1>4
  <2>5. Worth(new) = Worth(acc) + tx.value - Sent(tx)
    <3> DEFINE b == new.balance + new.votePledge + new.superPledge
               c == acc.balance + acc.votePledge + acc.superPledge
               l == LockedCoins(acc.locks)
    <3>1. Worth(new) = b + l /\ Worth(acc) = c + l /\ l \in Int
      BY <1>1, <1>3, <2>1, <2>4
    <3>2. b \in Int
      BY <2>2
    <3>3. c \in Int
      BY <1>1
    <3>4. tx.value \in Int /\ Sent(tx) \in Int
      BY <1>2, <2>3
    <3>5. b = c + tx.value - Sent(tx)
      BY <1>1, <1>2, <1>4, <2>3
    <3> HIDE DEF b, c, l
    <3> QED  BY <3>1, <3>2, <3>3, <3>4, <3>5
  <2> QED  BY <1>4, <2>4, <2>5 DEF SoundAccount
<1>5. CASE tx.kind = "pledge"
  <2>1. new = [acc EXCEPT !.superPledge = @ + tx.value, !.superTime = ts]
    BY <1>5 DEF Changed
  <2>2. acc.superPledge + tx.value \in Nat
    BY <1>1, <1>2
  <2> HIDE DEF new
  <2>3. new \in UserState
    BY <1>1, <2>1, <2>2 DEF UserState, Coins
  <2>4. /\ new.balance = acc.balance /\ new.votePledge = acc.votePledge
        /\ new.superPledge = acc.superPledge + tx.value /\ new.locks = acc.locks
    BY <1>1, <2>1 DEF UserState
  <2>5. Sent(tx) = 0
    BY <1>5 DEF Sent
  <2> QED  BY <1>1, <1>2, <1>4, <2>3, <2>4, <2>5 DEF new
<1>6. CASE tx.kind = "redeem"
  <2>1. new = [acc EXCEPT !.balance = @ + acc.superPledge, !.superPledge = 0, !.superTime = 0]
    BY <1>6 DEF Changed
  <2>2. acc.balance + acc.superPledge \in Nat
    BY <1>1, <1>2
  <2> HIDE DEF new
  <2>3. new \in UserState
    BY <1>1, <2>1, <2>2 DEF UserState, Coins
  <2>4. /\ new.balance = acc.balance + acc.superPledge /\ new.votePledge = acc.votePledge
        /\ new.superPledge = 0 /\ new.locks = acc.locks
    BY <1>1, <2>1 DEF UserState
  <2>5. Sent(tx) = 0 /\ tx.value = 0
    BY <1>6 DEF Sent
  <2> QED  BY <1>1, <1>2, <1>4, <2>3, <2>4, <2>5 DEF new
<1>7. CASE tx.kind = "vote"
  <2>1. new = [acc EXCEPT !.votePledge = @ + tx.value, !.voteFor = tx.voteFor, !.voteTime = ts]
    BY <1>7 DEF Changed
  <2>2. acc.votePledge + tx.value \in Nat
    BY <1>1, <1>2
  <2> HIDE DEF new
  <2>3. new \in UserState
    BY <1>1, <1>2, <2>1, <2>2 DEF UserState, Coins
  <2>4. /\ new.balance = acc.balance /\ new.votePledge = acc.votePledge + tx.value
        /\ new.superPledge = acc.superPledge /\ new.locks = acc.locks
    BY <1>1, <2>1 DEF UserState
  <2>5. Sent(tx) = 0
    BY <1>7 DEF Sent
  <2> QED  BY <1>1, <1>2, <1>4, <2>3, <2>4, <2>5 DEF new
<1>8. CASE tx.kind = "unvote"
  <2>1. new = [acc EXCEPT !.balance = @ + acc.votePledge, !.votePledge = 0,
                          !.voteFor = <<>>, !.voteTime = 0]
    BY <1>8 DEF Changed
  <2>2. acc.balance + acc.votePledge \in Nat /\ <<>> \in Seq(Address)
    BY <1>1, <1>2
  <2> HIDE DEF new
  <2>3. new \in UserState
    BY <1>1, <2>1, <2>2 DEF UserState, Coins
  <2>4. /\ new.balance = acc.balance + acc.votePledge /\ new.votePledge = 0
        /\ new.superPledge = acc.superPledge /\ new.locks = acc.locks
    BY <1>1, <2>1 DEF UserState
  <2>5. Sent(tx) = 0 /\ tx.value = 0
    BY <1>8 DEF Sent
  <2> QED  BY <1>1, <1>2, <1>4, <2>3, <2>4, <2>5 DEF new
<1>9. CASE tx.kind \in {"transfer", "lock"}
  <2>1. new = acc
    BY <1>9 DEF Changed
  <2>2. Sent(tx) = tx.value
    BY <1>9 DEF Sent
  <2> HIDE DEF new
  <2> QED  BY <1>1, <1>2, <1>4, <2>1, <2>2 DEF new
<1> QED  BY <1>2, <1>5, <1>6, <1>7, <1>8, <1>9 DEF Kinds

\* Votes are given to and taken back from accounts that exist; nothing else of
\* them changes.
LEMMA AddVotesIs ==
  ASSUME NEW w, SoundWorld(w), NEW addrs, NEW n \in Int,
         \A a \in addrs : a \in Address => w[a] # Absent
  PROVE  /\ SoundWorld(AddVotes(w, addrs, n))
         /\ \A a \in Address :
              /\ AddVotes(w, addrs, n)[a] = Absent <=> w[a] = Absent
              /\ a \notin addrs => AddVotes(w, addrs, n)[a] = w[a]
              /\ Worth(AddVotes(w, addrs, n)[a]) = Worth(w[a])
              /\ w[a] # Absent =>
                   /\ AddVotes(w, addrs, n)[a].voteFor = w[a].voteFor
                   /\ AddVotes(w, addrs, n)[a].votePledge = w[a].votePledge
                   /\ a \in addrs => AddVotes(w, addrs, n)[a].votes = (w[a].votes + n) % VoteSize
<1> DEFINE new == AddVotes(w, addrs, n)
<1>1. new \in [Address -> {IF a \in addrs THEN [w[a] EXCEPT !.votes = (@ + n) % VoteSize]
                           ELSE w[a] : a \in Address}]
  BY DEF AddVotes
<1>2. \A a \in Address : new[a] = IF a \in addrs THEN [w[a] EXCEPT !.votes = (@ + n) % VoteSize]
                                  ELSE w[a]
  BY DEF AddVotes
<1>3. new = [a \in Address |-> new[a]]
  BY DEF AddVotes
<1> HIDE DEF new
<1>4. VoteSize \in Nat \ {0}
  BY LedgerAssumption
<1>5. ASSUME NEW a \in Address
      PROVE  /\ new[a] \in UserState \cup {Absent}
             /\ new[a] = Absent <=> w[a] = Absent
             /\ new[a] # Absent => Sorted(new[a].locks)
             /\ a \notin addrs => new[a] = w[a]
             /\ Worth(new[a]) = Worth(w[a])
             /\ w[a] # Absent =>
                  /\ new[a].voteFor = w[a].voteFor
                  /\ new[a].votePledge = w[a].votePledge
                  /\ a \in addrs => new[a].votes = (w[a].votes + n) % VoteSize
  <2>1. w[a] \in UserState \cup {Absent} /\ (w[a] # Absent => Sorted(w[a].locks))
    BY DEF SoundWorld, World
  <2>2. CASE a \notin addrs
    BY <1>2, <2>1, <2>2
  <2>3. CASE a \in addrs
    <3>1. w[a] \in UserState /\ w[a] # Absent /\ w[a].votes \in Nat
      BY <2>1, <2>3, AccountTypes
    <3>2. new[a] = [w[a] EXCEPT !.votes = (@ + n) % VoteSize]
      BY <1>2, <2>3
    <3>3. (w[a].votes + n) % VoteSize \in Nat
      BY <1>4, <3>1
    <3>4. new[a] \in UserState
      BY <3>1, <3>2, <3>3 DEF UserState
    <3>5. /\ new[a].balance = w[a].balance /\ new[a].votePledge = w[a].votePledge
          /\ new[a].superPledge = w[a].superPledge /\ new[a].locks = w[a].locks
          /\ new[a].votes = (w[a].votes + n) % VoteSize /\ new[a].voteFor = w[a].voteFor
      BY <3>1, <3>2 DEF UserState
    <3>6. Worth(new[a]) = Worth(w[a]) /\ new[a] # Absent
      BY <3>1, <3>4, <3>5, WorthIs
    <3> QED  BY <2>1, <2>3, <3>1, <3>4, <3>5, <3>6
  <2> QED  BY <2>2, <2>3
<1>6. SoundWorld(new)
  <2>1. new \in World
    BY <1>3, <1>5 DEF World
  <2> QED  BY <1>5, <2>1 DEF SoundWorld
<1> QED  BY <1>5, <1>6 DEF new

\* A transfer or a lock reaches its receiver, who may not have been in the tree.
LEMMA SpreadCoins ==
  ASSUME NEW w, SoundWorld(w), NEW ts \in Nat, NEW tx \in Tx, NEW acc,
         tx.kind \in {"transfer", "lock"}
  PROVE  /\ SoundWorld(Spread(w, ts, tx, acc))
         /\ \A a \in Address :
              /\ Worth(Spread(w, ts, tx, acc)[a]) =
                   Worth(w[a]) + IF a = tx.to THEN Sent(tx) ELSE 0
              /\ a # tx.to => Spread(w, ts, tx, acc)[a] = w[a]
         /\ Spread(w, ts, tx, acc)[tx.to] # Absent
         /\ w[tx.to] # Absent => SameVotes(Spread(w, ts, tx, acc)[tx.to], w[tx.to])
         /\ w[tx.to] = Absent => SameVotes(Spread(w, ts, tx, acc)[tx.to], Fresh)
<1> DEFINE to == tx.to
           old == Receiver(w, tx)
           lock == [value |-> tx.value, unlock |-> tx.unlock]
           paid == [old EXCEPT !.balance = @ + tx.value]
           held == [old EXCEPT !.locks = InsertLock(@, lock)]
           new == Spread(w, ts, tx, acc)
<1>1. tx.value \in Nat /\ tx.unlock \in Nat /\ to \in Address /\ Sent(tx) = tx.value
  BY TxTypes DEF Sent
<1>2. /\ \A a \in Address : /\ w[a] \in UserState \cup {Absent}
                            /\ w[a] # Absent => Sorted(w[a].locks)
      /\ w \in [Address -> UserState \cup {Absent}]
  BY DEF SoundWorld, World
<1>3. /\ old \in UserState /\ Sorted(old.locks) /\ Worth(old) = Worth(w[to])
      /\ w[to] # Absent => old = w[to]
      /\ w[to] = Absent => old = Fresh
  <2>1. w[to] # Absent => old = w[to]
    BY DEF Receiver
  <2>2. w[to] = Absent => old = Fresh
    BY DEF Receiver
  <2>3. Worth(Absent) = 0
    BY DEF Worth
  <2> QED  BY <1>1, <1>2, <2>1, <2>2, <2>3, FreshIs DEF SoundAccount
<1> HIDE DEF old
<1>4. /\ old.balance \in Nat /\ old.locks \in Seq(LockStatus)
      /\ old.votePledge \in Nat /\ old.superPledge \in Nat /\ LockedCoins(old.locks) \in Nat
      /\ Worth(old) = old.balance + old.votePledge + old.superPledge + LockedCoins(old.locks)
  BY <1>3, AccountTypes, WorthIs
<1>5. ASSUME NEW x, x \in UserState, Sorted(x.locks), Worth(x) = Worth(old) + tx.value,
             SameVotes(x, old), new = [w EXCEPT ![to] = x]
      PROVE  /\ SoundWorld(new)
             /\ \A a \in Address : /\ Worth(new[a]) = Worth(w[a]) + IF a = to THEN Sent(tx) ELSE 0
                                   /\ a # to => new[a] = w[a]
             /\ new[to] # Absent
             /\ w[to] # Absent => SameVotes(new[to], w[to])
             /\ w[to] = Absent => SameVotes(new[to], Fresh)
  <2> HIDE DEF new, to
  <2>1. new \in World /\ new[to] = x /\ \A a \in Address : a # to => new[a] = w[a]
    BY <1>1, <1>2, <1>5 DEF World
  <2>2. \A a \in Address : Worth(w[a]) \in Nat
    <3>1. Worth(Absent) = 0
      BY DEF Worth
    <3> QED  BY <1>2, <3>1, WorthIs
  <2>3. SoundWorld(new)
    BY <1>2, <1>5, <2>1 DEF SoundWorld
  <2>4. x # Absent
    BY <1>5, WorthIs
  <2> QED  BY <1>1, <1>3, <1>5, <2>1, <2>2, <2>3, <2>4
<1>6. CASE IsTransfer(ts, tx)
  <2>1. new = [w EXCEPT ![to] = paid]
    BY <1>1, <1>6 DEF Spread, old, IsTransfer
  <2>2. paid \in UserState
    <3>1. old.balance + tx.value \in Nat
      BY <1>1, <1>4
    <3> QED  BY <1>3, <3>1 DEF UserState, Coins
  <2>3. /\ paid.balance = old.balance + tx.value /\ paid.votePledge = old.votePledge
        /\ paid.superPledge = old.superPledge /\ paid.locks = old.locks
        /\ SameVotes(paid, old)
    BY <1>3 DEF UserState, SameVotes
  <2> HIDE DEF paid
  <2>4. Worth(paid) = paid.balance + paid.votePledge + paid.superPledge + LockedCoins(paid.locks)
    BY <2>2, WorthIs
  <2>5. Worth(paid) = Worth(old) + tx.value
    BY <1>1, <1>4, <2>3, <2>4
  <2> HIDE DEF new
  <2> QED  BY <1>3, <1>5, <2>1, <2>2, <2>3, <2>5 DEF new
<1>7. CASE ~ IsTransfer(ts, tx)
  <2>1. tx.kind = "lock" /\ tx.unlock > ts
    BY <1>1, <1>7 DEF IsTransfer
  <2>2. new = [w EXCEPT ![to] = held]
    BY <1>7, <2>1 DEF Spread, old
  <2>3. lock \in LockStatus /\ lock.value = tx.value
    BY <1>1 DEF LockStatus, Coins
  <2> HIDE DEF lock
  <2>4. InsertLock(old.locks, lock) \in Seq(LockStatus)
    BY <1>4, <2>3, InsertLockIs
  <2>5. Sorted(InsertLock(old.locks, lock))
    BY <1>3, <1>4, <2>3, InsertLockSorted
  <2>6. LockedCoins(InsertLock(old.locks, lock)) = LockedCoins(old.locks) + tx.value
    BY <1>4, <2>3, LockedCoinsInsert
  <2>7. held \in UserState
    BY <1>3, <2>4 DEF UserState
  <2>8. /\ held.balance = old.balance /\ held.votePledge = old.votePledge
        /\ held.superPledge = old.superPledge /\ held.locks = InsertLock(old.locks, lock)
        /\ SameVotes(held, old)
    BY <1>3 DEF UserState, SameVotes
  <2> HIDE DEF held
  <2>9. Worth(held) = held.balance + held.votePledge + held.superPledge + LockedCoins(held.locks)
    BY <2>7, WorthIs
  <2>10. Worth(held) = Worth(old) + tx.value
    BY <1>1, <1>4, <2>6, <2>8, <2>9
  <2> HIDE DEF new
  <2> QED  BY <1>5, <2>2, <2>5, <2>7, <2>8, <2>10 DEF new
<1> QED  BY <1>6, <1>7 DEF new

\* A vote takes the sender's coins back from whom it voted for and gives all of
\* them to whom it votes for now; a redemption does the first only.
VotesLeft(w, acc, a) ==
  IF a \in Range(acc.voteFor) THEN (w[a].votes + (- acc.votePledge)) % VoteSize
                              ELSE w[a].votes

LEMMA SpreadVotes ==
  ASSUME NEW w, SoundWorld(w), NEW ts \in Nat, NEW tx \in Tx, NEW acc \in UserState,
         tx.kind \in {"vote", "unvote"}, OldVotesPresent(w, acc),
         tx.kind = "vote" => \A a \in Range(tx.voteFor) : w[a] # Absent
  PROVE  /\ SoundWorld(Spread(w, ts, tx, acc))
         /\ \A a \in Address :
              /\ Spread(w, ts, tx, acc)[a] = Absent <=> w[a] = Absent
              /\ Worth(Spread(w, ts, tx, acc)[a]) = Worth(w[a])
              /\ w[a] # Absent =>
                   /\ Spread(w, ts, tx, acc)[a].voteFor = w[a].voteFor
                   /\ Spread(w, ts, tx, acc)[a].votePledge = w[a].votePledge
                   /\ Spread(w, ts, tx, acc)[a].votes =
                        IF tx.kind = "vote" /\ a \in Range(tx.voteFor)
                          THEN (VotesLeft(w, acc, a) + (acc.votePledge + tx.value)) % VoteSize
                          ELSE VotesLeft(w, acc, a)
<1> DEFINE new == Spread(w, ts, tx, acc)
           back == AddVotes(w, Range(acc.voteFor), - acc.votePledge)
           given == AddVotes(back, Range(tx.voteFor), acc.votePledge + tx.value)
<1>1. acc.votePledge \in Nat /\ tx.value \in Nat /\ - acc.votePledge \in Int
  BY TxTypes, AccountTypes
<1>2. \A a \in Range(acc.voteFor) : a \in Address => w[a] # Absent
  BY DEF OldVotesPresent
<1>3. /\ SoundWorld(back)
      /\ \A a \in Address :
           /\ back[a] = Absent <=> w[a] = Absent
           /\ a \notin Range(acc.voteFor) => back[a] = w[a]
           /\ Worth(back[a]) = Worth(w[a])
           /\ w[a] # Absent =>
                /\ back[a].voteFor = w[a].voteFor
                /\ back[a].votePledge = w[a].votePledge
                /\ a \in Range(acc.voteFor) =>
                     back[a].votes = (w[a].votes + (- acc.votePledge)) % VoteSize
  <2> DEFINE addrs == Range(acc.voteFor)
             n == - acc.votePledge
  <2>1. \A a \in addrs : a \in Address => w[a] # Absent
    BY <1>2
  <2>2. n \in Int
    BY <1>1
  <2> HIDE DEF addrs, n
  <2>3. /\ SoundWorld(AddVotes(w, addrs, n))
        /\ \A a \in Address :
             /\ AddVotes(w, addrs, n)[a] = Absent <=> w[a] = Absent
             /\ a \notin addrs => AddVotes(w, addrs, n)[a] = w[a]
             /\ Worth(AddVotes(w, addrs, n)[a]) = Worth(w[a])
             /\ w[a] # Absent =>
                  /\ AddVotes(w, addrs, n)[a].voteFor = w[a].voteFor
                  /\ AddVotes(w, addrs, n)[a].votePledge = w[a].votePledge
                  /\ a \in addrs => AddVotes(w, addrs, n)[a].votes = (w[a].votes + n) % VoteSize
    BY <2>1, <2>2, AddVotesIs
  <2> QED  BY <2>3 DEF addrs, n
<1> HIDE DEF back
<1>4. \A a \in Address : w[a] # Absent => back[a].votes = VotesLeft(w, acc, a)
  BY <1>3 DEF VotesLeft
<1>5. CASE tx.kind = "unvote"
  <2>1. new = back
    BY <1>5 DEF Spread, back, IsTransfer
  <2>2. ~ (tx.kind = "vote")
    BY <1>5
  <2> HIDE DEF new
  <2> QED  BY <1>3, <1>4, <2>1, <2>2 DEF new
<1>6. CASE tx.kind = "vote"
  <2>1. new = given
    BY <1>6 DEF Spread, back, IsTransfer
  <2>2. \A a \in Range(tx.voteFor) : a \in Address => back[a] # Absent
    BY <1>3, <1>6
  <2> DEFINE addrs == Range(tx.voteFor)
             n == acc.votePledge + tx.value
  <2>3. n \in Int
    BY <1>1
  <2>4. \A a \in addrs : a \in Address => back[a] # Absent
    BY <2>2
  <2>5. given = AddVotes(back, addrs, n)
    OBVIOUS
  <2> HIDE DEF addrs, n, given, new
  <2>6. /\ SoundWorld(given)
        /\ \A a \in Address :
             /\ given[a] = Absent <=> back[a] = Absent
             /\ a \notin addrs => given[a] = back[a]
             /\ Worth(given[a]) = Worth(back[a])
             /\ back[a] # Absent =>
                  /\ given[a].voteFor = back[a].voteFor
                  /\ given[a].votePledge = back[a].votePledge
                  /\ a \in addrs => given[a].votes = (back[a].votes + n) % VoteSize
    BY <1>3, <2>3, <2>4, <2>5, AddVotesIs
  <2> QED  BY <1>3, <1>4, <1>6, <2>1, <2>6 DEF new, addrs, n
<1> QED  BY <1>5, <1>6 DEF new

\* A pledge of one's own or its redemption touches no other account.
LEMMA SpreadNothing ==
  ASSUME NEW w, NEW ts, NEW tx \in Tx, NEW acc, tx.kind \in {"pledge", "redeem"}
  PROVE  Spread(w, ts, tx, acc) = w
  BY DEF Spread, IsTransfer

(******************************************************************************)
(* The accounts written last                                                  *)
(******************************************************************************)
LEMMA SettleIs ==
  ASSUME NEW w, SoundWorld(w), NEW p \in Producer, NEW reward, SoundAccount(reward),
         NEW tx \in Tx, NEW acc, SoundAccount(acc)
  PROVE  /\ SoundWorld(Settle(w, p, reward, tx, acc))
         /\ Settle(w, p, reward, tx, acc)[tx.from] = IF Removable(acc) THEN Absent ELSE acc
         /\ p # tx.from => Settle(w, p, reward, tx, acc)[p] = reward
         /\ \A a \in Address : a \notin {p, tx.from} => Settle(w, p, reward, tx, acc)[a] = w[a]
         /\ Worth(Settle(w, p, reward, tx, acc)[tx.from]) = Worth(acc)
<1> DEFINE new == Settle(w, p, reward, tx, acc)
           mid == [w EXCEPT ![p] = reward]
           last == IF Removable(acc) THEN Absent ELSE acc
<1>1. tx.from \in Address /\ p \in Address
  BY TxTypes, LedgerAssumption
<1>2. w \in [Address -> UserState \cup {Absent}] /\ reward \in UserState /\ acc \in UserState
  BY DEF SoundWorld, SoundAccount, World
<1>3. mid \in [Address -> UserState \cup {Absent}]
  BY <1>1, <1>2
<1>4. /\ mid[p] = reward /\ \A a \in Address : a # p => mid[a] = w[a]
  BY <1>1, <1>2
<1>5. new = [mid EXCEPT ![tx.from] = last]
  BY DEF Settle, SetFromState
<1>6. last \in UserState \cup {Absent} /\ (last # Absent => last = acc)
  BY <1>2
<1>7. Worth(last) = Worth(acc)
  <2>1. CASE Removable(acc)
    <3>1. Worth(acc) = acc.balance + acc.votePledge + acc.superPledge + LockedCoins(acc.locks)
      BY <1>2, WorthIs
    <3>2. /\ acc.balance = 0 /\ acc.votePledge = 0 /\ acc.superPledge = 0 /\ acc.locks = <<>>
      BY <2>1 DEF Removable
    <3>3. Worth(acc) = 0
      BY <3>1, <3>2, NoLocks
    <3> QED  BY <2>1, <3>3 DEF Worth
  <2>2. CASE ~ Removable(acc)
    BY <2>2
  <2> QED  BY <2>1, <2>2
<1> HIDE DEF mid, last, new
<1>8. /\ new \in World /\ new[tx.from] = last
      /\ \A a \in Address : a # tx.from => new[a] = mid[a]
  BY <1>1, <1>3, <1>5, <1>6 DEF World
<1>9. \A a \in Address : new[a] # Absent => Sorted(new[a].locks)
  BY <1>4, <1>6, <1>8 DEF SoundWorld, SoundAccount
<1>10. p # tx.from => new[p] = reward
  BY <1>1, <1>4, <1>8
<1>11. \A a \in Address : a \notin {p, tx.from} => new[a] = w[a]
  BY <1>4, <1>8
<1>12. SoundWorld(new)
  BY <1>8, <1>9 DEF SoundWorld
<1>13. Worth(new[tx.from]) = Worth(acc)
  BY <1>7, <1>8
<1> QED  BY <1>8, <1>10, <1>11, <1>12, <1>13 DEF new, last

(******************************************************************************)
(* The ways ExecuteTransaction ends                                           *)
(******************************************************************************)
LEMMA WorldWorth ==
  ASSUME NEW w, SoundWorld(w)
  PROVE  \A a \in Address : Worth(w[a]) \in Nat /\ Worth(w[a]) \in Int
<1>1. Worth(Absent) = 0
  BY DEF Worth
<1> QED  BY <1>1, WorthIs DEF SoundWorld, World

LEMMA SuccessIs ==
  ASSUME NEW w, SoundWorld(w), NEW p \in Producer, NEW ts \in Nat, NEW tx \in Tx, NEW acc,
         ~Refused(w, p, ts, tx), ~Fails(w, ts, tx, Paid(w, ts, tx)),
         acc = Debited(Paid(w, ts, tx), tx), ~Throws(w, ts, tx, acc)
  PROVE  /\ SoundAccount(acc) /\ SameVotes(acc, w[tx.from])
         /\ SoundAccount(Changed(ts, tx, acc))
         /\ Worth(Changed(ts, tx, acc)) = Worth(w[tx.from]) - Fee - Sent(tx)
         /\ SoundWorld(Spread(w, ts, tx, acc))
         /\ \A a \in Address : Worth(Spread(w, ts, tx, acc)[a]) =
                                 Worth(w[a]) + IF a = tx.to THEN Sent(tx) ELSE 0
         /\ tx.kind \in {"vote", "unvote"} => OldVotesPresent(w, acc)
         /\ tx.kind = "vote" => \A a \in Range(tx.voteFor) : w[a] # Absent
         /\ tx.kind = "unvote" => tx.value = 0
<1> DEFINE paid == Paid(w, ts, tx)
<1>1. /\ w[tx.from] \in UserState /\ SoundAccount(paid)
      /\ Worth(paid) = Worth(w[tx.from]) - Fee /\ SameVotes(paid, w[tx.from])
  BY PaidIs
<1> HIDE DEF paid
<1>2. tx.value \in Nat /\ tx.kind \in Kinds /\ Sent(tx) \in Nat /\ paid.balance \in Nat
  BY <1>1, TxTypes, AccountTypes DEF SoundAccount
<1>3. tx.value <= paid.balance
  <2>1. ~ (paid.balance < tx.value)
    BY DEF Fails, paid
  <2> QED  BY <1>2, <2>1
<1>4. /\ SoundAccount(acc) /\ Worth(acc) = Worth(paid) - tx.value /\ SameVotes(acc, paid)
  BY <1>1, <1>3, DebitedIs DEF paid
<1>5. tx.kind \in {"redeem", "unvote"} => tx.value = 0
  BY DEF Fails
<1>6. tx.kind \in {"vote", "unvote"} => OldVotesPresent(w, acc)
  BY DEF Throws
<1>7. tx.kind = "vote" => \A a \in Range(tx.voteFor) : w[a] # Absent
  <2> SUFFICES ASSUME tx.kind = "vote", NEW a \in Range(tx.voteFor) PROVE w[a] # Absent
    OBVIOUS
  <2>1. tx.round = Rounds(ts)
    BY DEF Throws
  <2>2. OldVotesPresent(w, paid)
    BY <1>4, <1>6 DEF OldVotesPresent, SameVotes
  <2>3. ~ Unelectable(w, ts, a)
    BY <2>1, <2>2 DEF Fails, paid
  <2> QED  BY <2>3 DEF Unelectable
<1>8. /\ SoundAccount(Changed(ts, tx, acc))
      /\ Worth(Changed(ts, tx, acc)) = Worth(acc) + tx.value - Sent(tx)
  BY <1>4, <1>5, ChangedIs
<1>9. Worth(w[tx.from]) \in Nat /\ Fee \in Nat
  BY <1>1, WorthIs, LedgerAssumption
<1>10. Worth(Changed(ts, tx, acc)) = Worth(w[tx.from]) - Fee - Sent(tx)
  BY <1>1, <1>2, <1>4, <1>8, <1>9
<1>11. /\ SoundWorld(Spread(w, ts, tx, acc))
       /\ \A a \in Address : Worth(Spread(w, ts, tx, acc)[a]) =
                               Worth(w[a]) + IF a = tx.to THEN Sent(tx) ELSE 0
  <2>1. CASE tx.kind \in {"transfer", "lock"}
    BY <2>1, SpreadCoins
  <2>2. tx.kind \notin {"transfer", "lock"} => Sent(tx) = 0
    BY DEF Sent
  <2>3. \A a \in Address : Worth(w[a]) = Worth(w[a]) + 0
    BY WorldWorth
  <2>4. CASE tx.kind \in {"vote", "unvote"}
    <3>1. acc \in UserState
      BY <1>4 DEF SoundAccount
    <3>2. /\ SoundWorld(Spread(w, ts, tx, acc))
          /\ \A a \in Address : Worth(Spread(w, ts, tx, acc)[a]) = Worth(w[a])
      BY <1>6, <1>7, <2>4, <3>1, SpreadVotes
    <3> QED  BY <2>2, <2>3, <2>4, <3>2
  <2>5. CASE tx.kind \in {"pledge", "redeem"}
    BY <2>2, <2>3, <2>5, SpreadNothing
  <2> QED  BY <1>2, <2>1, <2>4, <2>5 DEF Kinds
<1>12. SameVotes(acc, w[tx.from])
  BY <1>1, <1>4 DEF SameVotes
<1> QED  BY <1>4, <1>5, <1>6, <1>7, <1>8, <1>10, <1>11, <1>12

\* A redemption that stops half way has moved votes, not coins.
LEMMA TornIs ==
  ASSUME NEW w, SoundWorld(w), NEW tx \in Tx, NEW acc \in UserState
  PROVE  /\ SoundWorld(Torn(w, tx, acc))
         /\ \A a \in Address : Worth(Torn(w, tx, acc)[a]) = Worth(w[a])
<1>1. CASE tx.kind = "unvote"
  <2> DEFINE n == - acc.votePledge
             addrs == Reached(w, acc)
  <2>1. n \in Int
    BY AccountTypes
  <2>2. \A a \in addrs : a \in Address => w[a] # Absent
    <3> SUFFICES ASSUME NEW i \in DOMAIN acc.voteFor,
                        \A k \in 1 .. i : w[acc.voteFor[k]] # Absent
                 PROVE  w[acc.voteFor[i]] # Absent
      BY DEF Reached
    <3>1. acc.voteFor \in Seq(Address)
      BY AccountTypes
    <3>2. i \in 1 .. i
      BY <3>1
    <3> QED  BY <3>2
  <2>3. Torn(w, tx, acc) = AddVotes(w, addrs, n)
    BY <1>1 DEF Torn
  <2> HIDE DEF n, addrs
  <2> QED  BY <2>1, <2>2, <2>3, AddVotesIs
<1>2. CASE tx.kind # "unvote"
  BY <1>2 DEF Torn
<1> QED  BY <1>1, <1>2

LEMMA SupplyIs ==
  ASSUME NEW w, NEW v, \A a \in Address : Worth(w[a]) \in Int /\ v[a] = Worth(w[a])
  PROVE  Supply(w) = SumFunctionOnSet(v, Address) /\ Supply(w) \in Int
<1> DEFINE u == [a \in Address |-> Worth(w[a])]
<1>1. Supply(w) = SumFunctionOnSet(u, Address)
  <2>1. DOMAIN u = Address
    OBVIOUS
  <2>2. Supply(w) = SumFunctionOnSet(u, DOMAIN u)
    BY Zenon DEF Supply, SumFunction
  <2> QED  BY <2>1, <2>2
<1>2. IsFiniteSet(Address) /\ \A a \in Address : u[a] \in Int /\ u[a] = v[a]
  BY LedgerAssumption
<1> HIDE DEF u
<1> QED  BY <1>1, <1>2, SumSame, SumType

LEMMA SupplyInt ==
  ASSUME NEW w, SoundWorld(w)
  PROVE  Supply(w) \in Int
<1> DEFINE v == [a \in Address |-> Worth(w[a])]
<1>1. \A a \in Address : Worth(w[a]) \in Int /\ v[a] = Worth(w[a])
  BY WorldWorth
<1> HIDE DEF v
<1> QED  BY <1>1, SupplyIs

\* What the two accounts written last make of the coins: a stale copy may lose
\* some, and never makes any.
LEMMA SettleSupply ==
  ASSUME NEW w, SoundWorld(w), NEW w1, SoundWorld(w1), NEW p \in Producer,
         NEW reward, SoundAccount(reward), NEW tx \in Tx, NEW acc, SoundAccount(acc),
         NEW d \in Nat,
         \A a \in Address : Worth(w1[a]) = Worth(w[a]) + IF a = tx.to THEN d ELSE 0,
         Worth(reward) = Worth(w[p]) + Fee,
         Worth(acc) = Worth(w[tx.from]) - Fee - d
  PROVE  /\ Supply(Settle(w1, p, reward, tx, acc)) <= Supply(w)
         /\ Separate(p, tx) => Supply(Settle(w1, p, reward, tx, acc)) = Supply(w)
<1> DEFINE new == Settle(w1, p, reward, tx, acc)
           from == tx.from
           to == tx.to
           u == [a \in Address |-> Worth(w[a])]
           v1 == [a \in Address |-> Worth(w1[a])]
           v2 == [a \in Address |-> IF a = p THEN Worth(reward) ELSE v1[a]]
           v3 == [a \in Address |-> IF a = from THEN Worth(acc) ELSE v2[a]]
<1>1. from \in Address /\ to \in Address /\ p \in Address /\ Fee \in Nat /\ IsFiniteSet(Address)
  BY TxTypes, LedgerAssumption
<1>2. SoundWorld(new)
  BY SettleIs
<1>3. \A a \in Address : v3[a] = Worth(new[a])
  <2>1. /\ Worth(new[from]) = Worth(acc)
        /\ p # from => new[p] = reward
        /\ \A a \in Address : a \notin {p, from} => new[a] = w1[a]
    BY SettleIs
  <2> HIDE DEF new
  <2> QED  BY <1>1, <2>1
<1>4. \A a \in Address : u[a] \in Int /\ v1[a] \in Int /\ Worth(w[a]) \in Int
  BY WorldWorth
<1>5. Worth(reward) \in Int /\ Worth(acc) \in Int
  BY <1>1, <1>4, WorthIs DEF SoundAccount
<1>6. \A a \in Address : v2[a] \in Int /\ v3[a] \in Int
  BY <1>4, <1>5
<1>7. /\ \A a \in Address : a # to => u[a] = v1[a]
      /\ v1[to] = u[to] + d
      /\ \A a \in Address : a # p => v1[a] = v2[a]
      /\ v2[p] = u[p] + Fee
      /\ \A a \in Address : a # from => v2[a] = v3[a]
      /\ v3[from] = u[from] - Fee - d
  BY <1>1, <1>4
<1>8. Supply(w) = SumFunctionOnSet(u, Address)
  <2>1. \A a \in Address : Worth(w[a]) \in Int /\ u[a] = Worth(w[a])
    BY <1>4
  <2> HIDE DEF u
  <2> QED  BY <2>1, SupplyIs
<1>9. Supply(new) = SumFunctionOnSet(v3, Address)
  <2>1. \A a \in Address : Worth(new[a]) \in Int
    BY <1>2, WorldWorth
  <2> HIDE DEF new, v3
  <2> QED  BY <1>3, <2>1, SupplyIs
<1> HIDE DEF new, u, v1, v2, v3, from, to
<1>10. SumFunctionOnSet(v1, Address) = SumFunctionOnSet(u, Address) + (v1[to] - u[to])
  BY <1>1, <1>4, <1>7, SumUpdate
<1>11. SumFunctionOnSet(v2, Address) = SumFunctionOnSet(v1, Address) + (v2[p] - v1[p])
  BY <1>1, <1>4, <1>6, <1>7, SumUpdate
<1>12. SumFunctionOnSet(v3, Address) = SumFunctionOnSet(v2, Address) + (v3[from] - v2[from])
  BY <1>1, <1>6, <1>7, SumUpdate
<1>13. /\ SumFunctionOnSet(u, Address) \in Int /\ SumFunctionOnSet(v1, Address) \in Int
       /\ SumFunctionOnSet(v2, Address) \in Int /\ SumFunctionOnSet(v3, Address) \in Int
  BY <1>1, <1>4, <1>6, SumType
<1>14. /\ u[from] \in Int /\ u[to] \in Int /\ u[p] \in Int /\ v1[p] \in Int /\ v1[from] \in Int
       /\ v2[from] \in Int /\ v1[to] \in Int /\ v2[p] \in Int /\ v3[from] \in Int
  BY <1>1, <1>4, <1>6
<1>15. /\ p = to => v1[p] = u[p] + d
       /\ p # to => v1[p] = u[p]
       /\ p = from => v2[from] = u[from] + Fee
       /\ p # from => v2[from] = v1[from]
       /\ from = to => v1[from] = u[from] + d
       /\ from # to => v1[from] = u[from]
  BY <1>1, <1>7
<1> DEFINE s == SumFunctionOnSet(u, Address)
           s1 == SumFunctionOnSet(v1, Address)
           s2 == SumFunctionOnSet(v2, Address)
           s3 == SumFunctionOnSet(v3, Address)
<1>16. s \in Int /\ s1 = s + d /\ s1 \in Int
  BY <1>7, <1>10, <1>13, <1>14
<1>17. s2 \in Int /\ s2 <= s1 + Fee /\ (p # to => s2 = s1 + Fee)
  BY <1>1, <1>7, <1>11, <1>13, <1>14, <1>15
<1>18. s3 \in Int /\ s3 <= s2 - Fee - d /\ (p # from /\ from # to => s3 = s2 - Fee - d)
  BY <1>1, <1>7, <1>12, <1>13, <1>14, <1>15
<1>19. s3 <= s /\ (Separate(p, tx) => s3 = s)
  <2>1. Separate(p, tx) => p # from /\ to # p /\ to # from
    BY DEF Separate, from, to
  <2> HIDE DEF s, s1, s2, s3
  <2> QED  BY <1>1, <1>16, <1>17, <1>18, <2>1
<1> QED  BY <1>8, <1>9, <1>19 DEF new

\* A world without change, and one whose accounts are worth the same.
LEMMA SameSupply ==
  ASSUME NEW w, SoundWorld(w), NEW w1, \A a \in Address : Worth(w1[a]) = Worth(w[a])
  PROVE  Supply(w1) = Supply(w)
<1> DEFINE u == [a \in Address |-> Worth(w[a])]
<1>1. \A a \in Address : Worth(w[a]) \in Int /\ Worth(w1[a]) \in Int
                         /\ u[a] = Worth(w[a]) /\ u[a] = Worth(w1[a])
  BY WorldWorth
<1> HIDE DEF u
<1> QED  BY <1>1, SupplyIs

\* However a call ends, accounts stay sound and no coins are made.
LEMMA ExecuteIs ==
  ASSUME NEW w, SoundWorld(w), NEW p \in Producer, NEW ts \in Nat, NEW tx \in Tx
  PROVE  /\ SoundWorld(ExecuteTransaction(w, p, ts, tx).world)
         /\ Supply(ExecuteTransaction(w, p, ts, tx).world) <= Supply(w)
         /\ Separate(p, tx) => Supply(ExecuteTransaction(w, p, ts, tx).world) = Supply(w)
<1> DEFINE new == ExecuteTransaction(w, p, ts, tx).world
           paid == Paid(w, ts, tx)
           acc == Debited(paid, tx)
           reward == Rewarded(w, p)
<1>1. Supply(w) \in Int
  BY SupplyInt
<1>2. CASE Refused(w, p, ts, tx)
  <2>1. new = w
    BY <1>2 DEF ExecuteTransaction
  <2> QED  BY <1>1, <2>1
<1>3. CASE ~ Refused(w, p, ts, tx)
  <2>1. /\ SoundAccount(paid) /\ SoundAccount(reward)
        /\ Worth(paid) = Worth(w[tx.from]) - Fee /\ Worth(reward) = Worth(w[p]) + Fee
        /\ w[tx.from] \in UserState /\ Worth(w[tx.from]) \in Nat /\ Fee \in Nat
    BY <1>3, PaidIs, WorthIs, LedgerAssumption
  <2>2. CASE Fails(w, ts, tx, paid)
    <3>1. new = Settle(w, p, reward, tx, paid)
      BY <1>3, <2>2 DEF ExecuteTransaction
    <3> DEFINE d == 0
    <3> HIDE DEF new, paid, reward
    <3>2. \A a \in Address : Worth(w[a]) = Worth(w[a]) + IF a = tx.to THEN d ELSE 0
      BY WorldWorth
    <3>3. Worth(paid) = Worth(w[tx.from]) - Fee - d
      BY <2>1
    <3>4. SoundWorld(new)
      BY <2>1, <3>1, SettleIs
    <3>5. d \in Nat
      OBVIOUS
    <3> HIDE DEF d
    <3>6. Supply(new) <= Supply(w) /\ (Separate(p, tx) => Supply(new) = Supply(w))
      BY <2>1, <3>1, <3>2, <3>3, <3>5, SettleSupply
    <3> QED  BY <3>4, <3>6 DEF new
  <2>3. CASE ~ Fails(w, ts, tx, paid) /\ Throws(w, ts, tx, acc)
    <3>1. new = Torn(w, tx, acc)
      BY <1>3, <2>3 DEF ExecuteTransaction
    <3>2. acc \in UserState
      <4>1. tx.value \in Nat /\ paid.balance \in Nat
        BY <2>1, TxTypes, AccountTypes DEF SoundAccount
      <4>2. ~ (paid.balance < tx.value)
        BY <2>3 DEF Fails
      <4>3. tx.value <= paid.balance
        BY <4>1, <4>2
      <4> HIDE DEF paid
      <4> QED  BY <2>1, <4>3, DebitedIs DEF SoundAccount
    <3> HIDE DEF new, acc
    <3>3. SoundWorld(new) /\ \A a \in Address : Worth(new[a]) = Worth(w[a])
      BY <3>1, <3>2, TornIs
    <3>4. Supply(new) = Supply(w)
      BY <3>3, SameSupply
    <3> QED  BY <1>1, <3>3, <3>4 DEF new
  <2>4. CASE ~ Fails(w, ts, tx, paid) /\ ~ Throws(w, ts, tx, acc)
    <3> DEFINE w1 == Spread(w, ts, tx, acc)
               last == Changed(ts, tx, acc)
    <3>1. new = Settle(w1, p, reward, tx, last)
      BY <1>3, <2>4 DEF ExecuteTransaction
    <3> HIDE DEF new, acc
    <3>2. /\ SoundAccount(last) /\ Worth(last) = Worth(w[tx.from]) - Fee - Sent(tx)
          /\ SoundWorld(w1)
          /\ \A a \in Address : Worth(w1[a]) = Worth(w[a]) + IF a = tx.to THEN Sent(tx) ELSE 0
      BY <1>3, <2>4, SuccessIs DEF acc
    <3>3. Sent(tx) \in Nat
      BY TxTypes
    <3> HIDE DEF w1, last, reward, paid
    <3>4. SoundWorld(new)
      BY <2>1, <3>1, <3>2, SettleIs
    <3>5. Supply(new) <= Supply(w) /\ (Separate(p, tx) => Supply(new) = Supply(w))
      BY <2>1, <3>1, <3>2, <3>3, SettleSupply
    <3> QED  BY <3>4, <3>5 DEF new
  <2> QED  BY <2>2, <2>3, <2>4
<1> QED  BY <1>2, <1>3

(******************************************************************************)
(* Accounts stay sound                                                        *)
(******************************************************************************)
\* The maker's and the verifier's worlds matter too: one of them is the next world.
LedgerInv ==
  /\ TypeOK
  /\ SoundWorld(world) /\ SoundWorld(work) /\ SoundWorld(replay)

LEMMA InitSound == SoundWorld(InitWorld)
<1>1. \A a \in Address : InitWorld[a] # Absent => Sorted(InitWorld[a].locks)
  BY GenesisAssumption, NoLocks
<1> QED  BY <1>1, LedgerAssumption DEF SoundWorld, World

LEMMA InitLedger == Init => LedgerInv
<1> SUFFICES ASSUME Init PROVE LedgerInv
  OBVIOUS
<1>1. 0 \in 0 .. MaxTime /\ 0 \in 0 .. MaxTx
  BY LedgerAssumption
<1> QED  BY <1>1, InitSound DEF Init, LedgerInv, TypeOK, SoundWorld

LEMMA NextLedger == LedgerInv /\ [Next]_vars => LedgerInv'
<1> SUFFICES ASSUME LedgerInv, [Next]_vars PROVE LedgerInv'
  OBVIOUS
<1>1. /\ time \in 0 .. MaxTime /\ now \in 0 .. MaxTime /\ size \in 0 .. MaxTx
      /\ pc \in {"idle", "making"} /\ producer \in Producer /\ agreed \in BOOLEAN
      /\ MaxTime \in Nat /\ MaxTx \in Nat /\ now \in Nat
  BY LedgerAssumption DEF LedgerInv, TypeOK
<1>2. ASSUME SoundWorld(world'), SoundWorld(work'), SoundWorld(replay'),
             time' \in 0 .. MaxTime, now' \in 0 .. MaxTime, size' \in 0 .. MaxTx,
             pc' \in {"idle", "making"}, producer' \in Producer, agreed' \in BOOLEAN
      PROVE  LedgerInv'
  BY <1>2 DEF LedgerInv, TypeOK, SoundWorld
<1>3. SoundWorld(world) /\ SoundWorld(work) /\ SoundWorld(replay)
  BY DEF LedgerInv
<1>4. ASSUME NEW p \in Producer, NEW t \in 1 .. MaxTime, OpenBlock(p, t)
      PROVE  LedgerInv'
  BY <1>1, <1>2, <1>3, <1>4 DEF OpenBlock
<1>5. ASSUME NEW tx \in Tx, Include(tx)
      PROVE  LedgerInv'
  <2>1. SoundWorld(work')
    <3>1. work' = ExecuteTransaction(work, producer, now, tx).world
      BY <1>5 DEF Include
    <3> QED  BY <1>1, <1>3, <3>1, ExecuteIs
  <2>2. SoundWorld(replay')
    <3>1. replay' = ExecuteTransaction(replay, producer, now, tx).world
      BY <1>5 DEF Include
    <3> QED  BY <1>1, <1>3, <3>1, ExecuteIs
  <2>3. /\ size' \in 0 .. MaxTx /\ agreed' \in BOOLEAN
        /\ UNCHANGED <<world, time, pc, producer, now>>
    BY <1>1, <1>5 DEF Include
  <2> QED  BY <1>1, <1>2, <1>3, <2>1, <2>2, <2>3
<1>6. ASSUME NEW tx \in Tx, Skip(tx)
      PROVE  LedgerInv'
  <2>1. SoundWorld(work')
    <3>1. work' = ExecuteTransaction(work, producer, now, tx).world
      BY <1>6 DEF Skip
    <3> QED  BY <1>1, <1>3, <3>1, ExecuteIs
  <2>2. UNCHANGED <<world, time, pc, producer, now, replay, agreed, size>>
    BY <1>6 DEF Skip
  <2> QED  BY <1>1, <1>2, <1>3, <2>1, <2>2
<1>7. CASE Seal
  BY <1>1, <1>2, <1>3, <1>7 DEF Seal
<1>8. CASE UNCHANGED vars
  BY <1>1, <1>2, <1>3, <1>8 DEF vars
<1> QED  BY <1>4, <1>5, <1>6, <1>7, <1>8 DEF Next

LEMMA LedgerInvariant == Spec => []LedgerInv
<1> QED  BY InitLedger, NextLedger, PTL DEF Spec

\* For every set of accounts and transactions: no amount ever wraps below 0 and
\* every list of locks stays in order of expiry (BlockChainSystem.cs 303-319, 429-440).
THEOREM AccountsSoundCorrect == Spec => []AccountsSound
<1>1. LedgerInv => AccountsSound
  BY DEF LedgerInv, AccountsSound, SoundWorld
<1> QED  BY <1>1, LedgerInvariant, PTL

(******************************************************************************)
(* No coins are made                                                          *)
(******************************************************************************)
\* For every set of accounts and transactions: execution makes no coins, and
\* loses none when the three accounts it writes are three accounts.
THEOREM SupplyKeptCorrect == Spec => SupplyKept
<1> DEFINE Kept == pc = "making" /\ pc' = "making" =>
                     /\ Supply(work') <= Supply(work)
                     /\ Supply(work') # Supply(work) =>
                          \A tx \in Tx : Include(tx) \/ Skip(tx) => ~Separate(producer, tx)
<1>1. LedgerInv /\ [Next]_vars => [Kept]_vars
  <2> SUFFICES ASSUME LedgerInv, Next, pc = "making", pc' = "making"
               PROVE  /\ Supply(work') <= Supply(work)
                      /\ Supply(work') # Supply(work) =>
                           \A tx \in Tx : Include(tx) \/ Skip(tx) => ~Separate(producer, tx)
    OBVIOUS
  <2>1. SoundWorld(work) /\ producer \in Producer /\ now \in Nat
    BY LedgerAssumption DEF LedgerInv, TypeOK
  <2>2. ASSUME NEW tx \in Tx, Include(tx) \/ Skip(tx)
        PROVE  work' = ExecuteTransaction(work, producer, now, tx).world
    BY <2>2 DEF Include, Skip
  <2>3. \E tx \in Tx : Include(tx) \/ Skip(tx)
    BY DEF Next, OpenBlock, Seal
  <2>4. Supply(work') <= Supply(work)
    BY <2>1, <2>2, <2>3, ExecuteIs
  <2>5. ASSUME NEW tx \in Tx, Include(tx) \/ Skip(tx), Supply(work') # Supply(work)
        PROVE  ~Separate(producer, tx)
    BY <2>1, <2>2, <2>5, ExecuteIs
  <2> QED  BY <2>4, <2>5
<1> QED  BY <1>1, LedgerInvariant, PTL DEF Spec, SupplyKept

(******************************************************************************)
(* Votes are backed                                                           *)
(******************************************************************************)
LEMMA PledgeTypes ==
  ASSUME NEW acc \in UserState \cup {Absent}, NEW a
  PROVE  PledgeFor(acc, a) \in Nat /\ PledgeFor(acc, a) <= Worth(acc)
<1>1. CASE acc = Absent
  BY <1>1 DEF PledgeFor, Worth
<1>2. CASE acc \in UserState
  <2>1. Worth(acc) = acc.balance + acc.votePledge + acc.superPledge + LockedCoins(acc.locks)
    BY <1>2, WorthIs
  <2>2. /\ acc.balance \in Nat /\ acc.votePledge \in Nat /\ acc.superPledge \in Nat
        /\ LockedCoins(acc.locks) \in Nat
    BY <1>2, AccountTypes, WorthIs
  <2>3. PledgeFor(acc, a) \in {0, acc.votePledge}
    BY DEF PledgeFor
  <2> QED  BY <2>1, <2>2, <2>3
<1> QED  BY <1>1, <1>2

LEMMA PledgedIs ==
  ASSUME NEW w, SoundWorld(w), NEW a, NEW u, \A v \in Address : u[v] = PledgeFor(w[v], a)
  PROVE  /\ PledgedFor(w, a) = SumFunctionOnSet(u, Address)
         /\ PledgedFor(w, a) \in Nat /\ PledgedFor(w, a) <= Supply(w)
<1> DEFINE f == [v \in Address |-> PledgeFor(w[v], a)]
           g == [v \in Address |-> Worth(w[v])]
<1>1. PledgedFor(w, a) = SumFunctionOnSet(f, Address)
  <2>1. DOMAIN f = Address
    OBVIOUS
  <2>2. PledgedFor(w, a) = SumFunctionOnSet(f, DOMAIN f)
    BY Zenon DEF PledgedFor, SumFunction
  <2> QED  BY <2>1, <2>2
<1>2. \A v \in Address : w[v] \in UserState \cup {Absent} /\ Worth(w[v]) \in Int
  BY WorldWorth DEF SoundWorld, World
<1>3. \A v \in Address : f[v] \in Nat /\ f[v] \in Int /\ f[v] = u[v]
                         /\ g[v] \in Int /\ f[v] <= g[v]
  BY <1>2, PledgeTypes
<1>4. Supply(w) = SumFunctionOnSet(g, Address)
  <2>1. \A v \in Address : g[v] = Worth(w[v])
    OBVIOUS
  <2> HIDE DEF g
  <2> QED  BY <1>2, <2>1, SupplyIs
<1>5. IsFiniteSet(Address)
  BY LedgerAssumption
<1> HIDE DEF f, g
<1>6. SumFunctionOnSet(f, Address) = SumFunctionOnSet(u, Address)
  BY <1>3, <1>5, SumSame
<1>7. SumFunctionOnSet(f, Address) \in Nat
  BY <1>3, <1>5, SumType
<1>8. SumFunctionOnSet(f, Address) <= SumFunctionOnSet(g, Address)
  BY <1>3, <1>5, SumCompare
<1> QED  BY <1>1, <1>4, <1>6, <1>7, <1>8

LEMMA PledgedNat ==
  ASSUME NEW w, SoundWorld(w), NEW a
  PROVE  PledgedFor(w, a) \in Nat /\ PledgedFor(w, a) <= Supply(w)
<1> DEFINE u == [v \in Address |-> PledgeFor(w[v], a)]
<1>1. \A v \in Address : u[v] = PledgeFor(w[v], a)
  OBVIOUS
<1> HIDE DEF u
<1> QED  BY <1>1, PledgedIs

\* Pledges of one account change.
LEMMA PledgedMoves ==
  ASSUME NEW w, SoundWorld(w), NEW new, SoundWorld(new), NEW from \in Address, NEW a,
         \A v \in Address : v # from => PledgeFor(new[v], a) = PledgeFor(w[v], a)
  PROVE  /\ PledgedFor(new, a) =
              PledgedFor(w, a) + (PledgeFor(new[from], a) - PledgeFor(w[from], a))
         /\ PledgeFor(w[from], a) <= PledgedFor(w, a)
<1> DEFINE u == [v \in Address |-> PledgeFor(w[v], a)]
           f == [v \in Address |-> PledgeFor(new[v], a)]
<1>1. /\ \A v \in Address : u[v] = PledgeFor(w[v], a)
      /\ \A v \in Address : f[v] = PledgeFor(new[v], a)
      /\ u[from] = PledgeFor(w[from], a) /\ f[from] = PledgeFor(new[from], a)
  OBVIOUS
<1>2. \A v \in Address : /\ u[v] \in Int /\ f[v] \in Int /\ u[v] \in Nat
                         /\ v # from => u[v] = f[v]
  BY PledgeTypes DEF SoundWorld, World
<1>3. IsFiniteSet(Address) /\ IsFiniteSet(Address \ {from})
  BY LedgerAssumption, FS_RemoveElement
<1> HIDE DEF u, f
<1>4. PledgedFor(w, a) = SumFunctionOnSet(u, Address)
  BY <1>1, PledgedIs
<1>5. PledgedFor(new, a) = SumFunctionOnSet(f, Address)
  BY <1>1, PledgedIs
<1>6. SumFunctionOnSet(f, Address) = SumFunctionOnSet(u, Address) + (f[from] - u[from])
  BY <1>2, <1>3, SumUpdate
<1>7. SumFunctionOnSet(u, Address) = u[from] + SumFunctionOnSet(u, Address \ {from})
  BY <1>2, <1>3, SumRemove
<1>8. SumFunctionOnSet(u, Address \ {from}) \in Nat
  BY <1>2, <1>3, SumType
<1>9. u[from] <= SumFunctionOnSet(u, Address)
  BY <1>2, <1>7, <1>8
<1> QED  BY <1>1, <1>4, <1>5, <1>6, <1>9

LEMMA ChangedVotes ==
  ASSUME NEW acc \in UserState, NEW ts, NEW tx \in Tx
  PROVE  /\ Changed(ts, tx, acc).votes = acc.votes
         /\ tx.kind = "vote" =>
              /\ Changed(ts, tx, acc).voteFor = tx.voteFor
              /\ Changed(ts, tx, acc).votePledge = acc.votePledge + tx.value
         /\ tx.kind = "unvote" =>
              Changed(ts, tx, acc).voteFor = <<>> /\ Changed(ts, tx, acc).votePledge = 0
         /\ tx.kind \notin {"vote", "unvote"} => SameVotes(Changed(ts, tx, acc), acc)
<1> DEFINE new == Changed(ts, tx, acc)
<1>1. CASE tx.kind = "vote"
  <2>1. new = [acc EXCEPT !.votePledge = @ + tx.value, !.voteFor = tx.voteFor, !.voteTime = ts]
    BY <1>1 DEF Changed
  <2> HIDE DEF new
  <2>2. /\ new.votes = acc.votes /\ new.voteFor = tx.voteFor
        /\ new.votePledge = acc.votePledge + tx.value
    BY <2>1 DEF UserState
  <2> QED  BY <1>1, <2>2 DEF new
<1>2. CASE tx.kind = "unvote"
  <2>1. new = [acc EXCEPT !.balance = @ + acc.votePledge, !.votePledge = 0,
                          !.voteFor = <<>>, !.voteTime = 0]
    BY <1>2 DEF Changed
  <2> HIDE DEF new
  <2>2. new.votes = acc.votes /\ new.voteFor = <<>> /\ new.votePledge = 0
    BY <2>1 DEF UserState
  <2> QED  BY <1>2, <2>2 DEF new
<1>3. CASE tx.kind \notin {"vote", "unvote"}
  <2>1. SameVotes(new, acc)
    BY <1>3 DEF Changed, SameVotes, UserState
  <2> QED  BY <1>3, <2>1 DEF SameVotes
<1> QED  BY <1>1, <1>2, <1>3

\* The switch changes nobody's pledges but the sender's.
LEMMA SpreadPledges ==
  ASSUME NEW w, SoundWorld(w), NEW ts \in Nat, NEW tx \in Tx, NEW acc \in UserState,
         tx.kind \in {"vote", "unvote"} => OldVotesPresent(w, acc),
         tx.kind = "vote" => \A a \in Range(tx.voteFor) : w[a] # Absent,
         NEW v \in Address, NEW a
  PROVE  PledgeFor(Spread(w, ts, tx, acc)[v], a) = PledgeFor(w[v], a)
<1> DEFINE w1 == Spread(w, ts, tx, acc)
<1>1. CASE tx.kind \in {"transfer", "lock"}
  <2>1. /\ v # tx.to => w1[v] = w[v]
        /\ w1[tx.to] # Absent
        /\ w[tx.to] # Absent => SameVotes(w1[tx.to], w[tx.to])
        /\ w[tx.to] = Absent => SameVotes(w1[tx.to], Fresh)
    BY <1>1, SpreadCoins
  <2> HIDE DEF w1
  <2>2. Fresh.voteFor = <<>> /\ a \notin Range(<<>>)
    BY DEF Fresh, Range
  <2> QED  BY <2>1, <2>2 DEF PledgeFor, SameVotes, w1
<1>2. CASE tx.kind \in {"vote", "unvote"}
  <2>1. /\ w1[v] = Absent <=> w[v] = Absent
        /\ w[v] # Absent => w1[v].voteFor = w[v].voteFor /\ w1[v].votePledge = w[v].votePledge
    BY <1>2, SpreadVotes
  <2> HIDE DEF w1
  <2> QED  BY <2>1 DEF PledgeFor, w1
<1>3. CASE tx.kind \in {"pledge", "redeem"}
  BY <1>3, SpreadNothing
<1>4. tx.kind \in Kinds
  BY TxTypes
<1> QED  BY <1>1, <1>2, <1>3, <1>4 DEF Kinds

\* What a call that succeeds leaves behind.
LEMMA DoneIs ==
  ASSUME NEW w, SoundWorld(w), NEW p \in Producer, NEW ts \in Nat, NEW tx \in Tx, NEW acc,
         ExecuteTransaction(w, p, ts, tx).done, acc = Debited(Paid(w, ts, tx), tx)
  PROVE  /\ SoundAccount(acc) /\ SameVotes(acc, w[tx.from]) /\ w[tx.from] \in UserState
         /\ tx.kind \in {"vote", "unvote"} => OldVotesPresent(w, acc)
         /\ tx.kind = "vote" => \A a \in Range(tx.voteFor) : w[a] # Absent
         /\ Changed(ts, tx, acc) \in UserState
         /\ LET new == ExecuteTransaction(w, p, ts, tx).world
                last == Changed(ts, tx, acc)
            IN  /\ new[tx.from] = IF Removable(last) THEN Absent ELSE last
                /\ p # tx.from => /\ new[p] \in UserState /\ w[p] \in UserState
                                  /\ SameVotes(new[p], w[p])
                /\ \A a \in Address : a \notin {p, tx.from} => new[a] = Spread(w, ts, tx, acc)[a]
<1> DEFINE new == ExecuteTransaction(w, p, ts, tx).world
           paid == Paid(w, ts, tx)
           last == Changed(ts, tx, acc)
           w1 == Spread(w, ts, tx, acc)
           reward == Rewarded(w, p)
<1>1. ~Refused(w, p, ts, tx)
  BY DEF ExecuteTransaction
<1>2. ~Fails(w, ts, tx, paid)
  BY <1>1 DEF ExecuteTransaction
<1>3. ~Throws(w, ts, tx, acc)
  BY <1>1, <1>2 DEF ExecuteTransaction
<1>4. new = Settle(w1, p, reward, tx, last)
  BY <1>1, <1>2, <1>3 DEF ExecuteTransaction
<1>5. /\ SoundAccount(acc) /\ SameVotes(acc, w[tx.from])
      /\ SoundAccount(last) /\ SoundWorld(w1)
      /\ tx.kind \in {"vote", "unvote"} => OldVotesPresent(w, acc)
      /\ tx.kind = "vote" => \A a \in Range(tx.voteFor) : w[a] # Absent
  BY <1>1, <1>2, <1>3, SuccessIs
<1>6. /\ SoundAccount(reward) /\ SameVotes(reward, w[p])
      /\ w[p] \in UserState /\ w[tx.from] \in UserState
  BY <1>1, PaidIs
<1> HIDE DEF new, last, w1, reward
<1>7. /\ new[tx.from] = IF Removable(last) THEN Absent ELSE last
      /\ p # tx.from => new[p] = reward
      /\ \A a \in Address : a \notin {p, tx.from} => new[a] = w1[a]
  BY <1>4, <1>5, <1>6, SettleIs
<1>8. p # tx.from => new[p] \in UserState /\ w[p] \in UserState /\ SameVotes(new[p], w[p])
  BY <1>6, <1>7 DEF SoundAccount
<1>9. last \in UserState
  BY <1>5 DEF SoundAccount
<1> QED  BY <1>5, <1>6, <1>7, <1>8, <1>9 DEF new, last, w1

\* A success changes the pledges of the sender, and only these.
LEMMA DonePledges ==
  ASSUME NEW w, SoundWorld(w), NEW p \in Producer, NEW ts \in Nat, NEW tx \in Tx, NEW acc,
         ExecuteTransaction(w, p, ts, tx).done, acc = Debited(Paid(w, ts, tx), tx), NEW a
  PROVE  /\ PledgedFor(ExecuteTransaction(w, p, ts, tx).world, a) =
              PledgedFor(w, a)
                + (PledgeFor(Changed(ts, tx, acc), a) - PledgeFor(w[tx.from], a))
         /\ PledgeFor(w[tx.from], a) <= PledgedFor(w, a)
<1> DEFINE new == ExecuteTransaction(w, p, ts, tx).world
           last == Changed(ts, tx, acc)
           w1 == Spread(w, ts, tx, acc)
<1>1. /\ acc \in UserState
      /\ tx.kind \in {"vote", "unvote"} => OldVotesPresent(w, acc)
      /\ tx.kind = "vote" => \A b \in Range(tx.voteFor) : w[b] # Absent
      /\ new[tx.from] = IF Removable(last) THEN Absent ELSE last
      /\ p # tx.from => /\ new[p] \in UserState /\ w[p] \in UserState
                        /\ SameVotes(new[p], w[p])
      /\ \A b \in Address : b \notin {p, tx.from} => new[b] = w1[b]
  BY DoneIs DEF SoundAccount
<1>2. SoundWorld(new)
  BY ExecuteIs
<1>3. tx.from \in Address
  BY TxTypes
<1>4. \A v \in Address : PledgeFor(w1[v], a) = PledgeFor(w[v], a)
  BY <1>1, SpreadPledges
<1> HIDE DEF new, last, w1
<1>5. ASSUME NEW v \in Address, v # tx.from
      PROVE  PledgeFor(new[v], a) = PledgeFor(w[v], a)
  <2>1. CASE v = p
    <3>1. new[p] # Absent /\ w[p] # Absent /\ SameVotes(new[p], w[p])
      BY <1>1, <1>5, <2>1, WorthIs
    <3> QED  BY <2>1, <3>1 DEF PledgeFor, SameVotes
  <2>2. CASE v # p
    BY <1>1, <1>4, <1>5, <2>2
  <2> QED  BY <2>1, <2>2
<1>6. PledgeFor(new[tx.from], a) = PledgeFor(last, a)
  <2>1. Removable(last) => last.votePledge = 0
    BY DEF Removable
  <2> QED  BY <1>1, <2>1 DEF PledgeFor
<1>7. /\ PledgedFor(new, a) =
           PledgedFor(w, a) + (PledgeFor(new[tx.from], a) - PledgeFor(w[tx.from], a))
      /\ PledgeFor(w[tx.from], a) <= PledgedFor(w, a)
  BY <1>2, <1>3, <1>5, PledgedMoves
<1> QED  BY <1>6, <1>7 DEF new, last

\* The amounts stay below 2^64: no more is ever pledged than there is.
LEMMA SmallVotes ==
  ASSUME NEW n \in Nat, n < VoteSize
  PROVE  n % VoteSize = n
<1>1. VoteSize \in Nat \ {0}
  BY LedgerAssumption
<1> QED  BY <1>1

Backed(w) ==
  /\ Supply(w) <= Supply(InitWorld)
  /\ \A a \in Passive :
       IF w[a] = Absent THEN PledgedFor(w, a) = 0
       ELSE w[a].votes = PledgedFor(w, a) /\ a \notin Range(w[a].voteFor)

LEMMA BackedSmall ==
  ASSUME NEW w, SoundWorld(w), Supply(w) <= Supply(InitWorld), NEW a
  PROVE  PledgedFor(w, a) \in Nat /\ PledgedFor(w, a) < VoteSize
<1>1. PledgedFor(w, a) \in Nat /\ PledgedFor(w, a) <= Supply(w)
  BY PledgedNat
<1>2. Supply(InitWorld) < VoteSize /\ VoteSize \in Int
  BY GenesisAssumption, LedgerAssumption
<1>3. Supply(w) \in Int /\ Supply(InitWorld) \in Int
  BY InitSound, SupplyInt
<1> QED  BY <1>1, <1>2, <1>3

LEMMA BackedSender ==
  ASSUME NEW w, SoundWorld(w), Backed(w), NEW p \in Producer, NEW ts \in Nat, NEW tx \in Tx,
         ExecuteTransaction(w, p, ts, tx).done, tx.from \in Passive
  PROVE  LET new == ExecuteTransaction(w, p, ts, tx).world
             a == tx.from
         IN  IF new[a] = Absent THEN PledgedFor(new, a) = 0
             ELSE new[a].votes = PledgedFor(new, a) /\ a \notin Range(new[a].voteFor)
<1> DEFINE new == ExecuteTransaction(w, p, ts, tx).world
           a == tx.from
           acc == Debited(Paid(w, ts, tx), tx)
           last == Changed(ts, tx, acc)
<1>1. /\ acc \in UserState /\ w[a] \in UserState /\ SameVotes(acc, w[a])
      /\ new[a] = IF Removable(last) THEN Absent ELSE last
      /\ last \in UserState
  BY DoneIs DEF SoundAccount
<1>2. PledgedFor(new, a) = PledgedFor(w, a) + (PledgeFor(last, a) - PledgeFor(w[a], a))
  <2> HIDE DEF acc
  <2> QED  BY DonePledges DEF acc
<1>3. /\ last.votes = acc.votes
      /\ tx.kind = "vote" => last.voteFor = tx.voteFor
      /\ tx.kind = "unvote" => last.voteFor = <<>>
      /\ tx.kind \notin {"vote", "unvote"} => SameVotes(last, acc)
  BY <1>1, ChangedVotes
<1>4. w[a] # Absent
  BY <1>1, WorthIs
<1>5. a \in Passive
  OBVIOUS
<1> HIDE DEF new, last, acc
<1>6. w[a].votes = PledgedFor(w, a) /\ a \notin Range(w[a].voteFor)
  BY <1>4, <1>5 DEF Backed
<1>7. a \notin Range(tx.voteFor) /\ a \notin Range(<<>>)
  BY <1>5 DEF Passive, Range
<1>8. a \notin Range(last.voteFor)
  BY <1>1, <1>3, <1>6, <1>7 DEF SameVotes
<1>9. PledgeFor(last, a) = 0 /\ PledgeFor(w[a], a) = 0
  BY <1>6, <1>8 DEF PledgeFor
<1>10. PledgedFor(w, a) \in Nat
  BY PledgedNat
<1>11. PledgedFor(new, a) = PledgedFor(w, a)
  BY <1>2, <1>9, <1>10
<1>12. last.votes = PledgedFor(new, a)
  BY <1>1, <1>3, <1>6, <1>11 DEF SameVotes
<1>13. Removable(last) => last.votes = 0
  BY DEF Removable
<1>14. CASE Removable(last)
  BY <1>1, <1>12, <1>13, <1>14 DEF new
<1>15. CASE ~ Removable(last)
  <2>1. new[a] = last /\ new[a] # Absent
    BY <1>1, <1>15, WorthIs
  <2> QED  BY <1>8, <1>12, <2>1 DEF new
<1> QED  BY <1>14, <1>15

LEMMA BackedOther ==
  ASSUME NEW w, SoundWorld(w), Backed(w), NEW p \in Producer, NEW ts \in Nat, NEW tx \in Tx,
         ExecuteTransaction(w, p, ts, tx).done, NEW a \in Passive, a # tx.from
  PROVE  LET new == ExecuteTransaction(w, p, ts, tx).world
         IN  IF new[a] = Absent THEN PledgedFor(new, a) = 0
             ELSE new[a].votes = PledgedFor(new, a) /\ a \notin Range(new[a].voteFor)
<1> DEFINE new == ExecuteTransaction(w, p, ts, tx).world
           acc == Debited(Paid(w, ts, tx), tx)
           last == Changed(ts, tx, acc)
           w1 == Spread(w, ts, tx, acc)
           old == PledgedFor(w, a)
           all == PledgedFor(new, a)
           was == PledgeFor(w[tx.from], a)
           is == PledgeFor(last, a)
<1>1. a \in Address /\ a # p
  BY DEF Passive
<1>2. /\ acc \in UserState /\ w[tx.from] \in UserState /\ SameVotes(acc, w[tx.from])
      /\ last \in UserState
      /\ tx.kind \in {"vote", "unvote"} => OldVotesPresent(w, acc)
      /\ tx.kind = "vote" => \A b \in Range(tx.voteFor) : w[b] # Absent
      /\ new[a] = w1[a]
  BY <1>1, DoneIs DEF SoundAccount
<1>3. all = old + (is - was) /\ was <= old
  <2> HIDE DEF acc
  <2> QED  BY DonePledges DEF acc
<1>4. /\ old \in Nat /\ was \in Nat /\ is \in Nat /\ all \in Nat
      /\ old < VoteSize /\ all < VoteSize /\ VoteSize \in Int
  <2>1. SoundWorld(new) /\ Supply(new) <= Supply(w)
    BY ExecuteIs
  <2>2. Supply(w) \in Int /\ Supply(InitWorld) \in Int /\ Supply(new) \in Int
    BY <2>1, InitSound, SupplyInt
  <2>3. Supply(w) <= Supply(InitWorld)
    BY DEF Backed
  <2> HIDE DEF new
  <2>4. Supply(new) <= Supply(InitWorld)
    BY <2>1, <2>2, <2>3
  <2>5. was \in Nat /\ is \in Nat
    BY <1>2, PledgeTypes
  <2> QED  BY <2>1, <2>3, <2>4, <2>5, BackedSmall, LedgerAssumption
<1>5. /\ w[a] = Absent => old = 0
      /\ w[a] # Absent => w[a].votes = old /\ a \notin Range(w[a].voteFor)
  BY DEF Backed
<1>6. acc # Absent /\ last # Absent /\ w[tx.from] # Absent
  BY <1>2, WorthIs
<1>7. was = IF a \in Range(acc.voteFor) THEN acc.votePledge ELSE 0
  BY <1>2, <1>6 DEF PledgeFor, SameVotes
<1>8. acc.votePledge \in Nat /\ tx.value \in Nat /\ tx.kind \in Kinds
  BY <1>2, AccountTypes, TxTypes
<1>9. /\ tx.kind = "vote" =>
           last.voteFor = tx.voteFor /\ last.votePledge = acc.votePledge + tx.value
      /\ tx.kind = "unvote" => last.voteFor = <<>> /\ last.votePledge = 0
      /\ tx.kind \notin {"vote", "unvote"} => SameVotes(last, acc)
  BY <1>2, ChangedVotes
<1>10. CASE tx.kind \in {"vote", "unvote"}
  <2>1. /\ w1[a] = Absent <=> w[a] = Absent
        /\ w[a] # Absent =>
             /\ w1[a].voteFor = w[a].voteFor
             /\ w1[a].votes = IF tx.kind = "vote" /\ a \in Range(tx.voteFor)
                                THEN (VotesLeft(w, acc, a) + (acc.votePledge + tx.value)) % VoteSize
                                ELSE VotesLeft(w, acc, a)
    BY <1>1, <1>2, <1>10, SpreadVotes
  <2>2. is = IF tx.kind = "vote" /\ a \in Range(tx.voteFor) THEN acc.votePledge + tx.value ELSE 0
    <3>1. a \notin Range(<<>>)
      BY DEF Range
    <3> QED  BY <1>6, <1>9, <1>10, <3>1 DEF PledgeFor
  <2>3. /\ tx.kind \in {"vote", "unvote"} => \A b \in Range(acc.voteFor) : w[b] # Absent
        /\ tx.kind = "vote" => \A b \in Range(tx.voteFor) : w[b] # Absent
    BY <1>2 DEF OldVotesPresent
  <2> HIDE DEF new, acc, last, w1, old, all, was, is
  <2>4. CASE w[a] = Absent
    <3>1. a \notin Range(acc.voteFor) /\ (tx.kind = "vote" => a \notin Range(tx.voteFor))
      BY <1>10, <2>3, <2>4
    <3>2. was = 0 /\ is = 0
      BY <1>7, <2>2, <3>1
    <3>3. all = 0
      BY <1>3, <1>5, <2>4, <3>2
    <3> QED  BY <1>2, <2>1, <2>4, <3>3 DEF new, all
  <2>5. CASE w[a] # Absent
    <3>1. old - was \in Nat /\ old - was < VoteSize
      BY <1>3, <1>4
    <3>2. VotesLeft(w, acc, a) = old - was
      <4>1. CASE a \in Range(acc.voteFor)
        <5>1. was = acc.votePledge
          BY <1>7, <4>1
        <5>2. VotesLeft(w, acc, a) = (old + (- was)) % VoteSize
          BY <1>5, <2>5, <4>1, <5>1 DEF VotesLeft
        <5>3. old + (- was) = old - was
          BY <1>4
        <5>4. (old - was) % VoteSize = old - was
          BY <3>1, SmallVotes
        <5> QED  BY <5>2, <5>3, <5>4
      <4>2. CASE a \notin Range(acc.voteFor)
        BY <1>4, <1>5, <1>7, <2>5, <4>2 DEF VotesLeft
      <4> QED  BY <4>1, <4>2
    <3>3. w1[a].votes = all
      <4>1. CASE tx.kind = "vote" /\ a \in Range(tx.voteFor)
        <5>1. is = acc.votePledge + tx.value
          BY <2>2, <4>1
        <5>2. w1[a].votes = ((old - was) + is) % VoteSize
          BY <2>1, <2>5, <3>2, <4>1, <5>1
        <5>3. (old - was) + is = all
          BY <1>3, <1>4
        <5>4. all % VoteSize = all
          BY <1>4, SmallVotes
        <5> QED  BY <5>2, <5>3, <5>4
      <4>2. CASE ~ (tx.kind = "vote" /\ a \in Range(tx.voteFor))
        <5>1. is = 0
          BY <2>2, <4>2
        <5>2. w1[a].votes = old - was
          BY <2>1, <2>5, <3>2, <4>2
        <5> QED  BY <1>3, <1>4, <5>1, <5>2
      <4> QED  BY <4>1, <4>2
    <3>4. w1[a] # Absent /\ a \notin Range(w1[a].voteFor)
      BY <1>5, <2>1, <2>5
    <3> QED  BY <1>2, <3>3, <3>4 DEF new, all
  <2> QED  BY <2>4, <2>5
<1>11. CASE tx.kind \notin {"vote", "unvote"}
  <2>1. is = was
    BY <1>2, <1>6, <1>9, <1>11 DEF PledgeFor, SameVotes
  <2>2. all = old
    BY <1>3, <1>4, <2>1
  <2>3. CASE a = tx.to /\ tx.kind \in {"transfer", "lock"}
    <3>1. /\ w1[a] # Absent
          /\ w[a] # Absent => SameVotes(w1[a], w[a])
          /\ w[a] = Absent => SameVotes(w1[a], Fresh)
      BY <2>3, SpreadCoins
    <3>2. Fresh.votes = 0 /\ Fresh.voteFor = <<>> /\ a \notin Range(<<>>)
      BY DEF Fresh, Range
    <3> HIDE DEF new, w1, old, all
    <3>3. w1[a].votes = all /\ a \notin Range(w1[a].voteFor)
      BY <1>5, <2>2, <3>1, <3>2 DEF SameVotes
    <3> QED  BY <1>2, <3>1, <3>3 DEF new, all
  <2>4. CASE ~ (a = tx.to /\ tx.kind \in {"transfer", "lock"})
    <3>1. w1[a] = w[a]
      BY <1>1, <1>8, <1>11, <2>4, SpreadCoins, SpreadNothing DEF Kinds
    <3> HIDE DEF new, w1, old, all
    <3> QED  BY <1>2, <1>5, <2>2, <3>1 DEF new, all
  <2> QED  BY <2>3, <2>4
<1> QED  BY <1>10, <1>11

\* A success keeps votes and pledges together.
LEMMA DoneBacked ==
  ASSUME NEW w, SoundWorld(w), Backed(w), NEW p \in Producer, NEW ts \in Nat, NEW tx \in Tx,
         ExecuteTransaction(w, p, ts, tx).done
  PROVE  Backed(ExecuteTransaction(w, p, ts, tx).world)
<1> DEFINE new == ExecuteTransaction(w, p, ts, tx).world
<1>1. Supply(new) <= Supply(InitWorld)
  <2>1. SoundWorld(new) /\ Supply(new) <= Supply(w)
    BY ExecuteIs
  <2>2. Supply(w) \in Int /\ Supply(InitWorld) \in Int /\ Supply(new) \in Int
    BY <2>1, InitSound, SupplyInt
  <2>3. Supply(w) <= Supply(InitWorld)
    BY DEF Backed
  <2> HIDE DEF new
  <2> QED  BY <2>1, <2>2, <2>3
<1>2. ASSUME NEW a \in Passive
      PROVE  IF new[a] = Absent THEN PledgedFor(new, a) = 0
             ELSE new[a].votes = PledgedFor(new, a) /\ a \notin Range(new[a].voteFor)
  <2>1. CASE a = tx.from
    BY <2>1, BackedSender
  <2>2. CASE a # tx.from
    BY <2>2, BackedOther
  <2> QED  BY <2>1, <2>2
<1> HIDE DEF new
<1> QED  BY <1>1, <1>2 DEF Backed, new

\* The maker's world may have lost the balance to a transaction that failed half
\* way.  The verifier's has it as long as every transaction has succeeded there,
\* and only then does it become the next world.
VotesInv == Backed(world) /\ (agreed => Backed(replay))

LEMMA InitVotes == Init => VotesInv
<1> SUFFICES ASSUME Init PROVE VotesInv
  OBVIOUS
<1>1. \A a, v \in Address : PledgeFor(InitWorld[v], a) = 0
  <2>1. \A a \in Address : a \notin Range(<<>>)
    BY DEF Range
  <2> QED  BY <2>1, GenesisAssumption DEF PledgeFor
<1>2. ASSUME NEW a \in Address PROVE PledgedFor(InitWorld, a) = 0
  <2> DEFINE u == [v \in Address |-> 0]
  <2>1. \A v \in Address : u[v] = PledgeFor(InitWorld[v], a)
    BY <1>1
  <2>2. \A v \in Address : u[v] = 0
    OBVIOUS
  <2> HIDE DEF u
  <2>3. PledgedFor(InitWorld, a) = SumFunctionOnSet(u, Address)
    BY <2>1, InitSound, PledgedIs
  <2>4. SumFunctionOnSet(u, Address) = 0
    BY <2>2, LedgerAssumption, SumZero
  <2> QED  BY <2>3, <2>4
<1>3. ASSUME NEW a \in Passive
      PROVE  IF InitWorld[a] = Absent THEN PledgedFor(InitWorld, a) = 0
             ELSE InitWorld[a].votes = PledgedFor(InitWorld, a)
                  /\ a \notin Range(InitWorld[a].voteFor)
  <2>1. a \in Address /\ a \notin Range(<<>>)
    BY DEF Passive, Range
  <2> QED  BY <1>2, <2>1, GenesisAssumption
<1>4. Supply(InitWorld) <= Supply(InitWorld)
  BY InitSound, SupplyInt
<1>5. Backed(InitWorld)
  BY <1>3, <1>4 DEF Backed
<1> QED  BY <1>5 DEF Init, VotesInv

LEMMA NextVotes == LedgerInv /\ VotesInv /\ [Next]_vars => VotesInv'
<1> SUFFICES ASSUME LedgerInv, VotesInv, [Next]_vars PROVE VotesInv'
  OBVIOUS
<1>1. SoundWorld(replay) /\ producer \in Producer /\ now \in Nat
  BY LedgerAssumption DEF LedgerInv, TypeOK
<1>2. Backed(world) /\ (agreed => Backed(replay))
  BY DEF VotesInv
<1>3. ASSUME Backed(world'), agreed' => Backed(replay')
      PROVE  VotesInv'
  BY <1>3 DEF VotesInv, Backed
<1>4. ASSUME NEW p \in Producer, NEW t \in 1 .. MaxTime, OpenBlock(p, t)
      PROVE  VotesInv'
  BY <1>2, <1>3, <1>4 DEF OpenBlock
<1>5. ASSUME NEW tx \in Tx, Include(tx)
      PROVE  VotesInv'
  <2>1. /\ replay' = ExecuteTransaction(replay, producer, now, tx).world
        /\ agreed' = (agreed /\ ExecuteTransaction(replay, producer, now, tx).done)
        /\ world' = world
    BY <1>5 DEF Include
  <2>2. agreed' => Backed(replay')
    BY <1>1, <1>2, <2>1, DoneBacked
  <2> QED  BY <1>2, <1>3, <2>1, <2>2
<1>6. ASSUME NEW tx \in Tx, Skip(tx)
      PROVE  VotesInv'
  BY <1>2, <1>3, <1>6 DEF Skip
<1>7. CASE Seal
  BY <1>2, <1>3, <1>7 DEF Seal
<1>8. CASE UNCHANGED vars
  BY <1>2, <1>3, <1>8 DEF vars
<1> QED  BY <1>4, <1>5, <1>6, <1>7, <1>8 DEF Next

\* For every set of accounts and transactions: an account that makes no blocks and
\* does not vote for itself is ranked by the coins pledged for it, and by no
\* others (BlockChainSystem.cs 378-424).
THEOREM VotesBackedCorrect == Spec => []VotesBacked
<1>1. Spec => []VotesInv
  BY InitVotes, NextVotes, LedgerInvariant, PTL DEF Spec
<1>2. VotesInv => VotesBacked
  BY DEF VotesInv, Backed, VotesBacked
<1> QED  BY <1>1, <1>2, PTL
===============================================================================
