---------------------------- MODULE ElectionProofs ----------------------------
(***************************************************************************)
(* The turns of the producers: proofs for any number of producers and      *)
(* rounds and any outcome of the votes.                                    *)
(***************************************************************************)
EXTENDS Election, SequenceTheorems, TLAPS

-----------------------------------------------------------------------------
(* Slots and rounds *)

\* Quotient and remainder, and that there is only one pair of them.
LEMMA Division ==
  ASSUME NEW a \in Nat, NEW d \in Nat \ {0}
  PROVE  \E q \in Nat, r \in 0 .. d - 1 :
           q = a \div d /\ r = a % d /\ a = d * q + r
<1>1. \A q, r : q = a \div d /\ r = a % d =>
        q \in Nat /\ r \in 0 .. d - 1 /\ a = d * q + r
  BY SMT
<1>2. QED
  BY <1>1, Zenon

LEMMA QuotientUnique ==
  ASSUME NEW d \in Nat \ {0}, NEW q \in Nat, NEW r \in 0 .. d - 1
  PROVE  (d * q + r) \div d = q /\ (d * q + r) % d = r
<1> DEFINE a == d * q + r
<1>1. a \in Nat
  BY SMT
<1> HIDE DEF a
<1>2. PICK u \in Nat, v \in 0 .. d - 1 :
        u = a \div d /\ v = a % d /\ a = d * u + v
  BY <1>1, Division, Zenon
<1> USE DEF a
<1>3. CASE u < q
  <2>1. PICK k \in Nat : q = u + 1 + k
    <3>1. q - u - 1 \in Nat /\ q = u + 1 + (q - u - 1)
      BY <1>2, <1>3
    <3>2. QED
      BY <3>1
  <2>2. d * q = d * u + d + d * k /\ d * k \in Nat
    BY <1>2, <2>1
  <2>3. QED
    BY <1>2, <2>2
<1>4. CASE q < u
  <2>1. PICK k \in Nat : u = q + 1 + k
    <3>1. u - q - 1 \in Nat /\ u = q + 1 + (u - q - 1)
      BY <1>2, <1>4
    <3>2. QED
      BY <3>1
  <2>2. d * u = d * q + d + d * k /\ d * k \in Nat
    BY <1>2, <2>1
  <2>3. QED
    BY <1>2, <2>2
<1>5. CASE u = q
  BY <1>2, <1>5
<1>6. QED
  BY <1>2, <1>3, <1>4, <1>5

\* A slot is given by its small round and the index in it.
LEMMA SlotOfRound ==
  ASSUME NEW q \in Nat, NEW i \in 0 .. N - 1
  PROVE  /\ N * q + i + 1 \in Nat \ {0}
         /\ SmallRound(N * q + i + 1) = q + 1
         /\ IndexInRound(N * q + i + 1) = i
<1>1. N \in Nat \ {0}
  BY ElectionAssumption
<1>2. N * q \in Nat
  BY <1>1
<1>3. N * q + i + 1 \in Nat \ {0} /\ (N * q + i + 1) - 1 = N * q + i
  BY <1>1, <1>2
<1>4. QED
  BY <1>1, <1>3, QuotientUnique DEF SmallRound, IndexInRound

LEMMA RoundOfSlot ==
  ASSUME NEW s \in Nat \ {0}
  PROVE  /\ SmallRound(s) \in Nat \ {0} /\ IndexInRound(s) \in 0 .. N - 1
         /\ s = N * (SmallRound(s) - 1) + IndexInRound(s) + 1
<1>1. N \in Nat \ {0} /\ s - 1 \in Nat
  BY ElectionAssumption
<1>2. PICK q \in Nat, r \in 0 .. N - 1 :
        q = (s - 1) \div N /\ r = (s - 1) % N /\ s - 1 = N * q + r
  BY <1>1, Division, Zenon
<1>4. SmallRound(s) = q + 1 /\ IndexInRound(s) = r
  BY <1>2 DEF SmallRound, IndexInRound
<1>5. q = SmallRound(s) - 1
  BY <1>2, <1>4
<1>6. QED
  BY <1>2, <1>4, <1>5

LEMMA RoundsGrow ==
  ASSUME NEW s \in Nat, NEW t \in Nat, s <= t
  PROVE  /\ SmallRound(s) \in Nat /\ SmallRound(t) \in Nat
         /\ SmallRound(s) <= SmallRound(t)
<1>1. CASE s = 0
  <2>1. SmallRound(s) = 0
    BY <1>1 DEF SmallRound
  <2>2. t # 0 => SmallRound(t) \in Nat
    BY RoundOfSlot
  <2>3. t = 0 => SmallRound(t) = 0
    BY DEF SmallRound
  <2>4. QED
    BY <2>1, <2>2, <2>3
<1>2. CASE s # 0
  <2> DEFINE p == SmallRound(s)
             q == SmallRound(t)
  <2>1. /\ N \in Nat \ {0}
        /\ p \in Nat \ {0} /\ IndexInRound(s) \in 0 .. N - 1
        /\ s = N * (p - 1) + IndexInRound(s) + 1
        /\ q \in Nat \ {0} /\ IndexInRound(t) \in 0 .. N - 1
        /\ t = N * (q - 1) + IndexInRound(t) + 1
    BY <1>2, RoundOfSlot, ElectionAssumption
  <2>2. ASSUME q < p PROVE FALSE
    <3>1. PICK k \in Nat : p - 1 = (q - 1) + 1 + k
      <4>1. p - q - 1 \in Nat /\ p - 1 = (q - 1) + 1 + (p - q - 1)
        BY <2>1, <2>2
      <4>2. QED
        BY <4>1
    <3>2. N * (p - 1) = N * (q - 1) + N + N * k /\ N * k \in Nat
      BY <2>1, <3>1
    <3>3. QED
      BY <2>1, <3>2
  <2>3. QED
    BY <2>1, <2>2
<1>3. QED
  BY <1>1, <1>2

\* A big round consists of whole small rounds.
LEMMA BigRoundOfSmall ==
  ASSUME NEW s \in Nat \ {0}
  PROVE  BigRound(s) = (SmallRound(s) - 1) \div Small + 1
<1>1. N \in Nat \ {0} /\ Small \in Nat \ {0}
  BY ElectionAssumption
<1> DEFINE q == SmallRound(s) - 1
           r == IndexInRound(s)
<1>2. q \in Nat /\ r \in 0 .. N - 1 /\ s - 1 = N * q + r
  BY <1>1, RoundOfSlot
<1> HIDE DEF q, r
<1>3. PICK u \in Nat, v \in 0 .. Small - 1 :
        u = q \div Small /\ v = q % Small /\ q = Small * u + v
  BY <1>1, <1>2, Division, Zenon
<1>4. u \in Nat /\ v \in 0 .. Small - 1 /\ q = Small * u + v
  BY <1>3, Zenon
<1>5. N * Small \in Nat \ {0} /\ N * v + r \in 0 .. N * Small - 1
  <2>1. PICK k \in Nat : Small = v + 1 + k
    <3>1. Small - v - 1 \in Nat /\ Small = v + 1 + (Small - v - 1)
      BY <1>1, <1>4
    <3>2. QED
      BY <3>1
  <2>2. N * Small = N * v + N + N * k /\ N * k \in Nat /\ N * v \in Nat
    BY <1>1, <1>4, <2>1
  <2>3. QED
    BY <1>1, <1>2, <2>2
<1>6. s - 1 = (N * Small) * u + (N * v + r)
  <2>1. N * q = (N * Small) * u + N * v
    BY <1>1, <1>4
  <2>2. QED
    BY <1>1, <1>2, <1>4, <1>5, <2>1
<1>7. (s - 1) \div (N * Small) = u
  BY <1>4, <1>5, <1>6, QuotientUnique
<1>8. QED
  BY <1>3, <1>7 DEF BigRound, q

-----------------------------------------------------------------------------
(* The inductive invariant *)

\* CampaignNodeRecord: one to three rankings.
Records == {rec \in Seq(Ranking) : Len(rec) \in 1 .. 3}

Types ==
  /\ last \in Nat /\ tally \in Ranking
  /\ record \in [Node -> Records]
  /\ cache \in [Node -> Records \cup {NoCache}]
  /\ resting \subseteq Node
  /\ made \in [Node -> Nat]

MadeBefore == \A n \in Node : made[n] <= last

\* A node that has made a block in the current small round keeps the list that
\* gave it the slot.
KeepsRank ==
  \A n \in Node :
    made[n] # 0 /\ SmallRound(made[n]) = SmallRound(last) =>
      IndexInRound(made[n]) = IndexOf(record[n], n)

TurnInv == Types /\ MadeBefore /\ KeepsRank

\* A record has a list in force, and a leader has a rank in it.
LEMMA Rank ==
  ASSUME NEW rec \in Records, NEW n \in Leaders(rec)
  PROVE  /\ IndexOf(rec, n) \in 0 .. N - 1
         /\ SortedCampaignNodes(rec)[IndexOf(rec, n) + 1] = n
<1>1. N \in Nat \ {0}
  BY ElectionAssumption
<1> DEFINE i == CHOOSE i \in 1 .. N : SortedCampaignNodes(rec)[i] = n
<1>2. \E k \in 1 .. N : SortedCampaignNodes(rec)[k] = n
  BY DEF Leaders
<1>3. i \in 1 .. N /\ SortedCampaignNodes(rec)[i] = n
  BY <1>2
<1>4. IndexOf(rec, n) = i - 1
  BY DEF IndexOf
<1> HIDE DEF i
<1>5. IndexOf(rec, n) + 1 = i
  BY <1>1, <1>3, <1>4
<1>6. QED
  BY <1>1, <1>3, <1>4, <1>5

\* Counting the votes gives a record again.
LEMMA StatisticsRecord ==
  ASSUME NEW rec \in Records, tally \in Ranking
  PROVE  Statistics(rec) \in Records
<1>1. CASE Len(rec) = 3
  <2>1. Tail(rec) \in Seq(Ranking) /\ Len(Tail(rec)) = 2
    BY <1>1, HeadTailProperties DEF Records
  <2>2. Append(Tail(rec), tally) \in Seq(Ranking) /\ Len(Append(Tail(rec), tally)) = 3
    BY <2>1, AppendProperties
  <2>3. QED
    BY <1>1, <2>2 DEF Records, Statistics
<1>2. CASE Len(rec) # 3
  <2>1. Append(rec, tally) \in Seq(Ranking) /\ Len(Append(rec, tally)) = Len(rec) + 1
    BY AppendProperties DEF Records
  <2>2. Len(rec) \in 1 .. 2 /\ Statistics(rec) = Append(rec, tally)
    BY <1>2 DEF Records, Statistics
  <2>3. QED
    BY <2>1, <2>2 DEF Records
<1>3. QED
  BY <1>1, <1>2

\* Where a node that finds a slot puts its block: at its rank in the list that
\* it gives to the block, in a later small round, or later in the same one with
\* the list unchanged.
LEMMA SpanLands ==
  ASSUME Types, NEW n \in Node, Span(n) > 0
  PROVE  LET s == last + Span(n)
         IN  /\ s \in Nat \ {0} /\ s > last
             /\ BlockRecord(n) \in Records /\ n \in Leaders(BlockRecord(n))
             /\ IndexInRound(s) = IndexOf(BlockRecord(n), n)
             /\ \/ SmallRound(s) > SmallRound(last)
                \/ /\ last # 0 /\ SmallRound(s) = SmallRound(last)
                   /\ BlockRecord(n) = record[n]
                   /\ IndexInRound(last) < IndexOf(record[n], n)
<1> DEFINE rec == BlockRecord(n)
           i == IndexOf(rec, n)
           k == IndexInRound(last)
           p == SmallRound(last)
<1>1. N \in Nat \ {0} /\ last \in Nat
  BY ElectionAssumption DEF Types
<1>2. rec \in Records /\ n \in Leaders(rec)
  BY DEF Types, Span, BlockRecord, NoAuthority
<1>3. i \in 0 .. N - 1
  BY <1>2, Rank
<1>4. last # 0 => /\ p \in Nat \ {0} /\ k \in 0 .. N - 1
                  /\ last = N * (p - 1) + k + 1
  BY <1>1, RoundOfSlot
<1>5. last = 0 => p = 0 /\ k = 0
  BY DEF SmallRound, IndexInRound
<1>6. CASE last = 0
  <2>1. cache[n] # NoCache /\ Span(n) = i + 1
    BY <1>6 DEF Span, GetProduceTimeSpan, NextRoundSpan, BlockRecord
  <2>2. last + Span(n) = N * 0 + i + 1
    BY <1>1, <1>3, <1>6, <2>1
  <2>3. SmallRound(last + Span(n)) = 1 /\ IndexInRound(last + Span(n)) = i
    BY <1>1, <1>3, <2>2, SlotOfRound
  <2>4. QED
    BY <1>1, <1>2, <1>3, <1>5, <1>6, <2>1, <2>3
<1>7. CASE last # 0 /\ Span(n) = N - k + i
  <2>1. last + Span(n) = N * p + i + 1
    <3>1. N * p = N * (p - 1) + N
      BY <1>1, <1>4, <1>7
    <3>2. N * (p - 1) \in Nat
      BY <1>1, <1>4, <1>7
    <3> HIDE DEF p, k, i
    <3>3. QED
      BY <1>1, <1>3, <1>4, <1>7, <3>1, <3>2
  <2>2. SmallRound(last + Span(n)) = p + 1 /\ IndexInRound(last + Span(n)) = i
    BY <1>1, <1>3, <1>4, <1>7, <2>1, SlotOfRound
  <2> HIDE DEF p, k, i
  <2>3. last + Span(n) \in Nat \ {0} /\ last + Span(n) > last /\ p + 1 > p
    BY <1>1, <1>3, <1>4, <1>7
  <2>4. QED
    BY <1>2, <2>2, <2>3 DEF p, i
<1>8. CASE /\ last # 0 /\ Span(n) = i - k /\ k < i
           /\ rec = record[n]
  <2>1. last + Span(n) = N * (p - 1) + i + 1
    <3>1. N * (p - 1) \in Nat
      BY <1>1, <1>4, <1>8
    <3> HIDE DEF p, k, i
    <3>2. QED
      BY <1>1, <1>3, <1>4, <1>8, <3>1
  <2>2. p - 1 \in Nat
    BY <1>4, <1>8
  <2>3. SmallRound(last + Span(n)) = (p - 1) + 1 /\ IndexInRound(last + Span(n)) = i
    BY <1>1, <1>3, <2>1, <2>2, SlotOfRound
  <2> HIDE DEF p, k, i
  <2>4. last + Span(n) \in Nat \ {0} /\ last + Span(n) > last /\ (p - 1) + 1 = p
    BY <1>1, <1>3, <1>4, <1>8
  <2>5. QED
    BY <1>2, <1>8, <2>3, <2>4 DEF p, i, k, rec
<1>9. \/ last = 0
      \/ last # 0 /\ Span(n) = N - k + i
      \/ last # 0 /\ Span(n) = i - k /\ k < i /\ rec = record[n]
  <2>1. CASE cache[n] = NoCache
    <3>1. rec = record[n] /\ Span(n) = GetProduceTimeSpan(n)
      BY <2>1 DEF Span, BlockRecord
    <3>2. last # 0 => Span(n) \in {i - k, i - k + N} /\ (Span(n) = i - k => k < i)
      BY <1>1, <1>3, <1>4, <3>1 DEF GetProduceTimeSpan
    <3>3. QED
      BY <1>1, <1>3, <1>4, <3>1, <3>2
  <2>2. CASE cache[n] # NoCache
    BY <2>2 DEF Span, BlockRecord, NextRoundSpan
  <2>3. QED
    BY <2>1, <2>2
<1>10. QED
  BY <1>6, <1>7, <1>8, <1>9

-----------------------------------------------------------------------------
(* Every step keeps it *)

LEMMA InitTurns == Init => TurnInv
<1> SUFFICES ASSUME Init PROVE TurnInv
  OBVIOUS
<1>1. <<First>> \in Records
  BY ElectionAssumption DEF Records
<1>2. Types
  BY <1>1, ElectionAssumption DEF Init, Types
<1>3. QED
  BY <1>2 DEF Init, TurnInv, MadeBefore, KeepsRank

LEMMA MakeTurns ==
  ASSUME TurnInv, NEW n \in Node, NEW late, Make(n, late)
  PROVE  TurnInv'
<1> DEFINE s == last + Span(n)
<1>1. Types /\ MadeBefore /\ KeepsRank /\ Span(n) > 0
  BY DEF TurnInv, Make
<1>2. /\ s \in Nat \ {0} /\ s > last
      /\ BlockRecord(n) \in Records
      /\ IndexInRound(s) = IndexOf(BlockRecord(n), n)
      /\ SmallRound(s) > SmallRound(last) \/ SmallRound(s) = SmallRound(last)
  BY <1>1, SpanLands
<1>3. /\ last' = s /\ made' = [made EXCEPT ![n] = s]
      /\ record' = [m \in Node |-> IF m = n THEN BlockRecord(n)
                                            ELSE Verified(record[m], s)]
      /\ cache' \in [Node -> Records \cup {NoCache}]
      /\ resting' \subseteq Node /\ tally' \in Ranking
  BY <1>1 DEF Make, Types
<1> HIDE DEF s
<1>4. \A m \in Node : Verified(record[m], s) \in Records
  BY <1>1, StatisticsRecord DEF Types, Verified
<1>5. Types'
  BY <1>1, <1>2, <1>3, <1>4 DEF Types
<1>6. MadeBefore'
  BY <1>1, <1>2, <1>3 DEF MadeBefore, Types
<1>7. KeepsRank'
  <2> SUFFICES ASSUME NEW m \in Node, made'[m] # 0,
                      SmallRound(made'[m]) = SmallRound(last')
               PROVE  IndexInRound(made'[m]) = IndexOf(record'[m], m)
    BY DEF KeepsRank
  <2>1. CASE m = n
    BY <1>1, <1>2, <1>3, <2>1 DEF Types
  <2>2. CASE m # n
    <3>1. /\ made'[m] = made[m] /\ record'[m] = Verified(record[m], s)
          /\ made[m] \in Nat \ {0} /\ made[m] <= last /\ last \in Nat \ {0}
      BY <1>1, <1>3, <2>2 DEF Types, MadeBefore
    <3>2. SmallRound(made[m]) = SmallRound(last) /\ SmallRound(s) = SmallRound(last)
      BY <1>2, <1>3, <3>1, RoundsGrow
    <3>3. BigRound(s) = BigRound(last)
      BY <1>2, <3>1, <3>2, BigRoundOfSmall
    <3>4. record'[m] = record[m]
      BY <3>1, <3>3 DEF Verified
    <3>5. QED
      BY <1>1, <3>1, <3>2, <3>4 DEF KeepsRank
  <2>3. QED
    BY <2>1, <2>2
<1>8. QED
  BY <1>5, <1>6, <1>7 DEF TurnInv

LEMMA NextTurns == TurnInv /\ [Next]_vars => TurnInv'
<1> SUFFICES ASSUME TurnInv, [Next]_vars PROVE TurnInv'
  OBVIOUS
<1> USE DEF TurnInv, Types, MadeBefore, KeepsRank
<1>1. ASSUME NEW n \in Node, Count(n)
      PROVE  TurnInv'
  BY <1>1, StatisticsRecord DEF Count
<1>2. ASSUME NEW n \in Node, NEW late, Make(n, late)
      PROVE  TurnInv'
  BY <1>2, MakeTurns
<1>3. ASSUME NEW n \in Node, MakeInVain(n)
      PROVE  TurnInv'
  BY <1>3 DEF MakeInVain
<1>4. ASSUME NEW n \in Node, Rested(n)
      PROVE  TurnInv'
  BY <1>4 DEF Rested
<1>5. CASE UNCHANGED vars
  BY <1>5 DEF vars
<1>6. QED
  BY <1>1, <1>2, <1>3, <1>4, <1>5 DEF Next

\* In every reachable state the blocks a node made lie in the past, and a node
\* that made one in the current small round keeps the list it made it by.
THEOREM TurnInvCorrect == Spec => []TurnInv
BY InitTurns, NextTurns, PTL DEF Spec

-----------------------------------------------------------------------------
(* What follows from it *)

\* A node makes one block in a small round at most, whatever the votes lead to,
\* whichever nodes keep a count that is out of date, and however long a node
\* waits.
THEOREM OncePerRoundCorrect == Spec => OncePerRound
<1>1. TurnInv /\ [Next]_vars =>
        [\A n \in Node : made'[n] # made[n] /\ made[n] # 0 =>
           SmallRound(made'[n]) > SmallRound(made[n])]_vars
  <2> SUFFICES ASSUME TurnInv, Next, NEW n \in Node, made'[n] # made[n], made[n] # 0
               PROVE  SmallRound(made'[n]) > SmallRound(made[n])
    OBVIOUS
  <2>1. PICK late : Make(n, late)
    <3>1. PICK m \in Node : \E late : Make(m, late)
      BY DEF Next, Count, MakeInVain, Rested
    <3>2. m = n
      BY <3>1 DEF Make, TurnInv, Types
    <3>3. QED
      BY <3>1, <3>2
  <2> DEFINE s == last + Span(n)
  <2>2. Types /\ MadeBefore /\ KeepsRank /\ Span(n) > 0 /\ made'[n] = s
    BY <2>1 DEF TurnInv, Make, Types
  <2>3. /\ s \in Nat \ {0} /\ s > last
        /\ \/ SmallRound(s) > SmallRound(last)
           \/ /\ last # 0 /\ SmallRound(s) = SmallRound(last)
              /\ IndexInRound(last) < IndexOf(record[n], n)
    BY <2>2, SpanLands
  <2> HIDE DEF s
  <2>4. made[n] \in Nat \ {0} /\ last \in Nat \ {0} /\ made[n] <= last
    BY <2>2 DEF Types, MadeBefore
  <2>5. /\ SmallRound(made[n]) \in Nat /\ SmallRound(last) \in Nat
        /\ SmallRound(s) \in Nat /\ SmallRound(made[n]) <= SmallRound(last)
    BY <2>3, <2>4, RoundsGrow
  <2>6. CASE SmallRound(s) > SmallRound(last) \/ SmallRound(made[n]) < SmallRound(last)
    BY <2>2, <2>3, <2>5, <2>6
  <2>7. CASE /\ SmallRound(made[n]) = SmallRound(last)
             /\ IndexInRound(last) < IndexOf(record[n], n)
    <3>1. IndexInRound(last) < IndexInRound(made[n])
      BY <2>2, <2>4, <2>7 DEF KeepsRank
    <3>2. /\ N \in Nat \ {0}
          /\ made[n] = N * (SmallRound(last) - 1) + IndexInRound(made[n]) + 1
          /\ last = N * (SmallRound(last) - 1) + IndexInRound(last) + 1
          /\ IndexInRound(last) \in Nat /\ IndexInRound(made[n]) \in Nat
      <4>1. /\ made[n] = N * (SmallRound(made[n]) - 1) + IndexInRound(made[n]) + 1
            /\ IndexInRound(made[n]) \in 0 .. N - 1
        BY <2>4, RoundOfSlot
      <4>2. /\ last = N * (SmallRound(last) - 1) + IndexInRound(last) + 1
            /\ IndexInRound(last) \in 0 .. N - 1
        BY <2>4, RoundOfSlot
      <4>3. QED
        BY <2>7, <4>1, <4>2, ElectionAssumption
    <3>3. N * (SmallRound(last) - 1) \in Int
      BY <2>5, <3>2
    <3>4. QED
      BY <2>4, <3>1, <3>2, <3>3
  <2>8. QED
    BY <2>3, <2>5, <2>6, <2>7
<1>2. QED
  BY <1>1, TurnInvCorrect, PTL DEF Spec, OncePerRound

\* Blocks are produced in the order of the votes.
THEOREM InTurnCorrect == Spec => InTurn
<1>1. TurnInv /\ [Next]_vars =>
        [\A n \in Node : made'[n] # made[n] =>
           SortedCampaignNodes(record'[n])[IndexInRound(last') + 1] = n]_vars
  <2> SUFFICES ASSUME TurnInv, Next, NEW n \in Node, made'[n] # made[n]
               PROVE  SortedCampaignNodes(record'[n])[IndexInRound(last') + 1] = n
    OBVIOUS
  <2>1. PICK late : Make(n, late)
    <3>1. PICK m \in Node : \E late : Make(m, late)
      BY DEF Next, Count, MakeInVain, Rested
    <3>2. m = n
      BY <3>1 DEF Make, TurnInv, Types
    <3>3. QED
      BY <3>1, <3>2
  <2>2. /\ Types /\ Span(n) > 0 /\ last' = last + Span(n)
        /\ record'[n] = BlockRecord(n)
    BY <2>1 DEF TurnInv, Make, Types
  <2>3. /\ BlockRecord(n) \in Records /\ n \in Leaders(BlockRecord(n))
        /\ IndexInRound(last') = IndexOf(BlockRecord(n), n)
    BY <2>2, SpanLands
  <2>4. QED
    BY <2>2, <2>3, Rank
<1>2. QED
  BY <1>1, TurnInvCorrect, PTL DEF Spec, InTurn

\* A node that is among the producers of every list that has been recorded or
\* counted finds a slot, or counts the votes and finds one then, however many
\* others are voted in and out and however the records of the nodes differ.
THEOREM SomeoneCanProduceCorrect == Spec => []SomeoneCanProduce
<1>1. ASSUME TurnInv, NEW n \in Node, StaysLeader(n) PROVE CanProduce(n)
  <2>1. Types /\ N \in Nat \ {0} /\ last \in Nat
    BY <1>1, ElectionAssumption DEF TurnInv, Types
  <2>2. ASSUME NEW m \in Node, NEW rec \in Records, rec \in {record[m], cache[m]}
        PROVE  n \in Leaders(rec) /\ n \in Leaders(Statistics(rec))
    <3>1. /\ rec \in Seq(Ranking) /\ Len(rec) \in 1 .. 3 /\ rec # NoCache
          /\ \A i \in 1 .. Len(rec) : n \in {rec[i][j] : j \in 1 .. N}
      BY <1>1, <2>2, ElectionAssumption DEF StaysLeader, Records
    <3>2. Statistics(rec)[1] \in {rec[1], rec[2]} /\ (Len(rec) = 1 => Statistics(rec)[1] = rec[1])
      BY <3>1 DEF Statistics
    <3>3. QED
      BY <3>1, <3>2 DEF Leaders, SortedCampaignNodes
  <2>3. /\ \A m \in Node : n \in Leaders(record[m])
        /\ n \in Leaders(Statistics(record[n]))
        /\ cache[n] # NoCache => n \in Leaders(cache[n])
    BY <2>1, <2>2, StatisticsRecord DEF Types
  <2>4. last # 0 => IndexInRound(last) \in 0 .. N - 1
    BY <2>1, RoundOfSlot
  <2>5. CASE cache[n] # NoCache
    <3>1. IndexOf(cache[n], n) \in 0 .. N - 1
      BY <2>1, <2>3, <2>5, Rank DEF Types
    <3>2. NextRoundSpan(n, cache[n]) > 0
      BY <2>1, <2>4, <3>1 DEF NextRoundSpan
    <3>3. Span(n) > 0
      BY <2>3, <2>5, <3>2 DEF Span, NoAuthority
    <3>4. QED
      BY <2>3, <3>3 DEF CanProduce, IsProducer
  <2>6. CASE cache[n] = NoCache
    <3>1. IndexOf(record[n], n) \in 0 .. N - 1
      BY <2>1, <2>3, Rank DEF Types
    <3>2. GetProduceTimeSpan(n) = 0 \/ GetProduceTimeSpan(n) > 0
      BY <2>1, <2>4, <3>1 DEF GetProduceTimeSpan
    <3>3. ~NoAuthority(n) /\ Span(n) = GetProduceTimeSpan(n)
      BY <2>3, <2>6 DEF Span, NoAuthority
    <3>4. Span(n) > 0 \/ MustCount(n)
      BY <2>6, <3>2, <3>3 DEF MustCount
    <3>5. QED
      BY <2>3, <3>4 DEF CanProduce, IsProducer
  <2>7. QED
    BY <2>5, <2>6
<1>2. TurnInv => SomeoneCanProduce
  BY <1>1 DEF SomeoneCanProduce
<1>3. QED
  BY <1>2, TurnInvCorrect, PTL
=============================================================================
