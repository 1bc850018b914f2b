---------------------------- MODULE LevelDBProofs -----------------------------
(***************************************************************************)
(* Nothing of a database that is promised is lost: proofs for every number *)
(* of levels, every limit, all keys and writes, whatever files a failure   *)
(* cuts off and whenever it comes.                                         *)
(***************************************************************************)
EXTENDS VersionSetProofs

(******************************************************************************)
(* Logs                                                                       *)
(******************************************************************************)
Op == [key : Keys, put : BOOLEAN]
\* The sequence numbers of a batch are sequence numbers.
Fits(b) == b.seq + Len(b.ops) <= MaxSequence
Record == {r \in [seq : Nat, ops : Seq(Op), lost : BOOLEAN] : Fits(r)}
LogFile == {f \in [recs : Seq(Record), synced : Nat] : f.synced <= Len(f.recs)}
IsLogs(ls) ==
  /\ ls = [n \in DOMAIN ls |-> ls[n]] /\ DOMAIN ls \subseteq Nat /\ IsFiniteSet(DOMAIN ls)
  /\ \A n \in DOMAIN ls : ls[n] \in LogFile
Table == {S \in SUBSET IKey : IsFiniteSet(S)}
\* What was written to a log, lost or not.
EntriesOf(recs) == UNION {Entries(recs[i]) : i \in DOMAIN recs}

\* The numbers of a batch that fits.
LEMMA NthNumber ==
  ASSUME NEW s \in Nat, NEW n \in Nat, s + n <= MaxSequence, NEW i \in 1 .. n
  PROVE  s + i - 1 \in 0 .. MaxSequence
BY DEF MaxSequence

\* The entries of a batch are the contents of a table.
LEMMA EntriesAre ==
  ASSUME NEW b, b.seq \in Nat, b.ops \in Seq(Op), Fits(b)
  PROVE  Entries(b) \in Table
<1> DEFINE n == Len(b.ops)
           e == [i \in 1 .. n |-> <<b.ops[i].key, b.seq + i - 1,
                                    IF b.ops[i].put THEN Value ELSE Deletion>>]
           E == {e[i] : i \in 1 .. n}
<1>1. n \in Nat /\ \A i \in 1 .. n : b.ops[i] \in Op
  OBVIOUS
<1>2. Entries(b) = E
  <2>1. DOMAIN b.ops = 1 .. n
    OBVIOUS
  <2>2. Entries(b) = {<<b.ops[i].key, b.seq + i - 1,
                        IF b.ops[i].put THEN Value ELSE Deletion>> : i \in 1 .. n}
    BY <2>1 DEF Entries
  <2> HIDE DEF n
  <2> QED  BY <2>2
<1>3. ASSUME NEW i \in 1 .. n PROVE e[i] \in IKey
  <2>1. b.ops[i].key \in Keys
    BY <1>1 DEF Op
  <2>2. b.seq + i - 1 \in 0 .. MaxSequence
    <3>1. n \in Nat /\ i \in 1 .. n /\ b.seq + n <= MaxSequence /\ b.seq \in Nat
      BY <1>1 DEF Fits
    <3> HIDE DEF n
    <3> QED  BY <3>1, NthNumber
  <2>3. b.ops[i].put \in BOOLEAN
    BY <1>1 DEF Op
  <2>4. e[i] = <<b.ops[i].key, b.seq + i - 1, IF b.ops[i].put THEN Value ELSE Deletion>>
    OBVIOUS
  <2> HIDE DEF e
  <2> QED  BY <2>1, <2>2, <2>3, <2>4 DEF IKey, Value, Deletion
<1>4. IsFiniteSet(1 .. n)
  BY <1>1, FS_Interval
<1> HIDE DEF e
<1>5. E \subseteq IKey /\ IsFiniteSet(E)
  BY <1>3, <1>4, ImageIsFinite
<1> QED  BY <1>2, <1>5 DEF Table

\* Contents of tables are finite sets, and so is what two hold.
LEMMA TablesAreFinite ==
  /\ {} \in Table
  /\ \A S \in Table : IsFiniteSet(S) /\ S \subseteq IKey /\ Cardinality(S) \in Nat
                      /\ (Cardinality(S) = 0 <=> S = {})
                      /\ IsContents(S)
  /\ \A S, T \in Table : S \cup T \in Table
<1>1. {} \in Table
  BY FS_EmptySet DEF Table
<1>2. ASSUME NEW S \in Table
      PROVE  IsFiniteSet(S) /\ S \subseteq IKey /\ Cardinality(S) \in Nat
             /\ (Cardinality(S) = 0 <=> S = {}) /\ IsContents(S)
  BY FS_CardinalityType, FS_EmptySet DEF Table, IsContents
<1>3. ASSUME NEW S \in Table, NEW T \in Table PROVE S \cup T \in Table
  BY FS_Union DEF Table
<1> QED  BY <1>1, <1>2, <1>3

(******************************************************************************)
(* The tables written for one log                                             *)
(******************************************************************************)
TableStep(recs, i, s) ==
  LET m == s.mem \cup Replayed(recs[i])
  IN  IF Cardinality(m) > WriteBufferSize
      THEN [done |-> Append(s.done, m), mem |-> {}]
      ELSE [s EXCEPT !.mem = m]
TablesMade(h, recs) ==
  h = [i \in 0 .. Len(recs) |->
         IF i = 0 THEN [done |-> <<>>, mem |-> {}] ELSE TableStep(recs, i, h[i - 1])]

\* What recovery reads of a record.
LEMMA ReplayedAre ==
  ASSUME NEW r \in Record
  PROVE  Replayed(r) \in Table /\ Replayed(r) \subseteq Entries(r)
<1>1. Entries(r) \in Table
  BY EntriesAre DEF Record
<1> QED  BY <1>1, TablesAreFinite DEF Replayed

\* What recovery reads of a log was written to it.
LEMMA ReplayedInside ==
  ASSUME NEW recs \in Seq(Record)
  PROVE  ReplayedOf(recs) \subseteq EntriesOf(recs)
<1>1. \A i \in DOMAIN recs : recs[i] \in Record
  OBVIOUS
<1>2. \A i \in DOMAIN recs : Replayed(recs[i]) \subseteq Entries(recs[i])
  BY <1>1, ReplayedAre
<1> QED  BY <1>2 DEF ReplayedOf, EntriesOf

\* RecoverLogFile, record by record.
LEMMA LogTablesDef ==
  ASSUME NEW recs, NEW e, TablesMade(e, recs)
  PROVE  \E h : /\ TablesMade(h, recs)
                /\ LogTables(recs) = IF h[Len(recs)].mem = {} THEN h[Len(recs)].done
                                     ELSE Append(h[Len(recs)].done, h[Len(recs)].mem)
<1> DEFINE h == CHOOSE h : TablesMade(h, recs)
<1>1. TablesMade(h, recs)
  OBVIOUS
<1>2. LogTables(recs) = IF h[Len(recs)].mem = {} THEN h[Len(recs)].done
                        ELSE Append(h[Len(recs)].done, h[Len(recs)].mem)
  BY Zenon DEF LogTables, TablesMade, TableStep
<1> HIDE DEF h
<1> QED  BY <1>1, <1>2

TableState == [done : Seq(Table \ {{}}), mem : Table]

\* One record keeps the memtable and the tables written as they should be.
LEMMA TableStepType ==
  ASSUME NEW recs \in Seq(Record), NEW i \in 1 .. Len(recs), NEW s \in TableState
  PROVE  TableStep(recs, i, s) \in TableState
<1> DEFINE m == s.mem \cup Replayed(recs[i])
           X == Table \ {{}}
<1>1. s.mem \in Table /\ s.done \in Seq(X)
  BY DEF TableState
<1>2. m \in Table
  <2>1. recs[i] \in Record
    OBVIOUS
  <2>2. Replayed(recs[i]) \in Table
    BY <2>1, ReplayedAre
  <2> QED  BY <1>1, <2>2, TablesAreFinite
<1>3. TableStep(recs, i, s) = IF Cardinality(m) > WriteBufferSize
                              THEN [done |-> Append(s.done, m), mem |-> {}]
                              ELSE [s EXCEPT !.mem = m]
  BY DEF TableStep
<1> HIDE DEF m
<1>4. CASE Cardinality(m) > WriteBufferSize
  <2>1. m \in X
    BY <1>2, <1>4, TablesAreFinite, BoundsAssumption
  <2> HIDE DEF X
  <2>2. Append(s.done, m) \in Seq(X)
    BY <1>1, <2>1
  <2> QED  BY <1>3, <1>4, <2>2, TablesAreFinite DEF TableState, X
<1>5. CASE ~(Cardinality(m) > WriteBufferSize)
  <2>1. [s EXCEPT !.mem = m] \in TableState
    BY <1>2 DEF TableState
  <2> QED  BY <1>3, <1>5, <2>1
<1> QED  BY <1>4, <1>5

\* The memtables of a log that is read again, step by step.
LEMMA LogTablesSteps ==
  ASSUME NEW recs \in Seq(Record)
  PROVE  \E h : /\ h[0] = [done |-> <<>>, mem |-> {}]
                /\ \A i \in 1 .. Len(recs) : h[i] = TableStep(recs, i, h[i - 1])
                /\ \A i \in 0 .. Len(recs) : h[i] \in TableState
                /\ LogTables(recs) = IF h[Len(recs)].mem = {} THEN h[Len(recs)].done
                                     ELSE Append(h[Len(recs)].done, h[Len(recs)].mem)
<1> DEFINE n == Len(recs)
           T == TableState
           b == [done |-> <<>>, mem |-> {}]
           g == [p \in (1 .. n) \X T |-> TableStep(recs, p[1], p[2])]
<1>1. n \in Nat
  OBVIOUS
<1>2. b \in T
  BY TablesAreFinite DEF TableState
<1>3. \A i \in 1 .. n, s \in T : TableStep(recs, i, s) \in T
  BY TableStepType
<1> HIDE DEF n, T, b
<1>4. g \in [(1 .. n) \X T -> T]
  BY <1>3
<1>5. \A i \in 1 .. n, t \in T : g[<<i, t>>] = TableStep(recs, i, t)
  OBVIOUS
<1> HIDE DEF g
<1>6. PICK e : Iterates(e, n, T, b, g)
  BY <1>1, <1>2, <1>4, RecursiveFunction
<1>7. e \in [0 .. n -> T] /\ e[0] = b /\ \A i \in 1 .. n : e[i] = g[<<i, e[i - 1]>>]
  BY <1>6 DEF Iterates
<1>8. ASSUME NEW i \in 0 .. n, i # 0 PROVE e[i] = TableStep(recs, i, e[i - 1])
  <2>1. i \in 1 .. n /\ i - 1 \in 0 .. n
    BY <1>1, <1>8
  <2>2. e[i - 1] \in T
    BY <1>7, <2>1
  <2> QED  BY <1>5, <1>7, <2>1, <2>2
<1>9. TablesMade(e, recs)
  BY <1>7, <1>8 DEF TablesMade, n, b
<1>10. PICK h : /\ TablesMade(h, recs)
                /\ LogTables(recs) = IF h[n].mem = {} THEN h[n].done
                                     ELSE Append(h[n].done, h[n].mem)
  BY <1>9, LogTablesDef DEF n
<1> DEFINE Nth(i) == IF i = 0 THEN b ELSE TableStep(recs, i, h[i - 1])
<1>11. \A i \in 0 .. n : h[i] = Nth(i)
  <2>1. h = [i \in 0 .. n |-> Nth(i)]
    BY <1>10 DEF TablesMade, n, b
  <2> HIDE DEF Nth
  <2> QED  BY <2>1
<1>12. h[0] = b /\ \A i \in 1 .. n : h[i] = TableStep(recs, i, h[i - 1])
  BY <1>1, <1>11
<1> DEFINE Good == {i \in 0 .. n : h[i] \in T}
<1>13. 0 \in Good
  BY <1>1, <1>2, <1>12
<1>14. ASSUME NEW i \in 1 .. n, i - 1 \in Good PROVE i \in Good
  BY <1>1, <1>3, <1>12, <1>14
<1>15. \A i \in 0 .. n : i \in Good
  <2> HIDE DEF Good
  <2> QED  BY <1>1, <1>13, <1>14, UptoInduction
<1> QED  BY <1>10, <1>12, <1>15 DEF n, T, b

\* The tables written for a log are not empty.
LEMMA LogTablesAre ==
  ASSUME NEW recs \in Seq(Record)
  PROVE  LogTables(recs) \in Seq(Table \ {{}})
<1> DEFINE n == Len(recs)
           X == Table \ {{}}
<1>1. PICK h : /\ \A i \in 0 .. n : h[i] \in TableState
               /\ LogTables(recs) = IF h[n].mem = {} THEN h[n].done
                                    ELSE Append(h[n].done, h[n].mem)
  BY LogTablesSteps
<1>2. n \in 0 .. n
  OBVIOUS
<1>3. h[n].done \in Seq(X) /\ h[n].mem \in Table
  BY <1>1, <1>2 DEF TableState
<1> HIDE DEF n
<1>4. CASE h[n].mem = {}
  BY <1>1, <1>3, <1>4
<1>5. CASE h[n].mem # {}
  <2>1. h[n].mem \in X
    BY <1>3, <1>5
  <2> HIDE DEF X
  <2>2. Append(h[n].done, h[n].mem) \in Seq(X)
    BY <1>3, <2>1
  <2> QED  BY <1>1, <1>5, <2>2 DEF X
<1> QED  BY <1>4, <1>5

(******************************************************************************)
(* The tables and numbers of a recovery                                       *)
(******************************************************************************)
LogsFrom(minLog) == {n \in DOMAIN logs : n >= minLog}
LogOrder(minLog) == InOrder(LogsFrom(minLog), <)
\* All that recovery reads.
ReplayedFrom(minLog) == UNION {ReplayedOf(logs[n].recs) : n \in LogsFrom(minLog)}

\* The logs not older than the manifest's, every one of them.
LEMMA LogOrderIs ==
  ASSUME IsLogs(logs), NEW minLog \in Nat
  PROVE  /\ LogOrder(minLog) \in Seq(LogsFrom(minLog))
         /\ \A n \in LogsFrom(minLog) :
              \E i \in 1 .. Len(LogOrder(minLog)) : LogOrder(minLog)[i] = n
<1> DEFINE S == LogsFrom(minLog)
           q == LogOrder(minLog)
           R == {p \in S \X S : p[1] < p[2]}
           First(i) == CHOOSE x \in S : Cardinality({y \in S : y < x}) = i - 1
<1>1. S \subseteq Nat /\ IsFiniteSet(S)
  BY FS_Subset DEF LogsFrom, IsLogs
<1>2. q = [i \in 1 .. Cardinality(S) |-> First(i)]
  BY DEF LogOrder, InOrder
<1> HIDE DEF S, q
<1>3. \A x, y \in S : <<x, y>> \in R <=> x < y
  OBVIOUS
<1> HIDE DEF R
<1>4. StrictOrder(S, R)
  BY <1>1, <1>3 DEF StrictOrder
<1>5. \A x \in S : Below(S, R, x) = {y \in S : y < x}
  BY <1>3 DEF Below
<1>6. Ranks(q, S, R)
  <2>1. ASSUME NEW i \in 1 .. Cardinality(S), NEW x \in S, Cardinality(Below(S, R, x)) = i - 1
        PROVE  q[i] \in S /\ Cardinality(Below(S, R, q[i])) = i - 1
    <3>1. Cardinality({y \in S : y < x}) = i - 1
      BY <1>5, <2>1
    <3>2. First(i) \in S /\ Cardinality({y \in S : y < First(i)}) = i - 1
      BY <3>1
    <3> HIDE DEF First
    <3> QED  BY <1>2, <1>5, <3>2
  <2>2. q = [i \in 1 .. Cardinality(S) |-> q[i]]
    <3> HIDE DEF First
    <3> QED  BY <1>2
  <2> QED  BY <2>1, <2>2 DEF Ranks
<1>7. q \in Seq(S) /\ \A x \in S : \E i \in 1 .. Len(q) : q[i] = x
  BY <1>1, <1>4, <1>6, RanksList
<1> QED  BY <1>7 DEF q, S

ReplayStep(order, i, s) ==
  LET made == LogTables(logs[order[i]].recs)
  IN  [next |-> Max({s.next + Len(made), order[i] + 1}),
       new |-> s.new \o [j \in DOMAIN made |->
                           [number |-> s.next + j - 1, entries |-> made[j]]]]
Replays(h, order, nextFile) ==
  h = [i \in 0 .. Len(order) |->
         IF i = 0 THEN [next |-> nextFile, new |-> <<>>] ELSE ReplayStep(order, i, h[i - 1])]

\* Recover, log by log.
LEMMA RecoverLogsDef ==
  ASSUME NEW minLog, NEW nextFile, NEW e, Replays(e, LogOrder(minLog), nextFile)
  PROVE  \E h : /\ Replays(h, LogOrder(minLog), nextFile)
                /\ RecoverLogs(minLog, nextFile) = h[Len(LogOrder(minLog))]
<1> DEFINE h == CHOOSE h : Replays(h, LogOrder(minLog), nextFile)
<1>1. Replays(h, LogOrder(minLog), nextFile)
  OBVIOUS
<1>2. RecoverLogs(minLog, nextFile) = h[Len(LogOrder(minLog))]
  BY Zenon DEF RecoverLogs, Replays, ReplayStep, LogOrder, LogsFrom
<1> HIDE DEF h
<1> QED  BY <1>1, <1>2

NewTable == [number : Nat, entries : Table \ {{}}]
Numbered(new, from, next) ==
  /\ \A k \in 1 .. Len(new) : from <= new[k].number /\ new[k].number < next
  /\ \A j, k \in 1 .. Len(new) : j < k => new[j].number < new[k].number
ReplayState(from) ==
  {s \in [next : Nat, new : Seq(NewTable)] :
     from <= s.next /\ Numbered(s.new, from, s.next)}

\* The larger of two numbers.
LEMMA LargerOfTwo ==
  ASSUME NEW a \in Nat, NEW b \in Nat
  PROVE  Max({a, b}) \in Nat /\ a <= Max({a, b}) /\ b <= Max({a, b})
<1>1. IsFiniteSet({a, b})
  <2>1. {a, b} = {a} \cup {b}
    OBVIOUS
  <2>2. IsFiniteSet({a})
    BY FS_Singleton
  <2>3. IsFiniteSet({a} \cup {b})
    BY <2>2, FS_AddElement
  <2> QED  BY <2>1, <2>3
<1>2. {a, b} \subseteq Nat /\ {a, b} # {}
  OBVIOUS
<1>3. Max({a, b}) \in {a, b} /\ \A x \in {a, b} : x <= Max({a, b})
  BY <1>1, <1>2, MaxOfSome
<1> QED  BY <1>2, <1>3

\* One log: the tables get fresh numbers, below the next one.
LEMMA ReplayStepType ==
  ASSUME IsLogs(logs), NEW from \in Nat, NEW order \in Seq(DOMAIN logs),
         NEW i \in 1 .. Len(order), NEW s \in ReplayState(from)
  PROVE  /\ ReplayStep(order, i, s) \in ReplayState(from)
         /\ s.next <= ReplayStep(order, i, s).next
         /\ order[i] < ReplayStep(order, i, s).next
<1> DEFINE made == LogTables(logs[order[i]].recs)
           m == Len(made)
           more == [j \in DOMAIN made |-> [number |-> s.next + j - 1, entries |-> made[j]]]
           next == Max({s.next + m, order[i] + 1})
           t == [next |-> next, new |-> s.new \o more]
<1>1. order[i] \in DOMAIN logs /\ order[i] \in Nat /\ logs[order[i]].recs \in Seq(Record)
  <2>1. order[i] \in DOMAIN logs
    OBVIOUS
  <2> QED  BY <2>1 DEF IsLogs, LogFile
<1>2. made \in Seq(Table \ {{}})
  BY <1>1, LogTablesAre
<1>3. s.next \in Nat /\ s.new \in Seq(NewTable) /\ from <= s.next /\ Numbered(s.new, from, s.next)
  BY DEF ReplayState
<1>4. ReplayStep(order, i, s) = t
  BY DEF ReplayStep
<1> HIDE DEF made
<1>5. m \in Nat /\ DOMAIN made = 1 .. m /\ \A j \in 1 .. m : made[j] \in Table \ {{}}
  BY <1>2
<1>6. more \in Seq(NewTable) /\ Len(more) = m /\ \A j \in 1 .. m : more[j].number = s.next + j - 1
  <2>1. \A j \in 1 .. m : [number |-> s.next + j - 1, entries |-> made[j]] \in NewTable
    BY <1>3, <1>5 DEF NewTable
  <2> HIDE DEF m
  <2>2. more \in [1 .. m -> NewTable]
    BY <1>5, <2>1
  <2> QED  BY <1>5, <2>2
<1>7. next \in Nat /\ s.next + m <= next /\ order[i] + 1 <= next
  <2> HIDE DEF m
  <2>1. s.next + m \in Nat /\ order[i] + 1 \in Nat
    BY <1>1, <1>3, <1>5
  <2> QED  BY <2>1, LargerOfTwo
<1> HIDE DEF more, m, next
<1> DEFINE new == s.new \o more
           k == Len(s.new)
<1>8. k \in Nat /\ new \in Seq(NewTable) /\ Len(new) = k + m
      /\ (\A j \in 1 .. k : new[j] = s.new[j])
      /\ (\A j \in (k + 1) .. (k + m) : new[j] = more[j - k])
  <2>1. s.new \in Seq(NewTable) /\ more \in Seq(NewTable)
    BY <1>3, <1>6
  <2>2. /\ new \in Seq(NewTable) /\ Len(new) = Len(s.new) + Len(more)
        /\ \A j \in 1 .. Len(s.new) : new[j] = s.new[j]
        /\ \A j \in 1 .. Len(more) : new[Len(s.new) + j] = more[j]
    BY <2>1, ConcatProperties
  <2>3. k \in Nat
    BY <2>1
  <2>4. ASSUME NEW j \in (k + 1) .. (k + m) PROVE new[j] = more[j - k]
    <3>1. j - k \in 1 .. Len(more) /\ k + (j - k) = j
      BY <1>5, <1>6, <2>3
    <3> HIDE DEF new
    <3> QED  BY <2>2, <3>1
  <2> QED  BY <1>6, <2>2, <2>3, <2>4
<1>9. \A j \in 1 .. k : from <= new[j].number /\ new[j].number < s.next /\ new[j].number \in Nat
  <2>0. \A j \in 1 .. k : s.new[j] \in NewTable
    BY <1>3
  <2>1. \A j \in 1 .. k : s.new[j].number \in Nat
    BY <2>0 DEF NewTable
  <2> QED  BY <1>3, <1>8, <2>1 DEF Numbered
<1>10. \A j \in (k + 1) .. (k + m) : new[j].number = s.next + (j - k) - 1
  <2> TAKE j \in (k + 1) .. (k + m)
  <2> HIDE DEF new, k
  <2>1. j - k \in 1 .. m
    BY <1>5, <1>8
  <2> QED  BY <1>6, <1>8, <2>1
<1>11. \A a, b \in 1 .. k : a < b => new[a].number < new[b].number
  BY <1>3, <1>8 DEF Numbered
<1> HIDE DEF new, k
<1>12. Numbered(new, from, next)
  <2>1. ASSUME NEW j \in 1 .. k + m PROVE from <= new[j].number /\ new[j].number < next
    <3>1. CASE j \in 1 .. k
      BY <1>3, <1>5, <1>7, <1>9, <3>1
    <3>2. CASE j \in (k + 1) .. (k + m)
      BY <1>3, <1>5, <1>7, <1>8, <1>10, <3>2
    <3> QED  BY <1>5, <1>8, <3>1, <3>2
  <2>2. ASSUME NEW a \in 1 .. k + m, NEW b \in 1 .. k + m, a < b
        PROVE  new[a].number < new[b].number
    <3>1. CASE a \in 1 .. k /\ b \in 1 .. k
      BY <1>11, <2>2, <3>1
    <3>2. CASE a \in 1 .. k /\ b \in (k + 1) .. (k + m)
      <4>1. new[a].number < s.next /\ new[a].number \in Nat
        BY <1>9, <3>2
      <4>2. new[b].number = s.next + (b - k) - 1
        BY <1>10, <3>2
      <4> QED  BY <1>3, <1>8, <3>2, <4>1, <4>2
    <3>3. CASE a \in (k + 1) .. (k + m) /\ b \in (k + 1) .. (k + m)
      BY <1>3, <1>8, <1>10, <2>2, <3>3
    <3> QED  BY <1>5, <1>8, <2>2, <3>1, <3>2, <3>3
  <2> QED  BY <1>8, <2>1, <2>2 DEF Numbered
<1>13. t = [next |-> next, new |-> new]
  BY DEF new
<1> HIDE DEF t
<1>14. t \in ReplayState(from)
  BY <1>3, <1>5, <1>7, <1>8, <1>12, <1>13 DEF ReplayState
<1>15. s.next <= t.next /\ order[i] < t.next
  BY <1>1, <1>3, <1>5, <1>7, <1>13
<1> QED  BY <1>4, <1>14, <1>15

\* The logs that are read again, one after the other.
LEMMA ReplaySteps ==
  ASSUME IsLogs(logs), NEW minLog \in Nat, NEW from \in Nat
  PROVE  \E order \in Seq(LogsFrom(minLog)) : \E h :
           /\ order = LogOrder(minLog)
           /\ h[0] = [next |-> from, new |-> <<>>]
           /\ \A i \in 1 .. Len(order) : h[i] = ReplayStep(order, i, h[i - 1])
           /\ \A i \in 0 .. Len(order) : h[i] \in ReplayState(from)
           /\ RecoverLogs(minLog, from) = h[Len(order)]
<1> DEFINE order == LogOrder(minLog)
           n == Len(order)
           T == ReplayState(from)
           b == [next |-> from, new |-> <<>>]
           g == [p \in (1 .. n) \X T |-> ReplayStep(order, p[1], p[2])]
<1>1. order \in Seq(LogsFrom(minLog)) /\ LogsFrom(minLog) \subseteq DOMAIN logs
  BY LogOrderIs DEF LogsFrom
<1> HIDE DEF order
<1>2. n \in Nat /\ order \in Seq(DOMAIN logs)
  BY <1>1
<1>3. b \in T
  BY DEF ReplayState, Numbered
<1>4. \A i \in 1 .. n, s \in T : ReplayStep(order, i, s) \in T
  BY <1>2, ReplayStepType
<1> HIDE DEF n, T, b
<1>6. g \in [(1 .. n) \X T -> T]
  BY <1>4
<1>7. \A i \in 1 .. n, t \in T : g[<<i, t>>] = ReplayStep(order, i, t)
  OBVIOUS
<1> HIDE DEF g
<1>8. PICK e : Iterates(e, n, T, b, g)
  BY <1>2, <1>3, <1>6, RecursiveFunction
<1>9. e \in [0 .. n -> T] /\ e[0] = b /\ \A i \in 1 .. n : e[i] = g[<<i, e[i - 1]>>]
  BY <1>8 DEF Iterates
<1>10. ASSUME NEW i \in 0 .. n, i # 0 PROVE e[i] = ReplayStep(order, i, e[i - 1])
  <2>1. i \in 1 .. n /\ i - 1 \in 0 .. n
    BY <1>2, <1>10
  <2>2. e[i - 1] \in T
    BY <1>9, <2>1
  <2> QED  BY <1>7, <1>9, <2>1, <2>2
<1>11. Replays(e, order, from)
  BY <1>9, <1>10 DEF Replays, n, b
<1>12. PICK h : Replays(h, order, from) /\ RecoverLogs(minLog, from) = h[n]
  BY <1>11, RecoverLogsDef DEF n, order
<1> DEFINE Nth(i) == IF i = 0 THEN b ELSE ReplayStep(order, i, h[i - 1])
<1>13. \A i \in 0 .. n : h[i] = Nth(i)
  <2>1. h = [i \in 0 .. n |-> Nth(i)]
    BY <1>12 DEF Replays, n, b
  <2> HIDE DEF Nth
  <2> QED  BY <2>1
<1>14. h[0] = b /\ \A i \in 1 .. n : h[i] = ReplayStep(order, i, h[i - 1])
  BY <1>2, <1>13
<1> DEFINE Good == {i \in 0 .. n : h[i] \in T}
<1>15. 0 \in Good
  BY <1>2, <1>3, <1>14
<1>16. ASSUME NEW i \in 1 .. n, i - 1 \in Good PROVE i \in Good
  BY <1>2, <1>4, <1>14, <1>16
<1>17. \A i \in 0 .. n : i \in Good
  <2> HIDE DEF Good
  <2> QED  BY <1>2, <1>15, <1>16, UptoInduction
<1>18. order = LogOrder(minLog)
  BY DEF order
<1> QED  BY <1>1, <1>12, <1>14, <1>17, <1>18 DEF n, T, b

\* The numbers given to tables were not in use, and no log has a number that
\* will be given again.
LEMMA RecoverLogsGives ==
  ASSUME IsLogs(logs), NEW minLog \in Nat, NEW from \in Nat,
         NEW r, r = RecoverLogs(minLog, from)
  PROVE  /\ r \in ReplayState(from)
         /\ \A n \in DOMAIN logs : n >= minLog => n < r.next
<1> DEFINE T == ReplayState(from)
<1>1. PICK order \in Seq(LogsFrom(minLog)) :
        /\ order = LogOrder(minLog)
        /\ \E h : /\ \A i \in 1 .. Len(order) : h[i] = ReplayStep(order, i, h[i - 1])
                  /\ \A i \in 0 .. Len(order) : h[i] \in T
                  /\ r = h[Len(order)]
  BY ReplaySteps
<1> DEFINE n == Len(order)
<1>2. PICK h : /\ \A i \in 1 .. n : h[i] = ReplayStep(order, i, h[i - 1])
               /\ \A i \in 0 .. n : h[i] \in T
               /\ r = h[n]
  BY <1>1
<1>3. /\ n \in Nat /\ order \in Seq(DOMAIN logs) /\ \A i \in 1 .. n : order[i] \in DOMAIN logs
      /\ \A m \in LogsFrom(minLog) : \E i \in 1 .. n : order[i] = m
  <2>1. order = LogOrder(minLog) /\ order \in Seq(LogsFrom(minLog))
    BY <1>1
  <2>2. \A m \in LogsFrom(minLog) : \E i \in 1 .. n : order[i] = m
    BY <2>1, LogOrderIs
  <2> HIDE DEF T
  <2>3. LogsFrom(minLog) \subseteq DOMAIN logs
    BY DEF LogsFrom
  <2>4. n \in Nat /\ order \in Seq(DOMAIN logs) /\ \A i \in 1 .. n : order[i] \in DOMAIN logs
    BY <2>1, <2>3
  <2> QED  BY <2>2, <2>4
<1>4. \A i \in 1 .. n, s \in T : /\ s.next <= ReplayStep(order, i, s).next
                                 /\ order[i] < ReplayStep(order, i, s).next
  BY <1>3, ReplayStepType
<1>5. \A s \in T : s.next \in Nat
  BY DEF ReplayState
<1> HIDE DEF n, T
<1> DEFINE Good == {i \in 0 .. n : \A j \in 1 .. i : order[j] < h[i].next}
<1>6. 0 \in Good
  BY <1>3
<1>7. ASSUME NEW i \in 1 .. n, i - 1 \in Good PROVE i \in Good
  <2>1. i \in 0 .. n /\ i - 1 \in 0 .. n /\ h[i] = ReplayStep(order, i, h[i - 1])
    BY <1>2, <1>3
  <2>2. h[i - 1].next <= h[i].next /\ order[i] < h[i].next
    BY <1>2, <1>4, <2>1
  <2>3. h[i].next \in Nat /\ h[i - 1].next \in Nat
    BY <1>2, <1>5, <2>1
  <2>4. ASSUME NEW j \in 1 .. i PROVE order[j] < h[i].next
    <3>1. order[j] \in Nat
      <4>1. j \in 1 .. n
        BY <1>3, <2>1
      <4>2. DOMAIN logs \subseteq Nat
        BY DEF IsLogs
      <4> QED  BY <1>3, <4>1, <4>2
    <3>2. j \in 1 .. i - 1 \/ j = i
      BY <2>1
    <3> QED  BY <1>7, <2>2, <2>3, <3>1, <3>2
  <2> QED  BY <2>1, <2>4
<1>8. \A i \in 0 .. n : i \in Good
  <2> HIDE DEF Good
  <2> QED  BY <1>3, <1>6, <1>7, UptoInduction
<1>9. h[n] \in T /\ \A j \in 1 .. n : order[j] < h[n].next
  BY <1>2, <1>3, <1>8
<1>10. ASSUME NEW m \in DOMAIN logs, m >= minLog PROVE m < r.next
  <2>1. m \in LogsFrom(minLog)
    BY <1>10 DEF LogsFrom
  <2>2. PICK i \in 1 .. n : order[i] = m
    BY <1>3, <2>1
  <2> QED  BY <1>2, <1>9, <2>2
<1> QED  BY <1>2, <1>9, <1>10 DEF T

\* The last sequence number recovered is a number.
LEMMA LastSequenceType ==
  ASSUME IsLogs(logs), NEW minLog, NEW atLeast \in Nat
  PROVE  LastSequenceIn(minLog, atLeast) \in Nat
<1> DEFINE S == {m \in DOMAIN logs : m >= minLog}
           e == [n \in S |-> EntriesOf(logs[n].recs)]
           E == UNION {e[n] : n \in S}
           R == ReplayedFrom(minLog)
           q == [x \in R |-> Sequence(x)]
           Q == {q[x] : x \in R}
<1>1. \A n \in S : e[n] \in Table
  <2> SUFFICES ASSUME NEW n \in S PROVE e[n] \in Table
    OBVIOUS
  <2> DEFINE rs == logs[n].recs
             t == [i \in 1 .. Len(rs) |-> Entries(rs[i])]
             U == {t[i] : i \in 1 .. Len(rs)}
  <2>1. rs \in Seq(Record)
    BY DEF IsLogs, LogFile
  <2> HIDE DEF rs
  <2>2. \A i \in 1 .. Len(rs) : t[i] \in Table
    <3> SUFFICES ASSUME NEW i \in 1 .. Len(rs) PROVE Entries(rs[i]) \in Table
      OBVIOUS
    <3>1. rs[i] \in Record
      BY <2>1
    <3> QED  BY <3>1, EntriesAre DEF Record
  <2>3. e[n] = UNION U
    <3>1. DOMAIN rs = 1 .. Len(rs)
      BY <2>1
    <3>2. e[n] = UNION {Entries(rs[i]) : i \in 1 .. Len(rs)}
      BY <3>1 DEF EntriesOf, rs
    <3> QED  BY <3>2
  <2>4. IsFiniteSet(1 .. Len(rs))
    BY <2>1, FS_Interval
  <2> HIDE DEF t, e
  <2>5. IsFiniteSet(U)
    BY <2>4, ImageIsFinite
  <2>6. IsFiniteSet(UNION U)
    BY <2>2, <2>5, FS_UNION DEF Table
  <2>7. UNION U \subseteq IKey
    BY <2>2 DEF Table
  <2> QED  BY <2>3, <2>6, <2>7 DEF Table
<1>2. LastSequenceIn(minLog, atLeast) = Max({atLeast} \cup Q)
  <2>1. LastSequenceIn(minLog, atLeast) = Max({atLeast} \cup {Sequence(x) : x \in R})
    BY DEF LastSequenceIn, ReplayedFrom, LogsFrom
  <2> HIDE DEF R
  <2>2. Q = {Sequence(x) : x \in R}
    OBVIOUS
  <2> QED  BY <2>1, <2>2
<1>10. R \subseteq E
  <2>1. \A n \in S : logs[n].recs \in Seq(Record)
    BY DEF IsLogs, LogFile
  <2>2. \A n \in S : ReplayedOf(logs[n].recs) \subseteq e[n]
    BY <2>1, ReplayedInside
  <2> HIDE DEF e
  <2> QED  BY <2>2 DEF ReplayedFrom, LogsFrom
<1>3. IsFiniteSet(S)
  BY FS_Subset DEF IsLogs
<1> HIDE DEF e, S
<1>4. IsFiniteSet({e[n] : n \in S})
  BY <1>3, ImageIsFinite
<1>5. IsFiniteSet(E) /\ E \subseteq IKey
  <2>1. \A n \in S : IsFiniteSet(e[n]) /\ e[n] \subseteq IKey
    BY <1>1 DEF Table
  <2> QED  BY <1>4, <2>1, FS_UNION
<1> HIDE DEF E, R
<1>11. IsFiniteSet(R) /\ R \subseteq IKey
  BY <1>5, <1>10, FS_Subset
<1>6. \A x \in R : q[x] \in Nat
  BY <1>11, IKeyParts
<1> HIDE DEF q
<1>7. IsFiniteSet(Q) /\ Q \subseteq Nat
  BY <1>6, <1>11, ImageIsFinite
<1> HIDE DEF Q
<1>8. IsFiniteSet({atLeast} \cup Q) /\ {atLeast} \cup Q \subseteq Nat /\ {atLeast} \cup Q # {}
  BY <1>7, FS_Singleton, FS_Union
<1>9. Max({atLeast} \cup Q) \in {atLeast} \cup Q
  BY <1>8, MaxOfSome
<1> QED  BY <1>2, <1>8, <1>9

(******************************************************************************)
(* Files of records                                                           *)
(******************************************************************************)
IsFile(f) ==
  /\ f \in [recs : Seq(Range(f.recs)), synced : Nat]
  /\ f.synced \in 1 .. Len(f.recs)

Durable(f) == f.synced .. Len(f.recs)

\* Whatever part of it survives, a manifest gives a version whose files exist.
Records(f, cur, tb) ==
  /\ IsFile(f)
  /\ \A n \in Durable(f) :
       /\ f.recs[n].log \in Nat /\ f.recs[n].next \in Nat /\ f.recs[n].last \in Nat
       /\ f.recs[n].log < f.recs[n].next /\ cur < f.recs[n].next
       /\ GoodVersion(VersionOf(SubSeq(f.recs, 1, n)), tb, f.recs[n].next)
  /\ \A n, m \in Durable(f) : n <= m => f.recs[n].next <= f.recs[m].next

\* Sequences of the same elements are the same.
LEMMA SameSequence ==
  ASSUME NEW s, IsSeq(s), NEW t, IsSeq(t), Len(s) = Len(t),
         \A i \in 1 .. Len(s) : s[i] = t[i]
  PROVE  s = t
<1>1. s = [i \in 1 .. Len(s) |-> s[i]] /\ t = [i \in 1 .. Len(t) |-> t[i]]
  BY DEF IsSeq
<1> QED  BY <1>1

\* A part of a part.
LEMMA PrefixOfPrefix ==
  ASSUME NEW s, IsSeq(s), NEW n \in 0 .. Len(s), NEW m \in 0 .. n
  PROVE  SubSeq(SubSeq(s, 1, n), 1, m) = SubSeq(s, 1, m)
<1> DEFINE p == SubSeq(s, 1, n)
<1>0. Len(s) \in Nat
  BY DEF IsSeq
<1>1. IsSeq(p) /\ Len(p) = n /\ \A i \in 1 .. n : p[i] = s[i]
  BY Prefix
<1> HIDE DEF p
<1>2. IsSeq(SubSeq(p, 1, m)) /\ Len(SubSeq(p, 1, m)) = m
      /\ \A i \in 1 .. m : SubSeq(p, 1, m)[i] = p[i]
  BY <1>1, Prefix
<1>3. m \in 0 .. Len(s)
  BY <1>0
<1>4. IsSeq(SubSeq(s, 1, m)) /\ Len(SubSeq(s, 1, m)) = m
      /\ \A i \in 1 .. m : SubSeq(s, 1, m)[i] = s[i]
  BY <1>3, Prefix
<1>5. \A i \in 1 .. m : p[i] = s[i]
  BY <1>0, <1>1
<1>6. SubSeq(p, 1, m) = SubSeq(s, 1, m)
  BY <1>2, <1>4, <1>5, SameSequence
<1> QED  BY <1>6 DEF p

\* A sequence is the part of itself up to its end.
LEMMA WholePrefix ==
  ASSUME NEW s, IsSeq(s)
  PROVE  SubSeq(s, 1, Len(s)) = s
<1>0. Len(s) \in Nat /\ Len(s) \in 0 .. Len(s)
  BY DEF IsSeq
<1>1. IsSeq(SubSeq(s, 1, Len(s))) /\ Len(SubSeq(s, 1, Len(s))) = Len(s)
      /\ \A i \in 1 .. Len(s) : SubSeq(s, 1, Len(s))[i] = s[i]
  BY <1>0, Prefix
<1> QED  BY <1>1, SameSequence

\* What Append leaves in place.
LEMMA AppendedSeq ==
  ASSUME NEW s, IsSeq(s), NEW e
  PROVE  /\ IsSeq(Append(s, e)) /\ Len(Append(s, e)) = Len(s) + 1 /\ Len(s) \in Nat
         /\ \A i \in 1 .. Len(s) : Append(s, e)[i] = s[i]
         /\ Append(s, e)[Len(s) + 1] = e
         /\ \A n \in 0 .. Len(s) : SubSeq(Append(s, e), 1, n) = SubSeq(s, 1, n)
<1> DEFINE t == Append(s, e)
           X == Range(s) \cup {e}
<1>1. s \in Seq(X) /\ e \in X
  BY DEF IsSeq
<1>2. t \in Seq(X) /\ Len(t) = Len(s) + 1 /\ (\A i \in 1 .. Len(s) : t[i] = s[i])
      /\ t[Len(s) + 1] = e
  <2> HIDE DEF X
  <2> QED  BY <1>1, AppendProperties
<1>3. IsSeq(t) /\ Len(s) \in Nat
  <2> HIDE DEF X, t
  <2>1. IsSeq(t)
    BY <1>2, SeqOver
  <2> QED  BY <1>1, <2>1
<1> HIDE DEF t, X
<1>4. ASSUME NEW n \in 0 .. Len(s) PROVE SubSeq(t, 1, n) = SubSeq(s, 1, n)
  <2>1. n \in 0 .. Len(t)
    BY <1>2, <1>3
  <2>2. IsSeq(SubSeq(t, 1, n)) /\ Len(SubSeq(t, 1, n)) = n
        /\ \A i \in 1 .. n : SubSeq(t, 1, n)[i] = t[i]
    BY <1>3, <2>1, Prefix
  <2>3. IsSeq(SubSeq(s, 1, n)) /\ Len(SubSeq(s, 1, n)) = n
        /\ \A i \in 1 .. n : SubSeq(s, 1, n)[i] = s[i]
    BY Prefix
  <2>4. \A i \in 1 .. n : t[i] = s[i]
    BY <1>2, <1>3
  <2> QED  BY <2>2, <2>3, <2>4, SameSequence
<1> QED  BY <1>2, <1>3, <1>4 DEF t

\* AddRecord writes behind what is there, and synchronises nothing.
LEMMA AddRecordIs ==
  ASSUME NEW f, IsFile(f), NEW e
  PROVE  /\ IsFile(AddRecord(f, e))
         /\ AddRecord(f, e).recs = Append(f.recs, e)
         /\ AddRecord(f, e).synced = f.synced
<1> DEFINE t == Append(f.recs, e)
<1>1. AddRecord(f, e) = [f EXCEPT !.recs = t]
  BY DEF AddRecord, IsFile
<1>2. IsSeq(f.recs) /\ f.synced \in 1 .. Len(f.recs)
  BY DEF IsFile, IsSeq
<1>3. IsSeq(t) /\ Len(t) = Len(f.recs) + 1 /\ Len(f.recs) \in Nat
  BY <1>2, AppendedSeq
<1> HIDE DEF t
<1>4. AddRecord(f, e).recs = t /\ AddRecord(f, e).synced = f.synced
      /\ AddRecord(f, e) \in [recs : Seq(Range(t)), synced : Nat]
  BY <1>1, <1>3 DEF IsFile, IsSeq
<1>5. f.synced \in 1 .. Len(t)
  BY <1>2, <1>3
<1> QED  BY <1>4, <1>5 DEF IsFile, t

\* A prefix that has what was synchronised, with some of it synchronised.
LEMMA PartOfFile ==
  ASSUME NEW f, IsFile(f), NEW n \in Durable(f), NEW k \in f.synced .. n,
         NEW g, g.recs = SubSeq(f.recs, 1, n), g.synced = k,
         g \in [recs : {g.recs}, synced : {g.synced}]
  PROVE  /\ IsFile(g) /\ Len(g.recs) = n
         /\ \A i \in 1 .. n : g.recs[i] = f.recs[i]
         /\ Durable(g) \subseteq Durable(f)
<1>1. IsSeq(f.recs) /\ f.synced \in 1 .. Len(f.recs) /\ Len(f.recs) \in Nat /\ n \in 1 .. Len(f.recs)
  BY DEF IsFile, IsSeq, Durable
<1>2. IsSeq(g.recs) /\ Len(g.recs) = n /\ \A i \in 1 .. n : g.recs[i] = f.recs[i]
  <2>1. n \in 0 .. Len(f.recs)
    BY <1>1
  <2> QED  BY <1>1, <2>1, Prefix
<1>3. k \in Nat /\ k \in 1 .. n
  BY <1>1
<1>4. g \in [recs : Seq(Range(g.recs)), synced : Nat]
  BY <1>2, <1>3 DEF IsSeq
<1>5. IsFile(g)
  BY <1>2, <1>3, <1>4 DEF IsFile
<1>6. Durable(g) \subseteq Durable(f)
  BY <1>1, <1>2, <1>3 DEF Durable
<1> QED  BY <1>2, <1>5, <1>6

\* A manifest of which the end was lost is as good as it was.
LEMMA RecordsOfPart ==
  ASSUME NEW f, NEW cur, NEW tb, Records(f, cur, tb), NEW n \in Durable(f), NEW k \in f.synced .. n,
         NEW g, g.recs = SubSeq(f.recs, 1, n), g.synced = k,
         g \in [recs : {g.recs}, synced : {g.synced}]
  PROVE  Records(g, cur, tb)
<1>1. IsFile(f) /\ IsSeq(f.recs) /\ Len(f.recs) \in Nat /\ f.synced \in 1 .. Len(f.recs)
  BY DEF Records, IsFile, IsSeq
<1>2. /\ IsFile(g) /\ Len(g.recs) = n
      /\ \A i \in 1 .. n : g.recs[i] = f.recs[i]
      /\ Durable(g) \subseteq Durable(f)
  BY <1>1, PartOfFile
<1>3. \A i \in Durable(g) : i \in 1 .. n /\ i \in Durable(f) /\ g.recs[i] = f.recs[i]
  <2>1. Durable(g) \subseteq 1 .. n
    BY <1>1, <1>2 DEF Durable, IsFile
  <2> QED  BY <1>2, <2>1
<1>4. ASSUME NEW i \in Durable(g)
      PROVE  SubSeq(g.recs, 1, i) = SubSeq(f.recs, 1, i)
  <2>1. n \in 0 .. Len(f.recs) /\ i \in 0 .. n
    BY <1>1, <1>3 DEF Durable
  <2> QED  BY <1>1, <2>1, PrefixOfPrefix
<1> QED  BY <1>2, <1>3, <1>4 DEF Records

(******************************************************************************)
(* Tables that are kept                                                       *)
(******************************************************************************)
Agrees(tb, more, n) == \A x \in DOMAIN tb : x < n => x \in DOMAIN more /\ more[x] = tb[x]

\* Files that are kept stay good when other tables are deleted.
LEMMA KeepTables ==
  ASSUME NEW tb, IsTables(tb), NEW S
  PROVE  /\ IsTables(Keep(tb, S))
         /\ \A n, v : GoodVersion(v, tb, n) /\ {f.number : f \in FilesOf(v)} \subseteq S /\ n \in Nat
                        => GoodVersion(v, Keep(tb, S), n)
         /\ \A n, F : GoodFiles(F, tb, n) /\ {f.number : f \in F} \subseteq S
                        => GoodFiles(F, Keep(tb, S), n)
<1> DEFINE t == Keep(tb, S)
<1>1. DOMAIN t = DOMAIN tb \cap S /\ (\A x \in DOMAIN t : t[x] = tb[x])
      /\ t = [x \in DOMAIN t |-> t[x]]
  BY DEF Keep
<1> HIDE DEF t
<1>2. IsTables(t)
  BY <1>1 DEF IsTables
<1>3. ASSUME NEW n, NEW F, GoodFiles(F, tb, n), {f.number : f \in F} \subseteq S
      PROVE  GoodFiles(F, t, n)
  <2> SUFFICES ASSUME NEW f \in F PROVE GoodFile(f, t, n)
    BY DEF GoodFiles
  <2>1. GoodFile(f, tb, n) /\ f.number \in S
    BY <1>3 DEF GoodFiles
  <2> QED  BY <1>1, <2>1 DEF GoodFile
<1>4. ASSUME NEW n, NEW v, GoodVersion(v, tb, n), {f.number : f \in FilesOf(v)} \subseteq S, n \in Nat
      PROVE  GoodVersion(v, t, n)
  <2>1. \A l \in Levels : GoodFiles(Range(v[l]), tb, n) /\ Range(v[l]) \subseteq FilesOf(v)
    BY <1>4, GoodVersionFiles DEF GoodVersion
  <2>2. ASSUME NEW l \in Levels PROVE GoodFiles(Range(v[l]), t, n)
    <3>1. {f.number : f \in Range(v[l])} \subseteq S
      BY <1>4, <2>1
    <3> QED  BY <1>3, <2>1, <3>1
  <2> QED  BY <1>4, <2>2 DEF GoodVersion
<1> QED  BY <1>2, <1>3, <1>4 DEF t

\* A table with a new number is described by its new file.
LEMMA PutTable ==
  ASSUME NEW tb, IsTables(tb), NEW n \in Nat, NEW S \in Table \ {{}}
  PROVE  /\ IsTables(Put(tb, n, S))
         /\ DOMAIN Put(tb, n, S) = DOMAIN tb \cup {n}
         /\ Agrees(tb, Put(tb, n, S), n)
         /\ GoodFile(FileOf(n, S), Put(tb, n, S), n + 1)
<1> DEFINE t == Put(tb, n, S)
<1>1. DOMAIN t = DOMAIN tb \cup {n} /\ t[n] = S /\ (\A x \in DOMAIN tb : x # n => t[x] = tb[x])
      /\ t = [x \in DOMAIN t |-> t[x]]
  BY DEF Put
<1> HIDE DEF t
<1>2. IsContents(S) /\ S # {}
  BY DEF Table, IsContents
<1>3. IsTables(t)
  BY <1>1, <1>2 DEF IsTables
<1>4. Agrees(tb, t, n)
  BY <1>1 DEF Agrees, IsTables
<1>5. GoodFile(FileOf(n, S), t, n + 1)
  <2>1. FileOf(n, S).number = n
    BY DEF FileOf
  <2> QED  BY <1>1, <2>1 DEF GoodFile
<1> QED  BY <1>1, <1>3, <1>4, <1>5 DEF t

\* A manifest stays good when tables are added.
LEMMA RecordsInMore ==
  ASSUME NEW f, NEW cur, NEW tb, IsTables(tb), Records(f, cur, tb), NEW k \in Nat,
         \A n \in Durable(f) : f.recs[n].next <= k,
         NEW more, Agrees(tb, more, k)
  PROVE  Records(f, cur, more)
<1>1. ASSUME NEW n \in Durable(f)
      PROVE  GoodVersion(VersionOf(SubSeq(f.recs, 1, n)), more, f.recs[n].next)
  <2> DEFINE v == VersionOf(SubSeq(f.recs, 1, n))
             m == f.recs[n].next
  <2>1. GoodVersion(v, tb, m) /\ m \in Nat /\ m <= k
    BY DEF Records
  <2> HIDE DEF v, m
  <2>2. \A x \in DOMAIN tb : x < m => x \in DOMAIN more /\ more[x] = tb[x]
    BY <2>1 DEF Agrees, IsTables
  <2>3. GoodVersion(v, more, m)
    BY <2>1, <2>2, GoodVersionInMore
  <2> QED  BY <2>3 DEF v, m
<1> QED  BY <1>1 DEF Records

\* An edit is appended to the manifest.
LEMMA RecordsAdded ==
  ASSUME NEW f, NEW cur, NEW tb, IsTables(tb), Records(f, cur, tb), NEW e,
         e.log \in Nat, e.next \in Nat, e.last \in Nat, e.log < e.next, cur < e.next,
         \A n \in Durable(f) : f.recs[n].next <= e.next,
         GoodEdit(e, tb, e.next)
  PROVE  /\ Records(AddRecord(f, e), cur, tb)
         /\ VersionOf(AddRecord(f, e).recs) = SaveTo(VersionOf(f.recs), e)
         /\ Durable(AddRecord(f, e)) = Durable(f) \cup {Len(f.recs) + 1}
<1> DEFINE g == AddRecord(f, e)
           N == Len(f.recs)
<1>1. IsFile(f) /\ IsSeq(f.recs) /\ f.synced \in 1 .. N /\ f.synced \in Nat
  BY DEF Records, IsFile, IsSeq
<1>2. IsFile(g) /\ g.recs = Append(f.recs, e) /\ g.synced = f.synced
  BY <1>1, AddRecordIs
<1>3. /\ IsSeq(g.recs) /\ Len(g.recs) = N + 1 /\ N \in Nat
      /\ \A i \in 1 .. N : g.recs[i] = f.recs[i]
      /\ g.recs[N + 1] = e
      /\ \A n \in 0 .. N : SubSeq(g.recs, 1, n) = SubSeq(f.recs, 1, n)
  BY <1>1, <1>2, AppendedSeq
<1> HIDE DEF g, N
<1>4. SubSeq(f.recs, 1, N) = f.recs /\ SubSeq(g.recs, 1, N + 1) = g.recs
  BY <1>1, <1>3, WholePrefix DEF N
<1>5. VersionOf(g.recs) = SaveTo(VersionOf(f.recs), e)
  <2>1. Len(g.recs) # 0 /\ Len(g.recs) - 1 = N /\ N \in 0 .. N
    BY <1>3
  <2>2. VersionOf(g.recs) = SaveTo(VersionOf(SubSeq(g.recs, 1, Len(g.recs) - 1)), g.recs[Len(g.recs)])
    BY <1>3, <2>1, VersionStep
  <2> QED  BY <1>3, <1>4, <2>1, <2>2
<1>6. Durable(f) = f.synced .. N /\ N \in Durable(f)
  BY <1>1, <1>3 DEF Durable, N
<1>7. GoodVersion(VersionOf(g.recs), tb, e.next)
  <2>1. GoodVersion(VersionOf(f.recs), tb, f.recs[N].next) /\ f.recs[N].next \in Nat
        /\ f.recs[N].next <= e.next
    BY <1>4, <1>6 DEF Records
  <2>2. GoodVersion(VersionOf(f.recs), tb, e.next)
    BY <2>1, GoodVersionInMore
  <2>3. \A l \in Levels : GoodFiles(Range(VersionOf(f.recs)[l]), tb, e.next)
    BY <2>2 DEF GoodVersion
  <2> QED  BY <1>5, <2>3, SaveToIs
<1>8. Durable(g) = f.synced .. N + 1
  BY <1>2, <1>3 DEF Durable
<1>9. Durable(g) = Durable(f) \cup {N + 1} /\ Durable(f) \subseteq 1 .. N /\ N + 1 \notin Durable(f)
  BY <1>1, <1>3, <1>6, <1>8
<1>10. ASSUME NEW n \in Durable(g)
       PROVE  /\ g.recs[n].log \in Nat /\ g.recs[n].next \in Nat /\ g.recs[n].last \in Nat
              /\ g.recs[n].log < g.recs[n].next /\ cur < g.recs[n].next
              /\ GoodVersion(VersionOf(SubSeq(g.recs, 1, n)), tb, g.recs[n].next)
  <2>1. CASE n \in Durable(f)
    <3>1. n \in 1 .. N /\ n \in 0 .. N
      BY <1>3, <1>9, <2>1
    <3>2. g.recs[n] = f.recs[n] /\ SubSeq(g.recs, 1, n) = SubSeq(f.recs, 1, n)
      BY <1>3, <3>1
    <3> QED  BY <2>1, <3>2 DEF Records
  <2>2. CASE n = N + 1
    BY <1>3, <1>4, <1>7, <2>2
  <2> QED  BY <1>9, <2>1, <2>2
<1>11. ASSUME NEW n \in Durable(g), NEW m \in Durable(g), n <= m
       PROVE  g.recs[n].next <= g.recs[m].next
  <2>1. CASE n \in Durable(f) /\ m \in Durable(f)
    <3>1. g.recs[n] = f.recs[n] /\ g.recs[m] = f.recs[m]
      BY <1>3, <1>9, <2>1
    <3> QED  BY <1>11, <2>1, <3>1 DEF Records
  <2>2. CASE n \in Durable(f) /\ m = N + 1
    <3>1. g.recs[n] = f.recs[n] /\ g.recs[m] = e
      BY <1>3, <1>9, <2>2
    <3> QED  BY <2>2, <3>1
  <2>3. CASE n = N + 1 /\ m = N + 1
    BY <1>3, <2>3
  <2>4. ~(n = N + 1 /\ m \in Durable(f))
    BY <1>3, <1>9, <1>11
  <2> QED  BY <1>9, <2>1, <2>2, <2>3, <2>4
<1>12. Records(g, cur, tb)
  BY <1>2, <1>10, <1>11 DEF Records
<1> QED  BY <1>5, <1>9, <1>12 DEF g, N

(******************************************************************************)
(* The inductive invariant                                                    *)
(******************************************************************************)
Batch ==
  {b \in [seq : Nat, ops : Seq(Op), sync : BOOLEAN, log : Nat, torn : BOOLEAN] : Fits(b)}

\* Only behind a record that could not be written is the record of a batch lost.
Holds(r, b) == r.seq = b.seq /\ (r.lost => b.torn)
HasRecord(f, n, b) == \E i \in 1 .. n : Holds(f.recs[i], b)
InLog(ls, b) == b.log \in DOMAIN ls /\ HasRecord(ls[b.log], Len(ls[b.log].recs), b)
SyncedInLog(ls, b) == b.log \in DOMAIN ls /\ HasRecord(ls[b.log], ls[b.log].synced, b)

\* Once logs before number n are no longer replayed.
KeptFor(ls, b, n) ==
  /\ b.log < n \/ InLog(ls, b)
  /\ b.sync => ~b.torn /\ (b.log < n \/ SyncedInLog(ls, b))

Manifest == manifests[current]

Disk ==
  /\ IsLogs(logs) /\ IsTables(tables)
  /\ manifests = [n \in DOMAIN manifests |-> manifests[n]] /\ DOMAIN manifests \subseteq Nat
  /\ current \in DOMAIN manifests
  /\ Records(Manifest, current, tables)

\* Whatever part of the manifest survives, no log it needs is lost.
Promises ==
  \A i \in 1 .. Len(history) : \A n \in Durable(Manifest) :
    KeptFor(logs, history[i], Manifest.recs[n].log)

Batches ==
  /\ history \in Seq(Batch) /\ doubt \in Seq(Batch)
  /\ writer # None => writer \in Batch

Stopped ==
  /\ phase \in {"closed", "opening", "open"} /\ bgError \in BOOLEAN
  /\ phase # "open" =>
       /\ mem = {} /\ imm = None /\ seek = None /\ comp = None /\ writer = None
       /\ reader = None /\ bgError = FALSE /\ doubt = <<>> /\ snapshots = {}
  /\ phase = "closed" => edit = None

VersionSetType ==
  vset \in [v : {vset.v}, pointers : {vset.pointers}, last : Nat, next : Nat,
            log : Nat, manifest : Nat]

Saved == manifests[vset.manifest]

Saving ==
  phase = "opening" =>
    /\ VersionSetType
    /\ vset.manifest \in DOMAIN manifests /\ vset.manifest < vset.next
    /\ Saved \in [recs : {<<Saved.recs[1], edit>>}, synced : {0}]
    /\ SaveTo(EmptyVersion, Saved.recs[1]) = vset.v
    /\ GoodVersion(vset.v, tables, vset.next) /\ GoodEdit(edit, tables, vset.next)
    /\ edit.log = logfile /\ edit.next = vset.next /\ edit.last \in Nat
    /\ logfile \in DOMAIN logs
    /\ \A i \in 1 .. Len(history) : history[i].log < logfile
    /\ \A n \in DOMAIN logs : n < vset.next

OpenFiles ==
  phase = "open" =>
    /\ VersionSetType
    /\ vset.manifest = current
    /\ \A n \in DOMAIN tables \cup DOMAIN logs : n < vset.next
    /\ logfile \in DOMAIN logs /\ vset.log <= logfile
    /\ GoodVersion(vset.v, tables, vset.next)
    /\ \A n \in Durable(Manifest) : /\ vset.log <= Manifest.recs[n].log
                                    /\ Manifest.recs[n].log <= logfile
                                    /\ Manifest.recs[n].next <= vset.next

OpenEdit ==
  phase = "open" =>
    /\ edit = None /\ bgError = FALSE => VersionOf(Manifest.recs) = vset.v
    /\ edit # None =>
         /\ Manifest.recs[Len(Manifest.recs)] = edit
         /\ Manifest.synced < Len(Manifest.recs)
         /\ bgError = FALSE =>
              VersionOf(SubSeq(Manifest.recs, 1, Len(Manifest.recs) - 1)) = vset.v
         /\ GoodEdit(edit, tables, vset.next)

OpenUse ==
  phase = "open" =>
    /\ reader # None => GoodVersion(reader.v, tables, vset.next)
    /\ seek # None => seek.level \in 0 .. NumLevels - 2 /\ seek.file \in Range(vset.v[seek.level])
    /\ comp # None =>
         /\ comp \in [c : {comp.c}, manual : {comp.manual}, v : {comp.v},
                      done : Seq(Range(comp.done)), todo : Seq(Table \ {{}})]
         /\ GoodFiles(Range(comp.done), tables, vset.next)

OpenMem ==
  phase = "open" =>
    /\ mem \in Table
    /\ imm # None => imm.entries \in Table

OpenBatches ==
  phase = "open" =>
    /\ \A i \in 1 .. Len(history) :
         history[i].log <= logfile /\ KeptFor(logs, history[i], vset.log)
    /\ \A i \in 1 .. Len(doubt) :
         doubt[i].log <= logfile /\ (doubt[i].log < vset.log \/ InLog(logs, doubt[i]))
    /\ writer # None => writer.log = logfile /\ InLog(logs, writer)

OpenOnly == OpenFiles /\ OpenEdit /\ OpenUse /\ OpenMem /\ OpenBatches
LevelDBInv == Disk /\ Promises /\ Batches /\ Stopped /\ Saving /\ OpenOnly

\* What the steps that change none of it leave alone.
LEMMA DiskStays ==
  ASSUME Disk, UNCHANGED <<logs, tables, manifests, current>>
  PROVE  Disk'
BY DEF Disk, Manifest

\* Acknowledged batches stay promised while logs and manifest stay.
LEMMA PromisesStay ==
  ASSUME Promises, UNCHANGED <<logs, manifests, current, history>>
  PROVE  Promises'
BY DEF Promises, Manifest

\* The numbers in use stay below the next one.
LEMMA OpenFilesStay ==
  ASSUME OpenFiles, UNCHANGED <<phase, vset, logs, tables, manifests, current, logfile>>
  PROVE  OpenFiles'
BY DEF OpenFiles, Manifest, VersionSetType

\* The version in memory stays the one of the manifest and the edit.
LEMMA OpenEditStays ==
  ASSUME OpenEdit, UNCHANGED <<phase, vset, tables, manifests, current, edit, bgError>>
  PROVE  OpenEdit'
BY DEF OpenEdit, Manifest

\* What a reader, a seek or a compaction holds stays good.
LEMMA OpenUseStays ==
  ASSUME OpenUse, UNCHANGED <<phase, vset, tables, reader, seek, comp>>
  PROVE  OpenUse'
BY DEF OpenUse

\* Memtables keep their shape.
LEMMA OpenMemStays ==
  ASSUME OpenMem, UNCHANGED <<phase, mem, imm>>
  PROVE  OpenMem'
BY DEF OpenMem

\* Batches not yet installed stay in logs that are kept.
LEMMA OpenBatchesStay ==
  ASSUME OpenBatches, UNCHANGED <<phase, vset, logs, logfile, history, doubt, writer>>
  PROVE  OpenBatches'
BY DEF OpenBatches

\* A step of the open database neither stops it nor opens it again.
LEMMA StaysOpen ==
  ASSUME phase = "open", Stopped, UNCHANGED phase, bgError' \in BOOLEAN
  PROVE  Stopped' /\ Saving'
BY DEF Stopped, Saving

(******************************************************************************)
(* The initial state                                                          *)
(******************************************************************************)
LEMMA InitLevelDBInv == Init => LevelDBInv
<1> SUFFICES ASSUME Init PROVE LevelDBInv
  OBVIOUS
<1> DEFINE e == NewEdit([next |-> 2, last |-> 0], "new", {}, {}, <<>>, 0)
           q == <<e>>
           F == SyncFile([EmptyFile EXCEPT !.recs = q])
<1>0. e.log = 0 /\ e.next = 2 /\ e.last = 0 /\ e.added = {}
  BY DEF NewEdit
<1> HIDE DEF e
<1>1. IsSeq(q) /\ Len(q) = 1 /\ q[1] = e
  <2>1. q \in Seq({e})
    OBVIOUS
  <2> QED  BY <2>1, SeqOver
<1>2. manifests = [n \in {1} |-> F] /\ current = 1 /\ Manifest = F
  BY DEF Init, Manifest, e
<1>3. F = [recs |-> q, synced |-> 1]
  <2> HIDE DEF q
  <2> DEFINE f == [EmptyFile EXCEPT !.recs = q]
  <2>1. f = [recs |-> q, synced |-> 0]
    BY DEF EmptyFile
  <2>2. F = [f EXCEPT !.synced = Len(f.recs)]
    BY DEF SyncFile
  <2> HIDE DEF f, F
  <2> QED  BY <1>1, <2>1, <2>2
<1> HIDE DEF q, F
<1>4. IsLogs(<<>>) /\ IsTables(<<>>)
  <2>1. DOMAIN <<>> = {} /\ IsFiniteSet({})
    BY FS_EmptySet
  <2> QED  BY <2>1 DEF IsLogs, IsTables
<1>5. GoodVersion(VersionOf(q), <<>>, 2)
  <2> DEFINE tb == <<>>
  <2>1. IsTables(tb) /\ GoodVersion(EmptyVersion, tb, 2)
    BY <1>4, GoodEmpty
  <2>2. GoodEdit(e, tb, 2)
    BY <1>0 DEF GoodEdit, AddedAt, GoodFiles
  <2>3. VersionOf(q) = SaveTo(VersionOf(SubSeq(q, 1, 0)), e)
    BY <1>1, VersionStep
  <2>4. VersionOf(SubSeq(q, 1, 0)) = EmptyVersion
    <3>1. IsSeq(SubSeq(q, 1, 0)) /\ Len(SubSeq(q, 1, 0)) = 0
      BY <1>1, Prefix
    <3>2. SubSeq(q, 1, 0) = <<>>
      BY <3>1 DEF IsSeq
    <3> QED  BY <3>2, VersionOfNone
  <2> HIDE DEF tb
  <2>5. \A l \in Levels : GoodFiles(Range(EmptyVersion[l]), tb, 2)
    BY <2>1 DEF GoodVersion
  <2>6. GoodVersion(SaveTo(EmptyVersion, e), tb, 2)
    BY <2>1, <2>2, <2>5, SaveToIs
  <2> QED  BY <2>3, <2>4, <2>6 DEF tb
<1>6. SubSeq(q, 1, 1) = q
  BY <1>1, WholePrefix
<1>7. Records(F, 1, <<>>)
  <2>1. F.recs = q /\ F.synced = 1
    BY <1>3
  <2>3. Len(F.recs) = 1 /\ Durable(F) = {1}
    <3>1. Len(F.recs) = 1
      BY <1>1, <2>1
    <3>2. Durable(F) = 1 .. 1
      BY <2>1, <3>1 DEF Durable
    <3> QED  BY <3>1, <3>2
  <2>2. IsFile(F)
    <3>1. q \in Seq(Range(q))
      BY <1>1 DEF IsSeq
    <3>2. F \in [recs : Seq(Range(q)), synced : Nat]
      BY <1>3, <3>1
    <3>3. Range(F.recs) = Range(q)
      BY <2>1
    <3>4. F.synced \in 1 .. Len(F.recs)
      BY <2>1, <2>3
    <3> QED  BY <3>2, <3>3, <3>4 DEF IsFile
  <2>4. F.recs[1] = e /\ SubSeq(F.recs, 1, 1) = q
    BY <1>1, <1>6, <2>1
  <2>5. ASSUME NEW n \in Durable(F)
        PROVE  /\ F.recs[n].log \in Nat /\ F.recs[n].next \in Nat /\ F.recs[n].last \in Nat
               /\ F.recs[n].log < F.recs[n].next /\ 1 < F.recs[n].next
               /\ GoodVersion(VersionOf(SubSeq(F.recs, 1, n)), <<>>, F.recs[n].next)
    <3>1. n = 1
      BY <2>3
    <3>2. F.recs[n] = e /\ SubSeq(F.recs, 1, n) = q
      BY <2>4, <3>1
    <3>3. GoodVersion(VersionOf(SubSeq(F.recs, 1, n)), <<>>, F.recs[n].next)
      BY <1>0, <1>5, <3>2, Zenon
    <3> QED  BY <1>0, <3>2, <3>3
  <2>6. \A n, m \in Durable(F) : F.recs[n].next <= F.recs[m].next
    BY <1>0, <2>3, <2>4
  <2> QED  BY <2>2, <2>5, <2>6 DEF Records
<1>8. Disk
  BY <1>2, <1>4, <1>7 DEF Disk, Init
<1>9. phase = "closed" /\ history = <<>> /\ doubt = <<>> /\ writer = None
  BY DEF Init
<1>10. Promises
  <2>1. Len(history) = 0
    BY <1>9
  <2> QED  BY <2>1 DEF Promises
<1>11. Batches
  BY <1>9 DEF Batches
<1>12. Stopped
  BY DEF Init, Stopped
<1>13. Saving /\ OpenOnly
  BY <1>9 DEF Saving, OpenOnly, OpenFiles, OpenEdit, OpenUse, OpenMem, OpenBatches
<1> QED  BY <1>8, <1>10, <1>11, <1>12, <1>13 DEF LevelDBInv

(******************************************************************************)
(* Reading                                                                    *)
(******************************************************************************)
LEMMA SnapshotsKeep ==
  ASSUME LevelDBInv, GetSnapshot \/ ReleaseSnapshot
  PROVE  LevelDBInv'
<1>1. phase = "open"
  BY DEF LevelDBInv, Stopped, GetSnapshot, ReleaseSnapshot
<1>2. /\ UNCHANGED <<logs, tables, manifests, current, phase, mem, imm, logfile, vset,
                     seek, edit, comp, writer, reader, bgError, history, doubt>>
  BY DEF GetSnapshot, ReleaseSnapshot
<1>3. Disk' /\ Promises' /\ OpenOnly'
  BY <1>2, DiskStays, PromisesStay, OpenFilesStay, OpenEditStays, OpenUseStays, OpenMemStays,
     OpenBatchesStay DEF LevelDBInv, OpenOnly
<1>4. Stopped' /\ Saving'
  BY <1>1, <1>2, StaysOpen DEF LevelDBInv, Stopped
<1>5. Batches'
  BY <1>2 DEF LevelDBInv, Batches
<1> QED  BY <1>3, <1>4, <1>5 DEF LevelDBInv

\* A reader takes the current version.
LEMMA BeginReadKeeps ==
  ASSUME LevelDBInv, BeginRead
  PROVE  LevelDBInv'
<1>1. /\ phase = "open" /\ reader'.v = vset.v
      /\ UNCHANGED <<logs, tables, manifests, current, phase, mem, imm, logfile, vset,
                     seek, edit, comp, writer, bgError, history, doubt>>
  BY DEF BeginRead
<1>2. Disk' /\ Promises' /\ OpenFiles' /\ OpenEdit' /\ OpenMem' /\ OpenBatches'
  BY <1>1, DiskStays, PromisesStay, OpenFilesStay, OpenEditStays, OpenMemStays,
     OpenBatchesStay DEF LevelDBInv, OpenOnly
<1>3. Stopped' /\ Saving'
  BY <1>1, StaysOpen DEF LevelDBInv, Stopped
<1>4. Batches'
  BY <1>1 DEF LevelDBInv, Batches
<1>5. OpenUse'
  BY <1>1 DEF LevelDBInv, OpenOnly, OpenUse, OpenFiles
<1> QED  BY <1>2, <1>3, <1>4, <1>5 DEF LevelDBInv, OpenOnly

\* A reader lets go, and may charge a seek to a file of the version.
LEMMA EndReadKeeps ==
  ASSUME LevelDBInv, EndRead
  PROVE  LevelDBInv'
<1>1. /\ phase = "open"
      /\ UNCHANGED <<logs, tables, manifests, current, phase, mem, imm, logfile, vset,
                     edit, comp, writer, bgError, history, doubt>>
  BY DEF EndRead, LevelDBInv, Stopped
<1>2. Disk' /\ Promises' /\ OpenFiles' /\ OpenEdit' /\ OpenMem' /\ OpenBatches'
  BY <1>1, DiskStays, PromisesStay, OpenFilesStay, OpenEditStays, OpenMemStays,
     OpenBatchesStay DEF LevelDBInv, OpenOnly
<1>3. Stopped' /\ Saving'
  BY <1>1, StaysOpen DEF LevelDBInv, Stopped
<1>4. Batches'
  BY <1>1 DEF LevelDBInv, Batches
<1>5. seek' # None => seek'.level \in 0 .. NumLevels - 2 /\ seek'.file \in Range(vset.v[seek'.level])
  <2>1. CASE UNCHANGED seek
    BY <1>1, <2>1 DEF LevelDBInv, OpenOnly, OpenUse
  <2>2. CASE \E k \in Keys : seek' = SeekCharge(vset.v, LookupKey(k, reader.seq))
    <3>1. IsTables(tables) /\ GoodVersion(vset.v, tables, vset.next) /\ vset.next \in Nat
      BY <1>1 DEF LevelDBInv, OpenOnly, OpenFiles, VersionSetType, Disk
    <3> QED  BY <2>2, <3>1, ChargeInside
  <2> QED  BY <2>1, <2>2 DEF EndRead
<1>6. OpenUse'
  <2>1. reader' = None
    BY DEF EndRead
  <2> QED  BY <1>1, <1>5, <2>1 DEF LevelDBInv, OpenOnly, OpenUse
<1> QED  BY <1>2, <1>3, <1>4, <1>6 DEF LevelDBInv, OpenOnly

(******************************************************************************)
(* Logs as they grow                                                          *)
(******************************************************************************)
\* What is in the one, or synchronised in it, is so in the other.
Grows(ls, more) ==
  \A b : (InLog(ls, b) => InLog(more, b)) /\ (SyncedInLog(ls, b) => SyncedInLog(more, b))

\* A log that grows loses no batch.
LEMMA KeptInMore ==
  ASSUME NEW ls, NEW more, Grows(ls, more), NEW b, NEW n, KeptFor(ls, b, n)
  PROVE  KeptFor(more, b, n)
BY DEF Grows, KeptFor

\* A log that gets longer, or is synchronised further, has what it had.
LEMMA LogGrows ==
  ASSUME NEW ls, IsLogs(ls), NEW more, NEW n \in Nat,
         DOMAIN more = DOMAIN ls \cup {n}, more = [x \in DOMAIN more |-> more[x]],
         more[n] \in LogFile,
         \A x \in DOMAIN ls : x # n => more[x] = ls[x],
         n \in DOMAIN ls =>
           /\ Len(ls[n].recs) <= Len(more[n].recs) /\ ls[n].synced <= more[n].synced
           /\ \A i \in 1 .. Len(ls[n].recs) : more[n].recs[i] = ls[n].recs[i]
  PROVE  IsLogs(more) /\ Grows(ls, more)
<1>1. IsLogs(more)
  <2>1. IsFiniteSet(DOMAIN more)
    BY FS_AddElement DEF IsLogs
  <2>2. \A x \in DOMAIN more : more[x] \in LogFile
    BY DEF IsLogs
  <2> QED  BY <2>1, <2>2 DEF IsLogs
<1>2. \A x \in DOMAIN ls : /\ Len(ls[x].recs) \in Nat /\ ls[x].synced \in Nat
                           /\ ls[x].synced <= Len(ls[x].recs)
  BY DEF IsLogs, LogFile
<1>3. Len(more[n].recs) \in Nat /\ more[n].synced \in Nat
  BY DEF LogFile
<1>4. ASSUME NEW b, InLog(ls, b) PROVE InLog(more, b)
  <2>1. b.log \in DOMAIN ls
    BY <1>4 DEF InLog
  <2>2. PICK i \in 1 .. Len(ls[b.log].recs) : Holds(ls[b.log].recs[i], b)
    BY <1>4 DEF InLog, HasRecord
  <2>3. CASE b.log # n
    BY <2>1, <2>2, <2>3 DEF InLog, HasRecord
  <2>4. CASE b.log = n
    <3>1. i \in 1 .. Len(more[n].recs) /\ Holds(more[n].recs[i], b)
      BY <1>2, <1>3, <2>1, <2>2, <2>4
    <3> QED  BY <2>4, <3>1 DEF InLog, HasRecord
  <2> QED  BY <2>3, <2>4
<1>5. ASSUME NEW b, SyncedInLog(ls, b) PROVE SyncedInLog(more, b)
  <2>1. b.log \in DOMAIN ls
    BY <1>5 DEF SyncedInLog
  <2>2. PICK i \in 1 .. ls[b.log].synced : Holds(ls[b.log].recs[i], b)
    BY <1>5 DEF SyncedInLog, HasRecord
  <2>3. CASE b.log # n
    BY <2>1, <2>2, <2>3 DEF SyncedInLog, HasRecord
  <2>4. CASE b.log = n
    <3>1. i \in 1 .. more[n].synced /\ i \in 1 .. Len(ls[n].recs)
      BY <1>2, <1>3, <2>1, <2>2, <2>4
    <3>2. Holds(more[n].recs[i], b)
      BY <2>1, <2>2, <2>4, <3>1
    <3> QED  BY <2>4, <3>1, <3>2 DEF SyncedInLog, HasRecord
  <2> QED  BY <2>3, <2>4
<1> QED  BY <1>1, <1>4, <1>5 DEF Grows

\* A new log is empty and hides no other.
LEMMA NewLog ==
  ASSUME NEW ls, IsLogs(ls), NEW n \in Nat, n \notin DOMAIN ls
  PROVE  /\ IsLogs(Put(ls, n, EmptyFile)) /\ Grows(ls, Put(ls, n, EmptyFile))
         /\ DOMAIN Put(ls, n, EmptyFile) = DOMAIN ls \cup {n}
<1> DEFINE more == Put(ls, n, EmptyFile)
<1>1. /\ DOMAIN more = DOMAIN ls \cup {n} /\ more = [x \in DOMAIN more |-> more[x]]
      /\ more[n] = EmptyFile
      /\ \A x \in DOMAIN ls : x # n => more[x] = ls[x]
  BY DEF Put
<1>2. EmptyFile \in LogFile
  BY DEF EmptyFile, LogFile
<1> HIDE DEF more
<1>3. IsLogs(more) /\ Grows(ls, more)
  BY <1>1, <1>2, LogGrows
<1> QED  BY <1>1, <1>3 DEF more

\* A batch that was appended is in the log.
LEMMA LongerLog ==
  ASSUME NEW ls, IsLogs(ls), NEW n \in DOMAIN ls, NEW r \in Record,
         NEW more, more = [ls EXCEPT ![n] = AddRecord(@, r)]
  PROVE  /\ IsLogs(more) /\ Grows(ls, more) /\ DOMAIN more = DOMAIN ls
         /\ \A b : b.log = n /\ b.seq = r.seq /\ (r.lost => b.torn) => InLog(more, b)
<1> DEFINE t == Append(ls[n].recs, r)
           g == AddRecord(ls[n], r)
<1>0. n \in Nat /\ ls[n] \in LogFile
  BY DEF IsLogs
<1>1. ls[n] \in [recs : Seq(Record), synced : Nat] /\ ls[n].synced <= Len(ls[n].recs)
      /\ ls[n].recs \in Seq(Record)
  BY <1>0 DEF LogFile
<1>2. t \in Seq(Record) /\ Len(t) = Len(ls[n].recs) + 1 /\ Len(ls[n].recs) \in Nat
      /\ (\A i \in 1 .. Len(ls[n].recs) : t[i] = ls[n].recs[i]) /\ t[Len(ls[n].recs) + 1] = r
  BY <1>1, AppendProperties
<1>3. g = [ls[n] EXCEPT !.recs = t]
  BY DEF AddRecord
<1>4. more = [ls EXCEPT ![n] = g]
  OBVIOUS
<1> HIDE DEF t, g
<1>5. g \in [recs : Seq(Record), synced : Nat] /\ g.recs = t /\ g.synced = ls[n].synced
  BY <1>1, <1>2, <1>3
<1>6. g \in LogFile
  BY <1>1, <1>2, <1>5 DEF LogFile
<1>7. /\ DOMAIN more = DOMAIN ls /\ more[n] = g /\ more = [x \in DOMAIN more |-> more[x]]
      /\ \A x \in DOMAIN ls : x # n => more[x] = ls[x]
  BY <1>4 DEF IsLogs
<1>8. IsLogs(more) /\ Grows(ls, more)
  <2>1. DOMAIN more = DOMAIN ls \cup {n}
    BY <1>7
  <2>2. /\ Len(ls[n].recs) <= Len(more[n].recs) /\ ls[n].synced <= more[n].synced
        /\ \A i \in 1 .. Len(ls[n].recs) : more[n].recs[i] = ls[n].recs[i]
    BY <1>1, <1>2, <1>5, <1>7
  <2> QED  BY <1>0, <1>6, <1>7, <2>1, <2>2, LogGrows
<1>9. ASSUME NEW b, b.log = n, b.seq = r.seq, r.lost => b.torn PROVE InLog(more, b)
  <2>0. Holds(r, b)
    BY <1>9 DEF Holds
  <2>1. Len(t) \in 1 .. Len(more[n].recs) /\ Holds(more[n].recs[Len(t)], b)
    BY <1>2, <1>5, <1>7, <2>0
  <2> QED  BY <1>7, <1>9, <2>1 DEF InLog, HasRecord
<1> QED  BY <1>7, <1>8, <1>9

\* Synchronising a log puts all its batches on the disk.
LEMMA SyncedLog ==
  ASSUME NEW ls, IsLogs(ls), NEW n \in DOMAIN ls,
         NEW more, more = [ls EXCEPT ![n] = SyncFile(@)]
  PROVE  /\ IsLogs(more) /\ Grows(ls, more) /\ DOMAIN more = DOMAIN ls
         /\ \A b : b.log = n /\ InLog(ls, b) => SyncedInLog(more, b)
<1> DEFINE g == SyncFile(ls[n])
<1>0. n \in Nat /\ ls[n] \in LogFile
  BY DEF IsLogs
<1>1. ls[n] \in [recs : Seq(Record), synced : Nat] /\ ls[n].synced <= Len(ls[n].recs)
      /\ Len(ls[n].recs) \in Nat
  BY <1>0 DEF LogFile
<1>3. g = [ls[n] EXCEPT !.synced = Len(ls[n].recs)]
  BY DEF SyncFile
<1>4. more = [ls EXCEPT ![n] = g]
  OBVIOUS
<1> HIDE DEF g
<1>5. g \in [recs : Seq(Record), synced : Nat] /\ g.recs = ls[n].recs
      /\ g.synced = Len(ls[n].recs)
  BY <1>1, <1>3
<1>6. g \in LogFile
  BY <1>1, <1>5 DEF LogFile
<1>7. /\ DOMAIN more = DOMAIN ls /\ more[n] = g /\ more = [x \in DOMAIN more |-> more[x]]
      /\ \A x \in DOMAIN ls : x # n => more[x] = ls[x]
  BY <1>4 DEF IsLogs
<1>8. IsLogs(more) /\ Grows(ls, more)
  <2>1. DOMAIN more = DOMAIN ls \cup {n}
    BY <1>7
  <2>2. /\ Len(ls[n].recs) <= Len(more[n].recs) /\ ls[n].synced <= more[n].synced
        /\ \A i \in 1 .. Len(ls[n].recs) : more[n].recs[i] = ls[n].recs[i]
    BY <1>1, <1>5, <1>7
  <2> QED  BY <1>0, <1>6, <1>7, <2>1, <2>2, LogGrows
<1>9. ASSUME NEW b, b.log = n, InLog(ls, b) PROVE SyncedInLog(more, b)
  BY <1>5, <1>7, <1>9 DEF InLog, SyncedInLog, HasRecord
<1> QED  BY <1>7, <1>8, <1>9

(******************************************************************************)
(* Writing                                                                    *)
(******************************************************************************)
\* What is promised was not written behind a record that is torn.
LEMMA PromisedAreWhole ==
  ASSUME LevelDBInv
  PROVE  \A i \in 1 .. Len(history) : history[i].sync => ~history[i].torn
<1>1. Len(Manifest.recs) \in Durable(Manifest)
  BY DEF LevelDBInv, Disk, Records, IsFile, Durable
<1> QED  BY <1>1 DEF LevelDBInv, Promises, KeptFor

LEMMA DiskGrows ==
  ASSUME Disk, IsLogs(logs'), UNCHANGED <<tables, manifests, current>>
  PROVE  Disk'
BY DEF Disk, Manifest

\* Promises are kept by logs that grow.
LEMMA PromisesGrow ==
  ASSUME Promises, Grows(logs, logs'), UNCHANGED <<manifests, current, history>>
  PROVE  Promises'
<1>1. Manifest' = Manifest
  BY DEF Manifest
<1> QED  BY <1>1, KeptInMore DEF Promises

\* Every batch knows its log.
LEMMA BatchLogs ==
  ASSUME Batches
  PROVE  /\ \A i \in 1 .. Len(history) : history[i].log \in Nat
         /\ \A i \in 1 .. Len(doubt) : doubt[i].log \in Nat
<1>1. /\ \A i \in 1 .. Len(history) : history[i] \in Batch
      /\ \A i \in 1 .. Len(doubt) : doubt[i] \in Batch
  BY DEF Batches
<1> QED  BY <1>1 DEF Batch

\* MakeRoomForWrite.
LEMMA SwitchKeeps ==
  ASSUME LevelDBInv, SwitchMemTable
  PROVE  LevelDBInv'
<1> DEFINE n == vset.next
<1>1. /\ phase = "open" /\ writer = None /\ bgError = FALSE
      /\ logs' = Put(logs, n, EmptyFile)
      /\ logfile' = n /\ imm' = [entries |-> mem] /\ mem' = {}
      /\ vset' = [vset EXCEPT !.next = n + 1]
      /\ UNCHANGED <<tables, manifests, current, phase, seek, edit, comp, writer,
                     snapshots, reader, bgError, history, doubt>>
  BY DEF SwitchMemTable, LevelDBInv, Stopped
<1>2. Disk /\ OpenFiles /\ OpenBatches
  BY DEF LevelDBInv, OpenOnly
<1>3. /\ VersionSetType /\ n \in Nat /\ vset.log \in Nat
      /\ logfile \in DOMAIN logs /\ vset.log <= logfile
      /\ \A x \in DOMAIN tables \cup DOMAIN logs : x < n
  BY <1>1, <1>2 DEF OpenFiles, VersionSetType
<1>4. /\ VersionSetType' /\ vset'.next = n + 1 /\ vset'.v = vset.v /\ vset'.log = vset.log
      /\ vset'.manifest = vset.manifest
  BY <1>1, <1>3 DEF VersionSetType
<1>5. IsLogs(logs) /\ IsTables(tables) /\ n \notin DOMAIN logs /\ logfile \in Nat /\ logfile < n
  BY <1>2, <1>3 DEF Disk, IsLogs
<1>6. IsLogs(logs') /\ Grows(logs, logs') /\ DOMAIN logs' = DOMAIN logs \cup {n}
  BY <1>1, <1>3, <1>5, NewLog
<1>7. Disk' /\ Promises'
  BY <1>1, <1>6, DiskGrows, PromisesGrow DEF LevelDBInv
<1>8. Batches' /\ Stopped' /\ Saving'
  BY <1>1, StaysOpen DEF LevelDBInv, Batches, Stopped
<1> HIDE DEF n
<1>9. Agrees(tables, tables, n)
  BY DEF Agrees
<1>10. \A v : GoodVersion(v, tables, n) => GoodVersion(v, tables, n + 1)
  BY <1>3, <1>5, GoodVersionInMore
<1>11. \A F : GoodFiles(F, tables, n) => GoodFiles(F, tables, n + 1)
  BY <1>3, <1>5, GoodInMore
<1>12. Manifest' = Manifest
  BY <1>1 DEF Manifest
<1>13. OpenFiles'
  <2>1. \A x \in DOMAIN tables' \cup DOMAIN logs' : x < n + 1
    BY <1>1, <1>3, <1>5, <1>6 DEF IsTables, IsLogs
  <2>2. GoodVersion(vset'.v, tables', n + 1)
    BY <1>1, <1>2, <1>4, <1>10 DEF OpenFiles, n
  <2>3. ASSUME NEW i \in Durable(Manifest)
        PROVE  /\ vset.log <= Manifest.recs[i].log
               /\ Manifest.recs[i].log <= n
               /\ Manifest.recs[i].next <= n + 1
    <3>1. Manifest.recs[i].log \in Nat /\ Manifest.recs[i].next \in Nat
      BY <1>2 DEF Disk, Records
    <3>2. /\ vset.log <= Manifest.recs[i].log /\ Manifest.recs[i].log <= logfile
          /\ Manifest.recs[i].next <= n
      BY <1>1, <1>2 DEF OpenFiles, n
    <3> QED  BY <1>3, <1>5, <3>1, <3>2
  <2>4. vset'.manifest = current'
    BY <1>1, <1>2, <1>4 DEF OpenFiles
  <2> QED  BY <1>1, <1>3, <1>4, <1>5, <1>6, <1>12, <2>1, <2>2, <2>3, <2>4 DEF OpenFiles
<1>14. OpenEdit'
  <2>1. \A e : GoodEdit(e, tables, n) => GoodEdit(e, tables, n + 1)
    BY <1>11 DEF GoodEdit
  <2> QED  BY <1>1, <1>4, <1>12, <2>1 DEF LevelDBInv, OpenOnly, OpenEdit, n
<1>15. OpenUse'
  BY <1>1, <1>4, <1>10, <1>11 DEF LevelDBInv, OpenOnly, OpenUse, n
<1>16. OpenMem'
  BY <1>1, TablesAreFinite DEF LevelDBInv, OpenOnly, OpenMem
<1>17. OpenBatches'
  <2>1. ASSUME NEW i \in 1 .. Len(history)
        PROVE  history[i].log <= n /\ KeptFor(logs', history[i], vset.log)
    <3>1. history[i].log <= logfile /\ KeptFor(logs, history[i], vset.log)
      BY <1>1, <1>2 DEF OpenBatches
    <3>2. history[i].log \in Nat
      BY BatchLogs DEF LevelDBInv
    <3> QED  BY <1>3, <1>5, <1>6, <3>1, <3>2, KeptInMore
  <2>2. ASSUME NEW i \in 1 .. Len(doubt)
        PROVE  doubt[i].log <= n /\ (doubt[i].log < vset.log \/ InLog(logs', doubt[i]))
    <3>1. doubt[i].log <= logfile /\ (doubt[i].log < vset.log \/ InLog(logs, doubt[i]))
      BY <1>1, <1>2 DEF OpenBatches
    <3>2. doubt[i].log \in Nat
      BY BatchLogs DEF LevelDBInv
    <3> QED  BY <1>3, <1>5, <1>6, <3>1, <3>2 DEF Grows
  <2> QED  BY <1>1, <1>4, <2>1, <2>2 DEF OpenBatches
<1> QED  BY <1>7, <1>8, <1>13, <1>14, <1>15, <1>16, <1>17 DEF LevelDBInv, OpenOnly

\* Write, up to the record in the log.
LEMMA AddBatchKeeps ==
  ASSUME LevelDBInv, AddBatch
  PROVE  LevelDBInv'
<1>1. /\ phase = "open" /\ writer = None /\ bgError = FALSE
      /\ UNCHANGED <<tables, manifests, current, phase, mem, imm, logfile, vset, seek,
                     edit, comp, snapshots, reader, bgError, history, doubt, events>>
  BY DEF AddBatch, LevelDBInv, Stopped
<1>2. PICK w \in Writes, lost \in BOOLEAN :
        LET b == [seq |-> vset.last + 1, ops |-> w.ops, sync |-> w.sync,
                  log |-> logfile, torn |-> Torn(logs[logfile])]
        IN  /\ vset.last + Len(w.ops) <= MaxSeq
            /\ lost => b.torn
            /\ writer' = b
            /\ logs' = [logs EXCEPT ![logfile] =
                          AddRecord(@, [seq |-> b.seq, ops |-> b.ops, lost |-> lost])]
  BY DEF AddBatch
<1> DEFINE b == [seq |-> vset.last + 1, ops |-> w.ops, sync |-> w.sync, log |-> logfile,
                 torn |-> Torn(logs[logfile])]
           r == [seq |-> b.seq, ops |-> b.ops, lost |-> lost]
<1>3. /\ writer' = b /\ logs' = [logs EXCEPT ![logfile] = AddRecord(@, r)]
      /\ r.lost => b.torn
  BY <1>2
<1>4. IsLogs(logs) /\ logfile \in DOMAIN logs /\ logfile \in Nat /\ vset.last \in Nat
  BY <1>1 DEF LevelDBInv, OpenOnly, Disk, OpenFiles, VersionSetType, IsLogs
<1>5. w.sync \in BOOLEAN /\ w.ops \in Seq(Op)
  BY WritesAssumption DEF Op
<1>6. b \in Batch /\ r \in Record /\ b.log = logfile /\ r.seq = b.seq
  <2>1. Len(w.ops) \in Nat /\ vset.last + Len(w.ops) <= MaxSeq
    BY <1>2, <1>5
  <2>2. vset.last + 1 + Len(w.ops) <= MaxSequence
    BY <1>4, <2>1, BoundsAssumption DEF MaxSequence
  <2>3. Fits(b) /\ Fits(r)
    BY <2>2 DEF Fits
  <2>4. Torn(logs[logfile]) \in BOOLEAN
    BY DEF Torn
  <2> QED  BY <1>4, <1>5, <2>3, <2>4 DEF Batch, Record
<1> HIDE DEF b, r
<1>7. /\ IsLogs(logs') /\ Grows(logs, logs') /\ DOMAIN logs' = DOMAIN logs
      /\ InLog(logs', b)
  BY <1>3, <1>4, <1>6, LongerLog
<1>8. Disk' /\ Promises'
  BY <1>1, <1>7, DiskGrows, PromisesGrow DEF LevelDBInv
<1>9. Stopped' /\ Saving'
  BY <1>1, StaysOpen DEF LevelDBInv, Stopped
<1>10. Batches'
  BY <1>1, <1>3, <1>6 DEF LevelDBInv, Batches
<1>11. OpenEdit' /\ OpenUse' /\ OpenMem'
  BY <1>1, OpenEditStays, OpenUseStays, OpenMemStays DEF LevelDBInv, OpenOnly
<1>12. OpenFiles'
  BY <1>1, <1>7 DEF LevelDBInv, OpenOnly, OpenFiles, VersionSetType, Manifest
<1>13. OpenBatches'
  <2>1. OpenBatches
    BY DEF LevelDBInv, OpenOnly
  <2>2. \A i \in 1 .. Len(history) : KeptFor(logs', history[i], vset.log)
    BY <1>1, <1>7, <2>1, KeptInMore DEF OpenBatches
  <2>3. \A i \in 1 .. Len(doubt) : doubt[i].log < vset.log \/ InLog(logs', doubt[i])
    BY <1>1, <1>7, <2>1 DEF OpenBatches, Grows
  <2> QED  BY <1>1, <1>3, <1>6, <1>7, <2>1, <2>2, <2>3 DEF OpenBatches
<1> QED  BY <1>8, <1>9, <1>10, <1>11, <1>12, <1>13 DEF LevelDBInv, OpenOnly

\* A record that cannot be written disturbs none that was.
LEMMA AddRecordFailsKeeps ==
  ASSUME LevelDBInv, AddRecordFails
  PROVE  LevelDBInv'
<1>1. /\ phase = "open" /\ writer = None /\ bgError = FALSE
      /\ UNCHANGED <<tables, manifests, current, phase, mem, imm, logfile, seek, edit,
                     comp, writer, snapshots, reader, bgError, history, doubt>>
  BY DEF AddRecordFails, LevelDBInv, Stopped
<1>2. PICK w \in Writes :
        /\ vset.last + Len(w.ops) <= MaxSeq
        /\ logs' = [logs EXCEPT ![logfile] =
                      AddRecord(@, [seq |-> vset.last + 1, ops |-> <<>>, lost |-> TRUE])]
        /\ vset' = [vset EXCEPT !.last = @ + Len(w.ops)]
  BY DEF AddRecordFails
<1> DEFINE r == [seq |-> vset.last + 1, ops |-> <<>>, lost |-> TRUE]
           k == Len(w.ops)
<1>3. logs' = [logs EXCEPT ![logfile] = AddRecord(@, r)]
  BY <1>2
<1>4. /\ IsLogs(logs) /\ logfile \in DOMAIN logs /\ VersionSetType /\ vset.last \in Nat
      /\ OpenBatches /\ OpenFiles
  BY <1>1 DEF LevelDBInv, OpenOnly, Disk, OpenFiles, VersionSetType
<1>5. k \in Nat /\ vset.last + k <= MaxSeq
  <2>1. w.ops \in Seq(Op)
    BY WritesAssumption DEF Op
  <2> QED  BY <1>2, <2>1
<1>6. r \in Record
  <2>1. vset.last + 1 <= MaxSequence
    BY <1>4, <1>5, BoundsAssumption DEF MaxSequence
  <2>2. r.ops \in Seq(Op) /\ Len(r.ops) = 0
    OBVIOUS
  <2>3. Fits(r)
    BY <1>4, <2>1, <2>2 DEF Fits
  <2> QED  BY <1>4, <2>3 DEF Record
<1>7. vset' = [vset EXCEPT !.last = @ + k]
  BY <1>2
<1> HIDE DEF r, k
<1>8. IsLogs(logs') /\ Grows(logs, logs') /\ DOMAIN logs' = DOMAIN logs
  BY <1>3, <1>4, <1>6, LongerLog
<1>9. /\ VersionSetType' /\ vset'.v = vset.v /\ vset'.next = vset.next
      /\ vset'.log = vset.log /\ vset'.manifest = vset.manifest
  BY <1>4, <1>5, <1>7 DEF VersionSetType
<1>10. Disk' /\ Promises'
  BY <1>1, <1>8, DiskGrows, PromisesGrow DEF LevelDBInv
<1>11. Stopped' /\ Saving' /\ Batches'
  BY <1>1, StaysOpen DEF LevelDBInv, Stopped, Batches
<1>12. Manifest' = Manifest
  BY <1>1 DEF Manifest
<1>13. OpenFiles' /\ OpenUse'
  BY <1>1, <1>4, <1>8, <1>9, <1>12 DEF LevelDBInv, OpenOnly, OpenFiles, OpenUse
<1>14. OpenEdit' /\ OpenMem'
  BY <1>1, <1>9, <1>12, OpenMemStays DEF LevelDBInv, OpenOnly, OpenEdit
<1>15. OpenBatches'
  <2>1. \A i \in 1 .. Len(history) : KeptFor(logs', history[i], vset.log)
    BY <1>1, <1>4, <1>8, KeptInMore DEF OpenBatches
  <2>2. \A i \in 1 .. Len(doubt) : doubt[i].log < vset.log \/ InLog(logs', doubt[i])
    BY <1>1, <1>4, <1>8 DEF OpenBatches, Grows
  <2> QED  BY <1>1, <1>4, <1>9, <2>1, <2>2 DEF OpenBatches
<1> QED  BY <1>10, <1>11, <1>13, <1>14, <1>15 DEF LevelDBInv, OpenOnly

\* The numbers of a batch are published.
LEMMA VersionSetLater ==
  ASSUME VersionSetType, writer \in Batch, vset' = LastSequence
  PROVE  /\ VersionSetType' /\ vset'.v = vset.v /\ vset'.next = vset.next
         /\ vset'.log = vset.log /\ vset'.manifest = vset.manifest
<1>1. writer.ops \in Seq(Op)
  BY DEF Batch
<1>2. Len(writer.ops) \in Nat
  BY <1>1
<1> DEFINE k == Len(writer.ops)
<1> HIDE DEF k
<1>3. vset' = [vset EXCEPT !.last = @ + k] /\ k \in Nat
  BY <1>2 DEF LastSequence, k
<1> QED  BY <1>3 DEF VersionSetType

\* A promise is about the same batch.
LEMMA PromisedIs ==
  ASSUME NEW b \in Batch
  PROVE  /\ Promised(b) \in Batch /\ Promised(b).log = b.log
         /\ Promised(b).sync => b.sync /\ ~b.torn /\ ~Promised(b).torn
         /\ \A ls : InLog(ls, Promised(b)) <=> InLog(ls, b)
         /\ \A ls : SyncedInLog(ls, Promised(b)) <=> SyncedInLog(ls, b)
<1> DEFINE s == b.sync /\ ~b.torn
<1>1. b \in [seq : Nat, ops : Seq(Op), sync : BOOLEAN, log : Nat, torn : BOOLEAN] /\ Fits(b)
  BY DEF Batch
<1>2. s \in BOOLEAN
  BY <1>1
<1>3. Promised(b) = [b EXCEPT !.sync = s]
  BY DEF Promised
<1>4. s => b.sync /\ ~b.torn
  OBVIOUS
<1> HIDE DEF s
<1>5. Promised(b) = [seq |-> b.seq, ops |-> b.ops, sync |-> s, log |-> b.log, torn |-> b.torn]
  BY <1>1, <1>3
<1>6. /\ Promised(b).seq = b.seq /\ Promised(b).log = b.log /\ Promised(b).torn = b.torn
      /\ Promised(b).ops = b.ops /\ Promised(b).sync = s
  BY <1>5
<1>7. Promised(b) \in Batch
  <2>1. Fits(Promised(b))
    BY <1>1, <1>6 DEF Fits
  <2> QED  BY <1>1, <1>2, <1>5, <2>1 DEF Batch
<1>8. \A f, n : HasRecord(f, n, Promised(b)) <=> HasRecord(f, n, b)
  BY <1>6 DEF HasRecord, Holds
<1> QED  BY <1>4, <1>6, <1>7, <1>8 DEF InLog, SyncedInLog

\* Write, from there on: what is acknowledged is in the log.
LEMMA WriteDoneKeeps ==
  ASSUME LevelDBInv, WriteDone
  PROVE  LevelDBInv'
<1>1. /\ writer # None /\ phase = "open"
      /\ UNCHANGED <<tables, manifests, current, phase, imm, logfile, seek, edit, comp,
                     snapshots, reader, bgError, doubt, events>>
      /\ logs' = IF writer.sync THEN [logs EXCEPT ![logfile] = SyncFile(@)] ELSE logs
      /\ mem' = mem \cup Entries(writer) /\ vset' = LastSequence
      /\ history' = Append(history, Promised(writer)) /\ writer' = None
  BY DEF WriteDone, LevelDBInv, Stopped
<1>2. /\ Disk /\ Batches /\ OpenFiles /\ OpenBatches /\ OpenMem /\ Promises
      /\ writer \in Batch /\ VersionSetType
  BY <1>1 DEF LevelDBInv, OpenOnly, Batches, OpenFiles
<1>3. /\ VersionSetType' /\ vset'.v = vset.v /\ vset'.next = vset.next
      /\ vset'.log = vset.log /\ vset'.manifest = vset.manifest
  BY <1>1, <1>2, VersionSetLater
<1>4. IsLogs(logs) /\ logfile \in DOMAIN logs /\ logfile \in Nat
  BY <1>1, <1>2 DEF Disk, OpenFiles, IsLogs
<1>5. writer.log = logfile /\ InLog(logs, writer) /\ writer.sync \in BOOLEAN
  BY <1>1, <1>2 DEF OpenBatches, Batch
<1>6. /\ IsLogs(logs') /\ Grows(logs, logs') /\ DOMAIN logs' = DOMAIN logs
      /\ InLog(logs', writer) /\ (writer.sync => SyncedInLog(logs', writer))
  <2>1. CASE writer.sync
    <3>1. logs' = [logs EXCEPT ![logfile] = SyncFile(@)]
      BY <1>1, <2>1
    <3>2. /\ IsLogs(logs') /\ Grows(logs, logs') /\ DOMAIN logs' = DOMAIN logs
          /\ SyncedInLog(logs', writer)
      BY <1>4, <1>5, <3>1, SyncedLog
    <3> QED  BY <1>5, <3>2 DEF Grows
  <2>2. CASE ~writer.sync
    BY <1>1, <1>4, <1>5, <2>2 DEF Grows
  <2> QED  BY <2>1, <2>2
<1>7. Disk'
  BY <1>1, <1>2, <1>6, DiskGrows
<1> DEFINE done == Promised(writer)
<1>8. done \in Batch /\ done.log = logfile /\ \A n : KeptFor(logs', done, n)
  BY <1>2, <1>5, <1>6, PromisedIs DEF KeptFor
<1>0. history' = Append(history, done)
  BY <1>1
<1> HIDE DEF done
<1>9. Manifest' = Manifest
  BY <1>1 DEF Manifest
<1>10. history \in Seq(Batch) /\ history' \in Seq(Batch) /\ Len(history') = Len(history) + 1
       /\ (\A i \in 1 .. Len(history) : history'[i] = history[i])
       /\ history'[Len(history) + 1] = done /\ Len(history) \in Nat
  BY <1>0, <1>2, <1>8, AppendProperties DEF Batches
<1>11. \A i \in 1 .. Len(history') : i \in 1 .. Len(history) \/ history'[i] = done
  BY <1>10
<1>12. Promises'
  <2> SUFFICES ASSUME NEW i \in 1 .. Len(history'), NEW n \in Durable(Manifest)
               PROVE  KeptFor(logs', history'[i], Manifest.recs[n].log)
    BY <1>9 DEF Promises
  <2>1. CASE history'[i] = done
    BY <1>8, <2>1
  <2>2. CASE i \in 1 .. Len(history)
    <3>1. history'[i] = history[i] /\ KeptFor(logs, history[i], Manifest.recs[n].log)
      BY <1>2, <1>10, <2>2 DEF Promises
    <3> QED  BY <1>6, <3>1, KeptInMore
  <2> QED  BY <1>11, <2>1, <2>2
<1>13. Stopped' /\ Saving'
  BY <1>1, StaysOpen DEF LevelDBInv, Stopped
<1>14. Batches'
  BY <1>1, <1>2, <1>10 DEF Batches
<1>15. OpenFiles'
  BY <1>1, <1>2, <1>3, <1>6, <1>9 DEF OpenFiles
<1>16. OpenEdit' /\ OpenUse'
  BY <1>1, <1>3, <1>9 DEF LevelDBInv, OpenOnly, OpenEdit, OpenUse
<1>17. OpenMem'
  <2>1. Entries(writer) \in Table
    BY <1>2, EntriesAre DEF Batch
  <2> QED  BY <1>1, <1>2, <2>1, TablesAreFinite DEF OpenMem
<1>18. OpenBatches'
  <2>1. ASSUME NEW i \in 1 .. Len(history')
        PROVE  history'[i].log <= logfile /\ KeptFor(logs', history'[i], vset.log)
    <3>1. CASE history'[i] = done
      BY <1>4, <1>8, <3>1
    <3>2. CASE i \in 1 .. Len(history)
      <4>1. history'[i] = history[i] /\ history[i].log <= logfile
            /\ KeptFor(logs, history[i], vset.log)
        BY <1>1, <1>2, <1>10, <3>2 DEF OpenBatches
      <4> QED  BY <1>6, <4>1, KeptInMore
    <3> QED  BY <1>11, <3>1, <3>2
  <2>2. \A i \in 1 .. Len(doubt) : doubt[i].log <= logfile
                                 /\ (doubt[i].log < vset.log \/ InLog(logs', doubt[i]))
    BY <1>1, <1>2, <1>6 DEF OpenBatches, Grows
  <2> QED  BY <1>1, <1>3, <2>1, <2>2 DEF OpenBatches
<1> QED  BY <1>7, <1>12, <1>13, <1>14, <1>15, <1>16, <1>17, <1>18 DEF LevelDBInv, OpenOnly

\* A log that could not be synchronised.
LEMMA SyncFailsKeeps ==
  ASSUME LevelDBInv, SyncFails
  PROVE  LevelDBInv'
<1>1. /\ writer # None /\ phase = "open"
      /\ UNCHANGED <<logs, tables, manifests, current, phase, mem, imm, logfile, seek,
                     edit, comp, snapshots, reader, history>>
      /\ vset' = LastSequence /\ doubt' = Append(doubt, Promised(writer)) /\ writer' = None
      /\ bgError' = TRUE
  BY DEF SyncFails, LevelDBInv, Stopped
<1>2. /\ Disk /\ Batches /\ OpenFiles /\ OpenBatches /\ OpenMem /\ Promises
      /\ writer \in Batch /\ VersionSetType
  BY <1>1 DEF LevelDBInv, OpenOnly, Batches, OpenFiles
<1>3. /\ VersionSetType' /\ vset'.v = vset.v /\ vset'.next = vset.next
      /\ vset'.log = vset.log /\ vset'.manifest = vset.manifest
  BY <1>1, <1>2, VersionSetLater
<1>4. Disk' /\ Promises' /\ OpenMem'
  BY <1>1, <1>2, DiskStays, PromisesStay, OpenMemStays
<1>5. Stopped' /\ Saving'
  BY <1>1, StaysOpen DEF LevelDBInv, Stopped
<1>6. Manifest' = Manifest
  BY <1>1 DEF Manifest
<1> DEFINE done == Promised(writer)
<1>0. done \in Batch /\ done.log = writer.log /\ (InLog(logs, writer) => InLog(logs, done))
  BY <1>2, PromisedIs
<1>12. doubt' = Append(doubt, done)
  BY <1>1
<1> HIDE DEF done
<1>7. doubt \in Seq(Batch) /\ doubt' \in Seq(Batch) /\ Len(doubt') = Len(doubt) + 1
       /\ (\A i \in 1 .. Len(doubt) : doubt'[i] = doubt[i])
       /\ doubt'[Len(doubt) + 1] = done /\ Len(doubt) \in Nat
  BY <1>0, <1>2, <1>12, AppendProperties DEF Batches
<1>8. Batches'
  BY <1>1, <1>2, <1>7 DEF Batches
<1>9. OpenFiles' /\ OpenUse'
  BY <1>1, <1>2, <1>3, <1>6 DEF LevelDBInv, OpenOnly, OpenFiles, OpenUse
<1>10. OpenEdit'
  BY <1>1, <1>3, <1>6 DEF LevelDBInv, OpenOnly, OpenEdit
<1>11. OpenBatches'
  <2>0. logfile \in Nat /\ writer.log = logfile /\ InLog(logs, writer)
    BY <1>1, <1>2 DEF OpenBatches, OpenFiles, Disk, IsLogs
  <2>1. ASSUME NEW i \in 1 .. Len(doubt')
        PROVE  doubt'[i].log <= logfile /\ (doubt'[i].log < vset.log \/ InLog(logs, doubt'[i]))
    <3>1. CASE i \in 1 .. Len(doubt)
      BY <1>1, <1>2, <1>7, <3>1 DEF OpenBatches
    <3>2. CASE i = Len(doubt) + 1
      BY <1>0, <1>7, <2>0, <3>2
    <3> QED  BY <1>7, <3>1, <3>2
  <2> QED  BY <1>1, <1>2, <1>3, <2>1 DEF OpenBatches
<1> QED  BY <1>4, <1>5, <1>8, <1>9, <1>10, <1>11 DEF LevelDBInv, OpenOnly

(******************************************************************************)
(* Background work                                                            *)
(******************************************************************************)
\* A step of the background thread that writes tables at most.
Later ==
  /\ phase = "open"
  /\ UNCHANGED <<logs, current, phase, logfile, bgError, history, doubt, writer, mem, imm,
                 reader, seek, snapshots>>
  /\ VersionSetType' /\ vset'.v = vset.v /\ vset'.log = vset.log
  /\ vset'.manifest = vset.manifest /\ vset.next <= vset'.next
  /\ IsTables(tables') /\ Agrees(tables, tables', vset.next)
  /\ \A x \in DOMAIN tables' : x < vset'.next

\* What is known of an open database.
LEMMA OpenFacts ==
  ASSUME LevelDBInv, phase = "open"
  PROVE  /\ VersionSetType /\ vset.next \in Nat /\ vset.log \in Nat /\ vset.last \in Nat
         /\ vset.manifest = current
         /\ (\A n \in DOMAIN tables \cup DOMAIN logs : n < vset.next)
         /\ logfile \in DOMAIN logs /\ logfile \in Nat /\ vset.log <= logfile
         /\ GoodVersion(vset.v, tables, vset.next)
         /\ IsLogs(logs) /\ IsTables(tables)
         /\ current \in DOMAIN manifests /\ current \in Nat
         /\ Records(Manifest, current, tables)
         /\ (\A n \in Durable(Manifest) : /\ vset.log <= Manifest.recs[n].log
                                          /\ Manifest.recs[n].log <= logfile
                                          /\ Manifest.recs[n].next <= vset.next
                                          /\ Manifest.recs[n].log \in Nat
                                          /\ Manifest.recs[n].next \in Nat)
         /\ current < vset.next
<1>1. OpenFiles /\ Disk
  BY DEF LevelDBInv, OpenOnly
<1>2. /\ VersionSetType /\ vset.next \in Nat /\ vset.log \in Nat /\ vset.last \in Nat
      /\ vset.manifest = current
      /\ (\A n \in DOMAIN tables \cup DOMAIN logs : n < vset.next)
      /\ logfile \in DOMAIN logs /\ vset.log <= logfile
      /\ GoodVersion(vset.v, tables, vset.next)
  BY <1>1 DEF OpenFiles, VersionSetType
<1>3. /\ IsLogs(logs) /\ IsTables(tables) /\ logfile \in Nat
      /\ current \in DOMAIN manifests /\ current \in Nat
      /\ Records(Manifest, current, tables)
  BY <1>1, <1>2 DEF Disk, IsLogs
<1>4. \A n \in Durable(Manifest) : /\ vset.log <= Manifest.recs[n].log
                                   /\ Manifest.recs[n].log <= logfile
                                   /\ Manifest.recs[n].next <= vset.next
  BY <1>1 DEF OpenFiles
<1>5. \A n \in Durable(Manifest) : /\ Manifest.recs[n].log \in Nat
                                   /\ Manifest.recs[n].next \in Nat
                                   /\ current < Manifest.recs[n].next
  BY <1>3 DEF Records
<1>6. current < vset.next
  <2>1. Manifest.synced \in Durable(Manifest)
    BY <1>3 DEF Records, IsFile, Durable
  <2> QED  BY <1>2, <1>3, <1>4, <1>5, <2>1
<1> QED  BY <1>2, <1>3, <1>4, <1>5, <1>6

\* Such a step leaves batches, memtables and good files alone.
LEMMA LaterKeeps ==
  ASSUME LevelDBInv, Later
  PROVE  /\ Batches' /\ Stopped' /\ Saving' /\ OpenMem' /\ OpenBatches'
         /\ \A v : GoodVersion(v, tables, vset.next) => GoodVersion(v, tables', vset'.next)
         /\ \A F : GoodFiles(F, tables, vset.next) => GoodFiles(F, tables', vset'.next)
         /\ vset'.next \in Nat
<1>1. vset.next \in Nat /\ vset'.next \in Nat /\ vset.next <= vset'.next /\ phase = "open"
  BY OpenFacts DEF Later, VersionSetType
<1>2. \A x \in DOMAIN tables : x < vset.next => x \in DOMAIN tables' /\ tables'[x] = tables[x]
  BY DEF Later, Agrees
<1>3. IsTables(tables)
  BY <1>1, OpenFacts
<1>4. /\ \A v : GoodVersion(v, tables, vset.next) => GoodVersion(v, tables', vset'.next)
      /\ \A F : GoodFiles(F, tables, vset.next) => GoodFiles(F, tables', vset'.next)
  BY <1>1, <1>2, <1>3, GoodVersionInMore, GoodInMore
<1>5. Stopped' /\ Saving'
  BY StaysOpen DEF LevelDBInv, Stopped, Later
<1>6. Batches' /\ OpenMem'
  BY DEF Later, LevelDBInv, Batches, OpenOnly, OpenMem
<1>7. OpenBatches'
  BY DEF Later, LevelDBInv, OpenOnly, OpenBatches
<1> QED  BY <1>1, <1>4, <1>5, <1>6, <1>7

\* When it logs no edit the files on the disk are as good as before.
LEMMA LaterSame ==
  ASSUME LevelDBInv, Later, edit = None, UNCHANGED <<manifests, edit>>
  PROVE  Disk' /\ Promises' /\ OpenFiles' /\ OpenEdit'
<1>1. phase = "open" /\ Manifest' = Manifest
  BY DEF Later, Manifest
<1>2. /\ VersionSetType /\ vset.next \in Nat
      /\ vset.manifest = current /\ (\A n \in DOMAIN tables \cup DOMAIN logs : n < vset.next)
      /\ logfile \in DOMAIN logs /\ logfile \in Nat /\ vset.log <= logfile
      /\ GoodVersion(vset.v, tables, vset.next)
      /\ IsLogs(logs) /\ IsTables(tables) /\ Records(Manifest, current, tables)
      /\ \A n \in Durable(Manifest) : /\ vset.log <= Manifest.recs[n].log
                                      /\ Manifest.recs[n].log <= logfile
                                      /\ Manifest.recs[n].next <= vset.next
                                      /\ Manifest.recs[n].next \in Nat
  BY <1>1, OpenFacts
<1>3. Records(Manifest, current, tables')
  BY <1>2, RecordsInMore DEF Later
<1>4. Disk'
  BY <1>1, <1>3 DEF LevelDBInv, Disk, Later
<1>5. Promises'
  BY <1>1 DEF LevelDBInv, Promises, Later
<1>6. OpenEdit'
  BY <1>1 DEF LevelDBInv, OpenOnly, OpenEdit, Later
<1>7. \A n \in DOMAIN logs : n \in Nat /\ n < vset.next
  BY <1>2 DEF IsLogs
<1>8. vset'.next \in Nat /\ vset.next <= vset'.next /\ GoodVersion(vset'.v, tables', vset'.next)
  BY <1>2, LaterKeeps DEF Later
<1>9. \A n \in Durable(Manifest) : Manifest.recs[n].next <= vset'.next
  BY <1>2, <1>8
<1>10. \A n \in DOMAIN tables' \cup DOMAIN logs' : n < vset'.next
  BY <1>2, <1>7, <1>8 DEF Later
<1>11. OpenFiles'
  BY <1>1, <1>2, <1>8, <1>9, <1>10 DEF OpenFiles, Later
<1> QED  BY <1>4, <1>5, <1>6, <1>11

\* A batch that is kept while replay starts at log n is kept when it starts later:
\* it was older than n, or it is in a log that is still there.
LEMMA KeptForLater ==
  ASSUME NEW ls, NEW b, b.log \in Nat, NEW n \in Nat, NEW m \in Nat, n <= m, KeptFor(ls, b, n)
  PROVE  KeptFor(ls, b, m)
<1>1. b.log < n => b.log < m
  OBVIOUS
<1> QED  BY <1>1 DEF KeptFor

\* When it logs an edit the manifest is good with the edit and without it.
LEMMA LaterLogged ==
  ASSUME LevelDBInv, Later, edit = None, NEW e, LogAndApply(e), e # None,
         e.log \in Nat, vset.log <= e.log, e.log <= logfile,
         e.next = vset'.next, e.last \in Nat, GoodEdit(e, tables', vset'.next),
         (current < vset'.next) /\ (logfile < vset'.next)
  PROVE  Disk' /\ Promises' /\ OpenFiles' /\ OpenEdit'
<1>1. phase = "open"
  BY DEF Later
<1>2. /\ VersionSetType /\ vset.next \in Nat /\ vset.log \in Nat
      /\ vset.manifest = current /\ (\A n \in DOMAIN tables \cup DOMAIN logs : n < vset.next)
      /\ logfile \in DOMAIN logs /\ logfile \in Nat /\ vset.log <= logfile
      /\ GoodVersion(vset.v, tables, vset.next)
      /\ IsLogs(logs) /\ IsTables(tables) /\ Records(Manifest, current, tables)
      /\ current \in DOMAIN manifests /\ current \in Nat
  BY <1>1, OpenFacts
<1>3. \A n \in Durable(Manifest) : /\ vset.log <= Manifest.recs[n].log
                                      /\ Manifest.recs[n].log <= logfile
                                      /\ Manifest.recs[n].next <= vset.next
                                      /\ Manifest.recs[n].next \in Nat
  BY <1>1, OpenFacts
<1>4. Records(Manifest, current, tables')
  BY <1>2, <1>3, RecordsInMore DEF Later
<1>5. vset'.next \in Nat /\ vset.next <= vset'.next /\ GoodVersion(vset'.v, tables', vset'.next)
  BY <1>2, LaterKeeps DEF Later
<1>6. e.log < e.next /\ current < e.next
      /\ \A n \in Durable(Manifest) : Manifest.recs[n].next <= e.next
  BY <1>2, <1>3, <1>5
<1> DEFINE N == Len(Manifest.recs)
           g == AddRecord(Manifest, e)
<1>7. IsFile(Manifest) /\ IsSeq(Manifest.recs) /\ N \in Nat /\ Manifest.synced \in 1 .. N
  BY <1>2 DEF Records, IsFile, IsSeq
<1>8. IsTables(tables')
  BY DEF Later
<1>9. /\ Records(g, current, tables')
      /\ VersionOf(g.recs) = SaveTo(VersionOf(Manifest.recs), e)
      /\ Durable(g) = Durable(Manifest) \cup {N + 1}
  BY <1>4, <1>5, <1>6, <1>8, RecordsAdded
<1>10. IsFile(g) /\ g.recs = Append(Manifest.recs, e) /\ g.synced = Manifest.synced
  BY <1>7, AddRecordIs
<1>11. /\ Len(g.recs) = N + 1 /\ g.recs[N + 1] = e
       /\ \A i \in 1 .. N : g.recs[i] = Manifest.recs[i]
       /\ SubSeq(g.recs, 1, N) = SubSeq(Manifest.recs, 1, N)
       /\ SubSeq(Manifest.recs, 1, N) = Manifest.recs
  <2>1. N \in 0 .. N
    BY <1>7
  <2> QED  BY <1>7, <1>10, <2>1, AppendedSeq, WholePrefix
<1>12. /\ Manifest' = g /\ edit' = e
       /\ DOMAIN manifests' = DOMAIN manifests /\ manifests' = [n \in DOMAIN manifests' |-> manifests'[n]]
  <2>1. manifests' = [manifests EXCEPT ![current] = g] /\ edit' = e
    BY <1>2 DEF LogAndApply, Manifest
  <2> HIDE DEF g
  <2>2. current' = current /\ manifests = [n \in DOMAIN manifests |-> manifests[n]]
    BY DEF Later, LevelDBInv, Disk
  <2> QED  BY <1>2, <2>1, <2>2 DEF Manifest
<1> HIDE DEF g, N
<1>13. Disk'
  BY <1>8, <1>9, <1>12 DEF LevelDBInv, Disk, Later
<1>14. \A n \in Durable(g) : \/ (n \in Durable(Manifest) /\ g.recs[n] = Manifest.recs[n])
                              \/ g.recs[n] = e
  <2>1. \A n \in Durable(Manifest) : n \in 1 .. N
    BY <1>7 DEF Durable, N
  <2> QED  BY <1>9, <1>11, <2>1
<1>15. Promises'
  <2> SUFFICES ASSUME NEW i \in 1 .. Len(history), NEW n \in Durable(g)
               PROVE  KeptFor(logs, history[i], g.recs[n].log)
    BY <1>12 DEF Promises, Later
  <2>1. CASE n \in Durable(Manifest) /\ g.recs[n] = Manifest.recs[n]
    BY <2>1 DEF LevelDBInv, Promises
  <2>2. CASE g.recs[n] = e
    <3>1. KeptFor(logs, history[i], vset.log)
      BY <1>1 DEF LevelDBInv, OpenOnly, OpenBatches
    <3>2. history[i].log \in Nat
      BY BatchLogs DEF LevelDBInv
    <3>3. KeptFor(logs, history[i], e.log)
      BY <1>2, <3>1, <3>2, KeptForLater
    <3> QED  BY <2>2, <3>3
  <2> QED  BY <1>14, <2>1, <2>2
<1>16. OpenFiles'
  <2>1. \A n \in DOMAIN logs : n \in Nat /\ n < vset.next
    BY <1>2 DEF IsLogs
  <2>2. \A n \in DOMAIN tables' \cup DOMAIN logs' : n < vset'.next
    BY <1>2, <1>5, <2>1 DEF Later
  <2>3. ASSUME NEW n \in Durable(g)
        PROVE  /\ vset.log <= g.recs[n].log /\ g.recs[n].log <= logfile
               /\ g.recs[n].next <= vset'.next
    <3>1. CASE n \in Durable(Manifest) /\ g.recs[n] = Manifest.recs[n]
      BY <1>2, <1>3, <1>5, <3>1
    <3>2. CASE g.recs[n] = e
      BY <1>5, <3>2
    <3> QED  BY <1>14, <3>1, <3>2
  <2> QED  BY <1>1, <1>2, <1>5, <1>12, <2>2, <2>3 DEF OpenFiles, Later
<1>17. OpenEdit'
  <2>1. bgError = FALSE => VersionOf(Manifest.recs) = vset.v
    BY <1>1 DEF LevelDBInv, OpenOnly, OpenEdit
  <2>2. g.synced < Len(g.recs) /\ Len(g.recs) - 1 = N /\ g.recs[Len(g.recs)] = e
    BY <1>7, <1>10, <1>11
  <2>3. SubSeq(g.recs, 1, Len(g.recs) - 1) = Manifest.recs
    BY <1>11, <2>2
  <2> QED  BY <1>12, <2>1, <2>2, <2>3 DEF OpenEdit, Later
<1> QED  BY <1>13, <1>15, <1>16, <1>17

\* What CompactMemTable writes.
LEMMA FlushIs ==
  ASSUME LevelDBInv, CompactMemTable
  PROVE  /\ phase = "open" /\ edit = None /\ imm # None /\ comp' = comp
         /\ (bgError = TRUE => comp # None)
         /\ Later /\ vset'.last = vset.last
         /\ \E f, level, e :
              /\ LogAndApply(e) /\ e.kind = "flush" /\ e.log = logfile /\ e.last = vset.last
              /\ e.deleted = {} /\ e.added = IF imm.entries = {} THEN {} ELSE {<<level, f>>}
              /\ e # None /\ e.next = vset'.next /\ GoodEdit(e, tables', vset'.next)
              /\ level = PickLevelForMemTableOutput(vset.v, UserKey(f.smallest), UserKey(f.largest))
              /\ imm.entries # {} =>
                   GoodFile(f, tables', vset'.next) /\ tables'[f.number] = imm.entries
<1> DEFINE n == vset.next
           f == FileOf(n, imm.entries)
           vs == [vset EXCEPT !.next = @ + 1]
           level == PickLevelForMemTableOutput(vset.v, UserKey(f.smallest), UserKey(f.largest))
           added == IF imm.entries = {} THEN {} ELSE {<<level, f>>}
           e == NewEdit(vs, "flush", {}, added, <<>>, logfile)
<1>1. /\ phase = "open" /\ edit = None /\ imm # None /\ vset' = vs
      /\ (bgError = TRUE => comp # None)
      /\ tables' = IF imm.entries = {} THEN tables ELSE Put(tables, n, imm.entries)
      /\ LogAndApply(e)
      /\ UNCHANGED <<logs, current, phase, mem, imm, logfile, seek, comp, writer,
                     snapshots, reader, bgError, history, doubt, events>>
  BY DEF CompactMemTable, MayWork
<1>2. /\ VersionSetType /\ n \in Nat /\ vset.log \in Nat /\ vset.last \in Nat
      /\ (\A x \in DOMAIN tables \cup DOMAIN logs : x < n)
      /\ logfile \in DOMAIN logs /\ logfile \in Nat /\ vset.log <= logfile
      /\ IsTables(tables) /\ current \in Nat /\ current < n
  BY <1>1, OpenFacts
<1>3. vs.next = n + 1 /\ vs.v = vset.v /\ vs.log = vset.log /\ vs.manifest = vset.manifest
      /\ vs.last = vset.last /\ VersionSetType'
  BY <1>1, <1>2 DEF VersionSetType
<1>4. imm.entries \in Table
  BY <1>1 DEF LevelDBInv, OpenOnly, OpenMem
<1>5. e.log = logfile /\ e.next = n + 1 /\ e.last = vset.last /\ e.added = added
      /\ e.kind = "flush" /\ e.deleted = {}
  <2> HIDE DEF added, vs, n
  <2> QED  BY <1>3 DEF NewEdit
<1>6. e # None
  <2>1. e = [kind |-> "flush", deleted |-> {}, added |-> added, pointers |-> <<>>,
             log |-> logfile, next |-> vs.next, last |-> vs.last]
    BY DEF NewEdit
  <2> HIDE DEF e, added, vs
  <2>2. "kind" \in DOMAIN e /\ "kind" \notin DOMAIN None
    BY <2>1 DEF None
  <2> QED  BY <2>2
<1>7. level = PickLevelForMemTableOutput(vset.v, UserKey(f.smallest), UserKey(f.largest))
  OBVIOUS
<1> HIDE DEF vs, e, n, f, level
<1>8. /\ IsTables(tables') /\ Agrees(tables, tables', n)
      /\ \A x \in DOMAIN tables' : x < n + 1
      /\ imm.entries # {} => GoodFile(f, tables', n + 1) /\ tables'[f.number] = imm.entries
  <2>0. \A x \in DOMAIN tables : x \in Nat /\ x < n
    BY <1>2 DEF IsTables
  <2>1. CASE imm.entries = {}
    BY <1>1, <1>2, <2>0, <2>1 DEF Agrees
  <2>2. CASE imm.entries # {}
    <3>1. tables' = Put(tables, n, imm.entries) /\ imm.entries \in Table \ {{}}
      BY <1>1, <1>4, <2>2
    <3>2. /\ IsTables(tables') /\ DOMAIN tables' = DOMAIN tables \cup {n}
          /\ Agrees(tables, tables', n) /\ GoodFile(f, tables', n + 1)
      BY <1>2, <3>1, PutTable DEF f
    <3>3. f.number = n /\ tables'[n] = imm.entries
      BY <3>1 DEF f, FileOf, Put
    <3> QED  BY <1>2, <2>0, <3>2, <3>3
  <2> QED  BY <2>1, <2>2
<1>9. GoodEdit(e, tables', n + 1)
  <2> SUFFICES ASSUME NEW l \in Levels, NEW g \in AddedAt(e, l)
               PROVE  GoodFile(g, tables', n + 1)
    BY DEF GoodEdit, GoodFiles
  <2>1. imm.entries # {} /\ g = f
    BY <1>5 DEF AddedAt
  <2> QED  BY <1>8, <2>1
<1>10. vset' = vs /\ vset'.next = n + 1
  BY <1>1, <1>3
<1>11. Later
  BY <1>1, <1>2, <1>3, <1>8, <1>10 DEF Later, n
<1> QED  BY <1>1, <1>3, <1>5, <1>6, <1>7, <1>8, <1>9, <1>10, <1>11

\* CompactMemTable: the edit lets go of the logs before the current one,
\* whose batches are in the table that was written.
LEMMA FlushKeeps ==
  ASSUME LevelDBInv, CompactMemTable
  PROVE  LevelDBInv'
<1>1. /\ phase = "open" /\ edit = None /\ comp' = comp /\ Later
      /\ \E e : /\ LogAndApply(e) /\ e.log = logfile /\ e.last = vset.last /\ e # None
               /\ e.next = vset'.next /\ GoodEdit(e, tables', vset'.next)
  BY FlushIs
<1>2. PICK e : /\ LogAndApply(e) /\ e.log = logfile /\ e.last = vset.last /\ e # None
               /\ e.next = vset'.next /\ GoodEdit(e, tables', vset'.next)
  BY <1>1
<1>3. /\ vset.next \in Nat /\ vset.last \in Nat /\ logfile \in DOMAIN logs /\ logfile \in Nat
      /\ vset.log <= logfile /\ current < vset.next /\ current \in Nat
      /\ \A x \in DOMAIN logs : x < vset.next
  BY <1>1, OpenFacts
<1>4. /\ Batches' /\ Stopped' /\ Saving' /\ OpenMem' /\ OpenBatches' /\ vset'.next \in Nat
      /\ \A v : GoodVersion(v, tables, vset.next) => GoodVersion(v, tables', vset'.next)
      /\ \A F : GoodFiles(F, tables, vset.next) => GoodFiles(F, tables', vset'.next)
  BY <1>1, LaterKeeps
<1>5. vset.next <= vset'.next /\ vset'.v = vset.v /\ UNCHANGED <<phase, reader, seek>>
  BY <1>1 DEF Later
<1>6. Disk' /\ Promises' /\ OpenFiles' /\ OpenEdit'
  <2>1. /\ e.log \in Nat /\ vset.log <= e.log /\ e.log <= logfile /\ e.last \in Nat
        /\ current < vset'.next /\ logfile < vset'.next
    BY <1>2, <1>3, <1>4, <1>5
  <2> QED  BY <1>1, <1>2, <2>1, LaterLogged
<1>7. OpenUse'
  BY <1>1, <1>4, <1>5 DEF LevelDBInv, OpenOnly, OpenUse
<1> QED  BY <1>4, <1>6, <1>7 DEF LevelDBInv, OpenOnly

\* A compaction is moved at once or begun.
LEMMA StartKeeps ==
  ASSUME LevelDBInv, phase = "open", edit = None, comp = None, NEW c, NEW manual,
         Inputs(vset.v, c), StartCompaction(c, manual)
  PROVE  LevelDBInv'
<1> DEFINE p == [vset.pointers EXCEPT ![c.level] = c.pointer]
           vs == [vset EXCEPT !.pointers[c.level] = c.pointer]
           moved == CHOOSE f \in Range(c.in0) : TRUE
           entries == UNION {tables[i[2].number] : i \in InputFiles(c)}
           oldest == IF snapshots = {} THEN vset.last ELSE Min(snapshots)
           outputs == Outputs(c, entries, Kept(vset.v, c, entries, oldest))
           e == NewEdit(vs, "move", {<<c.level, moved>>}, {<<c.level + 1, moved>>},
                        [l \in {c.level} |-> c.pointer], vset.log)
<1>1. /\ vset' = vs
      /\ IF ~manual /\ IsTrivialMove(c) THEN LogAndApply(e) /\ UNCHANGED comp
         ELSE /\ comp' = [c |-> c, manual |-> manual, v |-> vset.v, done |-> <<>>, todo |-> outputs]
              /\ UNCHANGED <<edit, manifests>>
      /\ UNCHANGED <<logs, tables, current, phase, mem, imm, logfile, seek, writer,
                     snapshots, reader, bgError, history, doubt>>
  BY DEF StartCompaction
<1>2. /\ VersionSetType /\ vset.next \in Nat /\ vset.log \in Nat /\ vset.last \in Nat
      /\ (\A x \in DOMAIN tables \cup DOMAIN logs : x < vset.next)
      /\ logfile \in DOMAIN logs /\ logfile \in Nat /\ vset.log <= logfile
      /\ IsTables(tables) /\ current \in Nat /\ current < vset.next
      /\ GoodVersion(vset.v, tables, vset.next)
  BY OpenFacts
<1>0. /\ c.level \in Levels /\ c.level + 1 \in Levels
      /\ c.in0 \in Seq(Range(vset.v[c.level])) /\ c.in1 \in Seq(Range(vset.v[c.level + 1]))
  BY LevelsAre DEF Inputs
<1>3. vs = [vset EXCEPT !.pointers = p]
  BY <1>2 DEF VersionSetType
<1>4. vs.next = vset.next /\ vs.v = vset.v /\ vs.log = vset.log /\ vs.manifest = vset.manifest
      /\ vs.last = vset.last /\ VersionSetType'
  <2> HIDE DEF vs, p
  <2> QED  BY <1>1, <1>2, <1>3 DEF VersionSetType
<1> HIDE DEF vs
<1>5. Later
  <2>1. Agrees(tables, tables, vset.next)
    BY DEF Agrees
  <2>2. \A x \in DOMAIN tables : x < vset.next
    BY <1>2
  <2> QED  BY <1>1, <1>2, <1>4, <2>1, <2>2 DEF Later
<1>6. /\ Batches' /\ Stopped' /\ Saving' /\ OpenMem' /\ OpenBatches'
  BY <1>5, LaterKeeps
<1>7. CASE ~manual /\ IsTrivialMove(c)
  <2>1. /\ e.log = vset.log /\ e.next = vset.next /\ e.last = vset.last
        /\ e.added = {<<c.level + 1, moved>>} /\ e # None
    <3> DEFINE deleted == {<<c.level, moved>>}
               added == {<<c.level + 1, moved>>}
               ps == [l \in {c.level} |-> c.pointer]
    <3>1. e = [kind |-> "move", deleted |-> deleted, added |-> added, pointers |-> ps,
               log |-> vset.log, next |-> vs.next, last |-> vs.last]
      BY DEF NewEdit
    <3> HIDE DEF e, deleted, added, ps
    <3>2. e.log = vset.log /\ e.next = vset.next /\ e.last = vset.last /\ e.added = added
      BY <1>4, <3>1
    <3>3. "kind" \in DOMAIN e /\ "kind" \notin DOMAIN None
      BY <3>1 DEF None
    <3> QED  BY <3>2, <3>3 DEF added
  <2>2. moved \in Range(c.in0)
    <3>1. Len(c.in0) = 1
      BY <1>7 DEF IsTrivialMove
    <3>2. c.in0[1] \in Range(c.in0)
      BY <3>1 DEF Range
    <3> QED  BY <3>2
  <2> HIDE DEF e, moved
  <2>3. GoodFile(moved, tables, vset.next)
    <3>1. Range(c.in0) \subseteq Range(vset.v[c.level])
      BY <1>0, SeqOver
    <3> QED  BY <1>0, <1>2, <2>2, <3>1 DEF GoodVersion, GoodFiles
  <2>4. GoodEdit(e, tables', vset'.next)
    <3> SUFFICES ASSUME NEW l \in Levels, NEW g \in AddedAt(e, l)
                 PROVE  GoodFile(g, tables', vset'.next)
      BY DEF GoodEdit, GoodFiles
    <3>1. g = moved
      BY <2>1 DEF AddedAt
    <3> QED  BY <1>1, <1>4, <2>3, <3>1
  <2>5. LogAndApply(e) /\ UNCHANGED comp
    BY <1>1, <1>7
  <2>6. \A x \in DOMAIN logs : x < vset.next
    BY <1>2
  <2>7. Disk' /\ Promises' /\ OpenFiles' /\ OpenEdit'
    <3>1. /\ e.log \in Nat /\ vset.log <= e.log /\ e.log <= logfile /\ e.next = vset'.next
          /\ e.last \in Nat /\ current < vset'.next /\ logfile < vset'.next
      BY <1>1, <1>2, <1>4, <2>1, <2>6
    <3> QED  BY <1>5, <2>1, <2>4, <2>5, <3>1, LaterLogged
  <2>8. OpenUse'
    BY <1>1, <1>4, <2>5 DEF LevelDBInv, OpenOnly, OpenUse
  <2> QED  BY <1>6, <2>7, <2>8 DEF LevelDBInv, OpenOnly
<1>8. CASE ~(~manual /\ IsTrivialMove(c))
  <2>1. /\ comp' = [c |-> c, manual |-> manual, v |-> vset.v, done |-> <<>>, todo |-> outputs]
        /\ UNCHANGED <<edit, manifests>>
    BY <1>1, <1>8
  <2>2. Disk' /\ Promises' /\ OpenFiles' /\ OpenEdit'
    BY <1>5, <2>1, LaterSame
  <2>3. entries \in Table
    <3>1. \A f \in Range(c.in0) \cup Range(c.in1) : GoodFile(f, tables, vset.next)
      <4>1. Range(c.in0) \subseteq Range(vset.v[c.level])
            /\ Range(c.in1) \subseteq Range(vset.v[c.level + 1])
        BY <1>0, SeqOver
      <4> QED  BY <1>0, <1>2, <4>1 DEF GoodVersion, GoodFiles
    <3> DEFINE I == InputFiles(c)
               part == [i \in I |-> tables[i[2].number]]
    <3>2. entries = UNION {part[i] : i \in I}
      OBVIOUS
    <3>3. IsFiniteSet(I)
      <4>1. IsFiniteSet(Range(c.in0)) /\ IsFiniteSet(Range(c.in1))
        BY <1>0, SeqOver
      <4> DEFINE f0 == [f \in Range(c.in0) |-> <<c.level, f>>]
                 f1 == [f \in Range(c.in1) |-> <<c.level + 1, f>>]
      <4>2. I = {f0[f] : f \in Range(c.in0)} \cup {f1[f] : f \in Range(c.in1)}
        BY DEF InputFiles
      <4> HIDE DEF f0, f1, I
      <4>3. IsFiniteSet({f0[f] : f \in Range(c.in0)}) /\ IsFiniteSet({f1[f] : f \in Range(c.in1)})
        BY <4>1, ImageIsFinite
      <4> QED  BY <4>2, <4>3, FS_Union
    <3>4. ASSUME NEW i \in I PROVE part[i] \in Table
      <4>1. i[2] \in Range(c.in0) \cup Range(c.in1)
        BY DEF InputFiles
      <4>2. i[2].number \in DOMAIN tables
        BY <3>1, <4>1 DEF GoodFile
      <4> QED  BY <1>2, <4>2 DEF IsTables, IsContents, Table
    <3> HIDE DEF I, part
    <3>5. IsFiniteSet({part[i] : i \in I})
      BY <3>3, ImageIsFinite
    <3>6. IsFiniteSet(UNION {part[i] : i \in I})
      BY <3>4, <3>5, FS_UNION DEF Table
    <3>7. UNION {part[i] : i \in I} \subseteq IKey
      BY <3>4 DEF Table
    <3> HIDE DEF entries
    <3> QED  BY <3>2, <3>6, <3>7 DEF Table
  <2> DEFINE kept == Kept(vset.v, c, entries, oldest)
  <2>4. kept \subseteq entries
    BY DEF Kept
  <2> HIDE DEF entries, oldest
  <2>5. outputs \in Seq(Table \ {{}})
    <3> HIDE DEF kept
    <3>1. IsFiniteSet(entries) /\ entries \subseteq IKey
      BY <2>3 DEF Table
    <3>2. outputs \in Seq((SUBSET kept) \ {{}})
      BY <2>4, <3>1, OutputsAre DEF kept
    <3>3. (SUBSET kept) \ {{}} \subseteq Table \ {{}}
      <4> SUFFICES ASSUME NEW S \in (SUBSET kept) \ {{}} PROVE S \in Table
        OBVIOUS
      <4>1. S \subseteq entries
        BY <2>4
      <4>2. IsFiniteSet(S)
        BY <3>1, <4>1, FS_Subset
      <4> QED  BY <3>1, <4>1, <4>2 DEF Table
    <3> HIDE DEF outputs
    <3> QED  BY <3>2, <3>3, SeqOfMore
  <2> HIDE DEF kept, outputs
  <2>6. OpenUse'
    <3>1. comp' \in [c : {comp'.c}, manual : {comp'.manual}, v : {comp'.v},
                     done : Seq(Range(comp'.done)), todo : Seq(Table \ {{}})]
      <4>1. /\ comp'.done = <<>> /\ comp'.c = c /\ comp'.v = vset.v /\ comp'.todo = outputs
            /\ comp'.manual = manual
        BY <2>1
      <4>2. <<>> \in Seq(Range(<<>>))
        OBVIOUS
      <4> QED  BY <2>1, <2>5, <4>1, <4>2
    <3>2. GoodFiles(Range(comp'.done), tables', vset'.next)
      <4>1. Range(comp'.done) = {}
        BY <2>1 DEF Range
      <4> QED  BY <4>1 DEF GoodFiles
    <3> QED  BY <1>1, <1>4, <3>1, <3>2 DEF LevelDBInv, OpenOnly, OpenUse
  <2> QED  BY <1>6, <2>2, <2>6 DEF LevelDBInv, OpenOnly
<1> QED  BY <1>7, <1>8

\* A compaction the tree asks for.
LEMMA PickedKeeps ==
  ASSUME LevelDBInv, PickedCompaction
  PROVE  LevelDBInv'
<1> DEFINE c == PickCompaction(vset.v, vset.pointers, seek)
<1>1. /\ phase = "open" /\ edit = None /\ comp = None
      /\ SizeCompaction(vset.v) \/ seek # None
      /\ StartCompaction(c, FALSE)
  BY DEF PickedCompaction, MayWork
<1>2. IsTables(tables) /\ GoodVersion(vset.v, tables, vset.next) /\ vset.next \in Nat
  BY <1>1, OpenFacts
<1>3. \/ SizeCompaction(vset.v)
      \/ seek.level \in 0 .. NumLevels - 2 /\ seek.file \in Range(vset.v[seek.level])
  BY <1>1 DEF LevelDBInv, OpenOnly, OpenUse
<1>4. Inputs(vset.v, c)
  BY <1>2, <1>3, PickedInside
<1> HIDE DEF c
<1> QED  BY <1>1, <1>4, StartKeeps

\* A compaction on request.
LEMMA ManualKeeps ==
  ASSUME LevelDBInv, ManualCompaction
  PROVE  LevelDBInv'
<1>1. phase = "open" /\ edit = None /\ comp = None
  BY DEF ManualCompaction, MayWork
<1>2. PICK r \in ManualRanges :
        /\ CompactRange(vset.v, r.level, r.begin, r.end) # None
        /\ StartCompaction(CompactRange(vset.v, r.level, r.begin, r.end), TRUE)
  BY DEF ManualCompaction
<1> DEFINE c == CompactRange(vset.v, r.level, r.begin, r.end)
<1>3. IsTables(tables) /\ GoodVersion(vset.v, tables, vset.next) /\ vset.next \in Nat
  BY <1>1, OpenFacts
<1>4. r.level \in 0 .. NumLevels - 2
  BY RangesAssumption
<1>5. Inputs(vset.v, c)
  BY <1>2, <1>3, <1>4, RangeInside
<1>6. StartCompaction(c, TRUE)
  BY <1>2
<1> HIDE DEF c
<1> QED  BY <1>1, <1>5, <1>6, StartKeeps

\* The next output of a compaction.
LEMMA WriteOutputKeeps ==
  ASSUME LevelDBInv, WriteOutput
  PROVE  LevelDBInv'
<1> DEFINE n == vset.next
           S == Head(comp.todo)
           f == FileOf(n, S)
           vs == [vset EXCEPT !.next = @ + 1]
           rest == Tail(comp.todo)
           made == Append(comp.done, f)
<1>1. /\ phase = "open" /\ edit = None /\ comp # None /\ comp.todo # <<>>
      /\ vset' = vs /\ tables' = Put(tables, n, S)
      /\ comp' = [comp EXCEPT !.todo = rest, !.done = made]
      /\ UNCHANGED <<logs, manifests, current, phase, mem, imm, logfile, seek, edit,
                     writer, snapshots, reader, bgError, history, doubt, events>>
  BY DEF WriteOutput, MayWork
<1>2. /\ VersionSetType /\ n \in Nat /\ vset.log \in Nat /\ vset.last \in Nat
      /\ (\A x \in DOMAIN tables \cup DOMAIN logs : x < n)
      /\ IsTables(tables)
  BY <1>1, OpenFacts
<1>3. /\ comp \in [c : {comp.c}, manual : {comp.manual}, v : {comp.v},
                   done : Seq(Range(comp.done)), todo : Seq(Table \ {{}})]
      /\ GoodFiles(Range(comp.done), tables, n)
  BY <1>1 DEF LevelDBInv, OpenOnly, OpenUse
<1>4. S \in Table \ {{}} /\ rest \in Seq(Table \ {{}})
  <2> DEFINE X == Table \ {{}}
  <2>1. comp.todo \in Seq(X) /\ comp.todo # <<>>
    BY <1>1, <1>3
  <2> HIDE DEF X
  <2>2. S \in X /\ rest \in Seq(X)
    BY <2>1
  <2> QED  BY <2>2 DEF X
<1>5. /\ vs.next = n + 1 /\ vs.v = vset.v /\ vs.log = vset.log /\ vs.manifest = vset.manifest
      /\ vs.last = vset.last /\ VersionSetType'
  BY <1>1, <1>2 DEF VersionSetType
<1> HIDE DEF vs, S, rest
<1>6. /\ IsTables(tables') /\ DOMAIN tables' = DOMAIN tables \cup {n}
      /\ Agrees(tables, tables', n) /\ GoodFile(f, tables', n + 1)
  BY <1>1, <1>2, <1>4, PutTable
<1> HIDE DEF f, n
<1>7. \A x \in DOMAIN tables' : x < n + 1
  <2>1. \A x \in DOMAIN tables : x \in Nat /\ x < n
    BY <1>2 DEF IsTables
  <2> QED  BY <1>2, <1>6, <2>1
<1>8. vset' = vs /\ vset'.next = n + 1
  BY <1>1, <1>5
<1>9. Later
  <2>1. vset.next <= vset'.next
    BY <1>2, <1>8 DEF n
  <2> QED  BY <1>1, <1>5, <1>6, <1>7, <1>8, <2>1 DEF Later, n
<1>10. Disk' /\ Promises' /\ OpenFiles' /\ OpenEdit'
  BY <1>1, <1>9, LaterSame
<1>11. /\ Batches' /\ Stopped' /\ Saving' /\ OpenMem' /\ OpenBatches'
       /\ \A v : GoodVersion(v, tables, vset.next) => GoodVersion(v, tables', vset'.next)
       /\ \A F : GoodFiles(F, tables, vset.next) => GoodFiles(F, tables', vset'.next)
  BY <1>9, LaterKeeps
<1>12. /\ IsSeq(made) /\ Len(made) = Len(comp.done) + 1 /\ Len(comp.done) \in Nat
       /\ \A i \in 1 .. Len(comp.done) : made[i] = comp.done[i]
       /\ made[Len(comp.done) + 1] = f
  <2>1. IsSeq(comp.done)
    BY <1>3 DEF IsSeq
  <2> QED  BY <2>1, AppendedSeq
<1> HIDE DEF made
<1>13. Range(made) \subseteq Range(comp.done) \cup {f}
  <2> SUFFICES ASSUME NEW i \in 1 .. Len(made) PROVE made[i] \in Range(comp.done) \cup {f}
    BY <1>12, SMTT(30) DEF IsSeq, Range
  <2>1. CASE i \in 1 .. Len(comp.done)
    <3>1. comp.done[i] \in Range(comp.done)
      BY <1>3, <2>1 DEF Range
    <3> QED  BY <1>12, <2>1, <3>1
  <2>2. CASE i = Len(comp.done) + 1
    BY <1>12, <2>2
  <2> QED  BY <1>12, <2>1, <2>2
<1>14. OpenUse'
  <2>1. comp'.done = made /\ comp'.todo = rest /\ comp'.c = comp.c /\ comp'.v = comp.v
        /\ comp'.manual = comp.manual
        /\ comp' \in [c : {comp.c}, manual : {comp.manual}, v : {comp.v}, done : {made},
                     todo : {rest}]
    BY <1>1, <1>3
  <2>2. comp' \in [c : {comp'.c}, manual : {comp'.manual}, v : {comp'.v},
                   done : Seq(Range(comp'.done)), todo : Seq(Table \ {{}})]
    BY <1>4, <1>12, <2>1 DEF IsSeq
  <2>3. GoodFiles(Range(comp'.done), tables', vset'.next)
    <3>1. GoodFiles(Range(comp.done), tables', vset'.next)
      BY <1>3, <1>11 DEF n
    <3> QED  BY <1>6, <1>8, <1>13, <2>1, <3>1 DEF GoodFiles
  <2> QED  BY <1>1, <1>5, <1>8, <1>11, <2>2, <2>3 DEF LevelDBInv, OpenOnly, OpenUse
<1> QED  BY <1>10, <1>11, <1>14 DEF LevelDBInv, OpenOnly

\* The edit of a compaction that is done.
LEMMA ResultsKeep ==
  ASSUME LevelDBInv, InstallCompactionResults
  PROVE  LevelDBInv'
<1> DEFINE deleted == InputFiles(comp.c)
           added == {<<comp.c.level + 1, f>> : f \in Range(comp.done)}
           ps == [l \in {comp.c.level} |-> comp.c.pointer]
           e == NewEdit(vset, "compaction", deleted, added, ps, vset.log)
<1>1. /\ phase = "open" /\ edit = None /\ comp # None
      /\ LogAndApply(e)
      /\ UNCHANGED <<logs, tables, current, phase, mem, imm, logfile, vset, seek, comp,
                     writer, snapshots, reader, bgError, history, doubt, events>>
  BY DEF InstallCompactionResults, MayWork
<1>2. /\ VersionSetType /\ vset.next \in Nat /\ vset.log \in Nat /\ vset.last \in Nat
      /\ (\A x \in DOMAIN tables \cup DOMAIN logs : x < vset.next)
      /\ logfile \in DOMAIN logs /\ logfile \in Nat /\ vset.log <= logfile
      /\ IsTables(tables) /\ current \in Nat /\ current < vset.next
  BY <1>1, OpenFacts
<1>3. GoodFiles(Range(comp.done), tables, vset.next)
  BY <1>1 DEF LevelDBInv, OpenOnly, OpenUse
<1> HIDE DEF deleted, ps
<1>4. GoodEdit(e, tables, vset.next)
  <2> SUFFICES ASSUME NEW l \in Levels, NEW g \in AddedAt(e, l)
               PROVE  GoodFile(g, tables, vset.next)
    BY DEF GoodEdit, GoodFiles
  <2>1. e.added = added
    BY DEF NewEdit
  <2>2. PICK a \in added : a[2] = g
    BY <2>1 DEF AddedAt
  <2>3. g \in Range(comp.done)
    <3> DEFINE k == comp.c.level + 1
    <3>1. PICK f \in Range(comp.done) : a = <<k, f>>
      BY <2>2
    <3> HIDE DEF k
    <3> QED  BY <2>2, <3>1
  <2> QED  BY <1>3, <2>3 DEF GoodFiles
<1> HIDE DEF added
<1>5. e.log = vset.log /\ e.next = vset.next /\ e.last = vset.last /\ e # None
  <2>1. e = [kind |-> "compaction", deleted |-> deleted, added |-> added, pointers |-> ps,
             log |-> vset.log, next |-> vset.next, last |-> vset.last]
    BY DEF NewEdit
  <2>2. "kind" \in DOMAIN e /\ "kind" \notin DOMAIN None
    BY <2>1 DEF None
  <2> QED  BY <2>1, <2>2
<1> HIDE DEF e
<1>6. Later
  <2>1. Agrees(tables, tables, vset.next)
    BY DEF Agrees
  <2>2. VersionSetType'
    BY <1>1, <1>2 DEF VersionSetType
  <2> QED  BY <1>1, <1>2, <2>1, <2>2 DEF Later
<1>7. Disk' /\ Promises' /\ OpenFiles' /\ OpenEdit'
  <2>1. /\ e.log \in Nat /\ vset.log <= e.log /\ e.log <= logfile /\ e.next = vset'.next
        /\ e.last \in Nat /\ current < vset'.next /\ logfile < vset'.next
    BY <1>1, <1>2, <1>5
  <2>2. GoodEdit(e, tables', vset'.next)
    BY <1>1, <1>4
  <2> QED  BY <1>1, <1>5, <1>6, <2>1, <2>2, LaterLogged
<1>8. Batches' /\ Stopped' /\ Saving' /\ OpenMem' /\ OpenBatches'
  BY <1>6, LaterKeeps
<1>9. OpenUse'
  BY <1>1, OpenUseStays DEF LevelDBInv, OpenOnly
<1> QED  BY <1>7, <1>8, <1>9 DEF LevelDBInv, OpenOnly

\* A table that could not be written.
LEMMA WorkFailsKeeps ==
  ASSUME LevelDBInv, WorkFails
  PROVE  LevelDBInv'
<1>1. /\ phase = "open" /\ edit = None /\ comp' \in {comp, None} /\ bgError' = TRUE
      /\ UNCHANGED <<logs, tables, manifests, current, phase, mem, imm, logfile, vset,
                     seek, edit, writer, snapshots, reader, history, doubt>>
  BY DEF WorkFails, MayWork
<1>2. Disk' /\ Promises' /\ OpenFiles' /\ OpenMem' /\ OpenBatches'
  BY <1>1, DiskStays, PromisesStay, OpenFilesStay, OpenMemStays, OpenBatchesStay DEF LevelDBInv, OpenOnly
<1>3. Stopped' /\ Saving'
  BY <1>1, StaysOpen DEF LevelDBInv, Stopped
<1>4. Batches'
  BY <1>1 DEF LevelDBInv, Batches
<1>5. OpenEdit'
  BY <1>1 DEF OpenEdit
<1>6. OpenUse'
  BY <1>1 DEF LevelDBInv, OpenOnly, OpenUse
<1> QED  BY <1>2, <1>3, <1>4, <1>5, <1>6 DEF LevelDBInv, OpenOnly

\* Deleting the logs before a number loses no later batch.
LEMMA KeepLogs ==
  ASSUME NEW ls, IsLogs(ls), NEW n \in Nat, NEW kept,
         kept = Keep(ls, {x \in DOMAIN ls : x >= n})
  PROVE  /\ IsLogs(kept) /\ DOMAIN kept = {x \in DOMAIN ls : x >= n}
         /\ \A b : b.log \in Nat /\ ~(b.log < n) =>
              /\ InLog(ls, b) => InLog(kept, b)
              /\ SyncedInLog(ls, b) => SyncedInLog(kept, b)
         /\ \A b : b.log \in Nat /\ KeptFor(ls, b, n) => KeptFor(kept, b, n)
<1>1. /\ DOMAIN kept = {x \in DOMAIN ls : x >= n} /\ kept = [x \in DOMAIN kept |-> kept[x]]
      /\ \A x \in DOMAIN kept : kept[x] = ls[x]
  BY DEF Keep
<1>2. IsFiniteSet(DOMAIN kept)
  BY <1>1, FS_Subset DEF IsLogs
<1>3. IsLogs(kept)
  BY <1>1, <1>2 DEF IsLogs
<1>4. ASSUME NEW b, b.log \in Nat, ~(b.log < n)
      PROVE  /\ InLog(ls, b) => InLog(kept, b)
             /\ SyncedInLog(ls, b) => SyncedInLog(kept, b)
  BY <1>1, <1>4 DEF InLog, SyncedInLog
<1> QED  BY <1>1, <1>3, <1>4 DEF KeptFor

\* A synchronised manifest has one way to be read.
LEMMA SyncedManifest ==
  ASSUME NEW f, NEW cur, NEW tb, Records(f, cur, tb), NEW g, g = SyncFile(f)
  PROVE  /\ Records(g, cur, tb) /\ g.recs = f.recs /\ g.synced = Len(f.recs)
         /\ Durable(g) = {Len(f.recs)} /\ Len(f.recs) \in Durable(f)
         /\ IsSeq(f.recs) /\ Len(f.recs) \in Nat \ {0} /\ f.synced \in 1 .. Len(f.recs)
<1> DEFINE N == Len(f.recs)
<1>1. IsFile(f) /\ IsSeq(f.recs) /\ f.synced \in 1 .. N /\ N \in Nat \ {0}
  BY DEF Records, IsFile, IsSeq
<1>2. N \in Durable(f) /\ N \in f.synced .. N
  BY <1>1 DEF Durable
<1>3. g = [f EXCEPT !.synced = N]
  BY DEF SyncFile
<1> HIDE DEF N
<1>4. g.recs = f.recs /\ g.synced = N /\ g \in [recs : {g.recs}, synced : {g.synced}]
  BY <1>1, <1>3 DEF IsFile
<1>5. SubSeq(f.recs, 1, N) = f.recs
  BY <1>1, WholePrefix DEF N
<1>6. Records(g, cur, tb)
  BY <1>2, <1>4, <1>5, RecordsOfPart
<1>7. Durable(g) = {N}
  BY <1>1, <1>4 DEF Durable, N
<1> QED  BY <1>1, <1>2, <1>4, <1>6, <1>7 DEF N

\* Only the version of the whole manifest is needed.
LEMMA RecordsAtEnd ==
  ASSUME NEW f, NEW cur, NEW tb, Records(f, cur, tb), Durable(f) = {Len(f.recs)},
         NEW less, GoodVersion(VersionOf(f.recs), less, f.recs[Len(f.recs)].next)
  PROVE  Records(f, cur, less)
<1>1. IsSeq(f.recs)
  BY DEF Records, IsFile, IsSeq
<1>2. SubSeq(f.recs, 1, Len(f.recs)) = f.recs
  BY <1>1, WholePrefix
<1> QED  BY <1>2 DEF Records

\* The edit is on the disk: its version is installed, and what neither a
\* version, an output nor a log number in use names is deleted.
LEMMA InstallKeeps ==
  ASSUME LevelDBInv, Install
  PROVE  LevelDBInv'
<1> DEFINE N == Len(Manifest.recs)
           g == SyncFile(Manifest)
           mine == IF edit.kind = "compaction" THEN None ELSE comp
           inUse == {Installed.v} \cup Pinned \cup IF mine = None THEN {} ELSE {mine.v}
           live == OutputsOf(mine) \cup UNION {{f.number : f \in FilesOf(v)} : v \in inUse}
           less == {n \in DOMAIN logs : n >= edit.log}
<1>1. /\ phase = "open" /\ edit # None
      /\ vset' = Installed /\ edit' = None /\ seek' = None
      /\ imm' \in {None, imm} /\ comp' = mine
      /\ UNCHANGED <<current, phase, mem, logfile, writer, snapshots, reader,
                     bgError, history, doubt, events>>
      /\ IF edit.kind = "move" \/ bgError
         THEN /\ manifests' = [manifests EXCEPT ![vset.manifest] = SyncFile(@)]
              /\ UNCHANGED <<logs, tables>>
         ELSE DeleteObsoleteFiles(Installed, inUse, OutputsOf(mine))
  BY DEF Install
<1>2. /\ VersionSetType /\ vset.next \in Nat /\ vset.log \in Nat /\ vset.last \in Nat
      /\ vset.manifest = current /\ (\A n \in DOMAIN tables \cup DOMAIN logs : n < vset.next)
      /\ logfile \in DOMAIN logs /\ logfile \in Nat /\ vset.log <= logfile
      /\ GoodVersion(vset.v, tables, vset.next)
      /\ IsLogs(logs) /\ IsTables(tables) /\ Records(Manifest, current, tables)
      /\ current \in DOMAIN manifests /\ current \in Nat
  BY <1>1, OpenFacts
<1>3. \A n \in Durable(Manifest) : /\ vset.log <= Manifest.recs[n].log
                                   /\ Manifest.recs[n].log <= logfile
                                   /\ Manifest.recs[n].next <= vset.next
                                   /\ Manifest.recs[n].log \in Nat
                                   /\ Manifest.recs[n].next \in Nat
  BY <1>1, OpenFacts
<1>4. /\ Records(g, current, tables) /\ g.recs = Manifest.recs /\ g.synced = N
      /\ Durable(g) = {N} /\ N \in Durable(Manifest)
      /\ IsSeq(Manifest.recs) /\ N \in Nat \ {0}
  BY <1>2, SyncedManifest
<1>5. /\ Manifest.recs[N] = edit
      /\ bgError = FALSE => VersionOf(SubSeq(Manifest.recs, 1, N - 1)) = vset.v
      /\ GoodEdit(edit, tables, vset.next)
  BY <1>1 DEF LevelDBInv, OpenOnly, OpenEdit
<1>6. /\ edit.log \in Nat /\ vset.log <= edit.log /\ edit.log <= logfile
      /\ edit.next \in Nat /\ edit.next <= vset.next
  BY <1>3, <1>4, <1>5
<1>7. bgError = FALSE => VersionOf(Manifest.recs) = Installed.v
  <2>1. VersionOf(Manifest.recs) = SaveTo(VersionOf(SubSeq(Manifest.recs, 1, N - 1)), edit)
    BY <1>4, <1>5, VersionStep
  <2>2. Installed.v = SaveTo(vset.v, edit)
    BY <1>2 DEF Installed, VersionSetType
  <2> QED  BY <1>5, <2>1, <2>2
<1>8. /\ Installed.v = SaveTo(vset.v, edit) /\ Installed.log = edit.log
      /\ Installed.next = vset.next /\ Installed.manifest = current
      /\ VersionSetType'
  BY <1>1, <1>2, <1>6 DEF Installed, VersionSetType
<1>9. GoodVersion(Installed.v, tables, vset.next)
  <2>1. \A l \in Levels : GoodFiles(Range(vset.v[l]), tables, vset.next)
    BY <1>2 DEF GoodVersion
  <2>2. GoodVersion(SaveTo(vset.v, edit), tables, vset.next)
    BY <1>2, <1>5, <2>1, SaveToIs
  <2> QED  BY <1>8, <2>2
<1> HIDE DEF g, N
\* What is deleted.
<1>10. /\ manifests' = [n \in DOMAIN manifests' |-> manifests'[n]]
       /\ DOMAIN manifests' \subseteq Nat /\ current \in DOMAIN manifests'
       /\ Manifest' = g
  <2>0. /\ manifests = [n \in DOMAIN manifests |-> manifests[n]] /\ DOMAIN manifests \subseteq Nat
        /\ current' = current
    BY <1>1 DEF LevelDBInv, Disk
  <2>1. CASE edit.kind = "move" \/ bgError
    <3>1. manifests' = [manifests EXCEPT ![current] = g]
      BY <1>1, <1>2, <2>1 DEF g, Manifest
    <3> QED  BY <1>2, <2>0, <3>1 DEF Manifest
  <2>2. CASE ~(edit.kind = "move" \/ bgError)
    <3>1. manifests' = [n \in {m \in DOMAIN manifests : m >= current} |->
                          IF n = current THEN g ELSE manifests[n]]
      BY <1>1, <1>8, <2>2 DEF DeleteObsoleteFiles, g, Manifest
    <3>2. current \in {m \in DOMAIN manifests : m >= current}
      BY <1>2
    <3> QED  BY <2>0, <3>1, <3>2 DEF Manifest
  <2> QED  BY <2>1, <2>2
<1>11. /\ IsLogs(logs') /\ DOMAIN logs' \subseteq DOMAIN logs
       /\ logfile \in DOMAIN logs'
       /\ \A b : b.log \in Nat /\ ~(b.log < edit.log) => (InLog(logs, b) => InLog(logs', b))
       /\ \A b : b.log \in Nat /\ KeptFor(logs, b, edit.log) => KeptFor(logs', b, edit.log)
  <2>1. CASE UNCHANGED logs
    BY <1>2, <2>1
  <2>2. CASE logs' = Keep(logs, less)
    <3> HIDE DEF less
    <3>1. /\ IsLogs(logs') /\ DOMAIN logs' = less
          /\ \A b : b.log \in Nat /\ ~(b.log < edit.log) => (InLog(logs, b) => InLog(logs', b))
          /\ \A b : b.log \in Nat /\ KeptFor(logs, b, edit.log) => KeptFor(logs', b, edit.log)
      BY <1>2, <1>6, <2>2, KeepLogs DEF less
    <3>2. logfile \in less /\ less \subseteq DOMAIN logs
      BY <1>2, <1>6 DEF less
    <3> QED  BY <3>1, <3>2
  <2>3. UNCHANGED logs \/ logs' = Keep(logs, less)
    BY <1>1, <1>8 DEF DeleteObsoleteFiles
  <2> QED  BY <2>1, <2>2, <2>3
<1>12. /\ IsTables(tables') /\ DOMAIN tables' \subseteq DOMAIN tables
       /\ \A n, v : GoodVersion(v, tables, n) /\ v \in inUse /\ n \in Nat
                      => GoodVersion(v, tables', n)
       /\ mine # None /\ GoodFiles(Range(mine.done), tables, vset.next)
            => GoodFiles(Range(mine.done), tables', vset.next)
       /\ bgError # FALSE => UNCHANGED tables
  <2>1. CASE UNCHANGED tables
    BY <1>2, <2>1
  <2>2. CASE bgError = FALSE /\ tables' = Keep(tables, live)
    <3>1. \A v \in inUse : {f.number : f \in FilesOf(v)} \subseteq live
      <4> HIDE DEF inUse
      <4> QED  OBVIOUS
    <3>2. mine # None => {f.number : f \in Range(mine.done)} \subseteq live
      <4> HIDE DEF inUse, mine
      <4> QED  BY DEF OutputsOf
    <3>3. DOMAIN Keep(tables, live) \subseteq DOMAIN tables
      <4> HIDE DEF live
      <4> QED  BY DEF Keep
    <3> HIDE DEF live, inUse, mine
    <3>4. /\ IsTables(tables')
          /\ \A n, v : GoodVersion(v, tables, n) /\ {f.number : f \in FilesOf(v)} \subseteq live /\ n \in Nat
                         => GoodVersion(v, tables', n)
          /\ \A n, F : GoodFiles(F, tables, n) /\ {f.number : f \in F} \subseteq live
                         => GoodFiles(F, tables', n)
      BY <1>2, <2>2, KeepTables
    <3> QED  BY <2>2, <3>1, <3>2, <3>3, <3>4
  <2>3. UNCHANGED tables \/ (bgError = FALSE /\ tables' = Keep(tables, live))
    <3> HIDE DEF inUse, mine
    <3>1. bgError \in BOOLEAN
      BY DEF LevelDBInv, Stopped
    <3> QED  BY <1>1, <3>1 DEF DeleteObsoleteFiles
  <2> QED  BY <2>1, <2>2, <2>3
<1>13. /\ Installed.v \in inUse /\ (reader # None => reader.v \in inUse)
  BY DEF Pinned
<1> HIDE DEF inUse, live, less
\* The invariant afterwards.
<1>14. Records(g, current, tables')
  <2>1. CASE bgError = FALSE
    <3>1. GoodVersion(VersionOf(SubSeq(g.recs, 1, N)), tables, g.recs[N].next)
          /\ g.recs[N].next \in Nat
      BY <1>4 DEF Records
    <3>2. SubSeq(g.recs, 1, N) = g.recs
      BY <1>4, WholePrefix DEF N
    <3>3. GoodVersion(VersionOf(g.recs), tables', g.recs[N].next)
      BY <1>4, <1>7, <1>12, <1>13, <2>1, <3>1, <3>2
    <3>4. N = Len(g.recs)
      BY <1>4 DEF N
    <3> QED  BY <1>4, <3>3, <3>4, RecordsAtEnd
  <2>2. CASE bgError # FALSE
    BY <1>4, <1>12, <2>2
  <2> QED  BY <2>1, <2>2
<1>15. Disk'
  BY <1>1, <1>10, <1>11, <1>12, <1>14 DEF Disk
<1>16. /\ \A i \in 1 .. Len(history) : history[i].log \in Nat
       /\ \A i \in 1 .. Len(doubt) : doubt[i].log \in Nat
  BY BatchLogs DEF LevelDBInv
<1>17. \A i \in 1 .. Len(history) : KeptFor(logs', history[i], edit.log)
  <2> SUFFICES ASSUME NEW i \in 1 .. Len(history) PROVE KeptFor(logs', history[i], edit.log)
    OBVIOUS
  <2>1. KeptFor(logs, history[i], edit.log)
    BY <1>4, <1>5 DEF LevelDBInv, Promises
  <2> QED  BY <1>11, <1>16, <2>1
<1>18. Promises'
  BY <1>1, <1>4, <1>5, <1>10, <1>17 DEF Promises
<1>19. Batches'
  BY <1>1 DEF LevelDBInv, Batches
<1>20. Stopped' /\ Saving'
  BY <1>1, StaysOpen DEF LevelDBInv, Stopped
<1>21. OpenFiles'
  <2>1. GoodVersion(Installed.v, tables', vset.next)
    BY <1>2, <1>9, <1>12, <1>13
  <2>2. \A n \in DOMAIN tables' \cup DOMAIN logs' : n < vset.next
    BY <1>2, <1>11, <1>12
  <2>3. \A n \in Durable(g) : edit.log <= g.recs[n].log /\ g.recs[n].log <= logfile
                              /\ g.recs[n].next <= vset.next
    BY <1>4, <1>5, <1>6
  <2> QED  BY <1>1, <1>6, <1>8, <1>10, <1>11, <2>1, <2>2, <2>3 DEF OpenFiles
<1>22. OpenEdit'
  BY <1>1, <1>4, <1>7, <1>10 DEF OpenEdit
<1>23. OpenUse'
  <2>1. reader # None => GoodVersion(reader.v, tables', vset.next)
    BY <1>1, <1>2, <1>12, <1>13 DEF LevelDBInv, OpenOnly, OpenUse
  <2>2. mine # None => mine = comp
    OBVIOUS
  <2> HIDE DEF mine
  <2>3. mine # None =>
         /\ mine \in [c : {mine.c}, manual : {mine.manual}, v : {mine.v},
                      done : Seq(Range(mine.done)), todo : Seq(Table \ {{}})]
         /\ GoodFiles(Range(mine.done), tables', vset.next)
    BY <1>1, <1>12, <2>2 DEF LevelDBInv, OpenOnly, OpenUse
  <2> QED  BY <1>1, <1>8, <2>1, <2>3 DEF OpenUse
<1>24. OpenMem'
  BY <1>1 DEF LevelDBInv, OpenOnly, OpenMem
<1>25. OpenBatches'
  <2>1. \A i \in 1 .. Len(history) : history[i].log <= logfile
    BY <1>1 DEF LevelDBInv, OpenOnly, OpenBatches
  <2>2. ASSUME NEW i \in 1 .. Len(doubt)
        PROVE  doubt[i].log <= logfile /\ (doubt[i].log < edit.log \/ InLog(logs', doubt[i]))
    <3>1. doubt[i].log <= logfile /\ (doubt[i].log < vset.log \/ InLog(logs, doubt[i]))
      BY <1>1 DEF LevelDBInv, OpenOnly, OpenBatches
    <3>2. doubt[i].log \in Nat
      BY <1>16
    <3>3. doubt[i].log < vset.log => doubt[i].log < edit.log
      BY <1>2, <1>6, <3>2
    <3> QED  BY <1>11, <3>1, <3>2, <3>3
  <2>3. writer # None => writer.log = logfile /\ InLog(logs', writer)
    <3> SUFFICES ASSUME writer # None PROVE writer.log = logfile /\ InLog(logs', writer)
      OBVIOUS
    <3>1. writer.log = logfile /\ InLog(logs, writer)
      BY <1>1 DEF LevelDBInv, OpenOnly, OpenBatches
    <3>2. ~(logfile < edit.log)
      BY <1>2, <1>6
    <3> QED  BY <1>2, <1>11, <3>1, <3>2
  <2> QED  BY <1>1, <1>8, <1>17, <2>1, <2>2, <2>3 DEF OpenBatches
<1> QED  BY <1>15, <1>18, <1>19, <1>20, <1>21, <1>22, <1>23, <1>24, <1>25 DEF LevelDBInv, OpenOnly

\* The edit may be on the disk or not, and nothing is deleted from now on.
LEMMA InstallFailsKeeps ==
  ASSUME LevelDBInv, InstallFails
  PROVE  LevelDBInv'
<1> DEFINE N == Len(Manifest.recs)
           q == Front(Manifest.recs)
<1>1. /\ phase = "open" /\ edit # None /\ edit' = None /\ bgError' = TRUE
      /\ comp' \in {comp, None}
      /\ \/ UNCHANGED manifests
         \/ manifests' = [manifests EXCEPT ![vset.manifest].recs = Front(@)]
      /\ UNCHANGED <<logs, tables, current, phase, mem, imm, logfile, vset, seek,
                     writer, snapshots, reader, history, doubt>>
  BY DEF InstallFails
<1>2. /\ VersionSetType /\ vset.manifest = current
      /\ IsLogs(logs) /\ IsTables(tables) /\ Records(Manifest, current, tables)
      /\ current \in DOMAIN manifests /\ current \in Nat
  BY <1>1, OpenFacts
<1>3. /\ Manifest.synced < N
      /\ manifests = [n \in DOMAIN manifests |-> manifests[n]] /\ DOMAIN manifests \subseteq Nat
  BY <1>1 DEF LevelDBInv, OpenOnly, OpenEdit, Disk
<1>4. IsFile(Manifest) /\ IsSeq(Manifest.recs) /\ N \in Nat /\ Manifest.synced \in 1 .. N
  BY <1>2 DEF Records, IsFile, IsSeq
<1>5. q = SubSeq(Manifest.recs, 1, N - 1)
  BY DEF Front
<1> HIDE DEF q, N
<1>6. /\ manifests' = [n \in DOMAIN manifests' |-> manifests'[n]]
      /\ DOMAIN manifests' = DOMAIN manifests
      /\ \/ Manifest' = Manifest
         \/ Manifest' = [Manifest EXCEPT !.recs = q]
  <2>1. CASE UNCHANGED manifests
    BY <1>1, <1>3, <2>1 DEF Manifest
  <2>2. CASE manifests' = [manifests EXCEPT ![vset.manifest].recs = Front(@)]
    <3> DEFINE f == [Manifest EXCEPT !.recs = q]
    <3>1. manifests' = [manifests EXCEPT ![current] = f]
      BY <1>2, <2>2 DEF Manifest, q
    <3> HIDE DEF f
    <3>2. Manifest' = f
      BY <1>1, <1>2, <3>1 DEF Manifest
    <3> QED  BY <1>3, <3>1, <3>2 DEF f
  <2> QED  BY <1>1, <2>1, <2>2
<1>7. /\ Records(Manifest', current, tables)
      /\ Durable(Manifest') \subseteq Durable(Manifest)
      /\ \A n \in Durable(Manifest') : Manifest'.recs[n] = Manifest.recs[n]
  <2>1. CASE Manifest' = Manifest
    BY <1>2, <2>1
  <2>2. CASE Manifest' = [Manifest EXCEPT !.recs = q]
    <3>1. Manifest'.recs = q /\ Manifest'.synced = Manifest.synced
          /\ Manifest' \in [recs : {Manifest'.recs}, synced : {Manifest'.synced}]
      BY <1>4, <2>2 DEF IsFile
    <3>2. N - 1 \in Durable(Manifest) /\ Manifest.synced \in Manifest.synced .. N - 1
      BY <1>3, <1>4 DEF Durable, N
    <3>3. Records(Manifest', current, tables)
      BY <1>2, <1>5, <3>1, <3>2, RecordsOfPart
    <3>4. /\ Len(Manifest'.recs) = N - 1 /\ Durable(Manifest') \subseteq Durable(Manifest)
          /\ \A i \in 1 .. N - 1 : Manifest'.recs[i] = Manifest.recs[i]
      BY <1>4, <1>5, <3>1, <3>2, PartOfFile, ZenonT(40)
    <3>5. \A n \in Durable(Manifest') : n \in 1 .. N - 1
      BY <1>4, <3>1, <3>4 DEF Durable
    <3> QED  BY <3>3, <3>4, <3>5
  <2> QED  BY <1>6, <2>1, <2>2
<1>8. Disk'
  BY <1>1, <1>2, <1>3, <1>6, <1>7 DEF Disk
<1>9. Promises'
  BY <1>1, <1>7 DEF LevelDBInv, Promises
<1>10. Batches' /\ OpenMem' /\ OpenBatches'
  BY <1>1, OpenMemStays, OpenBatchesStay DEF LevelDBInv, OpenOnly, Batches
<1>11. Stopped' /\ Saving'
  BY <1>1, StaysOpen DEF LevelDBInv, Stopped
<1>12. OpenFiles'
  BY <1>1, <1>7 DEF LevelDBInv, OpenOnly, OpenFiles, VersionSetType
<1>13. OpenEdit'
  BY <1>1 DEF OpenEdit
<1>14. OpenUse'
  BY <1>1 DEF LevelDBInv, OpenOnly, OpenUse
<1> QED  BY <1>8, <1>9, <1>10, <1>11, <1>12, <1>13, <1>14 DEF LevelDBInv, OpenOnly

AreTwo(q, s, e) == q = <<s, e>>

\* The version of a manifest of two records.
LEMMA TwoRecords ==
  ASSUME NEW s, NEW e, NEW q, AreTwo(q, s, e)
  PROVE  /\ IsSeq(q) /\ Len(q) = 2 /\ q[1] = s /\ q[2] = e
         /\ SubSeq(q, 1, 2) = q
         /\ VersionOf(q) = SaveTo(SaveTo(EmptyVersion, s), e)
<1>1. IsSeq(q) /\ Len(q) = 2 /\ q[1] = s /\ q[2] = e
  <2>1. q \in Seq({s, e})
    BY DEF AreTwo
  <2>2. IsSeq(q)
    BY <2>1, SeqOver
  <2> QED  BY <2>2 DEF AreTwo
<1>2. SubSeq(q, 1, 2) = q
  BY <1>1, WholePrefix
<1> DEFINE p == SubSeq(q, 1, 1)
<1>3. 1 \in 0 .. Len(q) /\ 0 \in 0 .. 1
  BY <1>1
<1>4. IsSeq(p) /\ Len(p) = 1 /\ p[1] = s
  <2>1. IsSeq(p) /\ Len(p) = 1 /\ \A i \in 1 .. 1 : p[i] = q[i]
    BY <1>1, <1>3, Prefix
  <2> HIDE DEF p
  <2> QED  BY <1>1, <2>1
<1>5. VersionOf(q) = SaveTo(VersionOf(p), e)
  <2>1. VersionOf(q) = SaveTo(VersionOf(SubSeq(q, 1, Len(q) - 1)), q[Len(q)])
    BY <1>1, VersionStep
  <2>2. Len(q) - 1 = 1
    BY <1>1
  <2> QED  BY <1>1, <2>1, <2>2
<1> HIDE DEF p
<1>6. VersionOf(p) = SaveTo(EmptyVersion, s)
  <2>1. VersionOf(p) = SaveTo(VersionOf(SubSeq(p, 1, Len(p) - 1)), p[Len(p)])
    BY <1>4, VersionStep
  <2>2. Len(p) - 1 = 0
    BY <1>4
  <2>3. SubSeq(p, 1, 0) = <<>>
    <3>1. 0 \in 0 .. Len(p)
      BY <1>4
    <3>2. IsSeq(SubSeq(p, 1, 0)) /\ Len(SubSeq(p, 1, 0)) = 0
      BY <1>4, <3>1, Prefix
    <3> QED  BY <3>2 DEF IsSeq
  <2> QED  BY <1>4, <2>1, <2>2, <2>3, VersionOfNone
<1> QED  BY <1>1, <1>2, <1>5, <1>6

\* The new manifest is on the disk, CURRENT names it, and what it does not
\* need is deleted.
LEMMA OpenDoneKeeps ==
  ASSUME LevelDBInv, OpenDone
  PROVE  LevelDBInv'
<1> DEFINE s == Saved.recs[1]
           q == <<s, edit>>
           g == SyncFile(Saved)
           live == UNION {{f.number : f \in FilesOf(v)} : v \in {Installed.v}}
           less == {n \in DOMAIN logs : n >= edit.log}
<1>1. /\ phase = "opening" /\ phase' = "open" /\ current' = vset.manifest
      /\ vset' = Installed /\ edit' = None
      /\ DeleteObsoleteFiles(Installed, {Installed.v}, {})
      /\ UNCHANGED <<mem, imm, logfile, seek, comp, writer, snapshots, reader,
                     bgError, history, doubt, events>>
  BY DEF OpenDone
<1>2. /\ VersionSetType /\ vset.next \in Nat /\ vset.manifest \in Nat
      /\ vset.manifest \in DOMAIN manifests /\ vset.manifest < vset.next
      /\ Saved \in [recs : {q}, synced : {0}]
      /\ SaveTo(EmptyVersion, s) = vset.v
      /\ GoodVersion(vset.v, tables, vset.next) /\ GoodEdit(edit, tables, vset.next)
      /\ edit.log = logfile /\ edit.next = vset.next /\ edit.last \in Nat
      /\ logfile \in DOMAIN logs
      /\ (\A i \in 1 .. Len(history) : history[i].log < logfile)
      /\ \A n \in DOMAIN logs : n < vset.next
  BY <1>1 DEF LevelDBInv, Saving, VersionSetType
<1>3. /\ IsLogs(logs) /\ IsTables(tables) /\ logfile \in Nat
      /\ manifests = [n \in DOMAIN manifests |-> manifests[n]] /\ DOMAIN manifests \subseteq Nat
  BY <1>2 DEF LevelDBInv, Disk, IsLogs
<1>4. /\ mem = {} /\ imm = None /\ seek = None /\ comp = None /\ writer = None
      /\ reader = None /\ bgError = FALSE /\ doubt = <<>> /\ snapshots = {}
  BY <1>1 DEF LevelDBInv, Stopped
<1>5. /\ Installed.v = SaveTo(vset.v, edit) /\ Installed.log = logfile
      /\ Installed.next = vset.next /\ Installed.manifest = vset.manifest
      /\ VersionSetType'
  BY <1>1, <1>2, <1>3 DEF Installed, VersionSetType
<1> HIDE DEF s
<1>6. /\ IsSeq(q) /\ Len(q) = 2 /\ q[2] = edit /\ SubSeq(q, 1, 2) = q
      /\ VersionOf(q) = Installed.v
  <2>1. /\ IsSeq(q) /\ Len(q) = 2 /\ q[2] = edit /\ SubSeq(q, 1, 2) = q
        /\ VersionOf(q) = SaveTo(SaveTo(EmptyVersion, s), edit)
    <3> DEFINE e == edit
               t == <<s, e>>
    <3>0. AreTwo(t, s, e)
      BY DEF AreTwo
    <3> HIDE DEF e, t
    <3>1. /\ IsSeq(t) /\ Len(t) = 2 /\ t[2] = e /\ SubSeq(t, 1, 2) = t
          /\ VersionOf(t) = SaveTo(SaveTo(EmptyVersion, s), e)
      BY <3>0, TwoRecords
    <3> QED  BY <3>1 DEF e, t
  <2> QED  BY <1>2, <1>5, <2>1
<1> HIDE DEF q
<1>7. g.recs = q /\ g.synced = 2 /\ g \in [recs : {q}, synced : {2}]
  <2>1. Saved.recs = q
    BY <1>2
  <2>2. g = [Saved EXCEPT !.synced = 2]
    BY <1>6, <2>1 DEF SyncFile
  <2> QED  BY <1>2, <2>2
<1> HIDE DEF g
<1>8. GoodVersion(Installed.v, tables, vset.next)
  <2>1. \A l \in Levels : GoodFiles(Range(vset.v[l]), tables, vset.next)
    BY <1>2 DEF GoodVersion
  <2>2. GoodVersion(SaveTo(vset.v, edit), tables, vset.next)
    BY <1>2, <1>3, <2>1, SaveToIs
  <2> QED  BY <1>5, <2>2
<1>9. /\ manifests' = [n \in DOMAIN manifests' |-> manifests'[n]]
      /\ DOMAIN manifests' \subseteq Nat /\ current' \in DOMAIN manifests'
      /\ Manifest' = g
  <2>1. manifests' = [n \in {m \in DOMAIN manifests : m >= vset.manifest} |->
                        IF n = vset.manifest THEN g ELSE manifests[n]]
    BY <1>1, <1>5 DEF DeleteObsoleteFiles, g, Saved
  <2>2. vset.manifest \in {m \in DOMAIN manifests : m >= vset.manifest}
    BY <1>2
  <2> QED  BY <1>1, <1>3, <2>1, <2>2 DEF Manifest
<1>10. /\ IsLogs(logs') /\ DOMAIN logs' \subseteq DOMAIN logs /\ logfile \in DOMAIN logs'
  <2>1. logs' = Keep(logs, less)
    BY <1>1, <1>2, <1>5 DEF DeleteObsoleteFiles
  <2> HIDE DEF less
  <2>2. /\ IsLogs(logs') /\ DOMAIN logs' = less
    BY <1>2, <1>3, <2>1, KeepLogs DEF less
  <2>3. logfile \in less /\ less \subseteq DOMAIN logs
    BY <1>2, <1>3 DEF less
  <2> QED  BY <2>2, <2>3
<1>11. /\ IsTables(tables') /\ GoodVersion(Installed.v, tables', vset.next)
       /\ \A n \in DOMAIN tables' : n < vset.next
  <2>1. tables' = Keep(tables, live)
    BY <1>1 DEF DeleteObsoleteFiles
  <2>2. {f.number : f \in FilesOf(Installed.v)} = live
    OBVIOUS
  <2> HIDE DEF live
  <2>3. IsTables(tables') /\ GoodVersion(Installed.v, tables', vset.next)
    BY <1>2, <1>3, <1>8, <2>1, <2>2, KeepTables
  <2>4. \A f \in FilesOf(Installed.v) : f.number < vset.next
    BY <1>2, <1>3, <1>8, GoodVersionFiles DEF GoodFiles, GoodFile
  <2>5. DOMAIN tables' \subseteq live
    BY <2>1 DEF Keep
  <2> QED  BY <2>2, <2>3, <2>4, <2>5
<1> HIDE DEF live, less
<1>12. IsFile(g) /\ Durable(g) = {2} /\ g.recs[2] = edit /\ SubSeq(g.recs, 1, 2) = g.recs
  <2>1. Len(g.recs) = 2
    BY <1>6, <1>7
  <2>2. g \in [recs : Seq(Range(g.recs)), synced : Nat]
    BY <1>6, <1>7 DEF IsSeq
  <2>3. g.synced \in 1 .. Len(g.recs)
    BY <1>7, <2>1
  <2>4. Durable(g) = 2 .. 2
    BY <1>7, <2>1 DEF Durable
  <2> QED  BY <1>6, <1>7, <2>2, <2>3, <2>4 DEF IsFile
<1>13. Records(g, current', tables')
  <2>1. GoodVersion(VersionOf(SubSeq(g.recs, 1, 2)), tables', g.recs[2].next)
    BY <1>2, <1>6, <1>7, <1>11, <1>12
  <2>2. /\ g.recs[2].log \in Nat /\ g.recs[2].next \in Nat /\ g.recs[2].last \in Nat
        /\ g.recs[2].log < g.recs[2].next /\ current' < g.recs[2].next
    BY <1>1, <1>2, <1>3, <1>12
  <2>3. g.recs[2].next <= g.recs[2].next
    BY <2>2
  <2>4. \A n \in Durable(g) : n = 2
    BY <1>12
  <2> QED  BY <1>12, <2>1, <2>2, <2>3, <2>4 DEF Records
<1>14. Disk'
  BY <1>9, <1>10, <1>11, <1>13 DEF Disk
<1>15. \A ls : \A i \in 1 .. Len(history) : KeptFor(ls, history[i], logfile)
  BY <1>2, PromisedAreWhole DEF KeptFor
<1>16. Promises'
  BY <1>1, <1>2, <1>9, <1>12, <1>15 DEF Promises
<1>17. Batches'
  BY <1>1 DEF LevelDBInv, Batches
<1>18. Stopped' /\ Saving'
  BY <1>1, <1>4 DEF Stopped, Saving
<1>19. OpenFiles'
  <2>1. \A n \in DOMAIN tables' \cup DOMAIN logs' : n < vset.next
    BY <1>2, <1>10, <1>11
  <2>2. \A n \in Durable(g) : logfile <= g.recs[n].log /\ g.recs[n].log <= logfile
                              /\ g.recs[n].next <= vset.next
    BY <1>2, <1>3, <1>12
  <2> QED  BY <1>1, <1>3, <1>5, <1>9, <1>10, <1>11, <2>1, <2>2 DEF OpenFiles
<1>20. OpenEdit'
  BY <1>1, <1>6, <1>7, <1>9 DEF OpenEdit
<1>21. OpenUse'
  BY <1>1, <1>4 DEF OpenUse
<1>22. OpenMem'
  BY <1>1, <1>4, TablesAreFinite DEF OpenMem
<1>23. OpenBatches'
  <2>1. \A i \in 1 .. Len(history) : history[i].log <= logfile
    BY <1>2, <1>3, BatchLogs DEF LevelDBInv
  <2>2. Len(doubt) = 0
    BY <1>4
  <2> QED  BY <1>1, <1>4, <1>5, <1>15, <2>1, <2>2 DEF OpenBatches
<1> QED  BY <1>14, <1>16, <1>17, <1>18, <1>19, <1>20, <1>21, <1>22, <1>23 DEF LevelDBInv, OpenOnly

\* The tables as they are with those a recovery makes.
With(tb, new) ==
  [n \in DOMAIN tb \cup {t.number : t \in Range(new)} |->
     IF \E t \in Range(new) : t.number = n
     THEN (CHOOSE t \in Range(new) : t.number = n).entries
     ELSE tb[n]]

\* The tables made from the logs hide no other, and their files are good.
LEMMA TablesRecovered ==
  ASSUME NEW tb, IsTables(tb), NEW from \in Nat, NEW r \in ReplayState(from),
         NEW more, more = With(tb, r.new)
  PROVE  /\ IsTables(more) /\ Agrees(tb, more, from)
         /\ \A t \in Range(r.new) : GoodFile(FileOf(t.number, t.entries), more, r.next)
<1> DEFINE R == Range(r.new)
           Entry(n) == IF \E t \in R : t.number = n
                       THEN (CHOOSE t \in R : t.number = n).entries ELSE tb[n]
<1>1. r.new \in Seq(NewTable) /\ r.next \in Nat /\ Numbered(r.new, from, r.next)
  BY DEF ReplayState
<1>2. \A t \in R : \E i \in 1 .. Len(r.new) : t = r.new[i]
  BY <1>1 DEF Range
<1>3. \A i \in 1 .. Len(r.new) : /\ r.new[i] \in NewTable
                                 /\ from <= r.new[i].number /\ r.new[i].number < r.next
                                 /\ r.new[i].number \in Nat
  <2> SUFFICES ASSUME NEW i \in 1 .. Len(r.new)
               PROVE  /\ r.new[i] \in NewTable
                      /\ from <= r.new[i].number /\ r.new[i].number < r.next
                      /\ r.new[i].number \in Nat
    OBVIOUS
  <2>1. r.new[i] \in NewTable
    BY <1>1
  <2>2. r.new[i].number \in Nat
    BY <2>1 DEF NewTable
  <2> QED  BY <1>1, <2>1, <2>2 DEF Numbered
<1>4. \A t \in R : /\ t.number \in Nat /\ from <= t.number /\ t.number < r.next
                   /\ t.entries \in Table \ {{}}
  <2>1. \A t \in NewTable : t.entries \in Table \ {{}}
    BY DEF NewTable
  <2> QED  BY <1>2, <1>3, <2>1
<1>5. ASSUME NEW t \in R, NEW u \in R, t.number = u.number PROVE t = u
  <2>1. PICK i \in 1 .. Len(r.new) : t = r.new[i]
    BY <1>2
  <2>2. PICK j \in 1 .. Len(r.new) : u = r.new[j]
    BY <1>2
  <2>3. Len(r.new) \in Nat
    BY <1>1
  <2>4. ~(i < j) /\ ~(j < i)
    BY <1>1, <1>3, <1>5, <2>1, <2>2 DEF Numbered
  <2> QED  BY <2>1, <2>2, <2>3, <2>4
<1>6. /\ DOMAIN more = DOMAIN tb \cup {t.number : t \in R}
      /\ \A n \in DOMAIN more : more[n] = Entry(n)
      /\ more = [n \in DOMAIN more |-> more[n]]
  <2>1. more = [n \in DOMAIN tb \cup {t.number : t \in R} |-> Entry(n)]
    BY DEF With
  <2> HIDE DEF Entry, R
  <2> QED  BY <2>1
<1>7. ASSUME NEW t \in R PROVE t.number \in DOMAIN more /\ more[t.number] = t.entries
  <2>1. (CHOOSE u \in R : u.number = t.number) = t
    <3>1. \E u \in R : u.number = t.number
      OBVIOUS
    <3>2. (CHOOSE u \in R : u.number = t.number) \in R
          /\ (CHOOSE u \in R : u.number = t.number).number = t.number
      BY <3>1
    <3> QED  BY <1>5, <3>2
  <2>2. Entry(t.number) = t.entries
    BY <2>1
  <2> HIDE DEF R, Entry
  <2> QED  BY <1>6, <2>2
<1>8. ASSUME NEW n \in DOMAIN tb, ~\E t \in R : t.number = n
      PROVE  n \in DOMAIN more /\ more[n] = tb[n]
  BY <1>6, <1>8
<1> HIDE DEF R, Entry
<1>9. \A S \in Table \ {{}} : IsContents(S) /\ S # {}
  BY DEF Table, IsContents
<1>10. IsTables(more)
  <2>1. \A n \in DOMAIN more : IsContents(more[n]) /\ more[n] # {}
    <3> SUFFICES ASSUME NEW n \in DOMAIN more PROVE IsContents(more[n]) /\ more[n] # {}
      OBVIOUS
    <3>1. CASE \E t \in R : t.number = n
      BY <1>4, <1>7, <1>9, <3>1
    <3>2. CASE ~\E t \in R : t.number = n
      BY <1>6, <1>8, <3>2 DEF IsTables
    <3> QED  BY <3>1, <3>2
  <2> QED  BY <1>4, <1>6, <2>1 DEF IsTables
<1>11. Agrees(tb, more, from)
  <2> SUFFICES ASSUME NEW n \in DOMAIN tb, n < from
               PROVE  n \in DOMAIN more /\ more[n] = tb[n]
    BY DEF Agrees
  <2>1. ~\E t \in R : t.number = n
    BY <1>4 DEF IsTables
  <2> QED  BY <1>8, <2>1
<1>12. ASSUME NEW t \in R PROVE GoodFile(FileOf(t.number, t.entries), more, r.next)
  <2>1. FileOf(t.number, t.entries).number = t.number
    BY DEF FileOf
  <2> QED  BY <1>4, <1>7, <2>1 DEF GoodFile
<1> QED  BY <1>10, <1>11, <1>12 DEF R

\* Opening, up to the new manifest: the old one is still good, with the
\* tables and logs it needs.
LEMMA RecoverKeeps ==
  ASSUME LevelDBInv, Recover
  PROVE  LevelDBInv'
<1> DEFINE recs == Manifest.recs
           N == Len(recs)
           e == Last(recs)
           r == RecoverLogs(e.log, e.next + 1)
           added == {<<0, FileOf(t.number, t.entries)>> : t \in Range(r.new)}
           vs == [v |-> VersionOf(recs), pointers |-> PointersOf(recs),
                  last |-> LastSequenceIn(e.log, e.last), next |-> r.next + 1,
                  log |-> e.log, manifest |-> e.next]
           save == NewEdit(vs, "open", {}, added, <<>>, r.next)
           snap == Snapshot(vs)
           q == <<snap, save>>
           f == [recs |-> q, synced |-> 0]
<1>1. /\ phase = "closed" /\ phase' = "opening"
      /\ tables' = With(tables, r.new)
      /\ logs' = Put(logs, r.next, EmptyFile)
      /\ manifests' = Put(manifests, vs.manifest, f)
      /\ vset' = vs /\ logfile' = r.next /\ edit' = save
      /\ UNCHANGED <<current, mem, imm, seek, comp, writer, snapshots, reader,
                     bgError, history, doubt, events>>
  BY Zenon DEF Recover, With, Manifest
<1>2. /\ IsLogs(logs) /\ IsTables(tables) /\ current \in Nat /\ current \in DOMAIN manifests
      /\ manifests = [n \in DOMAIN manifests |-> manifests[n]] /\ DOMAIN manifests \subseteq Nat
      /\ Records(Manifest, current, tables)
  BY DEF LevelDBInv, Disk
<1>3. IsSeq(recs) /\ N \in Nat \ {0} /\ N \in Durable(Manifest)
      /\ \A n \in Durable(Manifest) : n <= N
  BY <1>2 DEF Records, IsFile, IsSeq, Durable
<1>4. e = recs[N]
  BY DEF Last
<1>5. /\ e.log \in Nat /\ e.next \in Nat /\ e.last \in Nat /\ e.log < e.next /\ current < e.next
      /\ GoodVersion(VersionOf(recs), tables, e.next)
      /\ \A n \in Durable(Manifest) : Manifest.recs[n].next <= e.next
  <2>1. SubSeq(recs, 1, N) = recs
    BY <1>3, WholePrefix
  <2> QED  BY <1>2, <1>3, <1>4, <2>1 DEF Records
<1>6. e.next + 1 \in Nat
  BY <1>5
<1> HIDE DEF e, N
<1>7. r \in ReplayState(e.next + 1) /\ \A n \in DOMAIN logs : n >= e.log => n < r.next
  BY <1>2, <1>5, <1>6, RecoverLogsGives
<1> HIDE DEF r
<1>8. r.next \in Nat /\ e.next + 1 <= r.next
  BY <1>7 DEF ReplayState
<1>9. \A n \in DOMAIN logs : n \in Nat /\ n < r.next
  <2> SUFFICES ASSUME NEW n \in DOMAIN logs PROVE n \in Nat /\ n < r.next
    OBVIOUS
  <2>1. n \in Nat
    BY <1>2 DEF IsLogs
  <2>2. CASE n >= e.log
    BY <1>7, <2>1, <2>2
  <2>3. CASE ~(n >= e.log)
    BY <1>5, <1>8, <2>1, <2>3
  <2> QED  BY <2>2, <2>3
<1>10. r.next \notin DOMAIN logs
  BY <1>8, <1>9
<1>11. IsLogs(logs') /\ Grows(logs, logs') /\ DOMAIN logs' = DOMAIN logs \cup {r.next}
  BY <1>1, <1>2, <1>8, <1>10, NewLog
<1>12. /\ IsTables(tables') /\ Agrees(tables, tables', e.next + 1)
       /\ \A t \in Range(r.new) : GoodFile(FileOf(t.number, t.entries), tables', r.next)
  BY <1>1, <1>2, <1>6, <1>7, TablesRecovered
<1>13. Records(Manifest, current, tables')
  <2>1. \A n \in Durable(Manifest) : Manifest.recs[n].next <= e.next + 1
    BY <1>2, <1>5 DEF Records
  <2> QED  BY <1>2, <1>6, <1>12, <2>1, RecordsInMore
<1>14. /\ vs.v = VersionOf(recs) /\ vs.next = r.next + 1 /\ vs.log = e.log
       /\ vs.manifest = e.next /\ vs.last = LastSequenceIn(e.log, e.last)
       /\ vs \in [v : {vs.v}, pointers : {vs.pointers}, last : {vs.last}, next : {vs.next},
                  log : {vs.log}, manifest : {vs.manifest}]
  OBVIOUS
<1>15. vs.last \in Nat
  BY <1>2, <1>5, <1>14, LastSequenceType
<1> HIDE DEF vs
<1>16. /\ save.log = r.next /\ save.next = r.next + 1 /\ save.last = vs.last /\ save.added = added
  <2> HIDE DEF added
  <2> QED  BY <1>14 DEF NewEdit
<1> HIDE DEF save
<1>17. GoodEdit(save, tables', r.next + 1)
  <2> SUFFICES ASSUME NEW l \in Levels, NEW g \in AddedAt(save, l)
               PROVE  GoodFile(g, tables', r.next + 1)
    BY DEF GoodEdit, GoodFiles
  <2>1. PICK a \in added : a[2] = g
    BY <1>16 DEF AddedAt
  <2>2. PICK t \in Range(r.new) : a = <<0, FileOf(t.number, t.entries)>>
    BY <2>1
  <2>3. g = FileOf(t.number, t.entries)
    BY <2>1, <2>2
  <2>4. GoodFile(g, tables', r.next)
    BY <1>12, <2>3
  <2> QED  BY <1>8, <1>12, <2>4 DEF GoodFile, IsTables
<1> HIDE DEF added
<1>18. GoodVersion(vs.v, tables', r.next + 1)
  <2> DEFINE v == VersionOf(recs)
  <2>1. GoodVersion(v, tables, e.next)
    BY <1>5
  <2> HIDE DEF v
  <2>2. \A x \in DOMAIN tables : x < e.next => x \in DOMAIN tables' /\ tables'[x] = tables[x]
    BY <1>2, <1>5, <1>12 DEF Agrees, IsTables
  <2>3. e.next <= r.next + 1 /\ r.next + 1 \in Nat
    BY <1>5, <1>8
  <2>4. GoodVersion(v, tables', r.next + 1)
    BY <1>2, <1>5, <2>1, <2>2, <2>3, GoodVersionInMore
  <2> QED  BY <1>14, <2>4 DEF v
<1>19. SaveTo(EmptyVersion, snap) = vs.v
  <2> DEFINE all == UNION {{<<l, g>> : g \in Range(vs.v[l])} : l \in Levels}
  <2>1. snap.added = all
    <3> DEFINE ps == Keep(vs.pointers, {l \in Levels : vs.pointers[l] # NoEntry})
    <3>1. snap = [NewEdit(vs, "snapshot", {}, all, ps, 0) EXCEPT !.next = 0, !.last = 0]
      BY DEF Snapshot
    <3> HIDE DEF all, ps, snap
    <3> QED  BY <3>1 DEF NewEdit
  <2>2. ASSUME NEW l \in Levels PROVE AddedAt(snap, l) = Range(vs.v[l])
    <3>1. ASSUME NEW g \in Range(vs.v[l]) PROVE g \in AddedAt(snap, l)
      <4>1. <<l, g>> \in all
        BY <3>1
      <4> HIDE DEF all, snap
      <4> QED  BY <2>1, <4>1 DEF AddedAt
    <3>2. ASSUME NEW g \in AddedAt(snap, l) PROVE g \in Range(vs.v[l])
      <4> HIDE DEF snap
      <4>1. PICK a \in all : a[1] = l /\ a[2] = g
        BY <2>1, <3>2 DEF AddedAt
      <4>2. PICK m \in Levels : a \in {<<m, h>> : h \in Range(vs.v[m])}
        BY <4>1
      <4>3. PICK h \in Range(vs.v[m]) : a = <<m, h>>
        BY <4>2
      <4> QED  BY <4>1, <4>3
    <3> QED  BY <3>1, <3>2
  <2> HIDE DEF snap, all
  <2>3. r.next + 1 \in Nat
    BY <1>8
  <2> QED  BY <1>12, <1>18, <2>2, <2>3, SnapshotGivesBack
<1> HIDE DEF snap
<1>20. q[1] = snap
  OBVIOUS
<1>21. f.recs = q /\ f.synced = 0 /\ f \in [recs : {q}, synced : {0}]
  <2> HIDE DEF q
  <2> QED  OBVIOUS
<1> HIDE DEF f
<1>22. /\ manifests' = [n \in DOMAIN manifests' |-> manifests'[n]]
       /\ DOMAIN manifests' \subseteq Nat /\ current' \in DOMAIN manifests'
       /\ Manifest' = Manifest
       /\ e.next \in DOMAIN manifests' /\ manifests'[e.next] = f
  <2>1. current # e.next
    BY <1>2, <1>5
  <2> QED  BY <1>1, <1>2, <1>5, <1>14, <2>1 DEF Put, Manifest
<1>23. Disk'
  BY <1>1, <1>11, <1>12, <1>13, <1>22 DEF Disk
<1>24. Promises'
  <2>1. Promises
    BY DEF LevelDBInv
  <2> QED  BY <1>1, <1>11, <1>22, <2>1, KeptInMore DEF Promises
<1>25. Batches'
  BY <1>1 DEF LevelDBInv, Batches
<1>26. Stopped'
  BY <1>1 DEF LevelDBInv, Stopped
<1>27. ASSUME NEW i \in 1 .. Len(history) PROVE history[i].log < r.next
  <2>1. history[i].log \in Nat
    BY BatchLogs DEF LevelDBInv
  <2>2. KeptFor(logs, history[i], e.log)
    BY <1>3, <1>4 DEF LevelDBInv, Promises
  <2>3. CASE history[i].log < e.log
    BY <1>5, <1>8, <2>1, <2>3
  <2>4. CASE InLog(logs, history[i])
    BY <1>9, <2>4 DEF InLog
  <2> QED  BY <2>2, <2>3, <2>4 DEF KeptFor
<1>28. VersionSetType'
  BY <1>1, <1>5, <1>8, <1>14, <1>15 DEF VersionSetType
<1>29. Saving'
  <2>1. Saved' = f
    BY <1>1, <1>14, <1>22 DEF Saved
  <2>2. Saved'.recs[1] = snap /\ Saved' \in [recs : {<<Saved'.recs[1], edit'>>}, synced : {0}]
    BY <1>1, <1>20, <1>21, <2>1
  <2>3. vs.manifest < r.next + 1 /\ \A n \in DOMAIN logs' : n < r.next + 1
    BY <1>5, <1>8, <1>9, <1>11, <1>14
  <2> HIDE DEF q
  <2> QED  BY <1>1, <1>11, <1>14, <1>15, <1>16, <1>17, <1>18, <1>19, <1>22, <1>27, <1>28,
              <2>2, <2>3 DEF Saving
<1>30. OpenOnly'
  BY <1>1 DEF OpenOnly, OpenFiles, OpenEdit, OpenUse, OpenMem, OpenBatches
<1> QED  BY <1>23, <1>24, <1>25, <1>26, <1>29, <1>30 DEF LevelDBInv

(******************************************************************************)
(* Failures                                                                   *)
(******************************************************************************)
Demoted(bs) == [i \in DOMAIN bs |-> [bs[i] EXCEPT !.sync = FALSE]]
Remaining == history \o Demoted(Unacked)
Survives(b) ==
  \/ b.log < Last(manifests'[current].recs).log
  \/ /\ b.log \in DOMAIN logs'
     /\ \E r \in Range(logs'[b.log].recs) : r.seq = b.seq /\ ~r.lost
Survivors == {b \in Range(Remaining) : Survives(b)}

\* The batches that are left.
LEMMA LostIs == Lost => history' = Only(Remaining, Survivors)
BY DEF Lost, Remaining, Demoted, Survivors, Survives

\* One sequence behind another.
LEMMA JoinIs ==
  ASSUME NEW X, NEW s \in Seq(X), NEW t \in Seq(X)
  PROVE  /\ s \o t \in Seq(X) /\ Len(s \o t) = Len(s) + Len(t)
         /\ Len(s) \in Nat /\ Len(t) \in Nat
         /\ \A i \in 1 .. Len(s \o t) :
              (s \o t)[i] = IF i <= Len(s) THEN s[i] ELSE t[i - Len(s)]
OBVIOUS

\* A batch that was never acknowledged has its record in a log that is kept, or
\* its log is one the version has left behind.
LEMMA UnackedAre ==
  ASSUME LevelDBInv
  PROVE  /\ Unacked \in Seq(Batch)
         /\ \A i \in 1 .. Len(Unacked) :
              phase = "open" /\ (Unacked[i].log < vset.log \/ InLog(logs, Unacked[i]))
<1> DEFINE done == Promised(writer)
           w == IF writer = None THEN <<>> ELSE <<done>>
<1>0. writer # None =>
        /\ done \in Batch /\ done.log = writer.log
        /\ \A ls : InLog(ls, done) <=> InLog(ls, writer)
  BY PromisedIs DEF LevelDBInv, Batches
<1>2. Unacked = doubt \o w
  BY DEF Unacked
<1> HIDE DEF done
<1>1. doubt \in Seq(Batch) /\ w \in Seq(Batch)
  <2>1. writer # None => <<done>> \in Seq(Batch)
    BY <1>0
  <2> QED  BY <2>1 DEF LevelDBInv, Batches
<1>3. Len(w) \in {0, 1} /\ (Len(w) = 1 => writer # None /\ w[1] = done)
  OBVIOUS
<1> HIDE DEF w
<1>4. Unacked \in Seq(Batch) /\ Len(Unacked) = Len(doubt) + Len(w)
      /\ Len(doubt) \in Nat /\ \A i \in 1 .. Len(Unacked) :
           Unacked[i] = IF i <= Len(doubt) THEN doubt[i] ELSE w[i - Len(doubt)]
  BY <1>1, <1>2
<1>5. ASSUME NEW i \in 1 .. Len(Unacked)
      PROVE  phase = "open" /\ (Unacked[i].log < vset.log \/ InLog(logs, Unacked[i]))
  <2>1. CASE i <= Len(doubt)
    <3>1. i \in 1 .. Len(doubt) /\ Unacked[i] = doubt[i]
      BY <1>4, <2>1
    <3>2. phase = "open"
      <4>1. doubt # <<>>
        BY <3>1
      <4> QED  BY <4>1 DEF LevelDBInv, Stopped
    <3> QED  BY <3>1, <3>2 DEF LevelDBInv, OpenOnly, OpenBatches
  <2>2. CASE i > Len(doubt)
    <3>1. i - Len(doubt) = 1 /\ Len(w) = 1
      BY <1>3, <1>4, <2>2
    <3>2. writer # None /\ Unacked[i] = done
      BY <1>3, <1>4, <2>2, <3>1
    <3>3. phase = "open"
      BY <3>2 DEF LevelDBInv, Stopped
    <3> QED  BY <1>0, <3>2, <3>3 DEF LevelDBInv, OpenOnly, OpenBatches
  <2> QED  BY <1>4, <2>1, <2>2
<1> QED  BY <1>4, <1>5

\* A batch that may remain was acknowledged, or it promises nothing any more.
LEMMA RemainingAre ==
  ASSUME LevelDBInv
  PROVE  /\ Remaining \in Seq(Batch)
         /\ \A i \in 1 .. Len(history) :
              /\ i \in 1 .. Len(Remaining) /\ Remaining[i] = history[i]
              /\ history[i] \in Range(Remaining)
         /\ \A b \in Range(Remaining) :
              \/ \E i \in 1 .. Len(history) : b = history[i]
              \/ b.sync = FALSE /\ phase = "open" /\ (b.log < vset.log \/ InLog(logs, b))
<1> DEFINE d == Demoted(Unacked)
<1>1. Unacked \in Seq(Batch) /\ history \in Seq(Batch)
  BY UnackedAre DEF LevelDBInv, Batches
<1>2. d \in Seq(Batch) /\ Len(d) = Len(Unacked)
  <2>1. ASSUME NEW i \in 1 .. Len(Unacked) PROVE [Unacked[i] EXCEPT !.sync = FALSE] \in Batch
    <3>1. Unacked[i] \in Batch
      BY <1>1
    <3> DEFINE c == [Unacked[i] EXCEPT !.sync = FALSE]
    <3>2. c \in [seq : Nat, ops : Seq(Op), sync : BOOLEAN, log : Nat, torn : BOOLEAN]
          /\ c.seq = Unacked[i].seq /\ c.ops = Unacked[i].ops
      BY <3>1 DEF Batch
    <3>3. Fits(c)
      BY <3>1, <3>2 DEF Batch, Fits
    <3> QED  BY <3>2, <3>3 DEF Batch
  <2>2. DOMAIN Unacked = 1 .. Len(Unacked) /\ Len(Unacked) \in Nat
    BY <1>1
  <2>3. d = [i \in 1 .. Len(Unacked) |-> [Unacked[i] EXCEPT !.sync = FALSE]]
    BY <2>2 DEF Demoted
  <2> HIDE DEF d
  <2> QED  BY <2>1, <2>2, <2>3
<1>3. ASSUME NEW i \in 1 .. Len(Unacked)
      PROVE  d[i].sync = FALSE /\ phase = "open"
             /\ (d[i].log < vset.log \/ InLog(logs, d[i]))
  <2>1. Unacked[i] \in Batch /\ i \in DOMAIN Unacked
    BY <1>1
  <2>2. d[i] = [Unacked[i] EXCEPT !.sync = FALSE]
    BY <2>1 DEF Demoted
  <2>3. /\ d[i].sync = FALSE /\ d[i].log = Unacked[i].log /\ d[i].seq = Unacked[i].seq
        /\ d[i].torn = Unacked[i].torn
    BY <2>1, <2>2 DEF Batch
  <2>4. phase = "open" /\ (Unacked[i].log < vset.log \/ InLog(logs, Unacked[i]))
    BY UnackedAre
  <2> HIDE DEF d
  <2> QED  BY <2>3, <2>4 DEF InLog, HasRecord, Holds
<1>4. Remaining = history \o d
  BY DEF Remaining
<1> HIDE DEF d
<1>5. /\ Remaining \in Seq(Batch) /\ Len(Remaining) = Len(history) + Len(d)
      /\ Len(history) \in Nat /\ Len(d) \in Nat
      /\ \A i \in 1 .. Len(Remaining) :
           Remaining[i] = IF i <= Len(history) THEN history[i] ELSE d[i - Len(history)]
  <2> DEFINE h == history
             t == h \o d
  <2>1. h \in Seq(Batch)
    BY <1>1
  <2>2. Remaining = t
    BY <1>4
  <2> HIDE DEF h
  <2>3. /\ t \in Seq(Batch) /\ Len(t) = Len(h) + Len(d)
        /\ Len(h) \in Nat /\ Len(d) \in Nat
        /\ \A i \in 1 .. Len(t) : t[i] = IF i <= Len(h) THEN h[i] ELSE d[i - Len(h)]
    BY <1>2, <2>1, JoinIs
  <2> HIDE DEF t
  <2> QED  BY <2>2, <2>3 DEF h
<1>6. ASSUME NEW i \in 1 .. Len(history)
      PROVE  /\ i \in 1 .. Len(Remaining) /\ Remaining[i] = history[i]
             /\ history[i] \in Range(Remaining)
  <2>1. i \in 1 .. Len(Remaining) /\ Remaining[i] = history[i] /\ i \in DOMAIN Remaining
    BY <1>5
  <2> QED  BY <2>1 DEF Range
<1>7. ASSUME NEW b \in Range(Remaining)
      PROVE  \/ \E i \in 1 .. Len(history) : b = history[i]
             \/ b.sync = FALSE /\ phase = "open" /\ (b.log < vset.log \/ InLog(logs, b))
  <2>1. PICK i \in 1 .. Len(Remaining) : b = Remaining[i]
    BY <1>5 DEF Range
  <2>2. CASE i <= Len(history)
    BY <1>5, <2>1, <2>2
  <2>3. CASE i > Len(history)
    <3>1. i - Len(history) \in 1 .. Len(Unacked)
      BY <1>2, <1>5, <2>1, <2>3
    <3>2. b = d[i - Len(history)]
      BY <1>5, <2>1, <2>3
    <3> QED  BY <1>3, <3>1, <3>2
  <2>4. i \in Nat /\ Len(history) \in Nat
    BY <1>5, <2>1
  <2>5. i <= Len(history) \/ i > Len(history)
    BY <2>4
  <2> QED  BY <2>2, <2>3, <2>5, Zenon
<1> QED  BY <1>5, <1>6, <1>7

\* What is left is what survives, of all there was.
LEMMA HistoryLeft ==
  ASSUME LevelDBInv, Lost
  PROVE  /\ history' \in Seq(Batch)
         /\ \A i \in 1 .. Len(history') : history'[i] \in Range(Remaining) /\ Survives(history'[i])
         /\ \A b \in Range(Remaining) : Survives(b) => b \in Range(history')
<1>1. Remaining \in Seq(Batch)
  BY RemainingAre
<1>2. history' = Only(Remaining, Survivors)
  BY LostIs
<1>3. history' \in Seq(Batch) /\ Range(history') = Range(Remaining) \cap Survivors
  BY <1>1, <1>2, OnlySelects
<1>4. ASSUME NEW i \in 1 .. Len(history') PROVE history'[i] \in Survivors
  <2>1. history'[i] \in Range(history')
    BY <1>3 DEF Range
  <2> QED  BY <1>3, <2>1
<1> QED  BY <1>3, <1>4 DEF Survivors

\* Nothing is known any more of the process that is gone.
LEMMA LostRest ==
  ASSUME LevelDBInv, Lost, Disk', Promises'
  PROVE  LevelDBInv'
<1>1. /\ doubt' = <<>> /\ phase' = "closed" /\ mem' = {} /\ imm' = None /\ logfile' = 0
      /\ seek' = None /\ edit' = None /\ comp' = None
      /\ writer' = None /\ snapshots' = {} /\ reader' = None /\ bgError' = FALSE
  BY DEF Lost
<1>2. Batches'
  BY <1>1, HistoryLeft DEF Batches
<1>3. Stopped'
  BY <1>1 DEF Stopped
<1>4. Saving' /\ OpenOnly'
  BY <1>1 DEF Saving, OpenOnly, OpenFiles, OpenEdit, OpenUse, OpenMem, OpenBatches
<1> QED  BY <1>2, <1>3, <1>4 DEF LevelDBInv

\* The process ends: every acknowledged batch is in a log that is replayed,
\* or older than all of those, or was written behind a record that is torn.
LEMMA ProcessEndsKeeps ==
  ASSUME LevelDBInv, ProcessEnds
  PROVE  /\ LevelDBInv'
         /\ \A i \in 1 .. Len(history) :
              \/ history[i] \in Range(history')
              \/ /\ history[i].torn /\ ~history[i].sync
                 /\ history[i].log >= Last(manifests[current].recs).log
<1> DEFINE N == Len(Manifest.recs)
<1>1. Lost /\ UNCHANGED <<logs, tables, manifests, current>>
  BY DEF ProcessEnds
<1>2. Disk'
  BY <1>1, DiskStays DEF LevelDBInv
<1>3. Manifest' = Manifest
  BY <1>1 DEF Manifest
<1>4. IsFile(Manifest) /\ IsSeq(Manifest.recs) /\ N \in Nat /\ N \in Durable(Manifest)
      /\ IsLogs(logs)
  BY DEF LevelDBInv, Disk, Records, IsFile, IsSeq, Durable
<1>5. /\ history' \in Seq(Batch)
      /\ \A i \in 1 .. Len(history') : history'[i] \in Range(Remaining)
      /\ \A b \in Range(Remaining) : Survives(b) => b \in Range(history')
  BY <1>1, HistoryLeft
<1>6. ASSUME NEW i \in 1 .. Len(history'), NEW n \in Durable(Manifest)
      PROVE  KeptFor(logs, history'[i], Manifest.recs[n].log)
  <2> DEFINE b == history'[i]
  <2>1. b \in Range(Remaining) /\ b \in Batch
    BY <1>5
  <2> HIDE DEF b
  <2>2. CASE \E j \in 1 .. Len(history) : b = history[j]
    BY <2>2 DEF LevelDBInv, Promises, b
  <2>3. CASE b.sync = FALSE /\ phase = "open" /\ (b.log < vset.log \/ InLog(logs, b))
    <3>1. vset.log <= Manifest.recs[n].log /\ vset.log \in Nat
      BY <2>3 DEF LevelDBInv, OpenOnly, OpenFiles, VersionSetType
    <3>2. Manifest.recs[n].log \in Nat /\ b.log \in Nat
      BY <2>1 DEF LevelDBInv, Disk, Records, Batch
    <3>3. b.log < vset.log => b.log < Manifest.recs[n].log
      BY <3>1, <3>2
    <3> QED  BY <2>3, <3>3 DEF KeptFor, b
  <2> QED  BY <2>1, <2>2, <2>3, RemainingAre
<1>7. Promises'
  BY <1>1, <1>3, <1>6 DEF Promises
<1>8. ASSUME NEW i \in 1 .. Len(history)
      PROVE  \/ history[i] \in Range(history')
             \/ /\ history[i].torn /\ ~history[i].sync
                /\ history[i].log >= Last(manifests[current].recs).log
  <2>1. KeptFor(logs, history[i], Manifest.recs[N].log)
    BY <1>4 DEF LevelDBInv, Promises
  <2>2. /\ Last(manifests'[current].recs) = Manifest.recs[N]
        /\ Last(manifests[current].recs) = Manifest.recs[N]
    BY <1>1 DEF Last, Manifest
  <2>3. ASSUME InLog(logs, history[i]), ~history[i].torn PROVE Survives(history[i])
    <3> DEFINE f == logs[history[i].log]
    <3>1. history[i].log \in DOMAIN logs /\ HasRecord(f, Len(f.recs), history[i])
      BY <2>3 DEF InLog
    <3>2. f.recs \in Seq(Record)
      BY <1>4, <3>1 DEF IsLogs, LogFile
    <3> HIDE DEF f
    <3>3. \E r \in Range(f.recs) : r.seq = history[i].seq /\ ~r.lost
      BY <2>3, <3>1, <3>2 DEF HasRecord, Holds, Range
    <3> QED  BY <1>1, <3>1, <3>3 DEF Survives, f
  <2>4. history[i] \in Range(Remaining)
    BY RemainingAre
  <2>5. CASE history[i].log < Manifest.recs[N].log
    BY <1>5, <2>2, <2>4, <2>5 DEF Survives
  <2>6. CASE ~(history[i].log < Manifest.recs[N].log)
    <3>1. history[i].log \in Nat /\ Manifest.recs[N].log \in Nat
      BY <1>4, BatchLogs DEF LevelDBInv, Disk, Records
    <3>2. InLog(logs, history[i]) /\ (history[i].sync => ~history[i].torn)
      BY <2>1, <2>6 DEF KeptFor
    <3>3. CASE history[i].torn
      BY <2>2, <2>6, <3>1, <3>2, <3>3
    <3>4. CASE ~history[i].torn
      BY <1>5, <2>3, <2>4, <3>2, <3>4
    <3> QED  BY <3>3, <3>4
  <2> QED  BY <2>5, <2>6
<1> QED  BY <1>1, <1>2, <1>7, <1>8, LostRest

MayCut(ls, cut) == \A n \in DOMAIN ls : cut[n] \in ls[n].synced .. Len(ls[n].recs)
Left(ls, cut) == [n \in DOMAIN ls |-> CutFile(ls[n], cut[n])]

\* A log that is cut has what was synchronised, and is synchronised as a whole.
LEMMA CutLog ==
  ASSUME NEW f \in LogFile, NEW c \in f.synced .. Len(f.recs),
         NEW g, g = CutFile(f, c)
  PROVE  /\ g \in LogFile /\ g.synced = Len(g.recs)
         /\ \A b : HasRecord(f, f.synced, b) => HasRecord(g, Len(g.recs), b)
<1> DEFINE p == SubSeq(f.recs, 1, c)
           h == [f EXCEPT !.recs = p]
<1>1. f.recs \in Seq(Record) /\ f.synced \in Nat /\ f \in [recs : Seq(Record), synced : Nat]
  BY DEF LogFile
<1>2. c \in 0 .. Len(f.recs) /\ c \in Nat /\ f.synced <= c
  BY <1>1
<1>3. p \in Seq(Record) /\ Len(p) = c /\ \A i \in 1 .. c : p[i] = f.recs[i]
  BY <1>1, <1>2
<1> HIDE DEF p
<1>4. h = [recs |-> p, synced |-> f.synced]
  BY <1>1
<1>5. g = [h EXCEPT !.synced = Len(h.recs)]
  BY DEF CutFile, SyncFile, p
<1> HIDE DEF h
<1>6. g = [recs |-> p, synced |-> c]
  BY <1>3, <1>4, <1>5
<1>7. g.recs = p /\ g.synced = c /\ g \in [recs : Seq(Record), synced : Nat]
  BY <1>2, <1>3, <1>6
<1>8. g \in LogFile /\ g.synced = Len(g.recs)
  BY <1>2, <1>3, <1>7 DEF LogFile
<1>9. ASSUME NEW b, HasRecord(f, f.synced, b) PROVE HasRecord(g, Len(g.recs), b)
  <2>1. PICK i \in 1 .. f.synced : Holds(f.recs[i], b)
    BY <1>9 DEF HasRecord
  <2>2. i \in 1 .. c
    BY <1>1, <1>2
  <2> QED  BY <1>3, <1>7, <2>1, <2>2 DEF HasRecord
<1> QED  BY <1>8, <1>9

\* What was synchronised before is there after, and all there is is synchronised.
LEMMA CutLogs ==
  ASSUME NEW ls, IsLogs(ls), NEW cut, MayCut(ls, cut), NEW left, left = Left(ls, cut)
  PROVE  /\ IsLogs(left)
         /\ \A b : InLog(left, b) => SyncedInLog(left, b)
         /\ \A b : SyncedInLog(ls, b) => InLog(left, b)
<1>1. ASSUME NEW n \in DOMAIN ls
      PROVE  /\ left[n] \in LogFile /\ left[n].synced = Len(left[n].recs)
             /\ \A b : HasRecord(ls[n], ls[n].synced, b) => HasRecord(left[n], Len(left[n].recs), b)
  <2>1. ls[n] \in LogFile /\ cut[n] \in ls[n].synced .. Len(ls[n].recs)
    BY DEF IsLogs, MayCut
  <2>2. left[n] = CutFile(ls[n], cut[n])
    BY DEF Left
  <2> QED  BY <2>1, <2>2, CutLog
<1>2. DOMAIN left = DOMAIN ls /\ left = [n \in DOMAIN left |-> left[n]]
  BY DEF Left
<1>3. IsLogs(left)
  BY <1>1, <1>2 DEF IsLogs
<1> QED  BY <1>1, <1>2, <1>3 DEF InLog, SyncedInLog

\* The machine fails: every synchronised batch was in the synchronised part
\* of its log, whichever edits of the manifest survive.
LEMMA MachineFailsKeeps ==
  ASSUME LevelDBInv, MachineFails
  PROVE  /\ LevelDBInv'
         /\ \A i \in 1 .. Len(history) : history[i].sync => history[i] \in Range(history')
<1>1. PICK cut \in [DOMAIN logs -> 0..MaxSeq], end \in 1 .. Len(Manifest.recs) :
        /\ MayCut(logs, cut)
        /\ end >= Manifest.synced
        /\ logs' = Left(logs, cut)
        /\ manifests' = [manifests EXCEPT ![current] = CutFile(manifests[current], end)]
  BY DEF MachineFails, Manifest, MayCut, Left
<1>2. Lost /\ UNCHANGED <<tables, current>>
  BY DEF MachineFails
<1>3. /\ IsLogs(logs) /\ IsTables(tables)
      /\ manifests = [n \in DOMAIN manifests |-> manifests[n]] /\ DOMAIN manifests \subseteq Nat
      /\ current \in DOMAIN manifests /\ Records(Manifest, current, tables)
  BY DEF LevelDBInv, Disk
<1>4. /\ IsFile(Manifest) /\ IsSeq(Manifest.recs) /\ Len(Manifest.recs) \in Nat
      /\ Manifest.synced \in 1 .. Len(Manifest.recs)
      /\ end \in Durable(Manifest) /\ end \in Manifest.synced .. end
  BY <1>1, <1>3 DEF Records, IsFile, IsSeq, Durable
<1>5. /\ IsLogs(logs')
      /\ \A b : InLog(logs', b) => SyncedInLog(logs', b)
      /\ \A b : SyncedInLog(logs, b) => InLog(logs', b)
  BY <1>1, <1>3, CutLogs
<1> DEFINE p == SubSeq(Manifest.recs, 1, end)
           h == [Manifest EXCEPT !.recs = p]
           g == CutFile(Manifest, end)
<1>6. /\ DOMAIN manifests' = DOMAIN manifests
      /\ manifests' = [n \in DOMAIN manifests' |-> manifests'[n]]
      /\ Manifest' = g
  <2>1. manifests' = [manifests EXCEPT ![current] = g]
    BY <1>1 DEF Manifest
  <2> HIDE DEF g
  <2> QED  BY <1>2, <1>3, <2>1 DEF Manifest
<1>7. IsSeq(p) /\ Len(p) = end
  <2>1. end \in 0 .. Len(Manifest.recs)
    BY <1>4
  <2> QED  BY <1>4, <2>1, Prefix
<1> HIDE DEF p
<1>8. Manifest'.recs = p /\ Manifest'.synced = end
      /\ Manifest' \in [recs : {Manifest'.recs}, synced : {Manifest'.synced}]
  <2>1. h = [recs |-> p, synced |-> Manifest.synced]
    BY <1>4 DEF IsFile
  <2>2. g = [h EXCEPT !.synced = Len(h.recs)]
    BY DEF SyncFile, CutFile, p
  <2> HIDE DEF h, g
  <2>3. g = [recs |-> p, synced |-> end]
    BY <1>7, <2>1, <2>2
  <2> QED  BY <1>6, <2>3
<1>9. Records(Manifest', current, tables)
  BY <1>3, <1>4, <1>8, RecordsOfPart DEF p
<1>10. Disk'
  BY <1>2, <1>3, <1>5, <1>6, <1>9 DEF Disk
<1>11. Durable(Manifest') = {end} /\ Manifest'.recs[end] = Last(Manifest'.recs)
       /\ Last(Manifest'.recs) = Manifest.recs[end]
  <2>1. Durable(Manifest') = end .. end
    BY <1>7, <1>8 DEF Durable
  <2>2. Manifest'.recs[end] = Last(Manifest'.recs)
    BY <1>7, <1>8 DEF Last
  <2>3. Manifest'.recs[end] = Manifest.recs[end]
    <3>1. \A i \in 1 .. end : Manifest'.recs[i] = Manifest.recs[i]
      BY <1>4, <1>8, PartOfFile DEF p
    <3> QED  BY <1>4, <3>1 DEF Durable
  <2> QED  BY <2>1, <2>2, <2>3
<1>12. \A b : Survives(b) /\ (b.sync => ~b.torn) => KeptFor(logs', b, Manifest'.recs[end].log)
  <2> SUFFICES ASSUME NEW b, Survives(b), b.sync => ~b.torn PROVE KeptFor(logs', b, Manifest'.recs[end].log)
    OBVIOUS
  <2>1. Last(manifests'[current].recs) = Manifest'.recs[end]
    BY <1>2, <1>11 DEF Manifest
  <2>2. CASE b.log < Manifest'.recs[end].log
    BY <2>2 DEF KeptFor
  <2>3. CASE b.log \in DOMAIN logs' /\ \E r \in Range(logs'[b.log].recs) : r.seq = b.seq /\ ~r.lost
    <3>1. logs'[b.log].recs \in Seq(Record)
      BY <1>5, <2>3 DEF IsLogs, LogFile
    <3>2. InLog(logs', b)
      BY <2>3, <3>1 DEF InLog, HasRecord, Holds, Range
    <3> QED  BY <1>5, <3>2 DEF KeptFor
  <2> QED  BY <2>1, <2>2, <2>3 DEF Survives
<1>13. /\ \A i \in 1 .. Len(history') : Survives(history'[i])
       /\ \A b \in Range(Remaining) : Survives(b) => b \in Range(history')
  BY <1>2, HistoryLeft
<1>14. Promises'
  <2>1. \A b \in Range(Remaining) : b.sync => ~b.torn
    <3>1. \A i \in 1 .. Len(history) : history[i].sync => ~history[i].torn
      BY <1>4 DEF LevelDBInv, Promises, KeptFor
    <3> QED  BY <3>1, RemainingAre
  <2>2. \A i \in 1 .. Len(history') : history'[i] \in Range(Remaining)
    BY <1>2, HistoryLeft
  <2> QED  BY <1>2, <1>11, <1>12, <1>13, <2>1, <2>2 DEF Promises
<1>15. ASSUME NEW i \in 1 .. Len(history), history[i].sync PROVE history[i] \in Range(history')
  <2> DEFINE b == history[i]
  <2>1. ~b.torn /\ (b.log < Manifest.recs[end].log \/ SyncedInLog(logs, b))
    BY <1>4, <1>15 DEF LevelDBInv, Promises, KeptFor
  <2>2. b \in Range(Remaining)
    BY RemainingAre
  <2> HIDE DEF b
  <2>3. CASE b.log < Manifest.recs[end].log
    <3>1. Survives(b)
      BY <1>2, <1>11, <2>3 DEF Survives, Manifest
    <3> QED  BY <1>13, <2>2, <3>1 DEF b
  <2>4. CASE SyncedInLog(logs, b)
    <3>1. InLog(logs', b)
      BY <1>5, <2>4
    <3>2. logs'[b.log].recs \in Seq(Record)
      BY <1>5, <3>1 DEF IsLogs, LogFile, InLog
    <3>3. Survives(b)
      BY <2>1, <3>1, <3>2 DEF Survives, InLog, HasRecord, Holds, Range, b
    <3> QED  BY <1>13, <2>2, <3>3 DEF b
  <2> QED  BY <2>1, <2>3, <2>4
<1> QED  BY <1>2, <1>10, <1>14, <1>15, LostRest

\* Stuttering.
LEMMA LevelDBInvStutters ==
  ASSUME LevelDBInv, UNCHANGED vars
  PROVE  LevelDBInv'
<1>1. UNCHANGED <<logs, tables, manifests, current, phase, mem, imm, logfile, vset, seek, edit,
                  comp, writer, snapshots, reader, bgError, history, doubt>>
  BY DEF vars
<1>2. Disk' /\ Promises' /\ OpenFiles' /\ OpenEdit' /\ OpenUse' /\ OpenMem' /\ OpenBatches'
  BY <1>1, DiskStays, PromisesStay, OpenFilesStay, OpenEditStays, OpenUseStays, OpenMemStays,
     OpenBatchesStay DEF LevelDBInv, OpenOnly
<1>3. Batches' /\ Stopped'
  BY <1>1 DEF LevelDBInv, Batches, Stopped
<1>4. Saving'
  BY <1>1 DEF LevelDBInv, Saving, Saved, VersionSetType
<1> QED  BY <1>2, <1>3, <1>4 DEF LevelDBInv, OpenOnly

\* Every step.
LEMMA LevelDBInvNext ==
  ASSUME LevelDBInv, [Next]_vars
  PROVE  LevelDBInv'
<1>1. CASE Recover \/ OpenDone
  BY <1>1, RecoverKeeps, OpenDoneKeeps
<1>2. CASE Install \/ InstallFails \/ InstallCompactionResults
  BY <1>2, InstallKeeps, InstallFailsKeeps, ResultsKeep
<1>3. CASE CompactMemTable \/ PickedCompaction \/ ManualCompaction \/ WriteOutput \/ WorkFails
  BY <1>3, FlushKeeps, PickedKeeps, ManualKeeps, WriteOutputKeeps, WorkFailsKeeps
<1>4. CASE SwitchMemTable \/ AddBatch \/ AddRecordFails \/ WriteDone \/ SyncFails
  BY <1>4, SwitchKeeps, AddBatchKeeps, AddRecordFailsKeeps, WriteDoneKeeps, SyncFailsKeeps
<1>5. CASE GetSnapshot \/ ReleaseSnapshot \/ BeginRead \/ EndRead
  BY <1>5, SnapshotsKeep, BeginReadKeeps, EndReadKeeps
<1>6. CASE MachineFails \/ ProcessEnds
  BY <1>6, MachineFailsKeeps, ProcessEndsKeeps
<1>7. CASE UNCHANGED vars
  BY <1>7, LevelDBInvStutters
<1> QED  BY <1>1, <1>2, <1>3, <1>4, <1>5, <1>6, <1>7 DEF Next

\* In every state the files on the disk fit what the manifest, the process and
\* the acknowledged batches need of them: the inductive invariant behind the
\* theorems below (the whole of db_impl.cc and of VersionSet::LogAndApply).
THEOREM LevelDBInvCorrect == Spec => []LevelDBInv
BY InitLevelDBInv, LevelDBInvNext, PTL DEF Spec

\* Whatever part of the manifest survives names files that exist.
LEMMA OpensFromDisk ==
  ASSUME LevelDBInv, NEW n \in Durable(Manifest)
  PROVE  n > 0 /\ \A f \in FilesOf(VersionOf(SubSeq(Manifest.recs, 1, n))) :
                    f.number \in DOMAIN tables
<1> DEFINE v == VersionOf(SubSeq(Manifest.recs, 1, n))
           next == Manifest.recs[n].next
<1>1. IsTables(tables) /\ IsFile(Manifest) /\ GoodVersion(v, tables, next) /\ next \in Nat
  BY DEF LevelDBInv, Disk, Records
<1>2. n > 0
  BY <1>1 DEF IsFile, Durable
<1> HIDE DEF v, next
<1>3. GoodFiles(FilesOf(v), tables, next)
  BY <1>1, GoodVersionFiles
<1>4. \A f \in FilesOf(v) : f.number \in DOMAIN tables
  BY <1>3 DEF GoodFiles, GoodFile
<1> QED  BY <1>2, <1>4 DEF v

PinnedFilesExist ==
  reader # None => \A f \in FilesOf(reader.v) : f.number \in DOMAIN tables

\* A reader's version is good for as long as it is held.
LEMMA ReaderHasFiles == LevelDBInv => PinnedFilesExist
<1> SUFFICES ASSUME LevelDBInv, reader # None
             PROVE  \A f \in FilesOf(reader.v) : f.number \in DOMAIN tables
  BY DEF PinnedFilesExist
<1>1. phase = "open"
  BY DEF LevelDBInv, Stopped
<1>2. IsTables(tables) /\ GoodVersion(reader.v, tables, vset.next) /\ vset.next \in Nat
  BY <1>1 DEF LevelDBInv, Disk, OpenOnly, OpenUse, OpenFiles, VersionSetType
<1>3. GoodFiles(FilesOf(reader.v), tables, vset.next)
  BY <1>2, GoodVersionFiles
<1> QED  BY <1>3 DEF GoodFiles, GoodFile

\* No file of the version a reader holds is ever deleted, however many versions
\* are installed meanwhile (DeleteObsoleteFiles, AddLiveFiles): the first half
\* of PinnedReadsAnswer.
THEOREM PinnedFilesCorrect == Spec => []PinnedFilesExist
BY LevelDBInvCorrect, ReaderHasFiles, PTL

\* ProcessKeepsAll: no acknowledged write is lost when the process ends, even
\* one without a synchronised log (Recover replays every log the manifest
\* needs), other than one written behind a record that could not be, for as long
\* as its log is needed (db_impl.cc 1215).
THEOREM ProcessKeepsAllCorrect == Spec => ProcessKeepsAll
<1> DEFINE Survived == \A i \in DOMAIN history :
                         \/ history[i] \in Range(history')
                         \/ history[i].torn /\ history[i].log >= Last(manifests[current].recs).log
<1>1. LevelDBInv /\ [Next]_vars => [ProcessEnds => Survived]_vars
  <2> SUFFICES ASSUME LevelDBInv, ProcessEnds PROVE Survived
    OBVIOUS
  <2>1. DOMAIN history = 1 .. Len(history)
    BY DEF LevelDBInv, Batches
  <2> QED  BY <2>1, ProcessEndsKeeps
<1> QED  BY <1>1, LevelDBInvCorrect, PTL DEF Spec, ProcessKeepsAll

(******************************************************************************)
(* The abstract store                                                         *)
(******************************************************************************)
LEMMA SameOnly == \A s, S : Store!Only(s, S) = Only(s, S)
BY Zenon DEF Store!Only, Only

\* The elements of a sequence are the same to the store and to the database.
LEMMA SameRange == \A s : Store!Range(s) = Range(s)
BY DEF Store!Range, Range

\* A failure leaves what the store allows it to leave.
LEMMA FailureIsFail ==
  ASSUME LevelDBInv, MachineFails \/ ProcessEnds
  PROVE  Store!Fail
<1>1. Lost
  BY DEF MachineFails, ProcessEnds
<1>2. doubt' = <<>> /\ writer' = None /\ phase' = "closed"
  BY <1>1 DEF Lost
<1>3. Unacked' = <<>>
  BY <1>2 DEF Unacked
<1>4. ASSUME NEW b \in Range(history), b.sync PROVE b \in Range(history')
  <2>1. PICK i \in 1 .. Len(history) : b = history[i]
    BY DEF LevelDBInv, Batches, Range
  <2> QED  BY <1>4, <2>1, MachineFailsKeeps, ProcessEndsKeeps
<1>5. history' = Only(Remaining, Range(history'))
  <2>1. history' = Only(Remaining, Survivors) /\ Remaining \in Seq(Batch)
    BY <1>1, LostIs, RemainingAre
  <2>2. Range(history') = Range(Remaining) \cap Survivors
    BY <2>1, OnlySelects
  <2>3. \A i \in 1 .. Len(Remaining) : Remaining[i] \in Survivors <=> Remaining[i] \in Range(history')
    <3>1. \A i \in 1 .. Len(Remaining) : Remaining[i] \in Range(Remaining)
      BY <2>1 DEF Range
    <3> QED  BY <2>2, <3>1
  <2> QED  BY <2>1, <2>3, OnlyAgrees
<1>6. history \o Store!Unpromised(Unacked) = Remaining
  BY DEF Store!Unpromised, Remaining, Demoted
<1> QED  BY <1>2, <1>3, <1>4, <1>5, <1>6, SameOnly, SameRange, Zenon DEF Store!Fail, Store!Down

\* A failure of the machine or of the process is a step Fail of KeyValueStore:
\* every batch whose synchronous write was acknowledged survives, unless it was
\* written behind a record that could not be, and what else survives is in the
\* old order.
THEOREM FailuresAreFail == Spec => [][MachineFails \/ ProcessEnds => Store!Fail]_vars
<1>1. LevelDBInv /\ [Next]_vars => [MachineFails \/ ProcessEnds => Store!Fail]_vars
  BY FailureIsFail
<1> QED  BY <1>1, LevelDBInvCorrect, PTL DEF Spec

(******************************************************************************)
(* The entries of the logs                                                    *)
(******************************************************************************)
\* What is in the logs from one on.
LogEntries(ls, m) == UNION {EntriesOf(ls[n].recs) : n \in {k \in DOMAIN ls : k >= m}}

\* What a log that is read again gives was in it.
LEMMA LogTablesInside ==
  ASSUME NEW recs \in Seq(Record)
  PROVE  \A t \in Range(LogTables(recs)) : t \subseteq ReplayedOf(recs)
<1> DEFINE n == Len(recs)
           X == {S \in Table : S \subseteq ReplayedOf(recs)}
           U == {s \in TableState : s.done \in Seq(X) /\ s.mem \in X}
<1>1. PICK h : /\ h[0] = [done |-> <<>>, mem |-> {}]
               /\ \A i \in 1 .. n : h[i] = TableStep(recs, i, h[i - 1])
               /\ \A i \in 0 .. n : h[i] \in TableState
               /\ LogTables(recs) = IF h[n].mem = {} THEN h[n].done
                                    ELSE Append(h[n].done, h[n].mem)
  BY LogTablesSteps
<1>2. n \in Nat /\ {} \in X
  BY TablesAreFinite
<1> DEFINE Good == {i \in 0 .. n : h[i] \in U}
<1>3. 0 \in Good
  <2>1. h[0].done = <<>> /\ h[0].mem = {} /\ 0 \in 0 .. n
    BY <1>1, <1>2
  <2> HIDE DEF X
  <2>2. h[0].done \in Seq(X) /\ h[0].mem \in X
    BY <1>2, <2>1
  <2> QED  BY <1>1, <2>1, <2>2
<1>4. ASSUME NEW i \in 1 .. n, i - 1 \in Good PROVE i \in Good
  <2> DEFINE s == h[i - 1]
             m == s.mem \cup Replayed(recs[i])
  <2>1. s \in U /\ s \in TableState /\ i \in 0 .. n /\ h[i] = TableStep(recs, i, s) /\ h[i] \in TableState
    BY <1>1, <1>2, <1>4
  <2>2. Replayed(recs[i]) \subseteq ReplayedOf(recs)
    <3>1. i \in DOMAIN recs
      OBVIOUS
    <3> QED  BY <3>1 DEF ReplayedOf
  <2>3. Replayed(recs[i]) \in Table
    <3>1. recs[i] \in Record
      OBVIOUS
    <3> QED  BY <3>1, ReplayedAre
  <2> HIDE DEF s
  <2>4. s.mem \in X /\ s.done \in Seq(X)
    BY <2>1
  <2>5. m \in X
    BY <2>2, <2>3, <2>4, TablesAreFinite
  <2> HIDE DEF m, X
  <2>6. Append(s.done, m) \in Seq(X)
    BY <2>4, <2>5
  <2>7. h[i] = IF Cardinality(m) > WriteBufferSize
               THEN [done |-> Append(s.done, m), mem |-> {}] ELSE [s EXCEPT !.mem = m]
    BY <2>1 DEF TableStep, m
  <2>8. h[i].done \in Seq(X) /\ h[i].mem \in X
    <3>1. CASE Cardinality(m) > WriteBufferSize
      BY <1>2, <2>6, <2>7, <3>1
    <3>2. CASE ~(Cardinality(m) > WriteBufferSize)
      <4>1. s \in [done : Seq(Table \ {{}}), mem : Table]
        BY <2>1 DEF TableState
      <4> QED  BY <2>4, <2>5, <2>7, <3>2, <4>1
    <3> QED  BY <3>1, <3>2
  <2> QED  BY <2>1, <2>8
<1>5. \A i \in 0 .. n : i \in Good
  <2> HIDE DEF Good
  <2> QED  BY <1>2, <1>3, <1>4, UptoInduction
<1>6. h[n].done \in Seq(X) /\ h[n].mem \in X
  <2>1. n \in Good
    <3> HIDE DEF n, Good
    <3> QED  BY <1>2, <1>5
  <2> HIDE DEF X
  <2>2. h[n] \in U
    <3> HIDE DEF n, U
    <3> QED  BY <2>1
  <2> QED  BY <2>2
<1>7. LogTables(recs) \in Seq(X)
  <2> HIDE DEF X
  <2>1. Append(h[n].done, h[n].mem) \in Seq(X)
    BY <1>6
  <2> QED  BY <1>1, <1>6, <2>1
<1>8. Range(LogTables(recs)) \subseteq X
  <2> HIDE DEF X
  <2> QED  BY <1>7, SeqOver
<1> QED  BY <1>8

\* The tables that recovery makes hold what was in the logs.
LEMMA RecoveredInside ==
  ASSUME IsLogs(logs), NEW minLog \in Nat, NEW from \in Nat,
         NEW r, r = RecoverLogs(minLog, from)
  PROVE  \A t \in Range(r.new) : t.entries \subseteq ReplayedFrom(minLog)
<1> DEFINE X == {t \in NewTable : t.entries \subseteq ReplayedFrom(minLog)}
<1>0. PICK order \in Seq(LogsFrom(minLog)) : \E h :
        /\ h[0] = [next |-> from, new |-> <<>>]
        /\ \A i \in 1 .. Len(order) : h[i] = ReplayStep(order, i, h[i - 1])
        /\ \A i \in 0 .. Len(order) : h[i] \in ReplayState(from)
        /\ r = h[Len(order)]
  BY ReplaySteps
<1>1. PICK h :
        /\ h[0] = [next |-> from, new |-> <<>>]
        /\ \A i \in 1 .. Len(order) : h[i] = ReplayStep(order, i, h[i - 1])
        /\ \A i \in 0 .. Len(order) : h[i] \in ReplayState(from)
        /\ r = h[Len(order)]
  BY <1>0
<1> DEFINE n == Len(order)
<1>2. n \in Nat
  OBVIOUS
<1> DEFINE Good == {i \in 0 .. n : h[i].new \in Seq(X)}
<1>3. 0 \in Good
  <2>1. h[0].new = <<>> /\ 0 \in 0 .. n
    BY <1>1, <1>2
  <2>2. h[0].new \in Seq(X)
    <3> HIDE DEF X
    <3>1. <<>> \in Seq(X)
      OBVIOUS
    <3> QED  BY <2>1, <3>1
  <2> HIDE DEF X
  <2> QED  BY <2>1, <2>2
<1>4. ASSUME NEW i \in 1 .. n, i - 1 \in Good PROVE i \in Good
  <2> DEFINE s == h[i - 1]
             recs == logs[order[i]].recs
             made == LogTables(recs)
             some == [j \in DOMAIN made |-> [number |-> s.next + j - 1, entries |-> made[j]]]
  <2>1. i \in 0 .. n /\ i - 1 \in 0 .. n /\ h[i] = ReplayStep(order, i, s) /\ s.new \in Seq(X)
    <3>1. i \in 0 .. n /\ i - 1 \in 0 .. n
      BY <1>2
    <3>2. h[i] = ReplayStep(order, i, s)
      BY <1>1
    <3>3. s.new \in Seq(X)
      <4> HIDE DEF X
      <4> QED  BY <1>4
    <3> QED  BY <3>1, <3>2, <3>3
  <2>2. s \in ReplayState(from) /\ h[i] \in ReplayState(from)
    BY <1>1, <2>1
  <2>3. order[i] \in DOMAIN logs /\ order[i] >= minLog
    BY <1>2 DEF LogsFrom
  <2>4. recs \in Seq(Record) /\ ReplayedOf(recs) \subseteq ReplayedFrom(minLog)
    <3>1. recs \in Seq(Record)
      BY <2>3 DEF IsLogs, LogFile
    <3> QED  BY <2>3, <3>1 DEF ReplayedFrom, LogsFrom
  <2> HIDE DEF recs
  <2>5. made \in Seq(Table \ {{}}) /\ \A t \in Range(made) : t \subseteq ReplayedOf(recs)
    BY <2>4, LogTablesAre, LogTablesInside
  <2>6. h[i].new = s.new \o some
    BY <2>1 DEF ReplayStep, recs
  <2> HIDE DEF s, made
  <2>7. DOMAIN made = 1 .. Len(made) /\ Len(made) \in Nat /\ s.next \in Nat
    BY <2>2, <2>5 DEF ReplayState
  <2>8. ASSUME NEW j \in 1 .. Len(made) PROVE some[j] \in X
    <3>1. made[j] \in Table \ {{}} /\ made[j] \in Range(made)
      BY <2>5, <2>7 DEF Range
    <3>2. made[j] \subseteq ReplayedFrom(minLog)
      BY <2>4, <2>5, <3>1
    <3>3. s.next + j - 1 \in Nat
      BY <2>7
    <3>4. some[j] = [number |-> s.next + j - 1, entries |-> made[j]]
      BY <2>7
    <3> QED  BY <3>1, <3>2, <3>3, <3>4 DEF NewTable
  <2>9. some \in [1 .. Len(made) -> X]
    <3>1. some = [j \in 1 .. Len(made) |-> some[j]]
      BY <2>7
    <3> HIDE DEF some, X
    <3> QED  BY <2>8, <3>1
  <2>10. some \in Seq(X)
    <3> HIDE DEF some, X
    <3> QED  BY <2>7, <2>9
  <2> HIDE DEF some, X
  <2>11. s.new \o some \in Seq(X)
    BY <2>1, <2>10 DEF s
  <2> QED  BY <2>1, <2>6, <2>11
<1>5. \A i \in 0 .. n : i \in Good
  <2> HIDE DEF Good
  <2> QED  BY <1>2, <1>3, <1>4, UptoInduction
<1>6. r.new \in Seq(X)
  BY <1>1, <1>2, <1>5
<1>7. Range(r.new) \subseteq X
  <2> HIDE DEF X
  <2> QED  BY <1>6, SeqOver
<1> QED  BY <1>7

\* A table that recovery makes holds what it made.
LEMMA RecoveredTable ==
  ASSUME NEW tb, NEW new, NEW n \in {t.number : t \in Range(new)},
         NEW S, \A t \in Range(new) : t.entries \subseteq S
  PROVE  With(tb, new)[n] \subseteq S
<1>1. With(tb, new)[n] = (CHOOSE t \in Range(new) : t.number = n).entries
  BY DEF With
<1>2. (CHOOSE t \in Range(new) : t.number = n) \in Range(new)
  OBVIOUS
<1> QED  BY <1>1, <1>2

\* What the records of a log hold.
LEMMA EntriesOfRecords ==
  ASSUME NEW rs \in Seq(Record)
  PROVE  EntriesOf(rs) \in Table
<1> DEFINE t == [i \in 1 .. Len(rs) |-> Entries(rs[i])]
           U == {t[i] : i \in 1 .. Len(rs)}
<1>1. \A i \in 1 .. Len(rs) : t[i] \in Table
  <2> SUFFICES ASSUME NEW i \in 1 .. Len(rs) PROVE Entries(rs[i]) \in Table
    OBVIOUS
  <2>1. rs[i] \in Record
    OBVIOUS
  <2> QED  BY <2>1, EntriesAre DEF Record
<1>2. EntriesOf(rs) = UNION U
  <2>1. DOMAIN rs = 1 .. Len(rs)
    OBVIOUS
  <2>2. EntriesOf(rs) = UNION {Entries(rs[i]) : i \in 1 .. Len(rs)}
    BY <2>1 DEF EntriesOf
  <2> QED  BY <2>2
<1>3. IsFiniteSet(1 .. Len(rs))
  BY FS_Interval
<1> HIDE DEF t
<1>4. IsFiniteSet(U)
  BY <1>3, ImageIsFinite
<1>5. IsFiniteSet(UNION U)
  BY <1>1, <1>4, FS_UNION DEF Table
<1>6. UNION U \subseteq IKey
  BY <1>1 DEF Table
<1> QED  BY <1>2, <1>5, <1>6 DEF Table

\* The logs from one number on hold a finite set of entries, fewer the higher
\* the number.
LEMMA EntriesOfLogs ==
  ASSUME NEW ls, IsLogs(ls)
  PROVE  /\ \A m : LogEntries(ls, m) \subseteq IKey /\ IsFiniteSet(LogEntries(ls, m))
         /\ \A n \in DOMAIN ls : EntriesOf(ls[n].recs) \in Table
         /\ \A m : \A n \in DOMAIN ls : n >= m => EntriesOf(ls[n].recs) \subseteq LogEntries(ls, m)
         /\ \A m \in Nat, n \in Nat : m <= n => LogEntries(ls, n) \subseteq LogEntries(ls, m)
<1>1. ASSUME NEW n \in DOMAIN ls PROVE EntriesOf(ls[n].recs) \in Table
  BY EntriesOfRecords DEF IsLogs, LogFile
<1>2. ASSUME NEW m PROVE LogEntries(ls, m) \subseteq IKey /\ IsFiniteSet(LogEntries(ls, m))
  <2> DEFINE S == {n \in DOMAIN ls : n >= m}
             e == [n \in S |-> EntriesOf(ls[n].recs)]
             E == {e[n] : n \in S}
  <2>1. \A n \in S : e[n] \in Table
    BY <1>1
  <2>2. LogEntries(ls, m) = UNION E
    BY DEF LogEntries
  <2>3. IsFiniteSet(S)
    BY FS_Subset DEF IsLogs
  <2> HIDE DEF e, S
  <2>4. IsFiniteSet(E)
    BY <2>3, ImageIsFinite
  <2>5. IsFiniteSet(UNION E) /\ UNION E \subseteq IKey
    BY <2>1, <2>4, FS_UNION DEF Table
  <2> QED  BY <2>2, <2>5
<1>3. \A m : \A n \in DOMAIN ls : n >= m => EntriesOf(ls[n].recs) \subseteq LogEntries(ls, m)
  BY DEF LogEntries
<1>4. ASSUME NEW m \in Nat, NEW n \in Nat, m <= n PROVE LogEntries(ls, n) \subseteq LogEntries(ls, m)
  <2>1. \A k \in DOMAIN ls : k \in Nat
    BY DEF IsLogs
  <2> QED  BY <1>4, <2>1 DEF LogEntries
<1> QED  BY <1>1, <1>2, <1>3, <1>4

\* What is recovered was in the logs.
LEMMA ReplayedIs ==
  ASSUME IsLogs(logs), NEW minLog
  PROVE  ReplayedFrom(minLog) \subseteq LogEntries(logs, minLog)
<1>1. \A n \in DOMAIN logs : ReplayedOf(logs[n].recs) \subseteq EntriesOf(logs[n].recs)
  BY ReplayedInside DEF IsLogs, LogFile
<1> QED  BY <1>1 DEF ReplayedFrom, LogsFrom, LogEntries

\* The last sequence number of a recovery is above all that is recovered.
LEMMA LastSequenceIs ==
  ASSUME IsLogs(logs), NEW minLog, NEW atLeast \in Nat
  PROVE  /\ LastSequenceIn(minLog, atLeast) \in Nat /\ atLeast <= LastSequenceIn(minLog, atLeast)
         /\ AtMost(ReplayedFrom(minLog), LastSequenceIn(minLog, atLeast))
<1> DEFINE E == ReplayedFrom(minLog)
           q == [x \in E |-> Sequence(x)]
           Q == {q[x] : x \in E}
<1>1. IsFiniteSet(E) /\ E \subseteq IKey
  BY EntriesOfLogs, ReplayedIs, FS_Subset
<1>2. LastSequenceIn(minLog, atLeast) = Max({atLeast} \cup Q)
  <2>1. LastSequenceIn(minLog, atLeast) = Max({atLeast} \cup {Sequence(x) : x \in E})
    BY DEF LastSequenceIn, ReplayedFrom, LogsFrom
  <2> HIDE DEF E
  <2>2. Q = {Sequence(x) : x \in E}
    OBVIOUS
  <2> QED  BY <2>1, <2>2
<1> HIDE DEF E
<1>3. \A x \in E : q[x] \in Nat /\ q[x] = Sequence(x)
  BY <1>1, IKeyParts
<1> HIDE DEF q
<1>4. IsFiniteSet(Q) /\ Q \subseteq Nat /\ \A x \in E : Sequence(x) \in Q
  BY <1>1, <1>3, ImageIsFinite
<1> HIDE DEF Q
<1>5. IsFiniteSet({atLeast} \cup Q) /\ {atLeast} \cup Q \subseteq Nat /\ {atLeast} \cup Q # {}
  BY <1>4, FS_Singleton, FS_Union
<1>6. Max({atLeast} \cup Q) \in {atLeast} \cup Q /\ \A x \in {atLeast} \cup Q : x <= Max({atLeast} \cup Q)
  BY <1>5, MaxOfSome
<1> QED  BY <1>2, <1>4, <1>5, <1>6 DEF AtMost, E

\* The sequence numbers of a batch, one for each of its entries.
LEMMA BatchNumbers ==
  ASSUME NEW b, b.seq \in Nat, b.ops \in Seq(Op)
  PROVE  /\ \A x \in Entries(b) : b.seq <= Sequence(x) /\ Sequence(x) + 1 <= b.seq + Len(b.ops)
         /\ OneEach(Entries(b))
<1> DEFINE e(i) == <<b.ops[i].key, b.seq + i - 1, IF b.ops[i].put THEN Value ELSE Deletion>>
<1>1. DOMAIN b.ops = 1 .. Len(b.ops) /\ Len(b.ops) \in Nat
  OBVIOUS
<1>2. \A i \in 1 .. Len(b.ops) : Sequence(e(i)) = b.seq + i - 1
  BY DEF Sequence
<1>3. \A x \in Entries(b) : \E i \in 1 .. Len(b.ops) : x = e(i)
  BY <1>1 DEF Entries
<1> HIDE DEF e
<1>4. \A x \in Entries(b) : b.seq <= Sequence(x) /\ Sequence(x) + 1 <= b.seq + Len(b.ops)
  BY <1>1, <1>2, <1>3
<1>5. OneEach(Entries(b))
  <2> SUFFICES ASSUME NEW x \in Entries(b), NEW y \in Entries(b), Sequence(x) = Sequence(y)
               PROVE  x = y
    BY DEF OneEach
  <2>1. PICK i \in 1 .. Len(b.ops) : x = e(i)
    BY <1>3
  <2>2. PICK j \in 1 .. Len(b.ops) : y = e(j)
    BY <1>3
  <2>3. b.seq + i - 1 = b.seq + j - 1
    BY <1>2, <2>1, <2>2
  <2>4. i = j
    BY <1>1, <2>3
  <2> QED  BY <2>1, <2>2, <2>4
<1> QED  BY <1>4, <1>5

\* What a compaction writes was in its inputs.
LEMMA OutputsInside ==
  ASSUME NEW c, NEW entries, IsFiniteSet(entries), NEW v, NEW oldest
  PROVE  EntriesIn(Outputs(c, entries, Kept(v, c, entries, oldest))) \subseteq entries
<1> DEFINE kept == Kept(v, c, entries, oldest)
           q == Outputs(c, entries, kept)
<1>1. kept \subseteq entries
  BY DEF Kept
<1> HIDE DEF kept
<1>2. q \in Seq((SUBSET kept) \ {{}})
  BY <1>1, OutputsAre
<1> HIDE DEF q
<1>3. \A i \in 1 .. Len(q) : q[i] \subseteq kept
  BY <1>2
<1> QED  BY <1>1, <1>3 DEF EntriesIn, q, kept

\* One more record, and the first records of a log.
LEMMA EntriesOfMore ==
  ASSUME NEW rs \in Seq(Record)
  PROVE  /\ \A r \in Record : EntriesOf(Append(rs, r)) = EntriesOf(rs) \cup Entries(r)
         /\ \A n \in 0 .. Len(rs) : EntriesOf(SubSeq(rs, 1, n)) \subseteq EntriesOf(rs)
<1>1. ASSUME NEW r \in Record PROVE EntriesOf(Append(rs, r)) = EntriesOf(rs) \cup Entries(r)
  <2> DEFINE q == Append(rs, r)
             n == Len(rs)
  <2>1. /\ DOMAIN q = 1 .. (n + 1) /\ DOMAIN rs = 1 .. n /\ n \in Nat
        /\ q[n + 1] = r /\ \A i \in 1 .. n : q[i] = rs[i]
    OBVIOUS
  <2> HIDE DEF q, n
  <2>2. ASSUME NEW x \in EntriesOf(q) PROVE x \in EntriesOf(rs) \cup Entries(r)
    <3>1. PICK i \in 1 .. n + 1 : x \in Entries(q[i])
      BY <2>1, <2>2 DEF EntriesOf
    <3>2. i = n + 1 \/ i \in 1 .. n
      BY <2>1
    <3>3. ASSUME i \in 1 .. n PROVE x \in EntriesOf(rs)
      <4>1. x \in Entries(rs[i]) /\ i \in DOMAIN rs
        BY <2>1, <3>1, <3>3
      <4> QED  BY <4>1 DEF EntriesOf
    <3> QED  BY <2>1, <3>1, <3>2, <3>3
  <2>3. ASSUME NEW x \in EntriesOf(rs) PROVE x \in EntriesOf(q)
    <3>1. PICK i \in 1 .. n : x \in Entries(rs[i])
      BY <2>1, <2>3 DEF EntriesOf
    <3>2. x \in Entries(q[i]) /\ i \in DOMAIN q
      BY <2>1, <3>1
    <3> QED  BY <3>2 DEF EntriesOf
  <2>4. ASSUME NEW x \in Entries(r) PROVE x \in EntriesOf(q)
    <3>1. x \in Entries(q[n + 1]) /\ n + 1 \in DOMAIN q
      BY <2>1, <2>4
    <3> QED  BY <3>1 DEF EntriesOf
  <2> QED  BY <2>2, <2>3, <2>4 DEF q
<1>2. ASSUME NEW n \in 0 .. Len(rs) PROVE EntriesOf(SubSeq(rs, 1, n)) \subseteq EntriesOf(rs)
  <2> DEFINE q == SubSeq(rs, 1, n)
  <2>1. DOMAIN q \subseteq DOMAIN rs /\ \A i \in DOMAIN q : q[i] = rs[i]
    OBVIOUS
  <2> HIDE DEF q
  <2>2. EntriesOf(q) \subseteq EntriesOf(rs)
    BY <2>1 DEF EntriesOf
  <2> QED  BY <2>2 DEF q
<1> QED  BY <1>1, <1>2

\* Logs that hold no more, and logs that hold the same.
LEMMA FewerLogs ==
  ASSUME NEW ls, NEW less, DOMAIN less \subseteq DOMAIN ls,
         \A n \in DOMAIN less : EntriesOf(less[n].recs) \subseteq EntriesOf(ls[n].recs)
  PROVE  \A m : LogEntries(less, m) \subseteq LogEntries(ls, m)
BY DEF LogEntries

\* A new log holds nothing.
LEMMA NewLogEntries ==
  ASSUME NEW ls, IsLogs(ls), NEW n \in Nat, n \notin DOMAIN ls,
         NEW more, more = Put(ls, n, EmptyFile)
  PROVE  /\ DOMAIN more = DOMAIN ls \cup {n}
         /\ \A m : LogEntries(more, m) = LogEntries(ls, m)
         /\ EntriesOf(more[n].recs) = {}
         /\ (\A k \in DOMAIN ls : k < n) => LogEntries(more, n) = {}
<1>1. /\ DOMAIN more = DOMAIN ls \cup {n} /\ more[n] = EmptyFile
      /\ \A x \in DOMAIN ls : more[x] = ls[x]
  BY DEF Put
<1>2. EntriesOf(more[n].recs) = {}
  <2>1. EmptyFile.recs = <<>> /\ DOMAIN <<>> = {}
    BY DEF EmptyFile
  <2> QED  BY <1>1, <2>1 DEF EntriesOf
<1>3. ASSUME NEW m PROVE LogEntries(more, m) = LogEntries(ls, m)
  BY <1>1, <1>2 DEF LogEntries
<1>4. ASSUME \A k \in DOMAIN ls : k < n PROVE LogEntries(more, n) = {}
  <2>1. \A k \in DOMAIN more : k >= n => k = n
    BY <1>1, <1>4 DEF IsLogs
  <2> QED  BY <1>2, <2>1 DEF LogEntries
<1> QED  BY <1>1, <1>2, <1>3, <1>4

\* A log that has one more record.
LEMMA LongerLogEntries ==
  ASSUME NEW ls, IsLogs(ls), NEW n \in DOMAIN ls, NEW r \in Record,
         NEW more, DOMAIN more = DOMAIN ls, more[n].recs = Append(ls[n].recs, r),
         \A k \in DOMAIN ls : k # n => more[k] = ls[k]
  PROVE  /\ EntriesOf(more[n].recs) = EntriesOf(ls[n].recs) \cup Entries(r)
         /\ \A m : LogEntries(more, m) \subseteq LogEntries(ls, m) \cup Entries(r)
<1>1. ls[n].recs \in Seq(Record)
  BY DEF IsLogs, LogFile
<1>2. EntriesOf(more[n].recs) = EntriesOf(ls[n].recs) \cup Entries(r)
  BY <1>1, EntriesOfMore
<1>3. ASSUME NEW m, NEW x \in LogEntries(more, m) PROVE x \in LogEntries(ls, m) \cup Entries(r)
  <2>1. PICK k \in DOMAIN more : k >= m /\ x \in EntriesOf(more[k].recs)
    BY <1>3 DEF LogEntries
  <2>2. k \in DOMAIN ls /\ (x \in EntriesOf(ls[k].recs) \/ x \in Entries(r))
    BY <1>2, <2>1
  <2> QED  BY <2>1, <2>2 DEF LogEntries
<1> QED  BY <1>2, <1>3

\* Synchronising a log changes nothing of what the logs hold.
LEMMA SyncedLogEntries ==
  ASSUME NEW ls, IsLogs(ls), NEW n \in DOMAIN ls,
         NEW more, more = [ls EXCEPT ![n] = SyncFile(@)]
  PROVE  /\ DOMAIN more = DOMAIN ls
         /\ \A k \in DOMAIN ls : more[k].recs = ls[k].recs
<1> DEFINE g == SyncFile(ls[n])
<1>1. ls[n] \in [recs : Seq(Record), synced : Nat]
  BY DEF IsLogs, LogFile
<1>2. g = [ls[n] EXCEPT !.synced = Len(ls[n].recs)]
  BY DEF SyncFile
<1>3. more = [ls EXCEPT ![n] = g]
  OBVIOUS
<1> HIDE DEF g
<1>4. g.recs = ls[n].recs
  BY <1>1, <1>2
<1> QED  BY <1>3, <1>4 DEF IsLogs

\* What a failure leaves of the logs was there.
LEMMA CutLogEntries ==
  ASSUME NEW ls, IsLogs(ls), NEW cut, MayCut(ls, cut), NEW less, less = Left(ls, cut)
  PROVE  \A m : LogEntries(less, m) \subseteq LogEntries(ls, m)
<1>1. DOMAIN less = DOMAIN ls
  BY DEF Left
<1>2. ASSUME NEW n \in DOMAIN ls PROVE EntriesOf(less[n].recs) \subseteq EntriesOf(ls[n].recs)
  <2> DEFINE f == ls[n]
             p == SubSeq(f.recs, 1, cut[n])
             h == [f EXCEPT !.recs = p]
  <2>1. f.recs \in Seq(Record) /\ f.synced \in Nat /\ f \in [recs : Seq(Record), synced : Nat]
    BY DEF IsLogs, LogFile
  <2>2. cut[n] \in 0 .. Len(f.recs)
    BY <2>1 DEF MayCut
  <2>3. EntriesOf(p) \subseteq EntriesOf(f.recs)
    BY <2>1, <2>2, EntriesOfMore
  <2>4. less[n] = [h EXCEPT !.synced = Len(h.recs)]
    BY DEF Left, CutFile, SyncFile
  <2> HIDE DEF f, p
  <2>5. h = [recs |-> p, synced |-> f.synced]
    BY <2>1
  <2> HIDE DEF h
  <2>6. less[n].recs = p
    BY <2>4, <2>5
  <2> QED  BY <2>3, <2>6 DEF f
<1> QED  BY <1>1, <1>2, FewerLogs

\* The last log alone.
LEMMA LastLogEntries ==
  ASSUME NEW ls, IsLogs(ls), NEW n \in DOMAIN ls, \A m \in DOMAIN ls : m <= n
  PROVE  LogEntries(ls, n) = EntriesOf(ls[n].recs)
<1>1. \A m \in DOMAIN ls : m >= n <=> m = n
  BY DEF IsLogs
<1> QED  BY <1>1 DEF LogEntries

(******************************************************************************)
(* What the steps leave                                                       *)
(******************************************************************************)
\* What is known of the records that may survive.
LEMMA DurableFacts ==
  ASSUME LevelDBInv
  PROVE  /\ IsTables(tables) /\ IsLogs(logs) /\ IsFile(Manifest) /\ IsSeq(Manifest.recs)
         /\ Len(Manifest.recs) \in Durable(Manifest)
         /\ SubSeq(Manifest.recs, 1, Len(Manifest.recs)) = Manifest.recs
         /\ \A n \in Durable(Manifest) :
              /\ n \in 1 .. Len(Manifest.recs)
              /\ Manifest.recs[n].last \in Nat /\ Manifest.recs[n].log \in Nat
              /\ Manifest.recs[n].next \in Nat
              /\ GoodVersion(VersionOf(SubSeq(Manifest.recs, 1, n)), tables, Manifest.recs[n].next)
<1>1. IsTables(tables) /\ IsLogs(logs) /\ Records(Manifest, current, tables)
  BY DEF LevelDBInv, Disk
<1>2. /\ IsFile(Manifest) /\ IsSeq(Manifest.recs) /\ Len(Manifest.recs) \in Durable(Manifest)
      /\ \A n \in Durable(Manifest) : n \in 1 .. Len(Manifest.recs)
  BY <1>1 DEF Records, IsFile, IsSeq, Durable
<1>3. SubSeq(Manifest.recs, 1, Len(Manifest.recs)) = Manifest.recs
  BY <1>2, WholePrefix
<1> QED  BY <1>1, <1>2, <1>3 DEF Records

\* The manifest with one more record.
LEMMA LoggedRecords ==
  ASSUME LevelDBInv, phase = "open", VersionOf(Manifest.recs) = vset.v,
         NEW e, LogAndApply(e), UNCHANGED current
  PROVE  /\ edit' = e /\ Len(Manifest'.recs) = Len(Manifest.recs) + 1
         /\ Manifest'.recs[Len(Manifest'.recs)] = e
         /\ VersionOf(SubSeq(Manifest'.recs, 1, Len(Manifest'.recs))) = SaveTo(vset.v, e)
         /\ SubSeq(Manifest'.recs, 1, Len(Manifest.recs)) = Manifest.recs /\ Len(Manifest.recs) \in Nat
         /\ \A n \in Durable(Manifest') :
              \/ n = Len(Manifest'.recs)
              \/ /\ n \in Durable(Manifest) /\ Manifest'.recs[n] = Manifest.recs[n]
                 /\ SubSeq(Manifest'.recs, 1, n) = SubSeq(Manifest.recs, 1, n)
<1> DEFINE N == Len(Manifest.recs)
           g == AddRecord(Manifest, e)
<1>1. /\ vset.manifest = current /\ current \in DOMAIN manifests
      /\ IsFile(Manifest) /\ IsSeq(Manifest.recs) /\ N \in Nat /\ Manifest.synced \in 1 .. N
  BY OpenFacts DEF Records, IsFile, IsSeq
<1>2. IsFile(g) /\ g.recs = Append(Manifest.recs, e) /\ g.synced = Manifest.synced
  BY <1>1, AddRecordIs
<1>3. /\ Len(g.recs) = N + 1 /\ g.recs[N + 1] = e /\ IsSeq(g.recs)
      /\ \A n \in 0 .. N : SubSeq(g.recs, 1, n) = SubSeq(Manifest.recs, 1, n)
      /\ \A n \in 1 .. N : g.recs[n] = Manifest.recs[n]
      /\ SubSeq(Manifest.recs, 1, N) = Manifest.recs
  BY <1>1, <1>2, AppendedSeq, WholePrefix
<1>4. Manifest' = g /\ edit' = e
  <2>1. manifests' = [manifests EXCEPT ![current] = g] /\ edit' = e
    BY <1>1 DEF LogAndApply, Manifest
  <2> HIDE DEF g
  <2>2. manifests = [n \in DOMAIN manifests |-> manifests[n]]
    BY DEF LevelDBInv, Disk
  <2> QED  BY <1>1, <2>1, <2>2 DEF Manifest
<1> HIDE DEF g, N
<1>5. VersionOf(SubSeq(g.recs, 1, N + 1)) = SaveTo(vset.v, e)
  <2>1. SubSeq(g.recs, 1, N) = Manifest.recs
    BY <1>1, <1>3
  <2>2. N + 1 \in 1 .. Len(g.recs) /\ (N + 1) - 1 = N
    BY <1>1, <1>3
  <2>3. VersionOf(SubSeq(g.recs, 1, N + 1)) = SaveTo(VersionOf(SubSeq(g.recs, 1, (N + 1) - 1)), g.recs[N + 1])
    BY <1>3, <2>2, VersionPrefix
  <2> QED  BY <1>3, <2>1, <2>2, <2>3
<1>6. \A n \in Durable(g) : n = N + 1 \/ (n \in Durable(Manifest) /\ n \in 1 .. N)
  BY <1>1, <1>2, <1>3 DEF Durable, N
<1>7. 1 .. N \subseteq 0 .. N /\ N \in 0 .. N
  BY <1>1
<1> QED  BY <1>1, <1>3, <1>4, <1>5, <1>6, <1>7 DEF N

\* A compaction that begins changes no table.
LEMMA StartIs ==
  ASSUME LevelDBInv, phase = "open", NEW c, NEW manual, StartCompaction(c, manual)
  PROVE  /\ Later /\ UNCHANGED <<tables, logs, imm, logfile, bgError>>
         /\ vset'.last = vset.last /\ vset'.next = vset.next
<1> DEFINE p == [vset.pointers EXCEPT ![c.level] = c.pointer]
           vs == [vset EXCEPT !.pointers[c.level] = c.pointer]
<1>1. /\ vset' = vs
      /\ UNCHANGED <<logs, tables, current, phase, mem, imm, logfile, seek, writer,
                     snapshots, reader, bgError, history, doubt>>
  BY DEF StartCompaction
<1>2. /\ VersionSetType /\ vset.next \in Nat /\ vset.log \in Nat /\ vset.last \in Nat
      /\ (\A x \in DOMAIN tables \cup DOMAIN logs : x < vset.next) /\ IsTables(tables)
  BY OpenFacts
<1>3. vs = [vset EXCEPT !.pointers = p]
  BY <1>2 DEF VersionSetType
<1>4. vs.next = vset.next /\ vs.v = vset.v /\ vs.log = vset.log /\ vs.manifest = vset.manifest
      /\ vs.last = vset.last /\ VersionSetType'
  <2> HIDE DEF vs, p
  <2> QED  BY <1>1, <1>2, <1>3 DEF VersionSetType
<1> HIDE DEF vs
<1>5. Later
  <2>1. Agrees(tables, tables, vset.next)
    BY DEF Agrees
  <2>2. \A x \in DOMAIN tables : x < vset.next
    BY <1>2
  <2> QED  BY <1>1, <1>2, <1>4, <2>1, <2>2 DEF Later
<1> QED  BY <1>1, <1>4, <1>5

\* What a compaction writes is a table more.
LEMMA WrittenIs ==
  ASSUME LevelDBInv, WriteOutput
  PROVE  /\ phase = "open" /\ edit = None /\ comp # None
         /\ Later /\ vset'.last = vset.last /\ UNCHANGED <<manifests, edit>>
         /\ comp.todo \in Seq(Table \ {{}}) /\ comp.todo # <<>> /\ comp.done \in Seq(Range(comp.done))
         /\ comp'.c = comp.c /\ comp'.manual = comp.manual /\ comp'.todo = Tail(comp.todo)
         /\ comp'.done = Append(comp.done, FileOf(vset.next, Head(comp.todo)))
         /\ tables'[vset.next] = Head(comp.todo)
<1> DEFINE n == vset.next
           S == Head(comp.todo)
           f == FileOf(n, S)
           vs == [vset EXCEPT !.next = @ + 1]
           rest == Tail(comp.todo)
           made == Append(comp.done, f)
           X == Table \ {{}}
<1>1. /\ phase = "open" /\ edit = None /\ comp # None /\ comp.todo # <<>>
      /\ vset' = vs /\ tables' = Put(tables, n, S)
      /\ comp' = [comp EXCEPT !.todo = rest, !.done = made]
      /\ UNCHANGED <<logs, manifests, current, phase, mem, imm, logfile, seek, edit,
                     writer, snapshots, reader, bgError, history, doubt, events>>
  BY DEF WriteOutput, MayWork
<1>2. /\ VersionSetType /\ n \in Nat /\ vset.log \in Nat /\ vset.last \in Nat
      /\ (\A x \in DOMAIN tables \cup DOMAIN logs : x < n)
      /\ IsTables(tables)
  BY <1>1, OpenFacts
<1>3. comp \in [c : {comp.c}, manual : {comp.manual}, v : {comp.v},
                done : Seq(Range(comp.done)), todo : Seq(X)]
  BY <1>1 DEF LevelDBInv, OpenOnly, OpenUse
<1>4. S \in X
  <2>1. comp.todo \in Seq(X) /\ comp.todo # <<>>
    BY <1>1, <1>3
  <2> HIDE DEF X
  <2> QED  BY <2>1
<1>5. /\ vs.next = n + 1 /\ vs.v = vset.v /\ vs.log = vset.log /\ vs.manifest = vset.manifest
      /\ vs.last = vset.last /\ VersionSetType'
  BY <1>1, <1>2 DEF VersionSetType
<1> HIDE DEF vs, S, rest
<1>6. /\ IsTables(tables') /\ DOMAIN tables' = DOMAIN tables \cup {n}
      /\ Agrees(tables, tables', n) /\ tables'[n] = S
  <2>1. tables'[n] = S
    BY <1>1 DEF Put
  <2> QED  BY <1>1, <1>2, <1>4, <2>1, PutTable
<1> HIDE DEF n
<1>7. \A x \in DOMAIN tables' : x < n + 1
  <2>1. \A x \in DOMAIN tables : x \in Nat /\ x < n
    BY <1>2 DEF IsTables
  <2> QED  BY <1>2, <1>6, <2>1
<1>8. Later
  <2>1. vset' = vs /\ vset'.next = n + 1 /\ vset.next <= vset'.next
    BY <1>1, <1>2, <1>5 DEF n
  <2> QED  BY <1>1, <1>5, <1>6, <1>7, <2>1 DEF Later, n
<1> HIDE DEF made, X
<1>9. comp'.c = comp.c /\ comp'.manual = comp.manual /\ comp'.todo = rest /\ comp'.done = made
  BY <1>1, <1>3
<1>10. comp.todo \in Seq(X) /\ comp.done \in Seq(Range(comp.done))
  BY <1>3
<1> QED  BY <1>1, <1>5, <1>6, <1>8, <1>9, <1>10 DEF n, S, rest, made, X

\* What recovery leaves: the tables and logs there were, the tables made from
\* the logs, which hold nothing else, and the edit that adds them.
LEMMA RecoverIs ==
  ASSUME LevelDBInv, Recover
  PROVE  LET N == Len(Manifest.recs)
             e == Manifest.recs[N]
         IN  /\ phase' = "opening" /\ edit'.last = vset'.last /\ edit'.deleted = {}
             /\ vset'.v = VersionOf(SubSeq(Manifest.recs, 1, N)) /\ vset'.last \in Nat
             /\ e.last <= vset'.last /\ AtMost(ReplayedFrom(e.log), vset'.last)
             /\ Manifest' = Manifest /\ N \in Durable(Manifest)
             /\ (\A n \in Durable(Manifest) : Manifest.recs[n].next <= e.next)
             /\ Agrees(tables, tables', e.next + 1)
             /\ (\A n \in DOMAIN logs' : n <= logfile') /\ LogEntries(logs', logfile') = {}
             /\ (\A m : LogEntries(logs', m) = LogEntries(logs, m))
             /\ (\A a \in edit'.added :
                   a[1] = 0 /\ tables'[a[2].number] \subseteq ReplayedFrom(e.log))
<1> DEFINE recs == Manifest.recs
           N == Len(recs)
           e == Last(recs)
           r == RecoverLogs(e.log, e.next + 1)
           added == {<<0, FileOf(t.number, t.entries)>> : t \in Range(r.new)}
           vs == [v |-> VersionOf(recs), pointers |-> PointersOf(recs),
                  last |-> LastSequenceIn(e.log, e.last), next |-> r.next + 1,
                  log |-> e.log, manifest |-> e.next]
           save == NewEdit(vs, "open", {}, added, <<>>, r.next)
           f == [recs |-> <<Snapshot(vs), save>>, synced |-> 0]
<1>1. /\ phase = "closed" /\ phase' = "opening"
      /\ tables' = With(tables, r.new)
      /\ logs' = Put(logs, r.next, EmptyFile)
      /\ manifests' = Put(manifests, vs.manifest, f)
      /\ vset' = vs /\ logfile' = r.next /\ edit' = save
      /\ UNCHANGED current
  BY Zenon DEF Recover, With, Manifest
<1>2. /\ IsLogs(logs) /\ IsTables(tables) /\ current \in Nat /\ current \in DOMAIN manifests
      /\ manifests = [n \in DOMAIN manifests |-> manifests[n]]
      /\ Records(Manifest, current, tables)
  BY DEF LevelDBInv, Disk
<1>3. IsSeq(recs) /\ N \in Nat \ {0} /\ N \in Durable(Manifest) /\ e = recs[N]
      /\ SubSeq(recs, 1, N) = recs /\ \A n \in Durable(Manifest) : n <= N
  BY <1>2, WholePrefix DEF Records, IsFile, IsSeq, Durable, Last
<1>4. /\ e.log \in Nat /\ e.next \in Nat /\ e.last \in Nat /\ e.log < e.next /\ current < e.next
      /\ e.next + 1 \in Nat
      /\ \A n \in Durable(Manifest) : Manifest.recs[n].next <= e.next
  BY <1>2, <1>3 DEF Records
<1> HIDE DEF e, N
<1>5. /\ r \in ReplayState(e.next + 1) /\ \A n \in DOMAIN logs : n >= e.log => n < r.next
  BY <1>2, <1>4, RecoverLogsGives
<1>6. \A t \in Range(r.new) : t.entries \subseteq ReplayedFrom(e.log)
  BY <1>2, <1>4, RecoveredInside
<1> HIDE DEF r
<1>7. r.next \in Nat /\ e.next + 1 <= r.next
  BY <1>5 DEF ReplayState
<1>8. \A n \in DOMAIN logs : n \in Nat /\ n < r.next
  <2> SUFFICES ASSUME NEW n \in DOMAIN logs PROVE n \in Nat /\ n < r.next
    OBVIOUS
  <2>1. n \in Nat
    BY <1>2 DEF IsLogs
  <2>2. CASE n >= e.log
    BY <1>5, <2>1, <2>2
  <2>3. CASE ~(n >= e.log)
    BY <1>4, <1>7, <2>1, <2>3
  <2> QED  BY <2>2, <2>3
<1>9. /\ \A n \in DOMAIN logs' : n <= r.next
      /\ LogEntries(logs', r.next) = {} /\ \A m : LogEntries(logs', m) = LogEntries(logs, m)
  <2>1. r.next \notin DOMAIN logs
    BY <1>7, <1>8
  <2> DEFINE n == r.next
             more == logs'
  <2>2. /\ IsLogs(logs) /\ n \in Nat /\ n \notin DOMAIN logs /\ more = Put(logs, n, EmptyFile)
        /\ \A k \in DOMAIN logs : k < n
    BY <1>1, <1>2, <1>7, <1>8, <2>1
  <2> HIDE DEF n, more
  <2>3. /\ DOMAIN more = DOMAIN logs \cup {n} /\ LogEntries(more, n) = {}
        /\ \A m : LogEntries(more, m) = LogEntries(logs, m)
    BY <2>2, NewLogEntries
  <2> QED  BY <1>7, <1>8, <2>3 DEF n, more
<1>10. Agrees(tables, tables', e.next + 1)
  BY <1>1, <1>2, <1>4, <1>5, TablesRecovered
<1>11. /\ vs.v = VersionOf(recs) /\ vs.manifest = e.next /\ vs.last = LastSequenceIn(e.log, e.last)
  OBVIOUS
<1>12. /\ vs.last \in Nat /\ e.last <= vs.last /\ AtMost(ReplayedFrom(e.log), vs.last)
  BY <1>2, <1>4, <1>11, LastSequenceIs
<1> HIDE DEF vs
<1>13. save.added = added /\ save.deleted = {} /\ save.last = vs.last
  <2> HIDE DEF added
  <2> QED  BY DEF NewEdit
<1> HIDE DEF save, f
<1>14. Manifest' = Manifest
  <2>1. current # e.next
    BY <1>2, <1>4
  <2> QED  BY <1>1, <1>2, <1>11, <2>1 DEF Put, Manifest
<1>15. ASSUME NEW a \in added
       PROVE  a[1] = 0 /\ tables'[a[2].number] \subseteq ReplayedFrom(e.log)
  <2>1. PICK t \in Range(r.new) : a = <<0, FileOf(t.number, t.entries)>>
    OBVIOUS
  <2>2. FileOf(t.number, t.entries).number = t.number
    BY DEF FileOf
  <2>3. With(tables, r.new)[t.number] \subseteq ReplayedFrom(e.log)
    <3>1. t.number \in {u.number : u \in Range(r.new)}
      OBVIOUS
    <3> QED  BY <1>6, <3>1, RecoveredTable
  <2> QED  BY <1>1, <2>1, <2>2, <2>3
<1> HIDE DEF added
<1> QED
  BY <1>1, <1>3, <1>4, <1>9, <1>10, <1>11, <1>12, <1>13, <1>14, <1>15 DEF N

\* What opening leaves: the new manifest with its two records, and fewer files.
LEMMA OpenDoneIs ==
  ASSUME LevelDBInv, OpenDone
  PROVE  /\ phase = "opening" /\ phase' = "open" /\ edit' = None /\ comp' = None /\ imm' = None
         /\ mem' = {} /\ writer' = None /\ logfile' = logfile
         /\ vset'.v = SaveTo(vset.v, edit) /\ vset'.log = logfile /\ vset'.last = vset.last
         /\ vset.last \in Nat /\ logfile \in Nat
         /\ Durable(Manifest') = {2} /\ Manifest'.recs[2] = edit /\ edit.log = logfile
         /\ Len(Manifest'.recs) = 2 /\ SubSeq(Manifest'.recs, 1, 2) = Manifest'.recs
         /\ VersionOf(SubSeq(Manifest'.recs, 1, 2)) = vset'.v
         /\ (\A x \in DOMAIN tables' : x \in DOMAIN tables /\ tables'[x] = tables[x])
         /\ (\A x \in DOMAIN logs' : x \in DOMAIN logs /\ logs'[x] = logs[x])
<1> DEFINE s == Saved.recs[1]
           d == edit
           q == <<s, d>>
           g == SyncFile(Saved)
           live == UNION {{f.number : f \in FilesOf(v)} : v \in {Installed.v}}
           less == {n \in DOMAIN logs : n >= edit.log}
<1>1. /\ phase = "opening" /\ phase' = "open" /\ current' = vset.manifest
      /\ vset' = Installed /\ edit' = None
      /\ DeleteObsoleteFiles(Installed, {Installed.v}, {})
      /\ UNCHANGED <<comp, imm, mem, writer, logfile>>
  BY DEF OpenDone
<1>2. /\ VersionSetType /\ vset.manifest \in Nat /\ vset.manifest \in DOMAIN manifests
      /\ Saved \in [recs : {q}, synced : {0}] /\ SaveTo(EmptyVersion, s) = vset.v
      /\ edit.log = logfile /\ logfile \in DOMAIN logs /\ vset.last \in Nat
  BY <1>1 DEF LevelDBInv, Saving, VersionSetType
<1>3. /\ comp = None /\ imm = None /\ mem = {} /\ writer = None /\ logfile \in Nat
      /\ manifests = [n \in DOMAIN manifests |-> manifests[n]]
  BY <1>1, <1>2 DEF LevelDBInv, Stopped, Disk, IsLogs
<1>4. /\ Installed.v = SaveTo(vset.v, d) /\ Installed.manifest = vset.manifest
      /\ Installed.log = edit.log /\ Installed.last = vset.last
  BY <1>2 DEF Installed, VersionSetType
<1>5. /\ (\A x \in DOMAIN tables' : x \in DOMAIN tables /\ tables'[x] = tables[x])
      /\ (\A x \in DOMAIN logs' : x \in DOMAIN logs /\ logs'[x] = logs[x])
  <2>1. tables' = Keep(tables, live) /\ logs' = Keep(logs, less)
    BY <1>1, <1>4 DEF DeleteObsoleteFiles
  <2> HIDE DEF live, less
  <2> QED  BY <2>1 DEF Keep
<1> HIDE DEF s, d, live, less
<1>6. Len(q) = 2 /\ q[2] = d /\ SubSeq(q, 1, 2) = q /\ VersionOf(q) = Installed.v
  <2>1. AreTwo(q, s, d)
    BY DEF AreTwo
  <2> HIDE DEF q
  <2>2. /\ Len(q) = 2 /\ q[2] = d /\ SubSeq(q, 1, 2) = q
        /\ VersionOf(q) = SaveTo(SaveTo(EmptyVersion, s), d)
    BY <2>1, TwoRecords
  <2> QED  BY <1>2, <1>4, <2>2
<1> HIDE DEF q
<1>7. g.recs = q /\ Durable(g) = {2}
  <2>1. Saved.recs = q /\ g = [Saved EXCEPT !.synced = 2]
    BY <1>2, <1>6 DEF SyncFile
  <2> HIDE DEF g
  <2>2. g.recs = q /\ g.synced = 2
    BY <1>2, <2>1
  <2>3. Durable(g) = 2 .. 2
    BY <1>6, <2>2 DEF Durable
  <2> QED  BY <2>2, <2>3
<1> HIDE DEF g
<1>8. Manifest' = g
  <2>1. manifests' = [n \in {m \in DOMAIN manifests : m >= vset.manifest} |->
                        IF n = vset.manifest THEN g ELSE manifests[n]]
    BY <1>1, <1>4 DEF DeleteObsoleteFiles, g, Saved
  <2>2. vset.manifest \in {m \in DOMAIN manifests : m >= vset.manifest}
    BY <1>2
  <2> QED  BY <1>1, <2>1, <2>2 DEF Manifest
<1> QED  BY <1>1, <1>2, <1>3, <1>4, <1>5, <1>6, <1>7, <1>8 DEF d

(******************************************************************************)
(* The levels stay in order                                                   *)
(******************************************************************************)
\* Whatever survives a failure of the machine gives levels in order.
DiskOrder == \A n \in Durable(Manifest) : Disjoint(VersionOf(SubSeq(Manifest.recs, 1, n)))

StoppedOrder ==
  /\ phase = "closed" => vset.v = EmptyVersion
  /\ phase = "opening" => Disjoint(vset.v) /\ Disjoint(SaveTo(vset.v, edit))

\* The manifest says what the version is.
OpenOrder ==
  phase = "open" =>
    /\ Disjoint(vset.v)
    /\ edit = None => VersionOf(Manifest.recs) = vset.v \/ (bgError = TRUE /\ comp = None)
    /\ edit # None => VersionOf(SubSeq(Manifest.recs, 1, Len(Manifest.recs) - 1)) = vset.v

\* An edit on its way that is not the compaction's own does not disturb it.
CompOrder ==
  phase = "open" /\ comp # None =>
    /\ OutputsInOrder(comp) /\ Prepared(vset.v, comp.c)
    /\ edit # None /\ edit.kind # "compaction" => Prepared(SaveTo(vset.v, edit), comp.c)

LevelsInv == DiskOrder /\ StoppedOrder /\ OpenOrder /\ CompOrder

\* A compaction that was not asked for leaves room for a memtable.
SidesInv ==
  phase = "open" /\ comp # None /\ ~comp.manual =>
    /\ Sided(vset.v, comp.c)
    /\ edit # None /\ edit.kind # "compaction" => Sided(SaveTo(vset.v, edit), comp.c)

\* Files in order follow each other.
LEMMA DisjointInLine ==
  ASSUME NEW tb, IsTables(tb), NEW n, n \in Nat, NEW v, GoodVersion(v, tb, n), Disjoint(v),
         NEW l \in Levels \ {0}
  PROVE  InLine(v[l])
<1> DEFINE q == v[l]
<1>1. EndedFiles(Range(q)) /\ q = InOrder(Range(q), BySmallestKey) /\ DisjointLevel(Range(q))
  BY GoodEnded DEF GoodVersion, Disjoint
<1> HIDE DEF q
<1>2. Following(q) /\ IsSeq(q)
  BY <1>1, FilesFollow
<1>3. ASSUME NEW i \in 1 .. (Len(q) - 1) PROVE Before(q[i].largest, q[i + 1].smallest)
  <2>1. i \in 1 .. Len(q) /\ i + 1 \in 1 .. Len(q) /\ i < i + 1
    BY <1>2 DEF IsSeq
  <2> QED  BY <1>2, <2>1 DEF Following
<1> QED  BY <1>3 DEF InLine, q

LEMMA LevelsInvOrders == LevelDBInv /\ LevelsInv => LevelsDisjoint
<1> SUFFICES ASSUME LevelDBInv, LevelsInv, NEW l \in Levels \ {0}
             PROVE  InLine(vset.v[l])
  BY DEF LevelsDisjoint
<1>1. phase \in {"closed", "opening", "open"}
  BY DEF LevelDBInv, Stopped
<1>2. CASE phase = "closed"
  <2>1. vset.v[l] = <<>>
    BY <1>2 DEF LevelsInv, StoppedOrder, EmptyVersion
  <2> QED  BY <2>1 DEF InLine
<1>3. CASE phase = "opening" \/ phase = "open"
  <2>1. Disjoint(vset.v)
    BY <1>3 DEF LevelsInv, StoppedOrder, OpenOrder
  <2>2. IsTables(tables) /\ vset.next \in Nat /\ GoodVersion(vset.v, tables, vset.next)
    BY <1>3, OpenFacts DEF LevelDBInv, Saving, Disk, VersionSetType
  <2> QED  BY <2>1, <2>2, DisjointInLine
<1> QED  BY <1>1, <1>2, <1>3

\* What neither edits nor compacts leaves the levels as they are.
Quiet ==
  /\ UNCHANGED <<manifests, current, phase, edit>>
  /\ vset'.v = vset.v /\ comp' \in {comp, None}
  /\ bgError = TRUE => bgError' = TRUE

\* Such a step keeps levels in order.
LEMMA QuietKeepsOrder ==
  ASSUME Quiet
  PROVE  /\ LevelsInv => LevelsInv'
         /\ SidesInv => SidesInv'
<1>1. LevelsInv => DiskOrder' /\ StoppedOrder'
  BY DEF Quiet, LevelsInv, DiskOrder, StoppedOrder, Manifest
<1>2. LevelsInv => OpenOrder'
  BY DEF Quiet, LevelsInv, OpenOrder, Manifest
<1>3. LevelsInv => CompOrder'
  BY DEF Quiet, LevelsInv, CompOrder
<1>4. SidesInv => SidesInv'
  BY DEF Quiet, SidesInv
<1> QED  BY <1>1, <1>2, <1>3, <1>4 DEF LevelsInv

\* Writes, snapshots, reads and failing work are such steps.
LEMMA OthersAreQuiet ==
  ASSUME LevelDBInv,
         \/ SwitchMemTable \/ AddBatch \/ AddRecordFails \/ WriteDone \/ SyncFails \/ WorkFails
         \/ GetSnapshot \/ ReleaseSnapshot \/ BeginRead \/ EndRead \/ UNCHANGED vars
  PROVE  Quiet
<1>1. CASE SwitchMemTable
  <2>1. VersionSetType /\ vset' = [vset EXCEPT !.next = @ + 1]
    BY <1>1, OpenFacts DEF SwitchMemTable
  <2>2. vset'.v = vset.v
    BY <2>1 DEF VersionSetType
  <2> QED  BY <1>1, <2>2 DEF SwitchMemTable, Quiet
<1>2. CASE WriteDone \/ SyncFails
  <2>1. writer # None /\ phase = "open" /\ vset' = LastSequence
    BY <1>2 DEF WriteDone, SyncFails, LevelDBInv, Stopped
  <2>2. vset'.v = vset.v
    BY <2>1, OpenFacts, VersionSetLater DEF LevelDBInv, Batches
  <2> QED  BY <1>2, <2>2 DEF WriteDone, SyncFails, Quiet
<1>3. CASE AddBatch
  BY <1>3 DEF AddBatch, Quiet
<1>8. CASE AddRecordFails
  <2>1. phase = "open" /\ \E k : vset' = [vset EXCEPT !.last = @ + k]
    BY <1>8 DEF AddRecordFails
  <2>2. vset'.v = vset.v
    BY <2>1, OpenFacts DEF VersionSetType
  <2> QED  BY <1>8, <2>2 DEF AddRecordFails, Quiet
<1>4. CASE WorkFails
  BY <1>4 DEF WorkFails, Quiet
<1>5. CASE GetSnapshot \/ ReleaseSnapshot
  BY <1>5 DEF GetSnapshot, ReleaseSnapshot, Quiet
<1>6. CASE BeginRead \/ EndRead
  BY <1>6 DEF BeginRead, EndRead, Quiet
<1>7. CASE UNCHANGED vars
  BY <1>7 DEF vars, Quiet
<1> QED  BY <1>1, <1>2, <1>3, <1>4, <1>5, <1>6, <1>7, <1>8

\* A database that was never opened has no files out of order.
LEMMA InitLevelsInv == Init => LevelsInv /\ SidesInv
<1> SUFFICES ASSUME Init PROVE LevelsInv /\ SidesInv
  OBVIOUS
<1>1. phase = "closed" /\ vset = Closed
  BY DEF Init
<1>2. StoppedOrder /\ OpenOrder /\ CompOrder /\ SidesInv
  BY <1>1 DEF StoppedOrder, OpenOrder, CompOrder, SidesInv, Closed
<1>3. DiskOrder
  <2> DEFINE e == NewEdit([next |-> 2, last |-> 0], "new", {}, {}, <<>>, 0)
             q == <<e>>
             f == [EmptyFile EXCEPT !.recs = q]
  <2>1. manifests = [n \in {1} |-> SyncFile(f)] /\ current = 1
    BY DEF Init
  <2>2. e.added = {}
    BY DEF NewEdit
  <2> HIDE DEF e
  <2>3. IsSeq(q) /\ Len(q) = 1 /\ q[1] = e
    BY DEF IsSeq, Range
  <2> HIDE DEF q
  <2>0. Manifest.recs = q /\ Manifest.synced = 1
    <3>1. f = [recs |-> q, synced |-> 0]
      BY DEF EmptyFile
    <3> HIDE DEF f
    <3>2. SyncFile(f) = [f EXCEPT !.synced = Len(f.recs)]
      BY DEF SyncFile
    <3>3. SyncFile(f) = [recs |-> q, synced |-> 1]
      BY <2>3, <3>1, <3>2
    <3> QED  BY <2>1, <3>3 DEF Manifest
  <2>4. Durable(Manifest) = {1}
    BY <2>0, <2>3 DEF Durable
  <2>5. VersionOf(SubSeq(q, 1, 1)) = SaveTo(EmptyVersion, e)
    <3>1. SubSeq(q, 1, 0) = <<>>
      BY <2>3
    <3>2. 1 \in 1 .. Len(q) /\ 1 - 1 = 0
      BY <2>3
    <3>3. VersionOf(SubSeq(q, 1, 1)) = SaveTo(VersionOf(SubSeq(q, 1, 1 - 1)), q[1])
      BY <2>3, <3>2, VersionPrefix
    <3> QED  BY <2>3, <3>1, <3>2, <3>3, VersionOfNone
  <2>6. Disjoint(SaveTo(EmptyVersion, e))
    <3>1. IsTables(tables)
      BY InitLevelDBInv DEF LevelDBInv, Disk
    <3>2. GoodEdit(e, tables, 0)
      BY <2>2 DEF GoodEdit, GoodFiles, AddedAt
    <3>3. Disjoint(EmptyVersion)
      BY DEF Disjoint, DisjointLevel, EmptyVersion, Range
    <3> QED  BY <2>2, <3>1, <3>2, <3>3, GoodEmpty, OpenKeepsOrder
  <2> QED  BY <2>0, <2>4, <2>5, <2>6 DEF DiskOrder
<1> QED  BY <1>2, <1>3 DEF LevelsInv

\* An edit that is written to the manifest, before it is installed.
LEMMA LoggedKeepsOrder ==
  ASSUME LevelDBInv, LevelsInv, phase = "open", edit = None, bgError = TRUE => comp # None,
         NEW e, LogAndApply(e), e # None, UNCHANGED <<phase, current>>, vset'.v = vset.v,
         Disjoint(SaveTo(vset.v, e))
  PROVE  DiskOrder' /\ StoppedOrder' /\ OpenOrder' /\ edit' = e
<1> DEFINE N == Len(Manifest.recs)
           M == Len(Manifest'.recs)
<1>1. VersionOf(Manifest.recs) = vset.v
  BY DEF LevelsInv, OpenOrder
<1>2. /\ edit' = e /\ M = N + 1 /\ VersionOf(SubSeq(Manifest'.recs, 1, M)) = SaveTo(vset.v, e)
      /\ SubSeq(Manifest'.recs, 1, N) = Manifest.recs /\ N \in Nat
      /\ \A n \in Durable(Manifest') :
           \/ n = M
           \/ /\ n \in Durable(Manifest)
              /\ SubSeq(Manifest'.recs, 1, n) = SubSeq(Manifest.recs, 1, n)
  BY <1>1, LoggedRecords
<1>3. DiskOrder'
  BY <1>2 DEF LevelsInv, DiskOrder
<1>4. StoppedOrder'
  BY DEF StoppedOrder
<1>5. Disjoint(vset'.v)
  BY DEF LevelsInv, OpenOrder
<1>6. M - 1 = N
  BY <1>2
<1>7. VersionOf(SubSeq(Manifest'.recs, 1, M - 1)) = vset'.v
  BY <1>1, <1>2, <1>6
<1> HIDE DEF N
<1>8. OpenOrder'
  BY <1>2, <1>5, <1>7 DEF OpenOrder
<1> QED  BY <1>2, <1>3, <1>4, <1>8

\* A memtable is written to a level where neither the version nor the
\* compaction under way minds.
LEMMA FlushOrdered ==
  ASSUME LevelDBInv, LevelsInv, SidesInv, CompactMemTable, comp # None => ~comp.manual
  PROVE  LevelsInv' /\ SidesInv'
<1>1. /\ phase = "open" /\ edit = None /\ imm # None /\ comp' = comp
      /\ (bgError = TRUE => comp # None) /\ Later
      /\ \E f, level, e :
           /\ LogAndApply(e) /\ e.kind = "flush" /\ e.deleted = {} /\ e # None
           /\ e.added = IF imm.entries = {} THEN {} ELSE {<<level, f>>}
           /\ GoodEdit(e, tables', vset'.next)
           /\ level = PickLevelForMemTableOutput(vset.v, UserKey(f.smallest), UserKey(f.largest))
           /\ imm.entries # {} =>
                GoodFile(f, tables', vset'.next) /\ tables'[f.number] = imm.entries
  BY FlushIs
<1>2. PICK f, level, e :
        /\ LogAndApply(e) /\ e.kind = "flush" /\ e.deleted = {} /\ e # None
        /\ e.added = IF imm.entries = {} THEN {} ELSE {<<level, f>>}
        /\ GoodEdit(e, tables', vset'.next)
        /\ level = PickLevelForMemTableOutput(vset.v, UserKey(f.smallest), UserKey(f.largest))
        /\ imm.entries # {} => GoodFile(f, tables', vset'.next)
  BY <1>1
<1>3. /\ UNCHANGED <<current, phase>> /\ edit' = e /\ vset'.v = vset.v
      /\ IsTables(tables') /\ vset'.next \in Nat /\ GoodVersion(vset.v, tables', vset'.next)
  <2>1. /\ UNCHANGED <<current, phase>> /\ edit' = e /\ vset'.v = vset.v /\ IsTables(tables')
        /\ vset'.next \in Nat /\ vset.next <= vset'.next /\ Agrees(tables, tables', vset.next)
    BY <1>1, <1>2 DEF Later, LogAndApply, VersionSetType
  <2>2. GoodVersion(vset.v, tables, vset.next) /\ vset.next \in Nat /\ IsTables(tables)
    BY <1>1, OpenFacts
  <2>3. GoodVersion(vset.v, tables', vset'.next)
    BY <2>1, <2>2, GoodVersionInMore DEF Agrees
  <2> QED  BY <2>1, <2>3
<1>4. Disjoint(vset.v)
  BY <1>1 DEF LevelsInv, OpenOrder
<1>5. /\ Disjoint(SaveTo(vset.v, e))
      /\ \A c : Prepared(vset.v, c) /\ Sided(vset.v, c)
                 => Prepared(SaveTo(vset.v, e), c) /\ Sided(SaveTo(vset.v, e), c)
  <2>1. CASE imm.entries = {}
    <3>1. e.added = {}
      BY <1>2, <2>1
    <3> QED  BY <1>2, <1>3, <1>4, <3>1, EmptyKeepsOrder
  <2>2. CASE imm.entries # {}
    <3>1. Ended(f)
      BY <1>2, <1>3, <2>2, GoodEnds
    <3>2. e.added = {<<level, f>>}
      BY <1>2, <2>2
    <3> QED  BY <1>2, <1>3, <1>4, <3>1, <3>2, FlushKeepsOrder
  <2> QED  BY <2>1, <2>2
<1>6. DiskOrder' /\ StoppedOrder' /\ OpenOrder'
  BY <1>1, <1>2, <1>3, <1>5, LoggedKeepsOrder
<1>7. comp # None => OutputsInOrder(comp) /\ Prepared(vset.v, comp.c)
  BY <1>1 DEF LevelsInv, CompOrder
<1>8. CompOrder' /\ SidesInv'
  <2>1. comp # None => Sided(vset.v, comp.c)
    BY <1>1 DEF SidesInv
  <2> QED  BY <2>1, <1>1, <1>2, <1>3, <1>5, <1>7 DEF CompOrder, SidesInv
<1> QED  BY <1>6, <1>8 DEF LevelsInv

\* The files moved, or the outputs to write, are beside all others.
LEMMA StartOrdered ==
  ASSUME LevelDBInv, LevelDBInv', LevelsInv, phase = "open", edit = None, comp = None,
         bgError # TRUE, NEW c, SetUp(vset.v, c), NEW manual, StartCompaction(c, manual)
  PROVE  LevelsInv' /\ (manual = TRUE \/ Sided(vset.v, c) => SidesInv')
<1> DEFINE vs == [vset EXCEPT !.pointers[c.level] = c.pointer]
           moved == CHOOSE f \in Range(c.in0) : TRUE
           entries == UNION {tables[i[2].number] : i \in InputFiles(c)}
           oldest == IF snapshots = {} THEN vset.last ELSE Min(snapshots)
           kept == Kept(vset.v, c, entries, oldest)
           deleted == {<<c.level, moved>>}
           added == {<<c.level + 1, moved>>}
           ps == [l \in {c.level} |-> c.pointer]
           e == NewEdit(vs, "move", deleted, added, ps, vset.log)
<1>1. /\ vset' = vs
      /\ IF ~manual /\ IsTrivialMove(c) THEN LogAndApply(e) /\ UNCHANGED comp
         ELSE /\ comp' = [c |-> c, manual |-> manual, v |-> vset.v, done |-> <<>>, todo |-> Outputs(c, entries, kept)]
              /\ UNCHANGED <<edit, manifests>>
      /\ UNCHANGED <<tables, current, phase, bgError>>
  BY DEF StartCompaction
<1>2. /\ VersionSetType /\ IsTables(tables) /\ vset.next \in Nat
      /\ GoodVersion(vset.v, tables, vset.next)
  BY OpenFacts
<1>3. vs.v = vset.v /\ vs.next = vset.next
  <2> DEFINE p == [vset.pointers EXCEPT ![c.level] = c.pointer]
  <2>1. vs = [vset EXCEPT !.pointers = p]
    BY <1>2 DEF VersionSetType
  <2> HIDE DEF vs, p
  <2> QED  BY <1>2, <2>1 DEF VersionSetType
<1> HIDE DEF vs
<1>4. Disjoint(vset.v) /\ VersionOf(Manifest.recs) = vset.v
  BY DEF LevelsInv, OpenOrder
<1>5. Prepared(vset.v, c) /\ GoodFiles(InputSet(c), tables, vset.next)
  BY <1>2, <1>4, SetUpPrepared
<1>6. CASE ~manual /\ IsTrivialMove(c)
  <2>1. e.added = added /\ e # None
    <3>1. e = [kind |-> "move", deleted |-> deleted, added |-> added, pointers |-> ps,
               log |-> vset.log, next |-> vs.next, last |-> vs.last]
      BY DEF NewEdit
    <3> HIDE DEF e, deleted, added, ps
    <3>2. "kind" \in DOMAIN e /\ "kind" \notin DOMAIN None
      BY <3>1 DEF None
    <3> QED  BY <3>1, <3>2
  <2>2. LogAndApply(e) /\ UNCHANGED comp
    BY <1>1, <1>6
  <2>3. c.in1 = <<>> /\ moved \in InputSet(c)
    <3>1. Len(c.in0) = 1 /\ c.in1 = <<>>
      BY <1>6 DEF IsTrivialMove
    <3>2. c.in0[1] \in Range(c.in0)
      BY <3>1 DEF Range
    <3> QED  BY <3>1, <3>2 DEF InputSet
  <2> HIDE DEF e, moved
  <2>4. GoodEdit(e, tables, vset.next)
    <3>1. phase' = "open" /\ edit' = e
      BY <1>1, <2>2 DEF LogAndApply
    <3>2. GoodEdit(edit', tables', vset'.next)
      BY <2>1, <3>1 DEF LevelDBInv, OpenOnly, OpenEdit
    <3> QED  BY <1>1, <1>3, <3>1, <3>2
  <2>5. Disjoint(SaveTo(vset.v, e))
    BY <1>2, <1>4, <1>5, <2>1, <2>3, <2>4, MoveKeepsOrder
  <2>6. UNCHANGED <<phase, current>> /\ vset'.v = vset.v
    BY <1>1, <1>3
  <2>7. DiskOrder' /\ StoppedOrder' /\ OpenOrder'
    BY <2>1, <2>2, <2>5, <2>6, LoggedKeepsOrder
  <2>8. CompOrder' /\ SidesInv'
    BY <2>2 DEF CompOrder, SidesInv
  <2> QED  BY <2>7, <2>8 DEF LevelsInv
<1>7. CASE ~(~manual /\ IsTrivialMove(c))
  <2>1. /\ comp' = [c |-> c, manual |-> manual, v |-> vset.v, done |-> <<>>, todo |-> Outputs(c, entries, kept)]
        /\ UNCHANGED <<edit, manifests, current, phase>> /\ vset'.v = vset.v
    BY <1>1, <1>3, <1>7
  <2>2. kept \subseteq entries
    BY DEF Kept
  <2>3. entries = InputEntries(tables, c)
    BY DEF InputEntries
  <2> HIDE DEF entries, kept
  <2>4. comp'.c = c /\ comp'.manual = manual /\ comp'.done = <<>> /\ comp'.todo = Outputs(c, InputEntries(tables, c), kept)
    BY <2>1, <2>3
  <2>5. OutputsInOrder(comp')
    <3> DEFINE m == comp'
    <3>1. m.c = c /\ m.done = <<>> /\ m.todo = Outputs(c, InputEntries(tables, c), kept)
      BY <2>4
    <3> HIDE DEF m
    <3>2. OutputsInOrder(m)
      BY <1>2, <1>5, <2>2, <2>3, <3>1, FirstOutputs
    <3> QED  BY <3>2 DEF m
  <2>6. Manifest' = Manifest
    BY <2>1 DEF Manifest
  <2>7. DiskOrder' /\ StoppedOrder'
    BY <2>1, <2>6 DEF LevelsInv, DiskOrder, StoppedOrder
  <2>8. OpenOrder'
    BY <1>4, <2>1, <2>6 DEF OpenOrder
  <2>9. CompOrder' /\ (manual = TRUE \/ Sided(vset.v, c) => SidesInv')
    BY <1>5, <2>1, <2>4, <2>5 DEF CompOrder, SidesInv
  <2> QED  BY <2>7, <2>8, <2>9 DEF LevelsInv
<1> QED  BY <1>6, <1>7

\* What the tree asks for leaves no room between its inputs.
LEMMA PickedOrdered ==
  ASSUME LevelDBInv, LevelDBInv', LevelsInv, PickedCompaction
  PROVE  LevelsInv' /\ SidesInv'
<1> DEFINE c == PickCompaction(vset.v, vset.pointers, seek)
<1>1. /\ phase = "open" /\ edit = None /\ comp = None /\ bgError # TRUE
      /\ SizeCompaction(vset.v) \/ seek # None
      /\ StartCompaction(c, FALSE)
  BY DEF PickedCompaction, MayWork
<1>2. IsTables(tables) /\ GoodVersion(vset.v, tables, vset.next) /\ vset.next \in Nat
  BY <1>1, OpenFacts
<1>3. \/ SizeCompaction(vset.v)
      \/ seek.level \in 0 .. NumLevels - 2 /\ seek.file \in Range(vset.v[seek.level])
  BY <1>1 DEF LevelDBInv, OpenOnly, OpenUse
<1>4. SetUp(vset.v, c) /\ Sided(vset.v, c)
  BY <1>2, <1>3, PickedOneSided DEF Sided
<1> HIDE DEF c
<1> QED  BY <1>1, <1>4, StartOrdered

\* What is requested may.
LEMMA ManualOrdered ==
  ASSUME LevelDBInv, LevelDBInv', LevelsInv, ManualCompaction
  PROVE  LevelsInv' /\ SidesInv'
<1>1. phase = "open" /\ edit = None /\ comp = None /\ bgError # TRUE
  BY DEF ManualCompaction, MayWork
<1>2. PICK r \in ManualRanges :
        /\ CompactRange(vset.v, r.level, r.begin, r.end) # None
        /\ StartCompaction(CompactRange(vset.v, r.level, r.begin, r.end), TRUE)
  BY DEF ManualCompaction
<1> DEFINE c == CompactRange(vset.v, r.level, r.begin, r.end)
<1>3. IsTables(tables) /\ GoodVersion(vset.v, tables, vset.next) /\ vset.next \in Nat
  BY <1>1, OpenFacts
<1>4. r.level \in 0 .. NumLevels - 2
  BY RangesAssumption
<1>5. SetUp(vset.v, c)
  BY <1>2, <1>3, <1>4, RangeSetUp
<1>6. StartCompaction(c, TRUE)
  BY <1>2
<1> HIDE DEF c
<1> QED  BY <1>1, <1>5, <1>6, StartOrdered

\* The next output comes after those written and before those left.
LEMMA WriteOutputOrdered ==
  ASSUME LevelDBInv, LevelsInv, WriteOutput
  PROVE  LevelsInv' /\ (SidesInv => SidesInv')
<1> DEFINE X == Table \ {{}}
<1>1. /\ phase = "open" /\ edit = None /\ comp # None /\ Later /\ UNCHANGED <<manifests, edit>>
      /\ comp.todo \in Seq(X) /\ comp.todo # <<>> /\ comp.done \in Seq(Range(comp.done))
      /\ comp'.c = comp.c /\ comp'.manual = comp.manual /\ comp'.todo = Tail(comp.todo)
      /\ comp'.done = Append(comp.done, FileOf(vset.next, Head(comp.todo)))
  BY WrittenIs
<1>2. vset'.v = vset.v /\ UNCHANGED <<current, phase, bgError>>
  BY <1>1 DEF Later
<1>3. OutputsInOrder(comp) /\ Prepared(vset.v, comp.c)
  BY <1>1 DEF LevelsInv, CompOrder
<1>4. IsContents(Head(comp.todo)) /\ Head(comp.todo) # {}
  <2> HIDE DEF X
  <2>1. Head(comp.todo) \in X
    BY <1>1
  <2> QED  BY <2>1, TablesAreFinite DEF X
<1>5. OutputsInOrder(comp')
  <2> DEFINE m == comp
             w == comp'
             n == vset.next
  <2>1. /\ IsSeq(m.done) /\ m.todo \in Seq(X) /\ m.todo # <<>>
        /\ w.c = m.c /\ w.todo = Tail(m.todo) /\ w.done = Append(m.done, FileOf(n, Head(m.todo)))
        /\ OutputsInOrder(m) /\ IsContents(Head(m.todo)) /\ Head(m.todo) # {}
    BY <1>1, <1>3, <1>4 DEF IsSeq
  <2> HIDE DEF m, w, n, X
  <2>2. OutputsInOrder(w)
    BY ONLY <2>1, NextOutput
  <2> QED  BY <2>2 DEF w
<1> HIDE DEF X
<1>6. Manifest' = Manifest
  BY <1>1, <1>2 DEF Manifest
<1>7. DiskOrder' /\ StoppedOrder'
  BY <1>1, <1>2, <1>6 DEF LevelsInv, DiskOrder, StoppedOrder
<1>8. OpenOrder'
  BY <1>1, <1>2, <1>6 DEF LevelsInv, OpenOrder
<1>9. CompOrder' /\ (SidesInv => SidesInv')
  BY <1>1, <1>2, <1>3, <1>5 DEF CompOrder, SidesInv
<1> QED  BY <1>7, <1>8, <1>9 DEF LevelsInv

\* The outputs take the place of the inputs.
LEMMA ResultsOrdered ==
  ASSUME LevelDBInv, LevelDBInv', LevelsInv, InstallCompactionResults
  PROVE  LevelsInv' /\ (SidesInv => SidesInv')
<1> DEFINE c == comp.c
           done == comp.done
           deleted == InputFiles(c)
           added == {<<c.level + 1, f>> : f \in Range(done)}
           ps == [l \in {c.level} |-> c.pointer]
           e == NewEdit(vset, "compaction", deleted, added, ps, vset.log)
<1>1. /\ phase = "open" /\ edit = None /\ comp # None
      /\ LogAndApply(e)
      /\ UNCHANGED <<tables, current, phase, vset, comp, bgError>>
  BY DEF InstallCompactionResults, MayWork
<1>2. IsTables(tables) /\ vset.next \in Nat /\ GoodVersion(vset.v, tables, vset.next)
  BY <1>1, OpenFacts
<1>3. OutputsInOrder(comp) /\ Prepared(vset.v, c) /\ Disjoint(vset.v)
  BY <1>1 DEF LevelsInv, CompOrder, OpenOrder
<1>4. IsSeq(done) /\ Following(done)
      /\ \A f \in Range(done) : Within(f.smallest, f.largest, InputSet(c))
  <2>1. done \in Seq(Range(done))
    BY <1>1 DEF LevelDBInv, OpenOnly, OpenUse
  <2> QED  BY <1>3, <2>1 DEF IsSeq, OutputsInOrder
<1>5. /\ e.kind = "compaction" /\ e.deleted = deleted /\ e.added = added /\ e # None
  <2>1. e = [kind |-> "compaction", deleted |-> deleted, added |-> added, pointers |-> ps,
             log |-> vset.log, next |-> vset.next, last |-> vset.last]
    BY DEF NewEdit
  <2> HIDE DEF e, deleted, added, ps
  <2>2. "kind" \in DOMAIN e /\ "kind" \notin DOMAIN None
    BY <2>1 DEF None
  <2> QED  BY <2>1, <2>2
<1> HIDE DEF e
<1>6. edit' = e
  BY <1>1 DEF LogAndApply
<1>7. GoodEdit(e, tables, vset.next)
  <2>1. GoodEdit(edit', tables', vset'.next)
    BY <1>1, <1>5, <1>6 DEF LevelDBInv, OpenOnly, OpenEdit
  <2> QED  BY <1>1, <1>6, <2>1
<1>8. Disjoint(SaveTo(vset.v, e))
  <2>1. e.deleted = InputFiles(c) /\ e.added = {<<c.level + 1, f>> : f \in Range(done)}
    BY <1>5
  <2> HIDE DEF c, done
  <2> QED  BY ONLY <1>2, <1>3, <1>4, <1>7, <2>1, CompactionKeepsOrder
<1>9. DiskOrder' /\ StoppedOrder' /\ OpenOrder'
  <2>1. vset'.v = vset.v
    BY <1>1
  <2> QED  BY <1>1, <1>5, <1>8, <2>1, LoggedKeepsOrder
<1>10. CompOrder' /\ (SidesInv => SidesInv')
  BY <1>1, <1>3, <1>5, <1>6 DEF CompOrder, SidesInv
<1> QED  BY <1>9, <1>10 DEF LevelsInv

\* What Install leaves: the manifest with all its records, and fewer files.
LEMMA InstallIs ==
  ASSUME LevelDBInv, LevelsInv, Install
  PROVE  /\ phase = "open" /\ phase' = "open" /\ edit # None /\ edit' = None
         /\ vset'.v = SaveTo(vset.v, edit) /\ vset'.log = edit.log /\ vset'.last = vset.last
         /\ vset'.next = vset.next
         /\ UNCHANGED <<mem, logfile, writer>>
         /\ imm' = (IF edit.kind = "flush" THEN None ELSE imm)
         /\ comp' = (IF edit.kind = "compaction" THEN None ELSE comp)
         /\ Manifest'.recs = Manifest.recs /\ Durable(Manifest') = {Len(Manifest.recs)}
         /\ VersionOf(Manifest.recs) = vset'.v
         /\ (\A x \in DOMAIN tables' : x \in DOMAIN tables /\ tables'[x] = tables[x])
         /\ (\A x \in DOMAIN logs' : x \in DOMAIN logs /\ logs'[x] = logs[x])
<1> DEFINE N == Len(Manifest.recs)
           g == SyncFile(Manifest)
           mine == IF edit.kind = "compaction" THEN None ELSE comp
           inUse == {Installed.v} \cup Pinned \cup IF mine = None THEN {} ELSE {mine.v}
           live == OutputsOf(mine) \cup UNION {{f.number : f \in FilesOf(v)} : v \in inUse}
           less == {n \in DOMAIN logs : n >= Installed.log}
<1>1. /\ phase = "open" /\ edit # None
      /\ vset' = Installed /\ edit' = None /\ comp' = mine
      /\ imm' = IF edit.kind = "flush" THEN None ELSE imm
      /\ UNCHANGED <<current, phase, mem, logfile, writer>>
      /\ IF edit.kind = "move" \/ bgError
         THEN /\ manifests' = [manifests EXCEPT ![vset.manifest] = SyncFile(@)]
              /\ UNCHANGED <<logs, tables>>
         ELSE DeleteObsoleteFiles(Installed, inUse, OutputsOf(mine))
  BY DEF Install
<1>2. /\ VersionSetType /\ vset.manifest = current /\ current \in DOMAIN manifests
      /\ Records(Manifest, current, tables) /\ current \in Nat
  BY <1>1, OpenFacts
<1>3. /\ g.recs = Manifest.recs /\ Durable(g) = {N} /\ N \in Durable(Manifest)
      /\ IsSeq(Manifest.recs) /\ N \in Nat \ {0}
  BY <1>2, SyncedManifest
<1>4. Manifest.recs[N] = edit
  BY <1>1 DEF LevelDBInv, OpenOnly, OpenEdit
<1>5. VersionOf(SubSeq(Manifest.recs, 1, N - 1)) = vset.v
  BY <1>1 DEF LevelsInv, OpenOrder
<1>6. /\ Installed.v = SaveTo(vset.v, edit) /\ Installed.log = edit.log
      /\ Installed.last = vset.last /\ Installed.manifest = current /\ Installed.next = vset.next
  BY <1>2 DEF Installed, VersionSetType
<1>7. /\ (\A x \in DOMAIN tables' : x \in DOMAIN tables /\ tables'[x] = tables[x])
      /\ (\A x \in DOMAIN logs' : x \in DOMAIN logs /\ logs'[x] = logs[x])
  <2>1. UNCHANGED <<logs, tables>> \/ (tables' = Keep(tables, live) /\ logs' = Keep(logs, less))
    <3> HIDE DEF inUse, mine
    <3> QED  BY <1>1 DEF DeleteObsoleteFiles
  <2> HIDE DEF live, less
  <2>2. CASE UNCHANGED <<logs, tables>>
    BY <2>2
  <2>3. CASE tables' = Keep(tables, live) /\ logs' = Keep(logs, less)
    BY <2>3 DEF Keep
  <2> QED  BY <2>1, <2>2, <2>3
<1> HIDE DEF inUse, live, less
<1>8. Manifest' = g
  <2>0. manifests = [n \in DOMAIN manifests |-> manifests[n]] /\ current' = current
    BY <1>1 DEF LevelDBInv, Disk
  <2>1. CASE edit.kind = "move" \/ bgError
    <3>1. manifests' = [manifests EXCEPT ![current] = g]
      BY <1>1, <1>2, <2>1 DEF Manifest
    <3> HIDE DEF g
    <3> QED  BY <1>2, <2>0, <3>1 DEF Manifest
  <2>2. CASE ~(edit.kind = "move" \/ bgError)
    <3>1. manifests' = [n \in {m \in DOMAIN manifests : m >= current} |->
                          IF n = current THEN g ELSE manifests[n]]
      BY <1>1, <1>6, <2>2 DEF DeleteObsoleteFiles, Manifest
    <3>2. current \in {m \in DOMAIN manifests : m >= current}
      BY <1>2
    <3> HIDE DEF g
    <3> QED  BY <2>0, <3>1, <3>2 DEF Manifest
  <2> QED  BY <2>1, <2>2
<1> HIDE DEF g, N
<1>9. VersionOf(Manifest.recs) = SaveTo(vset.v, edit)
  <2>1. VersionOf(Manifest.recs) = SaveTo(VersionOf(SubSeq(Manifest.recs, 1, N - 1)), edit)
    BY <1>3, <1>4, VersionStep DEF N
  <2> QED  BY <1>5, <2>1
<1> QED  BY <1>1, <1>3, <1>6, <1>7, <1>8, <1>9 DEF N

\* The version that is installed is the one the manifest gives.
LEMMA InstallOrdered ==
  ASSUME LevelDBInv, LevelsInv, Install
  PROVE  LevelsInv' /\ (SidesInv => SidesInv')
<1> DEFINE N == Len(Manifest.recs)
<1>1. /\ phase = "open" /\ phase' = "open" /\ edit # None /\ edit' = None
      /\ vset'.v = SaveTo(vset.v, edit)
      /\ comp' = (IF edit.kind = "compaction" THEN None ELSE comp)
      /\ Manifest'.recs = Manifest.recs /\ Durable(Manifest') = {N}
      /\ VersionOf(Manifest.recs) = vset'.v
  BY InstallIs
<1>2. N \in Durable(Manifest) /\ SubSeq(Manifest.recs, 1, N) = Manifest.recs
  BY DurableFacts
<1> HIDE DEF N
<1>3. Disjoint(vset'.v)
  <2>1. Disjoint(VersionOf(SubSeq(Manifest.recs, 1, N)))
    BY <1>2 DEF LevelsInv, DiskOrder
  <2> QED  BY <1>1, <1>2, <2>1
<1>4. DiskOrder'
  BY <1>1, <1>2, <1>3 DEF DiskOrder
<1>5. StoppedOrder'
  BY <1>1 DEF StoppedOrder
<1>6. OpenOrder'
  BY <1>1, <1>3 DEF OpenOrder
<1>7. CompOrder' /\ (SidesInv => SidesInv')
  <2>1. CASE comp' = None
    BY <2>1 DEF CompOrder, SidesInv
  <2>2. CASE comp' # None
    <3>1. edit.kind # "compaction" /\ comp' = comp /\ vset'.v = SaveTo(vset.v, edit)
      BY <1>1, <2>2
    <3>2. OutputsInOrder(comp) /\ Prepared(SaveTo(vset.v, edit), comp.c)
      BY <1>1, <2>2, <3>1 DEF LevelsInv, CompOrder
    <3>3. SidesInv /\ ~comp.manual => Sided(SaveTo(vset.v, edit), comp.c)
      BY <1>1, <2>2, <3>1 DEF SidesInv
    <3> QED  BY <1>1, <3>1, <3>2, <3>3 DEF CompOrder, SidesInv
  <2> QED  BY <2>1, <2>2
<1> QED  BY <1>4, <1>5, <1>6, <1>7 DEF LevelsInv

\* An edit that failed may be in the manifest, and no compaction goes on.
LEMMA InstallFailsOrdered ==
  ASSUME LevelDBInv, LevelsInv, InstallFails, comp' = None
  PROVE  LevelsInv' /\ (SidesInv => SidesInv')
<1> DEFINE N == Len(Manifest.recs)
           q == Front(Manifest.recs)
           f == [Manifest EXCEPT !.recs = q]
<1>1. /\ phase = "open" /\ edit # None /\ edit' = None /\ bgError' = TRUE
      /\ comp' \in {comp, None}
      /\ \/ UNCHANGED manifests
         \/ manifests' = [manifests EXCEPT ![vset.manifest].recs = Front(@)]
      /\ UNCHANGED <<current, phase, vset>>
  BY DEF InstallFails
<1>2. /\ vset.manifest = current /\ current \in DOMAIN manifests
      /\ IsFile(Manifest) /\ IsSeq(Manifest.recs) /\ N \in Nat /\ Manifest.synced \in 1 .. N
  BY <1>1, OpenFacts DEF Records, IsFile, IsSeq
<1>3. /\ Manifest.synced < N
      /\ manifests = [n \in DOMAIN manifests |-> manifests[n]]
  BY <1>1 DEF LevelDBInv, OpenOnly, OpenEdit, Disk
<1>4. q = SubSeq(Manifest.recs, 1, N - 1)
  BY DEF Front
<1> HIDE DEF q, N
<1>6. Manifest' = Manifest \/ Manifest' = f
  <2>1. CASE UNCHANGED manifests
    BY <1>1, <2>1 DEF Manifest
  <2>2. CASE manifests' = [manifests EXCEPT ![vset.manifest].recs = Front(@)]
    <3>1. manifests' = [manifests EXCEPT ![current] = f]
      BY <1>2, <2>2 DEF Manifest, q
    <3> HIDE DEF f
    <3> QED  BY <1>1, <1>2, <1>3, <3>1 DEF Manifest
  <2> QED  BY <1>1, <2>1, <2>2
<1>7. DiskOrder'
  <2>1. CASE Manifest' = Manifest
    BY <2>1 DEF LevelsInv, DiskOrder
  <2>2. CASE Manifest' = f
    <3>1. f.recs = q /\ f.synced = Manifest.synced
      BY <1>2 DEF IsFile
    <3> HIDE DEF f
    <3>2. Len(q) = N - 1
      BY <1>2, <1>4 DEF IsSeq
    <3> SUFFICES ASSUME NEW n \in Durable(f) PROVE Disjoint(VersionOf(SubSeq(q, 1, n)))
      BY <2>2, <3>1 DEF DiskOrder
    <3>3. n \in Durable(Manifest) /\ n \in 0 .. N - 1 /\ N - 1 \in 0 .. N
      BY <1>2, <3>1, <3>2 DEF Durable, N
    <3>4. SubSeq(q, 1, n) = SubSeq(Manifest.recs, 1, n)
      BY <1>2, <1>4, <3>3, PrefixOfPrefix DEF N
    <3> QED  BY <3>3, <3>4 DEF LevelsInv, DiskOrder
  <2> QED  BY <1>6, <2>1, <2>2
<1>8. OpenOrder'
  <2>1. Disjoint(vset.v)
    BY <1>1 DEF LevelsInv, OpenOrder
  <2> QED  BY <1>1, <2>1 DEF OpenOrder
<1>9. StoppedOrder'
  BY <1>1 DEF StoppedOrder
<1>10. CompOrder' /\ (SidesInv => SidesInv')
  BY DEF CompOrder, SidesInv
<1> QED  BY <1>7, <1>8, <1>9, <1>10 DEF LevelsInv

\* What is recovered was in order on the disk, and new tables go to level 0.
LEMMA RecoverOrdered ==
  ASSUME LevelDBInv, LevelDBInv', LevelsInv, Recover
  PROVE  LevelsInv' /\ SidesInv'
<1> DEFINE N == Len(Manifest.recs)
<1>1. /\ phase' = "opening" /\ vset'.v = VersionOf(SubSeq(Manifest.recs, 1, N))
      /\ Manifest' = Manifest /\ N \in Durable(Manifest)
      /\ edit'.deleted = {} /\ \A a \in edit'.added : a[1] = 0
  BY RecoverIs
<1>2. Disjoint(vset'.v)
  BY <1>1 DEF LevelsInv, DiskOrder
<1>3. Disjoint(SaveTo(vset'.v, edit'))
  <2> DEFINE tb == tables'
             n == vset'.next
             v == vset'.v
             e == edit'
  <2>1. IsTables(tb) /\ n \in Nat /\ GoodVersion(v, tb, n) /\ GoodEdit(e, tb, n)
    BY <1>1 DEF LevelDBInv, Disk, Saving, VersionSetType
  <2>2. Disjoint(v) /\ e.deleted = {} /\ \A a \in e.added : a[1] = 0
    BY <1>1, <1>2
  <2> HIDE DEF tb, n, v, e
  <2>3. Disjoint(SaveTo(v, e))
    BY <2>1, <2>2, OpenKeepsOrder
  <2> QED  BY <2>3 DEF v, e
<1>4. DiskOrder'
  BY <1>1 DEF LevelsInv, DiskOrder
<1>5. StoppedOrder'
  BY <1>1, <1>2, <1>3 DEF StoppedOrder
<1>6. OpenOrder' /\ CompOrder' /\ SidesInv'
  BY <1>1 DEF OpenOrder, CompOrder, SidesInv
<1> QED  BY <1>4, <1>5, <1>6 DEF LevelsInv

\* The database opens with the version the new manifest gives.
LEMMA OpenDoneOrdered ==
  ASSUME LevelDBInv, LevelsInv, OpenDone
  PROVE  LevelsInv' /\ SidesInv'
<1>1. /\ phase = "opening" /\ phase' = "open" /\ edit' = None /\ comp' = None
      /\ vset'.v = SaveTo(vset.v, edit) /\ Durable(Manifest') = {2}
      /\ Len(Manifest'.recs) = 2 /\ SubSeq(Manifest'.recs, 1, 2) = Manifest'.recs
      /\ VersionOf(SubSeq(Manifest'.recs, 1, 2)) = vset'.v
  BY OpenDoneIs
<1>2. Disjoint(vset'.v)
  BY <1>1 DEF LevelsInv, StoppedOrder
<1>3. DiskOrder'
  BY <1>1, <1>2 DEF DiskOrder
<1>4. OpenOrder'
  BY <1>1, <1>2 DEF OpenOrder
<1>5. StoppedOrder' /\ CompOrder' /\ SidesInv'
  BY <1>1 DEF StoppedOrder, CompOrder, SidesInv
<1> QED  BY <1>3, <1>4, <1>5 DEF LevelsInv

\* A part of the manifest that may survive gives levels in order.
LEMMA FailuresOrdered ==
  ASSUME LevelDBInv, LevelsInv, MachineFails \/ ProcessEnds
  PROVE  LevelsInv' /\ SidesInv'
<1>1. /\ phase' = "closed" /\ vset' = Closed /\ UNCHANGED current
  BY DEF MachineFails, ProcessEnds, Lost
<1>2. StoppedOrder' /\ OpenOrder' /\ CompOrder' /\ SidesInv'
  BY <1>1 DEF StoppedOrder, OpenOrder, CompOrder, SidesInv, Closed
<1>3. CASE ProcessEnds
  <2>1. Manifest' = Manifest
    BY <1>3 DEF ProcessEnds, Manifest
  <2> QED  BY <1>2, <2>1 DEF LevelsInv, DiskOrder
<1>4. CASE MachineFails
  <2>1. PICK end \in 1 .. Len(Manifest.recs) :
          /\ end >= Manifest.synced
          /\ manifests' = [manifests EXCEPT ![current] = CutFile(manifests[current], end)]
    BY <1>4 DEF MachineFails, Manifest
  <2>2. /\ manifests = [n \in DOMAIN manifests |-> manifests[n]]
        /\ current \in DOMAIN manifests /\ Records(Manifest, current, tables)
    BY DEF LevelDBInv, Disk
  <2>3. /\ IsFile(Manifest) /\ IsSeq(Manifest.recs)
        /\ end \in Durable(Manifest) /\ end \in 0 .. Len(Manifest.recs) /\ end \in 0 .. end
    BY <2>1, <2>2 DEF Records, IsFile, IsSeq, Durable
  <2> DEFINE p == SubSeq(Manifest.recs, 1, end)
             h == [Manifest EXCEPT !.recs = p]
             g == CutFile(Manifest, end)
  <2>4. Manifest' = g
    <3>1. manifests' = [manifests EXCEPT ![current] = g]
      BY <2>1 DEF Manifest
    <3> HIDE DEF g
    <3> QED  BY <1>1, <2>2, <3>1 DEF Manifest
  <2>5. IsSeq(p) /\ Len(p) = end /\ SubSeq(p, 1, end) = p
    BY <2>3, Prefix, PrefixOfPrefix
  <2> HIDE DEF p
  <2>6. g.recs = p /\ Durable(g) = {end}
    <3>1. h = [recs |-> p, synced |-> Manifest.synced]
      BY <2>3 DEF IsFile
    <3>2. g = [h EXCEPT !.synced = Len(h.recs)]
      BY DEF SyncFile, CutFile, p
    <3> HIDE DEF h, g
    <3>3. g.recs = p /\ g.synced = end
      BY <2>5, <3>1, <3>2
    <3>4. Durable(g) = end .. end
      BY <2>5, <3>3 DEF Durable
    <3> QED  BY <2>3, <3>3, <3>4
  <2> HIDE DEF g
  <2>7. Disjoint(VersionOf(p))
    BY <2>3 DEF LevelsInv, DiskOrder, p
  <2>8. DiskOrder'
    <3> SUFFICES ASSUME NEW n \in Durable(g) PROVE Disjoint(VersionOf(SubSeq(p, 1, n)))
      BY <2>4, <2>6 DEF DiskOrder
    <3>1. n = end
      BY <2>6
    <3> QED  BY <2>5, <2>7, <3>1
  <2> QED  BY <1>2, <2>8 DEF LevelsInv
<1> QED  BY <1>3, <1>4

\* A step behind which no compaction is tangled tangled none.
LEMMA UntangledStep ==
  ASSUME [Next]_vars, ~tangled'
  PROVE  /\ ~tangled
         /\ CompactMemTable /\ comp # None => ~comp.manual
         /\ InstallFails => comp' = None
<1>1. CompactMemTable => tangled' = (tangled \/ (comp # None /\ comp.manual))
  BY Zenon DEF CompactMemTable
<1>2. InstallFails => tangled' = (tangled \/ comp' # None)
  BY Zenon DEF InstallFails
<1>3. CompactMemTable \/ InstallFails \/ tangled' = tangled
  BY Zenon DEF Next, vars
<1>4. \A x, y : x = y /\ ~x => ~y
  OBVIOUS
<1>5. ASSUME CompactMemTable PROVE ~(tangled \/ (comp # None /\ comp.manual))
  BY <1>1, <1>4, <1>5, Zenon
<1>6. ASSUME InstallFails PROVE ~(tangled \/ comp' # None)
  BY <1>2, <1>4, <1>6, Zenon
<1>7. ASSUME tangled' = tangled PROVE ~tangled
  BY <1>4, <1>7, Zenon
<1> QED  BY <1>3, <1>5, <1>6, <1>7, Zenon

\* Every step that tangles no compaction keeps the order.
LEMMA LevelsInvNext ==
  ASSUME LevelDBInv, LevelDBInv', LevelsInv, SidesInv, [Next]_vars, ~tangled'
  PROVE  LevelsInv' /\ SidesInv'
<1>1. CASE Recover
  BY <1>1, RecoverOrdered
<1>2. CASE OpenDone
  BY <1>2, OpenDoneOrdered
<1>3. CASE Install
  BY <1>3, InstallOrdered
<1>4. CASE InstallFails
  BY <1>4, UntangledStep, InstallFailsOrdered
<1>5. CASE CompactMemTable
  BY <1>5, UntangledStep, FlushOrdered
<1>6. CASE PickedCompaction
  BY <1>6, PickedOrdered
<1>7. CASE ManualCompaction
  BY <1>7, ManualOrdered
<1>8. CASE WriteOutput
  BY <1>8, WriteOutputOrdered
<1>9. CASE InstallCompactionResults
  BY <1>9, ResultsOrdered
<1>10. CASE MachineFails \/ ProcessEnds
  BY <1>10, FailuresOrdered
<1>11. CASE \/ SwitchMemTable \/ AddBatch \/ AddRecordFails \/ WriteDone \/ SyncFails \/ WorkFails
            \/ GetSnapshot \/ ReleaseSnapshot \/ BeginRead \/ EndRead \/ UNCHANGED vars
  BY <1>11, OthersAreQuiet, QuietKeepsOrder
<1> QED  BY <1>1, <1>2, <1>3, <1>4, <1>5, <1>6, <1>7, <1>8, <1>9, <1>10, <1>11 DEF Next

\* What is proved of the levels.
Ordered == LevelDBInv /\ (tangled \/ (LevelsInv /\ SidesInv))

\* No step undoes it.
LEMMA OrderedNext ==
  ASSUME Ordered, [Next]_vars
  PROVE  Ordered'
<1>1. LevelDBInv'
  BY LevelDBInvNext DEF Ordered
<1>2. ASSUME ~tangled' PROVE LevelsInv' /\ SidesInv'
  BY <1>1, <1>2, UntangledStep, LevelsInvNext DEF Ordered
<1> QED  BY <1>1, <1>2 DEF Ordered

\* The levels are in order in every state, and on the disk, until a compaction is
\* tangled.
THEOREM OrderedCorrect == Spec => []Ordered
<1>1. Init => Ordered
  BY InitLevelDBInv, InitLevelsInv DEF Ordered
<1> QED  BY <1>1, OrderedNext, PTL DEF Spec

\* Files of a level above 0 follow each other without overlap (asserted at
\* version_set.cc 723-737 and 746-749), even though memtables are written in
\* the middle of compactions (db_impl.cc 896-907): those the tree asks for
\* leave room for them.  Nothing is said once a compaction on request was
\* disturbed that way, or one went on after the manifest could not be written.
THEOREM LevelsDisjointCorrect == Spec => []LevelsDisjoint
<1>1. Ordered => LevelsDisjoint
  BY LevelsInvOrders DEF Ordered, LevelsDisjoint
<1> QED  BY <1>1, OrderedCorrect, PTL

\* The same of every version a restart may find.
LEMMA OrderedOpens == Ordered => Openable
<1> SUFFICES ASSUME Ordered, NEW n \in Durable(Manifest)
             PROVE  /\ n > 0
                    /\ \A f \in FilesOf(VersionOf(SubSeq(Manifest.recs, 1, n))) :
                         f.number \in DOMAIN tables
                    /\ ~tangled => \A l \in Levels \ {0} :
                         InLine(VersionOf(SubSeq(Manifest.recs, 1, n))[l])
  BY DEF Openable, Durable, Manifest
<1> DEFINE v == VersionOf(SubSeq(Manifest.recs, 1, n))
           next == Manifest.recs[n].next
<1>1. n > 0 /\ \A f \in FilesOf(v) : f.number \in DOMAIN tables
  BY OpensFromDisk DEF Ordered
<1>2. IsTables(tables) /\ GoodVersion(v, tables, next) /\ next \in Nat
  BY DurableFacts DEF Ordered
<1>3. ASSUME ~tangled PROVE Disjoint(v)
  BY <1>3 DEF Ordered, LevelsInv, DiskOrder
<1> HIDE DEF v, next
<1>4. ~tangled => \A l \in Levels \ {0} : InLine(v[l])
  BY <1>2, <1>3, DisjointInLine
<1> QED  BY <1>1, <1>4 DEF v

\* Openable holds in every state, for every tree of levels, every limit and
\* every sequence of writes: the order of file writes, synchronisations, CURRENT
\* and deletions in LogAndApply and DeleteObsoleteFiles never leaves a manifest
\* that names a missing table or, unless a compaction was tangled, one whose
\* levels are out of order.
THEOREM OpenableCorrect == Spec => []Openable
BY OrderedCorrect, OrderedOpens, PTL

(******************************************************************************)
(* What is nearer to the memtable is newer                                    *)
(******************************************************************************)
\* A version with its last sequence number and the first log not in it: its
\* levels are newest first, and the logs are newer than all of it.
Restorable(tb, ls, v, r) ==
  /\ Layered(tb, v, r.last)
  /\ Older(VersionEntries(tb, v), LogEntries(ls, r.log)) /\ OneEach(LogEntries(ls, r.log))

RecordNewer(tb, ls, f, n) == Restorable(tb, ls, VersionOf(SubSeq(f.recs, 1, n)), f.recs[n])

\* Whatever part of the manifest survives, the logs replayed are newer than it.
DiskNewer == \A n \in Durable(Manifest) : RecordNewer(tables, logs, Manifest, n)

\* Between the halves of DB::Open the logs are in the edit, and the new log is
\* empty.
OpeningNewer ==
  phase = "opening" =>
    /\ Layered(tables, SaveTo(vset.v, edit), edit.last) /\ edit.last = vset.last
    /\ LogEntries(logs, logfile) = {} /\ \A n \in DOMAIN logs : n <= logfile

\* The version in memory is such a version, and its last sequence number only
\* grows.
VersionNewer ==
  phase = "open" =>
    /\ Restorable(tables, logs, vset.v, vset)
    /\ \A n \in Durable(Manifest) : Manifest.recs[n].last <= vset.last

\* The last sequence number in the log.
LogTop == vset.last + IF writer = None THEN 0 ELSE Len(writer.ops)

\* The memtable is in the last log.
LogNewer ==
  phase = "open" =>
    /\ \A n \in DOMAIN logs : n <= logfile
    /\ AtMost(LogEntries(logs, vset.log), LogTop)
    /\ mem \subseteq EntriesOf(logs[logfile].recs) /\ AtMost(mem, vset.last)
    /\ writer # None => Entries(writer) \subseteq EntriesOf(logs[logfile].recs)

\* The memtable being written is newer than the version, and older than the
\* last log.
ImmNewer ==
  phase = "open" /\ imm # None =>
    /\ OneEach(imm.entries) /\ AtMost(imm.entries, vset.last)
    /\ Older(VersionEntries(tables, vset.v), imm.entries)
    /\ Older(imm.entries, EntriesOf(logs[logfile].recs))

\* An edit other than that of a memtable brings no new entries.
EditNewer ==
  phase = "open" /\ edit # None =>
    /\ edit.last <= vset.last
    /\ edit.kind # "flush" =>
         VersionEntries(tables, SaveTo(vset.v, edit)) \subseteq VersionEntries(tables, vset.v)

\* What a compaction has to do, and what it did, comes from its inputs.
FromInputs(tb, m) ==
  /\ \A f \in Range(m.done) : tb[f.number] \subseteq InputEntries(tb, m.c)
  /\ EntriesIn(m.todo) \subseteq InputEntries(tb, m.c)

\* What a compaction leaves in its level is newer than what it takes, before and
\* after an edit that arrives meanwhile.
CompNewer ==
  phase = "open" /\ comp # None =>
    /\ Inputs(vset.v, comp.c) /\ LeavesNewer(tables, vset.v, comp.c)
    /\ edit # None /\ edit.kind # "compaction" =>
         /\ Inputs(SaveTo(vset.v, edit), comp.c)
         /\ LeavesNewer(tables, SaveTo(vset.v, edit), comp.c)
    /\ FromInputs(tables, comp)

NewerInv ==
  /\ DiskNewer /\ OpeningNewer /\ VersionNewer /\ LogNewer
  /\ ImmNewer /\ EditNewer /\ CompNewer

\* Whatever is nearer to the memtable is newer.
LEMMA NewerInvOrders == LevelDBInv /\ NewerInv => NewerAbove
<1> SUFFICES ASSUME LevelDBInv, NewerInv, phase = "open" PROVE NewerAbove
  BY DEF NewerAbove
<1> DEFINE place(i) == CASE i = 0 -> mem
                         [] i = 1 -> IF imm = None THEN {} ELSE imm.entries
                         [] i >= 2 -> UNION {tables[f.number] : f \in Range(vset.v[i - 2])}
           inLog == EntriesOf(logs[logfile].recs)
           VE == VersionEntries(tables, vset.v)
<1>1. /\ IsLogs(logs) /\ IsTables(tables) /\ logfile \in DOMAIN logs
      /\ logfile \in Nat /\ vset.log \in Nat /\ vset.log <= logfile
      /\ GoodVersion(vset.v, tables, vset.next)
  BY OpenFacts
<1>2. mem \subseteq inLog /\ inLog \subseteq LogEntries(logs, vset.log)
  BY <1>1, EntriesOfLogs DEF NewerInv, LogNewer
<1>3. Older(VE, LogEntries(logs, vset.log)) /\ NewerLevels(tables, vset.v)
  BY DEF NewerInv, VersionNewer, Restorable, Layered
<1>4. place(1) # {} => place(1) = imm.entries /\ imm # None
  OBVIOUS
<1>5. \A i \in 2 .. NumLevels + 1 : /\ i - 2 \in Levels
                                    /\ place(i) = LevelEntries(tables, vset.v, i - 2)
                                    /\ place(i) \subseteq VE
  <2> SUFFICES ASSUME NEW i \in 2 .. NumLevels + 1
               PROVE  /\ i - 2 \in Levels /\ place(i) = LevelEntries(tables, vset.v, i - 2)
                      /\ place(i) \subseteq VE
    OBVIOUS
  <2>1. i - 2 \in Levels /\ i # 0 /\ i # 1 /\ i >= 2
    BY LevelsAre
  <2>2. place(i) = LevelEntries(tables, vset.v, i - 2)
    BY <2>1 DEF LevelEntries
  <2> QED  BY <2>1, <2>2 DEF VersionEntries
<1>6. place(0) = mem
  OBVIOUS
<1>7. imm # None => Older(VE, imm.entries) /\ Older(imm.entries, inLog)
  BY DEF NewerInv, ImmNewer
<1>8. VE \subseteq IKey /\ inLog \subseteq IKey /\ (imm # None => imm.entries \subseteq IKey)
  <2>1. VE \subseteq IKey
    BY <1>1, EntriesOfVersion
  <2>2. inLog \subseteq IKey
    BY <1>1, EntriesOfLogs DEF Table
  <2>3. imm # None => imm.entries \subseteq IKey
    BY DEF LevelDBInv, OpenOnly, OpenMem, Table
  <2> QED  BY <2>1, <2>2, <2>3
<1> HIDE DEF place, inLog, VE
<1>9. ASSUME NEW i \in 0 .. NumLevels, NEW x \in place(i), NEW j \in (i + 1) .. (NumLevels + 1),
             NEW y \in place(j), UserKey(x) = UserKey(y)
      PROVE  Sequence(x) > Sequence(y)
  <2>1. CASE i = 0
    <3>1. x \in inLog
      BY <1>2, <1>6, <2>1
    <3>2. j = 1 \/ j \in 2 .. NumLevels + 1
      BY <2>1, LevelsAre
    <3>3. ASSUME j = 1 PROVE Sequence(y) < Sequence(x)
      BY <1>4, <1>7, <3>1, <3>3 DEF Older
    <3>4. ASSUME j \in 2 .. NumLevels + 1 PROVE Sequence(y) < Sequence(x)
      BY <1>2, <1>3, <1>5, <3>1, <3>4 DEF Older
    <3>5. Sequence(x) \in Nat /\ Sequence(y) \in Nat
      BY <1>4, <1>5, <1>8, <3>1, <3>2, IKeyParts
    <3> QED  BY <3>2, <3>3, <3>4, <3>5
  <2>2. CASE i = 1
    <3>1. j \in 2 .. NumLevels + 1 /\ x \in imm.entries /\ imm # None
      BY <1>4, <2>2, LevelsAre
    <3>2. Sequence(y) < Sequence(x)
      BY <1>5, <1>7, <3>1 DEF Older
    <3>3. Sequence(x) \in Nat /\ Sequence(y) \in Nat
      BY <1>5, <1>8, <3>1, IKeyParts
    <3> QED  BY <3>2, <3>3
  <2>3. CASE i >= 2
    <3>1. i \in 2 .. NumLevels + 1 /\ j \in 2 .. NumLevels + 1 /\ i - 2 < j - 2
      BY <2>3, LevelsAre
    <3>2. /\ i - 2 \in Levels /\ j - 2 \in Levels
          /\ x \in LevelEntries(tables, vset.v, i - 2) /\ y \in LevelEntries(tables, vset.v, j - 2)
      BY <1>5, <3>1
    <3> QED  BY <1>3, <1>9, <3>1, <3>2 DEF NewerLevels
  <2>4. i = 0 \/ i = 1 \/ i >= 2
    OBVIOUS
  <2> QED  BY <2>1, <2>2, <2>3, <2>4
<1> QED  BY <1>9 DEF NewerAbove, place

\* With the same files, fewer entries in the logs and a higher last number.
LEMMA RestorableKept ==
  ASSUME NEW tb, IsTables(tb), NEW n, NEW v, GoodVersion(v, tb, n),
         NEW more, SameFiles(tb, more, v), NEW ls, NEW less,
         NEW r, r.last \in Nat, NEW s, s.last \in Nat, r.last <= s.last,
         LogEntries(less, s.log) \subseteq LogEntries(ls, r.log), Restorable(tb, ls, v, r)
  PROVE  Restorable(more, less, v, s)
<1>1. VersionEntries(more, v) = VersionEntries(tb, v) /\ Layered(more, v, r.last)
  BY SameEntries DEF Restorable
<1>2. \A x \in VersionEntries(tb, v) : Sequence(x) \in Nat
  BY EntriesOfVersion
<1>3. Layered(more, v, s.last)
  BY <1>1, <1>2 DEF Layered, AtMost
<1>4. Older(VersionEntries(more, v), LogEntries(less, s.log)) /\ OneEach(LogEntries(less, s.log))
  BY <1>1 DEF Restorable, Older, OneEach
<1> QED  BY <1>3, <1>4 DEF Restorable

\* New entries in the logs, newer than all there was.
LEMMA RestorableMore ==
  ASSUME NEW tb, IsTables(tb), NEW n, NEW v, GoodVersion(v, tb, n), NEW ls, IsLogs(ls), NEW more,
         NEW r, r.last \in Nat, NEW s \in Nat, r.last <= s, AtMost(LogEntries(ls, r.log), s),
         NEW E, E \subseteq IKey, OneEach(E), \A x \in E : s < Sequence(x),
         LogEntries(more, r.log) \subseteq LogEntries(ls, r.log) \cup E,
         Restorable(tb, ls, v, r)
  PROVE  Restorable(tb, more, v, r)
<1> DEFINE V == VersionEntries(tb, v)
           L == LogEntries(ls, r.log)
<1>1. \A x \in V \cup L \cup E : Sequence(x) \in Nat
  <2>1. V \cup L \cup E \subseteq IKey
    BY EntriesOfVersion, EntriesOfLogs
  <2> QED  BY <2>1, IKeyParts
<1>2. Layered(tb, v, r.last) /\ Older(V, L) /\ OneEach(L) /\ AtMost(V, r.last)
  BY DEF Restorable, Layered
<1>3. \A x \in V \cup L, y \in E : Sequence(x) < Sequence(y)
  <2>1. \A x \in V \cup L : Sequence(x) <= s
    BY <1>1, <1>2 DEF AtMost
  <2> HIDE DEF V, L
  <2> QED  BY <1>1, <2>1
<1> HIDE DEF V, L
<1>4. Older(V, L \cup E)
  BY <1>2, <1>3 DEF Older
<1>5. OneEach(L \cup E)
  <2> SUFFICES ASSUME NEW x \in L \cup E, NEW y \in L \cup E, Sequence(x) = Sequence(y) PROVE x = y
    BY DEF OneEach
  <2>1. ~(x \in L /\ y \in E) /\ ~(y \in L /\ x \in E)
    BY <1>1, <1>3
  <2> QED  BY <1>2, <2>1 DEF OneEach
<1>6. Older(V, LogEntries(more, r.log)) /\ OneEach(LogEntries(more, r.log))
  BY <1>4, <1>5 DEF Older, OneEach, L
<1> QED  BY <1>2, <1>6 DEF Restorable, V

\* Tables that are added later change no version.
LEMMA SameFilesInMore ==
  ASSUME NEW tb, NEW n \in Nat, NEW v, GoodVersion(v, tb, n), IsTables(tb),
         NEW k \in Nat, n <= k, NEW more, Agrees(tb, more, k)
  PROVE  SameFiles(tb, more, v)
<1> SUFFICES ASSUME NEW l \in Levels, NEW f \in Range(v[l]) PROVE more[f.number] = tb[f.number]
  BY DEF SameFiles
<1>1. f.number \in DOMAIN tb /\ f.number < n
  BY DEF GoodVersion, GoodFiles, GoodFile
<1>2. f.number \in Nat
  BY <1>1 DEF IsTables
<1> QED  BY <1>1, <1>2 DEF Agrees

\* The disk holds no more in its logs and the same in its tables.
LEMMA DiskNewerKept ==
  ASSUME LevelDBInv, DiskNewer, Manifest' = Manifest,
         \A m : LogEntries(logs', m) \subseteq LogEntries(logs, m),
         \A n \in Durable(Manifest) :
           SameFiles(tables, tables', VersionOf(SubSeq(Manifest.recs, 1, n)))
  PROVE  DiskNewer'
<1> SUFFICES ASSUME NEW n \in Durable(Manifest) PROVE RecordNewer(tables', logs', Manifest, n)
  BY DEF DiskNewer
<1> DEFINE r == Manifest.recs[n]
           v == VersionOf(SubSeq(Manifest.recs, 1, n))
<1>1. IsTables(tables) /\ r.last \in Nat /\ GoodVersion(v, tables, r.next) /\ r.last <= r.last
  BY DurableFacts
<1>2. Restorable(tables, logs, v, r) /\ SameFiles(tables, tables', v)
      /\ LogEntries(logs', r.log) \subseteq LogEntries(logs, r.log)
  BY DEF DiskNewer, RecordNewer
<1> HIDE DEF r, v
<1>3. Restorable(tables', logs', v, r)
  BY <1>1, <1>2, RestorableKept
<1> QED  BY <1>3 DEF RecordNewer, r, v

\* The edit to install is the last record of the manifest.
LEMMA EditFacts ==
  ASSUME LevelDBInv, phase = "open", edit # None
  PROVE  /\ Manifest.recs[Len(Manifest.recs)] = edit
         /\ edit.last \in Nat /\ edit.log \in Nat /\ vset.log <= edit.log /\ edit.log <= logfile
         /\ GoodEdit(edit, tables, vset.next)
<1>1. Manifest.recs[Len(Manifest.recs)] = edit /\ GoodEdit(edit, tables, vset.next)
  BY DEF LevelDBInv, OpenOnly, OpenEdit
<1>2. Len(Manifest.recs) \in Durable(Manifest)
  BY DurableFacts
<1> QED  BY <1>1, <1>2, DurableFacts, OpenFacts

\* A step that leaves tables, versions and the manifest alone, and adds nothing
\* to the logs.
Calm ==
  /\ phase = "open" /\ phase' = "open" /\ UNCHANGED <<tables, manifests, current, edit>>
  /\ vset'.v = vset.v /\ vset'.log = vset.log /\ vset'.last \in Nat /\ vset.last <= vset'.last
  /\ (\A m : LogEntries(logs', m) \subseteq LogEntries(logs, m)) /\ comp' \in {comp, None}

\* Such a step keeps the order of all that is on the disk or in the version.
LEMMA CalmNewer ==
  ASSUME LevelDBInv, NewerInv, Calm
  PROVE  DiskNewer' /\ OpeningNewer' /\ VersionNewer' /\ EditNewer' /\ CompNewer'
<1>1. /\ phase = "open" /\ phase' = "open" /\ UNCHANGED <<tables, edit>> /\ Manifest' = Manifest
      /\ vset'.v = vset.v /\ vset'.log = vset.log /\ vset'.last \in Nat /\ vset.last <= vset'.last
      /\ (\A m : LogEntries(logs', m) \subseteq LogEntries(logs, m)) /\ comp' \in {comp, None}
  BY DEF Calm, Manifest
<1>2. IsTables(tables) /\ GoodVersion(vset.v, tables, vset.next) /\ vset.last \in Nat
  BY <1>1, OpenFacts
<1>3. \A v : SameFiles(tables, tables', v)
  BY <1>1 DEF SameFiles
<1>4. DiskNewer'
  BY <1>1, <1>3, DiskNewerKept DEF NewerInv
<1>5. OpeningNewer'
  BY <1>1 DEF OpeningNewer
<1>6. VersionNewer'
  <2>1. Restorable(tables, logs, vset.v, vset)
    BY <1>1 DEF NewerInv, VersionNewer
  <2>2. Restorable(tables', logs', vset.v, vset')
    BY <1>1, <1>2, <1>3, <2>1, RestorableKept
  <2>3. \A n \in Durable(Manifest) : Manifest.recs[n].last <= vset.last /\ Manifest.recs[n].last \in Nat
    BY <1>1, DurableFacts DEF NewerInv, VersionNewer
  <2>4. \A n \in Durable(Manifest) : Manifest.recs[n].last <= vset'.last
    BY <1>1, <1>2, <2>3
  <2> QED  BY <1>1, <2>2, <2>4 DEF VersionNewer
<1>7. EditNewer'
  <2> SUFFICES ASSUME edit # None
               PROVE  /\ edit.last <= vset'.last
                      /\ edit.kind # "flush" =>
                           VersionEntries(tables, SaveTo(vset.v, edit)) \subseteq VersionEntries(tables, vset.v)
    BY <1>1 DEF EditNewer
  <2>1. edit.last \in Nat
    BY <1>1, EditFacts
  <2> QED  BY <1>1, <1>2, <2>1 DEF NewerInv, EditNewer
<1>8. CompNewer'
  BY <1>1 DEF NewerInv, CompNewer, FromInputs
<1> QED  BY <1>4, <1>5, <1>6, <1>7, <1>8

\* Steps that change nothing the order is about, or stop a compaction.
LEMMA OthersNewer ==
  ASSUME NewerInv,
         UNCHANGED <<logs, tables, manifests, current, phase, mem, imm, logfile, vset, edit, writer>>,
         comp' \in {comp, None}
  PROVE  NewerInv'
<1>1. Manifest' = Manifest /\ LogTop' = LogTop
  BY DEF Manifest, LogTop
<1>2. DiskNewer' /\ OpeningNewer'
  BY <1>1 DEF NewerInv, DiskNewer, OpeningNewer
<1>3. VersionNewer'
  BY <1>1 DEF NewerInv, VersionNewer
<1>4. LogNewer'
  BY <1>1 DEF NewerInv, LogNewer
<1>5. ImmNewer' /\ EditNewer'
  BY DEF NewerInv, ImmNewer, EditNewer
<1>6. CompNewer'
  BY DEF NewerInv, CompNewer
<1> QED  BY <1>2, <1>3, <1>4, <1>5, <1>6 DEF NewerInv

\* Failing work, snapshots and reads leave all contents where they are.
LEMMA WorkAndReadsNewer ==
  ASSUME NewerInv,
         \/ WorkFails \/ GetSnapshot \/ ReleaseSnapshot \/ BeginRead \/ EndRead \/ UNCHANGED vars
  PROVE  NewerInv'
<1>1. UNCHANGED <<logs, tables, manifests, current, phase, mem, imm, logfile, vset, edit, writer>>
      /\ comp' \in {comp, None}
  BY DEF WorkFails, GetSnapshot, ReleaseSnapshot, BeginRead, EndRead, vars
<1> QED  BY <1>1, OthersNewer

\* A memtable that is closed is newer than the version, and its log was the last.
LEMMA SwitchNewer ==
  ASSUME LevelDBInv, NewerInv, SwitchMemTable
  PROVE  NewerInv'
<1>1. /\ phase = "open" /\ phase' = "open" /\ writer = None /\ writer' = None /\ imm = None
      /\ UNCHANGED <<tables, manifests, current, edit, comp>>
      /\ logs' = Put(logs, vset.next, EmptyFile)
      /\ logfile' = vset.next /\ imm' = [entries |-> mem] /\ mem' = {}
      /\ vset' = [vset EXCEPT !.next = @ + 1]
  BY DEF SwitchMemTable
<1>2. /\ VersionSetType /\ vset.next \in Nat /\ vset.log \in Nat /\ vset.last \in Nat
      /\ (\A n \in DOMAIN logs : n < vset.next)
      /\ logfile \in DOMAIN logs /\ vset.log <= logfile /\ logfile \in Nat
      /\ IsLogs(logs) /\ IsTables(tables) /\ GoodVersion(vset.v, tables, vset.next)
  BY <1>1, OpenFacts
<1>3. vset'.v = vset.v /\ vset'.log = vset.log /\ vset'.last = vset.last
  BY <1>1, <1>2 DEF VersionSetType
<1>4. vset.next \notin DOMAIN logs /\ \A n \in DOMAIN logs : n \in Nat
  BY <1>2 DEF IsLogs
<1>5. /\ DOMAIN logs' = DOMAIN logs \cup {vset.next}
      /\ \A m : LogEntries(logs', m) = LogEntries(logs, m)
      /\ EntriesOf(logs'[logfile'].recs) = {}
  <2> DEFINE k == vset.next
  <2>1. k \in Nat /\ k \notin DOMAIN logs /\ logs' = Put(logs, k, EmptyFile) /\ logfile' = k
    BY <1>1, <1>2, <1>4
  <2> HIDE DEF k
  <2>2. /\ DOMAIN logs' = DOMAIN logs \cup {k} /\ EntriesOf(logs'[k].recs) = {}
        /\ \A m : LogEntries(logs', m) = LogEntries(logs, m)
    <3>1. IsLogs(logs)
      BY <1>2
    <3> QED  BY ONLY <2>1, <3>1, NewLogEntries
  <2> QED  BY <2>1, <2>2 DEF k
<1>6. Calm
  <2>1. \A m : LogEntries(logs', m) \subseteq LogEntries(logs, m)
    BY <1>5
  <2>2. vset'.last \in Nat /\ vset.last <= vset'.last
    BY <1>2, <1>3
  <2> QED  BY <1>1, <1>3, <2>1, <2>2 DEF Calm
<1>7. DiskNewer' /\ OpeningNewer' /\ VersionNewer' /\ EditNewer' /\ CompNewer'
  BY <1>6, CalmNewer
<1>8. /\ mem \subseteq EntriesOf(logs[logfile].recs) /\ AtMost(mem, vset.last)
      /\ AtMost(LogEntries(logs, vset.log), vset.last)
  BY <1>1, <1>2 DEF NewerInv, LogNewer, LogTop
<1>9. LogNewer'
  <2>1. LogTop' = vset.last
    BY <1>1, <1>2, <1>3 DEF LogTop
  <2>2. \A n \in DOMAIN logs' : n <= logfile'
    BY <1>1, <1>2, <1>4, <1>5
  <2>3. AtMost(LogEntries(logs', vset'.log), LogTop')
    BY <1>3, <1>5, <1>8, <2>1
  <2>4. mem' = {} /\ AtMost(mem', vset'.last)
    BY <1>1 DEF AtMost
  <2> QED  BY <1>1, <2>2, <2>3, <2>4 DEF LogNewer
<1>10. ImmNewer'
  <2>1. mem \subseteq LogEntries(logs, vset.log)
    BY <1>2, <1>8, EntriesOfLogs
  <2>2. OneEach(LogEntries(logs, vset.log)) /\ Older(VersionEntries(tables, vset.v), LogEntries(logs, vset.log))
    BY <1>1 DEF NewerInv, VersionNewer, Restorable
  <2>3. OneEach(mem) /\ Older(VersionEntries(tables, vset.v), mem)
    BY <2>1, <2>2 DEF OneEach, Older
  <2>4. Older(mem, EntriesOf(logs'[logfile'].recs))
    BY <1>5 DEF Older
  <2>5. imm'.entries = mem /\ tables' = tables
    BY <1>1
  <2> QED  BY <1>3, <1>8, <2>3, <2>4, <2>5 DEF ImmNewer
<1> QED  BY <1>7, <1>9, <1>10 DEF NewerInv

\* A batch that is done is in the memtable, or lost with its numbers.
LEMMA BatchNewer ==
  ASSUME LevelDBInv, NewerInv, WriteDone \/ SyncFails
  PROVE  NewerInv'
<1>1. /\ writer # None /\ writer' = None /\ vset' = LastSequence
      /\ UNCHANGED <<tables, manifests, current, phase, imm, logfile, edit, comp>>
      /\ mem' \in {mem, mem \cup Entries(writer)}
      /\ logs' \in {logs, [logs EXCEPT ![logfile] = SyncFile(@)]}
  BY DEF WriteDone, SyncFails
<1>2. phase = "open" /\ writer \in Batch
  BY <1>1 DEF LevelDBInv, Stopped, Batches
<1>3. /\ VersionSetType /\ vset.next \in Nat /\ vset.log \in Nat /\ vset.last \in Nat
      /\ logfile \in DOMAIN logs /\ vset.log <= logfile /\ logfile \in Nat
      /\ IsLogs(logs) /\ IsTables(tables) /\ GoodVersion(vset.v, tables, vset.next)
  BY <1>2, OpenFacts
<1>4. Len(writer.ops) \in Nat
  BY <1>2 DEF Batch
<1>5. vset'.v = vset.v /\ vset'.log = vset.log /\ vset'.last = vset.last + Len(writer.ops)
  <2> DEFINE k == Len(writer.ops)
  <2>1. vset' = [vset EXCEPT !.last = vset.last + k]
    BY <1>1 DEF LastSequence
  <2> HIDE DEF k
  <2>2. vset'.v = vset.v /\ vset'.log = vset.log /\ vset'.last = vset.last + k
    BY <1>3, <2>1 DEF VersionSetType
  <2> QED  BY <2>2 DEF k
<1>6. vset'.last \in Nat /\ vset.last <= vset'.last /\ LogTop = vset'.last /\ LogTop' = vset'.last
  BY <1>1, <1>3, <1>4, <1>5 DEF LogTop
<1>7. DOMAIN logs' = DOMAIN logs /\ \A n \in DOMAIN logs : logs'[n].recs = logs[n].recs
  <2>1. CASE logs' = logs
    BY <2>1
  <2>2. CASE logs' = [logs EXCEPT ![logfile] = SyncFile(@)]
    BY <1>3, <2>2, SyncedLogEntries
  <2> QED  BY <1>1, <2>1, <2>2
<1>8. \A m : LogEntries(logs', m) = LogEntries(logs, m)
  BY <1>7 DEF LogEntries
<1>9. Calm
  BY <1>1, <1>2, <1>5, <1>6, <1>8 DEF Calm
<1>10. DiskNewer' /\ OpeningNewer' /\ VersionNewer' /\ EditNewer' /\ CompNewer'
  BY <1>9, CalmNewer
<1>11. LogNewer'
  <2> DEFINE inLog == EntriesOf(logs[logfile].recs)
  <2>1. mem \subseteq inLog /\ Entries(writer) \subseteq inLog /\ AtMost(LogEntries(logs, vset.log), LogTop)
        /\ \A n \in DOMAIN logs : n <= logfile
    BY <1>1, <1>2 DEF NewerInv, LogNewer
  <2>2. inLog \subseteq LogEntries(logs, vset.log)
    BY <1>3, EntriesOfLogs
  <2>3. EntriesOf(logs'[logfile'].recs) = inLog
    BY <1>1, <1>3, <1>7
  <2> HIDE DEF inLog
  <2>4. mem' \subseteq inLog
    BY <1>1, <2>1
  <2>5. AtMost(mem', vset'.last)
    BY <1>6, <2>1, <2>2, <2>4 DEF AtMost
  <2>6. AtMost(LogEntries(logs', vset'.log), LogTop')
    BY <1>5, <1>6, <1>8, <2>1
  <2>7. \A n \in DOMAIN logs' : n <= logfile'
    BY <1>1, <1>7, <2>1
  <2> QED  BY <1>1, <2>3, <2>4, <2>5, <2>6, <2>7 DEF LogNewer
<1>12. ImmNewer'
  <2> SUFFICES ASSUME imm # None
               PROVE  /\ OneEach(imm.entries) /\ AtMost(imm.entries, vset'.last)
                      /\ Older(VersionEntries(tables, vset.v), imm.entries)
                      /\ Older(imm.entries, EntriesOf(logs'[logfile].recs))
    BY <1>1, <1>5 DEF ImmNewer
  <2>1. /\ OneEach(imm.entries) /\ AtMost(imm.entries, vset.last)
        /\ Older(VersionEntries(tables, vset.v), imm.entries)
        /\ Older(imm.entries, EntriesOf(logs[logfile].recs))
    BY <1>2 DEF NewerInv, ImmNewer
  <2>2. imm.entries \in Table
    BY <1>2 DEF LevelDBInv, OpenOnly, OpenMem
  <2>3. \A x \in imm.entries : Sequence(x) \in Nat
    BY <2>2, IKeyParts DEF Table
  <2>4. AtMost(imm.entries, vset'.last)
    BY <1>3, <1>6, <2>1, <2>3 DEF AtMost
  <2> QED  BY <1>3, <1>7, <2>1, <2>4
<1> QED  BY <1>10, <1>11, <1>12 DEF NewerInv

\* A batch that is written to the log is newer than all there is.
LEMMA AddNewer ==
  ASSUME LevelDBInv, NewerInv, AddBatch
  PROVE  NewerInv'
<1>1. /\ phase = "open" /\ phase' = "open" /\ writer = None
      /\ UNCHANGED <<tables, mem, imm, logfile, vset, edit, comp>> /\ Manifest' = Manifest
  BY DEF AddBatch, Manifest
<1>2. PICK w \in Writes, lost \in BOOLEAN :
        LET b == [seq |-> vset.last + 1, ops |-> w.ops, sync |-> w.sync,
                  log |-> logfile, torn |-> Torn(logs[logfile])]
        IN  /\ vset.last + Len(w.ops) <= MaxSeq
            /\ writer' = b
            /\ logs' = [logs EXCEPT ![logfile] =
                          AddRecord(@, [seq |-> b.seq, ops |-> b.ops, lost |-> lost])]
  BY DEF AddBatch
<1> DEFINE b == [seq |-> vset.last + 1, ops |-> w.ops, sync |-> w.sync,
                 log |-> logfile, torn |-> Torn(logs[logfile])]
           r == [seq |-> b.seq, ops |-> b.ops, lost |-> lost]
           k == Len(w.ops)
           E == Entries(r)
<1>3. writer' = b /\ logs' = [logs EXCEPT ![logfile] = AddRecord(@, r)]
  BY <1>2
<1>4. /\ VersionSetType /\ vset.next \in Nat /\ vset.log \in Nat /\ vset.last \in Nat
      /\ logfile \in DOMAIN logs /\ vset.log <= logfile /\ logfile \in Nat
      /\ IsLogs(logs) /\ IsTables(tables) /\ GoodVersion(vset.v, tables, vset.next)
      /\ \A n \in Durable(Manifest) : vset.log <= Manifest.recs[n].log
  BY <1>1, OpenFacts
<1>5. w.ops \in Seq(Op) /\ k \in Nat
  <2>1. w.ops \in Seq([key : Keys, put : BOOLEAN])
    BY WritesAssumption
  <2>2. w.ops \in Seq(Op)
    BY <2>1 DEF Op
  <2> QED  BY <2>2
<1>6. r \in Record /\ writer' # None /\ r.seq = vset.last + 1 /\ r.ops = w.ops
  <2>1. vset.last + 1 + k <= MaxSequence
    BY <1>2, <1>4, <1>5, BoundsAssumption DEF MaxSequence
  <2>2. Fits(r)
    BY <2>1 DEF Fits
  <2>3. "seq" \in DOMAIN b /\ "seq" \notin DOMAIN None
    BY DEF None
  <2> QED  BY <1>3, <1>4, <1>5, <2>2, <2>3 DEF Record
<1>7. Entries(writer') = E /\ writer'.ops = w.ops
  BY <1>3 DEF Entries
<1> HIDE DEF b, r
<1>8. /\ E \subseteq IKey /\ OneEach(E)
      /\ \A x \in E : vset.last < Sequence(x) /\ Sequence(x) <= vset.last + k
  <2>1. E \in Table
    <3>1. r \in Record
      BY <1>6
    <3> DEFINE rs == <<r>>
    <3>2. rs \in Seq(Record) /\ DOMAIN rs = {1} /\ rs[1] = r
      BY <3>1
    <3> HIDE DEF rs
    <3>3. EntriesOf(rs) = E
      BY <3>2 DEF EntriesOf
    <3> QED  BY <3>2, <3>3, EntriesOfRecords
  <2>2. \A x \in E : vset.last + 1 <= Sequence(x) /\ Sequence(x) + 1 <= vset.last + 1 + k
    BY <1>4, <1>5, <1>6, BatchNumbers
  <2>3. \A x \in E : Sequence(x) \in Nat
    BY <2>1, IKeyParts DEF Table
  <2>4. OneEach(E)
    BY <1>4, <1>5, <1>6, BatchNumbers
  <2> QED  BY <1>4, <1>5, <2>1, <2>2, <2>3, <2>4 DEF Table
<1> HIDE DEF E, k
<1>9. /\ DOMAIN logs' = DOMAIN logs
      /\ EntriesOf(logs'[logfile].recs) = EntriesOf(logs[logfile].recs) \cup E
      /\ \A m : LogEntries(logs', m) \subseteq LogEntries(logs, m) \cup E
  <2> DEFINE g == AddRecord(logs[logfile], r)
  <2>1. IsLogs(logs) /\ logfile \in DOMAIN logs /\ r \in Record
    BY <1>4, <1>6
  <2>2. logs[logfile] \in [recs : Seq(Record), synced : Nat]
    BY <2>1 DEF IsLogs, LogFile
  <2>3. g = [logs[logfile] EXCEPT !.recs = Append(logs[logfile].recs, r)]
    BY DEF AddRecord
  <2>4. logs' = [logs EXCEPT ![logfile] = g]
    BY <1>3
  <2> HIDE DEF g
  <2>5. g.recs = Append(logs[logfile].recs, r)
    BY <2>2, <2>3
  <2>6. /\ DOMAIN logs' = DOMAIN logs /\ logs'[logfile].recs = Append(logs[logfile].recs, r)
        /\ \A n \in DOMAIN logs : n # logfile => logs'[n] = logs[n]
    BY <2>1, <2>4, <2>5 DEF IsLogs
  <2>7. /\ EntriesOf(logs'[logfile].recs) = EntriesOf(logs[logfile].recs) \cup Entries(r)
        /\ \A m : LogEntries(logs', m) \subseteq LogEntries(logs, m) \cup Entries(r)
    BY ONLY <2>1, <2>6, LongerLogEntries, ZenonT(40)
  <2> QED  BY <2>6, <2>7 DEF E
<1>10. /\ \A n \in DOMAIN logs : n <= logfile
       /\ AtMost(LogEntries(logs, vset.log), vset.last)
       /\ mem \subseteq EntriesOf(logs[logfile].recs) /\ AtMost(mem, vset.last)
  BY <1>1, <1>4 DEF NewerInv, LogNewer, LogTop
<1>11. Restorable(tables, logs', vset.v, vset)
  <2>1. Restorable(tables, logs, vset.v, vset)
    BY <1>1 DEF NewerInv, VersionNewer
  <2> QED  BY <1>4, <1>8, <1>9, <1>10, <2>1, RestorableMore
<1>12. DiskNewer'
  <2> SUFFICES ASSUME NEW n \in Durable(Manifest) PROVE RecordNewer(tables, logs', Manifest, n)
    BY <1>1 DEF DiskNewer
  <2> DEFINE q == Manifest.recs[n]
             v == VersionOf(SubSeq(Manifest.recs, 1, n))
  <2>1. q.last \in Nat /\ q.log \in Nat /\ GoodVersion(v, tables, q.next)
    BY DurableFacts
  <2>2. Restorable(tables, logs, v, q)
    BY DEF NewerInv, DiskNewer, RecordNewer
  <2>3. q.last <= vset.last /\ vset.log <= q.log
    BY <1>1, <1>4 DEF NewerInv, VersionNewer
  <2> HIDE DEF q, v
  <2>4. LogEntries(logs, q.log) \subseteq LogEntries(logs, vset.log)
    BY <1>4, <2>1, <2>3, EntriesOfLogs
  <2>5. AtMost(LogEntries(logs, q.log), vset.last)
    BY <1>10, <2>4 DEF AtMost
  <2>6. Restorable(tables, logs', v, q)
    BY <1>4, <1>8, <1>9, <2>1, <2>2, <2>3, <2>5, RestorableMore
  <2> QED  BY <2>6 DEF RecordNewer, q, v
<1>13. OpeningNewer' /\ EditNewer' /\ CompNewer'
  BY <1>1 DEF NewerInv, OpeningNewer, EditNewer, CompNewer, FromInputs
<1>14. VersionNewer'
  BY <1>1, <1>11 DEF NewerInv, VersionNewer
<1>15. LogNewer'
  <2>1. LogTop' = vset.last + k
    BY <1>1, <1>6, <1>7 DEF LogTop, k
  <2>2. \A x \in LogEntries(logs, vset.log) : Sequence(x) \in Nat
    BY <1>4, EntriesOfLogs, IKeyParts
  <2>3. AtMost(LogEntries(logs', vset.log), vset.last + k)
    <3>1. k \in Nat
      BY <1>5
    <3>2. \A x \in LogEntries(logs, vset.log) : Sequence(x) <= vset.last
      BY <1>10 DEF AtMost
    <3>3. \A x \in LogEntries(logs, vset.log) \cup E : Sequence(x) <= vset.last + k
      BY <1>4, <1>8, <2>2, <3>1, <3>2
    <3> QED  BY <1>9, <3>3 DEF AtMost
  <2> QED  BY <1>1, <1>7, <1>9, <1>10, <2>1, <2>3 DEF LogNewer
<1>16. ImmNewer'
  <2> SUFFICES ASSUME imm # None
               PROVE  /\ OneEach(imm.entries) /\ AtMost(imm.entries, vset.last)
                      /\ Older(VersionEntries(tables, vset.v), imm.entries)
                      /\ Older(imm.entries, EntriesOf(logs'[logfile].recs))
    BY <1>1 DEF ImmNewer
  <2>1. /\ OneEach(imm.entries) /\ AtMost(imm.entries, vset.last)
        /\ Older(VersionEntries(tables, vset.v), imm.entries)
        /\ Older(imm.entries, EntriesOf(logs[logfile].recs))
    BY <1>1 DEF NewerInv, ImmNewer
  <2>2. imm.entries \in Table
    BY <1>1 DEF LevelDBInv, OpenOnly, OpenMem
  <2>3. \A x \in imm.entries : Sequence(x) \in Nat
    BY <2>2, IKeyParts DEF Table
  <2>4. \A x \in E : Sequence(x) \in Nat
    BY <1>8, IKeyParts
  <2>5. \A x \in imm.entries, y \in E : Sequence(x) < Sequence(y)
    BY <1>4, <1>8, <2>1, <2>3, <2>4 DEF AtMost
  <2>6. Older(imm.entries, EntriesOf(logs[logfile].recs) \cup E)
    BY <2>1, <2>5 DEF Older
  <2> QED  BY <1>9, <2>1, <2>6
<1> QED  BY <1>12, <1>13, <1>14, <1>15, <1>16 DEF NewerInv

\* A record that could not be written brings no entry, but its numbers are used.
LEMMA AddFailsNewer ==
  ASSUME LevelDBInv, NewerInv, AddRecordFails
  PROVE  NewerInv'
<1> DEFINE r == [seq |-> vset.last + 1, ops |-> <<>>, lost |-> TRUE]
           inLog == EntriesOf(logs[logfile].recs)
<1>1. /\ phase = "open" /\ phase' = "open" /\ writer = None /\ writer' = None
      /\ UNCHANGED <<tables, manifests, current, mem, imm, logfile, edit, comp>>
      /\ logs' = [logs EXCEPT ![logfile] = AddRecord(@, r)]
  BY DEF AddRecordFails
<1>2. /\ VersionSetType /\ vset.next \in Nat /\ vset.log \in Nat /\ vset.last \in Nat
      /\ logfile \in DOMAIN logs /\ vset.log <= logfile /\ logfile \in Nat
      /\ IsLogs(logs) /\ IsTables(tables) /\ GoodVersion(vset.v, tables, vset.next)
  BY <1>1, OpenFacts
<1>3. PICK w \in Writes : /\ vset.last + Len(w.ops) <= MaxSeq
                          /\ vset' = [vset EXCEPT !.last = @ + Len(w.ops)]
  BY DEF AddRecordFails
<1> DEFINE k == Len(w.ops)
<1>4. k \in Nat /\ vset.last + k <= MaxSeq /\ vset' = [vset EXCEPT !.last = vset.last + k]
  <2>1. w.ops \in Seq([key : Keys, put : BOOLEAN])
    BY WritesAssumption
  <2> QED  BY <1>3, <2>1
<1> HIDE DEF k
<1>5. vset'.v = vset.v /\ vset'.log = vset.log /\ vset'.last = vset.last + k
  BY <1>2, <1>4 DEF VersionSetType
<1>6. vset'.last \in Nat /\ vset.last <= vset'.last /\ LogTop = vset.last /\ LogTop' = vset'.last
  BY <1>1, <1>2, <1>4, <1>5 DEF LogTop
<1>7. r \in Record /\ Entries(r) = {}
  <2>1. vset.last + 1 <= MaxSequence
    BY <1>2, <1>4, BoundsAssumption DEF MaxSequence
  <2>2. r.ops \in Seq(Op) /\ Len(r.ops) = 0 /\ DOMAIN r.ops = {}
    OBVIOUS
  <2>3. Fits(r)
    BY <1>2, <2>1, <2>2 DEF Fits
  <2>4. Entries(r) = {}
    BY <2>2 DEF Entries
  <2>5. r \in Record
    BY <1>2, <2>2, <2>3 DEF Record
  <2> QED  BY <2>4, <2>5
<1> HIDE DEF r
<1>8. /\ DOMAIN logs' = DOMAIN logs
      /\ EntriesOf(logs'[logfile].recs) = inLog
      /\ \A m : LogEntries(logs', m) \subseteq LogEntries(logs, m)
  <2> DEFINE g == AddRecord(logs[logfile], r)
  <2>1. IsLogs(logs) /\ logfile \in DOMAIN logs /\ r \in Record
    BY <1>2, <1>7
  <2>2. logs[logfile] \in [recs : Seq(Record), synced : Nat]
    BY <2>1 DEF IsLogs, LogFile
  <2>3. g = [logs[logfile] EXCEPT !.recs = Append(logs[logfile].recs, r)]
    BY DEF AddRecord
  <2>4. logs' = [logs EXCEPT ![logfile] = g]
    BY <1>1
  <2> HIDE DEF g
  <2>5. g.recs = Append(logs[logfile].recs, r)
    BY <2>2, <2>3
  <2>6. /\ DOMAIN logs' = DOMAIN logs /\ logs'[logfile].recs = Append(logs[logfile].recs, r)
        /\ \A n \in DOMAIN logs : n # logfile => logs'[n] = logs[n]
    BY <2>1, <2>4, <2>5 DEF IsLogs
  <2>7. /\ EntriesOf(logs'[logfile].recs) = inLog \cup Entries(r)
        /\ \A m : LogEntries(logs', m) \subseteq LogEntries(logs, m) \cup Entries(r)
    BY ONLY <2>1, <2>6, LongerLogEntries, ZenonT(40)
  <2> QED  BY <1>7, <2>6, <2>7
<1> HIDE DEF inLog
<1>9. Calm
  BY <1>1, <1>5, <1>6, <1>8 DEF Calm
<1>10. DiskNewer' /\ OpeningNewer' /\ VersionNewer' /\ EditNewer' /\ CompNewer'
  BY <1>9, CalmNewer
<1>11. LogNewer'
  <2>1. mem \subseteq inLog /\ AtMost(LogEntries(logs, vset.log), vset.last)
        /\ AtMost(mem, vset.last) /\ \A n \in DOMAIN logs : n <= logfile
    BY <1>1, <1>6 DEF NewerInv, LogNewer, inLog
  <2>2. inLog \subseteq LogEntries(logs, vset.log) /\ LogEntries(logs, vset.log) \subseteq IKey
    BY <1>2, EntriesOfLogs DEF inLog
  <2>3. \A x \in LogEntries(logs, vset.log) : Sequence(x) \in Nat
    BY <2>2, IKeyParts
  <2>4. AtMost(mem, vset'.last) /\ AtMost(LogEntries(logs', vset.log), vset'.last)
    BY <1>2, <1>6, <1>8, <2>1, <2>2, <2>3 DEF AtMost
  <2> QED  BY <1>1, <1>5, <1>6, <1>8, <2>1, <2>4 DEF LogNewer
<1>12. ImmNewer'
  <2> SUFFICES ASSUME imm # None
               PROVE  /\ OneEach(imm.entries) /\ AtMost(imm.entries, vset'.last)
                      /\ Older(VersionEntries(tables, vset.v), imm.entries)
                      /\ Older(imm.entries, EntriesOf(logs'[logfile].recs))
    BY <1>1, <1>5 DEF ImmNewer
  <2>1. /\ OneEach(imm.entries) /\ AtMost(imm.entries, vset.last)
        /\ Older(VersionEntries(tables, vset.v), imm.entries)
        /\ Older(imm.entries, inLog)
    BY <1>1 DEF NewerInv, ImmNewer, inLog
  <2>2. imm.entries \in Table
    BY <1>1 DEF LevelDBInv, OpenOnly, OpenMem
  <2>3. \A x \in imm.entries : Sequence(x) \in Nat
    BY <2>2, IKeyParts DEF Table
  <2>4. AtMost(imm.entries, vset'.last)
    BY <1>2, <1>6, <2>1, <2>3 DEF AtMost
  <2> QED  BY <1>8, <2>1, <2>4
<1> QED  BY <1>10, <1>11, <1>12 DEF NewerInv

\* A step that adds tables at most leaves what was there as new as it was.
LEMMA LaterNewer ==
  ASSUME LevelDBInv, NewerInv, Later, vset'.last = vset.last
  PROVE  /\ OpeningNewer' /\ LogNewer' /\ ImmNewer'
         /\ Restorable(tables', logs', vset'.v, vset')
         /\ \A n \in Durable(Manifest) : RecordNewer(tables', logs', Manifest, n)
         /\ \A v : GoodVersion(v, tables, vset.next) => SameFiles(tables, tables', v)
<1>1. /\ phase = "open" /\ phase' = "open" /\ UNCHANGED <<logs, logfile, mem, imm, writer>>
      /\ vset'.v = vset.v /\ vset'.log = vset.log /\ Agrees(tables, tables', vset.next)
  BY DEF Later
<1>2. /\ IsTables(tables) /\ vset.next \in Nat /\ vset.last \in Nat
      /\ GoodVersion(vset.v, tables, vset.next)
      /\ \A n \in Durable(Manifest) : Manifest.recs[n].next <= vset.next
  BY <1>1, OpenFacts
<1>3. \A v : \A n \in Nat : n <= vset.next /\ GoodVersion(v, tables, n) => SameFiles(tables, tables', v)
  BY <1>1, <1>2, SameFilesInMore
<1>4. vset.next <= vset.next /\ SameFiles(tables, tables', vset.v)
  BY <1>2, <1>3
<1>5. Restorable(tables', logs', vset'.v, vset')
  <2>1. Restorable(tables, logs, vset.v, vset)
    BY <1>1 DEF NewerInv, VersionNewer
  <2>2. vset.last <= vset'.last /\ LogEntries(logs', vset'.log) \subseteq LogEntries(logs, vset.log)
    BY <1>1, <1>2
  <2>3. Restorable(tables', logs', vset.v, vset')
    BY <1>2, <1>4, <2>1, <2>2, RestorableKept
  <2> QED  BY <1>1, <2>3
<1>6. ASSUME NEW n \in Durable(Manifest) PROVE RecordNewer(tables', logs', Manifest, n)
  <2> DEFINE q == Manifest.recs[n]
             v == VersionOf(SubSeq(Manifest.recs, 1, n))
  <2>1. q.last \in Nat /\ q.next \in Nat /\ GoodVersion(v, tables, q.next) /\ q.next <= vset.next
    BY <1>2, DurableFacts
  <2>2. Restorable(tables, logs, v, q)
    BY DEF NewerInv, DiskNewer, RecordNewer
  <2> HIDE DEF q, v
  <2>3. SameFiles(tables, tables', v)
    BY <1>3, <2>1
  <2>4. q.last <= q.last /\ LogEntries(logs', q.log) \subseteq LogEntries(logs, q.log)
    BY <1>1, <2>1
  <2>5. Restorable(tables', logs', v, q)
    BY <1>2, <2>1, <2>2, <2>3, <2>4, RestorableKept
  <2> QED  BY <2>5 DEF RecordNewer, q, v
<1>7. OpeningNewer'
  BY <1>1 DEF OpeningNewer
<1>8. LogNewer'
  <2>1. LogTop' = LogTop
    BY <1>1 DEF LogTop
  <2> QED  BY <1>1, <2>1 DEF NewerInv, LogNewer
<1>9. ImmNewer'
  <2>1. VersionEntries(tables', vset.v) = VersionEntries(tables, vset.v)
    BY <1>4, SameEntries
  <2> QED  BY <1>1, <2>1 DEF NewerInv, ImmNewer
<1> QED  BY <1>2, <1>3, <1>4, <1>5, <1>6, <1>7, <1>8, <1>9

\* When no edit is logged.
LEMMA LaterSameNewer ==
  ASSUME LevelDBInv, NewerInv, Later, vset'.last = vset.last, edit = None, UNCHANGED <<manifests, edit>>
  PROVE  /\ DiskNewer' /\ OpeningNewer' /\ VersionNewer' /\ LogNewer' /\ ImmNewer' /\ EditNewer'
         /\ \A v : GoodVersion(v, tables, vset.next) => SameFiles(tables, tables', v)
<1>1. Manifest' = Manifest /\ phase = "open" /\ edit' = None
  BY DEF Manifest, Later
<1>2. DiskNewer'
  BY <1>1, LaterNewer DEF DiskNewer
<1>3. VersionNewer'
  <2>1. \A n \in Durable(Manifest) : Manifest.recs[n].last <= vset.last
    BY <1>1 DEF NewerInv, VersionNewer
  <2> QED  BY <1>1, <2>1, LaterNewer DEF VersionNewer
<1>4. EditNewer'
  BY <1>1 DEF EditNewer
<1> QED  BY <1>2, <1>3, <1>4, LaterNewer

\* When an edit is logged the version with it is newest first, too.
LEMMA LaterLoggedNewer ==
  ASSUME LevelDBInv, NewerInv, Later, vset'.last = vset.last, VersionOf(Manifest.recs) = vset.v,
         NEW e, LogAndApply(e), e.last = vset.last,
         Restorable(tables', logs', SaveTo(vset.v, e), e),
         e.kind # "flush" =>
           VersionEntries(tables', SaveTo(vset.v, e)) \subseteq VersionEntries(tables', vset.v)
  PROVE  /\ DiskNewer' /\ OpeningNewer' /\ VersionNewer' /\ LogNewer' /\ ImmNewer' /\ EditNewer'
         /\ \A v : GoodVersion(v, tables, vset.next) => SameFiles(tables, tables', v)
<1>1. phase = "open" /\ UNCHANGED current /\ vset'.v = vset.v
  BY DEF Later
<1>2. /\ edit' = e /\ Manifest'.recs[Len(Manifest'.recs)] = e
      /\ VersionOf(SubSeq(Manifest'.recs, 1, Len(Manifest'.recs))) = SaveTo(vset.v, e)
      /\ \A n \in Durable(Manifest') :
           \/ n = Len(Manifest'.recs)
           \/ /\ n \in Durable(Manifest) /\ Manifest'.recs[n] = Manifest.recs[n]
              /\ SubSeq(Manifest'.recs, 1, n) = SubSeq(Manifest.recs, 1, n)
  BY <1>1, LoggedRecords
<1>3. vset.last \in Nat
  BY <1>1, OpenFacts
<1>4. DiskNewer'
  <2> SUFFICES ASSUME NEW n \in Durable(Manifest') PROVE RecordNewer(tables', logs', Manifest', n)
    BY DEF DiskNewer
  <2>1. CASE n = Len(Manifest'.recs)
    BY <1>2, <2>1 DEF RecordNewer
  <2>2. CASE n \in Durable(Manifest) /\ Manifest'.recs[n] = Manifest.recs[n]
             /\ SubSeq(Manifest'.recs, 1, n) = SubSeq(Manifest.recs, 1, n)
    <3>1. RecordNewer(tables', logs', Manifest, n)
      BY <2>2, LaterNewer
    <3> QED  BY <2>2, <3>1 DEF RecordNewer
  <2> QED  BY <1>2, <2>1, <2>2
<1>5. VersionNewer'
  <2>1. \A n \in Durable(Manifest) : Manifest.recs[n].last <= vset.last
    BY <1>1 DEF NewerInv, VersionNewer
  <2>2. \A n \in Durable(Manifest') : Manifest'.recs[n].last <= vset'.last
    BY <1>2, <1>3, <2>1
  <2> QED  BY <2>2, LaterNewer DEF VersionNewer
<1>6. EditNewer'
  BY <1>1, <1>2, <1>3 DEF EditNewer
<1> QED  BY <1>4, <1>5, <1>6, LaterNewer

\* Under a compaction under way tables are added at most.
LEMMA LaterCompNewer ==
  ASSUME LevelDBInv, NewerInv, Later, comp # None
  PROVE  /\ Inputs(vset.v, comp.c) /\ LeavesNewer(tables', vset.v, comp.c)
         /\ InputEntries(tables', comp.c) = InputEntries(tables, comp.c)
         /\ FromInputs(tables', comp)
<1>1. phase = "open" /\ Agrees(tables, tables', vset.next)
  BY DEF Later
<1>2. /\ IsTables(tables) /\ vset.next \in Nat /\ GoodVersion(vset.v, tables, vset.next)
      /\ vset.next <= vset.next
  BY <1>1, OpenFacts
<1>3. SameFiles(tables, tables', vset.v)
  BY <1>1, <1>2, SameFilesInMore
<1>4. Inputs(vset.v, comp.c) /\ LeavesNewer(tables, vset.v, comp.c) /\ FromInputs(tables, comp)
  BY <1>1 DEF NewerInv, CompNewer
<1>5. LeavesNewer(tables', vset.v, comp.c) /\ InputEntries(tables', comp.c) = InputEntries(tables, comp.c)
  BY <1>3, <1>4, SameEntries
<1>6. \A f \in Range(comp.done) : tables'[f.number] = tables[f.number]
  <2>1. GoodFiles(Range(comp.done), tables, vset.next)
    BY <1>1 DEF LevelDBInv, OpenOnly, OpenUse
  <2>2. \A f \in Range(comp.done) : f.number \in DOMAIN tables /\ f.number < vset.next
    BY <2>1 DEF GoodFiles, GoodFile
  <2> QED  BY <1>1, <2>2 DEF Agrees
<1> QED  BY <1>4, <1>5, <1>6 DEF FromInputs

\* A memtable is written below what is newer.
LEMMA FlushNewer ==
  ASSUME LevelDBInv, LevelsInv, NewerInv, CompactMemTable
  PROVE  NewerInv'
<1>1. /\ phase = "open" /\ edit = None /\ imm # None /\ comp' = comp
      /\ (bgError = TRUE => comp # None)
      /\ Later /\ vset'.last = vset.last
  BY FlushIs
<1>2. PICK f, level, e :
        /\ LogAndApply(e) /\ e.kind = "flush" /\ e.log = logfile /\ e.last = vset.last
        /\ e.deleted = {} /\ e.added = IF imm.entries = {} THEN {} ELSE {<<level, f>>}
        /\ e # None /\ e.next = vset'.next /\ GoodEdit(e, tables', vset'.next)
        /\ level = PickLevelForMemTableOutput(vset.v, UserKey(f.smallest), UserKey(f.largest))
        /\ imm.entries # {} =>
             GoodFile(f, tables', vset'.next) /\ tables'[f.number] = imm.entries
  BY FlushIs
<1> DEFINE v == vset.v
           n == vset'.next
           w == SaveTo(v, e)
           T == imm.entries
<1>3. /\ VersionSetType /\ vset.next \in Nat /\ vset.log \in Nat /\ vset.last \in Nat
      /\ logfile \in DOMAIN logs /\ logfile \in Nat /\ vset.log <= logfile
      /\ IsLogs(logs) /\ IsTables(tables) /\ GoodVersion(v, tables, vset.next)
  BY <1>1, OpenFacts
<1>4. /\ IsTables(tables') /\ n \in Nat /\ GoodVersion(v, tables', n)
      /\ vset'.v = v /\ vset'.log = vset.log /\ UNCHANGED <<logs, imm, logfile>>
      /\ phase' = "open"
  BY <1>1, <1>3, LaterKeeps DEF Later
<1>5. /\ OneEach(T) /\ AtMost(T, vset.last) /\ Older(VersionEntries(tables', v), T)
      /\ Older(T, EntriesOf(logs[logfile].recs)) /\ T \subseteq IKey
  <2>1. ImmNewer'
    BY <1>1, LaterNewer
  <2>2. imm.entries \in Table
    BY <1>1 DEF LevelDBInv, OpenOnly, OpenMem
  <2> QED  BY <1>1, <1>4, <2>1, <2>2 DEF ImmNewer, Table
<1>6. Restorable(tables', logs, v, vset)
  <2>1. Restorable(tables', logs', vset'.v, vset')
    BY <1>1, LaterNewer
  <2> QED  BY <1>1, <1>4, <2>1 DEF Restorable
<1>7. Disjoint(v) /\ VersionOf(Manifest.recs) = v
  BY <1>1 DEF LevelsInv, OpenOrder
<1> HIDE DEF n
<1>8. /\ VersionEntries(tables', w) \subseteq VersionEntries(tables', v) \cup T
      /\ \A s : Layered(tables', v, s) /\ AtMost(T, s) => Layered(tables', w, s)
      /\ \A c : Inputs(v, c) => Inputs(w, c)
      /\ \A c : Inputs(v, c) /\ LeavesNewer(tables', v, c) => LeavesNewer(tables', w, c)
  <2>1. CASE T = {}
    <3>1. e.added = {} /\ 0 \in Levels /\ GoodEdit(e, tables', n)
      BY <1>2, <2>1, LevelsAre DEF n
    <3>2. \A a \in e.added : a[1] = 0
      BY <3>1
    <3>3. \A l \in Levels : \A g \in AddedAt(e, l) : tables'[g.number] \subseteq T
      BY <3>1 DEF AddedAt
    <3>4. \A m \in Levels : m < 0 =>
            \A y \in LevelEntries(tables', v, m), x \in T : UserKey(x) # UserKey(y)
      BY <2>1
    <3> HIDE DEF v, w, T
    <3> QED  BY <1>2, <1>4, <1>5, <3>1, <3>2, <3>3, <3>4, AddedNewer DEF w
  <2>2. CASE T # {}
    <3>1. GoodFile(f, tables', n) /\ tables'[f.number] = T /\ e.added = {<<level, f>>}
          /\ GoodEdit(e, tables', n)
      BY <1>2, <2>2 DEF n
    <3> HIDE DEF T
    <3> QED  BY <1>2, <1>4, <1>5, <1>7, <3>1, FlushedNewer
  <2> QED  BY <2>1, <2>2
<1>9. Restorable(tables', logs', w, e)
  <2> DEFINE inLog == EntriesOf(logs[logfile].recs)
             V == VersionEntries(tables', v)
  <2>1. LogEntries(logs, logfile) = inLog
    <3>1. \A m \in DOMAIN logs : m <= logfile
      BY <1>1 DEF NewerInv, LogNewer
    <3> QED  BY <1>3, <3>1, LastLogEntries
  <2>2. inLog \subseteq LogEntries(logs, vset.log)
    BY <1>3, EntriesOfLogs
  <2>3. Layered(tables', v, vset.last) /\ Older(V, LogEntries(logs, vset.log))
        /\ OneEach(LogEntries(logs, vset.log))
    BY <1>6 DEF Restorable
  <2>4. Layered(tables', w, e.last)
    BY <1>2, <1>5, <1>8, <2>3
  <2>5. OneEach(LogEntries(logs', e.log)) /\ LogEntries(logs', e.log) = inLog
    BY <1>2, <1>4, <2>1, <2>2, <2>3 DEF OneEach
  <2> HIDE DEF inLog, V
  <2>6. Older(V \cup T, inLog)
    BY <1>5, <2>2, <2>3 DEF Older, inLog
  <2>7. Older(VersionEntries(tables', w), LogEntries(logs', e.log))
    BY <1>8, <2>5, <2>6 DEF Older, V
  <2> QED  BY <2>4, <2>5, <2>7 DEF Restorable
<1>10. DiskNewer' /\ OpeningNewer' /\ VersionNewer' /\ LogNewer' /\ ImmNewer' /\ EditNewer'
  BY <1>1, <1>2, <1>7, <1>9, LaterLoggedNewer
<1>11. CompNewer'
  <2> SUFFICES ASSUME comp # None
               PROVE  /\ Inputs(v, comp.c) /\ LeavesNewer(tables', v, comp.c)
                      /\ Inputs(w, comp.c) /\ LeavesNewer(tables', w, comp.c)
                      /\ FromInputs(tables', comp)
    <3>1. edit' = e
      BY <1>2 DEF LogAndApply
    <3> QED  BY <1>1, <1>4, <3>1 DEF CompNewer
  <2>1. Inputs(v, comp.c) /\ LeavesNewer(tables', v, comp.c) /\ FromInputs(tables', comp)
    BY <1>1, LaterCompNewer
  <2> QED  BY <1>8, <2>1
<1> QED  BY <1>10, <1>11 DEF NewerInv

\* A version with fewer entries.
LEMMA RestorableLess ==
  ASSUME NEW tb, NEW ls, NEW v, NEW r, Restorable(tb, ls, v, r),
         NEW w, Layered(tb, w, r.last), VersionEntries(tb, w) \subseteq VersionEntries(tb, v),
         NEW e, e.last = r.last, e.log = r.log
  PROVE  Restorable(tb, ls, w, e)
BY DEF Restorable, Older

\* A move or a compaction takes away nothing that is newer than what it leaves.
LEMMA StartNewer ==
  ASSUME LevelDBInv, LevelDBInv', LevelsInv, NewerInv, phase = "open", edit = None, comp = None,
         bgError # TRUE, NEW c, Inputs(vset.v, c), LeavesNewer(tables, vset.v, c),
         NEW manual, StartCompaction(c, manual)
  PROVE  NewerInv'
<1> DEFINE vs == [vset EXCEPT !.pointers[c.level] = c.pointer]
           moved == CHOOSE f \in Range(c.in0) : TRUE
           entries == UNION {tables[i[2].number] : i \in InputFiles(c)}
           oldest == IF snapshots = {} THEN vset.last ELSE Min(snapshots)
           outputs == Outputs(c, entries, Kept(vset.v, c, entries, oldest))
           deleted == {<<c.level, moved>>}
           added == {<<c.level + 1, moved>>}
           ps == [l \in {c.level} |-> c.pointer]
           e == NewEdit(vs, "move", deleted, added, ps, vset.log)
<1>1. /\ vset' = vs
      /\ IF ~manual /\ IsTrivialMove(c) THEN LogAndApply(e) /\ UNCHANGED comp
         ELSE /\ comp' = [c |-> c, manual |-> manual, v |-> vset.v, done |-> <<>>, todo |-> outputs]
              /\ UNCHANGED <<edit, manifests>>
  BY DEF StartCompaction
<1>2. /\ Later /\ UNCHANGED <<tables, logs, imm, logfile, bgError>>
      /\ vset'.last = vset.last /\ vset'.next = vset.next /\ phase' = "open" /\ vset'.v = vset.v
      /\ vset'.log = vset.log
  BY StartIs DEF Later
<1>3. /\ IsTables(tables) /\ vset.next \in Nat /\ GoodVersion(vset.v, tables, vset.next)
  BY OpenFacts
<1>4. VersionOf(Manifest.recs) = vset.v
  BY DEF LevelsInv, OpenOrder
<1>5. Restorable(tables, logs, vset.v, vset) /\ Layered(tables, vset.v, vset.last)
  BY DEF NewerInv, VersionNewer, Restorable
<1>6. Range(c.in0) \subseteq Range(vset.v[c.level]) /\ Range(c.in1) \subseteq Range(vset.v[c.level + 1])
      /\ c.level \in Levels /\ c.level + 1 \in Levels
  BY SeqOver, LevelsAre DEF Inputs
<1>7. CASE ~manual /\ IsTrivialMove(c)
  <2>1. LogAndApply(e) /\ UNCHANGED comp
    BY <1>1, <1>7
  <2>2. /\ e.log = vset.log /\ e.last = vset.last /\ e.kind = "move"
        /\ e.deleted = deleted /\ e.added = added /\ e # None
    <3>1. e = [kind |-> "move", deleted |-> deleted, added |-> added, pointers |-> ps,
               log |-> vset.log, next |-> vs.next, last |-> vs.last]
      BY DEF NewEdit
    <3>2. vs.last = vset.last
      BY <1>1, <1>2
    <3> HIDE DEF e, deleted, added, ps
    <3>3. "kind" \in DOMAIN e /\ "kind" \notin DOMAIN None
      BY <3>1 DEF None
    <3> QED  BY <3>1, <3>2, <3>3
  <2>3. Range(c.in0) = {moved} /\ Range(c.in1) = {}
    <3>1. Len(c.in0) = 1 /\ c.in1 = <<>>
      BY <1>7 DEF IsTrivialMove
    <3>2. c.in0 \in Seq(Range(vset.v[c.level]))
      BY DEF Inputs
    <3>3. Range(c.in0) = {c.in0[1]} /\ Range(c.in1) = {}
      BY <3>1, <3>2 DEF Range
    <3> QED  BY <3>3
  <2> HIDE DEF e, moved, vs
  <2>4. InputFiles(c) = {<<c.level, moved>>}
    BY <2>3 DEF InputFiles
  <2>5. GoodEdit(e, tables, vset.next)
    <3>1. edit' = e
      BY <2>1 DEF LogAndApply
    <3>2. GoodEdit(edit', tables', vset'.next)
      BY <1>2, <2>2, <3>1 DEF LevelDBInv, OpenOnly, OpenEdit
    <3> QED  BY <1>2, <3>1, <3>2
  <2>6. /\ VersionEntries(tables, SaveTo(vset.v, e)) \subseteq VersionEntries(tables, vset.v)
        /\ Layered(tables, SaveTo(vset.v, e), vset.last)
    <3>1. \A f \in {moved} : tables[f.number] \subseteq InputEntries(tables, c)
      <4>1. <<c.level, moved>> \in InputFiles(c) /\ <<c.level, moved>>[2] = moved
        BY <2>4
      <4> QED  BY <4>1 DEF InputEntries
    <3>2. e.deleted = InputFiles(c) /\ e.added = {<<c.level + 1, f>> : f \in {moved}}
      BY <2>2, <2>4
    <3> QED  BY <1>3, <1>5, <2>5, <3>1, <3>2, CompactedNewer
  <2>7. Restorable(tables', logs', SaveTo(vset.v, e), e)
    BY <1>2, <1>5, <2>2, <2>6, RestorableLess
  <2>8. DiskNewer' /\ OpeningNewer' /\ VersionNewer' /\ LogNewer' /\ ImmNewer' /\ EditNewer'
    BY <1>2, <1>4, <2>1, <2>2, <2>6, <2>7, LaterLoggedNewer
  <2>9. CompNewer'
    BY <2>1 DEF CompNewer
  <2> QED  BY <2>8, <2>9 DEF NewerInv
<1>8. CASE ~(~manual /\ IsTrivialMove(c))
  <2>1. /\ comp' = [c |-> c, manual |-> manual, v |-> vset.v, done |-> <<>>, todo |-> outputs]
        /\ UNCHANGED <<edit, manifests>>
    BY <1>1, <1>8
  <2>2. DiskNewer' /\ OpeningNewer' /\ VersionNewer' /\ LogNewer' /\ ImmNewer' /\ EditNewer'
    BY <1>2, <2>1, LaterSameNewer
  <2>3. entries = InputEntries(tables, c)
    BY DEF InputEntries
  <2>4. IsFiniteSet(entries)
    <3>1. GoodFiles(InputSet(c), tables, vset.next)
      BY <1>3, <1>6 DEF GoodVersion, GoodFiles, InputSet
    <3>2. IsContents(InputEntries(tables, c))
      BY <1>3, <3>1, InputEntriesAre
    <3> QED  BY <2>3, <3>2 DEF IsContents
  <2> HIDE DEF entries, oldest
  <2>5. EntriesIn(outputs) \subseteq entries
    BY <2>4, OutputsInside
  <2> HIDE DEF outputs
  <2>6. comp'.c = c /\ comp'.done = <<>> /\ comp'.todo = outputs
    BY <2>1
  <2>7. FromInputs(tables', comp')
    <3>1. Range(comp'.done) = {}
      BY <2>6 DEF Range
    <3> QED  BY <1>2, <2>3, <2>5, <2>6, <3>1 DEF FromInputs
  <2>8. CompNewer'
    BY <1>2, <2>1, <2>6, <2>7 DEF CompNewer
  <2> QED  BY <2>2, <2>8 DEF NewerInv
<1> QED  BY <1>7, <1>8

\* A compaction the tree asks for.
LEMMA PickedNewer ==
  ASSUME LevelDBInv, LevelDBInv', LevelsInv, NewerInv, PickedCompaction
  PROVE  NewerInv'
<1> DEFINE c == PickCompaction(vset.v, vset.pointers, seek)
<1>1. /\ phase = "open" /\ edit = None /\ comp = None /\ bgError # TRUE
      /\ SizeCompaction(vset.v) \/ seek # None
      /\ StartCompaction(c, FALSE)
  BY DEF PickedCompaction, MayWork
<1>2. IsTables(tables) /\ GoodVersion(vset.v, tables, vset.next) /\ vset.next \in Nat
  BY <1>1, OpenFacts
<1>3. \/ SizeCompaction(vset.v)
      \/ seek.level \in 0 .. NumLevels - 2 /\ seek.file \in Range(vset.v[seek.level])
  BY <1>1 DEF LevelDBInv, OpenOnly, OpenUse
<1>4. Inputs(vset.v, c)
  BY <1>2, <1>3, PickedInside
<1>5. Disjoint(vset.v) /\ OneEach(VersionEntries(tables, vset.v))
  BY <1>1 DEF LevelsInv, OpenOrder, NewerInv, VersionNewer, Restorable, Layered
<1>6. FilesLeft(Range(vset.v[c.level]), Range(c.in0))
  BY <1>2, <1>3, <1>5, PickedLeaves
<1> HIDE DEF c
<1>7. LeavesNewer(tables, vset.v, c)
  BY <1>2, <1>4, <1>5, <1>6, LeftNewer
<1> QED  BY <1>1, <1>4, <1>7, StartNewer

\* A compaction on request.
LEMMA ManualNewer ==
  ASSUME LevelDBInv, LevelDBInv', LevelsInv, NewerInv, ManualCompaction
  PROVE  NewerInv'
<1>1. phase = "open" /\ edit = None /\ comp = None /\ bgError # TRUE
  BY DEF ManualCompaction, MayWork
<1>2. PICK r \in ManualRanges :
        /\ CompactRange(vset.v, r.level, r.begin, r.end) # None
        /\ StartCompaction(CompactRange(vset.v, r.level, r.begin, r.end), TRUE)
  BY DEF ManualCompaction
<1> DEFINE c == CompactRange(vset.v, r.level, r.begin, r.end)
<1>3. IsTables(tables) /\ GoodVersion(vset.v, tables, vset.next) /\ vset.next \in Nat
  BY <1>1, OpenFacts
<1>4. r.level \in 0 .. NumLevels - 2 /\ r.begin \in Nat /\ r.end \in Nat
  BY RangesAssumption
<1>5. Inputs(vset.v, c)
  BY <1>2, <1>3, <1>4, RangeInside
<1>6. Disjoint(vset.v) /\ OneEach(VersionEntries(tables, vset.v))
  BY <1>1 DEF LevelsInv, OpenOrder, NewerInv, VersionNewer, Restorable, Layered
<1>7. FilesLeft(Range(vset.v[c.level]), Range(c.in0))
  BY <1>2, <1>3, <1>4, <1>6, RangeLeaves
<1>8. StartCompaction(c, TRUE)
  BY <1>2
<1> HIDE DEF c
<1>9. LeavesNewer(tables, vset.v, c)
  BY <1>3, <1>5, <1>6, <1>7, LeftNewer
<1> QED  BY <1>1, <1>5, <1>8, <1>9, StartNewer

\* It comes from the inputs.
LEMMA OutputNewer ==
  ASSUME LevelDBInv, NewerInv, WriteOutput
  PROVE  NewerInv'
<1>1. /\ phase = "open" /\ edit = None /\ comp # None
      /\ Later /\ vset'.last = vset.last /\ UNCHANGED <<manifests, edit>>
      /\ comp.todo \in Seq(Table \ {{}}) /\ comp.todo # <<>> /\ comp.done \in Seq(Range(comp.done))
      /\ comp'.c = comp.c /\ comp'.todo = Tail(comp.todo)
      /\ comp'.done = Append(comp.done, FileOf(vset.next, Head(comp.todo)))
      /\ tables'[vset.next] = Head(comp.todo)
  BY WrittenIs
<1>2. DiskNewer' /\ OpeningNewer' /\ VersionNewer' /\ LogNewer' /\ ImmNewer' /\ EditNewer'
  BY <1>1, LaterSameNewer
<1>3. /\ Inputs(vset.v, comp.c) /\ LeavesNewer(tables', vset.v, comp.c)
      /\ FromInputs(tables', comp)
  BY <1>1, LaterCompNewer
<1> DEFINE q == comp.todo
           f == FileOf(vset.next, Head(q))
           X == Table \ {{}}
           I == InputEntries(tables', comp.c)
<1>4. Head(q) \subseteq EntriesIn(q) /\ EntriesIn(Tail(q)) \subseteq EntriesIn(q)
  <2>1. q \in Seq(X) /\ q # <<>>
    BY <1>1
  <2> HIDE DEF q, X
  <2>2. /\ 1 \in 1 .. Len(q) /\ Head(q) = q[1]
        /\ \A i \in 1 .. Len(Tail(q)) : i + 1 \in 1 .. Len(q) /\ Tail(q)[i] = q[i + 1]
    BY <2>1
  <2> QED  BY <2>2 DEF EntriesIn
<1>5. f.number = vset.next
  BY DEF FileOf
<1>6. Range(comp'.done) = Range(comp.done) \cup {f}
  <2> DEFINE d == comp.done
  <2>1. d \in Seq(Range(d)) /\ comp'.done = Append(d, f)
    BY <1>1
  <2> HIDE DEF d, f
  <2>2. Range(comp'.done) = Range(d) \cup {f}
    BY <2>1, AppendRange
  <2> QED  BY <2>2 DEF d
<1>7. tables'[vset.next] = Head(q) /\ comp'.todo = Tail(q) /\ comp'.c = comp.c
  BY <1>1
<1>8. \A g \in Range(comp.done) : tables'[g.number] \subseteq I
  BY <1>3 DEF FromInputs
<1>9. EntriesIn(q) \subseteq I
  BY <1>3 DEF FromInputs
<1> HIDE DEF q, f, I
<1>10. FromInputs(tables', comp')
  <2>1. tables'[f.number] \subseteq I
    BY <1>4, <1>5, <1>7, <1>9
  <2> QED  BY <1>4, <1>6, <1>7, <1>8, <1>9, <2>1 DEF FromInputs, I
<1>11. CompNewer'
  BY <1>1, <1>3, <1>10 DEF CompNewer, Later
<1> QED  BY <1>2, <1>11 DEF NewerInv

\* The edit of a compaction that is done.
LEMMA ResultsNewer ==
  ASSUME LevelDBInv, LevelDBInv', LevelsInv, NewerInv, InstallCompactionResults
  PROVE  NewerInv'
<1> DEFINE c == comp.c
           done == comp.done
           deleted == InputFiles(c)
           added == {<<c.level + 1, f>> : f \in Range(done)}
           ps == [l \in {c.level} |-> c.pointer]
           e == NewEdit(vset, "compaction", deleted, added, ps, vset.log)
           v == vset.v
<1>1. /\ phase = "open" /\ edit = None /\ comp # None /\ LogAndApply(e)
      /\ UNCHANGED <<logs, tables, current, phase, mem, imm, logfile, vset, seek, comp,
                     writer, snapshots, reader, bgError, history, doubt, events>>
  BY DEF InstallCompactionResults, MayWork
<1>2. /\ VersionSetType /\ vset.next \in Nat /\ IsTables(tables) /\ GoodVersion(v, tables, vset.next)
      /\ \A x \in DOMAIN tables : x < vset.next
  BY <1>1, OpenFacts
<1>3. /\ e.log = vset.log /\ e.last = vset.last /\ e.kind = "compaction"
      /\ e.deleted = deleted /\ e.added = added /\ e # None
  <2>1. e = [kind |-> "compaction", deleted |-> deleted, added |-> added, pointers |-> ps,
             log |-> vset.log, next |-> vset.next, last |-> vset.last]
    BY DEF NewEdit
  <2> HIDE DEF e, deleted, added, ps
  <2>2. "kind" \in DOMAIN e /\ "kind" \notin DOMAIN None
    BY <2>1 DEF None
  <2> QED  BY <2>1, <2>2
<1> HIDE DEF e
<1>4. Later
  <2>1. Agrees(tables, tables, vset.next)
    BY DEF Agrees
  <2>2. vset.next <= vset.next
    BY <1>2
  <2>3. VersionSetType'
    BY <1>1, <1>2 DEF VersionSetType
  <2> QED  BY <1>1, <1>2, <2>1, <2>2, <2>3 DEF Later
<1>5. edit' = e
  BY <1>1 DEF LogAndApply
<1>6. GoodEdit(e, tables, vset.next)
  <2>1. GoodEdit(edit', tables', vset'.next)
    BY <1>1, <1>3, <1>5 DEF LevelDBInv, OpenOnly, OpenEdit
  <2> QED  BY <1>1, <1>5, <2>1
<1>7. Inputs(v, c) /\ LeavesNewer(tables, v, c) /\ FromInputs(tables, comp)
  BY <1>1 DEF NewerInv, CompNewer
<1>8. Restorable(tables, logs, v, vset) /\ Layered(tables, v, vset.last)
  BY <1>1 DEF NewerInv, VersionNewer, Restorable
<1>9. /\ VersionEntries(tables, SaveTo(v, e)) \subseteq VersionEntries(tables, v)
      /\ Layered(tables, SaveTo(v, e), vset.last)
  <2>1. \A f \in Range(done) : tables[f.number] \subseteq InputEntries(tables, c)
    BY <1>7 DEF FromInputs
  <2>2. e.deleted = InputFiles(c) /\ e.added = {<<c.level + 1, f>> : f \in Range(done)}
    BY <1>3
  <2> HIDE DEF v, c, done
  <2> QED  BY <1>2, <1>6, <1>7, <1>8, <2>1, <2>2, CompactedNewer
<1>10. Restorable(tables', logs', SaveTo(v, e), e)
  BY <1>1, <1>3, <1>8, <1>9, RestorableLess
<1>11. VersionOf(Manifest.recs) = v
  BY <1>1 DEF LevelsInv, OpenOrder
<1>12. DiskNewer' /\ OpeningNewer' /\ VersionNewer' /\ LogNewer' /\ ImmNewer' /\ EditNewer'
  <2>1. vset'.last = vset.last /\ e.kind # "flush"
    BY <1>1, <1>3
  <2>2. VersionEntries(tables', SaveTo(v, e)) \subseteq VersionEntries(tables', v)
    BY <1>1, <1>9
  <2> QED  BY <1>1, <1>3, <1>4, <1>10, <1>11, <2>1, <2>2, LaterLoggedNewer
<1>13. CompNewer'
  BY <1>1, <1>3, <1>5, <1>7 DEF CompNewer
<1> QED  BY <1>12, <1>13 DEF NewerInv

\* The version that is installed is the last the manifest gives.
LEMMA InstallNewer ==
  ASSUME LevelDBInv, LevelDBInv', LevelsInv, NewerInv, Install
  PROVE  NewerInv'
<1> DEFINE w == SaveTo(vset.v, edit)
           N == Len(Manifest.recs)
<1>1. /\ phase = "open" /\ phase' = "open" /\ edit # None /\ edit' = None
      /\ vset'.v = w /\ vset'.log = edit.log /\ vset'.last = vset.last
      /\ vset'.next = vset.next /\ UNCHANGED <<mem, logfile, writer>>
      /\ imm' = (IF edit.kind = "flush" THEN None ELSE imm)
      /\ comp' = (IF edit.kind = "compaction" THEN None ELSE comp)
      /\ Manifest'.recs = Manifest.recs /\ Durable(Manifest') = {N}
      /\ VersionOf(Manifest.recs) = w
      /\ (\A x \in DOMAIN tables' : x \in DOMAIN tables /\ tables'[x] = tables[x])
      /\ (\A x \in DOMAIN logs' : x \in DOMAIN logs /\ logs'[x] = logs[x])
  BY InstallIs
<1>2. /\ VersionSetType /\ vset.last \in Nat /\ vset.log \in Nat /\ vset.next \in Nat
      /\ IsTables(tables) /\ IsLogs(logs)
  BY <1>1, OpenFacts
<1>3. Manifest.recs[N] = edit /\ edit.last \in Nat /\ edit.log \in Nat /\ vset.log <= edit.log
  BY <1>1, EditFacts
<1>4. /\ N \in Durable(Manifest) /\ SubSeq(Manifest.recs, 1, N) = Manifest.recs
      /\ GoodVersion(w, tables, edit.next)
  BY <1>1, <1>3, DurableFacts
<1>5. VersionSetType' /\ GoodVersion(w, tables', vset.next) /\ logfile \in DOMAIN logs'
      /\ (comp' # None => GoodFiles(Range(comp'.done), tables', vset.next))
  BY <1>1 DEF LevelDBInv, OpenOnly, OpenFiles, OpenUse
<1> HIDE DEF w, N
<1>6. SameFiles(tables, tables', w)
  <2>1. \A l \in Levels : \A f \in Range(w[l]) : f.number \in DOMAIN tables'
    BY <1>5 DEF GoodVersion, GoodFiles, GoodFile
  <2> QED  BY <1>1, <2>1 DEF SameFiles
<1>7. \A m : LogEntries(logs', m) \subseteq LogEntries(logs, m)
  <2>1. /\ DOMAIN logs' \subseteq DOMAIN logs
        /\ \A n \in DOMAIN logs' : EntriesOf(logs'[n].recs) \subseteq EntriesOf(logs[n].recs)
    BY <1>1
  <2> QED  BY <2>1, FewerLogs
<1>8. Restorable(tables, logs, w, edit) /\ edit.last <= vset.last
  <2>1. RecordNewer(tables, logs, Manifest, N)
    BY <1>4 DEF NewerInv, DiskNewer
  <2>2. edit.last <= vset.last
    BY <1>1 DEF NewerInv, EditNewer
  <2> QED  BY <1>1, <1>3, <1>4, <2>1, <2>2 DEF RecordNewer
<1>9. DiskNewer'
  <2>1. edit.last <= edit.last /\ LogEntries(logs', edit.log) \subseteq LogEntries(logs, edit.log)
    BY <1>3, <1>7
  <2>2. Restorable(tables', logs', w, edit)
    BY <1>2, <1>3, <1>4, <1>6, <1>8, <2>1, RestorableKept
  <2>3. RecordNewer(tables', logs', Manifest', N)
    BY <1>1, <1>3, <1>4, <2>2 DEF RecordNewer
  <2> QED  BY <1>1, <2>3 DEF DiskNewer
<1>10. OpeningNewer' /\ EditNewer'
  BY <1>1 DEF OpeningNewer, EditNewer
<1>11. VersionNewer'
  <2>1. vset'.last \in Nat /\ edit.last <= vset'.last
        /\ LogEntries(logs', vset'.log) \subseteq LogEntries(logs, edit.log)
    BY <1>1, <1>2, <1>7, <1>8
  <2>2. Restorable(tables', logs', w, vset')
    BY <1>2, <1>3, <1>4, <1>6, <1>8, <2>1, RestorableKept
  <2> QED  BY <1>1, <1>3, <1>8, <2>2 DEF VersionNewer
<1>12. LogNewer'
  <2>1. LogTop' = LogTop /\ UNCHANGED <<mem, logfile, writer>>
    BY <1>1 DEF LogTop
  <2>2. /\ \A n \in DOMAIN logs : n <= logfile
        /\ AtMost(LogEntries(logs, vset.log), LogTop)
        /\ mem \subseteq EntriesOf(logs[logfile].recs) /\ AtMost(mem, vset.last)
        /\ writer # None => Entries(writer) \subseteq EntriesOf(logs[logfile].recs)
    BY <1>1 DEF NewerInv, LogNewer
  <2>3. \A n \in DOMAIN logs' : n <= logfile
    BY <1>1, <2>2
  <2>4. LogEntries(logs', vset'.log) \subseteq LogEntries(logs, vset.log)
    <3>1. LogEntries(logs, edit.log) \subseteq LogEntries(logs, vset.log)
      BY <1>2, <1>3, EntriesOfLogs
    <3> QED  BY <1>1, <1>7, <3>1
  <2>5. AtMost(LogEntries(logs', vset'.log), LogTop)
    BY <2>2, <2>4 DEF AtMost
  <2>6. logs'[logfile] = logs[logfile]
    BY <1>1, <1>5
  <2> QED  BY <1>1, <2>1, <2>2, <2>3, <2>5, <2>6 DEF LogNewer
<1>13. ImmNewer'
  <2> SUFFICES ASSUME imm' # None
               PROVE  /\ OneEach(imm'.entries) /\ AtMost(imm'.entries, vset'.last)
                      /\ Older(VersionEntries(tables', vset'.v), imm'.entries)
                      /\ Older(imm'.entries, EntriesOf(logs'[logfile'].recs))
    BY DEF ImmNewer
  <2>1. edit.kind # "flush" /\ imm' = imm
    BY <1>1
  <2>2. VersionEntries(tables, w) \subseteq VersionEntries(tables, vset.v)
    BY <1>1, <2>1 DEF NewerInv, EditNewer, w
  <2>3. VersionEntries(tables', w) = VersionEntries(tables, w)
    BY <1>6, SameEntries
  <2>4. /\ OneEach(imm.entries) /\ AtMost(imm.entries, vset.last)
        /\ Older(VersionEntries(tables, vset.v), imm.entries)
        /\ Older(imm.entries, EntriesOf(logs[logfile].recs))
    BY <1>1, <2>1 DEF NewerInv, ImmNewer
  <2>5. Older(VersionEntries(tables', w), imm.entries)
    BY <2>2, <2>3, <2>4 DEF Older
  <2>6. logs'[logfile] = logs[logfile] /\ logfile' = logfile
    BY <1>1, <1>5
  <2> QED  BY <1>1, <2>1, <2>4, <2>5, <2>6
<1>14. CompNewer'
  <2> SUFFICES ASSUME comp' # None
               PROVE  /\ Inputs(w, comp.c) /\ LeavesNewer(tables', w, comp.c)
                      /\ FromInputs(tables', comp)
    BY <1>1 DEF CompNewer
  <2>1. edit.kind # "compaction" /\ comp' = comp /\ comp # None
    BY <1>1
  <2>2. Inputs(w, comp.c) /\ LeavesNewer(tables, w, comp.c) /\ FromInputs(tables, comp)
    BY <1>1, <2>1 DEF NewerInv, CompNewer, w
  <2>3. LeavesNewer(tables', w, comp.c) /\ InputEntries(tables', comp.c) = InputEntries(tables, comp.c)
    BY <1>6, <2>2, SameEntries
  <2>4. \A f \in Range(comp.done) : tables'[f.number] = tables[f.number]
    <3>1. \A f \in Range(comp.done) : f.number \in DOMAIN tables'
      BY <1>5, <2>1 DEF GoodFiles, GoodFile
    <3> QED  BY <1>1, <3>1
  <2> QED  BY <2>2, <2>3, <2>4 DEF FromInputs
<1> QED  BY <1>9, <1>10, <1>11, <1>12, <1>13, <1>14 DEF NewerInv

\* What remains of the manifest and the logs was there.
LEMMA FewerRecordsNewer ==
  ASSUME LevelDBInv, DiskNewer, UNCHANGED tables,
         \A m : LogEntries(logs', m) \subseteq LogEntries(logs, m),
         \A n \in Durable(Manifest') :
           /\ n \in Durable(Manifest) /\ Manifest'.recs[n] = Manifest.recs[n]
           /\ SubSeq(Manifest'.recs, 1, n) = SubSeq(Manifest.recs, 1, n)
  PROVE  DiskNewer'
<1> SUFFICES ASSUME NEW n \in Durable(Manifest') PROVE RecordNewer(tables, logs', Manifest', n)
  BY DEF DiskNewer
<1>1. /\ n \in Durable(Manifest) /\ Manifest'.recs[n] = Manifest.recs[n]
      /\ SubSeq(Manifest'.recs, 1, n) = SubSeq(Manifest.recs, 1, n)
  OBVIOUS
<1> DEFINE r == Manifest.recs[n]
           v == VersionOf(SubSeq(Manifest.recs, 1, n))
<1>2. IsTables(tables) /\ r.last \in Nat /\ GoodVersion(v, tables, r.next) /\ r.last <= r.last
  BY <1>1, DurableFacts
<1>3. Restorable(tables, logs, v, r) /\ LogEntries(logs', r.log) \subseteq LogEntries(logs, r.log)
  BY <1>1 DEF DiskNewer, RecordNewer
<1> HIDE DEF r, v
<1>4. SameFiles(tables, tables, v)
  BY DEF SameFiles
<1>5. Restorable(tables, logs', v, r)
  BY <1>2, <1>3, <1>4, RestorableKept
<1> QED  BY <1>1, <1>5 DEF RecordNewer, r, v

\* The record of an edit that failed may be there.
LEMMA InstallFailsNewer ==
  ASSUME LevelDBInv, NewerInv, InstallFails
  PROVE  NewerInv'
<1> DEFINE N == Len(Manifest.recs)
           q == Front(Manifest.recs)
           f == [Manifest EXCEPT !.recs = q]
<1>1. /\ phase = "open" /\ edit # None /\ edit' = None /\ comp' \in {comp, None}
      /\ \/ UNCHANGED manifests
         \/ manifests' = [manifests EXCEPT ![vset.manifest].recs = Front(@)]
      /\ UNCHANGED <<logs, tables, current, phase, mem, imm, logfile, vset, writer>>
  BY DEF InstallFails
<1>2. /\ vset.manifest = current /\ current \in DOMAIN manifests
      /\ IsFile(Manifest) /\ IsSeq(Manifest.recs) /\ N \in Nat /\ Manifest.synced \in 1 .. N
  BY <1>1, OpenFacts DEF Records, IsFile, IsSeq
<1>3. manifests = [n \in DOMAIN manifests |-> manifests[n]]
  BY DEF LevelDBInv, Disk
<1>4. q = SubSeq(Manifest.recs, 1, N - 1)
  BY DEF Front
<1> HIDE DEF q, N
<1>5. Manifest' = Manifest \/ Manifest' = f
  <2>1. CASE UNCHANGED manifests
    BY <1>1, <2>1 DEF Manifest
  <2>2. CASE manifests' = [manifests EXCEPT ![vset.manifest].recs = Front(@)]
    <3>1. manifests' = [manifests EXCEPT ![current] = f]
      BY <1>2, <2>2 DEF Manifest, q
    <3> HIDE DEF f
    <3> QED  BY <1>1, <1>2, <1>3, <3>1 DEF Manifest
  <2> QED  BY <1>1, <2>1, <2>2
<1>6. ASSUME NEW n \in Durable(Manifest')
      PROVE  /\ n \in Durable(Manifest) /\ Manifest'.recs[n] = Manifest.recs[n]
             /\ SubSeq(Manifest'.recs, 1, n) = SubSeq(Manifest.recs, 1, n)
  <2>1. CASE Manifest' = Manifest
    BY <2>1
  <2>2. CASE Manifest' = f
    <3>1. f.recs = q /\ f.synced = Manifest.synced
      BY <1>2 DEF IsFile
    <3> HIDE DEF f
    <3>2. N - 1 \in 0 .. N
      BY <1>2
    <3>3. Len(q) = N - 1 /\ \A i \in 1 .. N - 1 : q[i] = Manifest.recs[i]
      BY <1>2, <1>4, <3>2, Prefix DEF N
    <3>4. n \in Durable(Manifest) /\ n \in 0 .. N - 1 /\ n \in 1 .. N - 1
      BY <1>2, <2>2, <3>1, <3>3 DEF Durable, N
    <3>5. SubSeq(q, 1, n) = SubSeq(Manifest.recs, 1, n)
      BY <1>2, <1>4, <3>2, <3>4, PrefixOfPrefix DEF N
    <3> QED  BY <2>2, <3>1, <3>3, <3>4, <3>5
  <2> QED  BY <1>5, <2>1, <2>2
<1>7. DiskNewer'
  BY <1>1, <1>6, FewerRecordsNewer DEF NewerInv
<1>8. VersionNewer'
  <2>1. Restorable(tables, logs, vset.v, vset)
        /\ \A n \in Durable(Manifest) : Manifest.recs[n].last <= vset.last
    BY <1>1 DEF NewerInv, VersionNewer
  <2> QED  BY <1>1, <1>6, <2>1 DEF VersionNewer
<1>9. LogNewer'
  <2>1. LogTop' = LogTop
    BY <1>1 DEF LogTop
  <2> QED  BY <1>1, <2>1 DEF NewerInv, LogNewer
<1>10. OpeningNewer' /\ ImmNewer' /\ EditNewer'
  BY <1>1 DEF NewerInv, OpeningNewer, ImmNewer, EditNewer
<1>11. CompNewer'
  BY <1>1 DEF NewerInv, CompNewer, FromInputs
<1> QED  BY <1>7, <1>8, <1>9, <1>10, <1>11 DEF NewerInv

\* The process is gone.
LEMMA FailuresNewer ==
  ASSUME LevelDBInv, NewerInv, MachineFails \/ ProcessEnds
  PROVE  NewerInv'
<1>1. phase' = "closed" /\ UNCHANGED <<current, tables>>
  BY DEF MachineFails, ProcessEnds, Lost
<1>2. OpeningNewer' /\ VersionNewer' /\ LogNewer' /\ ImmNewer' /\ EditNewer' /\ CompNewer'
  BY <1>1 DEF OpeningNewer, VersionNewer, LogNewer, ImmNewer, EditNewer, CompNewer
<1>3. CASE ProcessEnds
  <2>1. Manifest' = Manifest /\ UNCHANGED <<tables, logs>>
    BY <1>3 DEF ProcessEnds, Manifest
  <2>2. DiskNewer'
    BY <2>1 DEF NewerInv, DiskNewer
  <2> QED  BY <1>2, <2>2 DEF NewerInv
<1>4. CASE MachineFails
  <2>1. PICK cut \in [DOMAIN logs -> 0..MaxSeq], end \in 1 .. Len(Manifest.recs) :
          /\ MayCut(logs, cut) /\ end >= Manifest.synced /\ logs' = Left(logs, cut)
          /\ manifests' = [manifests EXCEPT ![current] = CutFile(manifests[current], end)]
    BY <1>4 DEF MachineFails, Manifest, MayCut, Left
  <2>2. /\ manifests = [n \in DOMAIN manifests |-> manifests[n]] /\ IsLogs(logs)
        /\ current \in DOMAIN manifests /\ Records(Manifest, current, tables)
    BY DEF LevelDBInv, Disk
  <2>3. /\ IsFile(Manifest) /\ IsSeq(Manifest.recs)
        /\ end \in Durable(Manifest) /\ end \in 0 .. Len(Manifest.recs) /\ end \in 0 .. end
        /\ end \in 1 .. end
    BY <2>1, <2>2 DEF Records, IsFile, IsSeq, Durable
  <2> DEFINE p == SubSeq(Manifest.recs, 1, end)
             h == [Manifest EXCEPT !.recs = p]
             g == CutFile(Manifest, end)
  <2>4. Manifest' = g
    <3>1. manifests' = [manifests EXCEPT ![current] = g]
      BY <2>1 DEF Manifest
    <3> HIDE DEF g
    <3> QED  BY <1>1, <2>2, <3>1 DEF Manifest
  <2>5. Len(p) = end /\ SubSeq(p, 1, end) = p /\ p[end] = Manifest.recs[end]
    BY <2>3, Prefix, PrefixOfPrefix
  <2> HIDE DEF p
  <2>6. g.recs = p /\ Durable(g) = {end}
    <3>1. h = [recs |-> p, synced |-> Manifest.synced]
      BY <2>3 DEF IsFile
    <3>2. g = [h EXCEPT !.synced = Len(h.recs)]
      BY DEF SyncFile, CutFile, p
    <3> HIDE DEF h, g
    <3>3. g.recs = p /\ g.synced = end
      BY <2>5, <3>1, <3>2
    <3>4. Durable(g) = end .. end
      BY <2>5, <3>3 DEF Durable
    <3> QED  BY <2>3, <3>3, <3>4
  <2> HIDE DEF g
  <2>7. \A m : LogEntries(logs', m) \subseteq LogEntries(logs, m)
    BY <2>1, <2>2, CutLogEntries
  <2>8. ASSUME NEW n \in Durable(Manifest')
        PROVE  /\ n \in Durable(Manifest) /\ Manifest'.recs[n] = Manifest.recs[n]
               /\ SubSeq(Manifest'.recs, 1, n) = SubSeq(Manifest.recs, 1, n)
    <3>1. n = end
      BY <2>4, <2>6
    <3> QED  BY <2>3, <2>4, <2>5, <2>6, <3>1 DEF p
  <2>9. DiskNewer'
    BY <1>1, <2>7, <2>8, FewerRecordsNewer DEF NewerInv
  <2> QED  BY <1>2, <2>9 DEF NewerInv
<1> QED  BY <1>3, <1>4

\* The tables made from the logs are newer than the version, and all that is
\* on the disk stays.
LEMMA RecoverNewer ==
  ASSUME LevelDBInv, LevelDBInv', NewerInv, Recover
  PROVE  NewerInv'
<1> DEFINE N == Len(Manifest.recs)
           e == Manifest.recs[N]
           v == VersionOf(SubSeq(Manifest.recs, 1, N))
           S == ReplayedFrom(e.log)
<1>1. /\ phase' = "opening" /\ edit'.last = vset'.last /\ edit'.deleted = {}
      /\ vset'.v = v /\ vset'.last \in Nat /\ e.last <= vset'.last /\ AtMost(S, vset'.last)
      /\ Manifest' = Manifest /\ N \in Durable(Manifest)
      /\ (\A n \in Durable(Manifest) : Manifest.recs[n].next <= e.next)
      /\ Agrees(tables, tables', e.next + 1)
      /\ (\A n \in DOMAIN logs' : n <= logfile') /\ LogEntries(logs', logfile') = {}
      /\ (\A m : LogEntries(logs', m) = LogEntries(logs, m))
      /\ (\A a \in edit'.added : a[1] = 0 /\ tables'[a[2].number] \subseteq S)
  BY RecoverIs
<1>2. /\ IsTables(tables) /\ IsLogs(logs)
      /\ \A n \in Durable(Manifest) :
           /\ Manifest.recs[n].next \in Nat /\ Manifest.recs[n].last \in Nat
           /\ GoodVersion(VersionOf(SubSeq(Manifest.recs, 1, n)), tables, Manifest.recs[n].next)
  BY DurableFacts
<1>3. \A n \in Durable(Manifest) :
        SameFiles(tables, tables', VersionOf(SubSeq(Manifest.recs, 1, n)))
  <2> SUFFICES ASSUME NEW n \in Durable(Manifest)
               PROVE  SameFiles(tables, tables', VersionOf(SubSeq(Manifest.recs, 1, n)))
    OBVIOUS
  <2> DEFINE x == Manifest.recs[n].next
             k == e.next + 1
  <2>1. x \in Nat /\ k \in Nat /\ x <= k
    BY <1>1, <1>2
  <2> HIDE DEF x, k
  <2>2. GoodVersion(VersionOf(SubSeq(Manifest.recs, 1, n)), tables, x) /\ Agrees(tables, tables', k)
    BY <1>1, <1>2 DEF x, k
  <2> QED  BY <1>2, <2>1, <2>2, SameFilesInMore
<1>4. DiskNewer'
  BY <1>1, <1>3, DiskNewerKept DEF NewerInv
<1>5. Restorable(tables, logs, v, e) /\ e.last \in Nat
  BY <1>1, <1>2 DEF NewerInv, DiskNewer, RecordNewer
<1>6. /\ IsTables(tables') /\ vset'.next \in Nat
      /\ GoodVersion(vset'.v, tables', vset'.next) /\ GoodEdit(edit', tables', vset'.next)
  BY <1>1 DEF LevelDBInv, Disk, Saving, VersionSetType
<1>7. SameFiles(tables, tables', v) /\ S \subseteq LogEntries(logs, e.log) /\ S \subseteq IKey
  BY <1>1, <1>2, <1>3, EntriesOfLogs, ReplayedIs
<1> HIDE DEF v, e, S, N
<1>8. Layered(tables, v, e.last) /\ Older(VersionEntries(tables, v), S) /\ OneEach(S)
  BY <1>5, <1>7 DEF Restorable, Older, OneEach
<1>9. /\ VersionEntries(tables', v) = VersionEntries(tables, v)
      /\ Layered(tables', v, vset'.last)
  <2>1. /\ VersionEntries(tables', v) = VersionEntries(tables, v)
        /\ Layered(tables', v, e.last)
    BY <1>7, <1>8, SameEntries
  <2>2. \A x \in VersionEntries(tables', v) : Sequence(x) \in Nat
    BY <1>1, <1>6, EntriesOfVersion
  <2>3. AtMost(VersionEntries(tables', v), vset'.last)
    BY <1>1, <1>5, <2>1, <2>2 DEF Layered, AtMost
  <2> QED  BY <2>1, <2>3 DEF Layered
<1>10. \A l \in Levels : \A f \in AddedAt(edit', l) : tables'[f.number] \subseteq S
  BY <1>1 DEF AddedAt
<1>11. Layered(tables', SaveTo(vset'.v, edit'), vset'.last)
  <2> DEFINE tb == tables'
             d == edit'
             n == vset'.next
             s == vset'.last
  <2>1. 0 \in Levels /\ \A m \in Levels : ~(m < 0)
    BY LevelsAre
  <2>2. /\ IsTables(tb) /\ n \in Nat /\ GoodVersion(v, tb, n) /\ GoodEdit(d, tb, n)
        /\ d.deleted = {} /\ (\A a \in d.added : a[1] = 0)
        /\ (\A l \in Levels : \A f \in AddedAt(d, l) : tb[f.number] \subseteq S)
        /\ Older(VersionEntries(tb, v), S) /\ Layered(tb, v, s) /\ AtMost(S, s)
    BY <1>1, <1>6, <1>8, <1>9, <1>10
  <2> HIDE DEF tb, d, n, s
  <2>3. Layered(tb, SaveTo(v, d), s)
    BY <1>7, <1>8, <2>1, <2>2, AddedNewer
  <2> QED  BY <1>1, <2>3 DEF tb, d, s
<1>12. OpeningNewer'
  BY <1>1, <1>11 DEF OpeningNewer
<1>13. VersionNewer' /\ LogNewer' /\ ImmNewer' /\ EditNewer' /\ CompNewer'
  BY <1>1 DEF VersionNewer, LogNewer, ImmNewer, EditNewer, CompNewer
<1> QED  BY <1>4, <1>12, <1>13 DEF NewerInv

\* The database opens with the version recovery made and an empty log.
LEMMA OpenDoneNewer ==
  ASSUME LevelDBInv, LevelDBInv', NewerInv, OpenDone
  PROVE  NewerInv'
<1> DEFINE w == SaveTo(vset.v, edit)
<1>1. /\ phase = "opening" /\ phase' = "open" /\ edit' = None /\ comp' = None /\ imm' = None
      /\ mem' = {} /\ writer' = None /\ logfile' = logfile
      /\ vset'.v = w /\ vset'.log = logfile /\ vset'.last = vset.last
      /\ vset.last \in Nat /\ logfile \in Nat
      /\ Durable(Manifest') = {2} /\ Manifest'.recs[2] = edit /\ edit.log = logfile
      /\ VersionOf(SubSeq(Manifest'.recs, 1, 2)) = w
      /\ (\A x \in DOMAIN tables' : x \in DOMAIN tables /\ tables'[x] = tables[x])
      /\ (\A x \in DOMAIN logs' : x \in DOMAIN logs /\ logs'[x] = logs[x])
  BY OpenDoneIs
<1>2. GoodVersion(w, tables', vset'.next)
  BY <1>1 DEF LevelDBInv, OpenOnly, OpenFiles
<1>3. /\ Layered(tables, w, edit.last) /\ edit.last = vset.last
      /\ LogEntries(logs, logfile) = {} /\ \A n \in DOMAIN logs : n <= logfile
  BY <1>1 DEF NewerInv, OpeningNewer
<1> HIDE DEF w
<1>4. SameFiles(tables, tables', w)
  <2>1. \A l \in Levels : \A f \in Range(w[l]) : f.number \in DOMAIN tables'
    BY <1>2 DEF GoodVersion, GoodFiles, GoodFile
  <2> QED  BY <1>1, <2>1 DEF SameFiles
<1>5. Layered(tables', w, vset.last)
  BY <1>3, <1>4, SameEntries
<1>6. LogEntries(logs', logfile) = {}
  <2>1. /\ DOMAIN logs' \subseteq DOMAIN logs
        /\ \A n \in DOMAIN logs' : EntriesOf(logs'[n].recs) \subseteq EntriesOf(logs[n].recs)
    BY <1>1
  <2>2. \A m : LogEntries(logs', m) \subseteq LogEntries(logs, m)
    BY <2>1, FewerLogs
  <2> QED  BY <1>3, <2>2
<1>7. /\ Restorable(tables', logs', w, vset') /\ Restorable(tables', logs', w, edit)
  <2>1. Older(VersionEntries(tables', w), {}) /\ OneEach({})
    BY DEF Older, OneEach
  <2> QED  BY <1>1, <1>3, <1>5, <1>6, <2>1 DEF Restorable
<1>8. DiskNewer'
  <2>1. RecordNewer(tables', logs', Manifest', 2)
    BY <1>1, <1>7 DEF RecordNewer
  <2> QED  BY <1>1, <2>1 DEF DiskNewer
<1>9. VersionNewer'
  BY <1>1, <1>3, <1>7 DEF VersionNewer
<1>10. LogNewer'
  <2>1. \A s : AtMost({}, s)
    BY DEF AtMost
  <2>2. AtMost(LogEntries(logs', vset'.log), LogTop') /\ AtMost(mem', vset'.last)
    BY <1>1, <1>6, <2>1
  <2> QED  BY <1>1, <1>3, <2>2 DEF LogNewer
<1>11. OpeningNewer' /\ ImmNewer' /\ EditNewer' /\ CompNewer'
  BY <1>1 DEF OpeningNewer, ImmNewer, EditNewer, CompNewer
<1> QED  BY <1>8, <1>9, <1>10, <1>11 DEF NewerInv

\* The new directory holds no entry.
LEMMA InitNewer == Init => NewerInv
<1> SUFFICES ASSUME Init PROVE NewerInv
  OBVIOUS
<1>1. phase = "closed" /\ logs = <<>> /\ tables = <<>>
  BY DEF Init
<1>2. OpeningNewer /\ VersionNewer /\ LogNewer /\ ImmNewer /\ EditNewer /\ CompNewer
  BY <1>1 DEF OpeningNewer, VersionNewer, LogNewer, ImmNewer, EditNewer, CompNewer
<1>3. ASSUME NEW n \in Durable(Manifest) PROVE RecordNewer(tables, logs, Manifest, n)
  <2> DEFINE v == VersionOf(SubSeq(Manifest.recs, 1, n))
             r == Manifest.recs[n]
  <2>1. GoodVersion(v, tables, r.next)
    BY InitLevelDBInv, DurableFacts
  <2> HIDE DEF v, r
  <2>2. \A l \in Levels : Range(v[l]) = {}
    BY <1>1, <2>1 DEF GoodVersion, GoodFiles, GoodFile
  <2>3. VersionEntries(tables, v) = {} /\ \A l \in Levels : LevelEntries(tables, v, l) = {}
    BY <2>2 DEF VersionEntries, LevelEntries
  <2>4. LogEntries(logs, r.log) = {}
    BY <1>1 DEF LogEntries
  <2>5. Layered(tables, v, r.last)
    BY <2>3 DEF Layered, NewerLevels, OneEach, AtMost
  <2>6. Older({}, {}) /\ OneEach({})
    BY DEF Older, OneEach
  <2> QED  BY <2>3, <2>4, <2>5, <2>6 DEF RecordNewer, Restorable, v, r
<1> QED  BY <1>2, <1>3 DEF NewerInv, DiskNewer

\* Every step keeps what is nearer to the memtable newer, as long as the levels
\* are in order.
LEMMA NewerInvNext ==
  ASSUME LevelDBInv, LevelDBInv', LevelsInv, NewerInv, [Next]_vars
  PROVE  NewerInv'
<1>1. CASE Recover
  BY <1>1, RecoverNewer
<1>2. CASE OpenDone
  BY <1>2, OpenDoneNewer
<1>3. CASE Install
  BY <1>3, InstallNewer
<1>4. CASE InstallFails
  BY <1>4, InstallFailsNewer
<1>5. CASE CompactMemTable
  BY <1>5, FlushNewer
<1>6. CASE PickedCompaction
  BY <1>6, PickedNewer
<1>7. CASE ManualCompaction
  BY <1>7, ManualNewer
<1>8. CASE WriteOutput
  BY <1>8, OutputNewer
<1>9. CASE InstallCompactionResults
  BY <1>9, ResultsNewer
<1>10. CASE MachineFails \/ ProcessEnds
  BY <1>10, FailuresNewer
<1>11. CASE SwitchMemTable
  BY <1>11, SwitchNewer
<1>12. CASE AddBatch \/ AddRecordFails
  BY <1>12, AddNewer, AddFailsNewer
<1>13. CASE WriteDone \/ SyncFails
  BY <1>13, BatchNewer
<1>14. CASE WorkFails \/ GetSnapshot \/ ReleaseSnapshot \/ BeginRead \/ EndRead \/ UNCHANGED vars
  BY <1>14, WorkAndReadsNewer
<1> QED
  BY <1>1, <1>2, <1>3, <1>4, <1>5, <1>6, <1>7, <1>8, <1>9, <1>10, <1>11, <1>12, <1>13, <1>14
     DEF Next

\* An entry is hidden by whatever is nearer to the memtable, in the memtables
\* and in the levels of the version (what Get relies on, version_set.cc
\* 324-410), as long as no compaction was tangled.
THEOREM NewerAboveCorrect == Spec => []NewerAbove
<1> DEFINE Newer == Ordered /\ (tangled \/ NewerInv)
<1>1. Init => Newer
  BY InitLevelDBInv, InitLevelsInv, InitNewer DEF Ordered
<1>2. Newer /\ [Next]_vars => Newer'
  <2> SUFFICES ASSUME Newer, [Next]_vars PROVE Newer'
    OBVIOUS
  <2>1. Ordered'
    BY OrderedNext
  <2>2. ASSUME ~tangled' PROVE NewerInv'
    <3>1. ~tangled
      BY <2>2, UntangledStep
    <3> QED  BY <2>1, <3>1, NewerInvNext DEF Ordered
  <2> QED  BY <2>1, <2>2
<1>3. Newer => NewerAbove
  BY NewerInvOrders DEF Ordered, NewerAbove
<1> HIDE DEF Newer
<1> QED  BY <1>1, <1>2, <1>3, PTL DEF Spec

================================================================================
