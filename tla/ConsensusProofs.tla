--------------------------- MODULE ConsensusProofs ---------------------------
(***************************************************************************)
(* Proofs about Consensus, for every set of producers, every tree of       *)
(* blocks, every maker of them and every threshold.                        *)
(***************************************************************************)
EXTENDS Consensus, FiniteSetTheorems, TLAPS

\* A committed block has Accept commit votes of other producers behind it.
DecidedQuorum ==
  \A n \in Producer : \A b \in decided[n] : Enough(n, commits, b)

\* A valid block in hand is a successor of LastBlock, where no task moves that.
HeldOnTip ==
  \A n \in Producer \ Syncing :
    validBlock[n] => block[n] \in Block /\ PrevOf[block[n]] = tip[n]

IInv == TypeOK /\ DecidedQuorum /\ HeldOnTip

-----------------------------------------------------------------------------
\* A new iteration of the loop leaves every local variable with its type.
LEMMA AgainType ==
  ASSUME NEW n \in Producer, TypeOK, Again(n)
  PROVE  /\ pc' \in [Producer -> {"Synchronize", "Precommit", "Collect"}]
         /\ block' \in [Producer -> Block \cup {NoBlock}]
         /\ validBlock' \in [Producer -> BOOLEAN]
         /\ target' \in [Producer -> Block \cup {Empty}]
BY DEF Again, Hold, TypeOK

\* Taking a block in hand does, too.
LEMMA HoldType ==
  ASSUME NEW n \in Producer, NEW b \in Block \cup {NoBlock}, NEW ok \in BOOLEAN,
         TypeOK, Hold(n, b, ok)
  PROVE  /\ block' \in [Producer -> Block \cup {NoBlock}]
         /\ validBlock' \in [Producer -> BOOLEAN]
BY DEF Hold, TypeOK

\* Every step of every producer preserves the type invariant.
LEMMA TypeStep == TypeOK /\ [Next]_vars => TypeOK'
<1> SUFFICES ASSUME TypeOK, [Next]_vars PROVE TypeOK'
  OBVIOUS
<1> USE ConsensusAssumption DEF Chained
<1>0. CASE UNCHANGED vars
  BY <1>0 DEF TypeOK, vars, local
<1>1. ASSUME NEW n \in Producer, NEW b \in Block, Propose(n, b) PROVE TypeOK'
  BY <1>1 DEF Propose, Hold, TypeOK
<1>2. ASSUME NEW n \in Producer, NEW b \in Block, Precommit(n, b) PROVE TypeOK'
  <2>1. (PrevOf[b] = tip[n]) \in BOOLEAN /\ PrevOf[b] \in Chained
    OBVIOUS
  <2>2. precommits' \subseteq Producer \X Block /\ nulls' \subseteq Producer \X Chained
    BY <1>2, <2>1 DEF Precommit, TypeOK
  <2>3. block' \in [Producer -> Block \cup {NoBlock}]
        /\ validBlock' \in [Producer -> BOOLEAN]
    BY <1>2, <2>1 DEF Precommit, Hold, TypeOK
  <2>4. QED
    BY <1>2, <2>2, <2>3 DEF Precommit, Restore, TypeOK
<1>3. ASSUME NEW n \in Producer, NEW b \in Block, PrecommitNull(n, b) PROVE TypeOK'
  BY <1>3 DEF PrecommitNull, Restore, Hold, TypeOK
<1>4. ASSUME NEW n \in Producer, NEW b \in Block, RestoreLate(n, b) PROVE TypeOK'
  BY <1>4 DEF RestoreLate, Restore, Hold, TypeOK
<1>5. ASSUME NEW n \in Producer, NEW h \in Block \cup {Empty}, Commit(n, h) PROVE TypeOK'
  <2>1. PICK b \in Block \cup {NoBlock}, ok \in BOOLEAN :
          /\ Subject(n, h, b, ok) /\ Hold(n, b, ok)
          /\ commits' = IF b # NoBlock /\ ok THEN commits \cup {<<n, b>>} ELSE commits
    BY <1>5 DEF Commit
  <2>2. taken' \in [Producer -> SUBSET Block]
    <3>1. CASE UNCHANGED taken
      BY <3>1 DEF TypeOK
    <3>2. CASE \E S \in SUBSET (proposed \ taken[n]) :
                 taken' = [taken EXCEPT ![n] = @ \cup S]
      BY <3>2 DEF TypeOK
    <3>3. QED
      BY <2>1, <3>1, <3>2 DEF Subject
  <2>3. commits' \subseteq Producer \X Block
    BY <2>1 DEF TypeOK
  <2>4. block' \in [Producer -> Block \cup {NoBlock}]
        /\ validBlock' \in [Producer -> BOOLEAN]
    BY <2>1, HoldType
  <2>5. QED
    BY <1>5, <2>2, <2>3, <2>4 DEF Commit, TypeOK
<1>6. ASSUME NEW n \in Producer, Decide(n) PROVE TypeOK'
  <2>1. block[n] \in Block
    BY <1>6 DEF Decide, TypeOK
  <2>2. QED
    BY <1>6, <2>1, AgainType DEF Decide, TypeOK
<1>7. ASSUME NEW n \in Producer, GiveUp(n) PROVE TypeOK'
  BY <1>7, AgainType DEF GiveUp, TypeOK
<1>8. ASSUME NEW n \in Producer, NEW m \in Producer, Download(n, m) PROVE TypeOK'
  BY <1>8 DEF Download, local, TypeOK
<1>9. QED
  BY <1>0, <1>1, <1>2, <1>3, <1>4, <1>5, <1>6, <1>7, <1>8 DEF Next

\* A count of votes never shrinks: votes are only added.
LEMMA EnoughStable ==
  ASSUME NEW n \in Producer, NEW b \in Block, NEW V, NEW W, V \subseteq W,
         Enough(n, V, b)
  PROVE  Enough(n, W, b)
<1>1. VotersFor(n, V, b) \subseteq VotersFor(n, W, b)
  BY DEF VotersFor
<1>2. IsFiniteSet(VotersFor(n, W, b))
  BY FS_Subset, ConsensusAssumption DEF VotersFor
<1>3. Cardinality(VotersFor(n, V, b)) <= Cardinality(VotersFor(n, W, b))
  BY <1>1, <1>2, FS_Subset
<1>4. QED
  BY <1>1, <1>2, <1>3, FS_Subset, FS_CardinalityType, ConsensusAssumption DEF Enough

\* No step withdraws a commit vote.
LEMMA CommitsGrow == [Next]_vars => commits \subseteq commits'
BY DEF Next, vars, local, Propose, Precommit, PrecommitNull, RestoreLate, Commit,
   Decide, GiveUp, Download

\* Only Decide extends decided, and it has counted the votes.
LEMMA DecidedStep == TypeOK /\ DecidedQuorum /\ [Next]_vars => DecidedQuorum'
<1> SUFFICES ASSUME TypeOK, DecidedQuorum, [Next]_vars,
                    NEW m \in Producer, NEW b \in decided'[m]
             PROVE  Enough(m, commits', b)
  BY DEF DecidedQuorum, Enough, VotersFor
<1>1. CASE b \in decided[m]
  <2>1. Enough(m, commits, b) /\ b \in Block
    BY <1>1 DEF DecidedQuorum, TypeOK
  <2>2. QED
    BY <2>1, CommitsGrow, EnoughStable
<1>2. CASE b \notin decided[m]
  <2>1. PICK n \in Producer : Decide(n)
    BY <1>2 DEF Next, vars, local, Propose, Precommit, PrecommitNull, RestoreLate,
       Commit, GiveUp, Download
  <2>2. m = n /\ b = block[n] /\ b = target[n]
    BY <1>2, <2>1 DEF Decide, TypeOK
  <2>3. QED
    BY <2>1, <2>2 DEF Decide
<1>3. QED
  BY <1>1, <1>2

\* The vote that Commit casts for a block is for a successor of LastBlock, if
\* no task ever runs on the producer.
LEMMA CommitVote ==
  ASSUME NEW n \in Producer \ Syncing, NEW h \in Block \cup {Empty},
         NEW b \in Block \cup {NoBlock}, NEW ok \in BOOLEAN,
         TypeOK, HeldOnTip, Subject(n, h, b, ok), ok
  PROVE  b \in Block /\ PrevOf[b] = tip[n]
<1>1. CASE h \in {Empty, block[n]}
  BY <1>1 DEF Subject, HeldOnTip
<1>2. CASE h \notin {Empty, block[n]}
  BY <1>2 DEF Subject
<1>3. QED
  BY <1>1, <1>2

\* A block stays a valid successor of LastBlock until the loop lets go of it.
LEMMA HeldStep == TypeOK /\ HeldOnTip /\ [Next]_vars => HeldOnTip'
<1> SUFFICES ASSUME TypeOK, HeldOnTip, [Next]_vars,
                    NEW m \in Producer \ Syncing, validBlock'[m]
             PROVE  block'[m] \in Block /\ PrevOf[block'[m]] = tip'[m]
  BY DEF HeldOnTip
<1>0. CASE UNCHANGED vars
  BY <1>0 DEF HeldOnTip, vars, local
<1>1. ASSUME NEW n \in Producer, NEW b \in Block, Propose(n, b)
      PROVE block'[m] \in Block /\ PrevOf[block'[m]] = tip'[m]
  BY <1>1 DEF Propose, Hold, HeldOnTip, TypeOK
<1>2. ASSUME NEW n \in Producer, NEW b \in Block, Precommit(n, b)
      PROVE block'[m] \in Block /\ PrevOf[block'[m]] = tip'[m]
  BY <1>2 DEF Precommit, Hold, HeldOnTip, TypeOK
<1>3. ASSUME NEW n \in Producer, NEW b \in Block,
             PrecommitNull(n, b) \/ RestoreLate(n, b)
      PROVE block'[m] \in Block /\ PrevOf[block'[m]] = tip'[m]
  BY <1>3 DEF PrecommitNull, RestoreLate, Hold, HeldOnTip, TypeOK
<1>4. ASSUME NEW n \in Producer, NEW h \in Block \cup {Empty}, Commit(n, h)
      PROVE block'[m] \in Block /\ PrevOf[block'[m]] = tip'[m]
  <2>1. PICK b \in Block \cup {NoBlock}, ok \in BOOLEAN :
          Subject(n, h, b, ok) /\ Hold(n, b, ok)
    BY <1>4 DEF Commit
  <2>2. tip' = tip
    BY <1>4 DEF Commit
  <2>3. CASE m = n
    <3>1. ok /\ block'[m] = b
      BY <2>1, <2>3 DEF Hold, TypeOK
    <3>2. QED
      BY <2>1, <2>2, <2>3, <3>1, CommitVote
  <2>4. CASE m # n
    BY <2>1, <2>2, <2>4 DEF Hold, HeldOnTip, TypeOK
  <2>5. QED
    BY <2>3, <2>4
<1>5. ASSUME NEW n \in Producer, Decide(n) \/ GiveUp(n)
      PROVE block'[m] \in Block /\ PrevOf[block'[m]] = tip'[m]
  <2>1. Again(n) /\ (m # n => tip'[m] = tip[m])
    BY <1>5 DEF Decide, GiveUp, TypeOK
  <2>2. m # n
    BY <2>1 DEF Again, Hold, TypeOK
  <2>3. QED
    BY <2>1, <2>2 DEF Again, Hold, HeldOnTip, TypeOK
<1>6. ASSUME NEW n \in Producer, NEW p \in Producer, Download(n, p)
      PROVE block'[m] \in Block /\ PrevOf[block'[m]] = tip'[m]
  BY <1>6 DEF Download, local, HeldOnTip, TypeOK
<1>7. QED
  BY <1>0, <1>1, <1>2, <1>3, <1>4, <1>5, <1>6 DEF Next

-----------------------------------------------------------------------------
\* The inductive invariant holds in every reachable state.
THEOREM Inductive == Spec => []IInv
<1>1. Init => IInv
  BY ConsensusAssumption DEF Init, IInv, TypeOK, DecidedQuorum, HeldOnTip, Chained
<1>2. IInv /\ [Next]_vars => IInv'
  BY TypeStep, DecidedStep, HeldStep DEF IInv
<1>3. QED
  BY <1>1, <1>2, PTL DEF Spec

\* Every variable of every producer keeps its type.
THEOREM TypeCorrect == Spec => []TypeOK
<1>1. IInv => TypeOK
  BY DEF IInv
<1>2. QED
  BY <1>1, Inductive, PTL

\* Two vote counts that reached Accept have 2 * Accept - |Producer| producers in
\* common, whoever counted.
LEMMA QuorumsMeet ==
  ASSUME NEW a \in Block, NEW b \in Block, NEW i \in Producer, NEW j \in Producer,
         Enough(i, commits, a), Enough(j, commits, b)
  PROVE  Cardinality(Revoters(a, b)) >= 2 * Accept - Cardinality(Producer)
<1> DEFINE A == VotersFor(i, commits, a)
           B == VotersFor(j, commits, b)
<1>1. A \subseteq Producer /\ B \subseteq Producer /\ A \cup B \subseteq Producer
  BY DEF VotersFor
<1>2. /\ IsFiniteSet(A) /\ IsFiniteSet(B) /\ IsFiniteSet(Producer)
      /\ Cardinality(A \cup B) <= Cardinality(Producer)
  BY <1>1, FS_Subset, ConsensusAssumption
<1>3. Cardinality(A \cup B) = Cardinality(A) + Cardinality(B) - Cardinality(A \cap B)
  BY <1>2, FS_Union
<1>4. A \cap B \subseteq Revoters(a, b) /\ Revoters(a, b) \subseteq Producer
  BY DEF VotersFor, Revoters
<1>5. /\ IsFiniteSet(Revoters(a, b)) /\ IsFiniteSet(A \cap B)
      /\ Cardinality(A \cap B) <= Cardinality(Revoters(a, b))
  BY <1>2, <1>4, FS_Subset
<1>6. Cardinality(A) >= Accept /\ Cardinality(B) >= Accept
  BY DEF Enough
<1>7. /\ Cardinality(A) \in Nat /\ Cardinality(B) \in Nat
      /\ Cardinality(A \cap B) \in Nat /\ Cardinality(Revoters(a, b)) \in Nat
      /\ Cardinality(Producer) \in Nat /\ Accept \in Nat
  BY <1>2, <1>5, FS_CardinalityType, ConsensusAssumption
<1> HIDE DEF A, B
<1>8. QED
  BY <1>2, <1>3, <1>5, <1>6, <1>7

\* Whenever rival blocks are committed, 2 * Accept - |Producer| producers cast
\* commit votes for both.
THEOREM ForkAccountableCorrect == Spec => []ForkAccountable
<1>1. IInv => ForkAccountable
  <2> SUFFICES ASSUME IInv, NEW a \in Decided, NEW b \in Decided
               PROVE  Cardinality(Revoters(a, b)) >= 2 * Accept - Cardinality(Producer)
    BY DEF ForkAccountable
  <2>1. PICK i \in Producer, j \in Producer : a \in decided[i] /\ b \in decided[j]
    BY DEF Decided
  <2>2. a \in Block /\ b \in Block
    BY <2>1 DEF IInv, TypeOK
  <2>3. Enough(i, commits, a) /\ Enough(j, commits, b)
    BY <2>1 DEF IInv, DecidedQuorum
  <2>4. QED
    BY <2>1, <2>2, <2>3, QuorumsMeet
<1>2. QED
  BY <1>1, Inductive, PTL

\* No producer has cast commit votes for two rival blocks.
NoRevote ==
  \A n \in Producer : \A a, b \in Block : {<<n, a>>, <<n, b>>} \subseteq commits => ~Rivals(a, b)

\* As long as no producer casts commit votes for two rivals, there is no fork:
\* remembering its vote is all that a producer is missing for Agreement.
THEOREM AgreementIfNoRevote ==
  2 * Accept > Cardinality(Producer) => (Spec => [](NoRevote => Agreement))
<1> SUFFICES ASSUME 2 * Accept > Cardinality(Producer)
             PROVE  Spec => [](NoRevote => Agreement)
  OBVIOUS
<1>1. IInv /\ ForkAccountable => (NoRevote => Agreement)
  <2> SUFFICES ASSUME IInv, ForkAccountable, NoRevote,
                      NEW a \in Decided, NEW b \in Decided, Rivals(a, b)
               PROVE  FALSE
    BY DEF Agreement
  <2>1. a \in Block /\ b \in Block
    BY DEF Decided, IInv, TypeOK
  <2>2. Revoters(a, b) = {}
    BY <2>1 DEF Revoters, NoRevote
  <2>3. Cardinality(Revoters(a, b)) = 0
    BY <2>2, FS_EmptySet
  <2>4. Accept \in Nat /\ Cardinality(Producer) \in Nat
    BY ConsensusAssumption, FS_CardinalityType
  <2>5. QED
    BY <2>3, <2>4 DEF ForkAccountable
<1>2. QED
  BY <1>1, Inductive, ForkAccountableCorrect, PTL

\* A producer without a task casts commit votes for successors of its LastBlock
\* only.
THEOREM VoteOnTipCorrect == Spec => VoteOnTip
<1> DEFINE A == \A n \in Producer \ Syncing, b \in Block :
                  <<n, b>> \in NewCommits => PrevOf[b] = tip[n]
<1>1. IInv /\ [Next]_vars => [A]_vars
  <2> SUFFICES ASSUME IInv, Next, NEW n \in Producer \ Syncing, NEW b \in Block,
                      <<n, b>> \in NewCommits
               PROVE  PrevOf[b] = tip[n]
    BY DEF IInv
  <2>1. PICK m \in Producer, h \in Block \cup {Empty} : Commit(m, h)
    BY DEF Next, NewCommits, Propose, Precommit, PrecommitNull, RestoreLate,
       Decide, GiveUp, Download
  <2>2. PICK c \in Block \cup {NoBlock}, ok \in BOOLEAN :
          /\ Subject(m, h, c, ok)
          /\ commits' = IF c # NoBlock /\ ok THEN commits \cup {<<m, c>>} ELSE commits
    BY <2>1 DEF Commit
  <2>3. ok /\ m = n /\ c = b
    BY <2>2 DEF NewCommits
  <2>4. QED
    BY <2>2, <2>3, CommitVote DEF IInv
<1>2. QED
  BY <1>1, Inductive, PTL DEF Spec, VoteOnTip
=============================================================================
