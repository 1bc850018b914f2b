------------------------- MODULE ProducerLoopProofs -------------------------
(***************************************************************************)
(* Proofs about ProducerLoop, for every set of peers, every tree of blocks *)
(* and every pair of thresholds.                                           *)
(***************************************************************************)
EXTENDS ProducerLoop, FiniteSetTheorems, TLAPS

(***************************************************************************)
(* Types and certificates                                                  *)
(***************************************************************************)
\* The variables NextIteration sets.
LocalType ==
  /\ pc = "Synchronize"
  /\ block \in Block \cup {NoBlock}
  /\ validBlock \in BOOLEAN /\ executed \in BOOLEAN
  /\ TypePrecommit /\ TypeCommit
  /\ myPrecommit \in Ballot /\ myCommit \in Ballot
  /\ TypeSync

\* The top of the while loop resets every local variable to a legal value.
LEMMA NextIterationType == TypeOK /\ NextIteration => LocalType'
<1> SUFFICES ASSUME TypeOK, NextIteration PROVE LocalType'
  OBVIOUS
<1>1. TypePrecommit'
  BY ThresholdAssumption DEF NextIteration, TypePrecommit, Chained
<1>2. TypeCommit'
  BY DEF NextIteration, TypeCommit
<1>3. TypeSync'
  BY DEF NextIteration, TypeOK, TypeLoop, TypeSync, SyncType
<1>4. myPrecommit' \in Ballot /\ myCommit' \in Ballot
  BY DEF NextIteration, NoVote, Ballot
<1>5. QED
  BY <1>1, <1>2, <1>3, <1>4 DEF NextIteration, LocalType

\* So does the step from SynchronizeState into PrecommitState.
LEMMA EnterPrecommitType ==
  TypeOK /\ EnterPrecommit => TypePrecommit' /\ TypeCommit' /\ pc' = "Precommit"
BY DEF TypeOK, EnterPrecommit, TypePrecommit, TypeCommit

\* A chain stays a non-empty chain when a block is appended.
LEMMA AppendType ==
  ASSUME NEW b \in Block, NEW r \in BOOLEAN, TypeChain, CommitBlock(b, r)
  PROVE  TypeChain'
BY DEF TypeChain, CommitBlock, Chained

LEMMA RefuseType ==
  ASSUME NEW b, NEW r, TypeChain, RefuseBlock(b, r)
  PROVE  TypeChain'
BY DEF TypeChain, RefuseBlock

\* The type invariant is preserved by every step of the loop, of
\* synchronizeTask and of the environment.
LEMMA TypeStep == TypeOK /\ [Next]_vars => TypeOK'
<1> SUFFICES ASSUME TypeOK, [Next]_vars PROVE TypeOK'
  OBVIOUS
<1>0. CASE UNCHANGED vars
  BY <1>0 DEF TypeOK, TypeLoop, TypeChain, TypeChips, TypePrecommit, TypeCommit,
     TypePending, TypeVotes, TypeSync, vars, chainVars, loopVars, preVars, comVars,
     pendVars, voteVars
<1>1. CASE BeginPending
  <2>1. TypeLoop'
    BY <1>1 DEF BeginPending, TypeOK, TypeLoop, loopVars
  <2>2. TypePending'
    BY <1>1 DEF BeginPending, TypeOK, TypePending, pendVars
  <2>3. QED
    BY <1>1, <2>1, <2>2 DEF BeginPending, TypeOK, TypeChain, TypeChips,
       TypePrecommit, TypeCommit, TypeVotes, TypeSync, chainVars,
       loopVars, preVars, comVars, pendVars, voteVars
<1>2. CASE CommitPending
  <2>1. TypeChain'
    BY <1>2 DEF CommitPending, CommitBlock, VerifyExecuteBlock, Links,
       TypeOK, TypeChain, chainVars, Chained
  <2>2. TypePending'
    BY <1>2 DEF CommitPending, TypeOK, TypePending, pendVars
  <2>3. QED
    BY <1>2, <2>1, <2>2 DEF CommitPending, TypeOK, TypeLoop, TypeChips,
       TypePrecommit, TypeCommit, TypeVotes, TypeSync, chainVars,
       loopVars, preVars, comVars, pendVars, voteVars
<1>3. CASE PendingFails
  <2>1. LocalType'
    BY <1>3, NextIterationType DEF PendingFails
  <2>2. QED
    BY <1>3, <2>1 DEF PendingFails, TypeOK, TypeLoop, TypeChain,
       TypeChips, TypePrecommit, TypeCommit, TypePending, TypeVotes,
       TypeSync, chainVars, loopVars, preVars, comVars, pendVars,
       voteVars, LocalType
<1>4. CASE EndPending
  <2>1. TypeLoop'
    BY <1>4 DEF EndPending, TypeOK, TypeLoop, loopVars
  <2>2. TypePending'
    BY <1>4 DEF EndPending, TypeOK, TypePending, pendVars
  <2>3. TypeSync'
    BY <1>4 DEF EndPending, StartTask, Idle, SyncType, TypeOK, TypeSync
  <2>4. QED
    BY <1>4, <2>1, <2>2, <2>3 DEF EndPending, TypeOK, TypeChain,
       TypeChips, TypePrecommit, TypeCommit, TypeVotes, chainVars,
       loopVars, preVars, comVars, pendVars, voteVars
<1>5. CASE MakeBlock
  <2>1. TypePrecommit' /\ TypeCommit' /\ pc' = "Precommit"
    BY <1>5, EnterPrecommitType DEF MakeBlock
  <2>2. TypeLoop'
    BY <1>5, <2>1, BlockAssumption DEF MakeBlock, TypeOK, TypeLoop, loopVars
  <2>3. QED
    BY <1>5, <2>1, <2>2 DEF MakeBlock, TypeOK, TypeChain, TypeChips,
       TypePending, TypeVotes, TypeSync, chainVars, loopVars, preVars,
       comVars, pendVars, voteVars
<1>6. CASE AbandonBlock
  <2>1. TypeLoop'
    BY <1>6 DEF AbandonBlock, TypeOK, TypeLoop, loopVars
  <2>2. TypeSync'
    BY <1>6 DEF AbandonBlock, StartTask, Idle, SyncType, TypeOK, TypeSync
  <2>3. QED
    BY <1>6, <2>1, <2>2 DEF AbandonBlock, TypeOK, TypeChain, TypeChips,
       TypePrecommit, TypeCommit, TypePending, TypeVotes, chainVars,
       loopVars, preVars, comVars, pendVars, voteVars
<1>7. CASE GetBlock
  <2>1. TypePrecommit' /\ TypeCommit' /\ pc' = "Precommit"
    BY <1>7, EnterPrecommitType DEF GetBlock
  <2>2. TypeLoop'
    BY <1>7, <2>1 DEF GetBlock, VerifyExecuteBlock, Links, TypeOK,
       TypeLoop, loopVars
  <2>3. TypeChips'
    BY <1>7, <2>1, BlockAssumption DEF GetBlock, TryGetBlock, Restorable,
       TypeOK, TypeChips
  <2>4. TypeVotes'
    BY <1>7, <2>1, BlockAssumption DEF GetBlock, Precommit, Ballot,
       TypeOK, TypeVotes, voteVars, Chained
  <2>5. QED
    BY <1>7, <2>1, <2>2, <2>3, <2>4 DEF GetBlock, TypeOK, TypeChain,
       TypePending, TypeSync, chainVars, loopVars, preVars, comVars,
       pendVars, voteVars
<1>8. CASE GetCorrupt
  <2>1. LocalType'
    BY <1>8, NextIterationType DEF GetCorrupt
  <2>2. TypeChips'
    BY <1>8, BlockAssumption DEF GetCorrupt, TryGetBlock, Restorable,
       TypeOK, TypeChips
  <2>3. QED
    BY <1>8, <2>1, <2>2 DEF GetCorrupt, TypeOK, TypeLoop, TypeChain,
       TypePrecommit, TypeCommit, TypePending, TypeVotes, TypeSync,
       chainVars, loopVars, preVars, comVars, pendVars, voteVars,
       LocalType
<1>9. CASE KeepBlock
  <2>1. TypePrecommit' /\ TypeCommit' /\ pc' = "Precommit"
    BY <1>9, EnterPrecommitType DEF KeepBlock
  <2>2. TypeLoop'
    BY <1>9, <2>1 DEF KeepBlock, VerifyExecuteBlock, Links, TypeOK,
       TypeLoop, loopVars
  <2>3. TypeVotes'
    BY <1>9, <2>1, BlockAssumption DEF KeepBlock, Precommit, Ballot,
       TypeLoop, TypeOK, TypeVotes, voteVars, Chained
  <2>4. QED
    BY <1>9, <2>1, <2>2, <2>3 DEF KeepBlock, TypeOK, TypeChain, TypeChips,
       TypePending, TypeSync, chainVars, loopVars, preVars, comVars,
       pendVars, voteVars
<1>10. CASE VoteNull
  <2>1. TypePrecommit' /\ TypeCommit' /\ pc' = "Precommit"
    BY <1>10, EnterPrecommitType DEF VoteNull
  <2>2. TypeLoop'
    BY <1>10, <2>1 DEF VoteNull, TypeOK, TypeLoop, loopVars
  <2>3. TypeChips'
    BY <1>10, <2>1, BlockAssumption DEF VoteNull, TryGetBlock, Restorable,
       TypeOK, TypeChips
  <2>4. TypeVotes'
    BY <1>10, <2>1, <2>2, BlockAssumption DEF VoteNull, Precommit, Ballot,
       TypeLoop, TypeOK, TypeVotes, voteVars, Chained
  <2>5. QED
    BY <1>10, <2>1, <2>2, <2>3, <2>4 DEF VoteNull, TypeOK, TypeChain,
       TypePending, TypeSync, chainVars, loopVars, preVars, comVars,
       pendVars, voteVars
<1>11. CASE VoteNullCorrupt
  <2>1. LocalType'
    BY <1>11, NextIterationType DEF VoteNullCorrupt
  <2>2. TypeChips'
    BY <1>11, BlockAssumption DEF VoteNullCorrupt, TryGetBlock,
       Restorable, TypeOK, TypeChips
  <2>3. QED
    BY <1>11, <2>1, <2>2 DEF VoteNullCorrupt, TypeOK, TypeLoop, TypeChain,
       TypePrecommit, TypeCommit, TypePending, TypeVotes, TypeSync,
       chainVars, loopVars, preVars, comVars, pendVars, voteVars,
       LocalType
<1>12. CASE LosePrecommit
  <2>1. TypeLoop'
    BY <1>12 DEF LosePrecommit, TypeOK, TypeLoop, loopVars
  <2>2. TypeChips'
    BY <1>12, BlockAssumption DEF LosePrecommit, TryGetBlock, Restorable,
       TypeOK, TypeChips
  <2>3. QED
    BY <1>12, <2>1, <2>2 DEF LosePrecommit, TypeOK, TypeChain,
       TypePrecommit, TypeCommit, TypePending, TypeVotes, TypeSync,
       chainVars, loopVars, preVars, comVars, pendVars, voteVars
<1>13. CASE TakePrecommitCorrupt
  <2>1. LocalType'
    BY <1>13, NextIterationType DEF TakePrecommitCorrupt
  <2>2. TypeChips'
    BY <1>13, BlockAssumption DEF TakePrecommitCorrupt, TryGetBlock,
       Restorable, TypeOK, TypeChips
  <2>3. QED
    BY <1>13, <2>1, <2>2 DEF TakePrecommitCorrupt, TypeOK, TypeLoop,
       TypeChain, TypePrecommit, TypeCommit, TypePending, TypeVotes,
       TypeSync, chainVars, loopVars, preVars, comVars, pendVars,
       voteVars, LocalType
<1>14. CASE LeavePrecommit
  <2>1. TypeLoop'
    BY <1>14 DEF LeavePrecommit, TypeOK, TypeLoop, loopVars
  <2>2. QED
    BY <1>14, <2>1 DEF LeavePrecommit, TypeOK, TypeChain, TypeChips,
       TypePrecommit, TypeCommit, TypePending, TypeVotes, TypeSync,
       chainVars, loopVars, preVars, comVars, pendVars, voteVars
<1>15. ASSUME NEW p \in Peer, NEW k \in Key, TakePrecommit(p, k) PROVE TypeOK'
  <2>1. k[1] \in Chained /\ k[2] \in Block \cup {Empty}
    BY BlockAssumption DEF Key, Chained
  <2>2. TypeLoop' /\ TypeChips'
    BY <1>15 DEF TakePrecommit, CountPrecommit, TryGetBlock, Restorable,
       TypeOK, TypeLoop, TypeChips
  <2>3. TypePrecommit'
    BY <1>15, <2>1, ThresholdAssumption
    DEF TakePrecommit, CountPrecommit, TypeOK, TypePrecommit, preVars
  <2>4. QED
    BY <1>15, <2>2, <2>3 DEF TakePrecommit, TypeOK, TypeChain, TypeCommit,
       TypePending, TypeVotes, TypeSync, chainVars, comVars, pendVars, voteVars
<1>16. CASE SearchBlock
  <2>1. TypeLoop'
    BY <1>16 DEF SearchBlock, TypeOK, TypeLoop, loopVars
  <2>2. TypeChips'
    BY <1>16, BlockAssumption DEF SearchBlock, TryGetBlock, Restorable,
       TypeOK, TypeChips
  <2>3. QED
    BY <1>16, <2>1, <2>2 DEF SearchBlock, TypeOK, TypeChain,
       TypePrecommit, TypeCommit, TypePending, TypeVotes, TypeSync,
       chainVars, loopVars, preVars, comVars, pendVars, voteVars
<1>17. CASE SearchCorrupt
  <2>1. LocalType'
    BY <1>17, NextIterationType DEF SearchCorrupt
  <2>2. TypeChips'
    BY <1>17, BlockAssumption DEF SearchCorrupt, TryGetBlock, Restorable,
       TypeOK, TypeChips
  <2>3. QED
    BY <1>17, <2>1, <2>2 DEF SearchCorrupt, TypeOK, TypeLoop, TypeChain,
       TypePrecommit, TypeCommit, TypePending, TypeVotes, TypeSync,
       chainVars, loopVars, preVars, comVars, pendVars, voteVars,
       LocalType
<1>18. CASE CastCommit
  <2>1. TypeLoop'
    BY <1>18 DEF CastCommit, TypeOK, TypeLoop, loopVars
  <2>2. TypeVotes'
    BY <1>18, BlockAssumption DEF CastCommit, Ballot, TypeLoop,
       TypePrecommit, TypeOK, TypeVotes, voteVars, Chained
  <2>3. QED
    BY <1>18, <2>1, <2>2 DEF CastCommit, TypeOK, TypeChain, TypeChips,
       TypePrecommit, TypeCommit, TypePending, TypeSync, chainVars,
       loopVars, preVars, comVars, pendVars, voteVars
<1>19. CASE CommitTimeout
  <2>1. LocalType'
    BY <1>19, NextIterationType DEF CommitTimeout
  <2>2. QED
    BY <1>19, <2>1 DEF CommitTimeout, TypeOK, TypeLoop, TypeChain,
       TypeChips, TypePrecommit, TypeCommit, TypePending, TypeVotes,
       TypeSync, chainVars, loopVars, preVars, comVars, pendVars,
       voteVars, LocalType
<1>20. ASSUME NEW p \in Peer, NEW k \in Key, TakeCommit(p, k),
             k[2] \in Certifiable \cup {Empty}
      PROVE  TypeOK'
  <2>1. (heard \subseteq Peer \X Block)' /\ TypeChain' /\ TypeChips' /\ TypePending'
        /\ cooling' \in BOOLEAN
    BY <1>20, BlockAssumption DEF TakeCommit, TypeOK, TypeVotes, TypeChain,
       TypeChips, TypePending, TypeLoop, chainVars, pendVars
  <2>2. CASE NextIteration
    BY <2>1, <2>2, NextIterationType DEF TypeOK, TypeLoop, TypeVotes, LocalType
  <2>3. CASE ~NextIteration
    <3>1. /\ pc' \in {pc, "CommitBlock"}
          /\ commitNull' \in Nat /\ commitHash' \in Nat
          /\ commitRecord' = commitRecord \cup {p}
          /\ UNCHANGED <<loopVars, preVars, sync, voteVars>>
      BY <1>20, <2>3 DEF TakeCommit, TypeOK, TypeCommit
    <3>2. QED
      BY <2>1, <3>1 DEF TypeOK, TypeSync, TypeLoop, TypePrecommit,
         TypeCommit, TypeVotes,
         loopVars, preVars, voteVars
  <2>4. QED
    BY <2>2, <2>3
<1>21. CASE FetchMissing
  <2>1. TypeLoop'
    BY <1>21 DEF FetchMissing, TypeOK, TypeLoop, loopVars
  <2>2. TypeSync'
    BY <1>21 DEF FetchMissing, StartTask, Idle, SyncType, TypeOK, TypeSync
  <2>3. QED
    BY <1>21, <2>1, <2>2 DEF FetchMissing, TypeOK, TypeChain, TypeChips,
       TypePrecommit, TypeCommit, TypePending, TypeVotes, chainVars,
       loopVars, preVars, comVars, pendVars, voteVars
<1>22. CASE CommitVerified
  <2>1. LocalType'
    BY <1>22, NextIterationType DEF CommitVerified
  <2>2. TypeChain'
    BY <1>22, RefuseType DEF CommitVerified, CommitBlock, TypeLoop, TooFar,
       TypeOK, TypeChain, Chained
  <2>3. QED
    BY <1>22, <2>1, <2>2 DEF CommitVerified, TypeOK, TypeLoop, TypeChips,
       TypePrecommit, TypeCommit, TypePending, TypeVotes, TypeSync,
       chainVars, loopVars, preVars, comVars, pendVars, voteVars,
       LocalType
<1>23. CASE CachePending
  <2>1. LocalType'
    BY <1>23, NextIterationType DEF CachePending
  <2>2. TypePending'
    BY <1>23 DEF CachePending, TypeLoop, TooFar, TypeOK, TypePending, pendVars
  <2>3. QED
    BY <1>23, <2>1, <2>2 DEF CachePending, TypeOK, TypeLoop, TypeChain,
       TypeChips, TypePrecommit, TypeCommit, TypeVotes, TypeSync,
       chainVars, loopVars, preVars, comVars, pendVars, voteVars,
       LocalType
<1>24. CASE TaskVerify
  <2>1. TypeSync'
    BY <1>24 DEF TaskVerify, SyncType, VerifyExecuteBlock, Links, TypeOK,
       TypeSync, taskFrame
  <2>2. QED
    BY <1>24, <2>1 DEF TaskVerify, TypeOK, TypeLoop, TypeChain, TypeChips,
       TypePrecommit, TypeCommit, TypePending, TypeVotes, chainVars,
       loopVars, preVars, comVars, pendVars, voteVars, taskFrame
<1>25. CASE TaskCommit
  <2>1. TypeChain'
    <3>1. sync.blk \in Block
      BY <1>25 DEF TaskCommit, TypeOK, TypeSync
    <3>2. CASE UNCHANGED chainVars
      BY <3>2 DEF TypeOK, TypeChain, chainVars
    <3>3. CASE CommitBlock(sync.blk, TRUE)
      BY <3>1, <3>3, AppendType DEF TypeOK
    <3>4. QED
      BY <1>25, <3>2, <3>3 DEF TaskCommit
  <2>2. TypeSync'
    BY <1>25 DEF TaskCommit, SyncType, TypeOK, TypeSync, taskFrame
  <2>3. QED
    BY <1>25, <2>1, <2>2 DEF TaskCommit, TypeOK, TypeLoop, TypeChips,
       TypePrecommit, TypeCommit, TypePending, TypeVotes, chainVars,
       loopVars, preVars, comVars, pendVars, voteVars, taskFrame
<1>26. CASE FetchVerifyOwn
  <2>1. TypeLoop'
    BY <1>26 DEF FetchVerifyOwn, TypeOK, TypeLoop, loopVars, taskFrame
  <2>2. TypeSync'
    BY <1>26, ZenonT(60) DEF FetchVerifyOwn, SyncType, Captured, TypeLoop,
       VerifyExecuteBlock, Links, TypeOK, TypeSync, taskFrame
  <2>3. QED
    BY <1>26, <2>1, <2>2 DEF FetchVerifyOwn, TypeOK, TypeChain, TypeChips,
       TypePrecommit, TypeCommit, TypePending, TypeVotes, chainVars,
       loopVars, preVars, comVars, pendVars, voteVars, taskFrame
<1>27. CASE FetchCommitOwn
  <2>1. TypeChain'
    <3>1. CASE RefuseBlock(Captured, FALSE)
      BY <3>1, RefuseType DEF TypeOK
    <3>2. CASE Captured # NoBlock /\ CommitBlock(Captured, Captured = sync.blk)
      <4>1. Captured \in Block
        BY <3>2 DEF Captured, TypeOK, TypeLoop, TypeSync, SyncType
      <4>2. QED
        BY <3>2, <4>1, AppendType DEF TypeOK
    <3>3. QED
      BY <1>27, <3>1, <3>2 DEF FetchCommitOwn
  <2>2. TypeLoop'
    BY <1>27 DEF FetchCommitOwn, TypeOK, TypeLoop, loopVars, taskFrame
  <2>3. TypeSync'
    <3>1. sync' \in {Idle, [sync EXCEPT !.stage = "get", !.blk = NoBlock]}
      BY <1>27 DEF FetchCommitOwn
    <3>2. CASE sync' = Idle
      BY <3>2 DEF TypeSync, SyncType, Idle
    <3>3. CASE sync' = [sync EXCEPT !.stage = "get", !.blk = NoBlock]
      <4>1. sync' \in SyncType
        BY <3>3 DEF TypeOK, TypeSync, SyncType
      <4>2. sync'.stage = "get"
        BY <3>3 DEF TypeOK, TypeSync, SyncType
      <4>3. QED
        BY <4>1, <4>2 DEF TypeSync
    <3>4. QED
      BY <3>1, <3>2, <3>3
  <2>4. QED
    BY <1>27, <2>1, <2>2, <2>3 DEF FetchCommitOwn, TypeOK, TypeChips,
       TypePrecommit, TypeCommit, TypePending, TypeVotes, chainVars,
       loopVars, preVars, comVars, pendVars, voteVars, taskFrame
<1>28. CASE FetchFails
  <2>1. TypeSync'
    BY <1>28 DEF FetchFails, SyncType, StartTask, Idle, TypeOK, TypeSync,
       taskFrame
  <2>2. QED
    BY <1>28, <2>1 DEF FetchFails, TypeOK, TypeLoop, TypeChain, TypeChips,
       TypePrecommit, TypeCommit, TypePending, TypeVotes, chainVars,
       loopVars, preVars, comVars, pendVars, voteVars, taskFrame
<1>29. CASE TaskEnd
  <2>1. TypeSync'
    BY <1>29 DEF TaskEnd, SyncType, Idle, TypeOK, TypeSync, taskFrame
  <2>2. QED
    BY <1>29, <2>1 DEF TaskEnd, TypeOK, TypeLoop, TypeChain, TypeChips,
       TypePrecommit, TypeCommit, TypePending, TypeVotes, chainVars,
       loopVars, preVars, comVars, pendVars, voteVars, taskFrame
<1>30. ASSUME NEW b \in Proposed, ChipsArrive(b) PROVE TypeOK'
  BY <1>30, BlockAssumption DEF ChipsArrive, TypeSync, TypeOK, TypeLoop,
     TypeChain, TypeChips,
     TypePrecommit, TypeCommit, TypePending, TypeVotes, chainVars, loopVars, preVars, comVars, pendVars, voteVars
<1>31. CASE CoolDown
  <2>1. TypeLoop'
    BY <1>31 DEF CoolDown, TypeOK, TypeLoop, loopVars
  <2>2. QED
    BY <1>31, <2>1 DEF CoolDown, TypeOK, TypeChain, TypeChips,
       TypePrecommit, TypeCommit, TypePending, TypeVotes, TypeSync,
       chainVars, loopVars, preVars, comVars, pendVars, voteVars
<1>32. QED
  BY <1>0, <1>1, <1>2, <1>3, <1>4, <1>5, <1>6, <1>7, <1>8, <1>9, <1>10,
     <1>11, <1>12, <1>13, <1>14, <1>15, <1>16, <1>17, <1>18, <1>19, <1>20,
     <1>21, <1>22, <1>23, <1>24, <1>25, <1>26, <1>27, <1>28, <1>29, <1>30,
     <1>31 DEF Next, Loop, Task

\* Every reachable state is typed: the loop, the task and the environment never
\* leave the types of Init.
THEOREM TypeCorrect == Spec => []TypeOK
<1>1. Init => TypeOK
  <2> SUFFICES ASSUME Init PROVE TypeOK
    OBVIOUS
  <2>1. TypePrecommit /\ TypeCommit
    BY ThresholdAssumption DEF Init, TypePrecommit, TypeCommit, Chained
  <2>2. TypeLoop /\ TypeChips
    BY DEF Init, TypeLoop, TypeChips
  <2>3. TypeChain
    BY DEF Init, TypeChain, Chained
  <2>4. TypePending
    BY DEF Init, TypePending
  <2>5. TypeVotes /\ TypeSync
    BY DEF Init, TypeVotes, TypeSync, SyncType, Idle, NoVote, Ballot
  <2>6. QED
    BY <2>1, <2>2, <2>3, <2>4, <2>5 DEF TypeOK
<1>2. QED
  BY <1>1, TypeStep, PTL DEF Spec

-----------------------------------------------------------------------------
\* Only the steps named here touch the votes heard, the cached blocks or what
\* is counted; every other step leaves all three alone.
Quiet == UNCHANGED <<heard, otherCommit>>

LEMMA FrameStep ==
  [Next]_vars =>
    \/ Quiet
    \/ EndPending
    \/ CachePending
    \/ \E p \in Peer, k \in Key :
         k[2] \in Certifiable \cup {Empty} /\ TakeCommit(p, k)
<1> SUFFICES ASSUME [Next]_vars
             PROVE  \/ Quiet \/ EndPending \/ CachePending
                    \/ \E p \in Peer, k \in Key :
                         k[2] \in Certifiable \cup {Empty} /\ TakeCommit(p, k)
  OBVIOUS
<1> USE DEF Quiet, pendVars
<1>1. CASE UNCHANGED vars
  BY <1>1 DEF vars
<1>2. CASE \/ BeginPending \/ CommitPending \/ PendingFails
           \/ MakeBlock \/ AbandonBlock \/ GetBlock \/ GetCorrupt \/ KeepBlock
           \/ VoteNull \/ VoteNullCorrupt
  BY <1>2 DEF BeginPending, CommitPending, PendingFails, MakeBlock, AbandonBlock,
     GetBlock, GetCorrupt, KeepBlock, VoteNull, VoteNullCorrupt
<1>3. CASE \/ LosePrecommit \/ TakePrecommitCorrupt \/ LeavePrecommit
           \/ \E p \in Peer, k \in Key : TakePrecommit(p, k)
  BY <1>3 DEF LosePrecommit, TakePrecommitCorrupt, LeavePrecommit, TakePrecommit
<1>4. CASE \/ SearchBlock \/ SearchCorrupt \/ CastCommit \/ CommitTimeout
           \/ FetchMissing \/ CommitVerified
  BY <1>4 DEF SearchBlock, SearchCorrupt, CastCommit, CommitTimeout,
     FetchMissing, CommitVerified
<1>5. CASE Task
  BY <1>5 DEF Task, TaskVerify, TaskCommit, FetchVerifyOwn, FetchCommitOwn,
     FetchFails, TaskEnd, taskFrame
<1>6. CASE CoolDown \/ \E b \in Proposed : ChipsArrive(b)
  BY <1>6 DEF CoolDown, ChipsArrive
<1>7. QED
  BY <1>1, <1>2, <1>3, <1>4, <1>5, <1>6 DEF Next, Loop

\* The voters heard only grow, so a certified block stays certified.
LEMMA CertifiedStable ==
  ASSUME TypeOK', heard \subseteq heard', NEW b, Certified(b)
  PROVE  Certified(b)'
<1>1. Voters(b) \subseteq Voters(b)'
  BY DEF Voters
<1>2. IsFiniteSet(Voters(b)') /\ Voters(b)' \subseteq Peer
  BY ThresholdAssumption, FS_Subset DEF Voters
<1>3. Cardinality(Voters(b)) <= Cardinality(Voters(b)')
  BY <1>1, <1>2, FS_Subset
<1>4. /\ Cardinality(Voters(b)) \in Nat
      /\ Cardinality(Voters(b)') \in Nat
  BY <1>1, <1>2, FS_Subset, FS_CardinalityType
<1>5. QED
  BY <1>3, <1>4, ThresholdAssumption DEF Certified

Cached == \A i \in 1 .. Len(otherCommit) : Certified(otherCommit[i])

\* A full count of different voters, all of whom voted for the block.
LEMMA FullCount ==
  ASSUME TypeOK, CertificateInv, pc = "CommitBlock", block # NoBlock
  PROVE  Certified(block)
<1>1. precommitHash # Empty
  <2> SUFFICES ASSUME precommitHash = Empty PROVE FALSE
    OBVIOUS
  <2>1. Voters(precommitHash) = {}
    BY BlockAssumption DEF TypeOK, TypeVotes, Voters, Chained
  <2>2. Cardinality(commitRecord \cap Voters(precommitHash)) = 0
    BY <2>1, FS_EmptySet
  <2>3. QED
    BY <2>2, ThresholdAssumption DEF CertificateInv, TypeOK, TypeCommit
<1>2. block = precommitHash
  BY <1>1 DEF CertificateInv
<1>3. IsFiniteSet(Voters(block))
  BY ThresholdAssumption, FS_Subset DEF Voters
<1>4. /\ Cardinality(commitRecord \cap Voters(block)) <= Cardinality(Voters(block))
      /\ Cardinality(commitRecord \cap Voters(block)) \in Nat
      /\ Cardinality(Voters(block)) \in Nat
  BY <1>3, FS_Subset, FS_CardinalityType
<1>5. QED
  BY <1>2, <1>4, ThresholdAssumption DEF CertificateInv, TypeOK, TypeCommit, Certified

\* Blocks wait in otherCommitBlocks only with a certificate.
LEMMA CachedStep == TypeOK /\ TypeOK' /\ CertificateInv /\ [Next]_vars => Cached'
<1> SUFFICES ASSUME TypeOK, TypeOK', CertificateInv, [Next]_vars PROVE Cached'
  OBVIOUS
<1>0. Cached
  BY DEF CertificateInv, Cached
<1>1. CASE Quiet
  BY <1>0, <1>1 DEF Quiet, Cached, Certified, Voters
<1>2. CASE EndPending
  <2>1. /\ otherCommit' = SubSeq(otherCommit, commitCount + 1, Len(otherCommit))
        /\ heard' = heard
    BY <1>2 DEF EndPending
  <2>2. \A i \in 1 .. Len(otherCommit') :
          \E j \in 1 .. Len(otherCommit) : otherCommit'[i] = otherCommit[j]
    BY <2>1 DEF TypeOK, TypePending
  <2>3. QED
    BY <1>0, <2>1, <2>2 DEF Cached, Certified, Voters
<1>3. CASE CachePending
  <2>1. /\ otherCommit' = Append(otherCommit, block) /\ heard' = heard
        /\ pc = "CommitBlock" /\ block # NoBlock
    BY <1>3 DEF CachePending, TooFar
  <2>2. Certified(block)
    BY <2>1, FullCount
  <2>3. \A i \in 1 .. Len(otherCommit') :
          \/ otherCommit'[i] = block
          \/ i \in 1 .. Len(otherCommit) /\ otherCommit'[i] = otherCommit[i]
    BY <2>1 DEF TypeOK, TypePending
  <2>4. QED
    BY <1>0, <2>1, <2>2, <2>3 DEF Cached, Certified, Voters
<1>4. CASE \E p \in Peer, k \in Key :
             k[2] \in Certifiable \cup {Empty} /\ TakeCommit(p, k)
  <2>1. heard \subseteq heard' /\ otherCommit' = otherCommit
    BY <1>4 DEF TakeCommit, pendVars
  <2>2. QED
    BY <1>0, <2>1, CertifiedStable DEF Cached
<1>5. QED
  BY <1>1, <1>2, <1>3, <1>4, FrameStep

Counting ==
  /\ pc \in {"Precommit", "Commit"} => commitHash = 0
  /\ pc \in {"Collect", "CommitBlock"} =>
       /\ commitHash <= Cardinality(commitRecord \cap Voters(precommitHash))
       /\ block # NoBlock /\ precommitHash # Empty => block = precommitHash
  /\ pc = "CommitBlock" => commitHash >= Accept

\* Taking one commit vote adds at most one to the count, and then a new voter
\* to the set of those counted.
LEMMA CountOne ==
  ASSUME TypeOK, TypeOK', Counting, NEW p \in Peer, NEW k \in Key,
         TakeCommit(p, k)
  PROVE  Counting'
<1>1. CASE NextIteration
  BY <1>1 DEF NextIteration, Counting
<1>2. CASE ~NextIteration
  <2> DEFINE hit == k[2] # Empty /\ k[2] = precommitHash
             old == commitRecord \cap Voters(precommitHash)
             new == commitRecord' \cap Voters(precommitHash)'
  <2>1. /\ pc = "Collect" /\ p \notin commitRecord
        /\ commitRecord' = commitRecord \cup {p}
        /\ commitHash' = commitHash + (IF hit THEN 1 ELSE 0)
        /\ pc' = IF commitHash' >= Accept THEN "CommitBlock" ELSE pc
        /\ heard' = IF k[2] = Empty THEN heard ELSE heard \cup {<<p, k[2]>>}
        /\ UNCHANGED <<block, precommitHash>>
    BY <1>2 DEF TakeCommit, loopVars, preVars
  <2>2. IsFiniteSet(old) /\ IsFiniteSet(new)
        /\ Cardinality(old) \in Nat /\ Cardinality(new) \in Nat
    <3>1. old \subseteq Peer /\ new \subseteq Peer
      BY DEF Voters
    <3>2. QED
      BY <3>1, ThresholdAssumption, FS_Subset, FS_CardinalityType
  <2>3. commitHash <= Cardinality(old)
    BY <2>1 DEF Counting
  <2>4. CASE hit
    <3>1. old \cup {p} \subseteq new /\ p \notin old
      BY <2>1, <2>4 DEF Voters
    <3>2. Cardinality(old \cup {p}) = Cardinality(old) + 1
      BY <2>2, <3>1, FS_AddElement
    <3>3. Cardinality(old \cup {p}) <= Cardinality(new)
      BY <2>2, <3>1, FS_Subset
    <3>4. commitHash' <= Cardinality(new)
      BY <2>1, <2>2, <2>3, <2>4, <3>2, <3>3 DEF TypeOK, TypeCommit
    <3>5. QED
      BY <2>1, <3>4 DEF Counting
  <2>5. CASE ~hit
    <3>1. old \subseteq new
      BY <2>1 DEF Voters
    <3>2. Cardinality(old) <= Cardinality(new)
      BY <2>2, <3>1, FS_Subset
    <3>3. commitHash' <= Cardinality(new)
      BY <2>1, <2>2, <2>3, <2>5, <3>2 DEF TypeOK, TypeCommit
    <3>4. QED
      BY <2>1, <3>3 DEF Counting
  <2>6. QED
    BY <2>4, <2>5
<1>3. QED
  BY <1>1, <1>2

\* The counting invariant is preserved by every step.
LEMMA CountingStep == TypeOK /\ TypeOK' /\ Counting /\ [Next]_vars => Counting'
<1> SUFFICES ASSUME TypeOK, TypeOK', Counting, [Next]_vars PROVE Counting'
  OBVIOUS
<1>1. CASE UNCHANGED <<pc, commitHash, commitRecord, precommitHash, block, heard>>
  BY <1>1 DEF Counting, Voters
<1>2. CASE pc' \in {"Synchronize", "Pending", "Obtain"}
  BY <1>2 DEF Counting
<1>3. CASE EnterPrecommit
  BY <1>3 DEF EnterPrecommit, Counting
<1>4. CASE pc' \in {"Precommit", "Commit"} /\ commitHash' = 0
  BY <1>4 DEF Counting
<1>5. CASE CastCommit
  <2>1. /\ pc' = "Collect" /\ commitHash' = 0
        /\ UNCHANGED <<commitRecord, precommitHash, block, heard>>
        /\ block # NoBlock /\ precommitHash # Empty => block = precommitHash
    BY <1>5 DEF CastCommit, Searching, comVars, preVars, loopVars, Counting
  <2>2. Cardinality(commitRecord \cap Voters(precommitHash)) \in Nat
    <3>1. commitRecord \cap Voters(precommitHash) \subseteq Peer
      BY DEF Voters
    <3>2. QED
      BY <3>1, ThresholdAssumption, FS_Subset, FS_CardinalityType
  <2>3. QED
    BY <2>1, <2>2 DEF Counting, Voters
<1>6. CASE \E p \in Peer, k \in Key :
             k[2] \in Certifiable \cup {Empty} /\ TakeCommit(p, k)
  BY <1>6, CountOne
<1>7. CASE UNCHANGED vars \/ Task \/ CoolDown \/ \E b \in Proposed : ChipsArrive(b)
  <2>1. UNCHANGED <<pc, commitHash, commitRecord, precommitHash, block, heard>>
    BY <1>7 DEF vars, Task, TaskVerify, TaskCommit, FetchVerifyOwn,
       FetchCommitOwn, FetchFails, TaskEnd, CoolDown, ChipsArrive, taskFrame,
       loopVars, preVars, comVars
  <2>2. QED
    BY <1>1, <2>1
<1>8. CASE \/ BeginPending \/ PendingFails \/ EndPending \/ AbandonBlock
           \/ GetCorrupt \/ VoteNullCorrupt \/ LosePrecommit
           \/ TakePrecommitCorrupt \/ LeavePrecommit \/ SearchCorrupt
           \/ CommitTimeout \/ FetchMissing \/ CommitVerified \/ CachePending
  BY <1>2, <1>8 DEF BeginPending, PendingFails, EndPending, AbandonBlock,
     GetCorrupt, VoteNullCorrupt, LosePrecommit, TakePrecommitCorrupt,
     LeavePrecommit, SearchCorrupt, CommitTimeout, FetchMissing,
     CommitVerified, CachePending, NextIteration
<1>9. CASE MakeBlock \/ GetBlock \/ KeepBlock \/ VoteNull
  BY <1>3, <1>9 DEF MakeBlock, GetBlock, KeepBlock, VoteNull
<1>10. CASE SearchBlock \/ CommitPending
           \/ \E p \in Peer, k \in Key : TakePrecommit(p, k)
  <2>1. CASE CommitPending
    BY <1>1, <2>1 DEF CommitPending, comVars, preVars, loopVars
  <2>2. CASE SearchBlock
    BY <1>4, <2>2 DEF SearchBlock, comVars, Counting
  <2>3. CASE \E p \in Peer, k \in Key : TakePrecommit(p, k)
    BY <1>4, <2>3 DEF TakePrecommit, CountPrecommit, comVars, Counting
  <2>4. QED
    BY <1>10, <2>1, <2>2, <2>3
<1>11. QED
  BY <1>5, <1>6, <1>7, <1>8, <1>9, <1>10 DEF Next, Loop

\* The inductive strengthening holds in every reachable state.
THEOREM CertificateCorrect == Spec => []CertificateInv
<1>1. Init => CertificateInv
  BY DEF Init, CertificateInv
<1>2. TypeOK /\ TypeOK' /\ CertificateInv /\ [Next]_vars => CertificateInv'
  BY CachedStep, CountingStep DEF CertificateInv, Cached, Counting
<1>3. QED
  BY <1>1, <1>2, TypeCorrect, PTL DEF Spec

\* The loop commits no block without Accept different commit voters, whatever
\* the peers, the task and the timers do.
THEOREM CommitCertifiedCorrect == Spec => CommitCertified
<1>1. ASSUME TypeOK, TypeOK', CertificateInv, [Next]_vars, LoopCommits
      PROVE  Certified(LastBlock')
  <2>1. CommitPending \/ CommitVerified
    <3>1. ~(UNCHANGED chain \/ UNCHANGED <<pc, commitCount>>)
      BY <1>1 DEF LoopCommits
    <3> USE DEF chainVars, pendVars
    <3>2. ~UNCHANGED vars
      BY <3>1 DEF vars
    <3>3. ~(\/ BeginPending \/ PendingFails \/ EndPending \/ MakeBlock
            \/ AbandonBlock \/ GetBlock \/ GetCorrupt \/ KeepBlock
            \/ VoteNull \/ VoteNullCorrupt)
      BY <3>1 DEF BeginPending, PendingFails, EndPending, MakeBlock, AbandonBlock,
         GetBlock, GetCorrupt, KeepBlock, VoteNull, VoteNullCorrupt
    <3>4. ~(\/ LosePrecommit \/ TakePrecommitCorrupt \/ LeavePrecommit
            \/ \E p \in Peer, k \in Key : TakePrecommit(p, k))
      BY <3>1 DEF LosePrecommit, TakePrecommitCorrupt, LeavePrecommit, TakePrecommit
    <3>5. ~(\/ SearchBlock \/ SearchCorrupt \/ CastCommit \/ CommitTimeout
            \/ FetchMissing \/ CachePending
            \/ \E p \in Peer, k \in Key :
                 k[2] \in Certifiable \cup {Empty} /\ TakeCommit(p, k))
      BY <3>1 DEF SearchBlock, SearchCorrupt, CastCommit, CommitTimeout,
         FetchMissing, CachePending, TakeCommit
    <3>6. ~(Task \/ CoolDown \/ \E b \in Proposed : ChipsArrive(b))
      BY <3>1 DEF Task, TaskVerify, TaskCommit, FetchVerifyOwn, FetchCommitOwn,
         FetchFails, TaskEnd, taskFrame, CoolDown, ChipsArrive
    <3>7. QED
      BY <1>1, <3>2, <3>3, <3>4, <3>5, <3>6 DEF Next, Loop
  <2>2. CASE CommitPending
    <3> DEFINE b == otherCommit[commitCount + 1]
    <3>1. chain' = Append(chain, b) /\ heard' = heard /\ commitCount < Len(otherCommit)
      BY <2>2 DEF CommitPending, CommitBlock
    <3>2. LastBlock' = b
      BY <1>1, <3>1 DEF LastBlock, TypeOK, TypeChain
    <3>3. Certified(b)
      BY <1>1, <3>1 DEF CertificateInv, TypeOK, TypePending
    <3>4. QED
      BY <3>1, <3>2, <3>3 DEF Certified, Voters
  <2>3. CASE CommitVerified
    <3>1. /\ chain' = Append(chain, block) /\ heard' = heard
          /\ pc = "CommitBlock" /\ block # NoBlock
      BY <1>1, <2>3 DEF CommitVerified, CommitBlock, RefuseBlock, LoopCommits, TooFar
    <3>2. LastBlock' = block
      BY <1>1, <3>1 DEF LastBlock, TypeOK, TypeChain
    <3>3. Certified(block)
      BY <1>1, <3>1, FullCount
    <3>4. QED
      BY <3>1, <3>2, <3>3 DEF Certified, Voters
  <2>4. QED
    BY <2>1, <2>2, <2>3
<1>2. TypeOK /\ TypeOK' /\ CertificateInv /\ [Next]_vars
        => [LoopCommits => Certified(LastBlock')]_vars
  BY <1>1
<1>3. QED
  BY <1>2, TypeCorrect, CertificateCorrect, PTL DEF Spec, CommitCertified

(***************************************************************************)
(* ProducerLoop implements Chain                                           *)
(***************************************************************************)
\* Heights count the blocks.
Heights ==
  \A i \in 1 .. Len(chain) : HeightOf[chain[i]] = HeightOf[Genesis] + i - 1

\* b follows a block of the chain, perhaps not the last one any more.
OnChain(b) ==
  \E i \in 1 .. Len(chain) :
    PrevOf[b] = chain[i] /\ HeightOf[b] = HeightOf[chain[i]] + 1

\* A block with a state was verified against what was LastBlock then.
VerifiedOnChain ==
  /\ executed => block \in Block /\ OnChain(block)
  /\ sync.stage \in {"got", "ownVerified"} => OnChain(sync.blk)

\* Which task can run beside which part of the loop.
TaskBeside ==
  /\ pc = "Pending" => sync.kind = "idle"
  /\ pc = "Obtain" => sync.kind \in {"idle", "download"}
  /\ sync.stage \in {"own", "ownVerified"} => sync.kind = "fetch"
  /\ sync.kind = "idle" => sync.stage = "get"

\* Once a block of the chain does not follow the one before it, the node has no
\* state, and nothing verified can be committed any more.
StuckWithoutState ==
  ~Linked =>
    /\ ~lastReady
    /\ pc \notin {"Pending", "Obtain"}
    /\ sync.stage \in {"got", "ownVerified"} =>
         HeightOf[sync.blk] <= HeightOf[LastBlock]
    /\ pc \in {"Collect", "CommitBlock"} /\ executed =>
         HeightOf[block] <= HeightOf[LastBlock]

ChainInv ==
  /\ Heights /\ VerifiedOnChain /\ TaskBeside /\ StuckWithoutState

-----------------------------------------------------------------------------
\* LastBlock is a block, and its height is that of the chain.
LEMMA LastHeight ==
  ASSUME TypeOK, Heights
  PROVE  /\ LastBlock \in Chained
         /\ Len(chain) \in Nat \ {0}
         /\ HeightOf[Genesis] \in Nat
         /\ HeightOf[LastBlock] = HeightOf[Genesis] + Len(chain) - 1
BY BlockAssumption DEF LastBlock, Heights, TypeOK, TypeChain, Chained

\* Whatever follows a block of the chain is at most one above LastBlock, and
\* if CommitBlock takes it, it follows LastBlock itself.
LEMMA OnChainHeight ==
  ASSUME TypeOK, Heights, NEW b \in Block, OnChain(b)
  PROVE  /\ HeightOf[b] \in Nat
         /\ HeightOf[b] <= HeightOf[LastBlock] + 1
         /\ CommitAllowed(b) => PrevOf[b] = LastBlock
<1>1. PICK i \in 1 .. Len(chain) :
        PrevOf[b] = chain[i] /\ HeightOf[b] = HeightOf[chain[i]] + 1
  BY DEF OnChain
<1>2. HeightOf[b] = HeightOf[Genesis] + i
  BY <1>1, LastHeight DEF Heights
<1>3. CommitAllowed(b) => i = Len(chain)
  BY <1>2, LastHeight DEF CommitAllowed
<1>4. QED
  BY <1>1, <1>2, <1>3, LastHeight, BlockAssumption DEF LastBlock, Chained

\* A block that verifies follows LastBlock.
LEMMA LinksOnChain ==
  ASSUME TypeOK, NEW b, Links(b)
  PROVE  b \in Block /\ OnChain(b) /\ CommitAllowed(b) /\ PrevOf[b] = LastBlock
BY DEF Links, OnChain, LastBlock, TypeOK, TypeChain, CommitAllowed

\* CommitBlock(b): the only way the chain changes.
Extends(b) ==
  /\ CommitAllowed(b) /\ chain' = Append(chain, b)
  /\ lastReady' => Linked /\ PrevOf[b] = LastBlock

\* LastBlock is committed again, or nothing happens to the chain.
Refuses == UNCHANGED chain /\ lastReady' \in {lastReady, FALSE}

LEMMA CommitPendingExtends ==
  ASSUME TypeOK, ChainInv, CommitPending
  PROVE  (\E b \in Block : Extends(b)) /\ Linked /\ lastReady'
<1> DEFINE b == otherCommit[commitCount + 1]
<1>1. /\ VerifyExecuteBlock(b) /\ chain' = Append(chain, b)
      /\ lastReady' /\ pc = "Pending"
  BY DEF CommitPending, CommitBlock
<1>2. Linked
  BY <1>1 DEF ChainInv, StuckWithoutState
<1>3. b \in Block /\ CommitAllowed(b) /\ PrevOf[b] = LastBlock
  BY <1>1, LinksOnChain DEF VerifyExecuteBlock
<1>4. QED
  BY <1>1, <1>2, <1>3 DEF Extends

LEMMA CommitVerifiedExtends ==
  ASSUME TypeOK, ChainInv, CommitVerified
  PROVE  \/ Refuses
         \/ block \in Block /\ Extends(block) /\ lastReady' = executed
<1>1. block \in Block /\ pc = "CommitBlock" /\ executed \in BOOLEAN
  BY DEF CommitVerified, TooFar, TypeOK, TypeLoop
<1>2. CASE ~CommitAllowed(block)
  BY <1>2 DEF CommitVerified, RefuseBlock, Refuses
<1>3. CASE CommitAllowed(block)
  <2>1. chain' = Append(chain, block) /\ lastReady' = executed
    BY <1>3 DEF CommitVerified, CommitBlock
  <2>2. executed => Linked
    <3>1. HeightOf[LastBlock] \in Nat
      BY LastHeight, BlockAssumption DEF ChainInv
    <3>2. QED
      BY <1>1, <1>3, <3>1 DEF ChainInv, StuckWithoutState, CommitAllowed
  <2>3. executed => PrevOf[block] = LastBlock
    BY <1>1, <1>3, OnChainHeight DEF ChainInv, VerifiedOnChain
  <2>4. QED
    BY <1>1, <1>3, <2>1, <2>2, <2>3 DEF Extends
<1>4. QED
  BY <1>2, <1>3

LEMMA TaskCommitExtends ==
  ASSUME TypeOK, ChainInv, TaskCommit
  PROVE  \/ UNCHANGED chainVars
         \/ sync.blk \in Block /\ Extends(sync.blk) /\ Linked /\ lastReady'
<1>1. sync.blk \in Block /\ OnChain(sync.blk) /\ sync.stage = "got"
  BY DEF TaskCommit, TypeOK, TypeSync, ChainInv, VerifiedOnChain
<1>2. CASE ~CommitAllowed(sync.blk)
  BY <1>2 DEF TaskCommit
<1>3. CASE CommitAllowed(sync.blk)
  <2>1. chain' = Append(chain, sync.blk) /\ lastReady'
    BY <1>3 DEF TaskCommit, CommitBlock
  <2>2. HeightOf[LastBlock] \in Nat
    BY LastHeight, BlockAssumption DEF ChainInv
  <2>3. Linked
    BY <1>1, <1>3, <2>2 DEF ChainInv, StuckWithoutState, CommitAllowed
  <2>4. PrevOf[sync.blk] = LastBlock
    BY <1>1, <1>3, OnChainHeight DEF ChainInv
  <2>5. QED
    BY <1>1, <1>3, <2>1, <2>3, <2>4 DEF Extends
<1>4. QED
  BY <1>2, <1>3

\* The fetch task commits what the captured variable holds by then: it is the
\* block it verified, or its state is not there.
LEMMA FetchCommitOwnExtends ==
  ASSUME TypeOK, ChainInv, FetchCommitOwn
  PROVE  \/ Refuses
         \/ Captured \in Block /\ Extends(Captured) /\ sync' = Idle
<1>1. sync.blk \in Block /\ OnChain(sync.blk) /\ sync.stage = "ownVerified"
  BY DEF FetchCommitOwn, TypeOK, TypeSync, ChainInv, VerifiedOnChain
<1>2. CASE ~(Captured # NoBlock /\ CommitAllowed(Captured))
  BY <1>2 DEF FetchCommitOwn, RefuseBlock, Refuses
<1>3. CASE Captured # NoBlock /\ CommitAllowed(Captured)
  <2>1. Captured \in Block
    BY <1>3 DEF Captured, TypeOK, TypeLoop, TypeSync, SyncType
  <2>2. chain' = Append(chain, Captured) /\ lastReady' = (Captured = sync.blk)
        /\ sync' = Idle
    BY <1>3 DEF FetchCommitOwn, CommitBlock
  <2>3. HeightOf[LastBlock] \in Nat
    BY LastHeight, BlockAssumption DEF ChainInv
  <2>4. Captured = sync.blk => Linked
    BY <1>1, <1>3, <2>3 DEF ChainInv, StuckWithoutState, CommitAllowed
  <2>5. Captured = sync.blk => PrevOf[sync.blk] = LastBlock
    BY <1>1, <1>3, OnChainHeight DEF ChainInv
  <2>6. QED
    BY <1>3, <2>1, <2>2, <2>4, <2>5 DEF Extends
<1>4. QED
  BY <1>2, <1>3

-----------------------------------------------------------------------------
\* No other step touches the chain.
LEMMA ChainFrame ==
  [Next]_vars =>
    \/ UNCHANGED chainVars
    \/ CommitPending \/ CommitVerified \/ TaskCommit \/ FetchCommitOwn
<1> SUFFICES ASSUME [Next]_vars, ~UNCHANGED chainVars
             PROVE  CommitPending \/ CommitVerified \/ TaskCommit \/ FetchCommitOwn
  OBVIOUS
<1>1. ~UNCHANGED vars
  BY DEF vars
<1>2. ~(\/ BeginPending \/ PendingFails \/ EndPending \/ MakeBlock
        \/ AbandonBlock \/ GetBlock \/ GetCorrupt \/ KeepBlock
        \/ VoteNull \/ VoteNullCorrupt)
  BY DEF BeginPending, PendingFails, EndPending, MakeBlock, AbandonBlock,
     GetBlock, GetCorrupt, KeepBlock, VoteNull, VoteNullCorrupt
<1>3. ~(\/ LosePrecommit \/ TakePrecommitCorrupt \/ LeavePrecommit
        \/ \E p \in Peer, k \in Key : TakePrecommit(p, k))
  BY DEF LosePrecommit, TakePrecommitCorrupt, LeavePrecommit, TakePrecommit
<1>4. ~(\/ SearchBlock \/ SearchCorrupt \/ CastCommit \/ CommitTimeout
        \/ FetchMissing \/ CachePending
        \/ \E p \in Peer, k \in Key :
             k[2] \in Certifiable \cup {Empty} /\ TakeCommit(p, k))
  BY DEF SearchBlock, SearchCorrupt, CastCommit, CommitTimeout,
     FetchMissing, CachePending, TakeCommit
<1>5. ~(\/ TaskVerify \/ FetchVerifyOwn \/ FetchFails \/ TaskEnd
        \/ CoolDown \/ \E b \in Proposed : ChipsArrive(b))
  BY DEF TaskVerify, FetchVerifyOwn, FetchFails, TaskEnd, CoolDown, ChipsArrive
<1>6. QED
  BY <1>1, <1>2, <1>3, <1>4, <1>5 DEF Next, Loop, Task

LEMMA ChainStep ==
  ASSUME TypeOK, ChainInv, [Next]_vars
  PROVE  Refuses \/ \E b \in Block : Extends(b)
BY ChainFrame, CommitPendingExtends, CommitVerifiedExtends, TaskCommitExtends,
   FetchCommitOwnExtends DEF Refuses, chainVars

\* What an extension of the chain keeps.
LEMMA ExtendsKeeps ==
  ASSUME TypeOK, TypeOK', Heights, NEW b \in Block, Extends(b)
  PROVE  /\ Heights' /\ (Linked' => Linked) /\ (lastReady' => Linked')
         /\ LastBlock' = b /\ HeightOf[LastBlock'] = HeightOf[LastBlock] + 1
         /\ \A c \in Block : OnChain(c) => OnChain(c)'
<1>1. /\ chain' = Append(chain, b) /\ chain \in Seq(Chained) /\ chain' \in Seq(Chained)
      /\ Len(chain') = Len(chain) + 1
      /\ \A i \in 1 .. Len(chain) : chain'[i] = chain[i]
      /\ chain'[Len(chain) + 1] = b
  BY DEF Extends, TypeOK, TypeChain, Chained
<1>2. LastBlock' = b /\ HeightOf[LastBlock'] = HeightOf[LastBlock] + 1
  BY <1>1 DEF LastBlock, Extends, CommitAllowed
<1>3. Heights'
  BY <1>1, <1>2, LastHeight DEF Heights, LastBlock
<1>4. Linked' => Linked
  <2> SUFFICES ASSUME Linked', NEW i \in 1 .. Len(chain) - 1
               PROVE  PrevOf[chain[i + 1]] = chain[i]
    BY DEF Linked
  <2>1. i \in 1 .. Len(chain') - 1 /\ i + 1 \in 1 .. Len(chain)
    BY <1>1, LastHeight
  <2>2. PrevOf[chain'[i + 1]] = chain'[i]
    BY <2>1 DEF Linked
  <2>3. QED
    BY <1>1, <2>1, <2>2, LastHeight
<1>l. lastReady' => Linked'
  <2> SUFFICES ASSUME lastReady', NEW i \in 1 .. Len(chain') - 1
               PROVE  PrevOf[chain'[i + 1]] = chain'[i]
    BY DEF Linked
  <2>1. Linked /\ PrevOf[b] = LastBlock
    BY DEF Extends
  <2>2. CASE i = Len(chain)
    BY <1>1, <2>1, <2>2 DEF LastBlock
  <2>3. CASE i # Len(chain)
    BY <1>1, <2>1, <2>3, LastHeight DEF Linked
  <2>4. QED
    BY <2>2, <2>3
<1>5. \A c \in Block : OnChain(c) => OnChain(c)'
  BY <1>1, LastHeight DEF OnChain
<1>6. QED
  BY <1>2, <1>3, <1>4, <1>l, <1>5

\* What every step keeps.
LEMMA StepKeeps ==
  ASSUME TypeOK, TypeOK', ChainInv, [Next]_vars
  PROVE  /\ Heights' /\ (Linked' => Linked) /\ (lastReady' => Linked')
         /\ HeightOf[LastBlock] <= HeightOf[LastBlock']
         /\ \A c \in Block : OnChain(c) => OnChain(c)'
<1>1. HeightOf[LastBlock] \in Nat
  BY LastHeight, BlockAssumption DEF ChainInv
<1>2. CASE Refuses
  <2>1. chain' = chain /\ (lastReady' => lastReady)
    BY <1>2 DEF Refuses, TypeOK, TypeChain
  <2>2. lastReady' => Linked'
    BY <2>1 DEF ChainInv, StuckWithoutState, Linked
  <2>3. QED
    BY <1>1, <2>1, <2>2 DEF ChainInv, Heights, Linked, LastBlock, OnChain
<1>3. CASE \E b \in Block : Extends(b)
  <2>1. PICK b \in Block : Extends(b)
    BY <1>3
  <2>2. QED
    BY <1>1, <2>1, ExtendsKeeps DEF ChainInv, Extends
<1>4. QED
  BY <1>2, <1>3, ChainStep

-----------------------------------------------------------------------------
\* The block in hand has a state only if it had it before or links to LastBlock.
LEMMA ExecutedStep ==
  ASSUME TypeOK, [Next]_vars, executed'
  PROVE  (executed /\ block' = block) \/ Links(block')
<1> USE DEF loopVars
<1>1. CASE UNCHANGED vars
  BY <1>1 DEF vars
<1>2. CASE \/ BeginPending \/ CommitPending \/ EndPending \/ AbandonBlock
           \/ LosePrecommit \/ CastCommit \/ FetchMissing
           \/ CoolDown \/ \E b \in Proposed : ChipsArrive(b)
  BY <1>2 DEF BeginPending, CommitPending, EndPending, AbandonBlock,
     LosePrecommit, CastCommit, FetchMissing, CoolDown, ChipsArrive
<1>3. CASE \/ PendingFails \/ GetCorrupt \/ VoteNullCorrupt \/ CommitTimeout
           \/ TakePrecommitCorrupt \/ SearchCorrupt \/ CommitVerified \/ CachePending
  BY <1>3 DEF PendingFails, GetCorrupt, VoteNullCorrupt, CommitTimeout,
     TakePrecommitCorrupt, SearchCorrupt, CommitVerified, CachePending, NextIteration
<1>4. CASE MakeBlock \/ GetBlock \/ KeepBlock \/ VoteNull \/ LeavePrecommit
  BY <1>4 DEF MakeBlock, GetBlock, KeepBlock, VoteNull, LeavePrecommit
<1>5. CASE \E p \in Peer, k \in Key : TakePrecommit(p, k)
  BY <1>5 DEF TakePrecommit
<1>6. CASE SearchBlock
  BY <1>6 DEF SearchBlock, VerifyExecuteBlock
<1>7. CASE \E p \in Peer, k \in Key :
             k[2] \in Certifiable \cup {Empty} /\ TakeCommit(p, k)
  BY <1>7 DEF TakeCommit, NextIteration
<1>8. CASE Task
  BY <1>8 DEF Task, TaskVerify, TaskCommit, FetchVerifyOwn, FetchCommitOwn,
     FetchFails, TaskEnd
<1>9. QED
  BY <1>1, <1>2, <1>3, <1>4, <1>5, <1>6, <1>7, <1>8 DEF Next, Loop

\* What the steps of the loop and of the environment leave of the task: as it
\* was, but for what it captured, or just begun.
Undisturbed ==
  \/ sync'.kind = sync.kind /\ sync'.stage = sync.stage /\ sync'.blk = sync.blk
  \/ sync'.kind # "idle" /\ sync'.stage = "get"

LEMMA IterationLeavesTask ==
  ASSUME TypeOK, NextIteration
  PROVE  sync'.kind = sync.kind /\ sync'.stage = sync.stage /\ sync'.blk = sync.blk
BY DEF NextIteration, TypeOK, TypeSync, SyncType

\* A task that has nothing to commit is looking for a block, or is over.
LEMMA TaskGets ==
  ASSUME TypeOK, FetchCommitOwn \/ FetchFails \/ TaskEnd
  PROVE  sync'.stage = "get" /\ sync'.kind \in {sync.kind, "idle", "download"}
<1>1. Idle.stage = "get" /\ Idle.kind = "idle"
      /\ StartTask("download").stage = "get" /\ StartTask("download").kind = "download"
  BY DEF StartTask, Idle
<1>2. CASE FetchCommitOwn
  <2>1. CASE sync' = Idle
    BY <1>1, <2>1
  <2>2. CASE sync' = [sync EXCEPT !.stage = "get", !.blk = NoBlock]
    BY <2>2 DEF TypeOK, TypeSync, SyncType
  <2>3. QED
    BY <1>2, <2>1, <2>2 DEF FetchCommitOwn
<1>3. CASE FetchFails \/ TaskEnd
  BY <1>1, <1>3 DEF FetchFails, TaskEnd
<1>4. QED
  BY <1>2, <1>3

LEMMA TaskFrame ==
  ASSUME TypeOK, [Next]_vars, ~Task
  PROVE  Undisturbed
<1> USE DEF Undisturbed
<1>1. CASE UNCHANGED vars
  BY <1>1 DEF vars
<1>2. CASE \/ BeginPending \/ CommitPending \/ LosePrecommit \/ CastCommit
           \/ MakeBlock \/ GetBlock \/ KeepBlock \/ VoteNull \/ LeavePrecommit
           \/ SearchBlock \/ CoolDown \/ \E b \in Proposed : ChipsArrive(b)
           \/ \E p \in Peer, k \in Key : TakePrecommit(p, k)
  BY <1>2 DEF BeginPending, CommitPending, LosePrecommit, CastCommit,
     MakeBlock, GetBlock, KeepBlock, VoteNull, LeavePrecommit, SearchBlock,
     CoolDown, ChipsArrive, TakePrecommit
<1>3. CASE \/ PendingFails \/ GetCorrupt \/ VoteNullCorrupt \/ CommitTimeout
           \/ TakePrecommitCorrupt \/ SearchCorrupt \/ CommitVerified \/ CachePending
  BY <1>3, IterationLeavesTask
  DEF PendingFails, GetCorrupt, VoteNullCorrupt, CommitTimeout,
      TakePrecommitCorrupt, SearchCorrupt, CommitVerified, CachePending
<1>4. CASE EndPending \/ AbandonBlock \/ FetchMissing
  BY <1>4 DEF EndPending, AbandonBlock, FetchMissing, StartTask, Idle
<1>5. CASE \E p \in Peer, k \in Key :
             k[2] \in Certifiable \cup {Empty} /\ TakeCommit(p, k)
  BY <1>5, IterationLeavesTask DEF TakeCommit
<1>6. QED
  BY <1>1, <1>2, <1>3, <1>4, <1>5 DEF Next, Loop

\* The block the task holds is the one it held, or it links to LastBlock.
LEMMA TaskBlockStep ==
  ASSUME TypeOK, [Next]_vars, sync'.stage \in {"got", "ownVerified"}
  PROVE  \/ sync'.stage = sync.stage /\ sync'.blk = sync.blk
         \/ lastReady /\ Links(sync'.blk)
<1>1. CASE ~Task
  BY <1>1, TaskFrame DEF Undisturbed
<1> USE DEF TypeOK, TypeSync, SyncType
<1>2. CASE TaskVerify
  BY <1>2 DEF TaskVerify, VerifyExecuteBlock
<1>3. CASE TaskCommit
  BY <1>3 DEF TaskCommit
<1>4. CASE FetchVerifyOwn
  BY <1>4 DEF FetchVerifyOwn, VerifyExecuteBlock
<1>5. CASE FetchCommitOwn \/ FetchFails \/ TaskEnd
  BY <1>5, TaskGets
<1>6. QED
  BY <1>1, <1>2, <1>3, <1>4, <1>5 DEF Task

\* A block that links is found while the chain is left alone.
LEMMA VerifiedStep ==
  ASSUME TypeOK, TypeOK', ChainInv, [Next]_vars
  PROVE  VerifiedOnChain'
<1>1. \A b : Links(b) => b \in Block /\ OnChain(b)'
  BY LinksOnChain, StepKeeps
<1>2. executed' => block' \in Block /\ OnChain(block)'
  BY <1>1, ExecutedStep, StepKeeps DEF ChainInv, VerifiedOnChain, OnChain
<1>3. sync'.stage \in {"got", "ownVerified"} => OnChain(sync.blk)'
  BY <1>1, TaskBlockStep, StepKeeps
  DEF ChainInv, VerifiedOnChain, TypeOK, TypeSync, OnChain
<1>4. QED
  BY <1>2, <1>3 DEF VerifiedOnChain

\* How the loop comes to be in the part of SynchronizeState that needs no task.
LEMMA PendingEntry ==
  ASSUME [Next]_vars, ~Task, pc' \in {"Pending", "Obtain"}
  PROVE  UNCHANGED <<pc, sync>> \/ BeginPending \/ EndPending
<1>1. ~(\/ PendingFails \/ MakeBlock \/ AbandonBlock \/ GetBlock
        \/ GetCorrupt \/ KeepBlock \/ VoteNull \/ VoteNullCorrupt)
  BY DEF PendingFails, MakeBlock, AbandonBlock, GetBlock, GetCorrupt,
     KeepBlock, VoteNull, VoteNullCorrupt, NextIteration, EnterPrecommit
<1>2. ~(\/ LosePrecommit \/ TakePrecommitCorrupt \/ LeavePrecommit
        \/ SearchBlock \/ SearchCorrupt \/ CastCommit \/ CommitTimeout
        \/ FetchMissing \/ CommitVerified \/ CachePending)
  BY DEF LosePrecommit, TakePrecommitCorrupt, LeavePrecommit,
     SearchBlock, SearchCorrupt, CastCommit, CommitTimeout, FetchMissing,
     CommitVerified, CachePending, NextIteration
<1>3. ~(\/ \E p \in Peer, k \in Key : TakePrecommit(p, k)
        \/ \E p \in Peer, k \in Key :
             k[2] \in Certifiable \cup {Empty} /\ TakeCommit(p, k))
  BY DEF TakePrecommit, CountPrecommit, TakeCommit, NextIteration, preVars
<1>4. QED
  BY <1>1, <1>2, <1>3 DEF Next, Loop, vars, CommitPending, CoolDown, ChipsArrive

\* SynchronizeState is entered past its first test with no task running.
LEMMA BesideStep ==
  ASSUME TypeOK, TypeOK', TaskBeside, [Next]_vars
  PROVE  TaskBeside'
<1>1. CASE ~Task /\ pc' \notin {"Pending", "Obtain"}
  BY <1>1, TaskFrame DEF Undisturbed, TaskBeside
<1>2. CASE pc' \in {"Pending", "Obtain"} /\ ~Task
  <2>1. \/ UNCHANGED <<pc, sync>> \/ BeginPending \/ EndPending
    BY <1>2, PendingEntry
  <2>2. QED
    BY <1>2, <2>1 DEF TaskBeside, BeginPending, EndPending, StartTask, Idle
<1> USE DEF TaskBeside, taskFrame, TypeOK, TypeSync, SyncType
<1>3. CASE TaskVerify
  BY <1>3 DEF TaskVerify
<1>4. CASE TaskCommit
  BY <1>4 DEF TaskCommit
<1>5. CASE FetchVerifyOwn
  BY <1>5 DEF FetchVerifyOwn
<1>6. CASE FetchCommitOwn \/ FetchFails \/ TaskEnd
  <2>1. sync.kind # "idle" /\ pc' = pc
    BY <1>6 DEF FetchCommitOwn, FetchFails, TaskEnd
  <2>2. QED
    BY <1>6, <2>1, TaskGets
<1>7. QED
  BY <1>1, <1>2, <1>3, <1>4, <1>5, <1>6 DEF Task

\* Commit votes are counted only after one was cast, which takes a state, and
\* the block in hand is not replaced meanwhile.
LEMMA CollectStep ==
  ASSUME TypeOK, [Next]_vars, ~lastReady, executed',
         pc' \in {"Collect", "CommitBlock"}
  PROVE  pc \in {"Collect", "CommitBlock"} /\ executed /\ block' = block
<1> USE DEF loopVars
<1>1. ~(\/ BeginPending \/ CommitPending \/ PendingFails \/ EndPending \/ MakeBlock
        \/ AbandonBlock \/ GetBlock \/ GetCorrupt \/ KeepBlock \/ VoteNull
        \/ VoteNullCorrupt)
  BY DEF BeginPending, CommitPending, PendingFails, EndPending, MakeBlock,
     AbandonBlock, GetBlock, GetCorrupt, KeepBlock, VoteNull, VoteNullCorrupt,
     NextIteration, EnterPrecommit
<1>2. ~(\/ LosePrecommit \/ TakePrecommitCorrupt \/ LeavePrecommit
        \/ SearchBlock \/ SearchCorrupt \/ CastCommit \/ CommitTimeout
        \/ FetchMissing \/ CommitVerified \/ CachePending)
  BY DEF LosePrecommit, TakePrecommitCorrupt, LeavePrecommit,
     SearchBlock, SearchCorrupt, CastCommit, CommitTimeout, FetchMissing,
     CommitVerified, CachePending, NextIteration
<1>3. ~ \E p \in Peer, k \in Key : TakePrecommit(p, k)
  BY DEF TakePrecommit, CountPrecommit
<1>4. CASE \E p \in Peer, k \in Key :
             k[2] \in Certifiable \cup {Empty} /\ TakeCommit(p, k)
  BY <1>4 DEF TakeCommit, NextIteration
<1>5. CASE Task
  BY <1>5 DEF Task, TaskVerify, TaskCommit, FetchVerifyOwn, FetchCommitOwn,
     FetchFails, TaskEnd, taskFrame
<1>6. CASE UNCHANGED vars \/ CoolDown \/ \E b \in Proposed : ChipsArrive(b)
  BY <1>6 DEF vars, CoolDown, ChipsArrive
<1>7. QED
  BY <1>1, <1>2, <1>3, <1>4, <1>5, <1>6 DEF Next, Loop

\* Once the chain is not linked, whatever was verified before is too low.
LEMMA StuckStep ==
  ASSUME TypeOK, TypeOK', ChainInv, [Next]_vars
  PROVE  StuckWithoutState'
<1> SUFFICES ASSUME ~Linked'
             PROVE  /\ ~lastReady'
                    /\ pc' \notin {"Pending", "Obtain"}
                    /\ sync'.stage \in {"got", "ownVerified"} =>
                         HeightOf[sync'.blk] <= HeightOf[LastBlock']
                    /\ pc' \in {"Collect", "CommitBlock"} /\ executed' =>
                         HeightOf[block'] <= HeightOf[LastBlock']
  BY DEF StuckWithoutState
<1>h. /\ HeightOf[LastBlock] \in Nat /\ HeightOf[LastBlock'] \in Nat
      /\ HeightOf[LastBlock] <= HeightOf[LastBlock']
  BY LastHeight, StepKeeps, BlockAssumption DEF ChainInv, LastBlock, TypeOK, TypeChain
<1>v. /\ executed => block \in Block /\ HeightOf[block] \in Nat
                     /\ HeightOf[block] <= HeightOf[LastBlock] + 1
      /\ sync.stage \in {"got", "ownVerified"} =>
           sync.blk \in Block /\ HeightOf[sync.blk] \in Nat
           /\ HeightOf[sync.blk] <= HeightOf[LastBlock] + 1
  BY OnChainHeight DEF ChainInv, VerifiedOnChain, TypeOK, TypeSync
<1>r. ~lastReady'
  BY StepKeeps
<1>1. CASE Linked
  <2>0. ~Refuses
    BY <1>1 DEF Refuses, Linked
  <2>1. \/ CommitVerified /\ block \in Block /\ Extends(block)
        \/ FetchCommitOwn /\ Captured \in Block /\ Extends(Captured) /\ sync' = Idle
    BY <1>r, <2>0, ChainFrame, CommitPendingExtends, CommitVerifiedExtends,
       TaskCommitExtends, FetchCommitOwnExtends DEF chainVars, Refuses
  <2>2. CASE CommitVerified /\ block \in Block /\ Extends(block)
    <3>1. HeightOf[LastBlock'] = HeightOf[LastBlock] + 1
      BY <2>2, ExtendsKeeps DEF ChainInv
    <3>2. pc' = "Synchronize" /\ sync'.stage = sync.stage /\ sync'.blk = sync.blk
      BY <2>2, IterationLeavesTask DEF CommitVerified, NextIteration
    <3>3. QED
      BY <1>r, <1>v, <3>1, <3>2
  <2>3. CASE FetchCommitOwn /\ Captured \in Block /\ Extends(Captured) /\ sync' = Idle
    <3>1. HeightOf[LastBlock'] = HeightOf[LastBlock] + 1
      BY <2>3, ExtendsKeeps DEF ChainInv
    <3>2. /\ sync.stage = "ownVerified" /\ sync'.stage = "get"
          /\ pc' = pc /\ block' = block /\ (executed' => executed)
      BY <2>3 DEF FetchCommitOwn, Idle, taskFrame, TypeOK, TypeLoop
    <3>3. pc \notin {"Pending", "Obtain"}
      BY <3>2 DEF ChainInv, TaskBeside
    <3>4. QED
      BY <1>r, <1>v, <3>1, <3>2, <3>3
  <2>4. QED
    BY <2>1, <2>2, <2>3
<1>2. CASE ~Linked
  <2>0. ~lastReady
    BY <1>2 DEF ChainInv, StuckWithoutState
  <2>1. pc' \notin {"Pending", "Obtain"}
    <3>1. pc \notin {"Pending", "Obtain"}
      BY <1>2 DEF ChainInv, StuckWithoutState
    <3>2. ~BeginPending /\ ~EndPending
      BY <2>0, <3>1 DEF BeginPending, EndPending
    <3>3. Task => pc' = pc
      BY DEF Task, TaskVerify, TaskCommit, FetchVerifyOwn, FetchCommitOwn,
         FetchFails, TaskEnd, taskFrame
    <3>4. QED
      BY <3>1, <3>2, <3>3, PendingEntry
  <2>2. sync'.stage \in {"got", "ownVerified"} =>
          HeightOf[sync'.blk] <= HeightOf[LastBlock']
    BY <1>2, <2>0, <1>h, <1>v, TaskBlockStep DEF ChainInv, StuckWithoutState
  <2>3. pc' \in {"Collect", "CommitBlock"} /\ executed' =>
          HeightOf[block'] <= HeightOf[LastBlock']
    BY <1>2, <2>0, <1>h, <1>v, CollectStep DEF ChainInv, StuckWithoutState
  <2>4. QED
    BY <1>r, <2>1, <2>2, <2>3
<1>3. QED
  BY <1>1, <1>2

-----------------------------------------------------------------------------
\* What makes ChainLinked inductive holds in every reachable state.
THEOREM ChainInvCorrect == Spec => []ChainInv
<1>1. Init => ChainInv
  <2> SUFFICES ASSUME Init PROVE ChainInv
    OBVIOUS
  <2>1. sync.kind = "idle" /\ sync.stage = "get"
    BY DEF Init, Idle
  <2>2. Heights /\ Linked
    BY BlockAssumption DEF Init, Heights, Linked, Chained
  <2>3. QED
    BY <2>1, <2>2
    DEF Init, ChainInv, VerifiedOnChain, TaskBeside, StuckWithoutState
<1>2. TypeOK /\ TypeOK' /\ ChainInv /\ [Next]_vars => ChainInv'
  BY StepKeeps, VerifiedStep, BesideStep, StuckStep DEF ChainInv
<1>3. QED
  BY <1>1, <1>2, TypeCorrect, PTL DEF Spec

\* The chain is linked as long as the node knows the state of its last block,
\* whichever of the loop and the task commits, in whatever order.
THEOREM ChainLinkedCorrect == Spec => []ChainLinked
<1>1. ChainInv => ChainLinked
  BY DEF ChainInv, StuckWithoutState, ChainLinked
<1>2. QED
  BY <1>1, ChainInvCorrect, PTL

\* The loop, the task and their environment together implement module Chain.
THEOREM ImplementsChain == Spec => IsChain
<1>1. Init => C!Init
  BY DEF Init, C!Init
<1>2. TypeOK /\ ChainInv /\ [Next]_vars => [C!Next]_<<chain, lastReady>>
  <2> SUFFICES ASSUME TypeOK, ChainInv, [Next]_vars, ~UNCHANGED chainVars
               PROVE  C!Next
    BY DEF chainVars
  <2>1. CASE Refuses
    BY <2>1 DEF Refuses, chainVars, C!Next, C!Lose
  <2>2. CASE \E b \in Block : Extends(b)
    <3>1. PICK b \in Block : Extends(b)
      BY <2>2
    <3>2. CASE lastReady'
      BY <3>1, <3>2, TypeStep DEF Extends, CommitAllowed, LastBlock, Linked,
         TypeOK, TypeChain, C!Next, C!Extend, C!Last, C!Linked
    <3>3. CASE ~lastReady'
      <4>1. lastReady' = FALSE
        BY <3>3, TypeStep DEF TypeOK, TypeChain
      <4>2. QED
        BY <3>1, <4>1 DEF Extends, CommitAllowed, LastBlock, C!Next,
           C!ExtendBlindly, C!Last
    <3>4. QED
      BY <3>2, <3>3
  <2>3. QED
    BY <2>1, <2>2, ChainStep
<1>3. QED
  BY <1>1, <1>2, TypeCorrect, ChainInvCorrect, PTL DEF Spec, IsChain, C!Spec

(***************************************************************************)
(* What the loop keeps as long as the consensus works, that is, as long as *)
(* no two blocks of one height are certified                               *)
(***************************************************************************)
InSynchronize == {"Synchronize", "Pending", "Obtain"}

\* validBlock is not yet TRUE of the block in hand, where there may be one, nor
\* of the block that is still to come.
NotYetValid ==
  /\ pc \in InSynchronize /\ block # NoBlock => ~validBlock
  /\ pc = "Precommit" /\ block = NoBlock => ~validBlock

\* Once the loop votes with validBlock set, no task runs beside it.
NoTaskBesideVote ==
  validBlock /\ pc \notin InSynchronize => sync.kind = "idle"

\* validBlock is TRUE of the block in hand, except while another one is sought.
ValidMeansVerified ==
  validBlock /\ block # NoBlock /\ ~(pc = "Commit" /\ Searching) =>
    block \in Valid /\ executed

\* otherCommitBlocks is sorted, and ends with the next block at the latest.
PendingInOrder ==
  \A i \in 1 .. Len(otherCommit) :
    /\ HeightOf[otherCommit[i]] <= HeightOf[LastBlock] + 1
    /\ \A j \in 1 .. i - 1 : HeightOf[otherCommit[j]] < HeightOf[otherCommit[i]]

\* A block is restored once: it waits for its chips, is held, or is cached.
RestoredOnce ==
  /\ chips \subseteq arrived
  /\ \A i \in 1 .. Len(otherCommit) : otherCommit[i] \in arrived \ chips
  /\ block # NoBlock /\ ~validBlock =>
       /\ block \in arrived \ chips
       /\ \A i \in 1 .. Len(otherCommit) :
            /\ otherCommit[i] # block
            /\ HeightOf[otherCommit[i]] <= HeightOf[block]

\* While the pending blocks are committed, commitCount separates those that are
\* from those that are not.
PendingSplit ==
  pc = "Pending" =>
    \A i \in 1 .. Len(otherCommit) :
      (i <= commitCount) <=> (HeightOf[otherCommit[i]] <= HeightOf[LastBlock])

Emptied == pc = "Obtain" => otherCommit = <<>> /\ sync.kind = "idle"

VoteParts ==
  /\ NotYetValid /\ NoTaskBesideVote /\ ValidMeansVerified
  /\ PendingInOrder /\ RestoredOnce /\ PendingSplit /\ Emptied

VoteInv == OneCertified => VoteParts

-----------------------------------------------------------------------------
\* A task that is not running takes no step.
LEMMA TaskRuns ==
  ASSUME ChainInv, Task
  PROVE  sync.kind # "idle" /\ pc' = pc /\ UNCHANGED <<block, validBlock, pendVars>>
BY DEF ChainInv, TaskBeside, Task, TaskVerify, TaskCommit, FetchVerifyOwn,
   FetchCommitOwn, FetchFails, TaskEnd, taskFrame, loopVars

\* A verified block in hand is never too far ahead of LastBlock.
LEMMA VerifiedNotTooFar ==
  ASSUME TypeOK, ChainInv, VoteParts, pc = "CommitBlock", block # NoBlock, validBlock
  PROVE  ~TooFar
<1>1. executed
  BY DEF VoteParts, ValidMeansVerified
<1>2. block \in Block /\ OnChain(block)
  BY <1>1 DEF ChainInv, VerifiedOnChain
<1>3. HeightOf[block] \in Nat /\ HeightOf[block] <= HeightOf[LastBlock] + 1
      /\ HeightOf[LastBlock] \in Nat
  BY <1>2, OnChainHeight, LastHeight, BlockAssumption DEF ChainInv
<1>4. QED
  BY <1>3 DEF TooFar

LEMMA NotYetValidStep ==
  ASSUME TypeOK, ChainInv, VoteParts, [Next]_vars
  PROVE  NotYetValid'
<1> USE DEF NotYetValid, InSynchronize
<1>0. NotYetValid /\ NoBlock \notin Block
  BY BlockAssumption DEF VoteParts, Chained
<1>1. CASE UNCHANGED vars \/ CoolDown \/ \E b \in Proposed : ChipsArrive(b)
  BY <1>0, <1>1 DEF vars, loopVars, CoolDown, ChipsArrive
<1>2. CASE Task
  BY <1>0, <1>2, TaskRuns
<1>3. CASE BeginPending \/ CommitPending \/ EndPending
  <2>1. pc \in InSynchronize /\ pc' # "Precommit" /\ UNCHANGED loopVars
    BY <1>3 DEF BeginPending, CommitPending, EndPending
  <2>2. QED
    BY <1>0, <2>1 DEF loopVars
<1>13. CASE AbandonBlock \/ LosePrecommit
  BY <1>13 DEF AbandonBlock, LosePrecommit, loopVars
<1>4. CASE \/ PendingFails \/ GetCorrupt \/ VoteNullCorrupt \/ CommitTimeout
           \/ TakePrecommitCorrupt \/ SearchCorrupt \/ CommitVerified \/ CachePending
  BY <1>4 DEF PendingFails, GetCorrupt, VoteNullCorrupt, CommitTimeout,
     TakePrecommitCorrupt, SearchCorrupt, CommitVerified, CachePending, NextIteration
<1>5. CASE MakeBlock
  BY <1>0, <1>5, BlockAssumption DEF MakeBlock, EnterPrecommit
<1>6. CASE GetBlock
  BY <1>0, <1>6 DEF GetBlock, EnterPrecommit, VerifyExecuteBlock, Links
<1>7. CASE KeepBlock \/ VoteNull
  BY <1>7 DEF KeepBlock, VoteNull, EnterPrecommit, loopVars
<1>8. CASE LeavePrecommit \/ SearchBlock \/ CastCommit
  BY <1>0, <1>8 DEF LeavePrecommit, SearchBlock, CastCommit
<1>9. CASE \E p \in Peer, k \in Key : TakePrecommit(p, k)
  BY <1>0, <1>9 DEF TakePrecommit, CountPrecommit
<1>10. CASE \E p \in Peer, k \in Key :
              k[2] \in Certifiable \cup {Empty} /\ TakeCommit(p, k)
  BY <1>10 DEF TakeCommit, NextIteration
<1>11. CASE FetchMissing
  <2>1. block # NoBlock => ~validBlock
    BY <1>11, VerifiedNotTooFar DEF FetchMissing
  <2>2. QED
    BY <1>11, <2>1 DEF FetchMissing, loopVars
<1>12. QED
  BY <1>1, <1>2, <1>3, <1>4, <1>5, <1>6, <1>7, <1>8, <1>9, <1>10, <1>11, <1>13
  DEF Next, Loop

LEMMA NoTaskBesideVoteStep ==
  ASSUME TypeOK, ChainInv, VoteParts, [Next]_vars
  PROVE  NoTaskBesideVote'
<1> USE DEF NoTaskBesideVote, InSynchronize
<1>0. NoTaskBesideVote
  BY DEF VoteParts
<1>1. CASE UNCHANGED vars \/ CoolDown \/ \E b \in Proposed : ChipsArrive(b)
  BY <1>0, <1>1 DEF vars, loopVars, CoolDown, ChipsArrive
<1>2. CASE Task
  BY <1>0, <1>2, TaskRuns
<1>3. CASE \/ BeginPending \/ CommitPending \/ EndPending \/ AbandonBlock
           \/ LosePrecommit \/ LeavePrecommit \/ FetchMissing
  BY <1>3 DEF BeginPending, CommitPending, EndPending, AbandonBlock,
     LosePrecommit, LeavePrecommit, FetchMissing
<1>4. CASE \/ PendingFails \/ GetCorrupt \/ VoteNullCorrupt \/ CommitTimeout
           \/ TakePrecommitCorrupt \/ SearchCorrupt \/ CommitVerified \/ CachePending
  BY <1>4 DEF PendingFails, GetCorrupt, VoteNullCorrupt, CommitTimeout,
     TakePrecommitCorrupt, SearchCorrupt, CommitVerified, CachePending, NextIteration
<1>5. CASE MakeBlock \/ GetBlock \/ KeepBlock
  BY <1>5 DEF MakeBlock, GetBlock, KeepBlock, VoteParts, Emptied
<1>6. CASE VoteNull
  BY <1>6 DEF VoteNull, VoteParts, NotYetValid, loopVars
<1>7. CASE SearchBlock \/ CastCommit
  BY <1>0, <1>7 DEF SearchBlock, CastCommit, loopVars
<1>8. CASE \E p \in Peer, k \in Key : TakePrecommit(p, k)
  BY <1>0, <1>8 DEF TakePrecommit
<1>9. CASE \E p \in Peer, k \in Key :
             k[2] \in Certifiable \cup {Empty} /\ TakeCommit(p, k)
  BY <1>0, <1>9 DEF TakeCommit, NextIteration, loopVars
<1>10. QED
  BY <1>1, <1>2, <1>3, <1>4, <1>5, <1>6, <1>7, <1>8, <1>9 DEF Next, Loop

LEMMA ValidMeansVerifiedStep ==
  ASSUME TypeOK, ChainInv, VoteParts, [Next]_vars
  PROVE  ValidMeansVerified'
<1> USE DEF ValidMeansVerified
<1>0. ValidMeansVerified /\ NotYetValid /\ NoTaskBesideVote
  BY DEF VoteParts
<1>1. CASE UNCHANGED vars \/ CoolDown \/ \E b \in Proposed : ChipsArrive(b)
  BY <1>0, <1>1 DEF vars, loopVars, preVars, Searching, CoolDown, ChipsArrive
<1>2. CASE Task
  <2>1. validBlock => block = NoBlock
    BY <1>0, <1>2, TaskRuns DEF NotYetValid, NoTaskBesideVote
  <2>2. QED
    BY <1>2, <2>1, TaskRuns
<1>3. CASE \/ BeginPending \/ CommitPending \/ EndPending \/ AbandonBlock
           \/ LosePrecommit \/ LeavePrecommit \/ FetchMissing \/ CastCommit
  BY <1>0, <1>3 DEF BeginPending, CommitPending, EndPending, AbandonBlock,
     LosePrecommit, LeavePrecommit, FetchMissing, CastCommit, loopVars
<1>4. CASE \/ PendingFails \/ GetCorrupt \/ VoteNullCorrupt \/ CommitTimeout
           \/ TakePrecommitCorrupt \/ SearchCorrupt \/ CommitVerified \/ CachePending
  BY <1>4 DEF PendingFails, GetCorrupt, VoteNullCorrupt, CommitTimeout,
     TakePrecommitCorrupt, SearchCorrupt, CommitVerified, CachePending, NextIteration
<1>5. CASE MakeBlock
  BY <1>5, BlockAssumption DEF MakeBlock
<1>6. CASE GetBlock
  BY <1>6 DEF GetBlock, VerifyExecuteBlock
<1>7. CASE KeepBlock
  BY <1>0, <1>7 DEF KeepBlock, VerifyExecuteBlock, NotYetValid, InSynchronize
<1>8. CASE VoteNull
  BY <1>0, <1>8 DEF VoteNull, NotYetValid, InSynchronize, loopVars
<1>9. CASE \E p \in Peer, k \in Key : TakePrecommit(p, k)
  BY <1>0, <1>9 DEF TakePrecommit, NotYetValid
<1>10. CASE SearchBlock
  BY <1>0, <1>10 DEF SearchBlock, Searching, preVars, VerifyExecuteBlock,
     NoTaskBesideVote, InSynchronize
<1>11. CASE \E p \in Peer, k \in Key :
              k[2] \in Certifiable \cup {Empty} /\ TakeCommit(p, k)
  <2>1. CASE NextIteration
    BY <2>1 DEF NextIteration
  <2>2. CASE ~NextIteration
    <3>1. pc = "Collect" /\ UNCHANGED loopVars
      BY <1>11, <2>2 DEF TakeCommit
    <3>2. QED
      BY <1>0, <3>1 DEF loopVars
  <2>3. QED
    BY <2>1, <2>2
<1>12. QED
  BY <1>1, <1>2, <1>3, <1>4, <1>5, <1>6, <1>7, <1>8, <1>9, <1>10, <1>11 DEF Next, Loop

-----------------------------------------------------------------------------
\* A restored block waited for its chips, is above LastBlock, and is gone then.
Restored(b) == b \in Restorable /\ b \notin chips'

\* A block that is in hand unverified was there before, or was just restored.
LEMMA RestoreStep ==
  ASSUME TypeOK, ChainInv, [Next]_vars, block' # NoBlock, ~validBlock'
  PROVE  (block' = block /\ ~validBlock) \/ Restored(block')
<1> USE DEF Restored, TryGetBlock, loopVars
<1>1. CASE UNCHANGED vars \/ CoolDown \/ \E b \in Proposed : ChipsArrive(b)
  BY <1>1 DEF vars, CoolDown, ChipsArrive
<1>2. CASE Task
  BY <1>2, TaskRuns
<1>3. CASE \/ BeginPending \/ CommitPending \/ EndPending \/ AbandonBlock
           \/ LosePrecommit \/ LeavePrecommit \/ FetchMissing \/ CastCommit
  BY <1>3 DEF BeginPending, CommitPending, EndPending, AbandonBlock,
     LosePrecommit, LeavePrecommit, FetchMissing, CastCommit
<1>4. CASE \/ PendingFails \/ GetCorrupt \/ VoteNullCorrupt \/ CommitTimeout
           \/ TakePrecommitCorrupt \/ SearchCorrupt \/ CommitVerified \/ CachePending
  BY <1>4 DEF PendingFails, GetCorrupt, VoteNullCorrupt, CommitTimeout,
     TakePrecommitCorrupt, SearchCorrupt, CommitVerified, CachePending, NextIteration
<1>5. CASE MakeBlock \/ KeepBlock
  BY <1>5 DEF MakeBlock, KeepBlock
<1>6. CASE GetBlock
  BY <1>6 DEF GetBlock
<1>7. CASE VoteNull
  BY <1>7 DEF VoteNull
<1>8. CASE \E p \in Peer, k \in Key : TakePrecommit(p, k)
  BY <1>8 DEF TakePrecommit
<1>9. CASE SearchBlock
  BY <1>9 DEF SearchBlock
<1>10. CASE \E p \in Peer, k \in Key :
              k[2] \in Certifiable \cup {Empty} /\ TakeCommit(p, k)
  <2>1. CASE NextIteration
    BY <2>1 DEF NextIteration
  <2>2. CASE ~NextIteration
    BY <1>10, <2>2 DEF TakeCommit
  <2>3. QED
    BY <2>1, <2>2
<1>11. QED
  BY <1>1, <1>2, <1>3, <1>4, <1>5, <1>6, <1>7, <1>8, <1>9, <1>10 DEF Next, Loop

\* Chips are only added for blocks that never arrived before.
LEMMA ChipsStep ==
  ASSUME [Next]_vars
  PROVE  arrived \subseteq arrived' /\ chips' \subseteq chips \cup (arrived' \ arrived)
<1> USE DEF TryGetBlock, Restorable
<1>1. CASE UNCHANGED vars \/ CoolDown \/ \E b \in Proposed : ChipsArrive(b)
  BY <1>1 DEF vars, CoolDown, ChipsArrive
<1>2. CASE Task
  BY <1>2 DEF Task, TaskVerify, TaskCommit, FetchVerifyOwn, FetchCommitOwn,
     FetchFails, TaskEnd, taskFrame
<1>3. CASE \/ BeginPending \/ CommitPending \/ EndPending \/ AbandonBlock
           \/ LosePrecommit \/ LeavePrecommit \/ FetchMissing \/ CastCommit
           \/ MakeBlock \/ KeepBlock
  BY <1>3 DEF BeginPending, CommitPending, EndPending, AbandonBlock, MakeBlock,
     KeepBlock, LosePrecommit, LeavePrecommit, FetchMissing, CastCommit
<1>4. CASE \/ PendingFails \/ GetCorrupt \/ VoteNullCorrupt \/ CommitTimeout
           \/ TakePrecommitCorrupt \/ SearchCorrupt \/ CommitVerified \/ CachePending
  BY <1>4 DEF PendingFails, GetCorrupt, VoteNullCorrupt, CommitTimeout,
     TakePrecommitCorrupt, SearchCorrupt, CommitVerified, CachePending
<1>5. CASE GetBlock \/ VoteNull \/ SearchBlock
           \/ \E p \in Peer, k \in Key : TakePrecommit(p, k)
  BY <1>5 DEF GetBlock, VoteNull, SearchBlock, TakePrecommit
<1>6. CASE \E p \in Peer, k \in Key :
             k[2] \in Certifiable \cup {Empty} /\ TakeCommit(p, k)
  BY <1>6 DEF TakeCommit
<1>7. QED
  BY <1>1, <1>2, <1>3, <1>4, <1>5, <1>6 DEF Next, Loop

\* What becomes of the cached blocks: all stay, a prefix goes, or one comes.
LEMMA CacheFrame ==
  ASSUME [Next]_vars
  PROVE  UNCHANGED otherCommit \/ EndPending \/ CachePending
BY FrameStep DEF Quiet, TakeCommit, pendVars

\* The elements of a sequence without its first n, and with one more.
LEMMA TailElements ==
  ASSUME NEW s \in Seq(Block), NEW n \in 0 .. Len(s), NEW t,
         t = SubSeq(s, n + 1, Len(s))
  PROVE  /\ Len(t) = Len(s) - n
         /\ \A i \in 1 .. Len(t) : i + n \in 1 .. Len(s) /\ t[i] = s[i + n]
OBVIOUS

LEMMA AppendElements ==
  ASSUME NEW s \in Seq(Block), NEW b \in Block, NEW t, t = Append(s, b)
  PROVE  /\ Len(s) \in Nat /\ Len(t) = Len(s) + 1 /\ t[Len(s) + 1] = b
         /\ \A i \in 1 .. Len(s) : t[i] = s[i]
OBVIOUS

\* The block that is cached is certified, was not cached before, and is above
\* all that were.
LEMMA CachedBlock ==
  ASSUME TypeOK, CertificateInv, OneCertified, VoteParts, CachePending
  PROVE  /\ block \in Block /\ ~validBlock
         /\ otherCommit' = Append(otherCommit, block)
         /\ HeightOf[block] <= HeightOf[LastBlock] + 1
         /\ \A i \in 1 .. Len(otherCommit) :
              HeightOf[otherCommit[i]] < HeightOf[block]
<1>1. /\ pc = "CommitBlock" /\ block # NoBlock /\ block \in Block /\ ~validBlock
      /\ otherCommit' = Append(otherCommit, block)
      /\ ~(HeightOf[block] >= HeightOf[LastBlock] + 2)
  BY DEF CachePending, TooFar, TypeOK, TypeLoop
<1>2. HeightOf[block] \in Nat /\ HeightOf[LastBlock] \in Nat
  BY <1>1, BlockAssumption DEF Chained, LastBlock, TypeOK, TypeChain
<1>3. ASSUME NEW i \in 1 .. Len(otherCommit)
      PROVE  HeightOf[otherCommit[i]] < HeightOf[block]
  <2>1. otherCommit[i] \in Block /\ HeightOf[otherCommit[i]] \in Nat
    BY BlockAssumption DEF TypeOK, TypePending, Chained
  <2>2. Certified(otherCommit[i]) /\ Certified(block)
    BY <1>1, FullCount DEF CertificateInv
  <2>3. otherCommit[i] # block /\ HeightOf[otherCommit[i]] <= HeightOf[block]
    BY <1>1 DEF VoteParts, RestoredOnce
  <2>4. HeightOf[otherCommit[i]] # HeightOf[block]
    BY <1>1, <2>1, <2>2, <2>3 DEF OneCertified
  <2>5. QED
    BY <1>2, <2>1, <2>3, <2>4
<1>4. QED
  BY <1>1, <1>2, <1>3

LEMMA PendingInOrderStep ==
  ASSUME TypeOK, TypeOK', ChainInv, CertificateInv, OneCertified, VoteParts, [Next]_vars
  PROVE  PendingInOrder'
<1>1. /\ HeightOf[LastBlock] \in Nat /\ HeightOf[LastBlock'] \in Nat
      /\ HeightOf[LastBlock] <= HeightOf[LastBlock']
  BY StepKeeps, BlockAssumption DEF LastBlock, TypeOK, TypeChain
<1>2. /\ PendingInOrder
      /\ \A i \in 1 .. Len(otherCommit) : HeightOf[otherCommit[i]] \in Nat
  BY BlockAssumption DEF VoteParts, TypeOK, TypePending, Chained
<1>3. CASE UNCHANGED otherCommit
  BY <1>1, <1>2, <1>3 DEF PendingInOrder
<1>4. CASE EndPending
  <2>1. otherCommit' = SubSeq(otherCommit, commitCount + 1, Len(otherCommit))
        /\ commitCount \in 0 .. Len(otherCommit)
    BY <1>4 DEF EndPending, TypeOK, TypePending
  <2>2. /\ Len(otherCommit') = Len(otherCommit) - commitCount
        /\ \A i \in 1 .. Len(otherCommit') :
             /\ i + commitCount \in 1 .. Len(otherCommit)
             /\ otherCommit'[i] = otherCommit[i + commitCount]
    <3>1. otherCommit \in Seq(Block)
      BY DEF TypeOK, TypePending
    <3>2. QED
      BY <2>1, <3>1, TailElements
  <2>3. ASSUME NEW i \in 1 .. Len(otherCommit')
        PROVE  /\ HeightOf[otherCommit'[i]] <= HeightOf[LastBlock'] + 1
               /\ \A j \in 1 .. i - 1 :
                    HeightOf[otherCommit'[j]] < HeightOf[otherCommit'[i]]
    <3> DEFINE k == i + commitCount
    <3>1. k \in 1 .. Len(otherCommit) /\ otherCommit'[i] = otherCommit[k]
      BY <2>2
    <3>2. HeightOf[otherCommit[k]] <= HeightOf[LastBlock] + 1
          /\ HeightOf[otherCommit[k]] \in Nat
      BY <1>2, <3>1 DEF PendingInOrder
    <3>3. ASSUME NEW j \in 1 .. i - 1
          PROVE  HeightOf[otherCommit'[j]] < HeightOf[otherCommit'[i]]
      <4>1. j \in 1 .. Len(otherCommit')
        BY <2>1, <2>2 DEF TypeOK, TypePending
      <4>2. j + commitCount \in 1 .. k - 1
            /\ otherCommit'[j] = otherCommit[j + commitCount]
        BY <2>1, <2>2, <4>1
      <4>3. QED
        BY <1>2, <3>1, <4>2 DEF PendingInOrder
    <3>4. QED
      BY <1>1, <3>1, <3>2, <3>3
  <2>4. QED
    BY <2>3 DEF PendingInOrder
<1>5. CASE CachePending
  <2>1. /\ Len(otherCommit') = Len(otherCommit) + 1
        /\ \A i \in 1 .. Len(otherCommit) : otherCommit'[i] = otherCommit[i]
        /\ otherCommit'[Len(otherCommit) + 1] = block
        /\ Len(otherCommit) \in Nat
    <3>1. otherCommit \in Seq(Block)
      BY DEF TypeOK, TypePending
    <3>2. QED
      BY <1>5, <3>1, CachedBlock, AppendElements
  <2>2. HeightOf[block] \in Nat
    BY <1>5, CachedBlock, BlockAssumption DEF Chained
  <2>3. ASSUME NEW i \in 1 .. Len(otherCommit')
        PROVE  /\ HeightOf[otherCommit'[i]] <= HeightOf[LastBlock'] + 1
               /\ \A j \in 1 .. i - 1 :
                    HeightOf[otherCommit'[j]] < HeightOf[otherCommit'[i]]
    <3>1. CASE i <= Len(otherCommit)
      <4>1. i \in 1 .. Len(otherCommit) /\ otherCommit'[i] = otherCommit[i]
            /\ \A j \in 1 .. i - 1 :
                 j \in 1 .. Len(otherCommit) /\ otherCommit'[j] = otherCommit[j]
        BY <2>1, <3>1
      <4>2. HeightOf[otherCommit[i]] <= HeightOf[LastBlock'] + 1
        BY <1>1, <1>2, <4>1 DEF PendingInOrder
      <4>3. QED
        BY <1>2, <4>1, <4>2 DEF PendingInOrder
    <3>2. CASE i = Len(otherCommit) + 1
      <4>1. otherCommit'[i] = block /\ i - 1 = Len(otherCommit)
        BY <2>1, <3>2
      <4>2. HeightOf[block] <= HeightOf[LastBlock'] + 1
        BY <1>1, <1>5, <2>2, CachedBlock
      <4>3. \A j \in 1 .. Len(otherCommit) :
              HeightOf[otherCommit'[j]] < HeightOf[block]
        BY <1>5, <2>1, CachedBlock
      <4>4. QED
        BY <4>1, <4>2, <4>3
    <3>3. QED
      BY <2>1, <3>1, <3>2
  <2>4. QED
    BY <2>3 DEF PendingInOrder
<1>6. QED
  BY <1>3, <1>4, <1>5, CacheFrame

LEMMA RestoredOnceStep ==
  ASSUME TypeOK, TypeOK', ChainInv, CertificateInv, OneCertified, VoteParts, [Next]_vars
  PROVE  RestoredOnce'
<1> DEFINE entries == {otherCommit[i] : i \in 1 .. Len(otherCommit)}
<1>1. /\ chips \subseteq arrived /\ entries \subseteq arrived \ chips
      /\ \A c \in entries : /\ c \in Block /\ HeightOf[c] \in Nat
                            /\ HeightOf[c] <= HeightOf[LastBlock] + 1
      /\ HeightOf[LastBlock] \in Nat
  BY BlockAssumption
  DEF VoteParts, RestoredOnce, PendingInOrder, TypeOK, TypePending, TypeChain,
      LastBlock, Chained
<1>2. chips' \subseteq arrived'
  BY <1>1, ChipsStep
<1>3. \/ entries' \subseteq entries
      \/ CachePending /\ entries' \subseteq entries \cup {block}
  <2>1. CASE UNCHANGED otherCommit
    BY <2>1
  <2>2. CASE EndPending
    BY <2>2 DEF EndPending, TypeOK, TypePending
  <2>3. CASE CachePending
    BY <2>3, CachedBlock DEF TypeOK, TypePending
  <2>4. QED
    BY <2>1, <2>2, <2>3, CacheFrame
<1>4. entries' \subseteq arrived' \ chips'
  <2>1. CachePending => block \in arrived \ chips
    BY CachedBlock, BlockAssumption DEF VoteParts, RestoredOnce, Chained
  <2>2. QED
    BY <1>1, <1>3, <2>1, ChipsStep
<1>5. ASSUME block' # NoBlock, ~validBlock'
      PROVE  /\ block' \in arrived' \ chips'
             /\ \A c \in entries' : c # block' /\ HeightOf[c] <= HeightOf[block']
  <2>1. ~CachePending
    BY <1>5 DEF CachePending, NextIteration
  <2>2. CASE block' = block /\ ~validBlock
    <3>1. /\ block \in arrived \ chips
          /\ \A c \in entries : c # block /\ HeightOf[c] <= HeightOf[block]
      BY <1>5, <2>2 DEF VoteParts, RestoredOnce
    <3>2. QED
      BY <1>3, <2>1, <2>2, <3>1, ChipsStep
  <2>3. CASE Restored(block')
    <3>1. block' \in chips /\ block' \notin chips' /\ block' \in Block
          /\ HeightOf[block'] > HeightOf[LastBlock]
      BY <1>5, <2>3, BlockAssumption DEF Restored, Restorable, TypeOK, TypeLoop, Chained
    <3>2. HeightOf[block'] \in Nat
      BY <3>1, BlockAssumption DEF Chained
    <3>3. block' \in arrived' \ chips'
      BY <1>1, <3>1, ChipsStep
    <3>4. ASSUME NEW c \in entries
          PROVE  c # block' /\ HeightOf[c] <= HeightOf[block']
      BY <1>1, <3>1, <3>2
    <3>5. QED
      BY <1>3, <2>1, <3>3, <3>4
  <2>4. QED
    BY <1>5, <2>2, <2>3, RestoreStep
<1>6. QED
  BY <1>2, <1>4, <1>5 DEF RestoredOnce

\* In SynchronizeState no task commits, so only the loop moves LastBlock there.
LEMMA PendingSplitStep ==
  ASSUME TypeOK, TypeOK', ChainInv, VoteParts, [Next]_vars
  PROVE  PendingSplit'
<1> SUFFICES ASSUME pc' = "Pending"
             PROVE  \A i \in 1 .. Len(otherCommit') : (i <= commitCount') <=>
                      (HeightOf[otherCommit'[i]] <= HeightOf[LastBlock'])
  BY DEF PendingSplit
<1>1. /\ HeightOf[LastBlock] \in Nat /\ otherCommit \in Seq(Block)
      /\ Len(otherCommit) \in Nat /\ commitCount \in 0 .. Len(otherCommit)
      /\ \A i \in 1 .. Len(otherCommit) : HeightOf[otherCommit[i]] \in Nat
  BY BlockAssumption DEF TypeOK, TypePending, TypeChain, LastBlock, Chained
<1>2. PendingInOrder /\ PendingSplit
  BY DEF VoteParts
<1>3. \/ UNCHANGED <<pc, pendVars, chainVars>>
      \/ BeginPending \/ CommitPending
  <2>1. ~Task
    <3>1. Task => pc = "Pending" /\ sync.kind # "idle"
      BY TaskRuns
    <3>2. QED
      BY <3>1 DEF ChainInv, TaskBeside
  <2>2. UNCHANGED <<pc, sync>> \/ BeginPending
    BY <2>1, PendingEntry DEF EndPending
  <2>3. CASE UNCHANGED pc
    <3>1. ~(\/ PendingFails \/ MakeBlock \/ AbandonBlock \/ GetBlock \/ GetCorrupt
            \/ KeepBlock \/ VoteNull \/ VoteNullCorrupt \/ LosePrecommit
            \/ TakePrecommitCorrupt \/ LeavePrecommit \/ SearchBlock
            \/ SearchCorrupt \/ CastCommit \/ CommitTimeout \/ FetchMissing
            \/ CommitVerified \/ CachePending \/ EndPending)
      BY <2>3 DEF PendingFails, MakeBlock, AbandonBlock, GetBlock, GetCorrupt,
         KeepBlock, VoteNull, VoteNullCorrupt, LosePrecommit, TakePrecommitCorrupt,
         LeavePrecommit, SearchBlock, SearchCorrupt, CastCommit, CommitTimeout,
         FetchMissing, CommitVerified, CachePending, EndPending, NextIteration
    <3>2. ~(\/ \E p \in Peer, k \in Key : TakePrecommit(p, k)
            \/ \E p \in Peer, k \in Key :
                 k[2] \in Certifiable \cup {Empty} /\ TakeCommit(p, k))
      BY <2>3 DEF TakePrecommit, TakeCommit
    <3>3. QED
      BY <2>1, <3>1, <3>2 DEF Next, Loop, vars, CoolDown, ChipsArrive
  <2>4. QED
    BY <2>2, <2>3
<1>4. CASE UNCHANGED <<pc, pendVars, chainVars>>
  BY <1>2, <1>4 DEF PendingSplit, LastBlock, pendVars, chainVars
<1>5. CASE BeginPending
  <2>1. /\ UNCHANGED <<chain, otherCommit>> /\ commitCount' \in 0 .. Len(otherCommit)
        /\ \A i \in 1 .. commitCount' : HeightOf[otherCommit[i]] <= HeightOf[LastBlock]
        /\ commitCount' < Len(otherCommit) =>
             HeightOf[otherCommit[commitCount' + 1]] > HeightOf[LastBlock]
    BY <1>5 DEF BeginPending, chainVars
  <2>2. ASSUME NEW i \in 1 .. Len(otherCommit), i > commitCount'
        PROVE  HeightOf[otherCommit[i]] > HeightOf[LastBlock]
    <3> DEFINE n == commitCount' + 1
    <3>1. commitCount' \in Nat /\ i \in Nat /\ commitCount' < i /\ i <= Len(otherCommit)
      BY <1>1, <2>1, <2>2
    <3>2. HeightOf[otherCommit[n]] > HeightOf[LastBlock]
      BY <1>1, <2>1, <3>1
    <3>3. n \in 1 .. Len(otherCommit) /\ HeightOf[otherCommit[n]] > HeightOf[LastBlock]
          /\ (n = i \/ n \in 1 .. i - 1)
      BY <1>1, <3>1, <3>2
    <3>4. n \in 1 .. i - 1 => HeightOf[otherCommit[n]] < HeightOf[otherCommit[i]]
      BY <1>2 DEF PendingInOrder
    <3>5. QED
      BY <1>1, <3>3, <3>4
  <2>3. QED
    BY <1>1, <2>1, <2>2 DEF LastBlock
<1>6. CASE CommitPending
  <2> DEFINE n == commitCount + 1
  <2>1. /\ n \in 1 .. Len(otherCommit) /\ commitCount' = n
        /\ UNCHANGED otherCommit /\ pc = "Pending"
        /\ HeightOf[otherCommit[n]] = HeightOf[LastBlock] + 1
        /\ chain' = Append(chain, otherCommit[n])
    BY <1>1, <1>6 DEF CommitPending, CommitBlock
  <2>2. LastBlock' = otherCommit[n]
    BY <2>1 DEF LastBlock, TypeOK, TypeChain
  <2>3. ASSUME NEW i \in 1 .. Len(otherCommit), i > n
        PROVE  HeightOf[otherCommit[n]] < HeightOf[otherCommit[i]]
    BY <1>1, <1>2, <2>1, <2>3 DEF PendingInOrder
  <2>4. ASSUME NEW i \in 1 .. Len(otherCommit), i < n
        PROVE  HeightOf[otherCommit[i]] <= HeightOf[LastBlock]
    BY <1>1, <1>2, <2>1, <2>4 DEF PendingSplit
  <2>5. QED
    BY <1>1, <2>1, <2>2, <2>3, <2>4
<1>7. QED
  BY <1>3, <1>4, <1>5, <1>6

\* At the end of the pending blocks none is left: the next one after those that
\* are committed would be the successor of LastBlock.
LEMMA EmptiedStep ==
  ASSUME TypeOK, ChainInv, VoteParts, [Next]_vars
  PROVE  Emptied'
<1> SUFFICES ASSUME pc' = "Obtain"
             PROVE  otherCommit' = <<>> /\ sync'.kind = "idle"
  BY DEF Emptied
<1>0. Emptied
  BY DEF VoteParts
<1>1. CASE Task
  BY <1>0, <1>1, TaskRuns DEF Emptied
<1>2. CASE ~Task
  <2>1. UNCHANGED <<pc, sync>> \/ EndPending
    BY <1>2, PendingEntry DEF BeginPending
  <2>2. CASE EndPending
    <3>1. /\ otherCommit \in Seq(Block) /\ commitCount \in 0 .. Len(otherCommit)
          /\ pc = "Pending" /\ sync.kind = "idle" /\ HeightOf[LastBlock] \in Nat
          /\ \A i \in 1 .. Len(otherCommit) : HeightOf[otherCommit[i]] \in Nat
      BY <2>2, BlockAssumption DEF EndPending, TypeOK, TypePending, TypeChain,
         ChainInv, TaskBeside, LastBlock, Chained
    <3>2. commitCount = Len(otherCommit)
      <4> SUFFICES ASSUME commitCount < Len(otherCommit) PROVE FALSE
        BY <3>1
      <4> DEFINE n == commitCount + 1
      <4>1. n \in 1 .. Len(otherCommit) /\ ~(n <= commitCount)
        BY <3>1
      <4>2. HeightOf[otherCommit[n]] # HeightOf[LastBlock] + 1
        BY <2>2 DEF EndPending
      <4>3. /\ HeightOf[otherCommit[n]] <= HeightOf[LastBlock] + 1
            /\ ~(HeightOf[otherCommit[n]] <= HeightOf[LastBlock])
        BY <3>1, <4>1 DEF VoteParts, PendingInOrder, PendingSplit
      <4>4. QED
        BY <3>1, <4>1, <4>2, <4>3
    <3>3. otherCommit' = SubSeq(otherCommit, Len(otherCommit) + 1, Len(otherCommit))
          /\ UNCHANGED sync
      BY <2>2, <3>1, <3>2 DEF EndPending
    <3>4. QED
      BY <3>1, <3>3
  <2>3. CASE UNCHANGED <<pc, sync>>
    <3>1. UNCHANGED otherCommit
      BY <2>3, CacheFrame DEF EndPending, CachePending, NextIteration
    <3>2. QED
      BY <1>0, <2>3, <3>1 DEF Emptied
  <2>4. QED
    BY <2>1, <2>2, <2>3
<1>3. QED
  BY <1>1, <1>2

-----------------------------------------------------------------------------
\* Rivals that are certified stay so.
LEMMA OneCertifiedBefore ==
  ASSUME TypeOK', [Next]_vars, OneCertified'
  PROVE  OneCertified
<1>1. heard \subseteq heard'
  BY FrameStep DEF Quiet, EndPending, CachePending, TakeCommit
<1>2. QED
  BY <1>1, CertifiedStable DEF OneCertified

\* Votes are cast in one place and forgotten at the top of the loop.
LEMMA VoteFrame ==
  ASSUME [Next]_vars
  PROVE  UNCHANGED myCommit \/ NextIteration \/ CastCommit
<1> USE DEF voteVars
<1>1. CASE UNCHANGED vars \/ CoolDown \/ \E b \in Proposed : ChipsArrive(b)
  BY <1>1 DEF vars, CoolDown, ChipsArrive
<1>2. CASE Task
  BY <1>2 DEF Task, TaskVerify, TaskCommit, FetchVerifyOwn, FetchCommitOwn,
     FetchFails, TaskEnd, taskFrame
<1>3. CASE \/ BeginPending \/ CommitPending \/ EndPending \/ AbandonBlock
           \/ LosePrecommit \/ LeavePrecommit \/ FetchMissing
           \/ MakeBlock \/ GetBlock \/ KeepBlock \/ VoteNull \/ SearchBlock
           \/ \E p \in Peer, k \in Key : TakePrecommit(p, k)
  BY <1>3 DEF BeginPending, CommitPending, EndPending, AbandonBlock,
     LosePrecommit, LeavePrecommit, FetchMissing, MakeBlock, GetBlock,
     KeepBlock, VoteNull, SearchBlock, TakePrecommit
<1>4. CASE \/ PendingFails \/ GetCorrupt \/ VoteNullCorrupt \/ CommitTimeout
           \/ TakePrecommitCorrupt \/ SearchCorrupt \/ CommitVerified \/ CachePending
  BY <1>4 DEF PendingFails, GetCorrupt, VoteNullCorrupt, CommitTimeout,
     TakePrecommitCorrupt, SearchCorrupt, CommitVerified, CachePending
<1>5. CASE \E p \in Peer, k \in Key :
             k[2] \in Certifiable \cup {Empty} /\ TakeCommit(p, k)
  BY <1>5 DEF TakeCommit
<1>6. QED
  BY <1>1, <1>2, <1>3, <1>4, <1>5 DEF Next, Loop

\* As long as there are no certified rivals, the parts of the invariant hold.
THEOREM VoteInvCorrect == Spec => []VoteInv
<1>1. Init => VoteInv
  BY DEF Init, VoteInv, VoteParts, NotYetValid, NoTaskBesideVote,
     ValidMeansVerified, PendingInOrder, RestoredOnce, PendingSplit, Emptied
<1>2. TypeOK /\ TypeOK' /\ ChainInv /\ CertificateInv /\ VoteInv /\ [Next]_vars
        => VoteInv'
  <2> SUFFICES ASSUME TypeOK, TypeOK', ChainInv, CertificateInv, VoteInv,
                      [Next]_vars, OneCertified'
               PROVE  VoteParts'
    BY DEF VoteInv
  <2>1. OneCertified /\ VoteParts
    BY OneCertifiedBefore DEF VoteInv
  <2>2. QED
    BY <2>1, NotYetValidStep, NoTaskBesideVoteStep, ValidMeansVerifiedStep,
       PendingInOrderStep, RestoredOnceStep, PendingSplitStep, EmptiedStep
    DEF VoteParts
<1>3. QED
  BY <1>1, <1>2, TypeCorrect, ChainInvCorrect, CertificateCorrect, PTL DEF Spec

\* Without certified rivals SynchronizeState leaves no committed block behind.
THEOREM PendingEmptiedCorrect == Spec => []PendingEmptied
<1>1. VoteInv => PendingEmptied
  BY DEF VoteInv, VoteParts, Emptied, PendingEmptied
<1>2. QED
  BY <1>1, VoteInvCorrect, PTL

\* Without certified rivals every block this node votes to commit verified here,
\* although it may be replaced, sought again or downloaded meanwhile.
THEOREM CommitVoteVerifiedCorrect == Spec => []CommitVoteVerified
<1>1. Init => CommitVoteVerified
  BY DEF Init, CommitVoteVerified, VotedVerified, NoVote
<1>2. TypeOK' /\ VoteInv /\ CommitVoteVerified /\ [Next]_vars => CommitVoteVerified'
  <2> SUFFICES ASSUME TypeOK', VoteInv, CommitVoteVerified, [Next]_vars, OneCertified'
               PROVE  myCommit'[2] \in Valid \cup {Empty}
    BY DEF CommitVoteVerified, VotedVerified
  <2>1. OneCertified /\ myCommit[2] \in Valid \cup {Empty}
    BY OneCertifiedBefore DEF CommitVoteVerified, VotedVerified
  <2>2. CASE UNCHANGED myCommit
    BY <2>1, <2>2
  <2>3. CASE NextIteration
    BY <2>3 DEF NextIteration, NoVote
  <2>4. CASE CastCommit
    BY <2>1, <2>4 DEF CastCommit, VoteInv, VoteParts, ValidMeansVerified
  <2>5. UNCHANGED myCommit \/ NextIteration \/ CastCommit
    BY VoteFrame
  <2>6. QED
    BY <2>2, <2>3, <2>4, <2>5
<1>3. QED
  BY <1>1, <1>2, TypeCorrect, VoteInvCorrect, PTL DEF Spec

\* Without certified rivals the loop commits no block without its state.
THEOREM LoopKeepsStateCorrect == Spec => LoopKeepsState
<1>1. ASSUME TypeOK, TypeOK', ChainInv, VoteInv, [Next]_vars, OneCertified, LoopCommits
      PROVE  lastReady'
  <2>1. CommitPending \/ CommitVerified
    <3>1. chain' # chain /\ ~UNCHANGED <<pc, commitCount>>
      BY <1>1 DEF LoopCommits
    <3>2. ~TaskCommit /\ ~FetchCommitOwn
      BY <3>1 DEF TaskCommit, FetchCommitOwn, taskFrame, pendVars
    <3>3. QED
      BY <1>1, <3>1, <3>2, ChainFrame DEF chainVars
  <2>2. CASE CommitPending
    BY <1>1, <2>2, CommitPendingExtends
  <2>3. CASE CommitVerified
    <3>1. executed
      BY <1>1, <2>3 DEF CommitVerified, TooFar, VoteInv, VoteParts, ValidMeansVerified
    <3>2. QED
      BY <1>1, <2>3, <3>1, CommitVerifiedExtends DEF LoopCommits, Refuses
  <2>4. QED
    BY <2>1, <2>2, <2>3
<1>2. TypeOK /\ TypeOK' /\ ChainInv /\ VoteInv /\ [Next]_vars
        => [OneCertified /\ LoopCommits => lastReady']_vars
  BY <1>1
<1>3. QED
  BY <1>2, TypeCorrect, ChainInvCorrect, VoteInvCorrect, PTL DEF Spec, LoopKeepsState
=============================================================================
