---------------------------- MODULE ProducerLoop ----------------------------
(***************************************************************************)
(* The consensus loop of one block producer: ProducerSystem.StartLoop,     *)
(* with the parts of BlockChainSystem it drives (VerifyExecuteBlock,       *)
(* CommitBlock) and the background synchronizeTask that runs beside it.    *)
(*                                                                         *)
(* The other producers are the environment: a vote may be taken from the   *)
(* ConcurrentBag of votes at any step at which the loop takes one.  A bag  *)
(* has no order and the network no delay bound, so "sent, delivered, put   *)
(* into the bag and taken later" has the same observable effect as         *)
(* "taken now"; the bags themselves need no variable.                      *)
(***************************************************************************)
EXTENDS Integers, Sequences, FiniteSets

CONSTANTS
  Peer,         \* the other producers, whose votes this node counts
  Block,        \* blocks that can be proposed or downloaded
  Genesis,      \* the block every chain starts with
  PrevOf,       \* HashPrevBlock of every block
  HeightOf,     \* Height of every block and of Genesis
  Valid,        \* blocks whose producer, signatures and execution check out
  Mine,         \* blocks this node makes when its turn comes
  Proposed,     \* chip collections that reach this node in full
  Certifiable,  \* blocks for which the other producers cast commit votes
  Accept,       \* Constants.MinProducerVoteAccpetCount
  Miss,         \* maxVoteMissCount = MinProducerCount / 3
  MaxCount,     \* precommit counters saturate here: above both thresholds
                \* no comparison tells the values apart
  NoBlock,      \* null
  Empty,        \* Bytes<Hash256>.Empty, the "no" vote
  Corrupt       \* a chip collection whose restored block has another id

Chained == Block \cup {Genesis}

ASSUME ThresholdAssumption ==
  /\ Accept \in Nat \ {0}
  /\ Miss \in Nat \ {0}
  /\ MaxCount \in Nat /\ MaxCount >= Accept /\ MaxCount >= Miss
  /\ IsFiniteSet(Peer)

ASSUME BlockAssumption ==
  /\ PrevOf \in [Block -> Chained]
  /\ HeightOf \in [Chained -> Nat]
  /\ Genesis \notin Block
  /\ Valid \subseteq Block /\ Mine \subseteq Valid
  /\ Certifiable \subseteq Block /\ Proposed \subseteq Block \cup {Corrupt}
  /\ {NoBlock, Empty, Corrupt} \cap Chained = {}
  /\ \A b \in Valid : HeightOf[b] = HeightOf[PrevOf[b]] + 1

VARIABLES
  pc,               \* label the loop is at
  chain,            \* committed blocks, oldest first; the last is LastBlock
  lastReady,        \* LastBlock.CommitState is not null; a node that lost it
                    \* fails where it next needs the state or the producers
  chips,            \* restorable collections in blockChipCollectionDict
  arrived,          \* blocks whose chips have all been sent to this node
  block,            \* local variable block
  validBlock,       \* local variable validBlock
  executed,         \* block.PrecommitState is not null
  precommitCounter, \* votes counted per (HashPrevBlock, HashVote)
  precommitRecord,  \* precommitAddressRecord
  precommitHash,    \* hash that collected Accept precommits, or Empty
  precommitPrev,    \* precommitPrevHash
  commitHash,       \* commit votes counted for precommitHash
  commitNull,       \* commit votes counted for Empty
  commitRecord,     \* commitAddressRecord
  otherCommit,      \* otherCommitBlocks
  commitCount,      \* local variable commitCount
  cooling,          \* myBlockTimer is running
  sync,             \* synchronizeTask and the state of its code
  myPrecommit,      \* precommit vote last broadcast in this iteration
  myCommit,         \* commit vote last broadcast in this iteration
  heard             \* history: commit votes for a block taken so far

loopVars == <<block, validBlock, executed>>
preVars  == <<precommitCounter, precommitRecord, precommitHash, precommitPrev>>
comVars  == <<commitHash, commitNull, commitRecord>>
pendVars == <<otherCommit, commitCount>>
voteVars == <<myPrecommit, myCommit>>
chainVars == <<chain, lastReady>>
vars == <<pc, chainVars, chips, arrived, loopVars, preVars, comVars, pendVars,
          cooling, sync, voteVars, heard>>

-----------------------------------------------------------------------------
\* (HashPrevBlock, HashVote) of the votes producers cast: every vote, the null
\* vote too, names the predecessor of some proposed block.
Key == {<<PrevOf[b], b>> : b \in Block} \cup {<<PrevOf[b], Empty>> : b \in Block}

NoVote == <<NoBlock, Empty>>

Ballot == (Chained \cup {NoBlock}) \X (Block \cup {Empty})

LastBlock == chain[Len(chain)]

\* Mutant: the link check compares heights only.
LinksByHeight(b) == b \in Block /\ HeightOf[b] = HeightOf[LastBlock] + 1

\* The link check at the top of VerifyExecuteBlock.
Links(b) == b \in Block /\ PrevOf[b] = LastBlock
                        /\ HeightOf[b] = HeightOf[LastBlock] + 1

\* VerifyExecuteBlock(b) returns instead of throwing InvalidBlockException.
VerifyExecuteBlock(b) == Links(b) /\ b \in Valid

\* BlockChainSystem.CommitBlock(b) returns: it compares the heights only.
CommitAllowed(b) == HeightOf[b] = HeightOf[LastBlock] + 1

\* BlockChainSystem.CommitBlock(b); ready tells whether PrecommitState is set.
CommitBlock(b, ready) == chain' = Append(chain, b) /\ lastReady' = ready

\* CommitBlock(b) throws, with PrecommitState already moved to CommitState: if
\* b is the very object that is LastBlock (an equal block may be another one)
\* and has no PrecommitState any more, the state of LastBlock is gone.
RefuseBlock(b, ready) ==
  /\ lastReady' \in {lastReady} \cup (IF b = LastBlock /\ ~ready THEN {FALSE} ELSE {})
  /\ UNCHANGED chain

\* TryGetBlock: collections of blocks that are not above LastBlock are dropped
\* on the way to the first that is, which is returned and dropped as well.
Restorable == {b \in chips : b = Corrupt \/ HeightOf[b] > HeightOf[LastBlock]}

TryGetBlock(b) ==
  /\ b \in (IF Restorable = {} THEN {NoBlock} ELSE Restorable)
  /\ chips' = Restorable \ {b}

\* The top of the while loop, reached by continue, by the catch-all handler and
\* at the end of an iteration.  The locals of the iteration end with it (the
\* two address records live on, and are cleared before they are next read); a
\* running fetch task keeps the variable block of the iteration it began in.
NextIteration ==
  /\ pc' = "Synchronize"
  /\ block' = NoBlock /\ validBlock' = FALSE /\ executed' = FALSE
  /\ precommitCounter' = [k \in Key |-> 0] /\ precommitRecord' = {}
  /\ precommitHash' = Empty /\ precommitPrev' = Genesis
  /\ commitHash' = 0 /\ commitNull' = 0 /\ commitRecord' = {}
  /\ myPrecommit' = NoVote /\ myCommit' = NoVote
  /\ sync' = IF sync.kind = "fetch" /\ sync.live
               THEN [sync EXCEPT !.live = FALSE, !.own = block]
               ELSE sync

\* From the end of SynchronizeState into PrecommitState.
EnterPrecommit ==
  /\ pc' = "Precommit"
  /\ commitHash' = 0 /\ commitNull' = 0
  /\ precommitRecord' = {} /\ commitRecord' = {}
  /\ precommitHash' = Empty
  /\ UNCHANGED <<precommitCounter, precommitPrev>>

Idle == [kind |-> "idle", stage |-> "get", blk |-> NoBlock,
         live |-> FALSE, own |-> NoBlock]

StartTask(kind) == [Idle EXCEPT !.kind = kind]

-----------------------------------------------------------------------------
Init ==
  /\ pc = "Synchronize"
  /\ chain = <<Genesis>> /\ lastReady = TRUE
  /\ chips = {} /\ arrived = {}
  /\ block = NoBlock /\ validBlock = FALSE /\ executed = FALSE
  /\ precommitCounter = [k \in Key |-> 0] /\ precommitRecord = {}
  /\ precommitHash = Empty /\ precommitPrev = Genesis
  /\ commitHash = 0 /\ commitNull = 0 /\ commitRecord = {}
  /\ otherCommit = <<>> /\ commitCount = 0
  /\ cooling = FALSE
  /\ sync = Idle
  /\ myPrecommit = NoVote /\ myCommit = NoVote
  /\ heard = {}

-----------------------------------------------------------------------------
(* SynchronizeState *)

\* Mutant: one pending block too many is skipped.
BeginPendingOneTooFar ==
  /\ pc = "Synchronize" /\ sync.kind = "idle" /\ lastReady
  /\ pc' = "Pending"
  /\ commitCount' = Cardinality({i \in 1 .. Len(otherCommit) :
                       HeightOf[otherCommit[i]] <= HeightOf[LastBlock]}) + 1
  /\ UNCHANGED <<chainVars, chips, arrived, loopVars, preVars, comVars,
                 otherCommit, cooling, sync, voteVars, heard>>

\* No task is running: skip the pending blocks that are already committed.
BeginPending ==
  /\ pc = "Synchronize" /\ sync.kind = "idle" /\ lastReady
  /\ pc' = "Pending"
  /\ \E n \in 0 .. Len(otherCommit) :
       /\ \A i \in 1 .. n : HeightOf[otherCommit[i]] <= HeightOf[LastBlock]
       /\ n < Len(otherCommit) =>
            HeightOf[otherCommit[n + 1]] > HeightOf[LastBlock]
       /\ commitCount' = n
  /\ UNCHANGED <<chainVars, chips, arrived, loopVars, preVars, comVars,
                 otherCommit, cooling, sync, voteVars, heard>>

\* The pending block is the next one: verify it and commit it.
CommitPending ==
  /\ pc = "Pending" /\ commitCount < Len(otherCommit)
  /\ LET b == otherCommit[commitCount + 1] IN
       /\ HeightOf[b] = HeightOf[LastBlock] + 1
       /\ VerifyExecuteBlock(b)
       /\ CommitBlock(b, TRUE)
  /\ commitCount' = commitCount + 1
  /\ UNCHANGED <<pc, chips, arrived, loopVars, preVars, comVars, otherCommit,
                 cooling, sync, voteVars, heard>>

\* It does not verify: the exception reaches the catch-all handler and the
\* list keeps every entry.
PendingFails ==
  /\ pc = "Pending" /\ commitCount < Len(otherCommit)
  /\ LET b == otherCommit[commitCount + 1] IN
       /\ HeightOf[b] = HeightOf[LastBlock] + 1
       /\ ~VerifyExecuteBlock(b)
  /\ NextIteration
  /\ UNCHANGED <<chainVars, chips, arrived, pendVars, cooling, heard>>

\* Mutant: the processed entries are not removed from the list.
EndPendingKeepsAll ==
  /\ pc = "Pending" /\ commitCount = Len(otherCommit)
  /\ commitCount' = 0 /\ pc' = "Obtain"
  /\ UNCHANGED <<chainVars, chips, arrived, loopVars, preVars, comVars, sync,
                 otherCommit, cooling, voteVars, heard>>

\* The end of the list, or an entry at another height: download, go on.
EndPending ==
  /\ pc = "Pending"
  /\ \/ commitCount = Len(otherCommit) /\ UNCHANGED sync
     \/ /\ commitCount < Len(otherCommit)
        /\ HeightOf[otherCommit[commitCount + 1]] # HeightOf[LastBlock] + 1
        /\ sync' = StartTask("download")
  /\ otherCommit' = SubSeq(otherCommit, commitCount + 1, Len(otherCommit))
  /\ commitCount' = 0
  /\ pc' = "Obtain"
  /\ UNCHANGED <<chainVars, chips, arrived, loopVars, preVars, comVars,
                 cooling, voteVars, heard>>

\* TryMakeBlock returns a block and enough producers are online to restore it.
MakeBlock ==
  /\ pc = "Obtain" /\ block = NoBlock /\ ~cooling
  /\ \E b \in Mine : Links(b) /\ block' = b
  /\ validBlock' = TRUE /\ executed' = TRUE /\ cooling' = TRUE
  /\ EnterPrecommit
  /\ UNCHANGED <<chainVars, chips, arrived, pendVars, sync, voteVars, heard>>

\* Too few are online: the block is abandoned, its cooling-off has started.
AbandonBlock ==
  /\ pc = "Obtain" /\ block = NoBlock /\ ~cooling
  /\ \E b \in Mine : Links(b)
  /\ cooling' = TRUE
  /\ sync' = StartTask("connect")
  /\ pc' = "Synchronize"
  /\ UNCHANGED <<chainVars, chips, arrived, loopVars, preVars, comVars,
                 pendVars, voteVars, heard>>

\* The precommit vote of a block that was just verified.
Precommit(b, hash) == myPrecommit' = <<PrevOf[b], hash>>

\* Mutant: validBlock is not reset for the restored block.
GetBlockStillValid ==
  /\ pc = "Obtain" /\ block = NoBlock
  /\ \E b \in Block \cup {NoBlock} :
       /\ TryGetBlock(b)
       /\ block' = b
       /\ validBlock' = (validBlock \/ VerifyExecuteBlock(b))
       /\ executed' = Links(b)
  /\ EnterPrecommit
  /\ UNCHANGED <<chainVars, arrived, pendVars, cooling, sync, voteVars, heard>>

\* Mutant: a block that verifies is left without a PrecommitState.
GetBlockNotExecuted ==
  /\ pc = "Obtain" /\ block = NoBlock
  /\ \E b \in Block \cup {NoBlock} :
       /\ TryGetBlock(b)
       /\ block' = b /\ validBlock' = VerifyExecuteBlock(b) /\ executed' = FALSE
  /\ EnterPrecommit
  /\ UNCHANGED <<chainVars, arrived, pendVars, cooling, sync, voteVars, heard>>

\* Not this node's turn: restore a block, verify it, vote.
GetBlock ==
  /\ pc = "Obtain" /\ block = NoBlock
  /\ \E b \in Block \cup {NoBlock} :
       /\ TryGetBlock(b)
       /\ block' = b
       /\ validBlock' = VerifyExecuteBlock(b)
       /\ executed' = Links(b)
       /\ IF b = NoBlock THEN UNCHANGED myPrecommit
          ELSE Precommit(b, IF VerifyExecuteBlock(b) THEN b ELSE Empty)
  /\ EnterPrecommit
  /\ UNCHANGED <<chainVars, arrived, pendVars, cooling, sync, myCommit, heard>>

\* The collection restores to a block with another id: RestoreAsync throws.
GetCorrupt ==
  /\ pc = "Obtain" /\ block = NoBlock
  /\ TryGetBlock(Corrupt)
  /\ NextIteration
  /\ UNCHANGED <<chainVars, arrived, pendVars, cooling, heard>>

\* The loop came back from CommitBlock with a block in hand.
KeepBlock ==
  /\ pc = "Obtain" /\ block # NoBlock
  /\ IF validBlock THEN UNCHANGED <<validBlock, executed, myPrecommit>>
     ELSE /\ validBlock' = VerifyExecuteBlock(block)
          /\ executed' = (executed \/ Links(block))
          /\ Precommit(block, IF VerifyExecuteBlock(block) THEN block ELSE Empty)
  /\ EnterPrecommit
  /\ UNCHANGED <<chainVars, chips, arrived, block, pendVars, cooling, sync,
                 myCommit, heard>>

\* A task is running: every block is voted down unverified.
VoteNull ==
  /\ pc = "Synchronize" /\ sync.kind # "idle" /\ lastReady
  /\ IF block # NoBlock THEN UNCHANGED <<chips, loopVars>>
     ELSE \E b \in Block \cup {NoBlock} :
            /\ TryGetBlock(b)
            /\ block' = b /\ validBlock' = FALSE /\ executed' = FALSE
  /\ IF block' = NoBlock THEN UNCHANGED myPrecommit
     ELSE Precommit(block', Empty)
  /\ EnterPrecommit
  /\ UNCHANGED <<chainVars, arrived, pendVars, cooling, sync, myCommit, heard>>

\* As GetCorrupt, while a task is running.
VoteNullCorrupt ==
  /\ pc = "Synchronize" /\ sync.kind # "idle" /\ block = NoBlock
  /\ TryGetBlock(Corrupt)
  /\ NextIteration
  /\ UNCHANGED <<chainVars, arrived, pendVars, cooling, heard>>

-----------------------------------------------------------------------------
(* PrecommitState *)

\* Count one vote of the current pass for key k; a full count leads on.
CountPrecommit(p, k) ==
  IF <<p, k[1]>> \in precommitRecord
    THEN UNCHANGED <<pc, preVars>>
    ELSE LET count == IF precommitCounter[k] < MaxCount
                        THEN precommitCounter[k] + 1 ELSE MaxCount
             full  == count >= (IF k[2] = Empty THEN Miss ELSE Accept)
         IN  /\ precommitRecord' = precommitRecord \cup {<<p, k[1]>>}
             /\ precommitCounter' = [precommitCounter EXCEPT ![k] = count]
             /\ pc' = IF full THEN "Commit" ELSE pc
             /\ precommitPrev' = IF full THEN k[1] ELSE precommitPrev
             /\ precommitHash' = IF full THEN k[2] ELSE precommitHash

\* A precommit vote is taken from the bag.
TakePrecommit(p, k) ==
  /\ pc = "Precommit"
  /\ IF block # NoBlock
       THEN UNCHANGED <<chips, block, executed>>
       ELSE \E b \in Block : /\ TryGetBlock(b)
                             /\ block' = b /\ executed' = FALSE
  /\ CountPrecommit(p, k)
  /\ UNCHANGED <<chainVars, arrived, validBlock, comVars, pendVars, cooling,
                 sync, voteVars, heard>>

\* A vote is taken while no block can be restored: the vote is lost.
LosePrecommit ==
  /\ pc = "Precommit" /\ block = NoBlock
  /\ TryGetBlock(NoBlock)
  /\ pc' = "Synchronize"
  /\ UNCHANGED <<chainVars, arrived, loopVars, preVars, comVars, pendVars,
                 cooling, sync, voteVars, heard>>

\* A vote is taken and the collection restores to a block with another id.
TakePrecommitCorrupt ==
  /\ pc = "Precommit" /\ block = NoBlock
  /\ TryGetBlock(Corrupt)
  /\ NextIteration
  /\ UNCHANGED <<chainVars, arrived, pendVars, cooling, heard>>

\* The bag is empty: give up a block that is 800 ms old, look for another.
LeavePrecommit ==
  /\ pc = "Precommit"
  /\ block' = NoBlock /\ executed' = FALSE
  /\ pc' = "Synchronize"
  /\ UNCHANGED <<chainVars, chips, arrived, validBlock, preVars, comVars,
                 pendVars, cooling, sync, voteVars, heard>>

-----------------------------------------------------------------------------
(* CommitState *)

Searching == precommitHash # Empty /\ block # NoBlock /\ block # precommitHash

\* Mutant: the search does not stop when nothing more can be restored.
SearchBlockForever ==
  /\ pc = "Commit" /\ Searching
  /\ \/ Restorable = {} /\ UNCHANGED vars
     \/ \E b \in Block :
          /\ TryGetBlock(b)
          /\ block' = b /\ executed' = FALSE
          /\ UNCHANGED <<pc, chainVars, arrived, validBlock, preVars, comVars,
                         pendVars, cooling, sync, voteVars, heard>>

\* Look for the block that collected the precommits.  It is verified only when
\* no task is running; validBlock keeps its value otherwise.
SearchBlock ==
  /\ pc = "Commit" /\ Searching
  /\ \E b \in Block \cup {NoBlock} :
       /\ TryGetBlock(b)
       /\ IF b = precommitHash /\ sync.kind = "idle"
            THEN IF VerifyExecuteBlock(b)
                   THEN block' = b /\ validBlock' = TRUE /\ executed' = TRUE
                   ELSE block' = NoBlock /\ executed' = FALSE
                        /\ UNCHANGED validBlock
            ELSE block' = b /\ executed' = FALSE /\ UNCHANGED validBlock
  /\ UNCHANGED <<pc, chainVars, arrived, preVars, comVars, pendVars, cooling,
                 sync, voteVars, heard>>

\* As GetCorrupt, while searching.
SearchCorrupt ==
  /\ pc = "Commit" /\ Searching
  /\ TryGetBlock(Corrupt)
  /\ NextIteration
  /\ UNCHANGED <<chainVars, arrived, pendVars, cooling, heard>>

\* Broadcast the commit vote.
CastCommit ==
  /\ pc = "Commit" /\ ~Searching /\ lastReady
  /\ myCommit' = IF block # NoBlock /\ validBlock THEN <<PrevOf[block], block>>
                                                  ELSE <<precommitPrev, Empty>>
  /\ pc' = "Collect"
  /\ UNCHANGED <<chainVars, chips, arrived, loopVars, preVars, comVars,
                 pendVars, cooling, sync, myPrecommit, heard>>

\* Mutant: votes for every block count, not only those for precommitHash.
TakeCommitForAny(p, k) ==
  /\ pc = "Collect" /\ k[1] = precommitPrev /\ p \notin commitRecord
  /\ k[2] # Empty
  /\ heard' = heard \cup {<<p, k[2]>>}
  /\ commitHash' = commitHash + 1 /\ commitRecord' = commitRecord \cup {p}
  /\ pc' = IF commitHash' >= Accept THEN "CommitBlock" ELSE pc
  /\ UNCHANGED <<commitNull, loopVars, preVars, sync, voteVars, chainVars,
                 chips, arrived, pendVars, cooling>>

\* A commit vote is taken from the bag.  Votes on another predecessor are
\* dropped; a vote for another hash still uses up the voter's turn.
TakeCommit(p, k) ==
  /\ pc = "Collect"
  /\ k[1] = precommitPrev /\ p \notin commitRecord
  /\ heard' = IF k[2] = Empty THEN heard ELSE heard \cup {<<p, k[2]>>}
  /\ LET nulls  == commitNull + (IF k[2] = Empty THEN 1 ELSE 0)
         hashes == commitHash +
                     (IF k[2] # Empty /\ k[2] = precommitHash THEN 1 ELSE 0)
     IN  \/ nulls >= Accept /\ NextIteration
         \/ /\ nulls < Accept
            /\ pc' = IF hashes >= Accept THEN "CommitBlock" ELSE pc
            /\ commitNull' = nulls /\ commitHash' = hashes
            /\ commitRecord' = commitRecord \cup {p}
            /\ UNCHANGED <<loopVars, preVars, sync, voteVars>>
  /\ UNCHANGED <<chainVars, chips, arrived, pendVars, cooling>>

\* Mutant: when the votes do not come a valid block is committed all the same.
CommitTimeoutCommits ==
  /\ pc = "Collect"
  /\ IF validBlock /\ block # NoBlock /\ CommitAllowed(block)
       THEN CommitBlock(block, executed) ELSE UNCHANGED chainVars
  /\ NextIteration
  /\ UNCHANGED <<chips, arrived, pendVars, cooling, heard>>

\* 800 ms are over.
CommitTimeout ==
  /\ pc = "Collect"
  /\ NextIteration
  /\ UNCHANGED <<chainVars, chips, arrived, pendVars, cooling, heard>>

-----------------------------------------------------------------------------
(* CommitBlock *)

TooFar == block # NoBlock => HeightOf[block] >= HeightOf[LastBlock] + 2

\* The producers committed a block this node misses: download, unless a task
\* is running already.  The fetch task captures the variable block itself.
FetchMissing ==
  /\ pc = "CommitBlock" /\ TooFar
  /\ sync' = IF sync.kind # "idle" THEN sync
             ELSE IF block # NoBlock /\ HeightOf[block] = HeightOf[LastBlock] + 2
                    THEN [StartTask("fetch") EXCEPT !.live = TRUE]
                    ELSE StartTask("download")
  /\ pc' = "Synchronize"
  /\ UNCHANGED <<chainVars, chips, arrived, loopVars, preVars, comVars,
                 pendVars, cooling, voteVars, heard>>

\* Commit the verified block; the height check may still throw.
CommitVerified ==
  /\ pc = "CommitBlock" /\ ~TooFar /\ validBlock
  /\ cooling' = FALSE
  /\ IF CommitAllowed(block) THEN CommitBlock(block, executed)
                             ELSE RefuseBlock(block, executed)
  /\ NextIteration
  /\ UNCHANGED <<chips, arrived, pendVars, heard>>

\* Keep a committed block that was not verified for the next SynchronizeState.
CachePending ==
  /\ pc = "CommitBlock" /\ ~TooFar /\ ~validBlock
  /\ otherCommit' = Append(otherCommit, block)
  /\ NextIteration
  /\ UNCHANGED <<chainVars, chips, arrived, commitCount, cooling, heard>>

-----------------------------------------------------------------------------
(* synchronizeTask, on a thread-pool thread beside the loop *)

taskFrame == <<pc, chips, arrived, preVars, comVars, pendVars, cooling,
               voteVars, heard>>

\* A downloaded block verifies against LastBlock.
TaskVerify ==
  /\ sync.kind \in {"fetch", "download"} /\ sync.stage = "get" /\ lastReady
  /\ \E b \in Block : VerifyExecuteBlock(b)
                      /\ sync' = [sync EXCEPT !.stage = "got", !.blk = b]
  /\ UNCHANGED <<chainVars, loopVars, taskFrame>>

\* It is committed if LastBlock is still its predecessor in height.
TaskCommit ==
  /\ sync.stage = "got"
  /\ IF CommitAllowed(sync.blk)
       THEN CommitBlock(sync.blk, TRUE)
            /\ sync' = [sync EXCEPT !.blk = NoBlock, !.stage =
                          IF sync.kind = "fetch" THEN "own" ELSE "get"]
       ELSE UNCHANGED chainVars
            /\ sync' = [sync EXCEPT !.blk = NoBlock, !.stage = "get"]
  /\ UNCHANGED <<loopVars, taskFrame>>

\* The variable block as the fetch task reads it.
Captured == IF sync.live THEN block ELSE sync.own

\* The fetch task verifies the variable block ...
FetchVerifyOwn ==
  /\ sync.stage = "own" /\ lastReady
  /\ IF VerifyExecuteBlock(Captured)
       THEN sync' = [sync EXCEPT !.stage = "ownVerified", !.blk = Captured]
       ELSE sync' = [sync EXCEPT !.stage = "get"]
  /\ executed' = (executed \/ (sync.live /\ Links(block)))
  /\ UNCHANGED <<chainVars, block, validBlock, taskFrame>>

\* ... and commits what the variable holds by then.
FetchCommitOwn ==
  /\ sync.stage = "ownVerified"
  /\ IF Captured # NoBlock /\ CommitAllowed(Captured)
       THEN CommitBlock(Captured, Captured = sync.blk) /\ sync' = Idle
       ELSE RefuseBlock(Captured, FALSE)
            /\ sync' = [sync EXCEPT !.stage = "get", !.blk = NoBlock]
  /\ executed' = (executed /\ ~sync.live)
  /\ UNCHANGED <<block, validBlock, taskFrame>>

\* No endpoint served the block: the continuation starts a download.
FetchFails ==
  /\ sync.kind = "fetch" /\ sync.stage = "get"
  /\ sync' = StartTask("download")
  /\ UNCHANGED <<chainVars, loopVars, taskFrame>>

\* A download or a round of connection attempts ends.
TaskEnd ==
  /\ sync.kind \in {"connect", "download"} /\ sync.stage = "get"
  /\ sync' = Idle
  /\ UNCHANGED <<chainVars, loopVars, taskFrame>>

-----------------------------------------------------------------------------
(* Environment *)

\* The last missing chip of a block arrives.
ChipsArrive(b) ==
  /\ b \notin arrived
  /\ arrived' = arrived \cup {b} /\ chips' = chips \cup {b}
  /\ UNCHANGED <<pc, chainVars, loopVars, preVars, comVars, pendVars, cooling,
                 sync, voteVars, heard>>

\* The cooling-off period of this node's last block ends.
CoolDown ==
  /\ cooling /\ cooling' = FALSE
  /\ UNCHANGED <<pc, chainVars, chips, arrived, loopVars, preVars, comVars,
                 pendVars, sync, voteVars, heard>>

Loop ==
  \/ BeginPending \/ CommitPending \/ PendingFails \/ EndPending
  \/ MakeBlock \/ AbandonBlock \/ GetBlock \/ GetCorrupt \/ KeepBlock
  \/ VoteNull \/ VoteNullCorrupt
  \/ LosePrecommit \/ TakePrecommitCorrupt \/ LeavePrecommit
  \/ \E p \in Peer, k \in Key : TakePrecommit(p, k)
  \/ SearchBlock \/ SearchCorrupt \/ CastCommit \/ CommitTimeout
  \/ \E p \in Peer, k \in Key :
        k[2] \in Certifiable \cup {Empty} /\ TakeCommit(p, k)
  \/ FetchMissing \/ CommitVerified \/ CachePending

Task == TaskVerify \/ TaskCommit \/ FetchVerifyOwn \/ FetchCommitOwn
        \/ FetchFails \/ TaskEnd

Next ==
  \/ Loop
  \/ Task
  \/ \E b \in Proposed : ChipsArrive(b)
  \/ CoolDown

Spec == Init /\ [][Next]_vars

\* The loop yields to the scheduler but never stops by itself, and a task ends:
\* every request it makes has a timeout and it makes finitely many.
FairSpec == Spec /\ WF_vars(Loop) /\ WF_vars(Task)

-----------------------------------------------------------------------------
(* Properties *)

SyncType ==
  [kind  : {"idle", "connect", "fetch", "download"},
   stage : {"get", "got", "own", "ownVerified"},
   blk   : Block \cup {NoBlock}, live : BOOLEAN, own : Block \cup {NoBlock}]

TypeLoop ==
  /\ pc \in {"Synchronize", "Pending", "Obtain", "Precommit", "Commit",
             "Collect", "CommitBlock"}
  /\ block \in Block \cup {NoBlock}
  /\ validBlock \in BOOLEAN /\ executed \in BOOLEAN /\ cooling \in BOOLEAN

TypeChain == chain \in Seq(Chained) /\ Len(chain) > 0 /\ lastReady \in BOOLEAN

TypeChips == chips \subseteq Block \cup {Corrupt} /\ arrived \subseteq Proposed

TypePrecommit ==
  /\ precommitCounter \in [Key -> 0 .. MaxCount]
  /\ precommitRecord \subseteq Peer \X Chained
  /\ precommitHash \in Block \cup {Empty} /\ precommitPrev \in Chained

TypeCommit == commitHash \in Nat /\ commitNull \in Nat /\ commitRecord \subseteq Peer

TypePending == otherCommit \in Seq(Block) /\ commitCount \in 0 .. Len(otherCommit)

TypeVotes ==
  /\ myPrecommit \in Ballot /\ myCommit \in Ballot
  /\ heard \subseteq Peer \X Block

TypeSync ==
  /\ sync \in SyncType
  /\ sync.stage \in {"got", "ownVerified"} => sync.blk \in Block

\* Every variable of the loop keeps the type its C# declaration gives it.
TypeOK ==
  /\ TypeLoop /\ TypeChain /\ TypeChips /\ TypePrecommit /\ TypeCommit
  /\ TypePending /\ TypeVotes /\ TypeSync

\* The producers this node heard cast a commit vote for b.
Voters(b) == {p \in Peer : <<p, b>> \in heard}

Certified(b) == Cardinality(Voters(b)) >= Accept

\* A step of the loop, not of synchronizeTask, that appends to the chain.
LoopCommits == chain' # chain /\ <<pc, commitCount>>' # <<pc, commitCount>>

\* Whatever block the loop itself commits - at once in CommitBlock, or later
\* from otherCommitBlocks - is one that Accept different producers voted to
\* commit: the block in hand is the one the counted votes were for, although
\* it may be replaced between the precommit count and the commit count.
CommitCertified == [][LoopCommits => Certified(LastBlock')]_vars

\* What makes CommitCertified inductive: cached blocks are certified; while
\* commit votes are counted, no voter is counted twice and the block in hand, if
\* any, is the one that collected the precommits; a full count leads to
\* CommitBlock.
CertificateInv ==
  /\ \A i \in 1 .. Len(otherCommit) : Certified(otherCommit[i])
  /\ pc \in {"Precommit", "Commit"} => commitHash = 0
  /\ pc \in {"Collect", "CommitBlock"} =>
       /\ commitHash <= Cardinality(commitRecord \cap Voters(precommitHash))
       /\ block # NoBlock /\ precommitHash # Empty => block = precommitHash
  /\ pc = "CommitBlock" => commitHash >= Accept

\* Every committed block names its predecessor in the chain, although
\* BlockChainSystem.CommitBlock compares heights only and the loop and
\* synchronizeTask commit concurrently - unless a block was committed without
\* its state, which leaves the node without the state of its last block.
Linked == \A i \in 1 .. Len(chain) - 1 : PrevOf[chain[i + 1]] = chain[i]
ChainLinked == lastReady => Linked

C == INSTANCE Chain WITH ready <- lastReady

\* Each step of the loop, of the task and of their environment extends the
\* chain as module Chain allows, or not at all.
IsChain == C!Spec

\* No two blocks of one height have the commit votes of a majority: what the
\* consensus is there for, and what this node cannot bring about alone.
OneCertified ==
  \A b, c \in Block :
    Certified(b) /\ Certified(c) /\ HeightOf[b] = HeightOf[c] => b = c

\* CommitBlock is only reached with the state VerifyExecuteBlock computed
\* (Debug.Assert(block.PrecommitState is { }) in BlockChainSystem.CommitBlock).
StateReady == lastReady

\* The loop commits no block without its state, as long as there are no
\* certified rivals.
LoopKeepsState == [][OneCertified /\ LoopCommits => lastReady']_vars

\* The block a commit vote names verified on this node: validBlock never
\* outlives the block it was set for - as long as there are no certified rivals.
VotedVerified == myCommit[2] \in Valid \cup {Empty}
CommitVoteVerified == OneCertified => VotedVerified

\* Past SynchronizeState with no task running, no committed block is left in
\* otherCommitBlocks, so no download is started there and no vote for a block
\* is cast beside one - as long as there are no certified rivals.
PendingEmptied ==
  OneCertified /\ pc = "Obtain" => otherCommit = <<>> /\ sync.kind = "idle"

\* The loop always comes back to SynchronizeState: no wait inside it (for a
\* block, for precommits, for commit votes) lasts for ever.
LoopReturns == []<>(pc = "Synchronize")

\* The loop is about to verify a cached block that is the next one, and will
\* not accept it.  The exception skips otherCommitBlocks.RemoveRange.
PendingRejected ==
  /\ pc = "Pending" /\ commitCount < Len(otherCommit)
  /\ HeightOf[otherCommit[commitCount + 1]] = HeightOf[LastBlock] + 1
  /\ ~VerifyExecuteBlock(otherCommit[commitCount + 1])

\* If the loop keeps meeting moments at which no task is running, the committed
\* blocks that were cached unverified do not stay cached: the list is emptied
\* again and again, unless the other producers committed a block that does not
\* verify here.  That one stays, and the loop comes back to it for ever.
PendingDrains ==
  []<>(pc = "Synchronize" /\ sync.kind = "idle") =>
    []<>(otherCommit = <<>>) \/ []<>PendingRejected
=============================================================================
