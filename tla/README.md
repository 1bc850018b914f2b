# A verification development for OCSystem 2.0

TLA+ modules, model-checking configurations and machine-checked proofs for the
block chain node in `src/OnlyChain` (C#) and for the native libraries it is built
on: the storage engine (`src/leveldb-1.22`), the EVM (`src/evmone`), the curve
(`src/secp256k1_math`) and the erasure code (`src/erasure_coding`), all kept in
the repository. Line numbers refer to this commit.
`PROJECT.json` maps every definition to the lines it translates.

## 1. The system

OCSystem is a BFT-DPoS block chain. Holders of coins vote for campaign nodes;
the first `MinProducerCount` = 21 of them make blocks in turn, one every two
seconds. A block is cut into erasure-coded chips, each producer forwards its
chip, and a producer that holds enough chips restores the block. A block is
committed after two votes (precommit, commit) of `MinProducerVoteAccpetCount`
= 15 producers each. Everybody else downloads committed blocks or restores
them from chips.

| Component | State | Operations | Talks to |
|---|---|---|---|
| Producer loop, `Core/ProducerSystem.cs` `StartLoop` | locals of the loop (`block`, `validBlock`, counters, `otherCommitBlocks`), `synchronizeTask`, two bags of votes, chip collections, `nextRoundBlockState`, `myBlockTimer` | states Synchronize, Precommit, Commit, CommitBlock; `TryMakeBlock`, `TryGetBlock`, `SuperBroadcast`; handlers of chips and votes | all other producers by TCP; `BlockChainSystem` by calls |
| Block chain, `Core/BlockChainSystem.cs` | `LastBlock`, world state and campaign record in each block's `BlockState` | `VerifyExecuteBlock`, `CommitBlock`, `ExecuteTransaction`, `StatisticsCampaignNodes`, `BuildGenesisBlock`, download, `LoopReadBlock` | the loop, the database, endpoints |
| World state, `Core/UserState.cs`, `MerklePatriciaTree.cs` | an account per address: balance, nonce, pledges, votes received, locks | read, write, hash, generations | transactions |
| Election, `Core/BlockState.cs`, `Block.cs`, `SortedCampaignNodeArray.cs` | three rankings `CampaignNodeRecord` | count at the start of a big round, slots of the leaders | loop, verification, votes |
| Chips, `Core/BlockChip*.cs`, `LimitedTimeDictionary.cs` | collections of chips per block, with an expiry time | add from several connections, restore | loop, non-producing nodes |
| Transaction pool, `Core/TransactionPool.cs` | a queue per account, accounts ordered by gas price | push, pop, remove | `TryMakeBlock`, network |
| Synchronisation of non-producing nodes, `BlockChainSystem.cs` 84-182 | channel of restored blocks, one replaceable download task | restart, `PutBlockFromNetwork`, `LoopReadBlock`, download | database, network |
| Database, `Core/BlockChainDatabase.cs`, `Database/` | blocks, transactions by address, hash tables | put a block, read ranges | LevelDB |
| Node table and requests, `Network/KBucket.cs`, `UdpServer.cs`, `P2P.cs` | buckets of nodes, list of pending requests | add and replace nodes, request with retry, look up, broadcast | UDP |
| LevelDB, `leveldb-1.22/db`, `table`, `util` | files of a directory: logs, tables, manifests, CURRENT; memory tables, versions, snapshots, caches | write, get, iterate, flush, compact, recover; log and table formats | the database wrappers, the operating system |
| EVM, `evmone/*.cpp`, `include/intx` | per call: gas, stack, memory, analysed code | analyse, execute | the host, which is the transaction under execution |
| Curve, `secp256k1_math`; erasure code, `erasure_coding` | none | arithmetic modulo two primes, sums of points; encode and decode bytes | signatures; chips |
| Clock, wire formats, start-up | — | — | all |

### What is hard here

* **One loop, several threads.** The loop, `synchronizeTask`, timers and TCP
  handlers share `LastBlock`, the chip dictionary and even *local variables of
  the loop* (lines 589-604 capture `block`). Nothing takes a lock around
  verify-then-commit; `CommitBlock` compares heights only.
* **Votes without rounds.** Votes sit in bags across iterations, out of order,
  and name a predecessor and a hash, no attempt. A producer forgets what it
  voted for when an attempt times out.
* **Copies written back.** `ExecuteTransaction` copies sender and producer at
  the start and writes them back at the end, over anything written between.
* **Failure half way.** Exceptions leave transactions, block objects and lists
  partly changed.
* **Caches that outlive their block**: the counted record of the next round,
  blocks verified before a download, comparers that hold an old world state.
* **Machines that stop.** LevelDB acknowledges a write when it is in the log, or in
  the log and synchronised; a stop can come between any two changes of its files,
  and a flush runs inside a compaction while readers hold old versions.
* **Readers without locks**: the skip list is read while it is written, tables are
  read while the cache evicts them, chips arrive while a block is restored.
* **Checks made for a whole block of instructions at once**, and corrected where an
  instruction looks at the gas in between.
* **Corrections that almost never happen**: the second correction of a guessed
  digit, the second carry of a reduction, a pivot that is zero.

What makes each part correct: the loop commits only what a majority voted for,
on a linked chain, with a computed state, and never hangs; rivals are not both
committed; a transaction neither creates nor loses coins and an honest block
verifies everywhere; votes received equal coins pledged; nobody makes two
blocks in a round, turns follow the ranking, and somebody can always go on;
the database gives back what was acknowledged, whole and in order, and always
opens again; a contract ends, with the result of its instructions one by one; and
what is computed word by word is what the integers, the curve and the field say.
`PROJECT.json` lists the hazards line by line with the properties aimed at
each, and a note where a hazard is still uncovered.

## 2. The modules

```
ProducerLoop  --- Chain                  one producer in detail; what its commits promise
              --- ProducerLoopProofs
Consensus     --- ConsensusProofs        all producers, loop abstracted
Ledger        --- LedgerProofs           transactions and the world state
Recursion                                what sums, folds and selections compute
Election      --- ElectionProofs         rankings, slots, the cached count
MerklePatriciaTree --- Dictionaries      the tree that holds the world state, and its promise
BlockChips    --- BlockChipCollection, ErasureCoding     chips cut and restored; chips that
                                         arrive together; the code behind them
              --- BlockChipCollectionProofs

LevelDB       --- VersionSet             files, failures and recovery; levels and compactions
              --- KeyValueStore, Orders  what a user of the database relies on; sorting
              --- VersionSetProofs, LevelDBProofs
LogFormat                                records in a log, torn and damaged
VersionEdit   --- Coding                 an edit of the manifest as bytes
DBIterator    --- Table, Block, TwoLevelIterator    iterators, from a block to the user
              --- Cursor                 what an iterator promises
SkipList, LRUCache                       the memory table, the caches

Evm           --- EvmInstructions, EvmHost          code in blocks; instructions; the host
Intx                                     integers of many words
Secp256k1, AdditionChains                arithmetic of signatures, inverses and roots
MC*                                      finite instances for TLC
```

The modules are cut along the calls between components. `ProducerLoop`
takes "this block verifies" as a constant set and the other producers as the
environment; `Consensus` puts all producers together and abstracts the loop;
`Ledger` is what verification of a block computes; `Election` decides who makes
one; `MerklePatriciaTree` is the data structure below `Ledger`, which takes it for
a function from addresses to accounts. `LevelDB` takes records, tables and edits
for values; that their formats give back what was written is what `LogFormat`,
`DBIterator` (with `Table` and `Block`) and `VersionEdit` show. `Evm` computes with
integers; that `intx` does is shown by `Intx`. Names follow the source.

### ProducerLoop

One producer: `StartLoop` (`ProducerSystem.cs` 333-637) label by label, with
`TryGetBlock`, `VerifyExecuteBlock` (its link check; the rest is the constant
`Valid`), `CommitBlock` and the two kinds of background task.

* `pc` is the label of the `goto` program: `Synchronize` and `Pending` (the list
  `otherCommitBlocks`, 360-379), `Obtain` (make or restore a block, 380-455),
  `Precommit` (479-516), `Commit` (the search for the block voted for and the own
  vote, 518-546), `Collect` (549-581), `CommitBlock` (583-631).
* `NextIteration` is the top of the `while` loop, reached by `continue`, by the
  catch-all handler and by the end of the body; it resets the locals declared
  inside the loop. `EnterPrecommit` is the code after `SynchronizeState`: it
  resets the two address records but *not* `precommitCounter`, as line 473 does.
* `sync` is `synchronizeTask` with a stage for every point between two of its
  steps at which the loop may run: a block obtained (`get`), verified (`got`),
  the captured variable about to be verified (`own`) and verified
  (`ownVerified`). `sync.live` tells whether the task still shares the loop's
  `block` or a block of an earlier iteration.
* Votes arrive from a `ConcurrentBag`, which has no order: `TakePrecommit` and
  `TakeCommit` may take any vote of any other producer at any moment, repeatedly.
  That covers delay, reordering and duplicates; a vote that never comes is one
  never taken.
* Exceptions are steps: `PendingFails`, `GetCorrupt`, `VoteNullCorrupt`,
  `SearchCorrupt`, `TakePrecommitCorrupt` for a collection that restores to
  another id.
* `executed` and `lastReady` stand for `PrecommitState` and `CommitState`
  being non-null. `CommitBlock` moves the one to the other before it looks at the height
  (823-826): if it is called again with the object that is `LastBlock`, it refuses and
  the state is gone (`RefuseBlock`).

`Chain` is what a node promises about its commits: the chain grows by one block of
the next height at a time, and as long as the state of the last block is known
every block names the one before it. `IsChain` is the refinement; it covers the
commits of the loop and of both tasks, the one of line 599 included, which may
commit a block another than the one it verified.

`CommitVoteVerified`, `PendingEmptied` and `LoopKeepsState` say what the loop relies
on past `SynchronizeState`. All three have the premise `OneCertified`, that no two
blocks of one height have a majority of commit votes. That is what the consensus
is to provide; it does as long as nobody votes twice (`AgreementIfNoRevote`), and
section 5 shows what the loop does without it.

### Consensus

All producers. Sets of cast votes only grow, and a producer may act on any part
of them. Each step of `Precommit`, `Commit` and `Decide` is one or more steps of
the loop; `Subject` is the search for the block that collected the precommits.
`Syncing` are the producers whose download task may run, `Late` those that may
restore a block after the precommit votes. `decided` records what loops commit by
votes.

### Ledger

`ExecuteTransaction` (289-446, 560-593) for all kinds of transaction but contract
calls, as a function from a world to a world and a verdict, in the order of the
code: checks that write nothing (`Refused`), the fee, failures that write the
fee (`Fails`, `Settle`), exceptions half way (`Throws`, `Torn`), success
(`Spread`, `Changed`, `Settle`). `work` is the world of the maker, `replay` that
of a verifier executing the finished block; `Skip` is a transaction that
`TryMakeBlock` leaves out. Amounts are small naturals; `VoteSize` is the width
of the unsigned `Votes`. `ProduceBlockReward` is empty in the code.
`GenesisAssumption` is what `Config.GenesisUsers` (`Config.cs` 125-147) and
`BuildGenesisBlock` give: accounts without locks and votes, whose coins together fit
into a `ulong`.

### Election

Slots instead of seconds. `record` is `CampaignNodeRecord` of every node's
`LastBlock`, which is not part of `HashWorldState`; `cache` is
`nextRoundBlockState`, counted on one block and reset only at the end of a loop
iteration, so that nodes in `Late`, which obtain a block by download, keep it.
`GetProduceTimeSpan` and `NextRoundSpan` keep the arithmetic of 696-735; `0`
stands for null. The sorting by pledge and votes is abstracted: a count may
give any member of `Ranking`.

### MerklePatriciaTree and Dictionaries

The tree is a heap of node objects, because generations share nodes and every
operation decides between changing a node in place and copying it. A node is
named by the tree that created it and by its position, the digits that lead to
it. `AddNode` and `RemoveNode` are the `Add` and `Remove` methods of the four
kinds of node (value, long path, branch of two, map of up to sixteen):
`Split` where a key leaves a path, `Widen` for a third digit, `Shrink` and
`Concat` (`PrefixConcat`) after a removal, `SetKid` for the copy on write.
`ComputeHash` walks the nodes of its own generation and freezes the tree;
`NextNew` starts the next generation.

`Dictionaries` is what the callers rely on: independent dictionaries, changed
one key at a time, frozen once, copied when frozen. `MapsDictionary` is the
refinement, with the contents that the enumerator lists.

A map counts its children before the removal (503), so it may keep a single child. The
root hash is then not that of the contents, and removing the last key of such a map
joins a path with the child that was to go: the key is still found with its old value
while `Count` has dropped. The model does as the code does; `Sound` says of a tree that
this has not happened to it, and is the premise of `HashFromContents` and of the steps
of `MapsDictionary`. The step that leaves the single child is still one of a
dictionary, and lookups agree with the enumerator in every tree, sound or not.


Partial trees (`FindHashTree`, `Combine`) are left out.

### BlockChips and ErasureCoding

`ErasureCoding` is `erasure_coding.cpp` and `GF.h`: logarithm tables built from the
polynomial, the vector products by two shuffles of half bytes, the Vandermonde rows
below an identity, `mat_inverse` as written (no pivoting; a division by zero gives
zero). `BlockChipCollection` has the threads of the connections: `Add` in its steps -
the check for null, the store, the count with `CanRestore`, the end with the count of
writers - and `TryGetBlock`, which reads the chips in one step while others are being
stored; what a set of chips may restore to is its constant operator `Outcomes`.
`BlockChips` cuts a block (`Split`) and decodes (`Restore`), and gives `Restorations`
for `Outcomes`.

### LevelDB, VersionSet, KeyValueStore

The directory (`logs`, `tables`, `manifests`, `current`) is what survives; each
file of records knows how many of them are synchronised, and `MachineFails` keeps
any longer prefix of each. `ProcessEnds` keeps all. Actions are the stretches of
`db_impl.cc` between two releases of the mutex or two changes of files: `AddBatch`
(the record in the log), `WriteDone` (synchronised, then in the
memory table), `SyncFails`, `AddRecordFails`, `SwitchMemTable`,
`CompactMemTable`, `PickedCompaction` and `ManualCompaction`, `WriteOutput` one
table at a time, `InstallCompactionResults`, and `LogAndApply` as an `edit` being
saved followed by `Install` or `InstallFails`. A flush may run inside a compaction
under way. When the append of a record to the log fails, its numbers are used up and the
next write goes on behind it: it is `torn`, and its record may be `lost` to recovery,
with or without a synchronisation (`Promised`). `tangled` remembers that a memtable was
written in the middle of a compaction on request, or that a compaction went on after the
manifest could not be written: the order of the levels, and with it what is read, is
claimed as long as it is false (section 5 has what happens otherwise). `BeginRead` pins what a reader reads. `Recover` and `OpenDone` are
`DBImpl::Recover` and the rest of `DB::Open`. `VersionSet` has the choice of files:
`PickCompaction`, `SetupOtherInputs` with `AddBoundaryInputs` and `Widened`, the attempt to
grow, `IsBaseLevelForKey`, `ShouldStopBefore`, `PickLevelForMemTableOutput`, and
which entries a compaction drops. Sequence numbers stand for values. There is one
writer at a time: the queue of writers and group commit are left out.

`KeyValueStore` is what a user relies on: batches acknowledged one by one, read as
a whole; a failure may lose what was not synchronised and bring to light what was
begun. `IsKeyValueStore` is the refinement, with `contents` read through `Get`.

### LogFormat, VersionEdit, Coding

A log is a sequence of cells; a header stands for its seven bytes. The writer cuts
records into fragments and pads blocks; a machine failure cuts the file, damage
changes a cell; the reader is `ReadRecord` and `ReadPhysicalRecord` case by case,
with its initial offset. `VersionEdit` encodes and decodes every field by tag over
`Coding`, whose bytes hold `Group` values and a flag.

### DBIterator, TwoLevelIterator, Table, Block, Cursor

From the bottom: `Block` shares prefixes between restart points, seeks by binary
search over them and steps back by scanning from one; `TwoLevelIterator` is one
operator set over any index and data iterators, used twice (`Table` with its index
and its Bloom filter, and a level of files); `DBIterator` merges children as
`merger.cc` does, with the direction and the children's own positions, and has
`DBIter`'s two directions and saved key. `Cursor` is the promise: at most one
position in a fixed sorted sequence. `ImplementsCursor` is the refinement and more:
from every position each operation leads where the cursor's own does, through
every change of direction; an operation that does not move, skips a key or repeats
one fails it.

### SkipList, LRUCache

`SkipList` takes loads and stores with the orders the code asks for: a load may
return an old value unless a later one is known to the reader; a release makes the
writer's earlier stores known. `LRUCache` has shards with the chained hash table
(grown by `Resize`), the two lists, reference counts, and threads that look up,
miss, read the file outside the lock, insert and release (`table_cache.cc`).
`Prune` is called by nothing in the repository but is an action, as anybody may
call it.

### Evm, EvmInstructions, EvmHost, Intx

`Evm` analyses code into a table of instructions in which BEGINBLOCK carries gas,
need and growth of a block, and then runs it; `EvmInstructions` has the gas tables
by revision and the bodies of the instructions on a record; `EvmHost` answers as
evmone's own host for tests does, without nested execution: a call answers a
result chosen beforehand, and gives back no more gas than the message carried.
`MCEvm` runs beside it a machine that charges and checks each instruction where
it stands. Words are short (`WordSize`), so PUSH carries at most a short word, and
the comparison with INT_MAX in `op_jump` and the clamps of offsets cannot bite. An
access outside stack or memory, undefined in C++, is the status FAULT. `Intx` does
the arithmetic on sequences of words of `W` bits.

### Secp256k1, AdditionChains

The four-word reductions, scaled to `M = Word^4` with primes of the same shape,
and point sums without division. The chains of squares and products behind
inverses and roots are followed in the exponents of the real primes.

## 3. The runs

| Run | Instance | Shows |
|---|---|---|
| `loop` | a2 on g1, and a3 on a2, which does not verify; two peers, both needed, who commit both; a corrupt collection, every task | `CertificateInv`, `CommitCertified`, types; `LoopReturns`, `PendingDrains` under `FairSpec` |
| `loop_tree` | two forks of two blocks, a2-a3 and b2-b3, b3 invalid, a3 this node's own; one peer; majorities possible for a2, b2, a3 | `CommitVoteVerified`, `IsChain`, `LoopKeepsState` |
| `consensus_sync` | 4 producers, two synchronising, one late | `VoteOnTip`, types |
| `consensus_revote` | 5 producers, 3 votes | `ForkAccountable`, not vacuous: 2 * 3 - 5 = 1 |
| `consensus_fork` (violation) | the same | `Agreement` fails |
| `ledger` | all transactions but contract calls: transfers, locks, pledges, votes, redemptions, failing ones included, among the producer, a campaign node, a holder and an account that comes into being and may produce too | `AccountsSound` (no wrap below zero, locks in order), `VotesBacked`, `SupplyKept` |
| `ledger_rollback` (violation) | a transaction that fails | `HonestBlockVerifies` fails |
| `turns_tree` | 5 nodes of which 3 are producers, 3 rankings that have different producers, 2 small rounds in a big one, 13 slots, one node that downloads; and apart from it 4 keys of 3 digits, one of them with two values, in 2 generations of trees | `SomeoneCanProduce`, `OncePerRound`, `InTurn`; `ContentsDecide`, `MapsDictionary` |
| `leveldb_crash` | 2 keys; a synchronous put, a deletion, a batch of two; 4 sequence numbers, 4 levels, files of one entry, 2 failures (a record, a table or an edit that is not written, a stop) or requests | `ReadsAnswer`, `PinnedReadsAnswer`, `Openable`, `LevelsDisjoint`, `NewerAbove`, `ProcessKeepsAll`, `IsKeyValueStore` |
| `evm_blocks` | all codes of up to four pieces out of ten with little gas, and a probe for every opcode and choice of arguments, in the first and the last revision | `ResultAgrees`, `NoFault`, `StaticStays`, `StepKeepsAccounts`, `Terminates` |
| `parts` | one part in each behaviour: 3 records in blocks of 7 cells, one error; five writes spread over memory table and levels; a list of 3 keys and 2 levels; a cache of 3 keys, 2 threads; 4 chips of which 3 restore, 2 threads; every sufficient set of up to 14 chips; edits of every field; words of 2 and 4 bits; a prime of 12 bits | `LogRecovers`; `ImplementsCursor`, `WalksTables`; `ReadsWhole`; `CacheConsistent`; `Collected`, `ChipsRestore`; `EditsReadBack`; `ArithmeticAgrees` |
| `chips_lost` (violation) | 15 chips of which 10 are needed, as with 16 campaign nodes | `EnoughChipsRestore` fails |

`turns_tree` and `parts` hold components that share no state; a behaviour belongs to
one of them (`part`), and its properties say nothing about the others.

**Bounds.** The loop handles one height at a time and looks at most two heights
ahead, so three heights with rivals at two of them meet every comparison of
heights; a fork at a height, a successor whose predecessor lost, an invalid
block and a block two ahead all occur in `loop_tree`, where one peer is a
majority. Two peers that must both vote, in `loop`, are the smallest majority in
which a repeated vote shows. `MaxCount` saturates a counter
above both thresholds. Five producers with three votes are the smallest instance
in which majorities must overlap although a voter does not count itself and the
maker does not precommit. In `Ledger` two transactions in a block and three
timestamps let a lock and both terms expire, a pledge be redeemed and an account
vanish and come back; `MaxTime` and `MaxTx` are bounds, the code has none.
`VoteSize` 16 is above the nine coins of the instance, as 2^64 is above those of the
genesis block. 13
slots are two big rounds and the slot after; `MaxSlot` is a bound. Any two of the three
rankings share producers, the three together do not: nodes are voted in and out, and there
are states in which nobody can go on. Three of the keys of three
digits meet in one map below a path and two part at the last digit, so paths of every
length are split and joined; two trees are a parent and the next generation,
and a third would share nodes with them in the same way, since a tree only
tells nodes of its own generation from older ones. `Item` limits the values:
one key with two of them meets every update.

In `LevelDB`, `MaxSeq` operations fill level 0 to its trigger and reach level 2;
`MaxEvents` lets one failure follow another, or a read or snapshot stay open across
one; `MaxWork` bounds both together. Two keys and files of one entry put versions of
a key on both sides of a file boundary. They leave no key between two inputs of a
compaction: states with `tangled` are among those of the run, levels out of order are not.
That the premise keeps them away was checked with three keys (898,070 states of the
instance in section 5) and is proved for any keys. A log block of seven cells makes records
of 0, 4 and 9 cells fit, fill trailers and span two and three blocks. Three keys in a
cache of two shards share one and leave one alone; charges 1 and 2 against
capacities 0 and 5 pass the limit with and without entries to evict. With words of
two bits every pair of operands of `Intx` that leads to each correction occurs among
256 by 19 operands; the prime of 12 bits has operands on both sides of every carry,
and the points are those whose first coordinate is at either end. Of block chips,
14 is the greatest total for which every sufficient set restores the block. Short contracts
contain every sequence of jump, jump destination, GAS and pushes of length
four, among them loops and jumps into push data.

**Deadlock** is checked for `loop`. `CHECK_DEADLOCK FALSE` is set in `loop_tree`, where a
node that lost the state of its last block stops (section 5), and
where the instance ends: no more blocks (`Consensus`), time or slots used up
(`Ledger`, `Election`), all trees frozen (`MerklePatriciaTree`), the bounds on work
reached (`LevelDB`), a contract over (`Evm`), a part at its end (`parts`,
`chips_lost`).

**Symmetry** permutes the producers other than the makers p1 and p2 in the runs of
`Consensus`, and the two threads in `parts`; none of these checks liveness.

**Fairness.** `FairSpec` asks for weak fairness of the loop as a whole and of the task
as a whole. The loop is one `async` method that yields, never blocks for ever (its
waits have limits of 500 ms, 800 ms and the slot) and is never stopped in the runs;
tasks are on the thread pool, each request has a time limit and the list of
endpoints is finite. No fairness is asked of votes, chips or peers. `PendingDrains`
has the premise that the loop keeps meeting moments without a running task, and names
the other way out: a committed block that does not verify here stays at the head of
`otherCommitBlocks` and is rejected in every iteration (`PendingRejected`), since the
exception skips `RemoveRange` (370-378). In `loop` a3 is such a block.
`Terminates` asks for weak fairness of the interpreter, which is a sequential loop
that nothing stops.

## 4. Proofs

`ProducerLoopProofs` proves, for every set of blocks and peers and all thresholds
(`ThresholdAssumption`, `BlockAssumption`):

* `TypeCorrect`: `Spec => []TypeOK`. The conjuncts of `TypeOK` by group of
  variables; `TypeOK` is inductive.
* `CertificateCorrect`: `Spec => []CertificateInv`. A counter never exceeds the
  distinct voters heard for the hash being counted; a full counter leads to
  `CommitBlock`; cached blocks are certified.
* `CommitCertifiedCorrect`: `Spec => CommitCertified`, an action property, from
  the two invariants.

`ConsensusProofs`, for any number of producers and any threshold
(`ConsensusAssumption`):

* `Inductive`: `TypeOK`, `DecidedQuorum` (a decided block has a counted majority of
  commit votes, which only grow) and `HeldOnTip` (a verified block in hand extends
  the tip of its holder, who does not synchronise).
* `TypeCorrect`, `VoteOnTipCorrect`, and `ForkAccountableCorrect`: two majorities
  within `Producer` overlap in at least `2 * Accept - |Producer|` voters, by the
  cardinality of unions.
* `AgreementIfNoRevote`: what is missing for agreement is exactly a voter's
  memory. With `2 * Accept > |Producer|` there is no fork as long as no producer
  casts commit votes for two rivals - the code has no guard that would ensure it.

`ChainLinked` (in the same module, with the same assumptions) alone is not inductive, since a block is verified long before it is committed, and by another
task than the one that moves `LastBlock`. `ChainInv` adds what holds meanwhile:

* `Heights`: heights count the blocks of the chain; `VerifiedOnChain`: a block with
  a state follows *some* block of the chain. As `CommitBlock` compares heights, that
  block is the last one when the commit is taken.
* `TaskBeside`: which task may run beside which part of the loop.
* `StuckWithoutState`: once a block of the chain does not follow the one before it, the
  state of the last block is lost and whatever was verified before is too low to be
  committed, so the state never comes back.

`ChainInvCorrect`, `ChainLinkedCorrect`, and `ImplementsChain`: the initial state
and every step map to `Chain`, each step to an extension, a loss of the state or a
stutter.

`CommitVoteVerifiedCorrect`, `PendingEmptiedCorrect` and `LoopKeepsStateCorrect` rest on
`VoteInv`, which says, as long as there are no certified rivals: the
cached blocks are in order of height with none missing and none twice
(`PendingInOrder`, `RestoredOnce`), the loop therefore empties the list before it
seeks a block (`PendingSplit`, `Emptied`), so it votes only with no download
beside it (`NoTaskBesideVote`), and `validBlock` speaks of the block in hand
(`NotYetValid`, `ValidMeansVerified`). `RestoredOnce` is where certified rivals would
break it: a block that has been restored is not restored again.

`ElectionProofs`, for any number of producers and small rounds and any rankings
(`ElectionAssumption`): `TurnInv` has `MadeBefore` and `KeepsRank`, that a node which
made a block in the current small round carries on with the list that gave it the
slot, whatever the others counted. From it `OncePerRoundCorrect` and
`InTurnCorrect`, by the uniqueness of quotient and remainder (`QuotientUnique`;
the solver does not know it), and `SomeoneCanProduceCorrect`: a node that is a producer by
every list recorded or counted at any node can go on. Without such a node the chain may
be stuck (section 5).

`BlockChipCollectionProofs`, for any number of chips and threads
(`CollectionAssumption`): `CollectedCorrect` from `CollectInv`, which counts the threads
between two changes of a counter: `writeCount` is the number of threads inside
`Add`; a stored chip is counted or its thread is about to count it; the thread whose
count reaches `RestoreCount` sets the mark, and as long as it is set without a result
somebody is still on the way out and will see it.

`LedgerProofs`, for any finite set of addresses and any transactions
(`LedgerAssumption`, `GenesisAssumption`):

* `AccountsSoundCorrect`. `LedgerInv` is the property for the worlds of maker and
  verifier too, since one of them becomes the next world. It rests on the
  comparison with `MaxFee`, which is at least the fee, on `Fails` before the value is
  taken, on `InsertLock` keeping the order and on what `Expired` takes being a head
  of the list.
* `SupplyKeptCorrect`, an action property of the same invariant. Every part of
  `ExecuteTransaction` is shown to keep what an account is worth (`UnlockedIs`,
  `PaidIs`, `DebitedIs`, `ChangedIs`, `SpreadCoins`, `SpreadVotes`, `TornIs`), and
  `SettleSupply` adds up what the two copies written last overwrite.
* `VotesBackedCorrect`. `VotesInv` follows the committed world and a verifier's, the
  latter only while every transaction has succeeded there: a redemption that stops
  half way leaves votes taken back in the maker's world, and only a block that
  a verifier can follow becomes the next world. It includes that an account
  which is not in the tree has no pledges, that the accounts spoken of do not vote
  for themselves, and that all coins are fewer than 2^64: what is pledged for one
  account is part of them, so its weight does not wrap.

`VersionSetProofs` and `LevelDBProofs`, for any number of levels, all limits, any keys
and writes (`LevelsAssumption`; `BytesAssumption`: the limits of levels are positive;
`WritesAssumption`: a batch is a sequence of puts and deletions; `RangesAssumption`: a
request names a level that has one below, as `TEST_CompactRange` asserts, and its bounds
are user keys or null; `BoundsAssumption`: user keys are ordered, none is the null pointer, and fewer
operations are written than there are sequence numbers). What is proved is that files and
records survive, that levels stay in order and that what is nearer to the memtable is
newer; the answer of a read stays with TLC.

`LevelDBInv` is the inductive invariant, and TLC finds it true on the small instance.
`Openable` and "no synchronised batch is lost" say little by themselves: whether a
file may be deleted depends on versions in memory, on the edit being written, on
outputs without a version and on records of which nobody knows yet whether they
are on the disk. Its parts:

* `Disk`: each record of the manifest that may be the last one to survive gives a
  version whose files all describe the table of their number (`GoodVersion`), and its
  log number and next file number fit; those numbers only grow.
* `Promises`: for each such record, an acknowledged batch is older than the logs
  that would be replayed, or in one of them - in its synchronised part, if its
  write was synchronous and not behind a record that could not be written (`KeptFor`).
* `Saving`: `DB::Open` between its two halves. The new manifest describes the version
  recovered, the tables made from the logs have their files in the edit, and no
  acknowledged batch belongs to the new log or a later one.
* `OpenOnly`: while the database is open, the version in memory is the manifest's
  without the edit under way, as long as no error has been recorded (`OpenEdit`; after
  one they differ, and nothing is deleted any more); numbers in use are below the
  next one; what a reader, a seek or a compaction holds is good (`OpenUse`); and
  batches not yet installed are in logs that are kept (`OpenBatches`).

From it: `OpenableCorrect`; `ProcessKeepsAllCorrect`; `PinnedFilesCorrect`, the half of
`PinnedReadsAnswer` that is about deletion; and `FailuresAreFail`, the refinement of
`KeyValueStore` for the steps that make it worth having, the two failures. The two about
losing nothing except batches `torn`: those of a log in which a record before them could
not be written. The lemmas of
`VersionSetProofs` carry the algorithms along: a version read back from a snapshot is
the version (`SnapshotGivesBack`), `SaveTo` loses no file an edit does not delete,
`Finalize` picks a level that has one below and files to compact, the inputs of every
compaction are files of the version (`SetupInside`, `PickedInside`, `RangeInside`), binary
search stays in the level (`FindFileInside`), a look-up opens files of the version
only, and no output of a compaction is empty (`OutputsAre`).

The order of the levels is lost when a compaction is tangled (section 5), so that
`LevelsDisjoint`, `NewerAbove` and the second half of `Openable` have the premise
`~tangled`; with it they are proved for all else (`LevelsDisjointCorrect`,
`NewerAboveCorrect`, `OpenableCorrect`), memtables written in the middle of compactions
that the tree asks for included. The node declares `leveldb_compact_range`
(`Native.cs` 107) and never calls it, so for it only the second way is left, a compaction that
goes on after the manifest could not be written.

The invariant is `Ordered`: `LevelDBInv`, and `LevelsInv` with `SidesInv` unless `tangled`.
`LevelsInv` says that every part of the manifest that may
survive gives levels in order (`DiskOrder`); that the manifest without the edit under way
gives the version in memory, also after an error while a compaction goes on
(`OpenOrder`); that the outputs written and
those to write follow each other and stay within the inputs, and every other file of the
level they go to lies on one side of all inputs, before and after an edit that arrives
meanwhile (`CompOrder`). Whether a memtable flushed meanwhile can land between the inputs
of a compaction that was not requested is `SidesInv`, by `Sided`: no range of user keys that is free of files in both levels separates two
inputs. `PickedOneSided` proves it for the inputs the tree chooses - a file and
all that overlap it - and a requested range with a gap in it is where it fails.

`NewerAbove` is what lets `Get` stop at the first entry it finds. It rests on the order of
the levels: in one out of order, of two files with the same user key only the newer may be
compacted, and goes below the older. The invariant is `NewerInv`, beside the others:

* `DiskNewer`, `OpeningNewer`: every part of the manifest that may survive gives a version
  whose levels are newest first and whose sequence numbers end at its last one
  (`Layered`), and the logs replayed after it are newer than all of it.
* `VersionNewer`, `LogNewer`, `ImmNewer`: the same of the version in memory, the memtable
  being written, the last log, which has all of the memtable, and a batch on its way into it.
* `EditNewer`: only the edit of a memtable brings entries the version does not have; those
  are newer than all of it, and `PickLevelForMemTableOutput` puts them below a level only if
  they overlap nothing down to it (`FlushedNewer`).
* `CompNewer`: the files of its level a compaction leaves are newer than those it takes
  (`PickedLeaves`, `RangeLeaves`). Above level 0 this rests on the boundary files: the
  older entries of a user key follow its newest, and are taken with it; in level 0 on
  taking all that overlaps, until nothing more does. What was flushed meanwhile is newer
  than either.

A state may satisfy `NewerAbove` and lose it in one step in three ways, which is why it needs
the rest: a failure brings back an older version and replays logs over it (`DiskNewer`);
a memtable is placed in a level (`ImmNewer`); a compaction moves its inputs below files they
have to stay above, or leaves an older entry above them (`CompNewer`).

`Recursion` is what those proofs need about recursive definitions: that a function
given by its steps exists, is unique and stays where its steps stay; sums over
finite sets (`SumFunctionOnSet` of the community modules) and how they change with one
value, one element, a renaming or a union; what `Only` and `InOrder` of `Orders` return. An
induction theorem with an operator as parameter is beyond the provers, so
`SubsetInduction` and `UptoInduction` are stated over sets, and proved from the smallest
counterexample.

Only model-checked: liveness and anything with ENABLED (`LoopReturns`, `PendingDrains`,
`Terminates`); `HonestBlockVerifies` and the others that are violated; what is
defined by RECURSIVE operators, which the provers cannot use (`MerklePatriciaTree`,
`Block`, `DBIterator`, `SkipList`, `LRUCache`, `EvmInstructions`, `Intx`, `ErasureCoding`);
`LogFormat`, `VersionEdit`, the reductions of `Secp256k1`; and so far what is read from the
database: `ReadsAnswer`, the answers in `PinnedReadsAnswer` and
the steps of `IsKeyValueStore` other than failures.

## 5. Where the code and its own documentation part

Runs marked "violation" (findings in `PROJECT.json`): forks without any dishonest
producer; writes of a transaction left out of the block; chips that do not
restore their block. The last: an identity over Vandermonde rows does not have
every square submatrix invertible, and `mat_inverse` neither exchanges rows nor
notices a zero pivot. Totals up to 14 are fine (`ChipsRestore` checks every
sufficient set of every total): as StartLoop wants total - total/3 chips, at most
four bytes of a row are lost, and it takes five bytes and five codes to meet a zero
pivot. With 21 producers (20 chips, 14
needed) 234 of the 38,759 ways to lose six or fewer chips fail.

Shown by instances that are not among the runs:

* With two certified rivals the loop casts a commit vote for a block it has not verified:
  the second rival in `otherCommitBlocks` starts a download (`ProducerSystem.cs` 373)
  and the loop goes on beside it, `SearchBlock` (521-537) takes a block while
  `validBlock` is still set for the one before, and 539 votes for it; the comments at
  344 and 350 say such a node votes null. `VotedVerified` fails in an instance of
  `MCProducerLoop` with one peer, `Block = {"a2", "b2", "a3", "b3"}`,
  `Mine = {"b2"}` and `Certifiable = {"a2", "b2", "b3"}`.
* The fetch task and the loop each may move `PrecommitState` of the captured `block`
  away from the other (`ProducerSystem.cs` 589-604): `StateReady` fails in an instance
  of `MCProducerLoop` with `Mine = {}`, `Proposed = {"a3", "b3"}`,
  `Certifiable = {"a3"}`, although `CommitBlock` asserts it (820).
* A vote for the producer of the block is overwritten by the earlier copy
  `producerState` (`BlockChainSystem.cs` 406); redeeming it subtracts from a weight it
  was never added to, and the ulong wraps: `VotesCovered` fails in an instance of
  `MCLedger` with `Tx <- VoteTx`.
* `MerklePatriciaTree.cs` 503: a map counts the child that is being removed ("the number of
  children after the removal is >= 2", says the comment): `Branches` fails for a tree of the
  instance of `MCCore`, `HashFromContents` fails without its premise `Sound`, and so
  does `D!Spec`.
* LevelDB, `db_impl.cc` 896-907 with 515-523 and 700-701: a requested compaction of two
  files of level 0 with keys 1 and 3 stops to write a memtable with key 2, which
  overlaps neither and is placed in level 1 (`version_set.cc` 499); the output with
  keys 1 to 3 then goes to level 1 as well. Without the premise `~tangled`
  `LevelsDisjoint` fails, and so does `ReadsAnswer`, although 723-737 and 746-749 assert it ("Must not overlap"): an instance of
  `MCLevelDB` with `Keys = {1, 2, 3}`, single puts, `ManualRanges` with the whole of level 0,
  `L0Trigger = 4`, `MaxMemLevel = 1`, `MaxFileSize = 2`, `StopTrigger = 6`,
  `WriteBufferSize = 0`, `MaxSeq = 3`, `MaxEvents = 2` and `MaxWork = 5`.
* LevelDB: a memtable whose edit failed at `SyncFile` inside a compaction is written
  again, since the compaction goes on; if the first record survives, the manifest
  names two files with the same entries in one level (and if it was torn, the record of the
  next edit is written behind it, where recovery takes it for damage): without the
  premise `~tangled` `LevelsDisjoint` fails after reopening in an instance with `ManualRanges = {}`, `L0Trigger = 1`, `MaxMemLevel = 1`,
  `GrandParentLimit = 0`, single puts, `WriteBufferSize = 0`, `MaxSeq = 4`, `MaxEvents = 2` and
  `MaxWork = 6`.

Met while modelling and not given an instance:

* `CampaignNodeRecord` is not part of `HashWorldState`, and a node that downloads
  a block keeps the count it cached on another one: the records of two nodes at
  the same block may differ (`RecordsAgree` in `Election`). `InTurn` and `OncePerRound`
  speak of the list of the maker itself and hold all the same.
* `MerklePatriciaTree.cs` 787-809: `FindFillHash` of a long path searches the child
  before it sets the bound, so the proof of an absent key may lead to another's
  node.
* `ProducerSystem.cs` 344: the node is said to vote null while `synchronizeTask`
  runs; the commit vote at 539 does not look at the task.
* 634: "precommit null ... commit null"; 539 votes for the block in hand.
* 473 and 485: the record against double counting is cleared on a pass through
  `SynchronizeState`, the counter is not.
* `BlockChainSystem.cs` 400: the test on `IsCampaignNode` is inverted, so votes for
  campaign nodes within their term fail.
* 342: an emptied account is removed with its nonce and restarts at 0, although
  `Transaction.cs` 45 calls nonces strictly increasing.
* `BlockChipCollection.cs` 53-57, 88-89: two threads that store the same chip both
  count it; with too few distinct chips `Restore` runs past its array. A collection
  with `RestoreCount` 1 never completes; of two first chips that arrive together each
  builds a collection and one is lost (`ProducerSystem.cs` 138-163).
* `BlockChainSystem.cs` 96: `db.Repair()` is called while this process has the database
  open. `RepairDB` takes no lock, turns logs and tables into tables of its own and
  writes a manifest that the running database does not know and later removes as an
  obsolete file, with the tables it names, while CURRENT names it: the database may
  then not open again. `db.h` 158 speaks of a database that cannot be opened.
* LevelDB, `version_set.cc`: `SetupOtherInputs` adds boundary files to the first
  inputs only.
* LevelDB, `log_writer.cc` 98-108 and `db_impl.cc` 1215-1241: a failed append leaves a torn
  record and the sequence number advanced, and records acknowledged after it, synchronised
  or not, may not be readable, although `options.h` 174-176 says that no writes are lost
  when just the process stops: `ProcessKeepsAll` and `IsKeyValueStore` have the exception
  (`torn`), and fail without it. A synchronous write that was never acknowledged may appear after one
  failure and be gone after the next. After a machine failure what is left of the
  unsynchronised writes need not be a prefix, since a later one may be in a table.
* LevelDB, `log_reader.cc` 80-88: a reader that starts in the middle may report a missing
  start of a fragmented record that is not missing. `version_edit.cc` 26-39: `Clear`
  leaves `compact_pointers_`; an edit has no terminator, so one cut between two fields
  decodes as a shorter edit, and only the checksum of the log protects it.
* `intx.hpp`: the overflow check of `from_string` (`x < d`) misses the overflow of the
  product. `secp256k1.cpp` 717-723: `mul_n` keeps a sum of words that is cut off; the
  x of a sum of points may come out at or above the prime, which a later negation
  turns into a wrong value. Both need operands that do not occur in practice.
* `ProducerSystem.cs` 699: when the next ranking shares no leader with the current
  one nobody can open the round, and since records differ between nodes that download
  and nodes that vote, neighbouring rankings that do share one may not be enough
  (`SomeoneCanProduce` has the premise `StaysLeader`; without it `turns_tree` finds such
  a state).

## 6. Not modelled, and why

* The node's side of a contract call (`BlockChainSystem.cs` 446-590, `ContractNative.cs`):
  the host over `UserState` and the merge of temporary states. `EvmHost` is evmone's
  own.
* LevelDB: the queue of writers with group commit, write stalls, `reuse_logs`,
  `paranoid_checks`, checksums and compression of table blocks, the arena, `RepairDB`,
  the environments and the tools. Operations on a directory are taken to be durable
  in their order; the counting of seeks is a choice.
* Signing and verifying, hash functions: ideal; wire formats have no state.
* Sockets, NTP, start-up and configuration: I/O.
* Partial Merkle Patricia trees and proofs; `Ledger` takes the tree for the function
  that `MapsDictionary` says it is.
* Real time: a wait may end at any moment; `Election` keeps the order of slots.
* Start, stop and reconnection of producers.

## 7. Plan

Done: everything in section 2; the theorems of section 4.

Next, in this order:

1. Theorems: `LevelDB` (what reads find, from `NewerAbove`: a compaction drops only
   what no snapshot sees, and a deletion only where nothing lies below), the reductions
   of `Secp256k1` for every operand; `SkipList` and `LRUCache` with recursive functions in place of their
   RECURSIVE operators.
2. `NodeSync`: initialisation from the database with one repair, `LoopReadBlock`,
   `PutBlockFromNetwork` and the replaceable download task all committing on the same
   `LastBlock` (84-182). Properties: blocks are committed once and in order; a block
   dropped on a race is obtained again. Bounds: four heights, two tasks.
3. `Repair` over `LevelDB`, run on an open and on a closed database.
4. `Requests`: numbers, retry, late answers, the cleaner moving `minIndex`.
5. `TransactionPool`, `KBucket`, `IndexedQueue`, and `BlockChainDatabase` over
   `KeyValueStore`.
6. `NodeSync` shown to implement `Chain`, as `ProducerLoop` is.

The runs on `Consensus` stay apart: with four producers and three votes there is no
fork to be accountable for, and five producers with two of them synchronising are
too many states.
