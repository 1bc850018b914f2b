------------------------------ MODULE Consensus ------------------------------
(***************************************************************************)
(* All producers of one chain, each running the loop that ProducerLoop     *)
(* models in detail, exchanging precommit and commit votes.                *)
(*                                                                         *)
(* Votes are kept in two growing sets.  A producer acts on any of the votes *)
(* cast so far, or on none of them: delay, loss and reordering need no     *)
(* variable.  Timers may fire at any moment.  otherCommitBlocks and the    *)
(* download tasks are abstracted to one action that adopts a block from    *)
(* another producer's chain after verifying it.                            *)
(***************************************************************************)
EXTENDS Integers, FiniteSets

CONSTANTS
  Producer,   \* the first MinProducerCount campaign nodes
  Block,      \* blocks that may be proposed
  Genesis,    \* the block every chain starts with
  PrevOf,     \* HashPrevBlock of every block
  MakerOf,    \* the producer that makes the block
  Syncing,    \* producers whose synchronizeTask may be running
  Late,       \* producers that may receive a block after its votes
  Accept,     \* Constants.MinProducerVoteAccpetCount
  NoBlock,    \* null
  Empty       \* the hash of a "no" vote

Chained == Block \cup {Genesis}

ASSUME ConsensusAssumption ==
  /\ IsFiniteSet(Producer)
  /\ Accept \in Nat /\ Syncing \subseteq Producer /\ Late \subseteq Producer
  /\ PrevOf \in [Block -> Chained] /\ MakerOf \in [Block -> Producer]
  /\ Genesis \notin Block /\ NoBlock \notin Chained /\ Empty \notin Chained

VARIABLES
  pc,         \* where the loop of each producer is
  tip,        \* LastBlock of each producer
  proposed,   \* blocks whose chips have been sent
  taken,      \* blocks each producer has restored from chips
  block,      \* local variable block
  validBlock, \* local variable validBlock
  target,     \* hash that collected the precommits, or Empty
  precommits, \* precommit votes cast for a block: <<producer, block>>
  nulls,      \* null precommits cast: <<producer, predecessor>>
  commits,    \* commit votes cast for a block: <<producer, block>>
  decided     \* blocks the loop of each producer has committed by votes

local == <<pc, block, validBlock, target>>
vars == <<local, tip, proposed, taken, precommits, nulls, commits, decided>>

-----------------------------------------------------------------------------
\* Votes for b that n can count: its own is never sent to itself.
VotersFor(n, votes, b) == {m \in Producer \ {n} : <<m, b>> \in votes}

Enough(n, votes, b) == Cardinality(VotersFor(n, votes, b)) >= Accept

Init ==
  /\ pc = [n \in Producer |-> "Synchronize"]
  /\ tip = [n \in Producer |-> Genesis]
  /\ proposed = {} /\ taken = [n \in Producer |-> {}]
  /\ block = [n \in Producer |-> NoBlock]
  /\ validBlock = [n \in Producer |-> FALSE]
  /\ target = [n \in Producer |-> Empty]
  /\ precommits = {} /\ nulls = {} /\ commits = {}
  /\ decided = [n \in Producer |-> {}]

Hold(n, b, ok) ==
  /\ block' = [block EXCEPT ![n] = b]
  /\ validBlock' = [validBlock EXCEPT ![n] = ok]

\* continue: a new iteration of the while loop.
Again(n) ==
  /\ pc' = [pc EXCEPT ![n] = "Synchronize"]
  /\ target' = [target EXCEPT ![n] = Empty]
  /\ Hold(n, NoBlock, FALSE)

\* n's turn: it makes a block on its LastBlock and sends the chips.
Propose(n, b) ==
  /\ pc[n] = "Synchronize" /\ MakerOf[b] = n /\ PrevOf[b] = tip[n]
  /\ proposed' = proposed \cup {b}
  /\ taken' = [taken EXCEPT ![n] = @ \cup {b}]
  /\ Hold(n, b, TRUE)
  /\ pc' = [pc EXCEPT ![n] = "Precommit"]
  /\ UNCHANGED <<target, tip, precommits, nulls, commits, decided>>

Restore(n, b) ==
  /\ b \in proposed \ taken[n]
  /\ taken' = [taken EXCEPT ![n] = @ \cup {b}]

\* Mutant: the restored block is not checked against LastBlock.
PrecommitUnlinked(n, b) ==
  /\ pc[n] = "Synchronize" /\ Restore(n, b)
  /\ Hold(n, b, TRUE)
  /\ pc' = [pc EXCEPT ![n] = "Precommit"]
  /\ precommits' = precommits \cup {<<n, b>>}
  /\ UNCHANGED <<target, tip, proposed, nulls, commits, decided>>

\* n restores a block, verifies it and casts its precommit vote.
Precommit(n, b) ==
  /\ pc[n] = "Synchronize" /\ Restore(n, b)
  /\ Hold(n, b, PrevOf[b] = tip[n])
  /\ pc' = [pc EXCEPT ![n] = "Precommit"]
  /\ IF PrevOf[b] = tip[n]
       THEN precommits' = precommits \cup {<<n, b>>} /\ UNCHANGED nulls
       ELSE nulls' = nulls \cup {<<n, PrevOf[b]>>} /\ UNCHANGED precommits
  /\ UNCHANGED <<target, tip, proposed, commits, decided>>

\* A task is running: n votes the block down unverified.
PrecommitNull(n, b) ==
  /\ pc[n] = "Synchronize" /\ n \in Syncing /\ Restore(n, b)
  /\ Hold(n, b, FALSE)
  /\ pc' = [pc EXCEPT ![n] = "Precommit"]
  /\ nulls' = nulls \cup {<<n, PrevOf[b]>>}
  /\ UNCHANGED <<target, tip, proposed, precommits, commits, decided>>

\* n restores a block while it takes precommit votes: no vote, not verified.
RestoreLate(n, b) ==
  /\ pc[n] = "Synchronize" /\ n \in Late /\ Restore(n, b)
  /\ Hold(n, b, FALSE)
  /\ pc' = [pc EXCEPT ![n] = "Precommit"]
  /\ UNCHANGED <<target, tip, proposed, precommits, nulls, commits, decided>>

\* The block b that n's commit vote is about, and whether n takes it as valid:
\* the block in hand, unless the precommits were for another.  n then restores
\* what it can until it finds that one, and verifies it if no task is running.
Subject(n, h, b, ok) ==
  IF h \in {Empty, block[n]}
    THEN b = block[n] /\ ok = validBlock[n] /\ UNCHANGED taken
    ELSE \E S \in SUBSET (proposed \ taken[n]) :
           /\ taken' = [taken EXCEPT ![n] = @ \cup S]
           /\ \/ b = NoBlock /\ ~ok /\ (h \in S => PrevOf[h] # tip[n])
              \/ b = h /\ h \in S /\ PrevOf[h] = tip[n] /\ ok
              \/ b = h /\ h \in S /\ n \in Syncing /\ ok = validBlock[n]

\* Mutant: the vote is for the block in hand, even when there is none.
CommitWithoutBlock(n, h) ==
  /\ pc[n] = "Precommit" /\ h # Empty /\ Enough(n, precommits, h)
  /\ \E b \in Block \cup {NoBlock}, ok \in BOOLEAN :
       Subject(n, h, b, ok) /\ Hold(n, b, ok) /\ commits' = commits \cup {<<n, b>>}
  /\ target' = [target EXCEPT ![n] = h]
  /\ pc' = [pc EXCEPT ![n] = "Collect"]
  /\ UNCHANGED <<tip, proposed, precommits, nulls, decided>>

\* Enough precommits for h, or a null precommit (a voter can fill the null
\* count alone, see ProducerLoop): n casts its commit vote.
Commit(n, h) ==
  /\ pc[n] = "Precommit"
  /\ IF h = Empty THEN \E m \in Producer \ {n}, p \in Chained : <<m, p>> \in nulls
                  ELSE Enough(n, precommits, h)
  /\ \E b \in Block \cup {NoBlock}, ok \in BOOLEAN :
       /\ Subject(n, h, b, ok)
       /\ Hold(n, b, ok)
       /\ commits' = IF b # NoBlock /\ ok THEN commits \cup {<<n, b>>} ELSE commits
  /\ target' = [target EXCEPT ![n] = h]
  /\ pc' = [pc EXCEPT ![n] = "Collect"]
  /\ UNCHANGED <<tip, proposed, precommits, nulls, decided>>

\* Mutant: the block is committed as soon as the precommits are complete.
DecideOnPrecommits(n) ==
  /\ pc[n] = "Collect" /\ target[n] # Empty /\ block[n] = target[n]
  /\ Enough(n, precommits, target[n])
  /\ PrevOf[block[n]] = tip[n]
  /\ tip' = [tip EXCEPT ![n] = block[n]]
  /\ decided' = [decided EXCEPT ![n] = @ \cup {block[n]}]
  /\ Again(n)
  /\ UNCHANGED <<proposed, taken, precommits, nulls, commits>>

\* Enough commit votes for the block in hand: commit it, verifying it first if
\* it has not been verified yet (it passes through otherCommitBlocks).
Decide(n) ==
  /\ pc[n] = "Collect" /\ target[n] # Empty /\ block[n] = target[n]
  /\ Enough(n, commits, target[n])
  /\ PrevOf[block[n]] = tip[n]
  /\ tip' = [tip EXCEPT ![n] = block[n]]
  /\ decided' = [decided EXCEPT ![n] = @ \cup {block[n]}]
  /\ Again(n)
  /\ UNCHANGED <<proposed, taken, precommits, nulls, commits>>

\* No majority in time, a null majority, or a block that cannot be committed.
GiveUp(n) ==
  /\ pc[n] \in {"Precommit", "Collect"}
  /\ Again(n)
  /\ UNCHANGED <<tip, proposed, taken, precommits, nulls, commits, decided>>

\* synchronizeTask, at any moment, downloads from m the successor of LastBlock.
Download(n, m) ==
  /\ \E b \in Block :
       /\ b \in {tip[m]} \cup {PrevOf[c] : c \in {tip[m]} \cap Block}
       /\ PrevOf[b] = tip[n]
       /\ tip' = [tip EXCEPT ![n] = b]
  /\ n \in Syncing
  /\ UNCHANGED <<local, proposed, taken, precommits, nulls, commits, decided>>

Next == \E n \in Producer :
  \/ \E b \in Block : Propose(n, b) \/ Precommit(n, b) \/ PrecommitNull(n, b)
                      \/ RestoreLate(n, b)
  \/ \E h \in Block \cup {Empty} : Commit(n, h)
  \/ Decide(n) \/ GiveUp(n)
  \/ \E m \in Producer : Download(n, m)

Spec == Init /\ [][Next]_vars

-----------------------------------------------------------------------------
(* Properties *)

\* The type the C# declarations give the state of every producer.
TypeOK ==
  /\ pc \in [Producer -> {"Synchronize", "Precommit", "Collect"}]
  /\ tip \in [Producer -> Chained]
  /\ proposed \subseteq Block /\ taken \in [Producer -> SUBSET Block]
  /\ block \in [Producer -> Block \cup {NoBlock}]
  /\ validBlock \in [Producer -> BOOLEAN]
  /\ target \in [Producer -> Block \cup {Empty}]
  /\ precommits \subseteq Producer \X Block
  /\ nulls \subseteq Producer \X Chained
  /\ commits \subseteq Producer \X Block
  /\ decided \in [Producer -> SUBSET Block]

Rivals(a, b) == a # b /\ PrevOf[a] = PrevOf[b]

Decided == UNION {decided[n] : n \in Producer}

\* The README's claim for the BFT-DPOS consensus: no forks among producers.
Agreement == \A a, b \in Decided : ~Rivals(a, b)

Revoters(a, b) == {m \in Producer : {<<m, a>>, <<m, b>>} \subseteq commits}

\* What the vote counting does guarantee: whenever rival blocks are committed,
\* at least 2 * Accept - |Producer| producers cast commit votes for both - in
\* different rounds, since no vote names its round and none is remembered.
ForkAccountable ==
  \A a, b \in Decided :
    Rivals(a, b) => Cardinality(Revoters(a, b)) >= 2 * Accept - Cardinality(Producer)

NewCommits == commits' \ commits

\* A producer whose chain only its own loop extends casts a commit vote for
\* successors of its LastBlock only, however long ago it verified the block.
\* So once it has committed a block it never votes for a rival of that block.
VoteOnTip ==
  [][\A n \in Producer \ Syncing, b \in Block :
       <<n, b>> \in NewCommits => PrevOf[b] = tip[n]]_vars
=============================================================================
