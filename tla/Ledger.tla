-------------------------------- MODULE Ledger --------------------------------
(***************************************************************************)
(* Transactions and the world state: BlockChainSystem.ExecuteTransaction,  *)
(* as ProducerSystem.TryMakeBlock runs it to fill a block and as           *)
(* VerifyExecuteBlock runs it again on the other producers.                *)
(*                                                                         *)
(* A block is verified in lock step with its making: `work` is the maker's *)
(* PrecommitState.WorldState, `replay` that of a verifier, which executes  *)
(* the transactions the maker put into the block and no others.  Comparing *)
(* HashWorldState is comparing the two.  Contract calls are left out.      *)
(***************************************************************************)
EXTENDS Integers, Sequences, FiniteSets, FiniteSetsExt, SequencesExt

CONSTANTS
  Address,
  Producer,       \* addresses that may make a block
  Campaign,       \* SortedCampaignNodes, as a set
  Tx,             \* transactions that may be in the pool
  InitWorld,      \* the world state of the first block
  Absent,         \* the account is not in the tree
  Fee,            \* BaseGasUsed * GasPrice
  MaxFee,         \* GasLimit * GasPrice
  MinPledge,      \* Constants.MinSuperPledgeCoin
  MinIncrement,   \* Constants.MinSuperPledgeIncrement
  MinVote,        \* Constants.MinVotePledgeCoin
  Year,           \* Constants.YearSeconds
  VotePledgeTime, \* Constants.VotePledgeSeconds
  RoundTime,      \* Constants.BigRoundSeconds
  VoteSize,       \* 2^64: Votes is a ulong and wraps
  MaxTime,        \* bound: the last timestamp
  MaxTx           \* bound: transactions in a block

Coins == Nat
LockStatus == [value : Coins, unlock : Nat]

UserState ==
  [balance : Coins, nonce : Nat, votePledge : Coins, voteFor : Seq(Address),
   voteTime : Nat, superPledge : Coins, superTime : Nat, votes : Nat,
   locks : Seq(LockStatus)]

Kinds == {"transfer", "pledge", "redeem", "vote", "unvote", "lock"}

TxType ==
  [from : Address, nonce : Nat, to : Address, value : Coins, kind : Kinds,
   voteFor : Seq(Address), round : Nat, unlock : Nat]

ASSUME LedgerAssumption ==
  /\ IsFiniteSet(Address) /\ Producer \subseteq Address /\ Campaign \subseteq Address
  /\ Tx \subseteq TxType
  /\ InitWorld \in [Address -> UserState \cup {Absent}] /\ Absent \notin UserState
  /\ {Fee, MaxFee, MinPledge, MinIncrement, Year, VotePledgeTime, MaxTime,
      MaxTx} \subseteq Nat
  /\ MaxFee >= Fee /\ MinVote \in Nat \ {0} /\ RoundTime \in Nat \ {0}
  /\ VoteSize \in Nat \ {0}

VARIABLES
  world,    \* WorldState of LastBlock
  time,     \* Timestamp of LastBlock
  pc,       \* "idle", or "making" a block
  producer, \* its ProducerAddress
  now,      \* its Timestamp
  work,     \* the maker's world state
  replay,   \* a verifier's world state
  agreed,   \* the verifier has executed every transaction without exception
  size      \* transactions in the block

vars == <<world, time, pc, producer, now, work, replay, agreed, size>>

-----------------------------------------------------------------------------
(* ExecuteTransaction(block, tx), where w is PrecommitState.WorldState, p and ts *)
(* the block's producer and timestamp                                       *)

Fresh == [balance |-> 0, nonce |-> 0, votePledge |-> 0, voteFor |-> <<>>,
          voteTime |-> 0, superPledge |-> 0, superTime |-> 0, votes |-> 0,
          locks |-> <<>>]

Rounds(ts) == ts \div RoundTime + 1

\* The locks at the head of the list that have expired: the scan stops at the
\* first that has not.
Expired(locks, ts) ==
  CHOOSE n \in 0 .. Len(locks) :
    /\ \A i \in 1 .. n : locks[i].unlock <= ts
    /\ n < Len(locks) => locks[n + 1].unlock > ts

LockedCoins(locks) == SumFunction([i \in DOMAIN locks |-> locks[i].value])

\* fromState with its expired locks paid out.
Unlocked(acc, ts) ==
  LET n == Expired(acc.locks, ts) IN
    [acc EXCEPT !.balance = @ + LockedCoins(SubSeq(acc.locks, 1, n)),
                !.locks = SubSeq(@, n + 1, Len(@))]

\* "goto Invalid" or an exception before anything is written.
Refused(w, p, ts, tx) ==
  \/ Absent \in {w[tx.from], w[p]}
  \/ w[tx.from].nonce # tx.nonce
  \/ Unlocked(w[tx.from], ts).balance < MaxFee

Paid(w, ts, tx) == [Unlocked(w[tx.from], ts) EXCEPT !.balance = @ - Fee]

Rewarded(w, p) == [w[p] EXCEPT !.balance = @ + Fee]

Removable(acc) ==
  /\ acc.balance = 0 /\ acc.votePledge = 0 /\ acc.superPledge = 0
  /\ acc.votes = 0 /\ acc.locks = <<>>

\* SetFromState.
SetFromState(w, a, acc) ==
  [w EXCEPT ![a] = IF Removable(acc) THEN Absent ELSE acc]

\* Both ends of the method, success and Fail: the producer's account is written,
\* then the sender's; p is the state of the producer's account before tx.
Settle(w, p, reward, tx, acc) == SetFromState([w EXCEPT ![p] = reward], tx.from, acc)

\* Mutant: the value is not taken from the sender.
DebitedFree(acc, tx) == [acc EXCEPT !.nonce = @ + 1]

Debited(acc, tx) == [acc EXCEPT !.balance = @ - tx.value, !.nonce = @ + 1]

IsCampaignNode(acc, ts) == acc.superPledge >= MinPledge /\ ts - acc.superTime < Year

\* Mutant: a lock goes to the end of the list.
InsertLockAtEnd(locks, lock) == Append(locks, lock)

\* Locks stay sorted by the time they expire.
InsertLock(locks, lock) ==
  LET later == {i \in DOMAIN locks : locks[i].unlock >= lock.unlock}
      i == IF later = {} THEN Len(locks) + 1
                         ELSE CHOOSE j \in later : \A k \in later : j <= k
  IN  InsertAt(locks, i, lock)

\* mpt[addr] for every address voted for so far: it throws if one is missing.
OldVotesPresent(w, acc) == \A a \in Range(acc.voteFor) : w[a] # Absent

\* The addresses of voteFor before the first that is missing.
Reached(w, acc) ==
  {acc.voteFor[i] : i \in {j \in DOMAIN acc.voteFor :
                             \A k \in 1 .. j : w[acc.voteFor[k]] # Absent}}

\* Mutant: votes are never taken back.
AddVotesOnlyUp(w, addrs, n) ==
  [a \in Address |-> IF a \in addrs /\ n > 0
                       THEN [w[a] EXCEPT !.votes = (@ + n) % VoteSize] ELSE w[a]]

AddVotes(w, addrs, n) ==
  [a \in Address |-> IF a \in addrs
                       THEN [w[a] EXCEPT !.votes = (@ + n) % VoteSize] ELSE w[a]]

Unelectable(w, ts, a) ==
  a \notin Campaign \/ w[a] = Absent \/ IsCampaignNode(w[a], ts)

\* The calls of Fail, by kind of transaction; acc has paid the fee.
Fails(w, ts, tx, acc) ==
  \/ acc.balance < tx.value
  \/ /\ tx.kind = "pledge"
     /\ \/ acc.superPledge = 0 /\ tx.value < MinPledge
        \/ acc.superPledge >= MinPledge /\ tx.value < MinIncrement
  \/ /\ tx.kind = "redeem"
     /\ \/ tx.value # 0 \/ acc.superPledge < MinPledge
        \/ ts - acc.superTime < Year
  \/ /\ tx.kind = "vote" /\ tx.round = Rounds(ts)
     /\ \/ tx.value < MinVote
        \/ ~IsInjective(tx.voteFor)
        \/ OldVotesPresent(w, acc) /\ \E a \in Range(tx.voteFor) : Unelectable(w, ts, a)
  \/ /\ tx.kind = "unvote"
     /\ \/ tx.value # 0 \/ acc.votePledge = 0
        \/ ts - acc.voteTime < VotePledgeTime

\* "goto Invalid" or an exception later on: a vote redemption has taken votes
\* back from the addresses before the missing one.
Throws(w, ts, tx, acc) ==
  \/ tx.kind = "vote" /\ (tx.round # Rounds(ts) \/ ~OldVotesPresent(w, acc))
  \/ tx.kind = "unvote" /\ ~OldVotesPresent(w, acc)

Torn(w, tx, acc) ==
  IF tx.kind = "unvote" THEN AddVotes(w, Reached(w, acc), - acc.votePledge) ELSE w

IsTransfer(ts, tx) ==
  tx.kind = "transfer" \/ (tx.kind = "lock" /\ tx.unlock <= ts)

Receiver(w, tx) == IF w[tx.to] = Absent THEN Fresh ELSE w[tx.to]

\* What the switch writes to accounts other than those of Settle.
Spread(w, ts, tx, acc) ==
  CASE IsTransfer(ts, tx) ->
         [w EXCEPT ![tx.to] = [Receiver(w, tx) EXCEPT !.balance = @ + tx.value]]
    [] tx.kind = "lock" /\ tx.unlock > ts ->
         [w EXCEPT ![tx.to] = [Receiver(w, tx) EXCEPT !.locks =
             InsertLock(@, [value |-> tx.value, unlock |-> tx.unlock])]]
    [] tx.kind = "vote" ->
         AddVotes(AddVotes(w, Range(acc.voteFor), - acc.votePledge),
                  Range(tx.voteFor), acc.votePledge + tx.value)
    [] tx.kind = "unvote" -> AddVotes(w, Range(acc.voteFor), - acc.votePledge)
    [] OTHER -> w

\* What it does to fromState.
Changed(ts, tx, acc) ==
  CASE tx.kind = "pledge" ->
         [acc EXCEPT !.superPledge = @ + tx.value, !.superTime = ts]
    [] tx.kind = "redeem" ->
         [acc EXCEPT !.balance = @ + acc.superPledge, !.superPledge = 0, !.superTime = 0]
    [] tx.kind = "vote" ->
         [acc EXCEPT !.votePledge = @ + tx.value, !.voteFor = tx.voteFor, !.voteTime = ts]
    [] tx.kind = "unvote" ->
         [acc EXCEPT !.balance = @ + acc.votePledge, !.votePledge = 0,
                     !.voteFor = <<>>, !.voteTime = 0]
    [] OTHER -> acc

\* The world after the call, and whether it returns: Fail throws inside the try
\* block, so the catch at its end turns every failure into an
\* InvalidTransactionException - after Fail has written both accounts.
ExecuteTransaction(w, p, ts, tx) ==
  IF Refused(w, p, ts, tx) THEN [world |-> w, done |-> FALSE]
  ELSE LET paid == Paid(w, ts, tx)
           acc  == Debited(paid, tx)
       IN  IF Fails(w, ts, tx, paid)
             THEN [world |-> Settle(w, p, Rewarded(w, p), tx, paid), done |-> FALSE]
           ELSE IF Throws(w, ts, tx, acc)
             THEN [world |-> Torn(w, tx, acc), done |-> FALSE]
           ELSE [world |-> Settle(Spread(w, ts, tx, acc), p, Rewarded(w, p), tx,
                                  Changed(ts, tx, acc)),
                 done |-> TRUE]

\* All the coins of an account, and of all accounts.
Worth(acc) ==
  IF acc = Absent THEN 0
  ELSE acc.balance + acc.votePledge + acc.superPledge + LockedCoins(acc.locks)

Supply(w) == SumFunction([a \in Address |-> Worth(w[a])])

\* Config.GenesisUsers hold coins but no locks and no votes, and BlockChainSystem
\* counts in ulong what they hold together.
ASSUME GenesisAssumption ==
  /\ \A a \in Address : InitWorld[a] # Absent =>
       /\ InitWorld[a].locks = <<>> /\ InitWorld[a].voteFor = <<>>
       /\ InitWorld[a].votePledge = 0 /\ InitWorld[a].votes = 0
  /\ Supply(InitWorld) < VoteSize

-----------------------------------------------------------------------------
Init ==
  /\ world = InitWorld /\ time = 0
  /\ pc = "idle" /\ producer \in Producer /\ now = 0
  /\ work = world /\ replay = world /\ agreed = TRUE /\ size = 0

\* TryMakeBlock starts from LastBlock's state; so does VerifyExecuteBlock.
OpenBlock(p, t) ==
  /\ pc = "idle" /\ t > time
  /\ pc' = "making" /\ producer' = p /\ now' = t
  /\ work' = world /\ replay' = world /\ agreed' = TRUE /\ size' = 0
  /\ UNCHANGED <<world, time>>

\* A vote for a later round goes back to the pool unexecuted.
Ready(tx) == tx.kind = "vote" => tx.round <= Rounds(time)

\* TryMakeBlock executes a transaction of the pool and puts it into the block.
Include(tx) ==
  /\ pc = "making" /\ size < MaxTx /\ Ready(tx)
  /\ LET made == ExecuteTransaction(work, producer, now, tx)
         seen == ExecuteTransaction(replay, producer, now, tx)
     IN  /\ made.done
         /\ work' = made.world /\ replay' = seen.world
         /\ agreed' = (agreed /\ seen.done)
  /\ size' = size + 1
  /\ UNCHANGED <<world, time, pc, producer, now>>

\* It is invalid: TryMakeBlock goes on without it.
Skip(tx) ==
  /\ pc = "making" /\ size < MaxTx /\ Ready(tx)
  /\ LET made == ExecuteTransaction(work, producer, now, tx)
     IN  ~made.done /\ work' = made.world
  /\ UNCHANGED <<world, time, pc, producer, now, replay, agreed, size>>

\* The block is complete.  It is committed if the verifiers arrive at its
\* HashWorldState, and comes to nothing otherwise.
Seal ==
  /\ pc = "making"
  /\ pc' = "idle"
  /\ IF agreed /\ work = replay THEN world' = work /\ time' = now
                                ELSE UNCHANGED <<world, time>>
  /\ work' = world' /\ replay' = world'
  /\ UNCHANGED <<producer, now, agreed, size>>

Next ==
  \/ \E p \in Producer, t \in 1 .. MaxTime : OpenBlock(p, t)
  \/ \E tx \in Tx : Include(tx) \/ Skip(tx)
  \/ Seal

Spec == Init /\ [][Next]_vars

-----------------------------------------------------------------------------
(* Properties *)

World == [Address -> UserState \cup {Absent}]

\* The types of the C# declarations; amounts that wrapped below 0 are not Coins.
TypeOK ==
  /\ {world, work, replay} \subseteq World
  /\ time \in 0 .. MaxTime /\ now \in 0 .. MaxTime /\ size \in 0 .. MaxTx
  /\ pc \in {"idle", "making"} /\ producer \in Producer /\ agreed \in BOOLEAN

Separate(p, tx) == p # tx.from /\ tx.to \notin {p, tx.from}

\* A transaction never creates coins, whether it succeeds, fails half way or is
\* refused; and when sender, receiver and producer are three accounts it loses
\* none either.  (The copies of fromState and producerState overwrite each
\* other's account, or the receiver's, when they are not.)
SupplyKept ==
  [][pc = "making" /\ pc' = "making" =>
       /\ Supply(work') <= Supply(work)
       /\ Supply(work') # Supply(work) =>
            \A tx \in Tx : Include(tx) \/ Skip(tx) => ~Separate(producer, tx)]_vars

Sorted(locks) ==
  \A i, j \in DOMAIN locks : i < j => locks[i].unlock <= locks[j].unlock

\* No amount of an account wraps below 0, and its list of locks is sorted by
\* expiry, which the scan in ExecuteTransaction relies on: no expired lock is
\* ever left behind one that has not expired (BlockChainSystem.cs 303-319, 429-440).
AccountsSound ==
  /\ TypeOK
  /\ \A a \in Address : world[a] # Absent => Sorted(world[a].locks)

\* The coins pledged for a.
PledgeFor(acc, a) ==
  IF acc # Absent /\ a \in Range(acc.voteFor) THEN acc.votePledge ELSE 0
PledgedFor(w, a) == SumFunction([v \in Address |-> PledgeFor(w[v], a)])

\* Accounts that no stale copy can overwrite: they do not make blocks and no
\* transaction of theirs is a vote for themselves.
Passive == {a \in Address \ Producer :
              \A tx \in Tx : tx.from = a => a \notin Range(tx.voteFor)}

\* Votes, the weight a campaign node is ranked by, is the number of coins that
\* are pledged for it, over votes, changes of votes and redemptions.
VotesBacked ==
  \A a \in Passive : world[a] # Absent => world[a].votes = PledgedFor(world, a)

\* The weight of the votes an account has received (the comment on Votes) is
\* never more than the coins that are pledged for it.
VotesCovered ==
  \A a \in Address : world[a] # Absent => world[a].votes <= PledgedFor(world, a)

\* A verifier that executes the transactions of an honest block arrives at the
\* state the maker put into the header.
HonestBlockVerifies == agreed /\ work = replay
=============================================================================
