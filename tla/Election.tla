------------------------------- MODULE Election -------------------------------
(***************************************************************************)
(* Rounds, rankings and turns: which producer may make the next block, at  *)
(* which slot, and which list of campaign nodes its block carries on.      *)
(* ProducerSystem.GetProduceTimeSpan, GetNextRoundProduceTimeSpan and      *)
(* TryMakeBlock with its cache nextRoundBlockState; BlockChainSystem's     *)
(* TryStatisticsCampaignNodes, StatisticsCampaignNodes and IsProducer.     *)
(*                                                                         *)
(* Time is counted in slots of Constants.ProduceTimeSpan: a block at slot s *)
(* has Timestamp 2 * s, the genesis block slot 0.  Real time is not kept: a *)
(* wait may end at any moment.  CampaignNodeRecord is not part of           *)
(* HashWorldState: no verifier compares it with the maker's.                *)
(***************************************************************************)
EXTENDS Integers, Sequences, FiniteSets

CONSTANTS
  Node,     \* campaign nodes
  N,        \* Constants.MinProducerCount
  Small,    \* small rounds in a big round: BigRoundSeconds / SmallRoundSeconds
  Ranking,  \* rankings the votes may lead to
  First,    \* the ranking of the genesis block
  Late,     \* nodes that may obtain blocks by synchronizeTask, not by votes
  NoCache,  \* null
  MaxSlot   \* bound: the last slot

Rankings == {r \in Seq(Node) : Len(r) >= N}

ASSUME ElectionAssumption ==
  /\ IsFiniteSet(Node) /\ Late \subseteq Node
  /\ N \in Nat \ {0} /\ Small \in Nat \ {0} /\ MaxSlot \in Nat
  /\ Ranking \subseteq Rankings /\ Ranking # {} /\ First \in Ranking
  /\ NoCache \notin Seq(Ranking)

VARIABLES
  last,   \* slot of LastBlock
  tally,  \* ranking that a count over the world state of LastBlock gives
  record, \* CampaignNodeRecord of each node: its last three rankings
  cache,  \* nextRoundBlockState of each node: the record it holds
  resting, \* nodes whose myBlockTimer has not run long enough
  made    \* history: slot of the last block each node has made

vars == <<last, tally, record, cache, resting, made>>

-----------------------------------------------------------------------------
\* Block.SmallRound and Block.BigRound; the genesis block is in round 0.
SmallRound(s) == IF s = 0 THEN 0 ELSE (s - 1) \div N + 1
BigRound(s)   == IF s = 0 THEN 0 ELSE (s - 1) \div (N * Small) + 1
IndexInRound(s) == IF s = 0 THEN 0 ELSE (s - 1) % N

\* SortedCampaignNodes: the oldest ranking in the record is in force.
SortedCampaignNodes(rec) == rec[1]

Leaders(rec) == {SortedCampaignNodes(rec)[i] : i \in 1 .. N}

\* The index of a leader, from 0.
IndexOf(rec, n) == (CHOOSE i \in 1 .. N : SortedCampaignNodes(rec)[i] = n) - 1

\* StatisticsCampaignNodes: a new ranking, and at most three are kept.
Statistics(rec) ==
  IF Len(rec) = 3 THEN Append(Tail(rec), tally) ELSE Append(rec, tally)

\* Mutant: the wrap to the next small round is one slot short.
GetProduceTimeSpanShort(n) ==
  LET index     == IndexOf(record[n], n)
      lastIndex == IndexInRound(last)
  IN  IF last = 0 \/ index = lastIndex THEN 0
      ELSE IF index > lastIndex THEN index - lastIndex
      ELSE IF SmallRound(last) % Small = 0 THEN 0 ELSE index - lastIndex + N - 1

\* GetProduceTimeSpan for one of the leaders, in slots; 0 is null.
GetProduceTimeSpan(n) ==
  LET index     == IndexOf(record[n], n)
      lastIndex == IndexInRound(last)
  IN  IF last = 0 \/ index = lastIndex THEN 0
      ELSE IF index > lastIndex THEN index - lastIndex
      ELSE IF SmallRound(last) % Small = 0 THEN 0 ELSE index - lastIndex + N

\* Mutants: the position of the last block is left out, or the round's length.
NextRoundSpanFromLast(n, rec) == IndexOf(rec, n) + 1
NextRoundSpanSameRound(n, rec) ==
  IF last = 0 THEN IndexOf(rec, n) + 1 ELSE IndexOf(rec, n) - IndexInRound(last)

\* GetNextRoundProduceTimeSpan for a leader of the record that was counted.
NextRoundSpan(n, rec) ==
  IF last = 0 THEN IndexOf(rec, n) + 1 ELSE N - IndexInRound(last) + IndexOf(rec, n)

\* TryMakeBlock throws NoProductionAuthorityException: n is no leader now.
NoAuthority(n) == cache[n] = NoCache /\ n \notin Leaders(record[n])

\* TryMakeBlock finds no slot left for n in this big round: it counts the votes.
MustCount(n) == cache[n] = NoCache /\ ~NoAuthority(n) /\ GetProduceTimeSpan(n) = 0

\* The record TryMakeBlock gives to the block, once n has waited long enough.
BlockRecord(n) == IF cache[n] = NoCache THEN record[n] ELSE cache[n]

\* The slots n waits for; 0 when n makes no block.
Span(n) ==
  IF NoAuthority(n) THEN 0
  ELSE IF cache[n] = NoCache THEN GetProduceTimeSpan(n)
  ELSE IF n \in Leaders(cache[n]) THEN NextRoundSpan(n, cache[n]) ELSE 0

\* IsProducer, as m evaluates it against its LastBlock.
IsProducer(m, n) == n \in Leaders(record[m])

Init ==
  /\ last = 0 /\ tally \in Ranking
  /\ record = [n \in Node |-> <<First>>]
  /\ cache = [n \in Node |-> NoCache]
  /\ resting = {}
  /\ made = [n \in Node |-> 0]

\* TryMakeBlock counts the votes of the next round and keeps the result.
Count(n) ==
  /\ n \notin resting /\ MustCount(n)
  /\ cache' = [cache EXCEPT ![n] = Statistics(record[n])]
  /\ UNCHANGED <<last, tally, record, resting, made>>

\* What verifying the block at slot s leaves in the record of a node.
Verified(rec, s) == IF BigRound(s) = BigRound(last) THEN rec ELSE Statistics(rec)

\* TryMakeBlock makes a block that every other node verifies and that is
\* committed.  The nodes in late obtain it by download: the loop does not reach
\* the end of its iteration, where nextRoundBlockState is reset.
Make(n, late) ==
  /\ n \notin resting /\ Span(n) > 0 /\ last + Span(n) <= MaxSlot
  /\ \A m \in Node \ {n} : IsProducer(m, n)
  /\ last' = last + Span(n)
  /\ made' = [made EXCEPT ![n] = last']
  /\ record' = [m \in Node |-> IF m = n THEN BlockRecord(n)
                                        ELSE Verified(record[m], last')]
  /\ cache' = [m \in Node |-> IF m \in late THEN cache[m] ELSE NoCache]
  /\ resting' = resting \cup {n}
  /\ tally' \in Ranking

\* It makes a block that is not committed.
MakeInVain(n) ==
  /\ n \notin resting /\ Span(n) > 0
  /\ cache' = [cache EXCEPT ![n] = NoCache]
  /\ resting' = resting \cup {n}
  /\ UNCHANGED <<last, tally, record, made>>

\* myBlockTimer has run for MaxProducerCount slots less the allowed offset.
Rested(n) ==
  /\ n \in resting
  /\ resting' = resting \ {n}
  /\ UNCHANGED <<last, tally, record, cache, made>>

Next ==
  \E n \in Node :
    \/ Count(n)
    \/ \E late \in SUBSET (Late \ {n}) : Make(n, late)
    \/ MakeInVain(n)
    \/ Rested(n)

Spec == Init /\ [][Next]_vars

-----------------------------------------------------------------------------
(* Properties *)

\* A producer makes one block in a small round at most ("one producer is
\* responsible for 3 rounds"), although the rank it goes by may change with
\* every count and its cached count may be out of date.
OncePerRound ==
  [][\A n \in Node : made'[n] # made[n] /\ made[n] # 0 =>
       SmallRound(made'[n]) > SmallRound(made[n])]_vars

\* n finds a slot for a block, now or after counting the votes, and the others
\* accept it as a producer.
CanProduce(n) ==
  /\ \A m \in Node \ {n} : IsProducer(m, n)
  /\ \/ Span(n) > 0
     \/ MustCount(n) /\ n \in Leaders(Statistics(record[n]))

\* n is among the producers of every list that a node has recorded or counted.
StaysLeader(n) ==
  \A m \in Node : \A rec \in {record[m], cache[m]} \ {NoCache} :
    \A i \in DOMAIN rec : n \in {rec[i][j] : j \in 1 .. N}

\* The chain is not stuck: a node that is a producer by all the lists in the
\* records can go on, whoever else is voted in or out, however the records and
\* the counts of the nodes differ.  Without such a node it may be stuck: one who
\* is newly elected has no authority yet, one voted out has no slot any more.
SomeoneCanProduce == \A n \in Node : StaysLeader(n) => CanProduce(n)

\* Blocks are produced in the order of the votes: the slot of a block is its
\* maker's rank in the list that the maker has in force with it.
InTurn ==
  [][\A n \in Node : made'[n] # made[n] =>
       SortedCampaignNodes(record'[n])[IndexInRound(last') + 1] = n]_vars

=============================================================================
