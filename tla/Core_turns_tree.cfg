SPECIFICATION MCSpec
CONSTANTS
  Node = {1, 2, 3, 4, 5}
  N = 3
  Small = 2
  Ranking <- MCRankings
  First <- MCFirst
  Late = {3}
  NoCache = NoCache
  MaxSlot = 13
  Absent = Absent
INVARIANTS SomeoneCanProduce ContentsDecide
PROPERTIES OncePerRound InTurn MapsDictionary
CHECK_DEADLOCK FALSE
