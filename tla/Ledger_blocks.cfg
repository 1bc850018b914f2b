SPECIFICATION Spec
CONSTANTS
  Address = {"p", "c", "u", "v"}
  Producer = {"p", "v"}
  Campaign = {"p", "c", "u"}
  Tx <- AllTx
  InitWorld <- MCInitWorld
  Absent = Absent
  Fee = 1
  MaxFee = 1
  MinPledge = 2
  MinIncrement = 1
  MinVote = 1
  Year = 2
  VotePledgeTime = 1
  RoundTime = 10
  VoteSize = 16
  MaxTime = 3
  MaxTx = 2
INVARIANTS AccountsSound VotesBacked
PROPERTIES SupplyKept
CHECK_DEADLOCK FALSE
