SPECIFICATION Spec
CONSTANTS
  Peer = {p1}
  Block = {"a2", "b2", "a3", "b3"}
  Genesis = "g1"
  PrevOf <- MCPrevOf
  HeightOf <- MCHeightOf
  Valid = {"a2", "b2", "a3"}
  Mine = {"a3"}
  Proposed = {"a2", "b2", "a3", "b3"}
  Certifiable = {"a2", "b2", "a3"}
  Accept = 1
  Miss = 1
  MaxCount = 1
  NoBlock = "none"
  Empty = "empty"
  Corrupt = "corrupt"
INVARIANTS CommitVoteVerified
PROPERTIES IsChain LoopKeepsState
CHECK_DEADLOCK FALSE
