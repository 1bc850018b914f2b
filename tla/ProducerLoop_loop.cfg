SPECIFICATION FairSpec
CONSTANTS
  Peer = {p1, p2}
  Block = {"a2", "a3"}
  Genesis = "g1"
  PrevOf <- MCPrevOf
  HeightOf <- MCHeightOf
  Valid = {"a2"}
  Mine = {}
  Proposed = {"a2","a3","corrupt"}
  Certifiable = {"a2", "a3"}
  Accept = 2
  Miss = 1
  MaxCount = 2
  NoBlock = "none"
  Empty = "empty"
  Corrupt = "corrupt"
INVARIANTS TypeOK CertificateInv
PROPERTIES LoopReturns PendingDrains CommitCertified
