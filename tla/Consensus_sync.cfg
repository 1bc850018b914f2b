SPECIFICATION Spec
CONSTANTS
  p1 = p1
  p2 = p2
  Producer = {p1, p2, p3, p4}
  Block = {"a2", "b2"}
  Genesis = "g1"
  PrevOf <- MCPrevOf
  MakerOf <- MCMakerOf
  Syncing = {p3, p4}
  Late = {p2}
  Accept = 2
  NoBlock = "none"
  Empty = "empty"
SYMMETRY ProducerSymmetry
INVARIANTS TypeOK
PROPERTIES VoteOnTip
CHECK_DEADLOCK FALSE
