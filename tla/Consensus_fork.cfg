SPECIFICATION Spec
CONSTANTS
  p1 = p1
  p2 = p2
  Producer = {p1, p2, p3, p4, p5}
  Block = {"a2", "b2"}
  Genesis = "g1"
  PrevOf <- MCPrevOf
  MakerOf <- MCMakerOf
  Syncing = {}
  Late = {}
  Accept = 3
  NoBlock = "none"
  Empty = "empty"
SYMMETRY ProducerSymmetry
INVARIANTS Agreement
CHECK_DEADLOCK FALSE
