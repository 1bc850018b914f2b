SPECIFICATION MCSpec
CONSTANTS
  FieldBits = 8
  Polynomial = 285
  Lanes = 3
  BlockData <- SampleBlock
  Outcomes <- Restorations
  TotalCount = 4
  RestoreCount = 3
  Threads = {t1, t2}
  Arrivals = 2
  Absent = Absent
SYMMETRY MCSymmetry
INVARIANTS Collected ChipsRestore LogRecovers WalksTables CacheConsistent EditsReadBack ArithmeticAgrees
PROPERTIES ImplementsCursor ReadsWhole
CHECK_DEADLOCK FALSE
