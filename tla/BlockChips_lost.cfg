SPECIFICATION Spec
CONSTANTS
  FieldBits = 8
  Polynomial = 285
  Lanes = 16
  BlockData <- SampleBlock
  Outcomes <- Restorations
  TotalCount = 15
  RestoreCount = 10
  Threads = {t1}
  Arrivals = 1
INVARIANT EnoughChipsRestore
CHECK_DEADLOCK FALSE
