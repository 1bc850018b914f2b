SPECIFICATION Spec
CONSTANTS
  NumLevels = 4
  L0Trigger = 2
  MaxMemLevel = 2
  MaxFileSize = 1
  BytesForLevel <- MCBytes
  GrandParentLimit = 3
  ExpandLimit = 6
  Keys = {1, 2}
  Writes <- MCWrites
  WriteBufferSize = 1
  StopTrigger = 3
  ManualRanges <- MCRanges
  MaxSeq = 4
  MaxEvents = 2
  MaxWork = 5
INVARIANTS ReadsAnswer PinnedReadsAnswer Openable LevelsDisjoint NewerAbove
PROPERTIES ProcessKeepsAll IsKeyValueStore
CHECK_DEADLOCK FALSE
