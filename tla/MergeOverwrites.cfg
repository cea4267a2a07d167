SPECIFICATION MergeSpec
CONSTANTS
  FirstBlocks <- SomeFirst
  Blocks <- SomeBlocks
  MaxBlock = 50
  MaxBlocks = 4
  Buffer = 22
  InPlace = {TRUE}
  MaxMerged = 4
CHECK_DEADLOCK FALSE
INVARIANT
  CaptureSurvives
