SPECIFICATION FairSpec
CONSTANTS
  Target <- AnyTarget
  MaxDict = 3
  PipeSize = 2
  MapLen = 3
  SharedInput = TRUE
INVARIANTS
  InStep
  Established
  AcceptsExactly
PROPERTIES
  StartEnds
