SPECIFICATION FairSpec
CONSTANTS
  Limit = 2
  Chunk = 2
  MaxWritten = 3
  SmallRequest = TRUE
CHECK_DEADLOCK FALSE
PROPERTIES AlwaysReturns
