SPECIFICATION FairSpec
CONSTANTS
  Chunk = 4
  Total = 10
  Scratch = 3
  SockCap = 3
  PipeCap = 5
PROPERTIES
  ImplementsWriteBench
  Ends
CHECK_DEADLOCK FALSE
