SPECIFICATION FairSpec
CONSTANTS
  Chunk = 2
  PipeCap = 2
  MaxBytes = 1
PROPERTY StopsAfterSource
CHECK_DEADLOCK FALSE
