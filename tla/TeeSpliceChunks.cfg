SPECIFICATION Spec
CONSTANTS
  FileCount = 1
  BufSize = 2
  StdinCap = 2
  PipeCap = 2
  MaxBytes = 3
INVARIANT FilesGetEveryChunk
CHECK_DEADLOCK FALSE
