SPECIFICATION FairSpec
CONSTANTS
  FileCount = 2
  BufSize = 3
  StdinCap = 4
  PipeCap = 2
  MaxBytes = 4
INVARIANTS
  FilesEqualStdoutUnlessUpset
  FilesOrderedUnlessForwardShort
  NeverStuckOnOwnPipe
PROPERTIES
  StdoutImplementsBroadcast
  EveryByteForwarded
CHECK_DEADLOCK FALSE
