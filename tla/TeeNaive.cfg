SPECIFICATION FairSpec
CONSTANTS
  FileCount = 3
  BufSize = 3
  MaxBytes = 6
INVARIANTS
  SkewWithinOneBuffer
  NothingCopiedBeforeAllOpen
PROPERTIES
  ImplementsBroadcast
  EveryByteCopied
CHECK_DEADLOCK FALSE
