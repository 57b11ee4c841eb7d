SPECIFICATION FairSpec
CONSTANTS
  Base = 65536
  MaxTtl = 4
  Dist = 3
  MaxNoise = 2
INVARIANTS
  ProbesVerify
  RightUntilFirstMiss
  AnswersMoveDownOnly
  StopsAtDestination
PROPERTY TraceEnds
CHECK_DEADLOCK FALSE
