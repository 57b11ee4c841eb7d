SPECIFICATION ProxiesSpec
CONSTANTS
  Chunk = 4
  PipeCap = 3
  MaxBytes = 7
INVARIANTS
  SkewWithinOneChunk
  PipesHoldTheRest
  TeeNeverShort
PROPERTIES
  ImplementsBroadcast
  StopsWithItsSource
CHECK_DEADLOCK FALSE
