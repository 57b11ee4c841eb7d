SPECIFICATION Spec
CONSTANTS
  Chains <- ShortChains
  Limits = {0, 2, 5, 100}
  Prealloc = 2
  MaxLimit = 8
  MaxHeaders = 3
  MaxBody = 3
  MaxTrailers = 3
  Cap = 2
  MaxLen = 2
INVARIANTS
  ChainIsTheRest
  LenIsTruth
  CorkHeldOnlyBy
  ResultIsTruth
PROPERTY LoopEndsForAReason
CHECK_DEADLOCK FALSE
