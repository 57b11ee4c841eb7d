SPECIFICATION Spec
CONSTANTS
  Base = 65536
  MaxTtl = 3
  Dist = 2
  MaxNoise = 1
INVARIANT OnlyKnownTypes
CHECK_DEADLOCK FALSE
