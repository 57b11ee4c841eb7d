SPECIFICATION Spec
CONSTANTS
  Chunk = 2
  MaxBytes = 2
INVARIANT EveryByteDelivered
CHECK_DEADLOCK FALSE
