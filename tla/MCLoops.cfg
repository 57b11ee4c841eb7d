SPECIFICATION LoopsSpec
CONSTANTS
  NsPerSec = 3
  Interval = 4
  Iterations = 3
  ClockMax = 16
  Buf = 2
  StdinCap = 3
  Files = {f, g}
  QueueMax = 2
  BatchMax = 2
  None = None
  Block = 3
  Probe = 2
  MaxSize = 14
  Clients = {c, d}
  NaiveCalls = 3
  ReadMax = 2
  MaxRequest = 3
  FileSize = 5
  Chunk = 2
  PipeCap = 3
  MaxBytes = 5
  MaxFails = 1
INVARIANTS
  OnSchedule
  NoticedUnless
  KilledOnlyByLeaver
  ExactUnlessShort
  LogFollowsStdout
PROPERTIES
  Heard
  WatchedUnless
  ListsTheHoles
  ServedUnlessHeld
CHECK_DEADLOCK FALSE
