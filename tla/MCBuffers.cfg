SPECIFICATION BuffersSpec
CONSTANTS
  SizeMax = 127
  HeapMax = 63
  Strings = {s, x}
  Chars = {a, b}
  Small = 3
  MaxLen = 4
  Nul = Nul
  Junk = Junk
  Free = Free
  Unset = Unset
  Size = 16
  Chunk = 4
  Total = 10
  Scratch = 3
  SockCap = 3
  PipeCap = 5
INVARIANTS
  NeverStray
  OwnsItsBlock
  TextStaysWhole
  FileAsGifted
  PipeMatchesLoop
CHECK_DEADLOCK FALSE
