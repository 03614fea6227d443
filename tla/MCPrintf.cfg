SPECIFICATION PrintfSpec
CONSTANTS
  IntLimit = 128
  PtrLimit = 256
  IntBuffer = 5
  PtrBuffer = 6
  Formats <- MCFormats
  Behind <- MCBehind
INVARIANTS
  BuffersHold
  PrintsAsMeant
\* printf returns.
CHECK_DEADLOCK FALSE
