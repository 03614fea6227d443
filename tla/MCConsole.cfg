SPECIFICATION Spec
CONSTANTS
  Rows = 3
  Cols = 4
  Messages <- MCMessages
  ErrorAt <- MCErrorAt
  Vectors = {2, 14}
  MaxRaised = 2
INVARIANTS
  QueueSound
  PaperShown
  ErrorShown
\* _start ends in hlt, the error screen too.
CHECK_DEADLOCK FALSE
