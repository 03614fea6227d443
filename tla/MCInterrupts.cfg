SPECIFICATION Spec
CONSTANTS
  Faults = {2, 8, 13, 14}
  Devices = {32}
  MaxDepth = 3
  MaxRaised = 4
INVARIANTS
  TypeOK
  HandlerSeesFrame
  DevicesNeverNest
PROPERTIES
  ResumesExactly
  NeverBackFromFatal
  ComesToRest
\* _start ends in hlt, a page fault in the error screen.
CHECK_DEADLOCK FALSE
