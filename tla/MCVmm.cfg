SPECIFICATION Spec
CONSTANTS
  Entries = 3
  Usable <- MCUsable
  Phys = {0, 3, 4, 5, 6, 7, 8}
  CallPages <- MCCallPages
  CallFrames = {0, 4}
  Offered <- MCOffered
  Junk <- MCJunk
  Null = Null
INVARIANTS
  TypeOK
  TreeShaped
  TablesAllocated
  WalkOnPath
  NothingTranslated
PROPERTIES
  ImplementsPageMap
  IdentityRecorded
  CallsEnd
\* Running out of frames halts the processor.
CHECK_DEADLOCK FALSE
