SPECIFICATION Spec
CONSTANTS
  Memmaps <- MCMemmaps
  MaxFreeRegions = 4
  Clients <- MCClients
  RequestSizes = {1, 2}
  FrameLimit = 7
  c1 = c1
  c2 = c2
  c3 = c3
SYMMETRY ClientSymmetry
INVARIANTS
  TypeOK
  Partition
  PagesConserved
  CountNeverWraps
PROPERTIES
  ImplementsAllocator
  FreedBlockIsReusable
\* A full free list, or a request nothing can serve, halts the processor.
CHECK_DEADLOCK FALSE
