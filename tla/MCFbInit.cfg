SPECIFICATION Spec
CONSTANTS
  Framebuffers <- MCFramebuffers
  GlyphWidth = 2
  GlyphHeight = 1
  FixedSize <- MCFixedSize
  CellSize <- MCCellSize
  PoolSize = 130
  MaxTerminals = 3
INVARIANTS
  FreesExact
  NothingLeaked
  PoolExact
\* Without a context the label fail reads through NULL.
CHECK_DEADLOCK FALSE
