SPECIFICATION Spec
CONSTANTS
  Rows = 3
  Cols = 4
  TabSize = 2
  blank = blank
  letter = letter
  Glyphs = {blank, letter}
  Space = blank
  Box = letter
  Colour = "grey"
  Values = {0, 1, 2, 4}
  Pairs <- MCPairs
  MaxDrawn = 3
  SavedAt <- MCSavedAt
INVARIANT
  TypeOK
PROPERTY
  ImplementsConsoleCodes
