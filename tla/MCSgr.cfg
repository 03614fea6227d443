SPECIFICATION SgrSpec
CONSTANTS
  Palette = {1}
  Indices = {9}
  Lists <- MCLists
  SaveBound <- MCSaveBound
INVARIANTS
  ColoursAsAsked
  OperandsAreNotAttributes
