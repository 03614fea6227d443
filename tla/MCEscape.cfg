SPECIFICATION Spec
CONSTANTS
  Alphabet = {"ESC", "CSI", "[", "]", "?", "4", ";", "h", "J", "c", "7", "8", ")",
              "B", "SO", "BEL", "backslash", "CAN", "lead3", "cont"}
  MaxText = 3
  MaxValues = 2
  Width = 8
INVARIANTS
  TypeOK
  ParametersRead
  ModesExclude
  CharactersWellFormed
