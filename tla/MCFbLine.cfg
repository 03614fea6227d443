SPECIFICATION Spec
CONSTANTS
  Rows = 3
  Cols = 4
  blank = blank
  letter = letter
  canvas = canvas
  black = black
  grey = grey
  Glyphs = {blank, letter}
  Space = blank
  Dots = {1, 2}
  Font <- MCFont
  Colours = {canvas, black, grey}
  Canvas = canvas
  Backdrop = black
  DefaultFg = grey
  Used = {"putchar", "scroll", "margins", "cursor", "move", "clear", "flush"}
  MaxCalls = 5
INVARIANT
  CursorLineOnScreen
\* The bound on calls ends a behaviour.
CHECK_DEADLOCK FALSE
