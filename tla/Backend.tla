-------------------------------- MODULE Backend --------------------------------
(***************************************************************************)
(* What the calls of a terminal backend do to the screen, as operators on  *)
(* a record s of                                                           *)
(*   cells       cells[<<x, y>>]: the character there                      *)
(*   cursor      [x, y]; may stand past the last column                    *)
(*   text        [fg, bg] of characters to come                            *)
(*   top, bottom the scroll region: rows top .. bottom - 1                 *)
(*   autoscroll  whether typing past the last column may scroll            *)
(*                                                                         *)
(* Screen makes a state machine of them, which FlantermFb implements;      *)
(* Terminal builds the functions of flanterm.c from them.                  *)
(***************************************************************************)
EXTENDS Integers

CONSTANTS
  Rows, Cols,       \* size in characters
  LineLimit,        \* lines a wrap counts to: Rows in a terminal
  Space             \* the empty glyph

Positions == (0 .. Cols - 1) \X (0 .. Rows - 1)

Ink(s, g) == [c |-> g, fg |-> s.text.fg, bg |-> s.text.bg]

Put(s, p, ch) ==
  IF p \in Positions THEN [s EXCEPT !.cells[p] = ch] ELSE s

\* The region moves up a line; its last line becomes blank.
Scroll(s) ==
  [s EXCEPT !.cells = [p \in Positions |->
     IF p[2] = s.bottom - 1 THEN Ink(s, Space)
     ELSE IF p[2] \in s.top .. s.bottom - 2 THEN s.cells[<<p[1], p[2] + 1>>]
     ELSE s.cells[p]]]

\* The region moves down a line; its first line becomes blank.
Revscroll(s) ==
  [s EXCEPT !.cells = [p \in Positions |->
     IF p[2] = s.top THEN Ink(s, Space)
     ELSE IF p[2] \in s.top + 1 .. s.bottom - 1
       THEN s.cells[<<p[1], p[2] - 1>>]
     ELSE s.cells[p]]]

\* A character past the last column goes to the next line, which scrolls at
\* the end of the region.
RawPutchar(s, g) ==
  LET wraps == s.cursor.x >= Cols
                 /\ (s.cursor.y < s.bottom - 1 \/ s.autoscroll)
      rolls == wraps /\ s.cursor.y + 1 = s.bottom
      line  == IF rolls THEN s.cursor.y ELSE s.cursor.y + 1
      at    == IF ~wraps THEN s.cursor
               ELSE [x |-> 0, y |-> IF line < LineLimit THEN line
                                    ELSE LineLimit - 1]
      t     == IF rolls THEN Scroll(s) ELSE s
  IN  [Put(t, <<at.x, at.y>>, Ink(s, g)) EXCEPT
         !.cursor = [x |-> at.x + 1, y |-> at.y]]

Clear(s, home) ==
  [s EXCEPT !.cells = [p \in Positions |-> Ink(s, Space)],
            !.cursor = IF home THEN [x |-> 0, y |-> 0] ELSE @]

\* Nothing moves from or to a place off the screen.
MoveCharacter(s, newX, newY, oldX, oldY) ==
  IF <<oldX, oldY>> \in Positions THEN Put(s, <<newX, newY>>, s.cells[<<oldX, oldY>>])
  ELSE s

\* A coordinate below zero, far above as a size_t, becomes zero.
Clamp(v, n) == IF v < 0 THEN 0 ELSE IF v >= n THEN n - 1 ELSE v

SetCursorPos(s, x, y) ==
  [s EXCEPT !.cursor = [x |-> Clamp(x, Cols), y |-> Clamp(y, Rows)]]

\* The cursor as the functions of the terminal see it.
GetCursorPos(s) ==
  [x |-> Clamp(s.cursor.x, Cols), y |-> Clamp(s.cursor.y, Rows)]
==============================================================================
