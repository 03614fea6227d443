------------------------------- MODULE Terminal -------------------------------
(***************************************************************************)
(* The functions of src/kernel/flanterm/flanterm.c: what a printed         *)
(* character, a control character, an escape sequence and a control        *)
(* sequence do to the screen.                                              *)
(*                                                                         *)
(* EscapeParser says which function a byte calls, with which arguments     *)
(* (its variable out); here that is request, and obeying it is one step    *)
(* made of the backend's calls.  What the calls do is in Backend; colours  *)
(* are the matter of Sgr.                                                  *)
(***************************************************************************)
EXTENDS Integers, FiniteSets

CONSTANTS
  Rows, Cols,       \* size in characters
  TabSize,          \* tab_size, 8 in the code
  Glyphs, Space,    \* what a cell can show; the empty glyph
  Box,              \* 0xfe, shown for a character without a glyph
  Colour,           \* the one colour
  Values,           \* bound: arguments of control functions, below 2^31
  Pairs,            \* bound: the pairs of arguments of CUP and DECSTBM
  SavedAt,          \* bound: where the cursor is saved
  MaxDrawn          \* bound: glyphs on the screen that are not blank

ASSUME SizeAssumption == Rows \in Nat \ {0} /\ Cols \in Nat \ {0}
ASSUME TabAssumption == TabSize \in Nat \ {0}
ASSUME ValuesAssumption ==
  /\ Values \subseteq Nat /\ Pairs \subseteq Nat \X Nat
  /\ {Space, Box} \subseteq Glyphs

VARIABLES
  screen,       \* a record as in Backend
  savedCursor,  \* saved_cursor_x, _y of ESC [ s
  savedState,   \* saved_state_cursor_x, _y of ESC 7
  request       \* the function the parser calls next

vars == <<screen, savedCursor, savedState, request>>

INSTANCE Backend WITH LineLimit <- Cols

Home == [x |-> 0, y |-> 0]
None == [did |-> "nothing"]

-----------------------------------------------------------------------------
(* Control characters, escape sequences and printing.                       *)

X == GetCursorPos(screen).x
Y == GetCursorPos(screen).y

Min2(a, b) == IF a < b THEN a ELSE b

\* A loop of n turns, if n is above zero: Body(t, k) is what turn k makes of t.
Loop(n, Body(_, _), s) ==
  LET turn[k \in 0 .. n] == IF k = 0 THEN s ELSE Body(turn[k - 1], k)
  IN  IF n > 0 THEN turn[n] ELSE s

\* LF, ESC D and ESC E: scroll at the end of the region, else a line down.
LineFeed(s, x) ==
  IF Y = s.bottom - 1 THEN SetCursorPos(Scroll(s), x, Y)
  ELSE SetCursorPos(s, x, Y + 1)

ReverseLineFeed(s) ==
  IF Y = s.top THEN SetCursorPos(Revscroll(s), 0, Y)
  ELSE SetCursorPos(s, 0, Y - 1)

\* FLANTERM_OOB_OUTPUT_ONLCR is set: LF goes to the first column.
Moved(c) ==
  CASE c = "TAB" -> IF X \div TabSize + 1 >= Cols
                      THEN SetCursorPos(screen, Cols - 1, Y)
                      ELSE SetCursorPos(screen, (X \div TabSize + 1) * TabSize, Y)
    [] c = "LF"  -> LineFeed(screen, 0)
    [] c = "BS"  -> SetCursorPos(screen, X - 1, Y)
    [] c = "CR"  -> SetCursorPos(screen, 0, Y)

Blanks(s, n) == Loop(n, LAMBDA t, k : RawPutchar(t, Space), s)

\* Insert mode: from the last column back to the cursor, a place to the right.
MakeRoom(s) ==
  Loop(Cols - X, LAMBDA t, k : MoveCharacter(t, Cols - k + 1, Y, Cols - k, Y), s)

Printed(g, inserts) ==
  RawPutchar(IF inserts THEN MakeRoom(screen) ELSE screen, g)

\* Seeded fault: a wide character takes one cell.
Replaced_Narrow(g, width) == IF width = 0 THEN screen ELSE RawPutchar(screen, g)

\* A character of UTF-8: its glyph or, if unicode_to_cp437 has none, a box and
\* blanks to the width mk_wcwidth gives it.
Replaced(g, width) ==
  IF width = 0 THEN screen ELSE Blanks(RawPutchar(screen, g), width - 1)

\* What flanterm_context_reinit does to the screen.
Reinit(s) == [s EXCEPT !.top = 0, !.bottom = Rows, !.autoscroll = TRUE]

Escaped(c) ==
  CASE c = "D" -> LineFeed(screen, X)
    [] c = "E" -> LineFeed(screen, 0)
    [] c = "M" -> ReverseLineFeed(screen)
    [] c = "c" -> Clear(Reinit(screen), TRUE)
    [] c = "7" -> screen
    [] c = "8" -> [screen EXCEPT !.cursor = savedState]

-----------------------------------------------------------------------------
(* control_sequence_parse: functions with arguments v and w.                *)

\* Moving up from inside the region, or through it, ends at its first line.
CursorUp(s, x, v) ==
  LET dest == Y - Min2(v, Y)
      meets(m) == dest <= m /\ m <= Y
      stops == (meets(s.top) \/ meets(s.bottom)) /\ dest < s.top
  IN  SetCursorPos(s, x, IF stops THEN s.top ELSE dest)

CursorDown(s, x, v) ==
  LET dest == Y + Min2(v, Rows - 1 - Y)
      meets(m) == Y <= m /\ m <= dest
      stops == (meets(s.top) \/ meets(s.bottom)) /\ dest >= s.bottom
  IN  SetCursorPos(s, x, IF stops THEN s.bottom - 1 ELSE dest)

\* The unsigned v - 1 of a zero is far beyond the last line or column.
Coordinate(v, n) == IF v = 0 \/ v > n THEN n - 1 ELSE v - 1

\* Places of H and f: zero counts as one.
Place(v, n) == IF v = 0 THEN 0 ELSE Min2(v - 1, n - 1)

\* The region starts at the cursor's line while lines are inserted.
InsertLines(s, v) ==
  [Loop(v, LAMBDA t, k : Revscroll(t), [s EXCEPT !.top = Y]) EXCEPT !.top = s.top]

EraseDisplay(s, v) ==
  CASE v = 0 -> SetCursorPos(Blanks(s, (Rows - Y - 1) * Cols + Cols - X), X, Y)
    [] v = 1 -> SetCursorPos(Blanks(SetCursorPos(s, 0, 0), Y * Cols + X + 1), X, Y)
    [] v \in {2, 3} -> Clear(s, FALSE)
    [] OTHER -> s

EraseLine(s, v) ==
  CASE v = 0 -> SetCursorPos(Blanks(s, Cols - X), X, Y)
    [] v = 1 -> Blanks(SetCursorPos(s, 0, Y), X)
    [] v = 2 -> SetCursorPos(Blanks(SetCursorPos(s, 0, Y), Cols), X, Y)
    [] OTHER -> s

InsertCharacters(s, v) ==
  LET InsertAt(t, col) ==
        RawPutchar(SetCursorPos(MoveCharacter(t, col + v, Y, col, Y), col, Y), Space)
  IN  SetCursorPos(Loop(Cols - X, LAMBDA t, k : InsertAt(t, Cols - k), s), X, Y)

EraseCharacters(s, v) == SetCursorPos(Blanks(s, v), X, Y)

\* Seeded fault: the loop runs from the last column backwards.
DeleteCharacters_Backwards(s, v) ==
  LET Shift(t, col) == MoveCharacter(t, col - v, Y, col, Y)
      shifted == Loop(Cols - X - v, LAMBDA t, k : Shift(t, Cols - k), s)
  IN  EraseCharacters(SetCursorPos(shifted, Cols - v, Y), v)

\* Falls through to ECH, at the column where the blanks begin.
DeleteCharacters(s, v) ==
  LET Shift(t, col) == MoveCharacter(t, col - v, Y, col, Y)
      shifted == Loop(Cols - X - v, LAMBDA t, k : Shift(t, X + v + k - 1), s)
  IN  EraseCharacters(SetCursorPos(shifted, Cols - v, Y), v)

\* Seeded fault: a region of one line is accepted.
SetRegion_OneLine(s, t, b) ==
  LET ok == t < Rows /\ b <= Rows /\ t < b
  IN  SetCursorPos([s EXCEPT !.top = IF ok THEN t ELSE 0,
                             !.bottom = IF ok THEN b ELSE Rows], 0, 0)

\* DECSTBM: a region of two lines or more, or else the whole screen.
SetRegion(s, t, b) ==
  LET ok == t < Rows /\ b <= Rows /\ t < b - 1
  IN  SetCursorPos([s EXCEPT !.top = IF ok THEN t ELSE 0,
                             !.bottom = IF ok THEN b ELSE Rows], 0, 0)

Ruled(s, v, w, n) ==
  SetRegion(s, IF n > 0 THEN Place(v, v) ELSE 0,
               IF n > 1 THEN IF w = 0 THEN 1 ELSE w ELSE Rows)

Function(f, s, v, w, n) ==
  CASE f = "A" -> CursorUp(s, X, v)
    [] f = "F" -> CursorUp(s, 0, v)
    [] f \in {"B", "e"} -> CursorDown(s, X, v)
    [] f = "E" -> CursorDown(s, 0, v)
    [] f \in {"C", "a"} -> SetCursorPos(s, X + Min2(v, Cols - 1 - X), Y)
    [] f = "D" -> SetCursorPos(s, X - Min2(v, X), Y)
    [] f = "d" -> SetCursorPos(s, X, Coordinate(v, Rows))
    [] f \in {"G", "HPA"} -> SetCursorPos(s, Coordinate(v, Cols), Y)
    [] f \in {"H", "f"} -> SetCursorPos(s, Place(w, Cols), Place(v, Rows))
    [] f = "M" -> Loop(v, LAMBDA t, k : Scroll(t), s)
    [] f = "L" -> InsertLines(s, v)
    [] f = "J" -> EraseDisplay(s, v)
    [] f = "K" -> EraseLine(s, v)
    [] f = "@" -> InsertCharacters(s, v)
    [] f = "P" -> DeleteCharacters(s, v)
    [] f = "X" -> EraseCharacters(s, v)
    [] f = "r" -> Ruled(s, v, w, n)
    [] f = "u" -> SetCursorPos(s, savedCursor.x, savedCursor.y)
    [] OTHER  -> s

\* Seeded fault: scroll_enabled stays off.
Controlled_StaysOff(f, v, w, n) ==
  Function(f, [screen EXCEPT !.autoscroll = FALSE], v, w, n)

\* scroll_enabled is off while a function runs.
Controlled(f, v, w, n) ==
  [Function(f, [screen EXCEPT !.autoscroll = FALSE], v, w, n) EXCEPT
     !.autoscroll = screen.autoscroll]

-----------------------------------------------------------------------------
\* The calls the parser makes: its variable out, and for a character of UTF-8
\* also what it looks like.
Lone == {"A", "F", "B", "E", "C", "D", "d", "G", "M", "L", "J", "K", "@", "P", "X"}

Control(f, v, w, n) == [did |-> "control", what |-> f, args |-> <<v, w>>, n |-> n]

Controls ==
  {Control(f, v, 1, 1) : f \in Lone, v \in Values}
    \cup {Control(f, p[1], p[2], 2) : f \in {"H", "r"}, p \in Pairs}
    \cup {Control("r", p[1], 1, 1) : p \in Pairs}
    \cup {Control(f, 1, 1, 0) : f \in {"r", "s", "u"}}

Requests ==
  [did : {"print"}, what : Glyphs, inserts : BOOLEAN]
    \cup [did : {"character"}, what : Glyphs, width : {1}, inserts : BOOLEAN]
    \cup [did : {"character"}, what : {Box}, width : {0, 2}, inserts : BOOLEAN]
    \cup [did : {"make room"}, what : {"cont"}]
    \cup [did : {"move"}, what : {"TAB", "LF", "BS", "CR"}]
    \cup [did : {"escape"}, what : {"7", "8", "c", "D", "E", "M"}]
    \cup Controls

Saves(r) ==
  \/ r.did = "escape" /\ r.what = "7"
  \/ r.did = "control" /\ r.what = "s"

Types(r) == r.did \in {"print", "character", "make room"}
Drawn == {p \in Positions : screen.cells[p].c # Space}

Ask ==
  /\ request = None
  /\ request' \in Requests
  /\ Saves(request') => screen.cursor \in SavedAt
  /\ Types(request') => Cardinality(Drawn) < MaxDrawn
  /\ UNCHANGED <<screen, savedCursor, savedState>>

PutGlyph ==
  /\ request.did = "print"
  /\ screen' = Printed(request.what, request.inserts)
  /\ UNCHANGED <<savedCursor, savedState>>

\* Insert mode is not looked at.
PutCharacter ==
  /\ request.did = "character"
  /\ screen' = Replaced(request.what, request.width)
  /\ UNCHANGED <<savedCursor, savedState>>

\* A byte that is not printed after all has made room in insert mode.
PutNothing ==
  /\ request.did = "make room"
  /\ screen' = MakeRoom(screen)
  /\ UNCHANGED <<savedCursor, savedState>>

Move ==
  /\ request.did = "move"
  /\ screen' = Moved(request.what)
  /\ UNCHANGED <<savedCursor, savedState>>

Escape ==
  /\ request.did = "escape"
  /\ screen' = Escaped(request.what)
  /\ savedState' = IF request.what = "7" THEN screen.cursor ELSE savedState
  /\ savedCursor' = IF request.what = "c" THEN Home ELSE savedCursor

ControlSequence ==
  /\ request.did = "control"
  /\ screen' = Controlled(request.what, request.args[1], request.args[2], request.n)
  /\ savedCursor' = IF request.what = "s" THEN GetCursorPos(screen) ELSE savedCursor
  /\ UNCHANGED savedState

Obey ==
  /\ PutGlyph \/ PutCharacter \/ PutNothing \/ Move \/ Escape \/ ControlSequence
  /\ request' = None

Init ==
  /\ screen = [cells |-> [p \in Positions |-> [c |-> Space, fg |-> Colour, bg |-> Colour]],
               cursor |-> Home, text |-> [fg |-> Colour, bg |-> Colour],
               top |-> 0, bottom |-> Rows, autoscroll |-> TRUE]
  /\ savedCursor = Home /\ savedState = Home
  /\ request = None

Next == Ask \/ Obey

Spec == Init /\ [][Next]_vars
-----------------------------------------------------------------------------
\* The lines a cursor may be on: a wrap counts them by the columns.
Lines == IF Rows < Cols THEN Cols ELSE Rows

TypeOK ==
  /\ screen.cells \in [Positions -> [c : Glyphs, fg : {Colour}, bg : {Colour}]]
  /\ {screen.cursor, savedCursor, savedState}
       \subseteq [x : 0 .. Cols, y : 0 .. Lines - 1]
  /\ \/ screen.top = 0 /\ screen.bottom = Rows
     \/ /\ screen.top >= 0 /\ screen.bottom <= Rows
        /\ screen.top < screen.bottom - 1
  /\ screen.autoscroll
  /\ request \in Requests \cup {None}

\* A wrap with the cursor at cur leads to another line than it should.
Astray(cur, b) ==
  LET line == IF cur.y = b - 1 THEN cur.y ELSE cur.y + 1
  IN  cur.x = Cols /\ Clamp(line, Cols) # Clamp(line, Rows)

\* Where the code does something else than console_codes(4) says, with the
\* cursor at cur and the region t .. b - 1: a wrap below the region leaves the
\* screen if it is wider than it is high, and nothing is typed there; on a
\* higher one it ends at the line of the last column's number; a cursor past the
\* last column is not brought back before blanks are typed over what is to be
\* erased; blanks wrap to the next line, but not below the region; deleting more
\* than is left of a line erases to the left of the cursor; lines are deleted at
\* the top of the region wherever the cursor is, and inserted outside it; the
\* line below the region counts as inside it; zero counts as beyond the last;
\* characters of UTF-8 are never inserted, and a wide one in the last column
\* is torn; a reverse line feed goes to the first column.
Diverges(r, cur, t, b) ==
  LET past  == cur.x = Cols
      below == cur.y >= Rows
      x == IF past THEN Cols - 1 ELSE cur.x
      y == IF below THEN Rows - 1 ELSE cur.y
      v == r.args[1]
  IN  \/ r.did = "print" /\ (below \/ Astray(cur, b) \/ (r.inserts /\ past))
      \/ /\ r.did = "character" /\ r.width > 0
         /\ \/ below \/ Astray(cur, b)
            \/ r.inserts /\ cur.x # Cols - 1
            \/ r.width = 2 /\ (cur.x = Cols - 1 \/ Cols = 1)
      \/ r.did = "escape" /\ r.what = "M" /\ x # 0
      \/ /\ r.did = "control"
         /\ \/ r.what \in {"B", "e", "E"} /\ y = b
            \/ r.what \in {"d", "G", "HPA", "@"} /\ v = 0
            \/ r.what = "M" /\ v > 0 /\ y # t
            \/ r.what = "L" /\ v > 0 /\ y \notin t .. b - 1
            \/ r.what = "J" /\ v = 0
                 /\ (past \/ below \/ (y < Rows - 1 /\ (b < Rows \/ Cols < Rows)))
            \/ r.what = "J" /\ v = 1 /\ (y >= b \/ y >= Cols)
            \/ r.what = "K" /\ v = 0 /\ (past \/ below)
            \/ r.what = "X" /\ v > 0
                 /\ (past \/ below \/ (x + v > Cols /\ y < b - 1))
            \/ r.what = "P" /\ x + v > Cols

\* Every function moves, shifts and erases exactly the glyphs its description
\* names, whatever was drawn before and wherever cursor and region are,
\* outside the cases Diverges lists.
Codes == INSTANCE ConsoleCodes WITH
  glyphs <- [p \in Positions |-> screen.cells[p].c],
  cursor <- screen.cursor, top <- screen.top, bottom <- screen.bottom,
  Exempt <- Diverges
ImplementsConsoleCodes == Codes!Spec
==============================================================================
