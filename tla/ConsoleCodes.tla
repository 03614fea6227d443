----------------------------- MODULE ConsoleCodes -----------------------------
(***************************************************************************)
(* The functions of a console as console_codes(4), the standard flanterm.c *)
(* names, describes them: which glyphs end up where, without the loops and *)
(* the backend's calls.  Terminal implements it.                           *)
(*                                                                         *)
(* Where the manual leaves a choice, a step may take any: what a function  *)
(* that does not move the cursor does to a cursor past the last column,    *)
(* and whether erasing to the cursor erases the cursor's cell.             *)
(***************************************************************************)
EXTENDS Integers

CONSTANTS
  Rows, Cols, TabSize, Space,
  Exempt(_, _, _, _)    \* whether a request, with the cursor and the region
                        \* as they are, is left open

VARIABLES
  glyphs,           \* glyphs[<<x, y>>]
  cursor,           \* [x, y]; x = Cols past the last column, y >= Rows below
                    \* the last line
  top, bottom,      \* the scroll region: rows top .. bottom - 1
  savedCursor, savedState,
  request

vars == <<glyphs, cursor, top, bottom, savedCursor, savedState, request>>

Positions == (0 .. Cols - 1) \X (0 .. Rows - 1)
Home == [x |-> 0, y |-> 0]
None == [did |-> "nothing"]

X == IF cursor.x = Cols THEN Cols - 1 ELSE cursor.x
Y == IF cursor.y >= Rows THEN Rows - 1 ELSE cursor.y
Within(v, n) == IF v < 0 THEN 0 ELSE IF v >= n THEN n - 1 ELSE v

Keeps    == UNCHANGED glyphs
Erases(A) == glyphs' = [p \in Positions |-> IF p \in A THEN Space ELSE glyphs[p]]

\* Rows first .. last - 1 move n up, or down when n is negative; blanks follow.
Shifts(first, last, n) ==
  glyphs' = [p \in Positions |->
     IF p[2] \notin first .. last - 1 THEN glyphs[p]
     ELSE IF p[2] + n \in first .. last - 1 THEN glyphs[<<p[1], p[2] + n>>]
     ELSE Space]

\* From the cursor to the end of its line, cells move n left, or right.
Slides(n) ==
  glyphs' = [p \in Positions |->
     IF p[2] # Y \/ p[1] < X THEN glyphs[p]
     ELSE IF p[1] + n \in X .. Cols - 1 THEN glyphs[<<p[1] + n, p[2]>>]
     ELSE Space]

Goes(x, y) == cursor' = [x |-> x, y |-> y]
Stays == cursor' \in {cursor, [x |-> X, y |-> Y]}

SameRegion == UNCHANGED <<top, bottom>>
SameSaved  == UNCHANGED <<savedCursor, savedState>>

Before(p) == p[2] < Y \/ (p[2] = Y /\ p[1] < X)
Here == <<X, Y>>
OnLine == {p \in Positions : p[2] = Y}

-----------------------------------------------------------------------------
\* A line down; the region scrolls when its last line is left.
LinesFeed(x) ==
  IF Y = bottom - 1 THEN Shifts(top, bottom, 1) /\ Goes(x, Y)
  ELSE Keeps /\ Goes(x, Within(Y + 1, Rows))

LinesReverse(x) ==
  IF Y = top THEN Shifts(top, bottom, -1) /\ Goes(x, Y)
  ELSE Keeps /\ Goes(x, Within(Y - 1, Rows))

\* A printed glyph, with blanks to its width; past the last column it goes to
\* the line below.
Prints(g, width, inserts) ==
  LET wraps  == cursor.x = Cols
      rolls  == wraps /\ Y = bottom - 1
      y      == IF wraps /\ ~rolls THEN Within(Y + 1, Rows) ELSE Y
      x      == IF wraps THEN 0 ELSE cursor.x
      old(p) == IF ~rolls \/ p[2] \notin top .. bottom - 1 THEN glyphs[p]
                ELSE IF p[2] = bottom - 1 THEN Space
                ELSE glyphs[<<p[1], p[2] + 1>>]
  IN  /\ glyphs' = [p \in Positions |->
                      IF p = <<x, y>> THEN g
                      ELSE IF p[2] = y /\ p[1] \in x + 1 .. x + width - 1 THEN Space
                      ELSE IF inserts /\ p[2] = y /\ p[1] > x
                        THEN old(<<p[1] - width, y>>) ELSE old(p)]
      /\ Goes(x + width, y)

\* A byte that is not printed leaves the glyphs before the cursor alone.
PrintsNothing ==
  /\ \A p \in Positions : p[2] # Y \/ p[1] < X => glyphs'[p] = glyphs[p]
  /\ Stays

Moves(c) ==
  \/ c = "TAB" /\ Keeps /\ Goes(Within((X \div TabSize + 1) * TabSize, Cols), Y)
  \/ c = "LF"  /\ LinesFeed(0)
  \/ c = "BS"  /\ Keeps /\ Goes(Within(X - 1, Cols), Y)
  \/ c = "CR"  /\ Keeps /\ Goes(0, Y)

Escapes(c) ==
  \/ c = "D" /\ LinesFeed(X) /\ SameRegion /\ SameSaved
  \/ c = "E" /\ LinesFeed(0) /\ SameRegion /\ SameSaved
  \/ c = "M" /\ LinesReverse(X) /\ SameRegion /\ SameSaved
  \/ c = "7" /\ Keeps /\ UNCHANGED cursor /\ savedState' = cursor
             /\ SameRegion /\ UNCHANGED savedCursor
  \/ c = "8" /\ Keeps /\ cursor' = savedState /\ SameRegion /\ SameSaved
  \/ c = "c" /\ Erases(Positions) /\ cursor' = Home
             /\ top' = 0 /\ bottom' = Rows
             /\ savedCursor' = Home /\ UNCHANGED savedState

\* Moving by lines stops at the edge of the region the cursor is in or enters
\* from outside on the far side.
UpTo(v)   == IF Y >= top /\ Y - v < top THEN top ELSE Within(Y - v, Rows)
DownTo(v) ==
  IF Y < bottom /\ Within(Y + v, Rows) >= bottom THEN bottom - 1
  ELSE Within(Y + v, Rows)

Steers(f, v, w) ==
  \/ f = "A" /\ Goes(X, UpTo(v))
  \/ f = "F" /\ Goes(0, UpTo(v))
  \/ f \in {"B", "e"} /\ Goes(X, DownTo(v))
  \/ f = "E" /\ Goes(0, DownTo(v))
  \/ f \in {"C", "a"} /\ Goes(Within(X + v, Cols), Y)
  \/ f = "D" /\ Goes(Within(X - v, Cols), Y)
  \/ f = "d" /\ Goes(X, Within(v - 1, Rows))
  \/ f \in {"G", "HPA"} /\ Goes(Within(v - 1, Cols), Y)
  \/ f \in {"H", "f"} /\ Goes(Within(w - 1, Cols), Within(v - 1, Rows))
  \/ f = "u" /\ cursor' = savedCursor
  \/ f = "s" /\ Stays

ErasesDisplay(v) ==
  \/ v = 0 /\ Erases({p \in Positions : ~Before(p)})
  \/ v = 1 /\ Erases({p \in Positions : Before(p)} \cup {Here})
  \/ v \in {2, 3} /\ Erases(Positions)
  \/ v > 3 /\ Keeps

ErasesLine(v) ==
  \/ v = 0 /\ Erases({p \in OnLine : p[1] >= X})
  \/ v = 1 /\ \/ Erases({p \in OnLine : p[1] < X})
              \/ Erases({p \in OnLine : p[1] <= X})
  \/ v = 2 /\ Erases(OnLine)
  \/ v > 2 /\ Keeps

Edits(f, v) ==
  \/ f = "J" /\ ErasesDisplay(v)
  \/ f = "K" /\ ErasesLine(v)
  \/ f = "M" /\ (IF Y \in top .. bottom - 1 THEN Shifts(Y, bottom, v) ELSE Keeps)
  \/ f = "L" /\ (IF Y \in top .. bottom - 1 THEN Shifts(Y, bottom, -v) ELSE Keeps)
  \/ f = "@" /\ Slides(-v)
  \/ f = "P" /\ Slides(v)
  \/ f = "X" /\ Erases({p \in OnLine : p[1] \in X .. X + v - 1})

Steering == {"A", "F", "B", "e", "E", "C", "a", "D", "d", "G", "HPA", "H", "f",
             "s", "u"}

\* A region has two lines or more; without a valid one it is the whole screen.
Rules(v, w, n) ==
  LET t == IF n > 0 /\ v > 0 THEN v - 1 ELSE 0
      b == IF n > 1 THEN (IF w = 0 THEN 1 ELSE w) ELSE Rows
      valid == b <= Rows /\ b - t >= 2
  IN  /\ Keeps /\ cursor' = Home
      /\ top' = IF valid THEN t ELSE 0
      /\ bottom' = IF valid THEN b ELSE Rows

Controls(f, v, w, n) ==
  /\ \/ f \in Steering /\ Keeps /\ Steers(f, v, w) /\ SameRegion
     \/ Edits(f, v) /\ Stays /\ SameRegion
     \/ f = "r" /\ Rules(v, w, n)
  /\ savedCursor' = IF f = "s" THEN [x |-> X, y |-> Y] ELSE savedCursor
  /\ UNCHANGED savedState

-----------------------------------------------------------------------------
Init ==
  /\ glyphs = [p \in Positions |-> Space]
  /\ cursor = Home
  /\ top = 0 /\ bottom = Rows
  /\ savedCursor = Home /\ savedState = Home
  /\ request = None

Ask ==
  /\ request = None
  /\ UNCHANGED <<glyphs, cursor, top, bottom, savedCursor, savedState>>

Does(r) ==
  \/ r.did = "print" /\ Prints(r.what, 1, r.inserts) /\ SameRegion /\ SameSaved
  \/ /\ r.did = "character"
     /\ IF r.width = 0 THEN Keeps /\ Stays ELSE Prints(r.what, r.width, r.inserts)
     /\ SameRegion /\ SameSaved
  \/ r.did = "make room" /\ PrintsNothing /\ SameRegion /\ SameSaved
  \/ r.did = "move" /\ Moves(r.what) /\ SameRegion /\ SameSaved
  \/ r.did = "escape" /\ Escapes(r.what)
  \/ r.did = "control" /\ Controls(r.what, r.args[1], r.args[2], r.n)

\* Open requests may write glyphs and move the cursor anywhere, but leave the
\* rest in order.
LeftOpen == SameRegion /\ SameSaved

Obey ==
  /\ request' = None
  /\ IF Exempt(request, cursor, top, bottom) THEN LeftOpen ELSE Does(request)

Spec == Init /\ [][Ask \/ (request # None /\ Obey)]_vars
==============================================================================
