-------------------------------- MODULE Screen --------------------------------
(***************************************************************************)
(* What a terminal backend promises flanterm.c: a grid of cells that every *)
(* call changes at once.  No queue, no map, no second buffer.  FlantermFb  *)
(* (src/kernel/flanterm/backends/fb.c) implements it.                      *)
(***************************************************************************)
EXTENDS Backend

CONSTANTS
  Glyphs,       \* what a cell can show
  Colours       \* foreground and background colours

VARIABLES cells, cursor, text, top, bottom, autoscroll   \* as in Backend

vars == <<cells, cursor, text, top, bottom, autoscroll>>

Now == [cells |-> cells, cursor |-> cursor, text |-> text,
        top |-> top, bottom |-> bottom, autoscroll |-> autoscroll]

Init ==
  /\ text \in [fg : Colours, bg : Colours]
  /\ cells = [p \in Positions |-> Ink(Now, Space)]
  /\ cursor = [x |-> 0, y |-> 0]
  /\ top = 0 /\ bottom = Rows
  /\ autoscroll = TRUE

\* The screen becomes s.
Becomes(s) ==
  /\ cells' = s.cells /\ cursor' = s.cursor
  /\ UNCHANGED <<text, top, bottom, autoscroll>>

\* The region may start at the cursor's line for a while: inserting lines.
\* Characters move along their line.
Draw ==
  \/ Becomes(Scroll(Now))
  \/ \E t \in 0 .. Rows - 1 : Becomes(Revscroll([Now EXCEPT !.top = t]))
  \/ \E g \in Glyphs : Becomes(RawPutchar(Now, g))
  \/ \E home \in BOOLEAN : Becomes(Clear(Now, home))
  \/ \E y \in 0 .. Rows - 1, to, from \in 0 .. Cols - 1 :
       Becomes(MoveCharacter(Now, to, y, from, y))

\* Moving the cursor and choosing colours leave the cells alone.
Steer == UNCHANGED cells

Next == Steer \/ Draw

Spec == Init /\ [][Next]_vars
==============================================================================
