------------------------------ MODULE FlantermFb ------------------------------
(***************************************************************************)
(* The framebuffer backend of the terminal,                                *)
(* src/kernel/flanterm/backends/fb.c.                                      *)
(*                                                                         *)
(* Calls do not draw.  They push changed cells on a queue; map says which  *)
(* slot of the queue, if any, holds the new content of a cell, and grid    *)
(* what the cell showed when it was last flushed.  A flush draws the       *)
(* queue, the cursor, and the cell the cursor left.                        *)
(*                                                                         *)
(* Cells are numbered row by row as in the code.  The pushes a call makes  *)
(* are steps of their own: work is the part of its loop still to run.      *)
(* A glyph is a set of dots, and the framebuffer shows a colour per dot.   *)
(***************************************************************************)
EXTENDS Integers, SequencesExt

CONSTANTS
  Rows, Cols,       \* size in characters
  Glyphs, Space,    \* the font's glyphs
  Dots, Font,       \* dots of a cell; Font[g] is the set of dots g sets
  Colours,          \* colours, among them
  Canvas,           \*   0xffffffff: let the canvas show through
  Backdrop,         \*   the colour of the canvas
  DefaultFg,        \*   default_fg
  Used,             \* bound: the kinds of calls a behaviour makes
  MaxCalls          \* bound: calls of the backend made in a behaviour

ASSUME SizeAssumption == Rows \in Nat \ {0} /\ Cols \in Nat \ {0}
ASSUME FontAssumption == Space \in Glyphs /\ Font \in [Glyphs -> SUBSET Dots]
ASSUME ColoursAssumption ==
  {Canvas, Backdrop, DefaultFg} \subseteq Colours /\ Canvas # Backdrop
ASSUME BoundAssumption == MaxCalls \in Nat

VARIABLES
  grid,         \* grid[i]: cell i as last flushed
  queue,        \* queue[1 .. queue_i]: pending cells, [cell, ch]
  map,          \* map[i]: the slot pending for cell i, 0 for NULL
  cursor,       \* cursor_x, cursor_y
  oldCursor,    \* old_cursor_x, old_cursor_y
  text,         \* text_fg, text_bg
  saved,        \* saved_state_*
  top, bottom,  \* scroll_top_margin, scroll_bottom_margin of the context
  autoscroll,   \* scroll_enabled of the context
  cursorOn,     \* cursor_enabled of the context
  framebuffer,  \* framebuffer[i][d]: the colour of dot d of cell i
  work,         \* pushes the running call has yet to make
  flushing,     \* the slot the flush loop looks at next; 0: no flush running
  drawn,        \* history: the last flush or refresh drew a cursor
  calls         \* how many calls were made

buffers == <<grid, queue, map>>
context == <<top, bottom, autoscroll, cursorOn>>
vars == <<grid, queue, map, cursor, oldCursor, text, saved, top, bottom,
          autoscroll, cursorOn, framebuffer, work, flushing, drawn, calls>>

CellIds == 0 .. (Rows * Cols - 1)
Chars == [c : Glyphs, fg : Colours, bg : Colours]
OnScreen(x, y) == x < Cols /\ y < Rows
CellAt(x, y) == y * Cols + x

Ink(g) == [c |-> g, fg |-> text.fg, bg |-> text.bg]
Inverted(ch) == [ch EXCEPT !.fg = ch.bg, !.bg = ch.fg]

\* The character a cell will show after the next flush: what scroll, revscroll
\* and move_character copy.
Pending(i) == IF map[i] # 0 THEN queue[map[i]].ch ELSE grid[i]

-----------------------------------------------------------------------------
(* Drawing.                                                                 *)

Pixel(colour) == IF colour = Canvas THEN Backdrop ELSE colour

\* plot_char: every dot of the cell.
Plot(ch) ==
  [d \in Dots |-> Pixel(IF d \in Font[ch.c] THEN ch.fg ELSE ch.bg)]

\* plot_char_fast: only the dots in which the glyphs differ.
PlotFast(old, ch, shown) ==
  [d \in Dots |->
     IF d \in Font[old.c] <=> d \in Font[ch.c] THEN shown[d] ELSE Plot(ch)[d]]

-----------------------------------------------------------------------------
(* Pushing.                                                                 *)

Put(ch, i)    == [kind |-> "put", ch |-> ch, to |-> i]
Copy(from, i) == [kind |-> "copy", from |-> from, to |-> i]

\* push_to_queue ignores what is off the screen.
PutAt(ch, x, y) == IF OnScreen(x, y) THEN << Put(ch, CellAt(x, y)) >> ELSE <<>>

BlankRow(y) == [i \in 1 .. Cols |-> Put(Ink(Space), CellAt(i - 1, y))]

\* Seeded fault: the region moves up, copied from its last cell backwards.
ScrollPushes_Backwards ==
  LET n == (bottom - 1 - top) * Cols
  IN  [i \in 1 .. n |-> Copy(bottom * Cols - i, (bottom - 1) * Cols - i)]
        \o BlankRow(bottom - 1)

\* Seeded fault: the loop runs one line too far.
ScrollPushes_PastEnd ==
  LET n == (bottom - top) * Cols
  IN  [i \in 1 .. n |-> Copy((top + 1) * Cols + i - 1, top * Cols + i - 1)]
        \o BlankRow(bottom - 1)

\* The loops of scroll and revscroll: a line up from the top, a line down from
\* the bottom, so that no cell is overwritten before it is read.
ScrollPushes ==
  LET n == (bottom - 1 - top) * Cols
  IN  [i \in 1 .. n |-> Copy((top + 1) * Cols + i - 1, top * Cols + i - 1)]
        \o BlankRow(bottom - 1)

RevscrollPushes(first) ==
  LET n == (bottom - 1 - first) * Cols
  IN  [i \in 1 .. n |-> Copy((bottom - 1) * Cols - i, bottom * Cols - i)]
        \o BlankRow(first)

\* One call of push_to_queue: reuse the cell's slot, or skip a cell that
\* already shows the character, or take a new slot.
Content(w) == IF w.kind = "put" THEN w.ch ELSE Pending(w.from)

\* Seeded fault: a slot the cell already has is not reused.
Push_NoReuse ==
  /\ work # <<>>
  /\ LET w  == Head(work)
         ch == Content(w)
     IN  IF grid[w.to] = ch
           THEN UNCHANGED <<queue, map>>
           ELSE /\ queue' = Append(queue, [cell |-> w.to, ch |-> ch])
                /\ map' = [map EXCEPT ![w.to] = Len(queue) + 1]
  /\ work' = Tail(work)
  /\ UNCHANGED <<grid, cursor, oldCursor, text, saved, context, framebuffer,
                 flushing, drawn, calls>>

Push ==
  /\ work # <<>>
  /\ LET w  == Head(work)
         ch == Content(w)
     IN  \/ /\ map[w.to] # 0
            /\ queue' = [queue EXCEPT ![map[w.to]].ch = ch]
            /\ UNCHANGED map
         \/ /\ map[w.to] = 0 /\ grid[w.to] = ch
            /\ UNCHANGED <<queue, map>>
         \/ /\ map[w.to] = 0 /\ grid[w.to] # ch
            /\ queue' = Append(queue, [cell |-> w.to, ch |-> ch])
            /\ map' = [map EXCEPT ![w.to] = Len(queue) + 1]
  /\ work' = Tail(work)
  /\ UNCHANGED <<grid, cursor, oldCursor, text, saved, context, framebuffer,
                 flushing, drawn, calls>>

-----------------------------------------------------------------------------
(* The calls flanterm.c makes.                                              *)

\* A call starts when the one before has returned.
Call(kind) ==
  /\ kind \in Used
  /\ work = <<>> /\ flushing = 0
  /\ calls < MaxCalls /\ calls' = calls + 1

\* The state a call of flanterm.c never touches directly.
Undrawn == UNCHANGED <<buffers, oldCursor, framebuffer, flushing, drawn>>

Scroll ==
  /\ Call("scroll") /\ Undrawn
  /\ work' = ScrollPushes
  /\ UNCHANGED <<cursor, text, saved, context>>

\* The first line of the region, or the line flanterm.c puts in its place
\* while it inserts lines.
Revscroll(first) ==
  /\ Call("scroll") /\ Undrawn
  /\ work' = RevscrollPushes(first)
  /\ UNCHANGED <<cursor, text, saved, context>>

Clear(move) ==
  /\ Call("clear") /\ Undrawn
  /\ work' = [i \in 1 .. Rows * Cols |-> Put(Ink(Space), i - 1)]
  /\ cursor' = IF move THEN [x |-> 0, y |-> 0] ELSE cursor
  /\ UNCHANGED <<text, saved, context>>

\* raw_putchar: wrap when the last column is passed and there is a line to go
\* to.  The last line of the code's wrap compares cursor_y with cols.
RawPutchar(g) ==
  /\ Call("putchar") /\ Undrawn
  /\ LET wraps == cursor.x >= Cols /\ (cursor.y < bottom - 1 \/ autoscroll)
         rolls == wraps /\ cursor.y + 1 = bottom
         line  == IF rolls THEN cursor.y ELSE cursor.y + 1
         x     == IF wraps THEN 0 ELSE cursor.x
         y     == IF ~wraps THEN cursor.y
                  ELSE IF line >= Cols THEN Cols - 1 ELSE line
     IN  /\ work' = (IF rolls THEN ScrollPushes ELSE <<>>)
                      \o PutAt(Ink(g), x, y)
         /\ cursor' = [x |-> x + 1, y |-> y]
  /\ UNCHANGED <<text, saved, context>>

\* set_cursor_pos clamps; a coordinate below zero, far above as a size_t,
\* becomes zero.
Clamp(v, n) == IF v < 0 THEN 0 ELSE IF v >= n THEN n - 1 ELSE v

SetCursorPos(x, y) ==
  /\ Call("cursor") /\ Undrawn
  /\ cursor' = [x |-> Clamp(x, Cols), y |-> Clamp(y, Rows)]
  /\ UNCHANGED <<text, saved, context, work>>

\* move_character: flanterm.c moves cells along their line only.
MoveCharacter(newX, oldX, y) ==
  /\ Call("move") /\ Undrawn
  /\ work' = IF OnScreen(oldX, y) /\ OnScreen(newX, y)
               THEN << Copy(CellAt(oldX, y), CellAt(newX, y)) >>
               ELSE <<>>
  /\ UNCHANGED <<cursor, text, saved, context>>

\* set_text_fg, _bright, _rgb, _default and _default_bright.
SetTextFg(colour) ==
  /\ Call("colours") /\ Undrawn
  /\ text' = [text EXCEPT !.fg = colour]
  /\ UNCHANGED <<cursor, saved, context, work>>

\* set_text_bg and its variants; the default background is the canvas.
SetTextBg(colour) ==
  /\ Call("colours") /\ Undrawn
  /\ text' = [text EXCEPT !.bg = colour]
  /\ UNCHANGED <<cursor, saved, context, work>>

SwapPalette ==
  /\ Call("colours") /\ Undrawn
  /\ text' = [fg |-> text.bg, bg |-> text.fg]
  /\ UNCHANGED <<cursor, saved, context, work>>

SaveState ==
  /\ Call("save") /\ Undrawn
  /\ saved' = [text |-> text, cursor |-> cursor]
  /\ UNCHANGED <<cursor, text, context, work>>

RestoreState ==
  /\ Call("save") /\ Undrawn
  /\ text' = saved.text /\ cursor' = saved.cursor
  /\ UNCHANGED <<saved, context, work>>

\* DECSTBM in flanterm.c: a scroll region of two lines or more, or else the
\* whole screen; then set_cursor_pos(0, 0).
SetMargins(t, b) ==
  /\ Call("margins") /\ Undrawn
  /\ t < b - 1 \/ (t = 0 /\ b = Rows)
  /\ top' = t /\ bottom' = b
  /\ cursor' = [x |-> 0, y |-> 0]
  /\ UNCHANGED <<text, saved, autoscroll, cursorOn, work>>

\* scroll_enabled, which flanterm.c switches around control sequences, and
\* cursor_enabled (DECTCEM).
SetModes(scrolls, shows) ==
  /\ Call("modes") /\ Undrawn
  /\ autoscroll' = scrolls /\ cursorOn' = shows
  /\ UNCHANGED <<cursor, text, saved, top, bottom, work>>

-----------------------------------------------------------------------------
(* Flushing.                                                                *)

CursorCell == CellAt(cursor.x, cursor.y)
CursorVisible == cursorOn /\ OnScreen(cursor.x, cursor.y)

\* draw_cursor: plots the pending character inverted, and if it came from the
\* queue commits it to the grid and takes it off the map, so that the loop
\* skips the slot.
DrawCursor(fbuf) ==
  IF CursorVisible
    THEN /\ framebuffer' =
              [fbuf EXCEPT ![CursorCell] = Plot(Inverted(Pending(CursorCell)))]
         /\ grid' = [grid EXCEPT ![CursorCell] = Pending(CursorCell)]
         /\ map' = [map EXCEPT ![CursorCell] = 0]
    ELSE framebuffer' = fbuf /\ UNCHANGED <<grid, map>>

Flush ==
  /\ Call("flush")
  /\ DrawCursor(framebuffer)
  /\ flushing' = 1
  /\ drawn' = CursorVisible
  /\ UNCHANGED <<queue, cursor, oldCursor, text, saved, context, work>>

\* One turn of the loop over the queue.
FlushSlot ==
  /\ flushing \in 1 .. Len(queue)
  /\ LET i  == queue[flushing].cell
         ch == queue[flushing].ch
         fast == ch.fg = grid[i].fg /\ ch.bg = grid[i].bg
     IN  IF map[i] = 0
           THEN UNCHANGED <<framebuffer, grid, map>>
           ELSE /\ framebuffer' =
                     [framebuffer EXCEPT ![i] =
                        IF fast THEN PlotFast(grid[i], ch, @) ELSE Plot(ch)]
                /\ grid' = [grid EXCEPT ![i] = ch]
                /\ map' = [map EXCEPT ![i] = 0]
  /\ flushing' = flushing + 1
  /\ UNCHANGED <<queue, cursor, oldCursor, text, saved, context, work, drawn,
                 calls>>

\* Seeded fault: a cursor switched off where it stands is not repainted.
FlushEnd_CursorOff ==
  /\ flushing = Len(queue) + 1
  /\ IF cursor # oldCursor /\ OnScreen(oldCursor.x, oldCursor.y)
       THEN LET i == CellAt(oldCursor.x, oldCursor.y)
            IN  framebuffer' = [framebuffer EXCEPT ![i] = Plot(grid[i])]
       ELSE UNCHANGED framebuffer
  /\ oldCursor' = cursor
  /\ queue' = <<>>
  /\ flushing' = 0
  /\ UNCHANGED <<grid, map, cursor, text, saved, context, work, drawn, calls>>

\* After the loop: repaint the cell the cursor was on, unless it is still there.
FlushEnd ==
  /\ flushing = Len(queue) + 1
  /\ IF /\ cursor # oldCursor \/ ~cursorOn
        /\ OnScreen(oldCursor.x, oldCursor.y)
       THEN LET i == CellAt(oldCursor.x, oldCursor.y)
            IN  framebuffer' = [framebuffer EXCEPT ![i] = Plot(grid[i])]
       ELSE UNCHANGED framebuffer
  /\ oldCursor' = cursor
  /\ queue' = <<>>
  /\ flushing' = 0
  /\ UNCHANGED <<grid, map, cursor, text, saved, context, work, drawn, calls>>

\* full_refresh is used when nothing is waiting for a flush: the queue is
\* empty and the cursor is where the last flush saw it.
FullRefresh ==
  /\ Call("flush")
  /\ queue = <<>> /\ cursor = oldCursor
  /\ DrawCursor([i \in CellIds |-> Plot(grid[i])])
  /\ drawn' = CursorVisible
  /\ UNCHANGED <<queue, cursor, oldCursor, text, saved, context, work, flushing>>

-----------------------------------------------------------------------------
\* The state flanterm_fb_init leaves: blank cells, flanterm_context_reinit, and
\* one full_refresh, which draws the cursor in the corner.
Home == [x |-> 0, y |-> 0]
Init ==
  /\ text = [fg |-> DefaultFg, bg |-> Canvas]
  /\ grid = [i \in CellIds |-> Ink(Space)]
  /\ queue = <<>>
  /\ map = [i \in CellIds |-> 0]
  /\ cursor = Home /\ oldCursor = Home
  /\ saved = [text |-> [fg |-> Backdrop, bg |-> Backdrop], cursor |-> Home]
  /\ top = 0 /\ bottom = Rows
  /\ autoscroll = TRUE /\ cursorOn = TRUE
  /\ framebuffer = [i \in CellIds |->
                      Plot(IF i = 0 THEN Inverted(grid[i]) ELSE grid[i])]
  /\ work = <<>> /\ flushing = 0
  /\ drawn = TRUE
  /\ calls = 0

Next ==
  \/ Push
  \/ Scroll
  \/ \E first \in 0 .. Rows - 1 : Revscroll(first)
  \/ \E move \in BOOLEAN : Clear(move)
  \/ \E g \in Glyphs : RawPutchar(g)
  \/ \E x \in -1 .. Cols, y \in -1 .. Rows : SetCursorPos(x, y)
  \/ \E nx, ox \in 0 .. Cols, y \in 0 .. Rows : MoveCharacter(nx, ox, y)
  \/ \E colour \in Colours : SetTextFg(colour) \/ SetTextBg(colour)
  \/ SwapPalette \/ SaveState \/ RestoreState
  \/ \E t, b \in 0 .. Rows : SetMargins(t, b)
  \/ \E scrolls, shows \in BOOLEAN : SetModes(scrolls, shows)
  \/ Flush \/ FlushSlot \/ FlushEnd
  \/ FullRefresh

Spec == Init /\ [][Next]_vars
-----------------------------------------------------------------------------
Items == [kind : {"put"}, ch : Chars, to : CellIds]
           \cup [kind : {"copy"}, from : CellIds, to : CellIds]

TypeOK ==
  /\ grid \in [CellIds -> Chars]
  /\ queue \in Seq([cell : CellIds, ch : Chars])
  /\ map \in [CellIds -> Nat]
  /\ cursor \in [x : Nat, y : Nat] /\ oldCursor \in [x : Nat, y : Nat]
  /\ text \in [fg : Colours, bg : Colours]
  /\ saved \in [text : [fg : Colours, bg : Colours], cursor : [x : Nat, y : Nat]]
  /\ top \in 0 .. Rows /\ bottom \in 1 .. Rows
  /\ autoscroll \in BOOLEAN /\ cursorOn \in BOOLEAN
  /\ framebuffer \in [CellIds -> [Dots -> Colours]]
  /\ work \in Seq(Items)
  /\ flushing \in 0 .. Len(queue) + 1
  /\ drawn \in BOOLEAN
  /\ calls \in 0 .. MaxCalls

\* A pointer in the map leads to the slot of that very cell, and no cell has
\* two slots, however calls, cursor and flushes alternate; so the array, which
\* has a slot per cell, is enough for push_to_queue, which writes
\* ctx->queue[ctx->queue_i++] without a check.  And between calls every slot is
\* owed to its cell: nothing that was pushed is forgotten.
SlotsExact ==
  /\ \A i \in CellIds :
       map[i] # 0 => map[i] \in 1 .. Len(queue) /\ queue[map[i]].cell = i
  /\ \A k, l \in 1 .. Len(queue) : queue[k].cell = queue[l].cell => k = l
  /\ Len(queue) <= Rows * Cols
  /\ flushing = 0 => \A k \in 1 .. Len(queue) : map[queue[k].cell] = k

\* Between calls the framebuffer shows the grid, dot for dot, with the one
\* cell the cursor was drawn on inverted: the fast plot that skips dots, the
\* cursor drawn over a pending cell and the repainting of the cell it left
\* never leave a stray dot.
FrameShowsGrid ==
  flushing = 0 =>
    \A i \in CellIds :
      framebuffer[i] =
        Plot(IF drawn /\ i = CellAt(oldCursor.x, oldCursor.y)
               THEN Inverted(grid[i]) ELSE grid[i])

\* The screen after the pushes w, made one after the other.
Apply(screen, w) ==
  [screen EXCEPT ![w.to] = IF w.kind = "put" THEN w.ch ELSE screen[w.from]]
Pushed(screen, w) ==
  LET After[n \in 0 .. Len(w)] ==
        IF n = 0 THEN screen ELSE Apply(After[n - 1], w[n])
  IN  After[Len(w)]

\* What the cells show once the running call has made its pushes.
Finished == Pushed([i \in CellIds |-> Pending(i)], work)
Cells ==
  LET finished == Finished
  IN  [p \in (0 .. Cols - 1) \X (0 .. Rows - 1) |-> finished[CellAt(p[1], p[2])]]

\* The queue, the map and the copying loops implement plain cells that every
\* call changes at once; a flush changes none of them.  (The limit a wrap
\* counts to is the number of columns: see CursorLineOnScreen.)
ScreenView == INSTANCE Screen WITH LineLimit <- Cols, cells <- Cells
ImplementsScreen == ScreenView!Spec

\* raw_putchar's own check after a wrap (fb.c:788) and set_cursor_pos keep the
\* cursor on a line of the screen; but the check compares with cols.
CursorLineOnScreen == cursor.y < Rows
==============================================================================
