-------------------------------- MODULE Console --------------------------------
(***************************************************************************)
(* The kernel's console: print of sys/print.c, flanterm_write, the queue   *)
(* of backends/fb.c, and isrHandler and _exception of sys/idt.c, which     *)
(* print to the same terminal wherever they interrupt.                     *)
(*                                                                         *)
(* Every activity is a sequence of operations still to run, todo; the      *)
(* innermost activity runs, one operation a step, and between two steps an *)
(* exception may start another one.  A character's way to the screen is    *)
(* cut where what was read before can be stale when it is used: reading    *)
(* the cursor, each turn of a scroll, push_to_queue before and after it    *)
(* takes a slot, each turn of a flush.                                     *)
(*                                                                         *)
(* Lines are long enough for the kernel's messages, so that nothing wraps; *)
(* the cursor is off, as print leaves it.                                  *)
(***************************************************************************)
EXTENDS Integers, SequencesExt

CONSTANTS
  Rows, Cols,       \* size in characters
  Messages,         \* the message print is given before and after idtStart
  ErrorAt,          \* where _exception writes: [x, y]
  Vectors,          \* bound: exceptions that may come
  MaxRaised         \* bound: exceptions in a behaviour

ASSUME SizeAssumption == Rows \in Nat \ {0} /\ Cols \in Nat \ {0}
ASSUME VectorsAssumption == Vectors \subseteq 0 .. 31 /\ MaxRaised \in Nat
ASSUME ErrorAssumption == ErrorAt.x \in 0 .. Cols - 1 /\ ErrorAt.y \in 0 .. Rows - 1

\* print is given strings.
ASSUME MessagesAssumption == Messages[1] \in Seq(STRING) /\ Messages[2] \in Seq(STRING)

VARIABLES
  frames,       \* activities, the innermost last: [vector, todo]
  hasContext,   \* context # NULL in print.c
  idtLoaded,    \* lidt was executed
  grid,         \* grid[i]: cell i as last flushed
  slots,        \* the array queue: [cell, ch] per slot
  queueI,       \* queue_i
  map,          \* map[i]: the slot pending for cell i, 0 for NULL
  cursor,       \* cursor_x, cursor_y
  oldCursor,    \* old_cursor_x, old_cursor_y
  shown,        \* what the framebuffer shows in cell i
  ended,        \* "reset", or "overrun": a slot beyond the array was written
  paper,        \* history: the lines printed, as on paper
  hits,         \* history: what exceptions interrupted
  raised        \* how many exceptions there were

pending == <<slots, queueI, map>>
vars == <<frames, hasContext, idtLoaded, grid, pending, cursor, oldCursor,
          shown, ended, paper, hits, raised>>

Size == Rows * Cols
CellIds == 0 .. Size - 1
Space == " "
Fill == "fill"

-----------------------------------------------------------------------------
(* Operations.                                                              *)

Write(text) == [op |-> "print", text |-> text]
Type(c)     == [op |-> "type", c |-> c]
Put(ch, i)  == [op |-> "put", ch |-> ch, to |-> i]
Copy(j, i)  == [op |-> "copy", from |-> j, to |-> i]
Take(k, i, ch) == [op |-> "take", slot |-> k, to |-> i, ch |-> ch]
Cursor(x, y) == [op |-> "cursor", x |-> x, y |-> y]
Turn(k)     == [op |-> "turn", k |-> k]
Do(name)    == [op |-> name]

\* _start; the initialisations between its messages do not print.
Boot == << Write(Messages[1]), Do("idtStart"), Write(Messages[2]), Do("hlt") >>

\* printf in isrHandler prints character by character; the number is left out.
IsrHandler == << Write(<<"e">>), Write(<<"LF">>), Do("switch") >>

\* Seeded fault: the message is written before the screen is painted.
Exception_PaintsLast ==
  << Cursor(ErrorAt.x, ErrorAt.y), Write(<<"p">>), Do("paint"), Do("hlt") >>

\* _exception: paint the framebuffer, write the message in colours no other
\* character has, and hang.
Exception ==
  << Do("paint"), Cursor(ErrorAt.x, ErrorAt.y), Write(<<"p">>), Do("hlt") >>

Running == frames # <<>>
Top     == Last(frames)
Now     == Head(Top.todo)
Runs(op) == Running /\ Top.todo # <<>> /\ Now.op = op

\* The operation is replaced by those it is made of.
Becomes(ops) ==
  frames' = [frames EXCEPT ![Len(frames)].todo = ops \o Tail(@)]

-----------------------------------------------------------------------------
(* print and flanterm_write.                                                *)

\* strlen2 characters, and as autoflush is set a flush.
FlantermWrite(text) == Becomes([n \in DOMAIN text |-> Type(text[n])] \o << Turn(1) >>)

PrintText ==
  /\ Runs("print") /\ hasContext
  /\ FlantermWrite(Now.text)
  /\ UNCHANGED <<hasContext, idtLoaded, grid, pending, cursor, oldCursor,
                 shown, ended, paper, hits, raised>>

\* The first print makes the terminal.
PrintFirst ==
  /\ Runs("print") /\ ~hasContext
  /\ hasContext' = TRUE
  /\ FlantermWrite(Now.text)
  /\ UNCHANGED <<idtLoaded, grid, pending, cursor, oldCursor, shown, ended,
                 paper, hits, raised>>

\* flanterm_fb_init returned NULL: print writes through it, which faults, and
\* before idtStart a fault resets the machine.
PrintWithoutContext ==
  /\ Runs("print") /\ ~hasContext
  /\ frames' = <<>> /\ ended' = "reset"
  /\ UNCHANGED <<hasContext, idtLoaded, grid, pending, cursor, oldCursor,
                 shown, paper, hits, raised>>

\* get_cursor_pos clamps.
Smaller(a, b) == IF a < b THEN a ELSE b
Y == Smaller(cursor.y, Rows - 1)

CellAt(x, y) == y * Cols + x

\* Seeded fault: from the last cell backwards.
ScrollOps_Backwards ==
  [n \in 1 .. Size - Cols |-> Copy(Size - n, Size - Cols - n)]
    \o [n \in 1 .. Cols |-> Put(Space, Size - Cols + n - 1)]

ScrollOps ==
  [n \in 1 .. Size - Cols |-> Copy(n - 1 + Cols, n - 1)]
    \o [n \in 1 .. Cols |-> Put(Space, Size - Cols + n - 1)]

\* On paper the first line leaves when there are as many as the screen has.
Feed(lines) == Append(IF Len(lines) = Rows THEN Tail(lines) ELSE lines, <<>>)

\* flanterm_putchar of a line feed; y is used after the scroll.
TypeLineFeed ==
  /\ Runs("type") /\ Now.c = "LF"
  /\ Becomes(IF Y = Rows - 1 THEN ScrollOps \o << Cursor(0, Y) >>
             ELSE << Cursor(0, Y + 1) >>)
  /\ paper' = Feed(paper)
  /\ UNCHANGED <<hasContext, idtLoaded, grid, pending, cursor, oldCursor,
                 shown, ended, hits, raised>>

\* raw_putchar counts the cursor before it calls push_to_queue.
TypeCharacter ==
  /\ Runs("type") /\ Now.c # "LF"
  /\ Becomes(IF cursor.x < Cols THEN << Put(Now.c, CellAt(cursor.x, cursor.y)) >>
             ELSE <<>>)
  /\ cursor' = [cursor EXCEPT !.x = @ + 1]
  /\ paper' = [paper EXCEPT ![Len(paper)] = Append(@, Now.c)]
  /\ UNCHANGED <<hasContext, idtLoaded, grid, pending, oldCursor, shown,
                 ended, hits, raised>>

SetCursorPos ==
  /\ Runs("cursor")
  /\ Becomes(<<>>)
  /\ cursor' = [x |-> Now.x, y |-> Now.y]
  /\ UNCHANGED <<hasContext, idtLoaded, grid, pending, oldCursor, shown,
                 ended, paper, hits, raised>>

-----------------------------------------------------------------------------
(* push_to_queue and the flush.                                             *)

Pending(i) == IF map[i] # 0 THEN slots[map[i]].ch ELSE grid[i]
Content == IF Now.op = "put" THEN Now.ch ELSE Pending(Now.from)

\* Up to q = &ctx->queue[ctx->queue_i++], or all of it when the cell has a
\* slot or shows the character.
Push ==
  /\ Runs("put") \/ Runs("copy")
  /\ LET i == Now.to
     IN  \/ /\ map[i] # 0
            /\ slots' = [slots EXCEPT ![map[i]].ch = Content]
            /\ Becomes(<<>>) /\ UNCHANGED queueI
         \/ /\ map[i] = 0 /\ grid[i] = Content
            /\ Becomes(<<>>) /\ UNCHANGED <<slots, queueI>>
         \/ /\ map[i] = 0 /\ grid[i] # Content
            /\ queueI' = queueI + 1
            /\ Becomes(<< Take(queueI + 1, i, Content) >>)
            /\ UNCHANGED slots
  /\ UNCHANGED <<hasContext, idtLoaded, grid, map, cursor, oldCursor, shown,
                 ended, paper, hits, raised>>

\* The assignments to the slot and to the map; a slot beyond the array lies in
\* other memory.
TakeSlot ==
  /\ Runs("take")
  /\ IF Now.slot <= Size
       THEN /\ slots' = [slots EXCEPT ![Now.slot] = [cell |-> Now.to, ch |-> Now.ch]]
            /\ map' = [map EXCEPT ![Now.to] = Now.slot]
            /\ Becomes(<<>>) /\ UNCHANGED ended
       ELSE /\ frames' = <<>> /\ ended' = "overrun"
            /\ UNCHANGED <<slots, map>>
  /\ UNCHANGED <<hasContext, idtLoaded, grid, queueI, cursor, oldCursor, shown,
                 paper, hits, raised>>

\* Seeded fault: the map still leads to the slot.
FlushTurn_KeepsMap ==
  /\ Runs("turn") /\ Now.k <= queueI
  /\ LET i == slots[Now.k].cell
     IN  IF map[i] = 0 THEN UNCHANGED <<shown, grid>>
         ELSE /\ shown' = [shown EXCEPT ![i] = slots[Now.k].ch]
              /\ grid' = [grid EXCEPT ![i] = slots[Now.k].ch]
  /\ Becomes(<< Turn(Now.k + 1) >>)
  /\ UNCHANGED <<hasContext, idtLoaded, slots, queueI, map, cursor, oldCursor,
                 ended, paper, hits, raised>>

FlushTurn ==
  /\ Runs("turn") /\ Now.k <= queueI
  /\ LET i == slots[Now.k].cell
     IN  IF map[i] = 0 THEN UNCHANGED <<shown, grid, map>>
         ELSE /\ shown' = [shown EXCEPT ![i] = slots[Now.k].ch]
              /\ grid' = [grid EXCEPT ![i] = slots[Now.k].ch]
              /\ map' = [map EXCEPT ![i] = 0]
  /\ Becomes(<< Turn(Now.k + 1) >>)
  /\ UNCHANGED <<hasContext, idtLoaded, slots, queueI, cursor, oldCursor,
                 ended, paper, hits, raised>>

\* With the cursor off, the cell it was on is drawn again every time.
FlushEnd ==
  /\ Runs("turn") /\ Now.k > queueI
  /\ shown' = IF oldCursor.x < Cols
                THEN LET i == CellAt(oldCursor.x, oldCursor.y)
                     IN  [shown EXCEPT ![i] = grid[i]]
              ELSE shown
  /\ oldCursor' = cursor
  /\ queueI' = 0
  /\ Becomes(<<>>)
  /\ UNCHANGED <<hasContext, idtLoaded, grid, slots, map, cursor, ended, paper,
                 hits, raised>>

-----------------------------------------------------------------------------
(* Exceptions.                                                              *)

IdtStart ==
  /\ Runs("idtStart")
  /\ idtLoaded' = TRUE
  /\ Becomes(<<>>)
  /\ UNCHANGED <<hasContext, grid, pending, cursor, oldCursor, shown, ended,
                 paper, hits, raised>>

\* What an exception interrupts: a push that has its slot, a flush, a character
\* or a turn of a scroll that has its place, a line feed that has its line.
Window ==
  IF Top.todo = <<>> THEN {}
  ELSE CASE Now.op = "take"                 -> {"push"}
         [] Now.op = "turn" /\ Now.k > 1    -> {"flush"}
         [] Now.op \in {"put", "copy"}      -> {"place"}
         [] Now.op = "cursor"               -> {"cursor"}
         [] OTHER                           -> {}

\* An exception at any place.  A page fault comes once: _exception, which hangs,
\* makes none.
Raise(v) ==
  /\ Running /\ raised < MaxRaised /\ raised' = raised + 1
  /\ v = 14 => \A n \in DOMAIN frames : frames[n].vector # 14
  /\ IF idtLoaded
       THEN /\ frames' = Append(frames, [vector |-> v, todo |-> IsrHandler])
            /\ hits' = hits \cup Window
            /\ UNCHANGED ended
       ELSE /\ frames' = <<>> /\ ended' = "reset"
            /\ UNCHANGED hits
  /\ UNCHANGED <<hasContext, idtLoaded, grid, pending, cursor, oldCursor,
                 shown, paper>>

\* isrHandler after printf.
Switch ==
  /\ Runs("switch")
  /\ Becomes(IF Top.vector = 14 THEN Exception ELSE <<>>)
  /\ UNCHANGED <<hasContext, idtLoaded, grid, pending, cursor, oldCursor,
                 shown, ended, paper, hits, raised>>

\* The grid is left as it was.
Paint ==
  /\ Runs("paint")
  /\ shown' = [i \in CellIds |-> Fill]
  /\ Becomes(<<>>)
  /\ UNCHANGED <<hasContext, idtLoaded, grid, pending, cursor, oldCursor,
                 ended, paper, hits, raised>>

\* iretq.
Resume ==
  /\ Running /\ Top.todo = <<>>
  /\ frames' = Front(frames)
  /\ UNCHANGED <<hasContext, idtLoaded, grid, pending, cursor, oldCursor,
                 shown, ended, paper, hits, raised>>

-----------------------------------------------------------------------------
Home == [x |-> 0, y |-> 0]
NoVector == -1

Init ==
  /\ frames = << [vector |-> NoVector, todo |-> Boot] >>
  /\ hasContext = FALSE /\ idtLoaded = FALSE
  /\ grid = [i \in CellIds |-> Space]
  /\ slots = [k \in 1 .. Size |-> [cell |-> 0, ch |-> Space]]
  /\ queueI = 0
  /\ map = [i \in CellIds |-> 0]
  /\ cursor = Home /\ oldCursor = Home
  /\ shown = [i \in CellIds |-> Space]
  /\ ended = "no"
  /\ paper = << <<>> >> /\ hits = {} /\ raised = 0

Next ==
  \/ \E v \in Vectors : Raise(v)
  \/ PrintText \/ PrintFirst \/ PrintWithoutContext
  \/ TypeLineFeed \/ TypeCharacter \/ SetCursorPos
  \/ Push \/ TakeSlot \/ FlushTurn \/ FlushEnd
  \/ IdtStart \/ Switch \/ Paint \/ Resume

Spec == Init /\ [][Next]_vars
-----------------------------------------------------------------------------
Harmless(windows) == hits \cap windows = {}

\* Wherever exceptions come but inside push_to_queue or a running flush - the
\* turns of a scroll included - the map leads to slots of their cells, no slot
\* that waits is forgotten, and queue_i++ stays inside the array.
QueueSound ==
  Harmless({"push", "flush"}) =>
    /\ ended # "overrun"
    /\ \A i \in CellIds :
         map[i] # 0 => map[i] <= queueI /\ slots[map[i]].cell = i
    /\ Running /\ ~Runs("take") /\ ~Runs("turn") =>
         \A k \in 1 .. queueI : map[slots[k].cell] = k

\* At rest, in _start or in the error screen.
Resting == Runs("hlt")

\* When _start comes to rest the screen shows what was printed, the messages of
\* handlers at the places they came, in order, scrolled as on paper, provided no
\* exception came between a reading and its use.
PaperShown ==
  Resting /\ Len(frames) = 1 /\ hits = {} =>
    \A x \in 0 .. Cols - 1, y \in 0 .. Rows - 1 :
      shown[CellAt(x, y)] =
        IF y < Len(paper) /\ x < Len(paper[y + 1]) THEN paper[y + 1][x + 1] ELSE Space

\* The error screen shows its message whatever was under way when the page
\* fault came, but for a push or a flush, and whatever exceptions print on it
\* before it scrolls away.
ErrorShown ==
  Resting /\ Top.vector = 14 /\ Harmless({"push", "flush"}) =>
    \E i \in CellIds : shown[i] = "p"
==============================================================================
