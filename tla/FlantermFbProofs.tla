--------------------------- MODULE FlantermFbProofs ---------------------------
(***************************************************************************)
(* Machine-checked proofs about the queue, the map and the framebuffer of  *)
(* FlantermFb, for every size of screen, font and set of colours, and that *)
(* FlantermFb implements Screen.                                           *)
(*                                                                         *)
(* The refinement looks at the pushes a call has yet to make: Pushed runs  *)
(* them, one after the other.  A function that follows the pushes ends     *)
(* with Pushed (PushedIs), so each loop of the code is compared with the   *)
(* screen after its n-th turn, and no step of a loop is seen in Screen.    *)
(***************************************************************************)
EXTENDS FlantermFb, FiniteSetTheorems, SequenceTheorems, WellFoundedInduction, TLAPS

Slots == [cell : CellIds, ch : Chars]

\* A call's pushes are done before a flush begins.
OneAtATime == work = <<>> \/ flushing = 0

\* During a flush the loop has taken off the map all it has passed.
PassedOffMap ==
  flushing # 0 => \A i \in CellIds : map[i] # 0 => map[i] >= flushing

Pointing ==
  \A i \in CellIds :
    map[i] # 0 => map[i] \in 1 .. Len(queue) /\ queue[map[i]].cell = i
NoCellTwice ==
  \A k, l \in 1 .. Len(queue) : queue[k].cell = queue[l].cell => k = l
Owed == flushing = 0 => \A k \in 1 .. Len(queue) : map[queue[k].cell] = k

\* The inductive invariant of the queue.
Queued ==
  /\ TypeOK /\ OneAtATime /\ PassedOffMap
  /\ Pointing /\ NoCellTwice /\ Owed

LEMMA Area == Rows * Cols \in Nat \ {0}
  BY SizeAssumption

LEMMA CellInRange ==
  ASSUME NEW x \in Nat, NEW y \in Nat, x < Cols, y < Rows
  PROVE  CellAt(x, y) \in CellIds
  <1>1. y * Cols =< (Rows - 1) * Cols /\ y * Cols \in Nat
    BY SizeAssumption
  <1>2. (Rows - 1) * Cols = Rows * Cols - Cols
    BY SizeAssumption
  <1> QED
    BY <1>1, <1>2, Area, SizeAssumption DEF CellAt, CellIds

\* Different places on the screen are different cells.
LEMMA CellsDiffer ==
  ASSUME NEW x \in Nat, NEW y \in Nat, NEW u \in Nat, NEW v \in Nat,
         x < Cols, u < Cols, CellAt(x, y) = CellAt(u, v)
  PROVE  x = u /\ y = v
  <1>1. y * Cols + x = v * Cols + u
    BY DEF CellAt
  <1>2. (y * Cols + x) \div Cols = y
    BY SizeAssumption
  <1>3. (v * Cols + u) \div Cols = v
    BY SizeAssumption
  <1> QED
    BY <1>1, <1>2, <1>3, SizeAssumption

\* There are no more slots than cells.
LEMMA QueueBounded ==
  ASSUME TypeOK, NoCellTwice
  PROVE  Len(queue) <= Rows * Cols
  <1> DEFINE n == Len(queue)
             f == [k \in 1 .. n |-> queue[k].cell]
  <1>1. n \in Nat /\ \A k \in 1 .. n : queue[k].cell \in CellIds
    <2>1. queue \in Seq(Slots)
      BY DEF TypeOK, Slots
    <2>2. n \in Nat /\ \A k \in 1 .. n : queue[k] \in Slots
      BY <2>1
    <2> QED
      BY <2>2 DEF Slots
  <1>2. f \in [1 .. n -> CellIds] /\ \A k, l \in 1 .. n : f[k] = f[l] => k = l
    BY <1>1 DEF NoCellTwice
  <1> HIDE DEF n, f
  <1>3. f \in Injection(1 .. n, CellIds)
    BY <1>2 DEF Injection, IsInjective
  <1>4. IsFiniteSet(CellIds) /\ Cardinality(CellIds) = Rows * Cols
    BY Area, FS_Interval DEF CellIds
  <1>5. Cardinality(1 .. n) = n
    BY <1>1, FS_Interval
  <1> QED
    BY <1>3, <1>4, <1>5, FS_Injection DEF n

-----------------------------------------------------------------------------
(* The pushes of a call.                                                    *)

LEMMA InkTyped ==
  ASSUME TypeOK, NEW g \in Glyphs
  PROVE  Ink(g) \in Chars
  BY DEF TypeOK, Ink, Chars

LEMMA SpaceTyped == TypeOK => Ink(Space) \in Chars
  BY InkTyped, FontAssumption

LEMMA PutTyped ==
  ASSUME NEW ch \in Chars, NEW i \in CellIds
  PROVE  Put(ch, i) \in Items
  BY DEF Put, Items

LEMMA CopyTyped ==
  ASSUME NEW j \in CellIds, NEW i \in CellIds
  PROVE  Copy(j, i) \in Items
  BY DEF Copy, Items

LEMMA Sequenced ==
  ASSUME NEW n \in Int, NEW e \in [1 .. n -> Items]
  PROVE  e \in Seq(Items)
  <1>1. CASE n \in Nat
    BY <1>1
  <1>2. CASE n < 0
    <2>1. 1 .. n = 1 .. 0
      BY <1>2
    <2> QED
      BY <2>1
  <1> QED
    BY <1>1, <1>2

LEMMA BlankRowTyped ==
  ASSUME TypeOK, NEW y \in 0 .. Rows - 1
  PROVE  BlankRow(y) \in Seq(Items)
  <1>1. \A i \in 1 .. Cols : Put(Ink(Space), CellAt(i - 1, y)) \in Items
    BY SpaceTyped, PutTyped, CellInRange, SizeAssumption
  <1>2. BlankRow(y) \in [1 .. Cols -> Items]
    BY <1>1 DEF BlankRow
  <1> QED
    BY <1>2, Sequenced, SizeAssumption

LEMMA Products ==
  ASSUME NEW n \in 0 .. Rows
  PROVE  /\ n * Cols \in 0 .. Rows * Cols
         /\ (n + 1) * Cols = n * Cols + Cols
         /\ (n - 1) * Cols = n * Cols - Cols
  <1>1. n * Cols \in Nat /\ n * Cols =< Rows * Cols
    BY SizeAssumption
  <1> QED
    BY <1>1, SizeAssumption

LEMMA ScrollTyped ==
  ASSUME TypeOK
  PROVE  ScrollPushes \in Seq(Items)
  <1> DEFINE n == (bottom - 1 - top) * Cols
             e == [i \in 1 .. n |-> Copy((top + 1) * Cols + i - 1, top * Cols + i - 1)]
  <1>1. top \in 0 .. Rows /\ bottom \in 1 .. Rows
    BY DEF TypeOK
  <1>2. n = bottom * Cols - Cols - top * Cols
    BY <1>1, SizeAssumption
  <1>3. n \in Int
    BY <1>1, SizeAssumption
  <1>4. ASSUME NEW i \in 1 .. n
        PROVE  /\ (top + 1) * Cols + i - 1 \in CellIds
               /\ top * Cols + i - 1 \in CellIds
    <2> DEFINE t == top * Cols
               b == bottom * Cols
               a == Rows * Cols
    <2>1. t \in 0 .. a /\ b \in 0 .. a /\ a \in Nat /\ (top + 1) * Cols = t + Cols
      BY <1>1, Products, Area
    <2>2. i \in Nat /\ 1 =< i /\ i =< b - Cols - t
      BY <1>2, <1>3, <1>4
    <2> HIDE DEF t, b, a
    <2>3. t + Cols + i - 1 \in 0 .. a - 1 /\ t + i - 1 \in 0 .. a - 1
      BY <2>1, <2>2, SizeAssumption
    <2> QED
      BY <2>1, <2>3 DEF CellIds, t, a
  <1>5. e \in [1 .. n -> Items]
    BY <1>4, CopyTyped
  <1>6. e \in Seq(Items)
    BY <1>3, <1>5, Sequenced
  <1>7. BlankRow(bottom - 1) \in Seq(Items)
    <2>1. bottom - 1 \in 0 .. Rows - 1
      BY <1>1, SizeAssumption
    <2> QED
      BY <2>1, BlankRowTyped
  <1> QED
    BY <1>6, <1>7 DEF ScrollPushes

LEMMA RevscrollTyped ==
  ASSUME TypeOK, NEW first \in 0 .. Rows - 1
  PROVE  RevscrollPushes(first) \in Seq(Items)
  <1> DEFINE n == (bottom - 1 - first) * Cols
             e == [i \in 1 .. n |-> Copy((bottom - 1) * Cols - i, bottom * Cols - i)]
  <1>1. first \in 0 .. Rows /\ bottom \in 0 .. Rows
    BY SizeAssumption DEF TypeOK
  <1>2. n = bottom * Cols - Cols - first * Cols
    BY <1>1, SizeAssumption
  <1>3. n \in Int
    BY <1>1, SizeAssumption
  <1>4. ASSUME NEW i \in 1 .. n
        PROVE  /\ (bottom - 1) * Cols - i \in CellIds
               /\ bottom * Cols - i \in CellIds
    <2> DEFINE t == first * Cols
               b == bottom * Cols
               a == Rows * Cols
    <2>1. t \in 0 .. a /\ b \in 0 .. a /\ a \in Nat /\ (bottom - 1) * Cols = b - Cols
      BY <1>1, Products, Area
    <2>2. i \in Nat /\ 1 =< i /\ i =< b - Cols - t
      BY <1>2, <1>3, <1>4
    <2> HIDE DEF t, b, a
    <2>3. b - Cols - i \in 0 .. a - 1 /\ b - i \in 0 .. a - 1
      BY <2>1, <2>2, SizeAssumption
    <2> QED
      BY <2>1, <2>3 DEF CellIds, b, a
  <1>5. e \in [1 .. n -> Items]
    BY <1>4, CopyTyped
  <1>6. e \in Seq(Items)
    BY <1>3, <1>5, Sequenced
  <1>7. BlankRow(first) \in Seq(Items)
    BY BlankRowTyped
  <1> QED
    BY <1>6, <1>7 DEF RevscrollPushes

LEMMA PutAtTyped ==
  ASSUME NEW ch \in Chars, NEW x \in Nat, NEW y \in Nat
  PROVE  PutAt(ch, x, y) \in Seq(Items)
  BY PutTyped, CellInRange DEF PutAt, OnScreen

LEMMA NoPushes == <<>> \in Seq(Items)
  OBVIOUS

-----------------------------------------------------------------------------
(* Types.                                                                   *)

LEMMA PendingTyped ==
  ASSUME Queued, NEW i \in CellIds
  PROVE  Pending(i) \in Chars
  <1>1. /\ grid[i] \in Chars /\ map[i] \in Nat
        /\ queue \in Seq(Slots)
        /\ map[i] # 0 => map[i] \in 1 .. Len(queue)
    BY DEF Queued, TypeOK, Pointing, Slots
  <1>2. map[i] # 0 => queue[map[i]] \in Slots
    BY <1>1
  <1> QED
    BY <1>1, <1>2 DEF Pending, Slots

LEMMA PlotTyped ==
  ASSUME NEW ch \in Chars
  PROVE  Plot(ch) \in [Dots -> Colours]
  BY ColoursAssumption DEF Plot, Pixel, Chars

LEMMA InvertedTyped ==
  ASSUME NEW ch \in Chars
  PROVE  Inverted(ch) \in Chars
  BY DEF Inverted, Chars

LEMMA HeadTyped ==
  ASSUME Queued, work # <<>>
  PROVE  /\ Head(work) \in Items /\ Tail(work) \in Seq(Items)
         /\ Head(work).to \in CellIds /\ Content(Head(work)) \in Chars
  <1>1. work \in Seq(Items)
    BY DEF Queued, TypeOK
  <1>2. Head(work) \in Items /\ Tail(work) \in Seq(Items)
    BY <1>1
  <1>3. Head(work).to \in CellIds
    BY <1>2 DEF Items
  <1>4. Content(Head(work)) \in Chars
    BY <1>2, PendingTyped DEF Items, Content
  <1> QED
    BY <1>2, <1>3, <1>4

\* What a cursor drawn in a flush does to the screen.
LEMMA DrawTyped ==
  ASSUME Queued, NEW fbuf \in [CellIds -> [Dots -> Colours]], DrawCursor(fbuf)
  PROVE  /\ framebuffer' \in [CellIds -> [Dots -> Colours]]
         /\ grid' \in [CellIds -> Chars] /\ map' \in [CellIds -> Nat]
  <1>1. TypeOK
    BY DEF Queued
  <1>2. CASE CursorVisible
    <2>1. CursorCell \in CellIds
      BY <1>1, <1>2, CellInRange DEF CursorVisible, OnScreen, CursorCell, TypeOK
    <2>2. /\ Pending(CursorCell) \in Chars
          /\ Plot(Inverted(Pending(CursorCell))) \in [Dots -> Colours]
      BY <2>1, PendingTyped, InvertedTyped, PlotTyped
    <2>3. grid \in [CellIds -> Chars] /\ map \in [CellIds -> Nat]
      BY <1>1 DEF TypeOK
    <2>4. framebuffer' =
            [fbuf EXCEPT ![CursorCell] = Plot(Inverted(Pending(CursorCell)))]
      BY <1>2 DEF DrawCursor
    <2>5. /\ grid' = [grid EXCEPT ![CursorCell] = Pending(CursorCell)]
          /\ map' = [map EXCEPT ![CursorCell] = 0]
      BY <1>2 DEF DrawCursor
    <2>6. grid' \in [CellIds -> Chars] /\ map' \in [CellIds -> Nat]
      BY <2>1, <2>2, <2>3, <2>5
    <2>7. framebuffer' \in [CellIds -> [Dots -> Colours]]
      BY <2>1, <2>2, <2>4
    <2> QED
      BY <2>6, <2>7
  <1>3. CASE ~CursorVisible
    BY <1>1, <1>3 DEF DrawCursor, TypeOK
  <1> QED
    BY <1>2, <1>3

\* Everything but the pushes of a call is typed as before, and they are too.
LEMMA CallTyped ==
  ASSUME TypeOK, Undrawn, calls < MaxCalls, calls' = calls + 1,
         cursor' \in [x : Nat, y : Nat],
         text' \in [fg : Colours, bg : Colours],
         saved' \in [text : [fg : Colours, bg : Colours], cursor : [x : Nat, y : Nat]],
         top' \in 0 .. Rows, bottom' \in 1 .. Rows,
         autoscroll' \in BOOLEAN, cursorOn' \in BOOLEAN,
         work' \in Seq(Items)
  PROVE  TypeOK'
  BY BoundAssumption, SMTT(40) DEF TypeOK, Undrawn, buffers

LEMMA TypeStep ==
  ASSUME Queued, [Next]_vars
  PROVE  TypeOK'
  <1>t. TypeOK
    BY DEF Queued
  <1> USE DEF Call, context
  <1>1. CASE Push
    <2> DEFINE w == Head(work)
               ch == Content(w)
    <2>1. w.to \in CellIds /\ ch \in Chars /\ Tail(work) \in Seq(Items)
      BY <1>1, HeadTyped DEF Push
    <2>2. queue \in Seq(Slots) /\ map \in [CellIds -> Nat]
      BY <1>t DEF TypeOK, Slots
    <2>3. [cell |-> w.to, ch |-> ch] \in Slots
      BY <2>1 DEF Slots
    <2>4. /\ queue' \in Seq(Slots) /\ Len(queue') >= Len(queue)
          /\ map' \in [CellIds -> Nat]
      <3>1. CASE /\ map[w.to] # 0 /\ queue' = [queue EXCEPT ![map[w.to]].ch = ch]
                 /\ UNCHANGED map
        <4>1. map[w.to] \in 1 .. Len(queue)
          BY <2>1, <3>1 DEF Queued, Pointing
        <4>2. queue[map[w.to]] \in Slots
          BY <2>2, <4>1
        <4>3. [queue[map[w.to]] EXCEPT !.ch = ch] \in Slots
          BY <2>1, <4>2 DEF Slots
        <4> HIDE DEF w, ch
        <4>4. queue' = [queue EXCEPT ![map[w.to]] = [queue[map[w.to]] EXCEPT !.ch = ch]]
          BY <3>1
        <4> QED
          BY <2>2, <3>1, <4>1, <4>3, <4>4
      <3>2. CASE UNCHANGED <<queue, map>>
        BY <2>2, <3>2
      <3>3. CASE /\ queue' = Append(queue, [cell |-> w.to, ch |-> ch])
                 /\ map' = [map EXCEPT ![w.to] = Len(queue) + 1]
        <4> HIDE DEF w, ch
        <4> QED
          BY <2>1, <2>2, <2>3, <3>3
      <3> QED
        BY <1>1, <3>1, <3>2, <3>3 DEF Push
    <2> HIDE DEF w, ch
    <2>5. work' \in Seq(Items)
      BY <1>1, <2>1 DEF Push
    <2>6. /\ UNCHANGED <<grid, cursor, oldCursor, text, saved, context, framebuffer>>
          /\ UNCHANGED <<flushing, drawn, calls>>
      BY <1>1 DEF Push
    <2>7. flushing' \in 0 .. Len(queue') + 1
      BY <1>t, <2>2, <2>4, <2>6 DEF TypeOK
    <2> QED
      BY <1>t, <2>4, <2>5, <2>6, <2>7 DEF TypeOK, Slots
  <1>2. CASE Scroll
    BY <1>t, <1>2, ScrollTyped, CallTyped DEF Scroll, TypeOK
  <1>3. ASSUME NEW first \in 0 .. Rows - 1, Revscroll(first)
        PROVE  TypeOK'
    BY <1>t, <1>3, RevscrollTyped, CallTyped DEF Revscroll, TypeOK
  <1>4. ASSUME NEW move \in BOOLEAN, Clear(move)
        PROVE  TypeOK'
    <2>1. \A i \in 1 .. Rows * Cols : Put(Ink(Space), i - 1) \in Items
      BY <1>t, SpaceTyped, PutTyped, Area DEF CellIds
    <2>2. work' \in Seq(Items)
      <3>1. work' \in [1 .. Rows * Cols -> Items]
        BY <2>1, <1>4 DEF Clear
      <3> QED
        BY <3>1, Sequenced, Area
    <2>3. cursor' \in [x : Nat, y : Nat]
      BY <1>t, <1>4 DEF Clear, TypeOK
    <2> QED
      BY <1>t, <1>4, <2>2, <2>3, CallTyped DEF Clear, TypeOK
  <1>5. ASSUME NEW g \in Glyphs, RawPutchar(g)
        PROVE  TypeOK'
    <2> DEFINE wraps == cursor.x >= Cols /\ (cursor.y < bottom - 1 \/ autoscroll)
               rolls == wraps /\ cursor.y + 1 = bottom
               line  == IF rolls THEN cursor.y ELSE cursor.y + 1
               x     == IF wraps THEN 0 ELSE cursor.x
               y     == IF ~wraps THEN cursor.y
                        ELSE IF line >= Cols THEN Cols - 1 ELSE line
    <2>1. x \in Nat /\ y \in Nat
      BY <1>t, SizeAssumption DEF TypeOK
    <2>2. /\ work' = (IF rolls THEN ScrollPushes ELSE <<>>) \o PutAt(Ink(g), x, y)
          /\ cursor' = [x |-> x + 1, y |-> y]
      BY <1>5 DEF RawPutchar
    <2> HIDE DEF x, y, rolls
    <2>3. cursor' \in [x : Nat, y : Nat]
      BY <2>1, <2>2
    <2>4. work' \in Seq(Items)
      <3>1. (IF rolls THEN ScrollPushes ELSE <<>>) \in Seq(Items)
        BY <1>t, ScrollTyped
      <3>2. PutAt(Ink(g), x, y) \in Seq(Items)
        BY <1>t, <2>1, InkTyped, PutAtTyped
      <3> QED
        BY <2>2, <3>1, <3>2
    <2> QED
      BY <1>t, <1>5, <2>3, <2>4, CallTyped DEF RawPutchar, TypeOK
  <1>6. ASSUME NEW x \in -1 .. Cols, NEW y \in -1 .. Rows, SetCursorPos(x, y)
        PROVE  TypeOK'
    <2>1. cursor' \in [x : Nat, y : Nat]
      BY <1>6, SizeAssumption DEF SetCursorPos, Clamp
    <2> QED
      BY <1>t, <1>6, <2>1, CallTyped DEF SetCursorPos, TypeOK
  <1>7. ASSUME NEW nx \in 0 .. Cols, NEW ox \in 0 .. Cols, NEW y \in 0 .. Rows,
               MoveCharacter(nx, ox, y)
        PROVE  TypeOK'
    <2>1. work' \in Seq(Items)
      BY <1>7, CellInRange, CopyTyped, SizeAssumption DEF MoveCharacter, OnScreen
    <2> QED
      BY <1>t, <1>7, <2>1, CallTyped DEF MoveCharacter, TypeOK
  <1>8. ASSUME NEW colour \in Colours, SetTextFg(colour) \/ SetTextBg(colour)
        PROVE  TypeOK'
    <2>1. text' \in [fg : Colours, bg : Colours]
      BY <1>t, <1>8 DEF SetTextFg, SetTextBg, TypeOK
    <2> QED
      BY <1>t, <1>8, <2>1, CallTyped DEF SetTextFg, SetTextBg, TypeOK
  <1>9. CASE SwapPalette
    BY <1>t, <1>9, CallTyped DEF SwapPalette, TypeOK
  <1>10. CASE SaveState
    BY <1>t, <1>10, CallTyped DEF SaveState, TypeOK
  <1>11. CASE RestoreState
    BY <1>t, <1>11, CallTyped DEF RestoreState, TypeOK
  <1>12. ASSUME NEW t \in 0 .. Rows, NEW b \in 0 .. Rows, SetMargins(t, b)
         PROVE  TypeOK'
    <2>1. t \in 0 .. Rows /\ b \in 1 .. Rows
      BY <1>12, SizeAssumption DEF SetMargins
    <2> QED
      BY <1>t, <1>12, <2>1, CallTyped DEF SetMargins, TypeOK
  <1>13. ASSUME NEW scrolls \in BOOLEAN, NEW shows \in BOOLEAN,
                SetModes(scrolls, shows)
         PROVE  TypeOK'
    BY <1>t, <1>13, CallTyped DEF SetModes, TypeOK
  <1>14. CASE Flush
    <2>1. /\ framebuffer' \in [CellIds -> [Dots -> Colours]]
          /\ grid' \in [CellIds -> Chars] /\ map' \in [CellIds -> Nat]
      BY <1>t, <1>14, DrawTyped DEF Flush, TypeOK
    <2>2. drawn' \in BOOLEAN
      BY <1>t, <1>14 DEF Flush, CursorVisible, OnScreen, TypeOK
    <2> QED
      BY <1>t, <1>14, <2>1, <2>2, BoundAssumption DEF Flush, TypeOK
  <1>15. CASE FlushSlot
    <2> DEFINE i == queue[flushing].cell
               ch == queue[flushing].ch
    <2>1. i \in CellIds /\ ch \in Chars
      <3>1. queue \in Seq(Slots) /\ flushing \in 1 .. Len(queue)
        BY <1>t, <1>15 DEF FlushSlot, TypeOK, Slots
      <3>2. queue[flushing] \in Slots
        BY <3>1
      <3> QED
        BY <3>2 DEF Slots
    <2>2. framebuffer[i] \in [Dots -> Colours] /\ grid[i] \in Chars
      BY <1>t, <2>1 DEF TypeOK
    <2>3. /\ Plot(ch) \in [Dots -> Colours]
          /\ PlotFast(grid[i], ch, framebuffer[i]) \in [Dots -> Colours]
      BY <2>1, <2>2, PlotTyped DEF PlotFast
    <2>4. /\ framebuffer' \in [CellIds -> [Dots -> Colours]]
          /\ grid' \in [CellIds -> Chars] /\ map' \in [CellIds -> Nat]
      <3>1. /\ framebuffer \in [CellIds -> [Dots -> Colours]]
            /\ grid \in [CellIds -> Chars] /\ map \in [CellIds -> Nat]
        BY <1>t DEF TypeOK
      <3>2. \/ UNCHANGED <<framebuffer, grid, map>>
            \/ /\ \E p \in [Dots -> Colours] :
                    framebuffer' = [framebuffer EXCEPT ![i] = p]
               /\ grid' = [grid EXCEPT ![i] = ch]
               /\ map' = [map EXCEPT ![i] = 0]
        BY <1>15, <2>3 DEF FlushSlot
      <3> HIDE DEF i, ch
      <3> QED
        BY <2>1, <3>1, <3>2
    <2> HIDE DEF i, ch
    <2>5. flushing' \in 0 .. Len(queue') + 1
      BY <1>t, <1>15 DEF FlushSlot, TypeOK
    <2>6. UNCHANGED <<queue, cursor, oldCursor, text, saved, context, work, drawn, calls>>
      BY <1>15 DEF FlushSlot
    <2> QED
      BY <1>t, <2>4, <2>5, <2>6 DEF TypeOK
  <1>16. CASE FlushEnd
    <2>1. framebuffer' \in [CellIds -> [Dots -> Colours]]
      <3>1. /\ framebuffer \in [CellIds -> [Dots -> Colours]]
            /\ grid \in [CellIds -> Chars]
            /\ oldCursor.x \in Nat /\ oldCursor.y \in Nat
        BY <1>t DEF TypeOK
      <3>2. \/ UNCHANGED framebuffer
            \/ \E i \in CellIds :
                 framebuffer' = [framebuffer EXCEPT ![i] = Plot(grid[i])]
        BY <1>16, <3>1, CellInRange DEF FlushEnd, OnScreen
      <3>3. \A i \in CellIds : Plot(grid[i]) \in [Dots -> Colours]
        BY <3>1, PlotTyped
      <3> QED
        BY <3>1, <3>2, <3>3
    <2>2. queue' = <<>> /\ flushing' = 0 /\ oldCursor' = cursor
          /\ UNCHANGED <<grid, map, cursor, text, saved, context, work, drawn, calls>>
      BY <1>16 DEF FlushEnd
    <2> QED
      BY <1>t, <2>1, <2>2 DEF TypeOK
  <1>17. CASE FullRefresh
    <2>1. [i \in CellIds |-> Plot(grid[i])] \in [CellIds -> [Dots -> Colours]]
      BY <1>t, PlotTyped DEF TypeOK
    <2>2. /\ framebuffer' \in [CellIds -> [Dots -> Colours]]
          /\ grid' \in [CellIds -> Chars] /\ map' \in [CellIds -> Nat]
      BY <1>17, <2>1, DrawTyped DEF FullRefresh
    <2>3. drawn' \in BOOLEAN
      BY <1>t, <1>17 DEF FullRefresh, CursorVisible, OnScreen, TypeOK
    <2> QED
      BY <1>t, <1>17, <2>2, <2>3, BoundAssumption DEF FullRefresh, TypeOK
  <1>18. CASE UNCHANGED vars
    BY <1>t, <1>18 DEF vars, TypeOK
  <1> QED
    BY <1>1, <1>2, <1>3, <1>4, <1>5, <1>6, <1>7, <1>8, <1>9, <1>10, <1>11, <1>12,
       <1>13, <1>14, <1>15, <1>16, <1>17, <1>18 DEF Next

-----------------------------------------------------------------------------
(* The queue and the map.                                                   *)

Linked == PassedOffMap /\ Pointing /\ NoCellTwice /\ Owed

LEMMA InitQueued == Init => Queued
  <1> SUFFICES ASSUME Init PROVE Queued
    OBVIOUS
  <1> USE DEF Init
  <1>1. text \in [fg : Colours, bg : Colours] /\ Ink(Space) \in Chars
    BY ColoursAssumption, FontAssumption DEF Ink, Chars
  <1>2. grid \in [CellIds -> Chars] /\ map \in [CellIds -> Nat]
    BY <1>1
  <1>3. framebuffer \in [CellIds -> [Dots -> Colours]]
    <2>1. \A i \in CellIds :
            Plot(IF i = 0 THEN Inverted(grid[i]) ELSE grid[i]) \in [Dots -> Colours]
      BY <1>2, PlotTyped, InvertedTyped
    <2> QED
      BY <2>1
  <1>4. /\ saved \in [text : [fg : Colours, bg : Colours], cursor : [x : Nat, y : Nat]]
        /\ cursor \in [x : Nat, y : Nat] /\ oldCursor \in [x : Nat, y : Nat]
    BY ColoursAssumption DEF Home
  <1>5. queue \in Seq(Slots) /\ Len(queue) = 0 /\ work \in Seq(Items)
    OBVIOUS
  <1>6. TypeOK
    BY <1>1, <1>2, <1>3, <1>4, <1>5, SizeAssumption, BoundAssumption DEF TypeOK, Slots
  <1> QED
    BY <1>2, <1>5, <1>6
    DEF Queued, OneAtATime, PassedOffMap, Pointing, NoCellTwice, Owed

LEMMA QuietStep ==
  ASSUME Queued, UNCHANGED <<queue, map, flushing>>
  PROVE  Linked'
  BY DEF Queued, Linked, PassedOffMap, Pointing, NoCellTwice, Owed

LEMMA PushStep ==
  ASSUME Queued, Push
  PROVE  Linked' /\ OneAtATime'
  <1> DEFINE i == Head(work).to
             ch == Content(Head(work))
             n == Len(queue)
  <1>1. flushing = 0 /\ flushing' = 0
    BY DEF Push, Queued, OneAtATime
  <1>2. i \in CellIds
    BY HeadTyped DEF Push
  <1>3. queue \in Seq(Slots) /\ n \in Nat /\ map \in [CellIds -> Nat]
    BY DEF Queued, TypeOK, Slots
  <1>4. Pointing /\ NoCellTwice /\ \A k \in 1 .. n : map[queue[k].cell] = k
    BY <1>1 DEF Queued, Owed
  <1>5. \A k \in 1 .. n : queue[k] \in Slots /\ queue[k].cell \in CellIds
    <2>1. \A k \in 1 .. n : queue[k] \in Slots
      BY <1>3
    <2> QED
      BY <2>1 DEF Slots
  <1>6. CASE /\ map[i] # 0 /\ queue' = [queue EXCEPT ![map[i]].ch = ch]
             /\ UNCHANGED map
    <2>1. map[i] \in 1 .. n
      BY <1>2, <1>4, <1>6 DEF Pointing
    <2>2. Len(queue') = n /\ \A k \in 1 .. n : queue'[k].cell = queue[k].cell
      <3> DEFINE m == map[i]
                 q == [queue[m] EXCEPT !.ch = ch]
      <3>1. q.cell = queue[m].cell
        BY <1>5, <2>1 DEF Slots
      <3>2. queue' = [queue EXCEPT ![m] = q]
        BY <1>6
      <3> HIDE DEF q, m
      <3>3. m \in 1 .. n
        BY <2>1 DEF m
      <3> QED
        BY <1>3, <3>1, <3>2, <3>3
    <2> HIDE DEF n
    <2>3. map' = map
      BY <1>6
    <2>4. Pointing' /\ PassedOffMap'
      BY <1>1, <1>4, <2>2, <2>3 DEF Pointing, PassedOffMap, n
    <2>5. NoCellTwice' /\ Owed'
      BY <1>4, <2>2, <2>3 DEF NoCellTwice, Owed, n
    <2> QED
      BY <1>1, <2>4, <2>5 DEF Linked, OneAtATime
  <1>7. CASE UNCHANGED <<queue, map>>
    BY <1>1, <1>7, QuietStep DEF OneAtATime
  <1>8. CASE /\ map[i] = 0 /\ queue' = Append(queue, [cell |-> i, ch |-> ch])
             /\ map' = [map EXCEPT ![i] = n + 1]
    <2> HIDE DEF i, ch, n
    <2>1. /\ Len(queue') = n + 1 /\ queue'[n + 1].cell = i
          /\ \A k \in 1 .. n : queue'[k] = queue[k]
      BY <1>3, <1>8 DEF n
    <2>2. \A k \in 1 .. n : queue[k].cell # i
      BY <1>3, <1>4, <1>8
    <2>3. map'[i] = n + 1 /\ \A j \in CellIds : j # i => map'[j] = map[j]
      BY <1>2, <1>3, <1>8
    <2>4. Pointing'
      BY <1>2, <1>3, <1>4, <2>1, <2>3 DEF Pointing, n
    <2>5. NoCellTwice'
      BY <1>3, <1>4, <2>1, <2>2 DEF NoCellTwice, n
    <2>6. Owed'
      BY <1>3, <1>4, <1>5, <2>1, <2>2, <2>3 DEF Owed, n
    <2> QED
      BY <1>1, <2>4, <2>5, <2>6 DEF Linked, PassedOffMap, OneAtATime
  <1> QED
    BY <1>6, <1>7, <1>8 DEF Push

\* Drawing the cursor takes at most one cell off the map.
LEMMA DrawLinks ==
  ASSUME Queued, NEW fbuf, DrawCursor(fbuf)
  PROVE  /\ \A i \in CellIds : map'[i] = map[i] \/ map'[i] = 0
         /\ CursorVisible => CursorCell \in CellIds /\ map'[CursorCell] = 0
  <1>1. /\ map \in [CellIds -> Nat]
        /\ cursor.x \in Nat /\ cursor.y \in Nat
    BY DEF Queued, TypeOK
  <1>2. CursorVisible => CursorCell \in CellIds
    BY <1>1, CellInRange DEF CursorVisible, OnScreen, CursorCell
  <1> QED
    BY <1>1, <1>2 DEF DrawCursor

LEMMA FlushStep ==
  ASSUME Queued, Flush
  PROVE  Linked' /\ OneAtATime'
  <1>1. \A i \in CellIds : map'[i] = map[i] \/ map'[i] = 0
    BY DrawLinks DEF Flush
  <1>2. queue' = queue /\ flushing' = 1 /\ work = <<>> /\ work' = work
    BY DEF Flush, Call
  <1>3. map \in [CellIds -> Nat]
    BY DEF Queued, TypeOK
  <1> QED
    BY <1>1, <1>2, <1>3
    DEF Queued, Linked, PassedOffMap, Pointing, NoCellTwice, Owed, OneAtATime

LEMMA FlushSlotStep ==
  ASSUME Queued, FlushSlot
  PROVE  Linked' /\ OneAtATime'
  <1> DEFINE i == queue[flushing].cell
  <1>1. /\ flushing \in 1 .. Len(queue) /\ Len(queue) \in Nat
        /\ queue \in Seq(Slots) /\ map \in [CellIds -> Nat]
    <2>1. flushing \in 1 .. Len(queue)
      BY DEF FlushSlot
    <2>2. queue \in Seq(Slots) /\ map \in [CellIds -> Nat]
      BY DEF Queued, TypeOK, Slots
    <2> QED
      BY <2>1, <2>2
  <1>2. i \in CellIds
    <2>1. queue[flushing] \in Slots
      BY <1>1
    <2> QED
      BY <2>1 DEF Slots
  <1>3. /\ queue' = queue /\ work' = work /\ flushing' = flushing + 1
        /\ map' = [map EXCEPT ![i] = 0]
    <2>1. CASE map[i] = 0
      BY <1>1, <1>2, <2>1 DEF FlushSlot
    <2>2. CASE map[i] # 0
      BY <2>2 DEF FlushSlot
    <2> QED
      BY <2>1, <2>2 DEF FlushSlot
  <1>4. PassedOffMap /\ Pointing /\ NoCellTwice /\ OneAtATime
    BY DEF Queued
  <1> HIDE DEF i
  <1>5. \A j \in CellIds : j # i /\ map[j] # 0 => map[j] # flushing
    BY <1>4 DEF Pointing, i
  <1>6. PassedOffMap'
    BY <1>1, <1>2, <1>3, <1>4, <1>5 DEF PassedOffMap
  <1>7. Pointing'
    BY <1>1, <1>2, <1>3, <1>4 DEF Pointing
  <1>8. NoCellTwice'
    BY <1>3, <1>4 DEF NoCellTwice
  <1>9. Owed' /\ OneAtATime'
    BY <1>1, <1>3, <1>4 DEF Owed, OneAtATime
  <1> QED
    BY <1>6, <1>7, <1>8, <1>9 DEF Linked

LEMMA FlushEndStep ==
  ASSUME Queued, FlushEnd
  PROVE  Linked' /\ OneAtATime'
  <1>1. /\ flushing = Len(queue) + 1 /\ queue' = <<>> /\ flushing' = 0
        /\ UNCHANGED <<map, work>>
    BY DEF FlushEnd
  <1>2. Len(queue) \in Nat /\ map \in [CellIds -> Nat]
    BY DEF Queued, TypeOK
  <1>3. \A i \in CellIds : map[i] = 0
    BY <1>1, <1>2 DEF Queued, PassedOffMap, Pointing
  <1> QED
    BY <1>1, <1>3 DEF Linked, PassedOffMap, Pointing, NoCellTwice, Owed, OneAtATime

LEMMA FullRefreshStep ==
  ASSUME Queued, FullRefresh
  PROVE  Linked' /\ OneAtATime'
  <1>1. /\ queue = <<>> /\ queue' = queue /\ flushing' = 0 /\ flushing = 0
    BY DEF FullRefresh, Call
  <1>2. \A i \in CellIds : map[i] = 0
    BY <1>1 DEF Queued, Pointing
  <1>3. \A i \in CellIds : map'[i] = 0
    BY <1>2, DrawLinks DEF FullRefresh
  <1> QED
    BY <1>1, <1>3 DEF Linked, PassedOffMap, Pointing, NoCellTwice, Owed, OneAtATime

\* The calls themselves leave queue and map alone; they start when nothing runs.
Begins == flushing = 0 /\ UNCHANGED <<queue, map, flushing>>

LEMMA QueueStep ==
  ASSUME Queued, [Next]_vars
  PROVE  Queued'
  <1>1. CASE Begins
    <2>1. OneAtATime'
      BY <1>1 DEF Begins, OneAtATime
    <2> QED
      BY <1>1, <2>1, TypeStep, QuietStep DEF Begins, Queued, Linked
  <1>2. CASE Push \/ Flush \/ FlushSlot \/ FlushEnd \/ FullRefresh
    BY <1>2, TypeStep, PushStep, FlushStep, FlushSlotStep, FlushEndStep,
       FullRefreshStep DEF Queued, Linked
  <1>3. CASE UNCHANGED vars
    <2>1. OneAtATime' /\ UNCHANGED <<queue, map, flushing>>
      BY <1>3 DEF vars, Queued, OneAtATime
    <2> QED
      BY <2>1, TypeStep, QuietStep DEF Queued, Linked
  <1> USE DEF Begins, Call, Undrawn, buffers
  <1>4. Scroll => Begins
    BY DEF Scroll
  <1>5. \A first : Revscroll(first) => Begins
    BY DEF Revscroll
  <1>6. \A move : Clear(move) => Begins
    BY DEF Clear
  <1>7. \A g : RawPutchar(g) => Begins
    BY DEF RawPutchar
  <1>8. \A x, y : SetCursorPos(x, y) => Begins
    BY DEF SetCursorPos
  <1>9. \A nx, ox, y : MoveCharacter(nx, ox, y) => Begins
    BY DEF MoveCharacter
  <1>10. \A c : SetTextFg(c) \/ SetTextBg(c) => Begins
    BY DEF SetTextFg, SetTextBg
  <1>11. SwapPalette \/ SaveState \/ RestoreState => Begins
    BY DEF SwapPalette, SaveState, RestoreState
  <1>12. \A t, b : SetMargins(t, b) => Begins
    BY DEF SetMargins
  <1>13. \A a, c : SetModes(a, c) => Begins
    BY DEF SetModes
  <1> QED
    BY <1>1, <1>2, <1>3, <1>4, <1>5, <1>6, <1>7, <1>8, <1>9, <1>10, <1>11, <1>12,
       <1>13 DEF Next

\* The inductive invariant of the queue holds in every reachable state.
THEOREM QueueInvariant == Spec => []Queued
  <1>1. Init => Queued
    BY InitQueued
  <1>2. Queued /\ [Next]_vars => Queued'
    BY QueueStep
  <1> QED
    BY <1>1, <1>2, PTL DEF Spec

\* Every state of the backend is well typed: no push is for a cell off the screen.
THEOREM TypeCorrect == Spec => []TypeOK
  <1>1. Queued => TypeOK
    BY DEF Queued
  <1> QED
    BY <1>1, QueueInvariant, PTL

\* Map and queue lead to each other, no cell has two slots, and the array of
\* the queue is never outgrown.
THEOREM SlotsCorrect == Spec => []SlotsExact
  <1>1. Queued => SlotsExact
    BY QueueBounded DEF Queued, SlotsExact, Pointing, NoCellTwice, Owed
  <1> QED
    BY <1>1, QueueInvariant, PTL

-----------------------------------------------------------------------------
(* The framebuffer.                                                         *)

OnCell(c, i) == OnScreen(c.x, c.y) /\ i = CellAt(c.x, c.y)

\* What cell i shows, with or without the cursor.
Shows(i, withCursor) ==
  framebuffer[i] = Plot(IF withCursor THEN Inverted(grid[i]) ELSE grid[i])

\* Between calls the grid and the cursor of the last flush are shown.  During a
\* flush the new cursor is drawn already, off the map so that the loop passes
\* its cell, and only the cell of the old one may show something else.
Shown ==
  /\ flushing = 0 =>
       /\ drawn => OnScreen(oldCursor.x, oldCursor.y)
       /\ \A i \in CellIds : Shows(i, drawn /\ OnCell(oldCursor, i))
  /\ flushing # 0 =>
       /\ drawn = CursorVisible
       /\ \A i \in CellIds :
            /\ drawn /\ OnCell(cursor, i) => Shows(i, TRUE) /\ map[i] = 0
            /\ ~(drawn /\ OnCell(cursor, i)) /\ ~OnCell(oldCursor, i) => Shows(i, FALSE)

\* Skipping the dots in which two glyphs agree draws the new one in full, if
\* the old one was there and the colours are the same.
LEMMA FastIsExact ==
  ASSUME NEW old \in Chars, NEW ch \in Chars, ch.fg = old.fg, ch.bg = old.bg
  PROVE  PlotFast(old, ch, Plot(old)) = Plot(ch)
  BY FontAssumption DEF PlotFast, Plot, Chars

LEMMA InitShown == Init => Shown
  <1> SUFFICES ASSUME Init PROVE Shown
    OBVIOUS
  <1>1. /\ OnScreen(oldCursor.x, oldCursor.y) /\ CellAt(oldCursor.x, oldCursor.y) = 0
        /\ flushing = 0 /\ drawn = TRUE
    BY SizeAssumption DEF Init, Home, OnScreen, CellAt
  <1>2. \A i \in CellIds :
          framebuffer[i] = Plot(IF i = 0 THEN Inverted(grid[i]) ELSE grid[i])
    BY DEF Init
  <1> QED
    BY <1>1, <1>2 DEF Shown, Shows, OnCell

\* Steps that draw nothing.
LEMMA QuietShown ==
  ASSUME Shown, flushing = 0,
         UNCHANGED <<grid, framebuffer, flushing, drawn, oldCursor>>
  PROVE  Shown'
  BY DEF Shown, Shows, OnCell, OnScreen, CellAt

\* Drawing the cursor over cells that show the grid, but for one.
LEMMA DrawShows ==
  ASSUME Queued, NEW fbuf \in [CellIds -> [Dots -> Colours]], DrawCursor(fbuf),
         NEW i \in CellIds
  PROVE  /\ CursorVisible /\ OnCell(cursor, i) => Shows(i, TRUE)' /\ map'[i] = 0
         /\ ~(CursorVisible /\ OnCell(cursor, i)) =>
              framebuffer'[i] = fbuf[i] /\ grid'[i] = grid[i]
  <1>1. grid \in [CellIds -> Chars] /\ map \in [CellIds -> Nat]
    BY DEF Queued, TypeOK
  <1>2. CASE CursorVisible
    <2>1. /\ framebuffer' = [fbuf EXCEPT ![CursorCell] = Plot(Inverted(Pending(CursorCell)))]
          /\ grid' = [grid EXCEPT ![CursorCell] = Pending(CursorCell)]
          /\ map' = [map EXCEPT ![CursorCell] = 0]
      BY <1>2 DEF DrawCursor
    <2>2. OnCell(cursor, i) <=> i = CursorCell
      BY <1>2 DEF OnCell, CursorVisible, CursorCell
    <2>3. CASE i = CursorCell
      <3>1. framebuffer'[i] = Plot(Inverted(Pending(CursorCell)))
        BY <2>1, <2>3
      <3>2. grid'[i] = Pending(CursorCell) /\ map'[i] = 0
        BY <1>1, <2>1, <2>3
      <3>3. framebuffer'[i] = Plot(Inverted(grid'[i]))
        BY <3>1, <3>2
      <3>4. Shows(i, TRUE)'
        BY <3>3 DEF Shows
      <3> QED
        BY <1>2, <2>2, <2>3, <3>2, <3>4
    <2>4. CASE i # CursorCell
      <3>1. framebuffer'[i] = fbuf[i] /\ grid'[i] = grid[i]
        BY <1>1, <2>1, <2>4
      <3> QED
        BY <2>2, <2>4, <3>1
    <2> QED
      BY <2>3, <2>4
  <1>3. CASE ~CursorVisible
    BY <1>3 DEF DrawCursor
  <1> QED
    BY <1>2, <1>3

LEMMA FlushShown ==
  ASSUME Queued, Shown, Flush
  PROVE  Shown'
  <1>1. /\ flushing = 0 /\ flushing' = 1 /\ drawn' = CursorVisible
        /\ UNCHANGED <<cursor, oldCursor, cursorOn>>
        /\ framebuffer \in [CellIds -> [Dots -> Colours]]
    BY DEF Flush, Call, context, Queued, TypeOK
  <1>2. CursorVisible' = CursorVisible
    BY <1>1 DEF CursorVisible, OnScreen
  <1>3. ASSUME NEW i \in CellIds
        PROVE  /\ drawn' /\ OnCell(cursor, i)' => Shows(i, TRUE)' /\ map'[i] = 0
               /\ ~(drawn' /\ OnCell(cursor, i)') /\ ~OnCell(oldCursor, i)'
                    => Shows(i, FALSE)'
    <2>1. OnCell(cursor, i)' = OnCell(cursor, i)
            /\ OnCell(oldCursor, i)' = OnCell(oldCursor, i)
      BY <1>1 DEF OnCell, OnScreen, CellAt
    <2>2. /\ CursorVisible /\ OnCell(cursor, i) => Shows(i, TRUE)' /\ map'[i] = 0
          /\ ~(CursorVisible /\ OnCell(cursor, i)) =>
                framebuffer'[i] = framebuffer[i] /\ grid'[i] = grid[i]
      BY <1>1, DrawShows DEF Flush
    <2>3. ~OnCell(oldCursor, i) => Shows(i, FALSE)
      BY <1>1 DEF Shown, Shows
    <2> QED
      BY <1>1, <2>1, <2>2, <2>3 DEF Shows
  <1>4. drawn' = CursorVisible' /\ flushing' # 0
    BY <1>1, <1>2
  <1> QED
    BY <1>3, <1>4, Zenon DEF Shown

LEMMA FlushSlotShown ==
  ASSUME Queued, Shown, FlushSlot
  PROVE  Shown'
  <1> DEFINE i == queue[flushing].cell
             ch == queue[flushing].ch
  <1>1. /\ flushing # 0 /\ flushing' # 0 /\ drawn' = drawn
        /\ UNCHANGED <<cursor, oldCursor, cursorOn>>
        /\ grid \in [CellIds -> Chars] /\ map \in [CellIds -> Nat]
        /\ framebuffer \in [CellIds -> [Dots -> Colours]]
    <2>1. /\ flushing # 0 /\ flushing' # 0 /\ drawn' = drawn
          /\ UNCHANGED <<cursor, oldCursor, cursorOn>>
      BY DEF FlushSlot, context
    <2>2. /\ grid \in [CellIds -> Chars] /\ map \in [CellIds -> Nat]
          /\ framebuffer \in [CellIds -> [Dots -> Colours]]
      BY DEF Queued, TypeOK
    <2> QED
      BY <2>1, <2>2
  <1>2. i \in CellIds /\ ch \in Chars
    <2>1. flushing \in 1 .. Len(queue) /\ queue \in Seq(Slots)
      BY DEF FlushSlot, Queued, TypeOK, Slots
    <2>2. queue[flushing] \in Slots
      BY <2>1
    <2> QED
      BY <2>2 DEF Slots
  <1>3. \/ UNCHANGED <<framebuffer, grid, map>>
        \/ /\ map[i] # 0
           /\ framebuffer' = [framebuffer EXCEPT ![i] =
                  IF ch.fg = grid[i].fg /\ ch.bg = grid[i].bg
                    THEN PlotFast(grid[i], ch, framebuffer[i]) ELSE Plot(ch)]
           /\ grid' = [grid EXCEPT ![i] = ch]
           /\ map' = [map EXCEPT ![i] = 0]
    BY DEF FlushSlot
  <1> HIDE DEF i, ch
  <1>4. CursorVisible' = CursorVisible
    BY <1>1 DEF CursorVisible, OnScreen
  <1>5. ASSUME NEW j \in CellIds
        PROVE  /\ drawn' /\ OnCell(cursor, j)' => Shows(j, TRUE)' /\ map'[j] = 0
               /\ ~(drawn' /\ OnCell(cursor, j)') /\ ~OnCell(oldCursor, j)'
                    => Shows(j, FALSE)'
    <2>1. OnCell(cursor, j)' = OnCell(cursor, j)
            /\ OnCell(oldCursor, j)' = OnCell(oldCursor, j)
      BY <1>1 DEF OnCell, OnScreen, CellAt
    <2>2. /\ drawn /\ OnCell(cursor, j) => Shows(j, TRUE) /\ map[j] = 0
          /\ ~(drawn /\ OnCell(cursor, j)) /\ ~OnCell(oldCursor, j) => Shows(j, FALSE)
      BY <1>1 DEF Shown
    <2>3. CASE framebuffer'[j] = framebuffer[j] /\ grid'[j] = grid[j] /\ map'[j] = map[j]
      BY <1>1, <2>1, <2>2, <2>3 DEF Shows
    <2>4. CASE /\ j = i /\ map[i] # 0 /\ grid'[i] = ch
               /\ framebuffer'[i] = IF ch.fg = grid[i].fg /\ ch.bg = grid[i].bg
                     THEN PlotFast(grid[i], ch, framebuffer[i]) ELSE Plot(ch)
      <3>1. ~(drawn /\ OnCell(cursor, j))
        BY <2>2, <2>4
      <3>2. CASE OnCell(oldCursor, j)
        BY <1>1, <2>1, <3>1, <3>2
      <3>3. CASE ~OnCell(oldCursor, j)
        <4>1. framebuffer[i] = Plot(grid[i])
          BY <2>2, <2>4, <3>1, <3>3 DEF Shows
        <4>2. framebuffer'[i] = Plot(ch)
          BY <1>1, <1>2, <2>4, <4>1, FastIsExact
        <4> QED
          BY <1>1, <2>1, <2>4, <3>1, <4>2 DEF Shows
      <3> QED
        BY <3>2, <3>3
    <2> QED
      BY <1>1, <1>2, <1>3, <2>3, <2>4
  <1> QED
    BY <1>1, <1>4, <1>5 DEF Shown

LEMMA FlushEndShown ==
  ASSUME Queued, Shown, FlushEnd
  PROVE  Shown'
  <1>1. /\ flushing # 0 /\ flushing' = 0 /\ drawn' = drawn /\ oldCursor' = cursor
        /\ grid' = grid /\ drawn = CursorVisible
        /\ framebuffer \in [CellIds -> [Dots -> Colours]]
        /\ cursor \in [x : Nat, y : Nat] /\ oldCursor \in [x : Nat, y : Nat]
    <2>1. flushing = Len(queue) + 1 /\ Len(queue) \in Nat
      BY DEF FlushEnd, Queued, TypeOK
    <2>2. flushing # 0
      BY <2>1
    <2>3. drawn = CursorVisible
      BY <2>2, Zenon DEF Shown
    <2>4. /\ framebuffer \in [CellIds -> [Dots -> Colours]]
          /\ cursor \in [x : Nat, y : Nat] /\ oldCursor \in [x : Nat, y : Nat]
      BY DEF Queued, TypeOK
    <2> QED
      BY <2>2, <2>3, <2>4, Zenon DEF FlushEnd
  <1> DEFINE moved == cursor # oldCursor \/ ~cursorOn
  <1>2. /\ \A i \in CellIds : moved /\ OnCell(oldCursor, i) =>
              framebuffer'[i] = Plot(grid[i])
        /\ \A i \in CellIds : ~(moved /\ OnCell(oldCursor, i)) =>
              framebuffer'[i] = framebuffer[i]
    <2>1. CASE moved /\ OnScreen(oldCursor.x, oldCursor.y)
      <3> DEFINE c == CellAt(oldCursor.x, oldCursor.y)
      <3>1. framebuffer' = [framebuffer EXCEPT ![c] = Plot(grid[c])]
        BY <2>1 DEF FlushEnd
      <3>2. \A i : OnCell(oldCursor, i) <=> i = c
        BY <2>1 DEF OnCell
      <3> HIDE DEF c
      <3> QED
        BY <1>1, <2>1, <3>1, <3>2
    <2>2. CASE ~(moved /\ OnScreen(oldCursor.x, oldCursor.y))
      BY <2>2 DEF FlushEnd, OnCell
    <2> QED
      BY <2>1, <2>2
  <1>3. ASSUME NEW i \in CellIds
        PROVE  framebuffer'[i] =
                 Plot(IF drawn /\ OnCell(cursor, i) THEN Inverted(grid[i]) ELSE grid[i])
    <2>1. /\ drawn /\ OnCell(cursor, i) => Shows(i, TRUE)
          /\ ~(drawn /\ OnCell(cursor, i)) /\ ~OnCell(oldCursor, i) => Shows(i, FALSE)
      BY <1>1 DEF Shown
    <2>2. CASE drawn /\ OnCell(cursor, i)
      <3>1. ~(moved /\ OnCell(oldCursor, i))
        <4> SUFFICES ASSUME moved, OnCell(oldCursor, i) PROVE FALSE
          OBVIOUS
        <4>1. cursorOn /\ cursor # oldCursor
          BY <1>1, <2>2 DEF CursorVisible
        <4>2. cursor.x = oldCursor.x /\ cursor.y = oldCursor.y
          BY <1>1, <2>2, CellsDiffer DEF OnCell, OnScreen
        <4> QED
          BY <1>1, <4>1, <4>2
      <3> QED
        BY <1>2, <2>1, <2>2, <3>1 DEF Shows
    <2>3. CASE ~(drawn /\ OnCell(cursor, i)) /\ OnCell(oldCursor, i)
      <3>1. moved
        BY <1>1, <2>3 DEF CursorVisible, OnCell
      <3> QED
        BY <1>2, <2>3, <3>1
    <2>4. CASE ~(drawn /\ OnCell(cursor, i)) /\ ~OnCell(oldCursor, i)
      BY <1>2, <2>1, <2>4 DEF Shows
    <2> QED
      BY <2>2, <2>3, <2>4
  <1>4. drawn' => OnScreen(oldCursor.x, oldCursor.y)'
    BY <1>1 DEF CursorVisible, OnScreen
  <1>5. \A i \in CellIds : Shows(i, drawn /\ OnCell(oldCursor, i))'
    BY <1>1, <1>3 DEF Shows, OnCell, OnScreen, CellAt
  <1> QED
    BY <1>1, <1>4, <1>5 DEF Shown

LEMMA FullRefreshShown ==
  ASSUME Queued, Shown, FullRefresh
  PROVE  Shown'
  <1> DEFINE all == [i \in CellIds |-> Plot(grid[i])]
  <1>1. /\ flushing' = 0 /\ drawn' = CursorVisible /\ DrawCursor(all)
        /\ cursor = oldCursor /\ oldCursor' = oldCursor
    BY DEF FullRefresh, Call
  <1>2. all \in [CellIds -> [Dots -> Colours]]
    BY PlotTyped DEF Queued, TypeOK
  <1>3. \A i \in CellIds : all[i] = Plot(grid[i])
    OBVIOUS
  <1> HIDE DEF all
  <1>4. ASSUME NEW i \in CellIds
        PROVE  framebuffer'[i] =
                 Plot(IF CursorVisible /\ OnCell(cursor, i) THEN Inverted(grid'[i])
                      ELSE grid'[i])
    <2>1. /\ CursorVisible /\ OnCell(cursor, i) => Shows(i, TRUE)'
          /\ ~(CursorVisible /\ OnCell(cursor, i)) =>
                framebuffer'[i] = all[i] /\ grid'[i] = grid[i]
      BY <1>1, <1>2, DrawShows
    <2> QED
      BY <1>3, <2>1 DEF Shows
  <1>5. drawn' => OnScreen(oldCursor.x, oldCursor.y)'
    BY <1>1 DEF CursorVisible, OnScreen
  <1>6. \A i \in CellIds : Shows(i, drawn /\ OnCell(oldCursor, i))'
    BY <1>1, <1>4 DEF Shows, OnCell, OnScreen, CellAt
  <1> QED
    BY <1>1, <1>5, <1>6 DEF Shown

\* The calls that do not draw.
StillShows ==
  flushing = 0 /\ UNCHANGED <<grid, framebuffer, flushing, drawn, oldCursor>>

LEMMA ShownStep ==
  ASSUME Queued, Shown, [Next]_vars
  PROVE  Shown'
  <1>1. CASE StillShows
    BY <1>1, QuietShown DEF StillShows
  <1>2. CASE Flush \/ FlushSlot \/ FlushEnd \/ FullRefresh
    BY <1>2, FlushShown, FlushSlotShown, FlushEndShown, FullRefreshShown
  <1>3. CASE UNCHANGED vars
    <2>1. UNCHANGED <<grid, framebuffer, flushing, drawn, oldCursor, cursor, cursorOn, map>>
      BY <1>3 DEF vars
    <2> QED
      BY <2>1 DEF Shown, Shows, OnCell, OnScreen, CellAt, CursorVisible
  <1>4. Push => StillShows
    BY DEF Push, StillShows, Queued, OneAtATime
  <1> USE DEF StillShows, Call, Undrawn, buffers
  <1>5. Scroll \/ SwapPalette \/ SaveState \/ RestoreState => StillShows
    BY DEF Scroll, SwapPalette, SaveState, RestoreState
  <1>6. \A first : Revscroll(first) => StillShows
    BY DEF Revscroll
  <1>7. \A move : Clear(move) => StillShows
    BY DEF Clear
  <1>8. \A g : RawPutchar(g) => StillShows
    BY DEF RawPutchar
  <1>9. \A x, y : SetCursorPos(x, y) => StillShows
    BY DEF SetCursorPos
  <1>10. \A nx, ox, y : MoveCharacter(nx, ox, y) => StillShows
    BY DEF MoveCharacter
  <1>11. \A c : SetTextFg(c) \/ SetTextBg(c) => StillShows
    BY DEF SetTextFg, SetTextBg
  <1>12. \A t, b : SetMargins(t, b) => StillShows
    BY DEF SetMargins
  <1>13. \A a, c : SetModes(a, c) => StillShows
    BY DEF SetModes
  <1> QED
    BY <1>1, <1>2, <1>3, <1>4, <1>5, <1>6, <1>7, <1>8, <1>9, <1>10, <1>11, <1>12,
       <1>13 DEF Next

\* Whatever was printed, however the cursor moved, and whenever it was flushed,
\* between calls the framebuffer shows the grid and the cursor, dot for dot.
THEOREM FrameCorrect == Spec => []FrameShowsGrid
  <1>1. Init => Shown
    BY InitShown
  <1>2. Queued /\ Shown /\ [Next]_vars => Shown'
    BY ShownStep
  <1>3. Shown => FrameShowsGrid
    <2> SUFFICES ASSUME Shown, flushing = 0, NEW i \in CellIds
                 PROVE  framebuffer[i] =
                          Plot(IF drawn /\ i = CellAt(oldCursor.x, oldCursor.y)
                                 THEN Inverted(grid[i]) ELSE grid[i])
      BY DEF FrameShowsGrid
    <2>1. Shows(i, drawn /\ OnCell(oldCursor, i))
      BY DEF Shown
    <2>2. drawn => OnScreen(oldCursor.x, oldCursor.y)
      BY DEF Shown
    <2> QED
      BY <2>1, <2>2 DEF Shows, OnCell
  <1> QED
    BY <1>1, <1>2, <1>3, QueueInvariant, PTL DEF Spec
-----------------------------------------------------------------------------
(* The pushes of a call, made one after the other: the recursion of Pushed  *)
(* has one solution.                                                        *)

Screens == [CellIds -> Chars]

LEMMA ApplyTyped ==
  ASSUME NEW s \in Screens, NEW w \in Items
  PROVE  /\ Apply(s, w) \in Screens
         /\ w.kind = "put" =>
              w.ch \in Chars /\ w.to \in CellIds
              /\ Apply(s, w) = [s EXCEPT ![w.to] = w.ch]
         /\ w.kind # "put" =>
              w.from \in CellIds /\ w.to \in CellIds
              /\ Apply(s, w) = [s EXCEPT ![w.to] = s[w.from]]
  <1>1. w.to \in CellIds
    BY DEF Items
  <1>2. CASE w.kind = "put"
    <2>1. w.ch \in Chars
      BY <1>2 DEF Items
    <2> QED
      BY <1>1, <1>2, <2>1 DEF Apply, Screens
  <1>3. CASE w.kind # "put"
    <2>1. w.from \in CellIds
      BY <1>3 DEF Items
    <2> QED
      BY <1>1, <1>3, <2>1 DEF Apply, Screens
  <1> QED
    BY <1>2, <1>3

\* Induction over the numbers, for a set of numbers: its least non-member has a
\* predecessor, which is a member.
LEMMA NatSetInduction ==
  ASSUME NEW S, 0 \in S, \A n \in Nat : n \in S => n + 1 \in S
  PROVE  Nat \subseteq S
  <1> DEFINE R == OpToRel(<, Nat)
  <1>1. \A x, y \in Nat : <<x, y>> \in R <=> x < y
    BY DEF OpToRel
  <1>2. IsWellFoundedOn(R, Nat)
    BY NatLessThanWellFounded, Zenon
  <1> HIDE DEF R
  <1>3. SUFFICES ASSUME Nat \ S # {} PROVE FALSE
    BY Zenon
  <1>4. PICK x \in Nat \ S : \A y \in Nat \ S : ~(<<y, x>> \in R)
    <2>1. Nat \ S \subseteq Nat
      OBVIOUS
    <2> QED BY <1>2, <1>3, <2>1, WFMin, Zenon
  <1>5. x # 0
    BY <1>4
  <1>6. x - 1 \in Nat /\ x - 1 < x /\ x - 1 + 1 = x
    BY <1>4, <1>5
  <1>7. x - 1 \in S
    BY <1>1, <1>4, <1>6
  <1> QED
    BY <1>4, <1>6, <1>7

\* h shows screen s after none, one, two ... m of the pushes w.
Run(h, m, s, w) ==
  /\ h \in [0 .. m -> Screens] /\ h[0] = s
  /\ \A n \in 1 .. m : h[n] = Apply(h[n - 1], w[n])

\* One push more.
LEMMA RunOn ==
  ASSUME NEW w \in Seq(Items), NEW s \in Screens, NEW m \in Nat, m + 1 <= Len(w),
         NEW h, Run(h, m, s, w)
  PROVE  \E g : Run(g, m + 1, s, w)
  <1> DEFINE x == Apply(h[m], w[m + 1])
             g == [n \in 0 .. m + 1 |-> IF n = m + 1 THEN x ELSE h[n]]
  <1>1. m \in 0 .. m /\ w[m + 1] \in Items
    OBVIOUS
  <1>2. h \in [0 .. m -> Screens] /\ h[0] = s /\ \A n \in 1 .. m : h[n] = Apply(h[n - 1], w[n])
    BY DEF Run
  <1>3. x \in Screens
    BY <1>1, <1>2, ApplyTyped
  <1> HIDE DEF x
  <1>4. g \in [0 .. m + 1 -> Screens] /\ g[m + 1] = x /\ \A n \in 0 .. m : g[n] = h[n]
    BY <1>2, <1>3
  <1> HIDE DEF g
  <1>5. g[0] = s
    BY <1>2, <1>4
  <1>6. ASSUME NEW n \in 1 .. m + 1 PROVE g[n] = Apply(g[n - 1], w[n])
    <2>1. CASE n = m + 1
      <3>1. g[n - 1] = h[m] /\ g[n] = x
        BY <1>4, <2>1
      <3> QED
        BY <2>1, <3>1, Zenon DEF x
    <2>2. CASE n # m + 1
      <3>1. n \in 1 .. m /\ n \in 0 .. m /\ n - 1 \in 0 .. m
        BY <2>2
      <3>2. g[n] = h[n] /\ g[n - 1] = h[n - 1] /\ h[n] = Apply(h[n - 1], w[n])
        BY <1>2, <1>4, <3>1, Zenon
      <3> QED
        BY <3>2, Zenon
    <2> QED
      BY <2>1, <2>2
  <1>7. Run(g, m + 1, s, w)
    BY <1>4, <1>5, <1>6 DEF Run
  <1> QED
    BY <1>7

\* A screen after every push.
LEMMA RunExists ==
  ASSUME NEW w \in Seq(Items), NEW s \in Screens
  PROVE  \E h : Run(h, Len(w), s, w)
  <1> DEFINE S == {m \in Nat : m <= Len(w) => \E h : Run(h, m, s, w)}
  <1>0. Len(w) \in Nat
    OBVIOUS
  <1>1. 0 \in S
    <2> DEFINE h == [n \in 0 .. 0 |-> s]
    <2>1. Run(h, 0, s, w)
      BY DEF Run
    <2> QED
      BY <2>1, Zenon
  <1>2. ASSUME NEW m \in Nat, m \in S PROVE m + 1 \in S
    <2>1. m + 1 \in Nat /\ (m + 1 <= Len(w) => m <= Len(w))
      BY <1>0
    <2>2. ASSUME m + 1 <= Len(w)
          PROVE  \E h : Run(h, m + 1, s, w)
      <3>1. PICK h : Run(h, m, s, w)
        BY <1>2, <2>1, <2>2, Zenon
      <3> QED
        BY <2>2, <3>1, RunOn
    <2> QED
      BY <2>1, <2>2, Zenon
  <1> HIDE DEF S
  <1>3. Nat \subseteq S
    BY <1>1, <1>2, NatSetInduction
  <1>4. Len(w) \in S /\ Len(w) <= Len(w)
    BY <1>0, <1>3
  <1> QED
    BY <1>4, Zenon DEF S

\* g follows the pushes, for as long as it shows screens.
Follows(g, s, w) ==
  g[0] = s /\ \A n \in 1 .. Len(w) : g[n - 1] \in Screens => g[n] = Apply(g[n - 1], w[n])

\* There is one such function only.
LEMMA RunUnique ==
  ASSUME NEW w \in Seq(Items), NEW s \in Screens,
         NEW h, Run(h, Len(w), s, w), NEW g, Follows(g, s, w)
  PROVE  \A n \in 0 .. Len(w) : g[n] = h[n]
  <1> DEFINE S == {n \in Nat : n <= Len(w) => g[n] = h[n]}
  <1>0. Len(w) \in Nat
    OBVIOUS
  <1>1. 0 \in S
    BY DEF Follows, Run
  <1>2. ASSUME NEW n \in Nat, n \in S PROVE n + 1 \in S
    <2>1. SUFFICES ASSUME n + 1 <= Len(w) PROVE g[n + 1] = h[n + 1]
      OBVIOUS
    <2>2. n + 1 \in 1 .. Len(w) /\ n + 1 - 1 = n /\ n \in 0 .. Len(w) /\ g[n] = h[n]
      BY <1>0, <1>2, <2>1
    <2>3. h[n] \in Screens
      BY <2>2 DEF Run
    <2>4. h[n + 1] = Apply(h[n], w[n + 1])
      BY <2>2 DEF Run
    <2>5. g[n + 1] = Apply(g[n], w[n + 1])
      BY <2>2, <2>3 DEF Follows
    <2> QED
      BY <2>2, <2>4, <2>5, Zenon
  <1> HIDE DEF S
  <1>3. Nat \subseteq S
    BY <1>1, <1>2, NatSetInduction
  <1> QED
    BY <1>0, <1>3 DEF S

Body(s, w, A) == [n \in 0 .. Len(w) |-> IF n = 0 THEN s ELSE Apply(A[n - 1], w[n])]

\* Pushed(s, w) is what any function that follows the pushes ends with.
LEMMA PushedIs ==
  ASSUME NEW w \in Seq(Items), NEW s \in Screens
  PROVE  /\ Pushed(s, w) \in Screens
         /\ \A g : Follows(g, s, w) => g[Len(w)] = Pushed(s, w)
  <1>0. Len(w) \in Nat /\ Len(w) \in 0 .. Len(w)
    OBVIOUS
  <1>1. PICK h : Run(h, Len(w), s, w)
    BY RunExists
  <1>2. /\ h \in [0 .. Len(w) -> Screens] /\ h[0] = s
        /\ \A n \in 1 .. Len(w) : h[n] = Apply(h[n - 1], w[n])
    BY <1>1 DEF Run
  <1>3. h = Body(s, w, h)
    <2>1. \A n \in 0 .. Len(w) : n # 0 => n \in 1 .. Len(w)
      OBVIOUS
    <2>2. \A n \in 0 .. Len(w) : h[n] = Body(s, w, h)[n]
      BY <1>2, <2>1, Zenon DEF Body
    <2>3. Body(s, w, h) = [n \in 0 .. Len(w) |-> Body(s, w, h)[n]]
      BY Zenon DEF Body
    <2>4. h = [n \in 0 .. Len(w) |-> h[n]]
      BY <1>2
    <2> QED
      BY <2>2, <2>3, <2>4, Zenon
  <1> DEFINE A == CHOOSE B : B = Body(s, w, B)
  <1>4. A = Body(s, w, A)
    BY <1>3, Zenon
  <1>5. Pushed(s, w) = A[Len(w)]
    BY Zenon DEF Pushed, Body
  <1> HIDE DEF A
  <1>6. Follows(A, s, w)
    <2>1. 0 \in 0 .. Len(w) /\ \A n \in 1 .. Len(w) : n \in 0 .. Len(w) /\ n # 0
      BY <1>0
    <2>2. \A n \in 0 .. Len(w) : A[n] = IF n = 0 THEN s ELSE Apply(A[n - 1], w[n])
      BY <1>4, Zenon DEF Body
    <2> QED
      BY <2>1, <2>2, Zenon DEF Follows
  <1>7. A[Len(w)] = h[Len(w)]
    BY <1>0, <1>1, <1>6, RunUnique
  <1>8. ASSUME NEW g, Follows(g, s, w) PROVE g[Len(w)] = h[Len(w)]
    BY <1>0, <1>1, <1>8, RunUnique
  <1>9. h[Len(w)] \in Screens
    BY <1>0, <1>2
  <1> QED
    BY <1>5, <1>7, <1>8, <1>9, Zenon

LEMMA PushedNone == \A s \in Screens : Pushed(s, <<>>) = s
  <1> SUFFICES ASSUME NEW s \in Screens PROVE Pushed(s, <<>>) = s
    OBVIOUS
  <1> DEFINE g == [n \in 0 .. 0 |-> s]
  <1>1. <<>> \in Seq(Items) /\ Len(<<>>) = 0 /\ g[0] = s
    OBVIOUS
  <1>2. Follows(g, s, <<>>)
    BY <1>1 DEF Follows
  <1> HIDE DEF g
  <1> QED
    BY <1>1, <1>2, PushedIs

\* A call whose pushes are v and then w.
LEMMA PushedMore ==
  ASSUME NEW s \in Screens, NEW v \in Seq(Items), NEW w \in Seq(Items)
  PROVE  Pushed(s, v \o w) = Pushed(Pushed(s, v), w) /\ v \o w \in Seq(Items)
  <1> DEFINE m == Len(v)
             x == Pushed(s, v)
  <1>0. /\ m \in Nat /\ Len(w) \in Nat /\ v \o w \in Seq(Items) /\ Len(v \o w) = m + Len(w)
        /\ x \in Screens
        /\ \A n \in 1 .. m : (v \o w)[n] = v[n]
        /\ \A n \in 1 .. Len(w) : (v \o w)[m + n] = w[n]
    BY PushedIs
  <1>1. PICK h : Run(h, m, s, v)
    BY RunExists
  <1>2. PICK k : Run(k, Len(w), x, w)
    BY <1>0, RunExists
  <1>3. h[m] = x /\ k[Len(w)] = Pushed(x, w)
    <2>1. \A n \in 1 .. m : h[n] = Apply(h[n - 1], v[n])
      BY <1>1 DEF Run
    <2>2. \A n \in 1 .. Len(w) : k[n] = Apply(k[n - 1], w[n])
      BY <1>2 DEF Run
    <2>3. Follows(h, s, v) /\ Follows(k, x, w)
      BY <1>1, <1>2, <2>1, <2>2 DEF Run, Follows
    <2> QED
      BY <1>0, <2>3, PushedIs
  <1> DEFINE g == [n \in 0 .. m + Len(w) |-> IF n <= m THEN h[n] ELSE k[n - m]]
  <1>4. g[0] = s
    BY <1>0, <1>1 DEF Run
  <1>5. ASSUME NEW n \in 1 .. m + Len(w) PROVE g[n] = Apply(g[n - 1], (v \o w)[n])
    <2>1. CASE n <= m
      <3>1. n \in 1 .. m /\ n - 1 <= m /\ n \in 0 .. m + Len(w) /\ n - 1 \in 0 .. m + Len(w)
        BY <1>0, <2>1
      <3>2. g[n] = h[n] /\ g[n - 1] = h[n - 1] /\ (v \o w)[n] = v[n]
        BY <1>0, <2>1, <3>1, Zenon
      <3>3. h[n] = Apply(h[n - 1], v[n])
        BY <1>1, <3>1 DEF Run
      <3> QED
        BY <3>2, <3>3, Zenon
    <2>2. CASE n = m + 1
      <3>1. /\ ~(n <= m) /\ n - 1 <= m /\ n \in 0 .. m + Len(w) /\ n - 1 \in 0 .. m + Len(w)
            /\ n - 1 = m /\ n - m = 1 /\ 1 \in 1 .. Len(w) /\ 1 - 1 = 0
        BY <1>0, <2>2
      <3>2. g[n] = k[1] /\ g[n - 1] = h[m] /\ (v \o w)[n] = w[1]
        BY <1>0, <2>2, <3>1
      <3>3. k[1] = Apply(k[0], w[1]) /\ k[0] = x
        BY <1>2, <3>1 DEF Run
      <3> QED
        BY <1>3, <3>2, <3>3, Zenon
    <2>3. CASE n > m + 1
      <3>1. /\ ~(n <= m) /\ ~(n - 1 <= m) /\ n \in 0 .. m + Len(w) /\ n - 1 \in 0 .. m + Len(w)
            /\ n - m \in 1 .. Len(w) /\ n - 1 - m = n - m - 1 /\ m + (n - m) = n
        BY <1>0, <2>3
      <3>2. g[n] = k[n - m] /\ g[n - 1] = k[n - m - 1]
        BY <3>1
      <3>3. (v \o w)[n] = w[n - m]
        BY <1>0, <3>1
      <3>4. k[n - m] = Apply(k[n - m - 1], w[n - m])
        BY <1>2, <3>1 DEF Run
      <3> QED
        BY <3>2, <3>3, <3>4, Zenon
    <2> QED
      BY <1>0, <2>1, <2>2, <2>3
  <1>6. g[m + Len(w)] = Pushed(x, w)
    <2>1. CASE Len(w) = 0
      <3>1. h[m] = k[0] /\ m + Len(w) = m
        BY <1>0, <1>2, <1>3, <2>1 DEF Run
      <3> QED
        BY <1>0, <1>3, <2>1, <3>1
    <2>2. CASE Len(w) # 0
      BY <1>0, <1>3, <2>2
    <2> QED
      BY <2>1, <2>2
  <1> HIDE DEF g
  <1>7. Follows(g, s, v \o w)
    BY <1>0, <1>4, <1>5 DEF Follows
  <1>8. g[Len(v \o w)] = Pushed(s, v \o w)
    BY <1>0, <1>7, PushedIs
  <1> QED
    BY <1>0, <1>6, <1>8

LEMMA PushedOne ==
  ASSUME NEW s \in Screens, NEW w \in Items
  PROVE  Pushed(s, <<w>>) = Apply(s, w) /\ <<w>> \in Seq(Items)
  <1> DEFINE g == [n \in 0 .. 1 |-> IF n = 0 THEN s ELSE Apply(s, w)]
  <1>1. <<w>> \in Seq(Items) /\ Len(<<w>>) = 1 /\ <<w>>[1] = w
    OBVIOUS
  <1>2. g[0] = s /\ g[1] = Apply(s, w)
    OBVIOUS
  <1> HIDE DEF g
  <1>3. Follows(g, s, <<w>>)
    BY <1>1, <1>2 DEF Follows
  <1> QED
    BY <1>1, <1>2, <1>3, PushedIs

\* A call makes its first push, and has the others to make.
LEMMA PushedFirst ==
  ASSUME NEW s \in Screens, NEW w \in Seq(Items), w # <<>>
  PROVE  Pushed(s, w) = Pushed(Apply(s, Head(w)), Tail(w))
  <1>1. Head(w) \in Items /\ Tail(w) \in Seq(Items) /\ w = <<Head(w)>> \o Tail(w)
    OBVIOUS
  <1>2. <<Head(w)>> \in Seq(Items) /\ Pushed(s, <<Head(w)>>) = Apply(s, Head(w))
    BY <1>1, PushedOne
  <1>3. Pushed(s, <<Head(w)>> \o Tail(w)) = Pushed(Pushed(s, <<Head(w)>>), Tail(w))
    BY <1>1, <1>2, PushedMore
  <1> QED
    BY <1>1, <1>2, <1>3, Zenon

-----------------------------------------------------------------------------
(* What the copying loops leave, cell by cell.                              *)

\* A screen that differs from another in one cell.
LEMMA OneCell ==
  ASSUME NEW old, DOMAIN old = CellIds, NEW new, new = [i \in CellIds |-> new[i]],
         NEW k, NEW v, \A i \in CellIds : new[i] = IF i = k THEN v ELSE old[i]
  PROVE  new = [old EXCEPT ![k] = v]
  OBVIOUS

\* A loop that moves n cells up by a row, first cell first.
MovedUp(s, a, n) == [i \in CellIds |-> IF i \in a .. a + n - 1 THEN s[i + Cols] ELSE s[i]]

\* Its first n turns have moved n cells.
LEMMA CopyUp ==
  ASSUME NEW s \in Screens, NEW a \in Nat, NEW n \in Int, a + n + Cols <= Rows * Cols,
         NEW e, e = [i \in 1 .. n |-> Copy(a + Cols + i - 1, a + i - 1)]
  PROVE  e \in Seq(Items) /\ Pushed(s, e) = MovedUp(s, a, n)
  <1> DEFINE size == Rows * Cols
  <1>0. size \in Nat /\ CellIds = 0 .. size - 1 /\ Cols \in Nat \ {0} /\ a + n + Cols <= size
    BY Area, SizeAssumption DEF CellIds
  <1> HIDE DEF size
  <1>1. \A i \in 1 .. n : a + Cols + i - 1 \in CellIds /\ a + i - 1 \in CellIds
    BY <1>0
  <1>2. e \in [1 .. n -> Items]
    BY <1>1, CopyTyped
  <1>3. e \in Seq(Items)
    BY <1>2, Sequenced
  <1>4. CASE n <= 0
    <2>1. e = <<>>
      <3>1. 1 .. n = 1 .. 0
        BY <1>4
      <3>2. e \in [1 .. 0 -> Items]
        BY <1>2, <3>1, Zenon
      <3> QED
        BY <3>2
    <2>2. Pushed(s, e) = s
      BY <2>1, PushedNone
    <2>3. \A i \in CellIds : MovedUp(s, a, n)[i] = s[i]
      BY <1>4 DEF MovedUp
    <2>4. MovedUp(s, a, n) = s
      BY <2>3 DEF MovedUp, Screens
    <2> QED
      BY <1>3, <2>2, <2>4
  <1>5. CASE n > 0
    <2> DEFINE g == [m \in 0 .. n |-> MovedUp(s, a, m)]
    <2>1. Len(e) = n
      BY <1>2, <1>5
    <2>2. g[0] = s
      <3>1. \A i \in CellIds : MovedUp(s, a, 0)[i] = s[i]
        BY DEF MovedUp
      <3>2. MovedUp(s, a, 0) = s
        BY <3>1 DEF MovedUp, Screens
      <3> QED
        BY <1>5, <3>2
    <2>3. ASSUME NEW m \in 1 .. n PROVE g[m] = Apply(g[m - 1], e[m])
      <3>1. e[m] = Copy(a + Cols + m - 1, a + m - 1)
        OBVIOUS
      <3>2. g[m - 1] = MovedUp(s, a, m - 1) /\ g[m] = MovedUp(s, a, m)
        BY <1>5
      <3> HIDE DEF g
      <3>3. Apply(g[m - 1], e[m]) =
              [g[m - 1] EXCEPT ![a + m - 1] = g[m - 1][a + Cols + m - 1]]
        BY <3>1 DEF Apply, Copy
      <3>4. g[m - 1][a + Cols + m - 1] = s[a + Cols + m - 1]
        BY <1>0, <1>1, <3>2 DEF MovedUp
      <3>5. \A i \in CellIds : g[m][i] =
              IF i = a + m - 1 THEN s[a + Cols + m - 1] ELSE g[m - 1][i]
        <4> SUFFICES ASSUME NEW i \in CellIds
                     PROVE  g[m][i] = IF i = a + m - 1 THEN s[a + Cols + m - 1] ELSE g[m - 1][i]
          OBVIOUS
        <4>1. /\ g[m][i] = IF i \in a .. a + m - 1 THEN s[i + Cols] ELSE s[i]
              /\ g[m - 1][i] = IF i \in a .. a + (m - 1) - 1 THEN s[i + Cols] ELSE s[i]
          BY <3>2 DEF MovedUp
        <4>2. i \in Int /\ (i \in a .. a + m - 1 <=> i = a + m - 1 \/ i \in a .. a + (m - 1) - 1)
          BY <1>0
        <4>3. i = a + m - 1 => i \in a .. a + m - 1 /\ i + Cols = a + Cols + m - 1
          BY <1>0
        <4> QED
          BY <4>1, <4>2, <4>3, Zenon
      <3>6. DOMAIN g[m] = CellIds /\ DOMAIN g[m - 1] = CellIds
            /\ g[m] = [i \in CellIds |-> g[m][i]]
        BY <3>2 DEF MovedUp
      <3>7. g[m] = [g[m - 1] EXCEPT ![a + m - 1] = s[a + Cols + m - 1]]
        BY ONLY <3>5, <3>6, OneCell
      <3> QED
        BY <3>3, <3>4, <3>7, Zenon
    <2> HIDE DEF g
    <2>4. Follows(g, s, e)
      BY <2>1, <2>2, <2>3 DEF Follows
    <2>5. g[n] = MovedUp(s, a, n)
      BY <1>5 DEF g
    <2> QED
      BY <1>3, <2>1, <2>4, <2>5, PushedIs
  <1> QED
    BY <1>4, <1>5

\* A loop that moves n cells down by a row, last cell first; b is past the last.
MovedDown(s, b, n) == [i \in CellIds |-> IF i \in b - n .. b - 1 THEN s[i - Cols] ELSE s[i]]

\* Its first n turns have moved n cells, from the last.
LEMMA CopyDown ==
  ASSUME NEW s \in Screens, NEW b \in Nat, b <= Rows * Cols, NEW n \in Int,
         n + Cols <= b,
         NEW e, e = [i \in 1 .. n |-> Copy(b - Cols - i, b - i)]
  PROVE  e \in Seq(Items) /\ Pushed(s, e) = MovedDown(s, b, n)
  <1> DEFINE size == Rows * Cols
  <1>0. size \in Nat /\ CellIds = 0 .. size - 1 /\ Cols \in Nat \ {0} /\ b <= size
    BY Area, SizeAssumption DEF CellIds
  <1> HIDE DEF size
  <1>1. \A i \in 1 .. n : b - Cols - i \in CellIds /\ b - i \in CellIds
    BY <1>0
  <1>2. e \in [1 .. n -> Items]
    BY <1>1, CopyTyped
  <1>3. e \in Seq(Items)
    BY <1>2, Sequenced
  <1>4. CASE n <= 0
    <2>1. e = <<>>
      <3>1. 1 .. n = 1 .. 0
        BY <1>4
      <3>2. e \in [1 .. 0 -> Items]
        BY <1>2, <3>1, Zenon
      <3> QED
        BY <3>2
    <2>2. Pushed(s, e) = s
      BY <2>1, PushedNone
    <2>3. \A i \in CellIds : MovedDown(s, b, n)[i] = s[i]
      BY <1>4 DEF MovedDown
    <2>4. MovedDown(s, b, n) = s
      BY <2>3 DEF MovedDown, Screens
    <2> QED
      BY <1>3, <2>2, <2>4
  <1>5. CASE n > 0
    <2> DEFINE g == [m \in 0 .. n |-> MovedDown(s, b, m)]
    <2>1. Len(e) = n
      BY <1>2, <1>5
    <2>2. g[0] = s
      <3>1. \A i \in CellIds : MovedDown(s, b, 0)[i] = s[i]
        BY DEF MovedDown
      <3>2. MovedDown(s, b, 0) = s
        BY <3>1 DEF MovedDown, Screens
      <3> QED
        BY <1>5, <3>2
    <2>3. ASSUME NEW m \in 1 .. n PROVE g[m] = Apply(g[m - 1], e[m])
      <3>1. e[m] = Copy(b - Cols - m, b - m)
        OBVIOUS
      <3>2. g[m - 1] = MovedDown(s, b, m - 1) /\ g[m] = MovedDown(s, b, m)
        BY <1>5
      <3> HIDE DEF g
      <3>3. Apply(g[m - 1], e[m]) =
              [g[m - 1] EXCEPT ![b - m] = g[m - 1][b - Cols - m]]
        BY <3>1 DEF Apply, Copy
      <3>4. g[m - 1][b - Cols - m] = s[b - Cols - m]
        BY <1>0, <1>1, <3>2 DEF MovedDown
      <3>5. \A i \in CellIds : g[m][i] =
              IF i = b - m THEN s[b - Cols - m] ELSE g[m - 1][i]
        <4> SUFFICES ASSUME NEW i \in CellIds
                     PROVE  g[m][i] = IF i = b - m THEN s[b - Cols - m] ELSE g[m - 1][i]
          OBVIOUS
        <4>1. /\ g[m][i] = IF i \in b - m .. b - 1 THEN s[i - Cols] ELSE s[i]
              /\ g[m - 1][i] = IF i \in b - (m - 1) .. b - 1 THEN s[i - Cols] ELSE s[i]
          BY <3>2 DEF MovedDown
        <4>2. i \in Int /\ (i \in b - m .. b - 1 <=> i = b - m \/ i \in b - (m - 1) .. b - 1)
          BY <1>0
        <4>3. i = b - m => i \in b - m .. b - 1 /\ i - Cols = b - Cols - m
          BY <1>0
        <4> QED
          BY <4>1, <4>2, <4>3, Zenon
      <3>6. DOMAIN g[m] = CellIds /\ DOMAIN g[m - 1] = CellIds
            /\ g[m] = [i \in CellIds |-> g[m][i]]
        BY <3>2 DEF MovedDown
      <3>7. g[m] = [g[m - 1] EXCEPT ![b - m] = s[b - Cols - m]]
        BY ONLY <3>5, <3>6, OneCell
      <3> QED
        BY <3>3, <3>4, <3>7, Zenon
    <2> HIDE DEF g
    <2>4. Follows(g, s, e)
      BY <2>1, <2>2, <2>3 DEF Follows
    <2>5. g[n] = MovedDown(s, b, n)
      BY <1>5 DEF g
    <2> QED
      BY <1>3, <2>1, <2>4, <2>5, PushedIs
  <1> QED
    BY <1>4, <1>5

\* A loop that fills n cells from a on.
Filled(s, a, n, ch) == [i \in CellIds |-> IF i \in a .. a + n - 1 THEN ch ELSE s[i]]

\* Its first n turns have filled n cells.
LEMMA Fill ==
  ASSUME NEW s \in Screens, NEW a \in Nat, NEW n \in Nat, a + n <= Rows * Cols,
         NEW ch \in Chars, NEW e, e = [i \in 1 .. n |-> Put(ch, a + i - 1)]
  PROVE  e \in Seq(Items) /\ Pushed(s, e) = Filled(s, a, n, ch)
  <1> DEFINE size == Rows * Cols
             g == [m \in 0 .. n |-> Filled(s, a, m, ch)]
  <1>0. size \in Nat /\ CellIds = 0 .. size - 1 /\ a + n <= size
    BY Area DEF CellIds
  <1> HIDE DEF size
  <1>1. \A i \in 1 .. n : a + i - 1 \in CellIds
    BY <1>0
  <1>2. e \in [1 .. n -> Items]
    BY <1>1, PutTyped
  <1>3. e \in Seq(Items) /\ Len(e) = n
    <2>1. Len(e) = n
      BY <1>2
    <2>2. n \in Int
      OBVIOUS
    <2>3. e \in Seq(Items)
      BY ONLY <1>2, <2>2, Sequenced
    <2> QED
      BY <2>1, <2>3
  <1>4. g[0] = s
    <2>1. \A i \in CellIds : Filled(s, a, 0, ch)[i] = s[i]
      BY DEF Filled
    <2>2. Filled(s, a, 0, ch) = s
      BY <2>1 DEF Filled, Screens
    <2> QED
      BY <2>2
  <1>5. ASSUME NEW m \in 1 .. n PROVE g[m] = Apply(g[m - 1], e[m])
    <2>1. e[m] = Put(ch, a + m - 1)
      OBVIOUS
    <2>2. g[m - 1] = Filled(s, a, m - 1, ch) /\ g[m] = Filled(s, a, m, ch)
      OBVIOUS
    <2> HIDE DEF g
    <2>3. Apply(g[m - 1], e[m]) = [g[m - 1] EXCEPT ![a + m - 1] = ch]
      BY <2>1 DEF Apply, Put
    <2>4. \A i \in CellIds : g[m][i] = IF i = a + m - 1 THEN ch ELSE g[m - 1][i]
      BY <1>0, <2>2 DEF Filled
    <2>5. DOMAIN g[m] = CellIds /\ DOMAIN g[m - 1] = CellIds
          /\ g[m] = [i \in CellIds |-> g[m][i]]
      BY <2>2 DEF Filled
    <2> QED
      BY <2>3, <2>4, <2>5
  <1>6. g[n] = Filled(s, a, n, ch)
    OBVIOUS
  <1> HIDE DEF g
  <1>7. Follows(g, s, e)
    BY <1>3, <1>4, <1>5 DEF Follows
  <1> QED
    BY <1>3, <1>6, <1>7, PushedIs

\* The cells of the rows above row m come first.
LEMMA RowCell ==
  ASSUME NEW x \in 0 .. Cols - 1, NEW y \in 0 .. Rows - 1, NEW m \in 0 .. Rows
  PROVE  /\ CellAt(x, y) \in CellIds /\ CellAt(x, y) \in Nat
         /\ CellAt(x, y) < m * Cols <=> y < m
         /\ y + 1 < Rows => CellAt(x, y + 1) = CellAt(x, y) + Cols
         /\ y > 0 => CellAt(x, y - 1) = CellAt(x, y) - Cols
  <1>1. CellAt(x, y) \in CellIds
    BY CellInRange, SizeAssumption
  <1>2. y * Cols \in Nat /\ m * Cols \in Nat /\ CellAt(x, y) = y * Cols + x
    BY SizeAssumption DEF CellAt
  <1>3. CASE y < m
    <2>1. (y + 1) * Cols <= m * Cols /\ (y + 1) * Cols = y * Cols + Cols
      BY <1>3, SizeAssumption
    <2>2. CellAt(x, y) < m * Cols
      BY <1>2, <2>1, SizeAssumption
    <2> QED
      BY <1>1, <1>2, <1>3, <2>2, SizeAssumption DEF CellAt
  <1>4. CASE y >= m
    <2>1. m * Cols <= y * Cols
      BY <1>4, SizeAssumption
    <2>2. ~(CellAt(x, y) < m * Cols) /\ ~(y < m)
      BY <1>2, <1>4, <2>1, SizeAssumption
    <2> QED
      BY <1>1, <1>2, <2>2, SizeAssumption DEF CellAt
  <1> QED
    BY <1>3, <1>4

\* The row a blank fills.
LEMMA BlankRowDone ==
  ASSUME TypeOK, NEW s \in Screens, NEW y \in 0 .. Rows - 1
  PROVE  /\ BlankRow(y) \in Seq(Items) /\ Pushed(s, BlankRow(y)) \in Screens
         /\ Pushed(s, BlankRow(y)) = Filled(s, y * Cols, Cols, Ink(Space))
  <1>1. y * Cols \in Nat /\ y * Cols + Cols = (y + 1) * Cols /\ (y + 1) * Cols <= Rows * Cols
    BY SizeAssumption
  <1>2. \A i \in 1 .. Cols : CellAt(i - 1, y) = y * Cols + i - 1
    BY <1>1, SizeAssumption DEF CellAt
  <1>3. BlankRow(y) = [i \in 1 .. Cols |-> Put(Ink(Space), y * Cols + i - 1)]
    BY <1>2 DEF BlankRow
  <1>4. Ink(Space) \in Chars /\ Cols \in Nat
    BY SpaceTyped, SizeAssumption
  <1>5. BlankRow(y) \in Seq(Items)
        /\ Pushed(s, BlankRow(y)) = Filled(s, y * Cols, Cols, Ink(Space))
    BY <1>1, <1>3, <1>4, Fill
  <1> QED
    BY <1>5, PushedIs

\* What scroll and revscroll leave in a cell.
Scrolled(s, x, y) ==
  IF y = bottom - 1 THEN Ink(Space)
  ELSE IF y \in top .. bottom - 2 THEN s[CellAt(x, y + 1)]
  ELSE s[CellAt(x, y)]
Revscrolled(s, first, x, y) ==
  IF y = first THEN Ink(Space)
  ELSE IF y \in first + 1 .. bottom - 1 THEN s[CellAt(x, y - 1)]
  ELSE s[CellAt(x, y)]

\* scroll copies the region a line up and blanks its last line.
LEMMA ScrollDone ==
  ASSUME TypeOK, NEW s \in Screens
  PROVE  /\ Pushed(s, ScrollPushes) \in Screens
         /\ \A x \in 0 .. Cols - 1, y \in 0 .. Rows - 1 :
              Pushed(s, ScrollPushes)[CellAt(x, y)] = Scrolled(s, x, y)
  <1> DEFINE a == top * Cols
             n == (bottom - 1 - top) * Cols
             z == (bottom - 1) * Cols
             e == [i \in 1 .. n |-> Copy(a + Cols + i - 1, a + i - 1)]
             t == Pushed(s, e)
  <1>1. top \in 0 .. Rows /\ bottom \in 1 .. Rows /\ bottom - 1 \in 0 .. Rows - 1
    BY SizeAssumption DEF TypeOK
  <1>2. /\ a \in Nat /\ z \in Nat /\ n \in Int /\ n = z - a /\ bottom * Cols = z + Cols
        /\ (top + 1) * Cols = a + Cols /\ z + Cols <= Rows * Cols
    BY <1>1, SizeAssumption
  <1>3. [i \in 1 .. n |-> Copy((top + 1) * Cols + i - 1, top * Cols + i - 1)] = e
    BY <1>2
  <1>4. ScrollPushes = e \o BlankRow(bottom - 1)
    BY <1>3 DEF ScrollPushes
  <1>5. e \in Seq(Items) /\ t = MovedUp(s, a, n)
    <2> HIDE DEF a, n, z
    <2>1. a + n + Cols <= Rows * Cols
      BY <1>2, Area, SizeAssumption
    <2> QED
      BY <1>2, <2>1, CopyUp
  <1>6. t \in Screens
    BY <1>5, PushedIs
  <1> HIDE DEF e, t
  <1>7. /\ Pushed(s, ScrollPushes) \in Screens
        /\ Pushed(s, ScrollPushes) = Filled(t, z, Cols, Ink(Space))
    <2>1. /\ BlankRow(bottom - 1) \in Seq(Items) /\ Pushed(t, BlankRow(bottom - 1)) \in Screens
          /\ Pushed(t, BlankRow(bottom - 1)) = Filled(t, z, Cols, Ink(Space))
      BY <1>1, <1>6, BlankRowDone
    <2>2. Pushed(s, e \o BlankRow(bottom - 1)) = Pushed(t, BlankRow(bottom - 1))
      BY <1>5, <2>1, PushedMore DEF t
    <2> QED
      BY <1>4, <2>1, <2>2, Zenon
  <1>8. ASSUME NEW x \in 0 .. Cols - 1, NEW y \in 0 .. Rows - 1
        PROVE  Pushed(s, ScrollPushes)[CellAt(x, y)] = Scrolled(s, x, y)
    <2> DEFINE c == CellAt(x, y)
    <2>1. /\ c \in CellIds /\ c \in Nat
          /\ c < a <=> y < top
          /\ c < z <=> y < bottom - 1
          /\ c < z + Cols <=> y < bottom
          /\ y + 1 < Rows => CellAt(x, y + 1) = c + Cols
      <3>1. top \in 0 .. Rows /\ bottom - 1 \in 0 .. Rows /\ bottom \in 0 .. Rows
        BY <1>1, SizeAssumption
      <3>2. c < bottom * Cols <=> y < bottom
        BY <3>1, RowCell
      <3> QED
        BY <1>2, <3>1, <3>2, RowCell
    <2> HIDE DEF a, n, z, c
    <2>2. /\ c \in z .. z + Cols - 1 <=> y = bottom - 1
          /\ c \in a .. a + n - 1 <=> y \in top .. bottom - 2
      BY <1>1, <1>2, <2>1, SizeAssumption
    <2>3. Pushed(s, ScrollPushes)[c] =
            IF c \in z .. z + Cols - 1 THEN Ink(Space) ELSE t[c]
      BY <1>7, <2>1, Zenon DEF Filled
    <2>4. t[c] = IF c \in a .. a + n - 1 THEN s[c + Cols] ELSE s[c]
      BY <1>5, <2>1, Zenon DEF MovedUp
    <2>5. y \in top .. bottom - 2 => CellAt(x, y + 1) = c + Cols
      <3>1. y \in top .. bottom - 2 => y + 1 < Rows
        BY <1>1, SizeAssumption
      <3> QED
        BY <2>1, <3>1, Zenon
    <2>6. Pushed(s, ScrollPushes)[c] = Scrolled(s, x, y)
      BY <2>2, <2>3, <2>4, <2>5, Zenon DEF Scrolled, c
    <2> QED
      BY <2>6 DEF c
  <1> QED
    BY <1>7, <1>8

\* revscroll copies the region a line down and blanks its first line.
LEMMA RevscrollDone ==
  ASSUME TypeOK, NEW s \in Screens, NEW first \in 0 .. Rows - 1
  PROVE  /\ Pushed(s, RevscrollPushes(first)) \in Screens
         /\ \A x \in 0 .. Cols - 1, y \in 0 .. Rows - 1 :
              Pushed(s, RevscrollPushes(first))[CellAt(x, y)] = Revscrolled(s, first, x, y)
  <1> DEFINE a == first * Cols
             n == (bottom - 1 - first) * Cols
             b == bottom * Cols
             e == [i \in 1 .. n |-> Copy(b - Cols - i, b - i)]
             t == Pushed(s, e)
  <1>1. first \in 0 .. Rows /\ bottom \in 1 .. Rows
    BY SizeAssumption DEF TypeOK
  <1>2. /\ a \in Nat /\ b \in Nat /\ n \in Int /\ n = b - Cols - a
        /\ (bottom - 1) * Cols = b - Cols /\ b <= Rows * Cols
        /\ (first + 1) * Cols = a + Cols
    BY <1>1, SizeAssumption
  <1>3. [i \in 1 .. n |-> Copy((bottom - 1) * Cols - i, bottom * Cols - i)] = e
    BY <1>2
  <1>4. RevscrollPushes(first) = e \o BlankRow(first)
    BY <1>3 DEF RevscrollPushes
  <1>5. e \in Seq(Items) /\ t = MovedDown(s, b, n)
    <2> HIDE DEF a, n, b
    <2>1. n + Cols <= b
      BY <1>2, SizeAssumption
    <2> QED
      BY <1>2, <2>1, CopyDown
  <1>6. t \in Screens
    BY <1>5, PushedIs
  <1> HIDE DEF e, t
  <1>7. /\ Pushed(s, RevscrollPushes(first)) \in Screens
        /\ Pushed(s, RevscrollPushes(first)) = Filled(t, a, Cols, Ink(Space))
    <2>1. /\ BlankRow(first) \in Seq(Items) /\ Pushed(t, BlankRow(first)) \in Screens
          /\ Pushed(t, BlankRow(first)) = Filled(t, a, Cols, Ink(Space))
      BY <1>6, BlankRowDone
    <2>2. Pushed(s, e \o BlankRow(first)) = Pushed(t, BlankRow(first))
      BY <1>5, <2>1, PushedMore DEF t
    <2> QED
      BY <1>4, <2>1, <2>2, Zenon
  <1>8. ASSUME NEW x \in 0 .. Cols - 1, NEW y \in 0 .. Rows - 1
        PROVE  Pushed(s, RevscrollPushes(first))[CellAt(x, y)] = Revscrolled(s, first, x, y)
    <2> DEFINE c == CellAt(x, y)
    <2>1. /\ c \in CellIds /\ c \in Nat
          /\ c < a <=> y < first
          /\ c < a + Cols <=> y < first + 1
          /\ c < b <=> y < bottom
          /\ y > 0 => CellAt(x, y - 1) = c - Cols
      <3>1. first \in 0 .. Rows /\ first + 1 \in 0 .. Rows /\ bottom \in 0 .. Rows
        BY <1>1, SizeAssumption
      <3>2. c < (first + 1) * Cols <=> y < first + 1
        BY <3>1, RowCell
      <3> QED
        BY <1>2, <3>1, <3>2, RowCell
    <2> HIDE DEF a, n, b, c
    <2>2. /\ c \in a .. a + Cols - 1 <=> y = first
          /\ c \in b - n .. b - 1 <=> y \in first + 1 .. bottom - 1
      BY <1>1, <1>2, <2>1, SizeAssumption
    <2>3. Pushed(s, RevscrollPushes(first))[c] =
            IF c \in a .. a + Cols - 1 THEN Ink(Space) ELSE t[c]
      BY <1>7, <2>1, Zenon DEF Filled
    <2>4. t[c] = IF c \in b - n .. b - 1 THEN s[c - Cols] ELSE s[c]
      BY <1>5, <2>1, Zenon DEF MovedDown
    <2>5. y \in first + 1 .. bottom - 1 => CellAt(x, y - 1) = c - Cols
      BY <1>1, <2>1
    <2>6. Pushed(s, RevscrollPushes(first))[c] = Revscrolled(s, first, x, y)
      BY <2>2, <2>3, <2>4, <2>5, Zenon DEF Revscrolled, c
    <2> QED
      BY <2>6 DEF c
  <1> QED
    BY <1>7, <1>8

-----------------------------------------------------------------------------
(* The screen seen by flanterm.c.                                           *)

Places == (0 .. Cols - 1) \X (0 .. Rows - 1)
View(s) == [p \in Places |-> s[CellAt(p[1], p[2])]]
Showing == [i \in CellIds |-> Pending(i)]
Region == <<cursor, text, top, bottom, autoscroll>>

\* The places of Screen and the cells of the code.
LEMMA SeesPlaces ==
  /\ Cells = View(Finished) /\ ScreenView!Positions = Places
  /\ \A p \in Places : p[1] \in 0 .. Cols - 1 /\ p[2] \in 0 .. Rows - 1 /\ p = <<p[1], p[2]>>
  /\ \A x \in 0 .. Cols - 1, y \in 0 .. Rows - 1 : <<x, y>> \in Places
  BY DEF Cells, View, Places, ScreenView!Positions

\* The same, place by place.
LEMMA ScrollSeen ==
  ASSUME TypeOK, NEW s \in Screens, NEW c, c = View(s)
  PROVE  /\ [p \in Places |->
              IF p[2] = bottom - 1 THEN Ink(Space)
              ELSE IF p[2] \in top .. bottom - 2 THEN c[<<p[1], p[2] + 1>>]
              ELSE c[p]] = View(Pushed(s, ScrollPushes))
  <1>1. top \in 0 .. Rows /\ bottom \in 1 .. Rows /\ Rows \in Nat
    BY SizeAssumption DEF TypeOK
  <1>2. ASSUME NEW p \in Places
        PROVE  (IF p[2] = bottom - 1 THEN Ink(Space)
                ELSE IF p[2] \in top .. bottom - 2 THEN c[<<p[1], p[2] + 1>>]
                ELSE c[p]) = View(Pushed(s, ScrollPushes))[p]
    <2>1. PICK x \in 0 .. Cols - 1, y \in 0 .. Rows - 1 : p[1] = x /\ p[2] = y
      BY SeesPlaces
    <2>2. View(Pushed(s, ScrollPushes))[p] = Scrolled(s, x, y)
      BY <2>1, ScrollDone DEF View
    <2>3. c[p] = s[CellAt(x, y)]
      BY <2>1 DEF View
    <2>4. y \in top .. bottom - 2 => c[<<x, y + 1>>] = s[CellAt(x, y + 1)]
      <3>1. y \in top .. bottom - 2 => y + 1 \in 0 .. Rows - 1
        BY <1>1
      <3>2. y + 1 \in 0 .. Rows - 1 => <<x, y + 1>> \in Places
        BY SeesPlaces
      <3> QED
        BY <3>1, <3>2 DEF View
    <2> QED
      BY <2>1, <2>2, <2>3, <2>4, Zenon DEF Scrolled
  <1> QED
    BY <1>2 DEF View

LEMMA RevscrollSeen ==
  ASSUME TypeOK, NEW s \in Screens, NEW first \in 0 .. Rows - 1, NEW c, c = View(s)
  PROVE  /\ [p \in Places |->
              IF p[2] = first THEN Ink(Space)
              ELSE IF p[2] \in first + 1 .. bottom - 1 THEN c[<<p[1], p[2] - 1>>]
              ELSE c[p]] = View(Pushed(s, RevscrollPushes(first)))
  <1>1. bottom \in 1 .. Rows /\ Rows \in Nat
    BY SizeAssumption DEF TypeOK
  <1>2. ASSUME NEW p \in Places
        PROVE  (IF p[2] = first THEN Ink(Space)
                ELSE IF p[2] \in first + 1 .. bottom - 1 THEN c[<<p[1], p[2] - 1>>]
                ELSE c[p]) = View(Pushed(s, RevscrollPushes(first)))[p]
    <2>1. PICK x \in 0 .. Cols - 1, y \in 0 .. Rows - 1 : p[1] = x /\ p[2] = y
      BY SeesPlaces
    <2>2. View(Pushed(s, RevscrollPushes(first)))[p] = Revscrolled(s, first, x, y)
      BY <2>1, RevscrollDone DEF View
    <2>3. c[p] = s[CellAt(x, y)]
      BY <2>1 DEF View
    <2>4. y \in first + 1 .. bottom - 1 => c[<<x, y - 1>>] = s[CellAt(x, y - 1)]
      <3>1. y \in first + 1 .. bottom - 1 => y - 1 \in 0 .. Rows - 1
        BY <1>1
      <3>2. y - 1 \in 0 .. Rows - 1 => <<x, y - 1>> \in Places
        BY SeesPlaces
      <3> QED
        BY <3>1, <3>2 DEF View
    <2> QED
      BY <2>1, <2>2, <2>3, <2>4, Zenon DEF Revscrolled
  <1> QED
    BY <1>2 DEF View

\* One push is one place.
LEMMA PutSeen ==
  ASSUME NEW s \in Screens, NEW ch \in Chars, NEW x \in Nat, NEW y \in Nat
  PROVE  /\ Pushed(s, PutAt(ch, x, y)) \in Screens
         /\ View(Pushed(s, PutAt(ch, x, y))) =
              IF <<x, y>> \in Places THEN [View(s) EXCEPT ![<<x, y>>] = ch] ELSE View(s)
  <1>0. OnScreen(x, y) <=> <<x, y>> \in Places
    BY SizeAssumption DEF OnScreen, Places
  <1>1. CASE ~OnScreen(x, y)
    BY <1>0, <1>1, PushedNone DEF PutAt
  <1>2. CASE OnScreen(x, y)
    <2> DEFINE i == CellAt(x, y)
    <2>1. i \in CellIds /\ x < Cols /\ y < Rows
      BY <1>2, CellInRange DEF OnScreen
    <2>2. PutAt(ch, x, y) = <<Put(ch, i)>> /\ Put(ch, i) \in Items
      BY <1>2, <2>1, PutTyped DEF PutAt
    <2>3. Apply(s, Put(ch, i)) = [s EXCEPT ![i] = ch]
      BY DEF Apply, Put
    <2>4. /\ Pushed(s, PutAt(ch, x, y)) = [s EXCEPT ![i] = ch]
          /\ Pushed(s, PutAt(ch, x, y)) \in Screens
      <3>1. Pushed(s, <<Put(ch, i)>>) = Apply(s, Put(ch, i)) /\ Apply(s, Put(ch, i)) \in Screens
        BY <2>2, PushedOne, ApplyTyped
      <3> QED
        BY <2>2, <2>3, <3>1, Zenon
    <2>5. ASSUME NEW p \in Places
          PROVE  [s EXCEPT ![i] = ch][CellAt(p[1], p[2])] =
                   IF p = <<x, y>> THEN ch ELSE s[CellAt(p[1], p[2])]
      <3>1. PICK u \in 0 .. Cols - 1, v \in 0 .. Rows - 1 : p[1] = u /\ p[2] = v /\ p = <<u, v>>
        BY SeesPlaces
      <3>2. CellAt(u, v) \in CellIds /\ u \in Nat /\ v \in Nat /\ u < Cols
        BY CellInRange, SizeAssumption
      <3>3. CellAt(u, v) = i => u = x /\ v = y
        BY <2>1, <3>2, CellsDiffer
      <3>4. DOMAIN s = CellIds
        BY DEF Screens
      <3> QED
        BY <2>1, <3>1, <3>2, <3>3, <3>4
    <2>6. View([s EXCEPT ![i] = ch]) = [View(s) EXCEPT ![<<x, y>>] = ch]
      <3> HIDE DEF i
      <3> QED
        BY <2>5 DEF View
    <2> QED
      BY <1>0, <1>2, <2>4, <2>6
  <1> QED
    BY <1>1, <1>2

\* move_character copies what is pending, not what is drawn.
LEMMA MoveSeen ==
  ASSUME NEW s \in Screens, NEW nx \in Nat, NEW ox \in Nat, NEW y \in Nat,
         OnScreen(ox, y), OnScreen(nx, y)
  PROVE  View(Pushed(s, << Copy(CellAt(ox, y), CellAt(nx, y)) >>)) =
           [View(s) EXCEPT ![<<nx, y>>] = View(s)[<<ox, y>>]]
  <1> DEFINE i == CellAt(nx, y)
             j == CellAt(ox, y)
             ch == s[j]
  <1>1. i \in CellIds /\ j \in CellIds /\ ch \in Chars
    BY CellInRange DEF OnScreen, Screens
  <1>2. Copy(j, i) \in Items
    BY <1>1, CopyTyped
  <1>3. Pushed(s, <<Copy(j, i)>>) = Apply(s, Copy(j, i))
    BY <1>2, PushedOne
  <1>4. Apply(s, Copy(j, i)) = Apply(s, Put(ch, i))
    BY DEF Apply, Copy, Put
  <1>5. Pushed(s, <<Put(ch, i)>>) = Apply(s, Put(ch, i)) /\ PutAt(ch, nx, y) = <<Put(ch, i)>>
    BY <1>1, PutTyped, PushedOne DEF PutAt
  <1>6. View(Pushed(s, PutAt(ch, nx, y))) = [View(s) EXCEPT ![<<nx, y>>] = ch]
    <2>1. <<nx, y>> \in Places
      BY SizeAssumption DEF OnScreen, Places
    <2> QED
      BY <1>1, <2>1, PutSeen
  <1>7. View(s)[<<ox, y>>] = ch
    <2>1. <<ox, y>> \in Places
      BY SizeAssumption DEF OnScreen, Places
    <2> QED
      BY <2>1 DEF View
  <1> QED
    BY <1>3, <1>4, <1>5, <1>6, <1>7

\* clear blanks every place.
LEMMA ClearSeen ==
  ASSUME TypeOK, NEW s \in Screens
  PROVE  View(Pushed(s, [i \in 1 .. Rows * Cols |-> Put(Ink(Space), i - 1)])) =
           [p \in Places |-> Ink(Space)]
  <1> DEFINE n == Rows * Cols
             e == [i \in 1 .. n |-> Put(Ink(Space), 0 + i - 1)]
  <1>1. n \in Nat /\ CellIds = 0 .. n - 1 /\ Ink(Space) \in Chars
    BY Area, SpaceTyped DEF CellIds
  <1>2. Pushed(s, e) = Filled(s, 0, n, Ink(Space))
    <2>1. 0 \in Nat /\ 0 + n <= Rows * Cols
      BY <1>1
    <2> HIDE DEF n
    <2> QED
      BY <1>1, <2>1, Fill
  <1>3. [i \in 1 .. Rows * Cols |-> Put(Ink(Space), i - 1)] = e
    <2>1. \A i \in 1 .. n : 0 + i - 1 = i - 1
      OBVIOUS
    <2> QED
      BY <2>1
  <1> HIDE DEF n, e
  <1>4. \A p \in Places : CellAt(p[1], p[2]) \in CellIds
    BY SeesPlaces, CellInRange, SizeAssumption
  <1>5. \A i \in CellIds : Filled(s, 0, n, Ink(Space))[i] = Ink(Space)
    BY <1>1 DEF Filled
  <1>6. \A p \in Places : View(Filled(s, 0, n, Ink(Space)))[p] = Ink(Space)
    BY <1>4, <1>5 DEF View
  <1>7. View(Filled(s, 0, n, Ink(Space))) = [p \in Places |-> Ink(Space)]
    BY <1>6 DEF View
  <1> QED
    BY <1>2, <1>3, <1>7

LEMMA ShowingTyped == Queued => Showing \in Screens
  BY PendingTyped DEF Showing, Screens

\* A call that has just begun: the cells show what was pending, and will show
\* that with the call's pushes made.
LEMMA CallSeen ==
  ASSUME Queued, work = <<>>, UNCHANGED buffers
  PROVE  /\ Showing \in Screens
         /\ Cells = View(Showing) /\ Cells' = View(Pushed(Showing, work'))
  <1>1. Showing \in Screens
    BY ShowingTyped
  <1>2. Finished = Showing
    BY <1>1, PushedNone DEF Finished, Showing
  <1>3. Showing' = Showing
    BY DEF Showing, Pending, buffers
  <1>4. Finished' = Pushed(Showing, work')
    BY <1>3 DEF Finished, Showing
  <1>5. Cells' = View(Finished')
    BY DEF Cells, View, Places
  <1> QED
    BY <1>1, <1>2, <1>4, <1>5, SeesPlaces

\* A push changes nothing that is seen.
LEMMA PushSeen ==
  ASSUME Queued, Push
  PROVE  Cells' = Cells
  <1> DEFINE w == Head(work)
             ch == Content(w)
             n == Len(queue)
  <1>1. /\ work # <<>> /\ work \in Seq(Items) /\ work' = Tail(work) /\ grid' = grid
        /\ map \in [CellIds -> Nat] /\ queue \in Seq(Slots) /\ n \in Nat
    <2>1. Slots = [cell : CellIds, ch : Chars]
      BY DEF Slots
    <2>2. queue \in Seq(Slots)
      BY <2>1 DEF Queued, TypeOK
    <2> QED
      BY <2>2 DEF Push, Queued, TypeOK
  <1>2. w \in Items /\ w.to \in CellIds /\ ch \in Chars /\ Tail(work) \in Seq(Items)
    BY <1>1, HeadTyped
  <1>3. Apply(Showing, w) = [Showing EXCEPT ![w.to] = ch]
    <2>1. CASE w.kind = "put"
      BY <2>1 DEF Apply, Content
    <2>2. CASE w.kind # "put"
      <3>1. w.from \in CellIds
        BY <1>2, <2>2 DEF Items
      <3> QED
        BY <2>2, <3>1 DEF Apply, Content, Showing
    <2> QED
      BY <2>1, <2>2
  <1>4. ASSUME NEW i \in CellIds
        PROVE  Pending(i)' = IF i = w.to THEN ch ELSE Pending(i)
    <2>0. /\ map[i] \in Nat /\ map[w.to] \in Nat
          /\ map[i] # 0 => map[i] \in 1 .. n /\ queue[map[i]].cell = i
          /\ map[w.to] # 0 => map[w.to] \in 1 .. n /\ queue[map[w.to]].cell = w.to
      BY <1>1, <1>2 DEF Queued, Pointing
    <2>1. CASE map[w.to] # 0 /\ queue' = [queue EXCEPT ![map[w.to]].ch = ch] /\ map' = map
      <3>1. queue[map[w.to]] \in Slots
        BY <1>1, <2>0, <2>1
      <3>2. queue'[map[w.to]].ch = ch
        BY <1>1, <2>0, <2>1, <3>1 DEF Slots
      <3>3. i # w.to /\ map[i] # 0 => map[i] # map[w.to] /\ queue'[map[i]] = queue[map[i]]
        BY <1>1, <2>0, <2>1
      <3>4. Pending(i)' = IF map[i] # 0 THEN queue'[map[i]].ch ELSE grid[i]
        <4>1. map' = map /\ grid' = grid
          BY <1>1, <2>1
        <4> QED
          BY ONLY <4>1 DEF Pending
      <3>5. CASE i = w.to
        BY <2>1, <3>2, <3>4, <3>5, Zenon
      <3>6. CASE i # w.to
        <4>1. Pending(i)' = Pending(i)
          BY <3>3, <3>4, <3>6, Zenon DEF Pending
        <4> QED
          BY <3>6, <4>1, Zenon
      <3> QED
        BY <3>5, <3>6, Zenon
    <2>2. CASE map[w.to] = 0 /\ grid[w.to] = ch /\ queue' = queue /\ map' = map
      BY <1>1, <2>2, Zenon DEF Pending
    <2>3. CASE /\ map[w.to] = 0
               /\ queue' = Append(queue, [cell |-> w.to, ch |-> ch])
               /\ map' = [map EXCEPT ![w.to] = n + 1]
      <3>1. queue'[n + 1].ch = ch
        BY <1>1, <2>3
      <3>2. map'[w.to] = n + 1 /\ n + 1 # 0
        BY <1>1, <1>2, <2>3
      <3>3. i # w.to => map'[i] = map[i]
        BY <1>1, <2>3
      <3>4. map[i] # 0 => queue'[map[i]] = queue[map[i]]
        BY <1>1, <2>0, <2>3
      <3> QED
        BY <1>1, <3>1, <3>2, <3>3, <3>4, Zenon DEF Pending
    <2> QED
      BY <2>1, <2>2, <2>3 DEF Push
  <1>5. Showing' = Apply(Showing, w)
    <2>1. Showing' = [i \in CellIds |-> Pending(i)']
      BY DEF Showing
    <2>2. [Showing EXCEPT ![w.to] = ch] =
            [i \in CellIds |-> IF i = w.to THEN ch ELSE Pending(i)]
      BY <1>2 DEF Showing
    <2> HIDE DEF w, ch
    <2> QED
      BY <1>3, <1>4, <2>1, <2>2
  <1>6. Finished = Pushed(Apply(Showing, w), Tail(work))
    BY <1>1, ShowingTyped, PushedFirst DEF Finished, Showing
  <1>7. Finished' = Pushed(Showing', work')
    BY DEF Finished, Showing
  <1>8. Cells' = View(Finished')
    BY DEF Cells, View, Places
  <1> QED
    BY <1>1, <1>5, <1>6, <1>7, <1>8, SeesPlaces, Zenon

\* A flush changes nothing that is seen: it moves characters from the queue to
\* the grid.
LEMMA FlushSeen ==
  ASSUME Queued, Flush \/ FlushSlot \/ FlushEnd \/ FullRefresh
  PROVE  Cells' = Cells
  <1>0. /\ map \in [CellIds -> Nat] /\ grid \in [CellIds -> Chars]
        /\ cursor.x \in Nat /\ cursor.y \in Nat
        /\ Len(queue) \in Nat
        /\ \A i \in CellIds : map[i] # 0 => map[i] \in 1 .. Len(queue) /\ queue[map[i]].cell = i
    BY DEF Queued, TypeOK, Pointing
  <1>1. work' = work
    BY DEF Flush, FlushSlot, FlushEnd, FullRefresh
  <1>2. ASSUME NEW fbuf, DrawCursor(fbuf), queue' = queue, NEW i \in CellIds
        PROVE  Pending(i)' = Pending(i)
    <2>1. CASE CursorVisible /\ i = CursorCell
      <3>1. map'[i] = 0 /\ grid'[i] = Pending(i)
        BY <1>0, <1>2, <2>1 DEF DrawCursor
      <3> QED
        BY <3>1 DEF Pending
    <2>2. CASE CursorVisible /\ i # CursorCell
      <3>1. map'[i] = map[i] /\ grid'[i] = grid[i]
        BY <1>0, <1>2, <2>2 DEF DrawCursor
      <3> QED
        BY <1>2, <3>1 DEF Pending
    <2>3. CASE ~CursorVisible
      BY <1>2, <2>3 DEF DrawCursor, Pending
    <2> QED
      BY <2>1, <2>2, <2>3
  <1>3. ASSUME NEW i \in CellIds
        PROVE  Pending(i)' = Pending(i)
    <2>1. CASE Flush \/ FullRefresh
      BY <1>2, <2>1 DEF Flush, FullRefresh
    <2>2. CASE FlushSlot
      <3> DEFINE j == queue[flushing].cell
      <3>1. flushing \in 1 .. Len(queue) /\ queue' = queue
        BY <2>2 DEF FlushSlot
      <3>2. CASE map[j] = 0
        BY <2>2, <3>2 DEF FlushSlot, Pending
      <3>3. CASE map[j] # 0
        <4>1. grid' = [grid EXCEPT ![j] = queue[flushing].ch] /\ map' = [map EXCEPT ![j] = 0]
          BY <2>2, <3>3 DEF FlushSlot
        <4>2. j \in CellIds
          <5>1. queue \in Seq(Slots)
            BY DEF Queued, TypeOK, Slots
          <5>2. queue[flushing] \in Slots
            BY <3>1, <5>1
          <5> QED
            BY <5>2 DEF Slots
        <4>3. map[j] = flushing
          BY <1>0, <3>1, <3>3, <4>2 DEF Queued, NoCellTwice
        <4>4. CASE i = j
          BY <1>0, <3>3, <4>1, <4>2, <4>3, <4>4 DEF Pending
        <4>5. CASE i # j
          BY <1>0, <3>1, <4>1, <4>5 DEF Pending
        <4> QED
          BY <4>4, <4>5
      <3> QED
        BY <3>2, <3>3
    <2>3. CASE FlushEnd
      <3>1. /\ flushing = Len(queue) + 1 /\ map' = map /\ grid' = grid
        BY <2>3 DEF FlushEnd
      <3>2. map[i] = 0
        <4>1. flushing # 0
          BY <1>0, <3>1
        <4>2. map[i] # 0 => map[i] >= flushing
          BY <4>1 DEF Queued, PassedOffMap
        <4> QED
          BY <1>0, <3>1, <4>2
      <3> QED
        BY <3>1, <3>2 DEF Pending
    <2> QED
      BY <2>1, <2>2, <2>3
  <1>4. Showing' = Showing
    <2>1. Showing' = [i \in CellIds |-> Pending(i)']
      BY DEF Showing
    <2> QED
      BY <1>3, <2>1 DEF Showing
  <1>5. Finished = Pushed(Showing, work) /\ Finished' = Pushed(Showing', work')
    BY DEF Finished, Showing
  <1>6. Cells' = View(Finished')
    BY DEF Cells, View, Places
  <1> QED
    BY <1>1, <1>4, <1>5, <1>6, SeesPlaces, Zenon

\* A call of each kind is the step of the plain screen with its name.
LEMMA ScrollStep ==
  ASSUME Queued, Scroll
  PROVE  ScreenView!Becomes(ScreenView!Scroll(ScreenView!Now))
  <1> DEFINE new == [p \in Places |->
                       IF p[2] = bottom - 1 THEN Ink(Space)
                       ELSE IF p[2] \in top .. bottom - 2 THEN Cells[<<p[1], p[2] + 1>>]
                       ELSE Cells[p]]
  <1>1. /\ work = <<>> /\ UNCHANGED buffers /\ work' = ScrollPushes
        /\ UNCHANGED Region
    BY DEF Scroll, Call, Undrawn, context, Region
  <1>2. Cells' = new
    BY <1>1, CallSeen, ScrollSeen DEF Queued
  <1>3. /\ ScreenView!Scroll(ScreenView!Now).cells = new
        /\ ScreenView!Scroll(ScreenView!Now).cursor = cursor
    BY SeesPlaces DEF ScreenView!Scroll, ScreenView!Now, ScreenView!Ink, Ink
  <1> QED
    BY <1>1, <1>2, <1>3 DEF ScreenView!Becomes, Region

LEMMA RevscrollStep ==
  ASSUME Queued, NEW first \in 0 .. Rows - 1, Revscroll(first)
  PROVE  ScreenView!Becomes(ScreenView!Revscroll([ScreenView!Now EXCEPT !.top = first]))
  <1> DEFINE new == [p \in Places |->
                       IF p[2] = first THEN Ink(Space)
                       ELSE IF p[2] \in first + 1 .. bottom - 1 THEN Cells[<<p[1], p[2] - 1>>]
                       ELSE Cells[p]]
             after == ScreenView!Revscroll([ScreenView!Now EXCEPT !.top = first])
  <1>1. /\ work = <<>> /\ UNCHANGED buffers /\ work' = RevscrollPushes(first)
        /\ UNCHANGED Region
    BY DEF Revscroll, Call, Undrawn, context, Region
  <1>2. Cells' = new
    BY <1>1, CallSeen, RevscrollSeen DEF Queued
  <1>3. after.cells = new /\ after.cursor = cursor
    BY SeesPlaces DEF ScreenView!Revscroll, ScreenView!Now, ScreenView!Ink, Ink
  <1> QED
    BY <1>1, <1>2, <1>3 DEF ScreenView!Becomes, Region

LEMMA ClearStep ==
  ASSUME Queued, NEW move \in BOOLEAN, Clear(move)
  PROVE  ScreenView!Becomes(ScreenView!Clear(ScreenView!Now, move))
  <1> DEFINE after == ScreenView!Clear(ScreenView!Now, move)
  <1>1. /\ work = <<>> /\ UNCHANGED buffers
        /\ work' = [i \in 1 .. Rows * Cols |-> Put(Ink(Space), i - 1)]
        /\ cursor' = IF move THEN [x |-> 0, y |-> 0] ELSE cursor
        /\ UNCHANGED <<text, top, bottom, autoscroll>>
    BY DEF Clear, Call, Undrawn, context
  <1>2. Cells' = [p \in Places |-> Ink(Space)]
    BY <1>1, CallSeen, ClearSeen DEF Queued
  <1>3. /\ after.cells = [p \in Places |-> Ink(Space)]
        /\ after.cursor = IF move THEN [x |-> 0, y |-> 0] ELSE cursor
    BY SeesPlaces DEF ScreenView!Clear, ScreenView!Now, ScreenView!Ink, Ink
  <1> QED
    BY <1>1, <1>2, <1>3 DEF ScreenView!Becomes

LEMMA MoveStep ==
  ASSUME Queued, NEW nx \in 0 .. Cols, NEW ox \in 0 .. Cols, NEW y \in 0 .. Rows,
         MoveCharacter(nx, ox, y)
  PROVE  ScreenView!Next
  <1>1. /\ work = <<>> /\ UNCHANGED buffers /\ UNCHANGED Region
        /\ work' = IF OnScreen(ox, y) /\ OnScreen(nx, y)
                     THEN << Copy(CellAt(ox, y), CellAt(nx, y)) >> ELSE <<>>
    BY DEF MoveCharacter, Call, Undrawn, context, Region
  <1>2. Showing \in Screens /\ Cells = View(Showing) /\ Cells' = View(Pushed(Showing, work'))
    BY <1>1, CallSeen
  <1>3. CASE OnScreen(ox, y) /\ OnScreen(nx, y)
    <2> DEFINE after == ScreenView!MoveCharacter(ScreenView!Now, nx, y, ox, y)
    <2>1. Cells' = [Cells EXCEPT ![<<nx, y>>] = Cells[<<ox, y>>]]
      BY <1>1, <1>2, <1>3, MoveSeen, SizeAssumption
    <2>2. /\ <<ox, y>> \in Places /\ <<nx, y>> \in Places
          /\ nx \in 0 .. Cols - 1 /\ ox \in 0 .. Cols - 1 /\ y \in 0 .. Rows - 1
      BY <1>3, SizeAssumption DEF OnScreen, Places
    <2>3. after.cells = [Cells EXCEPT ![<<nx, y>>] = Cells[<<ox, y>>]]
          /\ after.cursor = cursor
      BY <2>2, SeesPlaces DEF ScreenView!MoveCharacter, ScreenView!Put, ScreenView!Now
    <2>4. ScreenView!Becomes(after)
      BY <1>1, <2>1, <2>3 DEF ScreenView!Becomes, Region
    <2> QED
      BY <2>2, <2>4, Zenon DEF ScreenView!Next, ScreenView!Draw
  <1>4. CASE ~(OnScreen(ox, y) /\ OnScreen(nx, y))
    <2>1. Cells' = Cells
      BY <1>1, <1>2, <1>4, PushedNone
    <2> QED
      BY <2>1 DEF ScreenView!Next, ScreenView!Steer
  <1> QED
    BY <1>3, <1>4

LEMMA PutcharStep ==
  ASSUME Queued, NEW g \in Glyphs, RawPutchar(g)
  PROVE  ScreenView!Becomes(ScreenView!RawPutchar(ScreenView!Now, g))
  <1> DEFINE wraps == cursor.x >= Cols /\ (cursor.y < bottom - 1 \/ autoscroll)
             rolls == wraps /\ cursor.y + 1 = bottom
             line  == IF rolls THEN cursor.y ELSE cursor.y + 1
             x     == IF wraps THEN 0 ELSE cursor.x
             y     == IF ~wraps THEN cursor.y
                      ELSE IF line >= Cols THEN Cols - 1 ELSE line
             rolled == [p \in Places |->
                          IF p[2] = bottom - 1 THEN Ink(Space)
                          ELSE IF p[2] \in top .. bottom - 2 THEN Cells[<<p[1], p[2] + 1>>]
                          ELSE Cells[p]]
             base  == IF rolls THEN rolled ELSE Cells
             new   == IF <<x, y>> \in Places THEN [base EXCEPT ![<<x, y>>] = Ink(g)] ELSE base
             pushes == IF rolls THEN ScrollPushes ELSE <<>>
             under  == IF rolls THEN Pushed(Showing, ScrollPushes) ELSE Showing
             after  == ScreenView!RawPutchar(ScreenView!Now, g)
  <1>1. /\ work = <<>> /\ UNCHANGED buffers
        /\ work' = pushes \o PutAt(Ink(g), x, y)
        /\ cursor' = [x |-> x + 1, y |-> y]
        /\ UNCHANGED <<text, top, bottom, autoscroll>>
    BY DEF RawPutchar, Call, Undrawn, context
  <1>2. /\ cursor \in [x : Nat, y : Nat] /\ bottom \in Nat /\ Cols \in Nat \ {0} /\ TypeOK
        /\ autoscroll \in BOOLEAN
    BY SizeAssumption DEF Queued, TypeOK
  <1>3. x \in Nat /\ y \in Nat
    BY <1>2
  <1>4. Ink(g) \in Chars
    BY <1>2, InkTyped
  <1>5. Showing \in Screens /\ Cells = View(Showing) /\ Cells' = View(Pushed(Showing, work'))
    BY <1>1, CallSeen
  <1>6. /\ pushes \in Seq(Items) /\ Pushed(Showing, pushes) = under
        /\ under \in Screens /\ View(under) = base
    <2>1. CASE rolls
      <3>1. ScrollPushes \in Seq(Items) /\ Pushed(Showing, ScrollPushes) \in Screens
        BY <1>2, <1>5, ScrollTyped, ScrollDone
      <3>2. View(Pushed(Showing, ScrollPushes)) = rolled
        BY <1>2, <1>5, ScrollSeen
      <3> QED
        BY <2>1, <3>1, <3>2
    <2>2. CASE ~rolls
      BY <1>5, <2>2, PushedNone, NoPushes
    <2> QED
      BY <2>1, <2>2
  <1>7. Cells' = new
    <2> HIDE DEF pushes, under, base, x, y
    <2>1. PutAt(Ink(g), x, y) \in Seq(Items)
      BY <1>3, <1>4, PutAtTyped
    <2>2. Pushed(Showing, work') = Pushed(under, PutAt(Ink(g), x, y))
      BY <1>1, <1>5, <1>6, <2>1, PushedMore
    <2>3. View(Pushed(under, PutAt(Ink(g), x, y))) = new
      BY <1>3, <1>4, <1>6, PutSeen
    <2> QED
      BY <1>5, <2>2, <2>3
  <1>8. after.cells = new /\ after.cursor = [x |-> x + 1, y |-> y]
    <2> DEFINE t   == IF rolls THEN ScreenView!Scroll(ScreenView!Now) ELSE ScreenView!Now
               at  == IF ~wraps THEN cursor
                      ELSE [x |-> 0, y |-> IF line < Cols THEN line ELSE Cols - 1]
               put == ScreenView!Put(t, <<at.x, at.y>>, Ink(g))
    <2>1. at.x = x /\ at.y = y
      BY <1>2
    <2>2. after = [put EXCEPT !.cursor = [x |-> at.x + 1, y |-> at.y]]
      BY Zenon DEF ScreenView!RawPutchar, ScreenView!Now, ScreenView!Ink, Ink
    <2>3. t.cells = base /\ "cells" \in DOMAIN t /\ "cursor" \in DOMAIN t
      <3>1. CASE rolls
        BY <3>1, SeesPlaces DEF ScreenView!Scroll, ScreenView!Now, ScreenView!Ink, Ink
      <3>2. CASE ~rolls
        BY <3>2 DEF ScreenView!Now
      <3> QED
        BY <3>1, <3>2
    <2> HIDE DEF t, at, base, x, y
    <2>4. put.cells = new /\ "cursor" \in DOMAIN put /\ "cells" \in DOMAIN put
      <3>1. put = IF <<x, y>> \in Places THEN [t EXCEPT !.cells[<<x, y>>] = Ink(g)] ELSE t
        BY <2>1, SeesPlaces, Zenon DEF ScreenView!Put
      <3>2. CASE <<x, y>> \in Places
        BY <2>3, <3>1, <3>2
      <3>3. CASE <<x, y>> \notin Places
        BY <2>3, <3>1, <3>3
      <3> QED
        BY <3>2, <3>3
    <2> HIDE DEF put, new
    <2> QED
      BY <2>1, <2>2, <2>4
  <1> QED
    BY <1>1, <1>7, <1>8 DEF ScreenView!Becomes

\* The calls that push nothing.
Pushless == work = <<>> /\ work' = work /\ UNCHANGED buffers

LEMMA PushlessStep ==
  ASSUME Queued, Pushless
  PROVE  ScreenView!Next
  <1>1. Cells' = Cells
    BY CallSeen, PushedNone DEF Pushless
  <1> QED
    BY <1>1 DEF ScreenView!Next, ScreenView!Steer

\* Every step is a step of Screen.
LEMMA ScreenStep ==
  ASSUME Queued, Next
  PROVE  ScreenView!Next
  <1>1. CASE Push \/ Flush \/ FlushSlot \/ FlushEnd \/ FullRefresh
    BY <1>1, PushSeen, FlushSeen DEF ScreenView!Next, ScreenView!Steer
  <1>2. CASE Scroll
    BY <1>2, ScrollStep, Zenon DEF ScreenView!Next, ScreenView!Draw
  <1>3. CASE \E first \in 0 .. Rows - 1 : Revscroll(first)
    BY <1>3, RevscrollStep, Zenon DEF ScreenView!Next, ScreenView!Draw
  <1>4. CASE \E move \in BOOLEAN : Clear(move)
    BY <1>4, ClearStep, Zenon DEF ScreenView!Next, ScreenView!Draw
  <1>5. CASE \E g \in Glyphs : RawPutchar(g)
    BY <1>5, PutcharStep, Zenon DEF ScreenView!Next, ScreenView!Draw
  <1>6. CASE \E nx, ox \in 0 .. Cols, y \in 0 .. Rows : MoveCharacter(nx, ox, y)
    BY <1>6, MoveStep
  <1> USE DEF Pushless, Call, Undrawn
  <1>7. \A x, y : SetCursorPos(x, y) => Pushless
    BY DEF SetCursorPos
  <1>8. \A c : SetTextFg(c) \/ SetTextBg(c) => Pushless
    BY DEF SetTextFg, SetTextBg
  <1>9. SwapPalette \/ SaveState \/ RestoreState => Pushless
    BY DEF SwapPalette, SaveState, RestoreState
  <1>10. \A t, b : SetMargins(t, b) => Pushless
    BY DEF SetMargins
  <1>11. \A a, c : SetModes(a, c) => Pushless
    BY DEF SetModes
  <1> HIDE DEF Pushless, Call, Undrawn
  <1> QED
    BY <1>1, <1>2, <1>3, <1>4, <1>5, <1>6, <1>7, <1>8, <1>9, <1>10, <1>11,
       PushlessStep, Zenon DEF Next

\* The queue, the map and the loops that copy cell by cell, run push by push,
\* show flanterm.c a plain grid of cells that every call changes at once and no
\* flush changes, for every size of screen.
THEOREM ScreenImplemented == Spec => ImplementsScreen
  <1>1. Init => ScreenView!Init
    <2> SUFFICES ASSUME Init PROVE ScreenView!Init
      OBVIOUS
    <2>1. Queued /\ work = <<>>
      BY InitQueued DEF Init
    <2>2. Finished = Showing
      BY <2>1, ShowingTyped, PushedNone DEF Finished, Showing
    <2>3. \A i \in CellIds : Showing[i] = Ink(Space)
      BY DEF Init, Showing, Pending
    <2>4. \A p \in Places : CellAt(p[1], p[2]) \in CellIds
      BY SeesPlaces, CellInRange, SizeAssumption
    <2>5. Cells = [p \in Places |-> Ink(Space)]
      BY <2>2, <2>3, <2>4, SeesPlaces DEF View
    <2>6. text \in [fg : Colours, bg : Colours]
      BY <2>1 DEF Queued, TypeOK
    <2> QED
      BY <2>5, <2>6, SeesPlaces
         DEF Init, Home, ScreenView!Init, ScreenView!Ink, ScreenView!Now, Ink
  <1>2. Queued /\ [Next]_vars => [ScreenView!Next]_(ScreenView!vars)
    <2> SUFFICES ASSUME Queued, [Next]_vars
                 PROVE  [ScreenView!Next]_(ScreenView!vars)
      OBVIOUS
    <2>1. CASE Next
      BY <2>1, ScreenStep
    <2>2. CASE UNCHANGED vars
      <3>1. work' = work /\ UNCHANGED buffers /\ UNCHANGED Region
        BY <2>2 DEF vars, buffers, Region
      <3>2. Cells' = Cells
        BY <3>1 DEF Cells, Finished, Pending, buffers
      <3> QED
        BY <3>1, <3>2 DEF ScreenView!vars, Region
    <2> QED
      BY <2>1, <2>2
  <1> QED
    BY <1>1, <1>2, QueueInvariant, PTL DEF Spec, ImplementsScreen, ScreenView!Spec

=============================================================================
