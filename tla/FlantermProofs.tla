----------------------------- MODULE FlantermProofs -----------------------------
(***************************************************************************)
(* Machine-checked proofs about the functions of flanterm.c (Terminal) and *)
(* its colours (Sgr).                                                      *)
(*                                                                         *)
(* Terminal, for every size of screen, every tab stop and every request:   *)
(* that the screen stays well formed (TypeCorrect), and that the calls of  *)
(* the backend and the loops around them do what console_codes(4) says of  *)
(* each function, but where Diverges says otherwise (CodesImplemented).    *)
(*                                                                         *)
(* Sgr, for every list of parameters of every length: that colours come    *)
(* out as asked (ColoursCorrect), and that the parameters of a sequence    *)
(* are told apart (ParametersToldApart).                                   *)
(***************************************************************************)
EXTENDS Terminal, Sgr, WellFoundedInduction, TLAPS

(* Loops: the recursion of Loop has a solution.                              *)

\* Induction over Nat, from the library's theorem about least elements.
LEMMA NatSetInduction ==
  ASSUME NEW S, 0 \in S, \A n \in Nat : n \in S => n + 1 \in S
  PROVE  Nat \subseteq S
  <1> DEFINE R == OpToRel(<, Nat)
  <1>1. \A x, y \in Nat : <<x, y>> \in R <=> x < y
    BY DEF OpToRel
  <1>2. IsWellFoundedOn(R, Nat)
    BY NatLessThanWellFounded, Zenon
  <1> HIDE DEF R
  <1>3. SUFFICES ASSUME Nat \ S # {} PROVE FALSE
    BY Zenon
  <1>4. PICK x \in Nat \ S : \A y \in Nat \ S : ~(<<y, x>> \in R)
    <2>1. Nat \ S \subseteq Nat
      OBVIOUS
    <2> QED BY <1>2, <1>3, <2>1, WFMin, Zenon
  <1>5. x # 0
    BY <1>4
  <1>6. x - 1 \in Nat /\ x - 1 < x /\ x - 1 + 1 = x
    BY <1>4, <1>5
  <1>7. x - 1 \in S
    BY <1>1, <1>4, <1>6
  <1> QED
    BY <1>4, <1>6, <1>7

\* h[n] is what step makes of h[n - 1] in turn n.
Made(h, step, v, m) ==
  h[0] = v /\ \A n \in 1 .. m : h[n] = step[<<n, h[n - 1]>>]

LEMMA OneMoreMade ==
  ASSUME NEW Vals, NEW v \in Vals, NEW top \in Nat, NEW step \in [(1 .. top) \X Vals -> Vals],
         NEW m \in Nat, m + 1 <= top, NEW h \in [0 .. m -> Vals], Made(h, step, v, m)
  PROVE  \E g \in [0 .. m + 1 -> Vals] : Made(g, step, v, m + 1)
  <1> DEFINE x == step[<<m + 1, h[m]>>]
             g == [n \in 0 .. m + 1 |-> IF n = m + 1 THEN x ELSE h[n]]
  <1>1. m + 1 \in 1 .. top /\ m \in 0 .. m
    OBVIOUS
  <1>2. h[m] \in Vals
    BY <1>1
  <1>3. x \in Vals
    BY <1>1, <1>2
  <1> HIDE DEF x
  <1>4. g \in [0 .. m + 1 -> Vals] /\ g[m + 1] = x /\ \A n \in 0 .. m : g[n] = h[n]
    BY <1>3
  <1> HIDE DEF g
  <1>5. g[0] = v
    BY <1>4 DEF Made
  <1>6. ASSUME NEW n \in 1 .. m + 1 PROVE g[n] = step[<<n, g[n - 1]>>]
    <2>1. CASE n = m + 1
      <3>1. g[n - 1] = h[m]
        BY <1>4, <2>1
      <3> QED
        BY <1>4, <2>1, <3>1 DEF x
    <2>2. CASE n # m + 1
      <3>1. n \in 1 .. m /\ n \in 0 .. m /\ n - 1 \in 0 .. m
        BY <2>2
      <3> QED
        BY <1>4, <3>1 DEF Made
    <2> QED
      BY <2>1, <2>2
  <1> QED
    BY <1>4, <1>5, <1>6 DEF Made

LEMMA MadeExists ==
  ASSUME NEW Vals, NEW v \in Vals, NEW top \in Nat, NEW step \in [(1 .. top) \X Vals -> Vals]
  PROVE  \E h \in [0 .. top -> Vals] : Made(h, step, v, top)
  <1> DEFINE S == {m \in Nat : m <= top => \E h \in [0 .. m -> Vals] : Made(h, step, v, m)}
  <1>1. 0 \in S
    <2> DEFINE h == [n \in 0 .. 0 |-> v]
    <2>1. h \in [0 .. 0 -> Vals] /\ Made(h, step, v, 0)
      BY DEF Made
    <2> QED
      BY <2>1, Zenon
  <1>2. ASSUME NEW m \in Nat, m \in S PROVE m + 1 \in S
    <2>1. m + 1 \in Nat /\ (m + 1 <= top => m <= top)
      OBVIOUS
    <2>2. ASSUME m + 1 <= top
          PROVE  \E h \in [0 .. m + 1 -> Vals] : Made(h, step, v, m + 1)
      <3>1. PICK h \in [0 .. m -> Vals] : Made(h, step, v, m)
        BY <1>2, <2>1, <2>2, Zenon
      <3> QED
        BY <2>2, <3>1, OneMoreMade
    <2> QED
      BY <2>1, <2>2, Zenon
  <1> HIDE DEF S
  <1>3. Nat \subseteq S
    BY <1>1, <1>2, NatSetInduction
  <1>4. top \in S /\ top <= top
    BY <1>3
  <1> QED
    BY <1>4, Zenon DEF S

\* Whatever solves it takes its values in Vals.
LEMMA MadeTyped ==
  ASSUME NEW Vals, NEW v \in Vals, NEW top \in Nat, NEW step \in [(1 .. top) \X Vals -> Vals],
         NEW h, h[0] = v,
         \A n \in 1 .. top : h[n - 1] \in Vals => h[n] = step[<<n, h[n - 1]>>]
  PROVE  \A n \in 0 .. top : h[n] \in Vals
  <1> DEFINE S == {n \in Nat : n <= top => h[n] \in Vals}
  <1>1. 0 \in S
    OBVIOUS
  <1>2. ASSUME NEW n \in Nat, n \in S PROVE n + 1 \in S
    <2>1. SUFFICES ASSUME n + 1 <= top PROVE h[n + 1] \in Vals
      OBVIOUS
    <2>2. n + 1 \in 1 .. top /\ (n + 1) - 1 = n /\ h[n] \in Vals
      BY <1>2, <2>1
    <2>3. h[n + 1] = step[<<n + 1, h[n]>>]
      BY <2>2
    <2>4. <<n + 1, h[n]>> \in (1 .. top) \X Vals
      BY <2>2
    <2> QED
      BY <2>3, <2>4
  <1> HIDE DEF S
  <1>3. Nat \subseteq S
    BY <1>1, <1>2, NatSetInduction
  <1> QED
    BY <1>3 DEF S

-----------------------------------------------------------------------------
(* The calls of the backend.                                                 *)

\* What a cell may hold, and a screen in the middle of a function: its cursor may
\* be anywhere, and so may the region's top.
Cells   == [c : Glyphs, fg : {Colour}, bg : {Colour}]
Screens == [cells : [Positions -> Cells], cursor : [x : Nat, y : Nat],
            text : [fg : {Colour}, bg : {Colour}],
            top : 0 .. Rows, bottom : 0 .. Rows, autoscroll : BOOLEAN]

\* t is s but for cells and cursor; but for the cells.
Beside(s, t) ==
  t.text = s.text /\ t.top = s.top /\ t.bottom = s.bottom /\ t.autoscroll = s.autoscroll
SameBut(s, t) == Beside(s, t) /\ t.cursor = s.cursor

LEMMA InkTyped ==
  ASSUME NEW s \in Screens, NEW g \in Glyphs
  PROVE  Ink(s, g) \in Cells /\ Ink(s, g).c = g
  BY DEF Screens, Cells, Ink

LEMMA Sizes == Rows \in Nat \ {0} /\ Cols \in Nat \ {0} /\ Space \in Glyphs /\ Box \in Glyphs
  BY SizeAssumption, ValuesAssumption

LEMMA PositionIs ==
  /\ \A x, y \in Int : <<x, y>> \in Positions <=> x \in 0 .. Cols - 1 /\ y \in 0 .. Rows - 1
  /\ \A p \in Positions : p = <<p[1], p[2]>> /\ p[1] \in 0 .. Cols - 1 /\ p[2] \in 0 .. Rows - 1
  BY Sizes DEF Positions

\* A screen with other cells or another cursor.
LEMMA CellsSet ==
  ASSUME NEW s \in Screens, NEW cells \in [Positions -> Cells]
  PROVE  LET t == [s EXCEPT !.cells = cells]
         IN  t \in Screens /\ t.cells = cells /\ SameBut(s, t)
  BY DEF Screens, SameBut, Beside

LEMMA CursorSet ==
  ASSUME NEW s \in Screens, NEW x \in Nat, NEW y \in Nat
  PROVE  LET t == [s EXCEPT !.cursor = [x |-> x, y |-> y]]
         IN  /\ t \in Screens /\ t.cells = s.cells /\ Beside(s, t)
             /\ t.cursor = [x |-> x, y |-> y]
  BY DEF Screens, Beside

LEMMA Clamped ==
  ASSUME NEW v \in Int, NEW n \in Nat \ {0}
  PROVE  /\ Clamp(v, n) \in 0 .. n - 1
         /\ v \in 0 .. n - 1 => Clamp(v, n) = v
         /\ v < 0 => Clamp(v, n) = 0
         /\ v >= n => Clamp(v, n) = n - 1
  BY DEF Clamp

LEMMA CursorGoes ==
  ASSUME NEW s \in Screens, NEW x \in Int, NEW y \in Int
  PROVE  LET t == SetCursorPos(s, x, y)
         IN  /\ t \in Screens /\ t.cells = s.cells /\ Beside(s, t)
             /\ t.cursor = [x |-> Clamp(x, Cols), y |-> Clamp(y, Rows)]
  <1>1. Clamp(x, Cols) \in Nat /\ Clamp(y, Rows) \in Nat
    BY Clamped, Sizes
  <1> QED
    BY <1>1, CursorSet DEF SetCursorPos

\* The cells after p was put to ch.
PutAt(cells, p, ch) == [q \in Positions |-> IF q = p THEN ch ELSE cells[q]]

LEMMA PutPuts ==
  ASSUME NEW s \in Screens, NEW p, NEW ch \in Cells
  PROVE  LET t == Put(s, p, ch)
         IN  t \in Screens /\ t.cells = PutAt(s.cells, p, ch) /\ SameBut(s, t)
  <1>1. s.cells \in [Positions -> Cells]
    BY DEF Screens
  <1>2. CASE p \in Positions
    <2>1. [s.cells EXCEPT ![p] = ch] = PutAt(s.cells, p, ch)
      BY <1>1, <1>2 DEF PutAt
    <2>2. [s.cells EXCEPT ![p] = ch] \in [Positions -> Cells]
      BY <1>1, <1>2
    <2>3. Put(s, p, ch) = [s EXCEPT !.cells = [s.cells EXCEPT ![p] = ch]]
      BY <1>2 DEF Put
    <2> QED
      BY <2>1, <2>2, <2>3, CellsSet
  <1>3. CASE p \notin Positions
    <2>1. s.cells = PutAt(s.cells, p, ch)
      BY <1>1, <1>3 DEF PutAt
    <2> QED
      BY <1>3, <2>1 DEF Put, SameBut, Beside
  <1> QED
    BY <1>2, <1>3

LEMMA Moves ==
  ASSUME NEW s \in Screens, NEW a \in Int, NEW b \in Int, NEW x \in Int, NEW y \in Int
  PROVE  LET t == MoveCharacter(s, a, b, x, y)
         IN  /\ t \in Screens /\ SameBut(s, t)
             /\ t.cells = IF <<x, y>> \in Positions
                            THEN PutAt(s.cells, <<a, b>>, s.cells[<<x, y>>]) ELSE s.cells
  <1>1. CASE <<x, y>> \in Positions
    <2>1. s.cells[<<x, y>>] \in Cells
      BY <1>1 DEF Screens
    <2> QED
      BY <1>1, <2>1, PutPuts DEF MoveCharacter
  <1>2. CASE <<x, y>> \notin Positions
    BY <1>2 DEF MoveCharacter, SameBut, Beside
  <1> QED
    BY <1>1, <1>2

\* The cells when the lines from first up to last move up, or down, by one.
Up(cells, first, last, ink) ==
  [p \in Positions |->
     IF p[2] = last THEN ink
     ELSE IF p[2] \in first .. last - 1 THEN cells[<<p[1], p[2] + 1>>] ELSE cells[p]]
Down(cells, first, last, ink) ==
  [p \in Positions |->
     IF p[2] = first THEN ink
     ELSE IF p[2] \in first + 1 .. last THEN cells[<<p[1], p[2] - 1>>] ELSE cells[p]]

LEMMA Scrolls ==
  ASSUME NEW s \in Screens
  PROVE  LET t == Scroll(s)
         IN  /\ t \in Screens /\ SameBut(s, t)
             /\ t.cells = Up(s.cells, s.top, s.bottom - 1, Ink(s, Space))
  <1> DEFINE cells == Up(s.cells, s.top, s.bottom - 1, Ink(s, Space))
  <1>1. s.cells \in [Positions -> Cells] /\ s.top \in 0 .. Rows /\ s.bottom \in 0 .. Rows
    BY DEF Screens
  <1>2. ASSUME NEW p \in Positions, p[2] \in s.top .. s.bottom - 1 - 1
        PROVE  <<p[1], p[2] + 1>> \in Positions
    BY <1>1, <1>2, PositionIs, Sizes
  <1>3. Ink(s, Space) \in Cells
    BY InkTyped, Sizes
  <1>4. cells \in [Positions -> Cells]
    BY <1>1, <1>2, <1>3 DEF Up
  <1>5. s.bottom - 1 - 1 = s.bottom - 2
    BY <1>1
  <1>6. Scroll(s) = [s EXCEPT !.cells = cells]
    BY <1>5, Zenon DEF Scroll, Up
  <1> HIDE DEF cells
  <1>7. Scroll(s) \in Screens /\ SameBut(s, Scroll(s)) /\ Scroll(s).cells = cells
    BY <1>4, <1>6, CellsSet
  <1> QED
    BY <1>7 DEF cells

LEMMA Revscrolls ==
  ASSUME NEW s \in Screens
  PROVE  LET t == Revscroll(s)
         IN  /\ t \in Screens /\ SameBut(s, t)
             /\ t.cells = Down(s.cells, s.top, s.bottom - 1, Ink(s, Space))
  <1> DEFINE cells == Down(s.cells, s.top, s.bottom - 1, Ink(s, Space))
  <1>1. s.cells \in [Positions -> Cells] /\ s.top \in 0 .. Rows /\ s.bottom \in 0 .. Rows
    BY DEF Screens
  <1>2. ASSUME NEW p \in Positions, p[2] \in s.top + 1 .. s.bottom - 1
        PROVE  <<p[1], p[2] - 1>> \in Positions
    BY <1>1, <1>2, PositionIs, Sizes
  <1>3. Ink(s, Space) \in Cells
    BY InkTyped, Sizes
  <1>4. cells \in [Positions -> Cells]
    BY <1>1, <1>2, <1>3 DEF Down
  <1>6. Revscroll(s) = [s EXCEPT !.cells = cells]
    BY Zenon DEF Revscroll, Down
  <1> HIDE DEF cells
  <1>7. Revscroll(s) \in Screens /\ SameBut(s, Revscroll(s)) /\ Revscroll(s).cells = cells
    BY <1>4, <1>6, CellsSet
  <1> QED
    BY <1>7 DEF cells

\* Typing past the last column goes to another line, unless scroll_enabled is off
\* and the cursor is not above the last line of the region.
Wraps(s) == s.cursor.x >= Cols /\ (s.cursor.y < s.bottom - 1 \/ s.autoscroll)
WrapsTo(s) ==
  Clamp(IF s.cursor.y + 1 = s.bottom THEN s.cursor.y ELSE s.cursor.y + 1, Cols)

LEMMA Typed ==
  ASSUME NEW s \in Screens, NEW g \in Glyphs, ~Wraps(s)
  PROVE  LET t == RawPutchar(s, g)
         IN  /\ t \in Screens /\ Beside(s, t)
             /\ t.cursor = [x |-> s.cursor.x + 1, y |-> s.cursor.y]
             /\ t.cells = PutAt(s.cells, <<s.cursor.x, s.cursor.y>>, Ink(s, g))
  <1> DEFINE u == Put(s, <<s.cursor.x, s.cursor.y>>, Ink(s, g))
  <1>1. s.cursor.x \in Nat /\ s.cursor.y \in Nat /\ s.cursor.x + 1 \in Nat
    BY DEF Screens
  <1>2. /\ u \in Screens /\ SameBut(s, u)
        /\ u.cells = PutAt(s.cells, <<s.cursor.x, s.cursor.y>>, Ink(s, g))
    BY InkTyped, PutPuts
  <1>3. RawPutchar(s, g) = [u EXCEPT !.cursor = [x |-> s.cursor.x + 1, y |-> s.cursor.y]]
    BY Zenon DEF RawPutchar, Wraps
  <1> HIDE DEF u
  <1> QED
    BY <1>1, <1>2, <1>3, CursorSet DEF SameBut, Beside

LEMMA TypedWrapped ==
  ASSUME NEW s \in Screens, NEW g \in Glyphs, Wraps(s)
  PROVE  LET t == RawPutchar(s, g)
         IN  /\ t \in Screens /\ Beside(s, t)
             /\ WrapsTo(s) \in 0 .. Cols - 1
             /\ t.cursor = [x |-> 1, y |-> WrapsTo(s)]
             /\ t.cells = PutAt(IF s.cursor.y + 1 = s.bottom
                                  THEN Up(s.cells, s.top, s.bottom - 1, Ink(s, Space))
                                  ELSE s.cells,
                                <<0, WrapsTo(s)>>, Ink(s, g))
  <1> DEFINE rolls == s.cursor.y + 1 = s.bottom
             line == IF rolls THEN s.cursor.y ELSE s.cursor.y + 1
             r == IF rolls THEN Scroll(s) ELSE s
             u == Put(r, <<0, WrapsTo(s)>>, Ink(s, g))
  <1>1. s.cursor.y \in Nat /\ line \in Nat
    BY DEF Screens
  <1>2. /\ WrapsTo(s) \in 0 .. Cols - 1
        /\ WrapsTo(s) = IF line < Cols THEN line ELSE Cols - 1
    BY <1>1, Sizes DEF WrapsTo, Clamp
  <1>3. /\ r \in Screens /\ SameBut(s, r)
        /\ r.cells = IF rolls THEN Up(s.cells, s.top, s.bottom - 1, Ink(s, Space))
                     ELSE s.cells
    BY Scrolls DEF SameBut, Beside
  <1>4. /\ u \in Screens /\ SameBut(r, u)
        /\ u.cells = PutAt(r.cells, <<0, WrapsTo(s)>>, Ink(s, g))
    <2> HIDE DEF r
    <2> QED
      BY <1>3, InkTyped, PutPuts
  <1>5. RawPutchar(s, g) = [u EXCEPT !.cursor = [x |-> 0 + 1, y |-> WrapsTo(s)]]
    <2>1. RawPutchar(s, g) =
            LET at == [x |-> 0, y |-> IF line < Cols THEN line ELSE Cols - 1]
            IN  [Put(r, <<at.x, at.y>>, Ink(s, g)) EXCEPT
                   !.cursor = [x |-> at.x + 1, y |-> at.y]]
      BY Zenon DEF RawPutchar, Wraps
    <2> HIDE DEF r, line
    <2> QED
      BY <1>2, <2>1
  <1>6. SameBut(s, u)
    BY <1>3, <1>4 DEF SameBut, Beside
  <1>7. [u EXCEPT !.cursor = [x |-> 1, y |-> WrapsTo(s)]] = RawPutchar(s, g)
    <2>1. 0 + 1 = 1
      OBVIOUS
    <2> QED
      BY <1>5, <2>1
  <1>8. 1 \in Nat /\ WrapsTo(s) \in Nat
    BY <1>2, Sizes
  <1> HIDE DEF u, r
  <1>9. LET t == [u EXCEPT !.cursor = [x |-> 1, y |-> WrapsTo(s)]]
        IN  /\ t \in Screens /\ t.cells = u.cells /\ Beside(u, t)
            /\ t.cursor = [x |-> 1, y |-> WrapsTo(s)]
    BY <1>4, <1>8, CursorSet
  <1>10. LET t == RawPutchar(s, g)
         IN  /\ t \in Screens /\ t.cells = u.cells /\ Beside(u, t)
             /\ t.cursor = [x |-> 1, y |-> WrapsTo(s)]
    BY <1>7, <1>9, Zenon
  <1>11. Beside(s, RawPutchar(s, g))
    BY <1>6, <1>10 DEF SameBut, Beside
  <1> HIDE DEF rolls
  <1> QED
    BY <1>2, <1>3, <1>4, <1>10, <1>11, Zenon DEF rolls

\* However it goes.
LEMMA TypesSomewhere ==
  ASSUME NEW s \in Screens, NEW g \in Glyphs
  PROVE  LET t == RawPutchar(s, g)
         IN  /\ t \in Screens /\ Beside(s, t)
             /\ \/ t.cursor.y = s.cursor.y /\ t.cursor.x = s.cursor.x + 1
                \/ t.cursor.y \in 0 .. Cols - 1 /\ t.cursor.x = 1
  <1> DEFINE t == RawPutchar(s, g)
  <1>1. CASE Wraps(s)
    <2>1. /\ t \in Screens /\ Beside(s, t) /\ WrapsTo(s) \in 0 .. Cols - 1
          /\ t.cursor = [x |-> 1, y |-> WrapsTo(s)]
      BY <1>1, TypedWrapped, Zenon
    <2> HIDE DEF t
    <2> QED
      BY <2>1 DEF t
  <1>2. CASE ~Wraps(s)
    <2>1. /\ t \in Screens /\ Beside(s, t)
          /\ t.cursor = [x |-> s.cursor.x + 1, y |-> s.cursor.y]
      BY <1>2, Typed, Zenon
    <2> HIDE DEF t
    <2> QED
      BY <2>1 DEF t
  <1> QED
    BY <1>1, <1>2

-----------------------------------------------------------------------------
(* The loops, turn by turn: one lemma for each body, since a lemma cannot    *)
(* take an operator that is then instantiated.                               *)

LEMMA MadeScreens ==
  ASSUME NEW s \in Screens, NEW n \in Nat, NEW step \in [(1 .. n) \X Screens -> Screens],
         NEW turn, turn[0] = s,
         \A k \in 1 .. n : turn[k - 1] \in Screens => turn[k] = step[<<k, turn[k - 1]>>]
  PROVE  \A k \in 0 .. n : turn[k] \in Screens
  BY MadeTyped

LEMMA HereTyped ==
  ASSUME screen \in Screens
  PROVE  /\ X \in 0 .. Cols - 1 /\ Y \in 0 .. Rows - 1
         /\ X = IF screen.cursor.x >= Cols THEN Cols - 1 ELSE screen.cursor.x
         /\ Y = IF screen.cursor.y >= Rows THEN Rows - 1 ELSE screen.cursor.y
  <1>1. screen.cursor.x \in Nat /\ screen.cursor.y \in Nat
    BY DEF Screens
  <1> QED
    BY <1>1, Sizes DEF X, Y, GetCursorPos, Clamp

\* The bodies of DeleteCharacters and InsertCharacters.
Shifted(t, col, v)  == MoveCharacter(t, col - v, Y, col, Y)
Inserted(t, col, v) ==
  RawPutchar(SetCursorPos(MoveCharacter(t, col + v, Y, col, Y), col, Y), Space)

LEMMA ByTurns ==
  ASSUME NEW n \in Nat, NEW S, 0 \in S, \A k \in 1 .. n : k - 1 \in S => k \in S
  PROVE  \A k \in 0 .. n : k \in S
  <1> DEFINE R == {k \in Nat : k <= n => k \in S}
  <1>1. 0 \in R
    OBVIOUS
  <1>2. ASSUME NEW k \in Nat, k \in R PROVE k + 1 \in R
    <2>1. k + 1 <= n => k + 1 \in 1 .. n /\ (k + 1) - 1 = k
      OBVIOUS
    <2> QED
      BY <1>2, <2>1
  <1> HIDE DEF R
  <1>3. Nat \subseteq R
    BY <1>1, <1>2, NatSetInduction
  <1> QED
    BY <1>3 DEF R

BlankingBody(s, n, f) ==
  [k \in 0 .. n |-> IF k = 0 THEN s ELSE RawPutchar(f[k - 1], Space)]
BlankingTurns(s, n) == CHOOSE turn : turn = BlankingBody(s, n, turn)

\* Blanks.
LEMMA Blanking ==
  ASSUME NEW s \in Screens, NEW n \in Nat
  PROVE  LET turn == BlankingTurns(s, n)
         IN  /\ turn[0] = s /\ turn[n] = Blanks(s, n)
             /\ \A k \in 0 .. n : turn[k] \in Screens
             /\ \A k \in 1 .. n : turn[k] = RawPutchar(turn[k - 1], Space)
  <1> DEFINE step == [w \in (1 .. n) \X Screens |-> RawPutchar(w[2], Space)]
  <1>1. \A k \in 1 .. n, t \in Screens : RawPutchar(t, Space) \in Screens
    BY TypesSomewhere, Sizes
  <1>2. step \in [(1 .. n) \X Screens -> Screens]
    BY <1>1
  <1>3. \A k \in 1 .. n, t \in Screens : step[<<k, t>>] = RawPutchar(t, Space)
    OBVIOUS
  <1> HIDE DEF step
  <1>4. PICK f \in [0 .. n -> Screens] : Made(f, step, s, n)
    BY <1>2, MadeExists
  <1>5. f = BlankingBody(s, n, f)
    <2>1. f[0] = s /\ \A k \in 1 .. n : f[k] = RawPutchar(f[k - 1], Space)
      <3>1. \A k \in 1 .. n : k - 1 \in 0 .. n
        OBVIOUS
      <3>2. \A k \in 1 .. n : f[k - 1] \in Screens
        BY <3>1
      <3> QED
        BY <1>3, <1>4, <3>2, Zenon DEF Made
    <2>2. \A k \in 0 .. n : k # 0 => k \in 1 .. n
      OBVIOUS
    <2>3. \A k \in 0 .. n : f[k] = IF k = 0 THEN s ELSE RawPutchar(f[k - 1], Space)
      BY <2>1, <2>2, Zenon
    <2>4. f = [k \in 0 .. n |-> f[k]]
      OBVIOUS
    <2> QED
      BY <2>3, <2>4, Zenon DEF BlankingBody
  <1>6. BlankingTurns(s, n) = BlankingBody(s, n, BlankingTurns(s, n))
    BY <1>5, Zenon DEF BlankingTurns
  <1> PICK turn : turn = BlankingTurns(s, n)
    OBVIOUS
  <1>7. turn[0] = s /\ \A k \in 1 .. n : turn[k] = RawPutchar(turn[k - 1], Space)
    <2>1. 0 \in 0 .. n /\ \A k \in 1 .. n : k \in 0 .. n /\ k # 0
      OBVIOUS
    <2>2. \A k \in 0 .. n : turn[k] = IF k = 0 THEN s ELSE RawPutchar(turn[k - 1], Space)
      BY <1>6, Zenon DEF BlankingBody
    <2> QED
      BY <2>1, <2>2, Zenon
  <1>8. \A k \in 0 .. n : turn[k] \in Screens
    <2>1. \A k \in 1 .. n : turn[k - 1] \in Screens => turn[k] = step[<<k, turn[k - 1]>>]
      BY <1>3, <1>7, Zenon
    <2> QED
      BY <1>2, <1>7, <2>1, MadeScreens
  <1>9. Blanks(s, n) = IF n > 0 THEN BlankingTurns(s, n)[n] ELSE s
    BY Zenon DEF Blanks, Loop, BlankingTurns, BlankingBody
  <1>10. Blanks(s, n) = turn[n]
    <2>1. n > 0 \/ n = 0
      OBVIOUS
    <2> QED
      BY <1>7, <1>9, <2>1, Zenon
  <1> QED
    BY <1>7, <1>8, <1>10, Zenon

ScrollingBody(s, n, f) ==
  [k \in 0 .. n |-> IF k = 0 THEN s ELSE Scroll(f[k - 1])]
ScrollingTurns(s, n) == CHOOSE turn : turn = ScrollingBody(s, n, turn)

\* The loop of M.
LEMMA Scrolling ==
  ASSUME NEW s \in Screens, NEW n \in Nat
  PROVE  LET turn == ScrollingTurns(s, n)
         IN  /\ turn[0] = s /\ turn[n] = Loop(n, LAMBDA t, k : Scroll(t), s)
             /\ \A k \in 0 .. n : turn[k] \in Screens
             /\ \A k \in 1 .. n : turn[k] = Scroll(turn[k - 1])
  <1> DEFINE step == [w \in (1 .. n) \X Screens |-> Scroll(w[2])]
  <1>1. \A k \in 1 .. n, t \in Screens : Scroll(t) \in Screens
    BY Scrolls
  <1>2. step \in [(1 .. n) \X Screens -> Screens]
    BY <1>1
  <1>3. \A k \in 1 .. n, t \in Screens : step[<<k, t>>] = Scroll(t)
    OBVIOUS
  <1> HIDE DEF step
  <1>4. PICK f \in [0 .. n -> Screens] : Made(f, step, s, n)
    BY <1>2, MadeExists
  <1>5. f = ScrollingBody(s, n, f)
    <2>1. f[0] = s /\ \A k \in 1 .. n : f[k] = Scroll(f[k - 1])
      <3>1. \A k \in 1 .. n : k - 1 \in 0 .. n
        OBVIOUS
      <3>2. \A k \in 1 .. n : f[k - 1] \in Screens
        BY <3>1
      <3> QED
        BY <1>3, <1>4, <3>2, Zenon DEF Made
    <2>2. \A k \in 0 .. n : k # 0 => k \in 1 .. n
      OBVIOUS
    <2>3. \A k \in 0 .. n : f[k] = IF k = 0 THEN s ELSE Scroll(f[k - 1])
      BY <2>1, <2>2, Zenon
    <2>4. f = [k \in 0 .. n |-> f[k]]
      OBVIOUS
    <2> QED
      BY <2>3, <2>4, Zenon DEF ScrollingBody
  <1>6. ScrollingTurns(s, n) = ScrollingBody(s, n, ScrollingTurns(s, n))
    BY <1>5, Zenon DEF ScrollingTurns
  <1> PICK turn : turn = ScrollingTurns(s, n)
    OBVIOUS
  <1>7. turn[0] = s /\ \A k \in 1 .. n : turn[k] = Scroll(turn[k - 1])
    <2>1. 0 \in 0 .. n /\ \A k \in 1 .. n : k \in 0 .. n /\ k # 0
      OBVIOUS
    <2>2. \A k \in 0 .. n : turn[k] = IF k = 0 THEN s ELSE Scroll(turn[k - 1])
      BY <1>6, Zenon DEF ScrollingBody
    <2> QED
      BY <2>1, <2>2, Zenon
  <1>8. \A k \in 0 .. n : turn[k] \in Screens
    <2>1. \A k \in 1 .. n : turn[k - 1] \in Screens => turn[k] = step[<<k, turn[k - 1]>>]
      BY <1>3, <1>7, Zenon
    <2> QED
      BY <1>2, <1>7, <2>1, MadeScreens
  <1>9. Loop(n, LAMBDA t, k : Scroll(t), s) = IF n > 0 THEN ScrollingTurns(s, n)[n] ELSE s
    BY Zenon DEF Loop, ScrollingTurns, ScrollingBody
  <1>10. Loop(n, LAMBDA t, k : Scroll(t), s) = turn[n]
    <2>1. n > 0 \/ n = 0
      OBVIOUS
    <2> QED
      BY <1>7, <1>9, <2>1, Zenon
  <1> QED
    BY <1>7, <1>8, <1>10, Zenon

RevscrollingBody(s, n, f) ==
  [k \in 0 .. n |-> IF k = 0 THEN s ELSE Revscroll(f[k - 1])]
RevscrollingTurns(s, n) == CHOOSE turn : turn = RevscrollingBody(s, n, turn)

\* The loop of L.
LEMMA Revscrolling ==
  ASSUME NEW s \in Screens, NEW n \in Nat
  PROVE  LET turn == RevscrollingTurns(s, n)
         IN  /\ turn[0] = s /\ turn[n] = Loop(n, LAMBDA t, k : Revscroll(t), s)
             /\ \A k \in 0 .. n : turn[k] \in Screens
             /\ \A k \in 1 .. n : turn[k] = Revscroll(turn[k - 1])
  <1> DEFINE step == [w \in (1 .. n) \X Screens |-> Revscroll(w[2])]
  <1>1. \A k \in 1 .. n, t \in Screens : Revscroll(t) \in Screens
    BY Revscrolls
  <1>2. step \in [(1 .. n) \X Screens -> Screens]
    BY <1>1
  <1>3. \A k \in 1 .. n, t \in Screens : step[<<k, t>>] = Revscroll(t)
    OBVIOUS
  <1> HIDE DEF step
  <1>4. PICK f \in [0 .. n -> Screens] : Made(f, step, s, n)
    BY <1>2, MadeExists
  <1>5. f = RevscrollingBody(s, n, f)
    <2>1. f[0] = s /\ \A k \in 1 .. n : f[k] = Revscroll(f[k - 1])
      <3>1. \A k \in 1 .. n : k - 1 \in 0 .. n
        OBVIOUS
      <3>2. \A k \in 1 .. n : f[k - 1] \in Screens
        BY <3>1
      <3> QED
        BY <1>3, <1>4, <3>2, Zenon DEF Made
    <2>2. \A k \in 0 .. n : k # 0 => k \in 1 .. n
      OBVIOUS
    <2>3. \A k \in 0 .. n : f[k] = IF k = 0 THEN s ELSE Revscroll(f[k - 1])
      BY <2>1, <2>2, Zenon
    <2>4. f = [k \in 0 .. n |-> f[k]]
      OBVIOUS
    <2> QED
      BY <2>3, <2>4, Zenon DEF RevscrollingBody
  <1>6. RevscrollingTurns(s, n) = RevscrollingBody(s, n, RevscrollingTurns(s, n))
    BY <1>5, Zenon DEF RevscrollingTurns
  <1> PICK turn : turn = RevscrollingTurns(s, n)
    OBVIOUS
  <1>7. turn[0] = s /\ \A k \in 1 .. n : turn[k] = Revscroll(turn[k - 1])
    <2>1. 0 \in 0 .. n /\ \A k \in 1 .. n : k \in 0 .. n /\ k # 0
      OBVIOUS
    <2>2. \A k \in 0 .. n : turn[k] = IF k = 0 THEN s ELSE Revscroll(turn[k - 1])
      BY <1>6, Zenon DEF RevscrollingBody
    <2> QED
      BY <2>1, <2>2, Zenon
  <1>8. \A k \in 0 .. n : turn[k] \in Screens
    <2>1. \A k \in 1 .. n : turn[k - 1] \in Screens => turn[k] = step[<<k, turn[k - 1]>>]
      BY <1>3, <1>7, Zenon
    <2> QED
      BY <1>2, <1>7, <2>1, MadeScreens
  <1>9. Loop(n, LAMBDA t, k : Revscroll(t), s) = IF n > 0 THEN RevscrollingTurns(s, n)[n] ELSE s
    BY Zenon DEF Loop, RevscrollingTurns, RevscrollingBody
  <1>10. Loop(n, LAMBDA t, k : Revscroll(t), s) = turn[n]
    <2>1. n > 0 \/ n = 0
      OBVIOUS
    <2> QED
      BY <1>7, <1>9, <2>1, Zenon
  <1> QED
    BY <1>7, <1>8, <1>10, Zenon

MakingRoomBody(s, n, f) ==
  [k \in 0 .. n |-> IF k = 0 THEN s ELSE MoveCharacter(f[k - 1], Cols - k + 1, Y, Cols - k, Y)]
MakingRoomTurns(s, n) == CHOOSE turn : turn = MakingRoomBody(s, n, turn)

\* The loop of MakeRoom.
LEMMA MakingRoom ==
  ASSUME NEW s \in Screens, NEW n \in Nat, screen \in Screens
  PROVE  LET turn == MakingRoomTurns(s, n)
         IN  /\ turn[0] = s /\ turn[n] = Loop(n, LAMBDA t, k :
                                   MoveCharacter(t, Cols - k + 1, Y, Cols - k, Y), s)
             /\ \A k \in 0 .. n : turn[k] \in Screens
             /\ \A k \in 1 .. n : turn[k] = MoveCharacter(turn[k - 1], Cols - k + 1, Y, Cols - k, Y)
  <1> DEFINE step == [w \in (1 .. n) \X Screens |->
                        MoveCharacter(w[2], Cols - w[1] + 1, Y, Cols - w[1], Y)]
  <1>1. \A k \in 1 .. n, t \in Screens : MoveCharacter(t, Cols - k + 1, Y, Cols - k, Y) \in Screens
    <2> TAKE k \in 1 .. n, t \in Screens
    <2>1. Cols - k \in Int /\ Cols - k + 1 \in Int /\ Y \in Int
      BY HereTyped, Sizes
    <2> QED
      BY <2>1, Moves
  <1>2. step \in [(1 .. n) \X Screens -> Screens]
    BY <1>1
  <1>3. \A k \in 1 .. n, t \in Screens : step[<<k, t>>]
                                     = MoveCharacter(t, Cols - k + 1, Y, Cols - k, Y)
    OBVIOUS
  <1> HIDE DEF step
  <1>4. PICK f \in [0 .. n -> Screens] : Made(f, step, s, n)
    BY <1>2, MadeExists
  <1>5. f = MakingRoomBody(s, n, f)
    <2>1. f[0] = s /\ \A k \in 1 .. n : f[k] = MoveCharacter(f[k - 1], Cols - k + 1, Y, Cols - k, Y)
      <3>1. \A k \in 1 .. n : k - 1 \in 0 .. n
        OBVIOUS
      <3>2. \A k \in 1 .. n : f[k - 1] \in Screens
        BY <3>1
      <3> QED
        BY <1>3, <1>4, <3>2, Zenon DEF Made
    <2>2. \A k \in 0 .. n : k # 0 => k \in 1 .. n
      OBVIOUS
    <2>3. \A k \in 0 .. n : f[k] = IF k = 0 THEN s
                                       ELSE MoveCharacter(f[k - 1], Cols - k + 1, Y, Cols - k, Y)
      BY <2>1, <2>2, Zenon
    <2>4. f = [k \in 0 .. n |-> f[k]]
      OBVIOUS
    <2> QED
      BY <2>3, <2>4, Zenon DEF MakingRoomBody
  <1>6. MakingRoomTurns(s, n) = MakingRoomBody(s, n, MakingRoomTurns(s, n))
    BY <1>5, Zenon DEF MakingRoomTurns
  <1> PICK turn : turn = MakingRoomTurns(s, n)
    OBVIOUS
  <1>7. turn[0] = s /\ \A k \in 1 .. n : turn[k]
                      = MoveCharacter(turn[k - 1], Cols - k + 1, Y, Cols - k, Y)
    <2>1. 0 \in 0 .. n /\ \A k \in 1 .. n : k \in 0 .. n /\ k # 0
      OBVIOUS
    <2>2. \A k \in 0 .. n : turn[k] = IF k = 0 THEN s
                              ELSE MoveCharacter(turn[k - 1], Cols - k + 1, Y, Cols - k, Y)
      BY <1>6, Zenon DEF MakingRoomBody
    <2> QED
      BY <2>1, <2>2, Zenon
  <1>8. \A k \in 0 .. n : turn[k] \in Screens
    <2>1. \A k \in 1 .. n : turn[k - 1] \in Screens => turn[k] = step[<<k, turn[k - 1]>>]
      BY <1>3, <1>7, Zenon
    <2> QED
      BY <1>2, <1>7, <2>1, MadeScreens
  <1>9. Loop(n, LAMBDA t, k : MoveCharacter(t, Cols - k + 1, Y, Cols - k, Y), s)
          = IF n > 0 THEN MakingRoomTurns(s, n)[n] ELSE s
    BY Zenon DEF Loop, MakingRoomTurns, MakingRoomBody
  <1>10. Loop(n, LAMBDA t, k : MoveCharacter(t, Cols - k + 1, Y, Cols - k, Y), s) = turn[n]
    <2>1. n > 0 \/ n = 0
      OBVIOUS
    <2> QED
      BY <1>7, <1>9, <2>1, Zenon
  <1> QED
    BY <1>7, <1>8, <1>10, Zenon

DeletingBody(s, n, v, f) ==
  [k \in 0 .. n |-> IF k = 0 THEN s ELSE Shifted(f[k - 1], X + v + k - 1, v)]
DeletingTurns(s, n, v) == CHOOSE turn : turn = DeletingBody(s, n, v, turn)

\* The loop of DeleteCharacters.
LEMMA Deleting ==
  ASSUME NEW s \in Screens, NEW n \in Nat, screen \in Screens,
         NEW v \in Nat
  PROVE  LET turn == DeletingTurns(s, n, v)
         IN  /\ turn[0] = s /\ turn[n] = Loop(n, LAMBDA t, k : Shifted(t, X + v + k - 1, v), s)
             /\ \A k \in 0 .. n : turn[k] \in Screens
             /\ \A k \in 1 .. n : turn[k] = Shifted(turn[k - 1], X + v + k - 1, v)
  <1> DEFINE step == [w \in (1 .. n) \X Screens |-> Shifted(w[2], X + v + w[1] - 1, v)]
  <1>1. \A k \in 1 .. n, t \in Screens : Shifted(t, X + v + k - 1, v) \in Screens
    <2> TAKE k \in 1 .. n, t \in Screens
    <2>1. X + v + k - 1 \in Int /\ (X + v + k - 1) - v \in Int /\ Y \in Int
      BY HereTyped, Sizes
    <2>2. MoveCharacter(t, (X + v + k - 1) - v, Y, X + v + k - 1, Y) \in Screens
      BY <2>1, Moves, Zenon
    <2> QED
      BY <2>2, Zenon DEF Shifted
  <1>2. step \in [(1 .. n) \X Screens -> Screens]
    BY <1>1
  <1>3. \A k \in 1 .. n, t \in Screens : step[<<k, t>>] = Shifted(t, X + v + k - 1, v)
    OBVIOUS
  <1> HIDE DEF step
  <1>4. PICK f \in [0 .. n -> Screens] : Made(f, step, s, n)
    BY <1>2, MadeExists
  <1>5. f = DeletingBody(s, n, v, f)
    <2>1. f[0] = s /\ \A k \in 1 .. n : f[k] = Shifted(f[k - 1], X + v + k - 1, v)
      <3>1. \A k \in 1 .. n : k - 1 \in 0 .. n
        OBVIOUS
      <3>2. \A k \in 1 .. n : f[k - 1] \in Screens
        BY <3>1
      <3> QED
        BY <1>3, <1>4, <3>2, Zenon DEF Made
    <2>2. \A k \in 0 .. n : k # 0 => k \in 1 .. n
      OBVIOUS
    <2>3. \A k \in 0 .. n : f[k] = IF k = 0 THEN s ELSE Shifted(f[k - 1], X + v + k - 1, v)
      BY <2>1, <2>2, Zenon
    <2>4. f = [k \in 0 .. n |-> f[k]]
      OBVIOUS
    <2> QED
      BY <2>3, <2>4, Zenon DEF DeletingBody
  <1>6. DeletingTurns(s, n, v) = DeletingBody(s, n, v, DeletingTurns(s, n, v))
    BY <1>5, Zenon DEF DeletingTurns
  <1> PICK turn : turn = DeletingTurns(s, n, v)
    OBVIOUS
  <1>7. turn[0] = s /\ \A k \in 1 .. n : turn[k] = Shifted(turn[k - 1], X + v + k - 1, v)
    <2>1. 0 \in 0 .. n /\ \A k \in 1 .. n : k \in 0 .. n /\ k # 0
      OBVIOUS
    <2>2. \A k \in 0 .. n : turn[k] = IF k = 0 THEN s ELSE Shifted(turn[k - 1], X + v + k - 1, v)
      BY <1>6, Zenon DEF DeletingBody
    <2> QED
      BY <2>1, <2>2, Zenon
  <1>8. \A k \in 0 .. n : turn[k] \in Screens
    <2>1. \A k \in 1 .. n : turn[k - 1] \in Screens => turn[k] = step[<<k, turn[k - 1]>>]
      BY <1>3, <1>7, Zenon
    <2> QED
      BY <1>2, <1>7, <2>1, MadeScreens
  <1>9. Loop(n, LAMBDA t, k : Shifted(t, X + v + k - 1, v), s)
          = IF n > 0 THEN DeletingTurns(s, n, v)[n] ELSE s
    BY Zenon DEF Loop, DeletingTurns, DeletingBody
  <1>10. Loop(n, LAMBDA t, k : Shifted(t, X + v + k - 1, v), s) = turn[n]
    <2>1. n > 0 \/ n = 0
      OBVIOUS
    <2> QED
      BY <1>7, <1>9, <2>1, Zenon
  <1> QED
    BY <1>7, <1>8, <1>10, Zenon

InsertingBody(s, n, v, f) ==
  [k \in 0 .. n |-> IF k = 0 THEN s ELSE Inserted(f[k - 1], Cols - k, v)]
InsertingTurns(s, n, v) == CHOOSE turn : turn = InsertingBody(s, n, v, turn)

\* The loop of InsertCharacters.
LEMMA Inserting ==
  ASSUME NEW s \in Screens, NEW n \in Nat, screen \in Screens,
         NEW v \in Nat
  PROVE  LET turn == InsertingTurns(s, n, v)
         IN  /\ turn[0] = s /\ turn[n] = Loop(n, LAMBDA t, k : Inserted(t, Cols - k, v), s)
             /\ \A k \in 0 .. n : turn[k] \in Screens
             /\ \A k \in 1 .. n : turn[k] = Inserted(turn[k - 1], Cols - k, v)
  <1> DEFINE step == [w \in (1 .. n) \X Screens |-> Inserted(w[2], Cols - w[1], v)]
  <1>1. \A k \in 1 .. n, t \in Screens : Inserted(t, Cols - k, v) \in Screens
    <2> TAKE k \in 1 .. n, t \in Screens
    <2>1. Cols - k \in Int /\ Cols - k + v \in Int /\ Y \in Int
      BY HereTyped, Sizes
    <2>2. MoveCharacter(t, Cols - k + v, Y, Cols - k, Y) \in Screens
      BY <2>1, Moves
    <2>3. SetCursorPos(MoveCharacter(t, Cols - k + v, Y, Cols - k, Y), Cols - k, Y) \in Screens
      BY <2>1, <2>2, CursorGoes
    <2> QED
      BY <2>3, TypesSomewhere, Sizes DEF Inserted
  <1>2. step \in [(1 .. n) \X Screens -> Screens]
    BY <1>1
  <1>3. \A k \in 1 .. n, t \in Screens : step[<<k, t>>] = Inserted(t, Cols - k, v)
    OBVIOUS
  <1> HIDE DEF step
  <1>4. PICK f \in [0 .. n -> Screens] : Made(f, step, s, n)
    BY <1>2, MadeExists
  <1>5. f = InsertingBody(s, n, v, f)
    <2>1. f[0] = s /\ \A k \in 1 .. n : f[k] = Inserted(f[k - 1], Cols - k, v)
      <3>1. \A k \in 1 .. n : k - 1 \in 0 .. n
        OBVIOUS
      <3>2. \A k \in 1 .. n : f[k - 1] \in Screens
        BY <3>1
      <3> QED
        BY <1>3, <1>4, <3>2, Zenon DEF Made
    <2>2. \A k \in 0 .. n : k # 0 => k \in 1 .. n
      OBVIOUS
    <2>3. \A k \in 0 .. n : f[k] = IF k = 0 THEN s ELSE Inserted(f[k - 1], Cols - k, v)
      BY <2>1, <2>2, Zenon
    <2>4. f = [k \in 0 .. n |-> f[k]]
      OBVIOUS
    <2> QED
      BY <2>3, <2>4, Zenon DEF InsertingBody
  <1>6. InsertingTurns(s, n, v) = InsertingBody(s, n, v, InsertingTurns(s, n, v))
    BY <1>5, Zenon DEF InsertingTurns
  <1> PICK turn : turn = InsertingTurns(s, n, v)
    OBVIOUS
  <1>7. turn[0] = s /\ \A k \in 1 .. n : turn[k] = Inserted(turn[k - 1], Cols - k, v)
    <2>1. 0 \in 0 .. n /\ \A k \in 1 .. n : k \in 0 .. n /\ k # 0
      OBVIOUS
    <2>2. \A k \in 0 .. n : turn[k] = IF k = 0 THEN s ELSE Inserted(turn[k - 1], Cols - k, v)
      BY <1>6, Zenon DEF InsertingBody
    <2> QED
      BY <2>1, <2>2, Zenon
  <1>8. \A k \in 0 .. n : turn[k] \in Screens
    <2>1. \A k \in 1 .. n : turn[k - 1] \in Screens => turn[k] = step[<<k, turn[k - 1]>>]
      BY <1>3, <1>7, Zenon
    <2> QED
      BY <1>2, <1>7, <2>1, MadeScreens
  <1>9. Loop(n, LAMBDA t, k : Inserted(t, Cols - k, v), s)
          = IF n > 0 THEN InsertingTurns(s, n, v)[n] ELSE s
    BY Zenon DEF Loop, InsertingTurns, InsertingBody
  <1>10. Loop(n, LAMBDA t, k : Inserted(t, Cols - k, v), s) = turn[n]
    <2>1. n > 0 \/ n = 0
      OBVIOUS
    <2> QED
      BY <1>7, <1>9, <2>1, Zenon
  <1> QED
    BY <1>7, <1>8, <1>10, Zenon

-----------------------------------------------------------------------------
(* What the loops do: blanks.                                                *)

\* Cells blanked, and the places of line y from column a up to b.
Blanked(cells, A, ink) == [q \in Positions |-> IF q \in A THEN ink ELSE cells[q]]
Span(y, a, b) == {q \in Positions : q[2] = y /\ q[1] \in a .. b - 1}

LEMMA BlankedMore ==
  ASSUME NEW cells, NEW A, NEW B, NEW p, NEW ink,
         \A q \in Positions : q \in B <=> q \in A \/ q = p
  PROVE  PutAt(Blanked(cells, A, ink), p, ink) = Blanked(cells, B, ink)
  BY DEF PutAt, Blanked

LEMMA BlankedNone ==
  ASSUME NEW cells \in [Positions -> Cells], NEW A, NEW ink,
         \A q \in Positions : q \notin A
  PROVE  Blanked(cells, A, ink) = cells
  BY DEF Blanked

LEMMA SpanGrows ==
  ASSUME NEW y \in Nat, NEW a \in Nat, NEW k \in Nat
  PROVE  /\ \A q \in Positions : q \in Span(y, a, a + k + 1)
                                   <=> q \in Span(y, a, a + k) \/ q = <<a + k, y>>
         /\ \A q \in Positions : q \notin Span(y, a, a)
  <1>1. SUFFICES ASSUME NEW q \in Positions
                 PROVE  /\ q \in Span(y, a, a + k + 1)
                             <=> q \in Span(y, a, a + k) \/ q = <<a + k, y>>
                        /\ q \notin Span(y, a, a)
    OBVIOUS
  <1>2. PICK c \in 0 .. Cols - 1, l \in 0 .. Rows - 1 : q = <<c, l>>
    BY PositionIs
  <1>3. q[1] = c /\ q[2] = l /\ c \in Int /\ l \in Int
    BY <1>2, Sizes
  <1>4. q = <<a + k, y>> <=> c = a + k /\ l = y
    BY <1>2
  <1>5. c \in a .. a + k + 1 - 1 <=> c \in a .. a + k - 1 \/ c = a + k
    BY <1>3
  <1>6. c \notin a .. a - 1
    BY <1>3
  <1> QED
    BY <1>3, <1>4, <1>5, <1>6 DEF Span

\* Blanks stay on their line while it lasts, and beyond it if nothing wraps there.
LEMMA BlanksOnLine ==
  ASSUME NEW s \in Screens, ~s.autoscroll, NEW n \in Nat,
         s.cursor.x + n <= Cols \/ s.cursor.y >= s.bottom - 1
  PROVE  LET t == Blanks(s, n)
         IN  /\ t \in Screens /\ Beside(s, t)
             /\ t.cursor = [x |-> s.cursor.x + n, y |-> s.cursor.y]
             /\ t.cells = Blanked(s.cells, Span(s.cursor.y, s.cursor.x, s.cursor.x + n),
                                  Ink(s, Space))
  <1> DEFINE turn == BlankingTurns(s, n)
  <1>1. /\ turn[0] = s /\ turn[n] = Blanks(s, n)
        /\ \A k \in 0 .. n : turn[k] \in Screens
        /\ \A k \in 1 .. n : turn[k] = RawPutchar(turn[k - 1], Space)
    BY Blanking
  <1> HIDE DEF turn
  <1> DEFINE a == s.cursor.x
             y == s.cursor.y
             ink == Ink(s, Space)
             Right(k) == /\ turn[k] \in Screens /\ Beside(s, turn[k])
                         /\ turn[k].cursor = [x |-> a + k, y |-> y]
                         /\ turn[k].cells = Blanked(s.cells, Span(y, a, a + k), ink)
             S == {k \in 0 .. n : Right(k)}
  <1>2. a \in Nat /\ y \in Nat /\ s.bottom \in Int /\ s.cells \in [Positions -> Cells]
        /\ s.cursor = [x |-> a + 0, y |-> y]
    BY DEF Screens
  <1>3. 0 \in S
    <2>1. Blanked(s.cells, Span(y, a, a + 0), ink) = s.cells
      <3>1. a + 0 = a
        BY <1>2
      <3> HIDE DEF a, y
      <3>2. \A q \in Positions : q \notin Span(y, a, a)
        BY <1>2, SpanGrows
      <3> QED
        BY <1>2, <3>1, <3>2, BlankedNone
    <2>2. Right(0)
      BY <1>1, <1>2, <2>1 DEF Beside
    <2> QED
      BY <2>2
  <1>4. ASSUME NEW k \in 1 .. n, k - 1 \in S PROVE k \in S
    <2> DEFINE t == turn[k - 1]
    <2>1. /\ t \in Screens /\ Beside(s, t) /\ t.cursor = [x |-> a + (k - 1), y |-> y]
          /\ t.cells = Blanked(s.cells, Span(y, a, a + (k - 1)), ink)
      BY <1>4
    <2>2. turn[k] = RawPutchar(t, Space)
      BY <1>1
    <2> HIDE DEF t
    <2>3. ~Wraps(t)
      <3>1. t.cursor.x = a + (k - 1) /\ t.cursor.y = y /\ t.bottom = s.bottom
            /\ ~t.autoscroll
        BY <2>1 DEF Beside
      <3>2. a + n <= Cols \/ y >= s.bottom - 1
        OBVIOUS
      <3> HIDE DEF a, y
      <3> QED
        BY <1>2, <3>1, <3>2, Sizes DEF Wraps
    <2>4. /\ turn[k] \in Screens /\ Beside(t, turn[k])
          /\ turn[k].cursor = [x |-> t.cursor.x + 1, y |-> t.cursor.y]
          /\ turn[k].cells = PutAt(t.cells, <<t.cursor.x, t.cursor.y>>, Ink(t, Space))
      BY <2>1, <2>2, <2>3, Typed, Sizes
    <2>5. Ink(t, Space) = ink
      BY <2>1 DEF Ink, Beside
    <2>6. t.cursor.x = a + (k - 1) /\ t.cursor.y = y /\ t.cursor.x + 1 = a + k
      BY <1>2, <2>1
    <2>7. Beside(s, turn[k])
      BY <2>1, <2>4 DEF Beside
    <2>8. turn[k].cells = Blanked(s.cells, Span(y, a, a + k), ink)
      <3> HIDE DEF a, y, ink
      <3>1. k - 1 \in Nat /\ a + (k - 1) + 1 = a + k
        BY <1>2
      <3>2. \A q \in Positions : q \in Span(y, a, a + k)
                <=> q \in Span(y, a, a + (k - 1)) \/ q = <<a + (k - 1), y>>
        BY <1>2, <3>1, SpanGrows
      <3> QED
        BY <2>1, <2>4, <2>5, <2>6, <3>2, BlankedMore
    <2>9. Right(k)
      BY <2>4, <2>6, <2>7, <2>8
    <2> QED
      BY <2>9
  <1> HIDE DEF S
  <1>5. \A k \in 0 .. n : k \in S
    BY <1>3, <1>4, ByTurns
  <1>6. n \in S
    BY <1>5
  <1> QED
    BY <1>1, <1>6 DEF S

\* The places before column x of line y.
Before(x, y) == {q \in Positions : q[2] < y \/ (q[2] = y /\ q[1] < x)}

LEMMA LinesAdd ==
  ASSUME NEW a \in Nat, NEW b \in Nat
  PROVE  /\ a * Cols \in Nat /\ (a + 1) * Cols = a * Cols + Cols
         /\ a < b => a * Cols + Cols <= b * Cols
  <1>1. a * Cols \in Nat /\ b * Cols \in Nat /\ (a + 1) * Cols = a * Cols + Cols
    BY Sizes
  <1>2. ASSUME a < b PROVE a * Cols + Cols <= b * Cols
    <2>1. PICK c \in Nat : b = a + 1 + c
      <3>1. b - a - 1 \in Nat /\ b = a + 1 + (b - a - 1)
        BY <1>2
      <3> QED
        BY <3>1
    <2>2. c * Cols \in Nat
      BY Sizes
    <2>3. b * Cols = (a + 1) * Cols + c * Cols
      BY <2>1, Sizes
    <2> QED
      BY <1>1, <2>2, <2>3, Sizes
  <1> QED
    BY <1>1, <1>2

\* Blanks from one line into another, above the end of the region and as far as
\* lines are counted, to column x of line last.
LEMMA BlanksOverLines ==
  ASSUME NEW s \in Screens, ~s.autoscroll, s.cursor.x < Cols, NEW last \in Nat,
         s.cursor.y <= last, last < s.bottom, last < Cols, NEW x \in 1 .. Cols,
         NEW n \in Nat, n = (last - s.cursor.y) * Cols + x - s.cursor.x
  PROVE  LET t == Blanks(s, n)
         IN  /\ t \in Screens /\ Beside(s, t)
             /\ t.cells = Blanked(s.cells,
                                  Before(x, last) \ Before(s.cursor.x, s.cursor.y),
                                  Ink(s, Space))
  <1> DEFINE turn == BlankingTurns(s, n)
  <1>1. /\ turn[0] = s /\ turn[n] = Blanks(s, n)
        /\ \A k \in 0 .. n : turn[k] \in Screens
        /\ \A k \in 1 .. n : turn[k] = RawPutchar(turn[k - 1], Space)
    BY Blanking
  <1> HIDE DEF turn
  <1> DEFINE a == s.cursor.x
             y == s.cursor.y
             ink == Ink(s, Space)
             At(k, c, l) == /\ k = (l - y) * Cols + c - a
                            /\ turn[k].cursor = [x |-> c, y |-> l]
                            /\ turn[k].cells = Blanked(s.cells, Before(c, l) \ Before(a, y), ink)
             Right(k) == /\ turn[k] \in Screens /\ Beside(s, turn[k])
                         /\ \E c \in 0 .. Cols, l \in y .. last : At(k, c, l)
             S == {k \in 0 .. n : Right(k)}
  <1>2. a \in Nat /\ y \in Nat /\ s.bottom \in Int /\ s.cells \in [Positions -> Cells]
        /\ s.cursor = [x |-> a, y |-> y] /\ a \in 0 .. Cols /\ y \in y .. last
    BY Sizes DEF Screens
  <1>3. 0 \in S
    <2>1. Blanked(s.cells, Before(a, y) \ Before(a, y), ink) = s.cells
      BY <1>2, BlankedNone
    <2>2. 0 = (y - y) * Cols + a - a
      BY <1>2, Sizes
    <2>3. At(0, a, y)
      BY <1>1, <1>2, <2>1, <2>2
    <2>4. Right(0)
      <3> HIDE DEF At
      <3> QED
        BY <1>1, <1>2, <2>3, Zenon DEF Beside
    <2>5. 0 \in 0 .. n
      OBVIOUS
    <2> HIDE DEF Right
    <2> QED
      BY <2>4, <2>5
  <1> HIDE DEF a, y, ink
  <1>4. ASSUME NEW k \in 1 .. n, k - 1 \in S PROVE k \in S
    <2> DEFINE t == turn[k - 1]
    <2>1. PICK c \in 0 .. Cols, l \in y .. last : At(k - 1, c, l)
      BY <1>4
    <2>2. /\ t \in Screens /\ Beside(s, t) /\ t.cursor = [x |-> c, y |-> l]
          /\ t.cells = Blanked(s.cells, Before(c, l) \ Before(a, y), ink)
          /\ k - 1 = (l - y) * Cols + c - a
      BY <1>4, <2>1
    <2>3. turn[k] = RawPutchar(t, Space)
      BY <1>1
    <2> HIDE DEF t
    <2>4. Ink(t, Space) = ink
      BY <2>2 DEF Ink, Beside, ink
    <2>5. t.cursor.x = c /\ t.cursor.y = l /\ c \in Nat /\ l \in Nat /\ Cols \in Nat \ {0}
      BY <1>2, <2>2, Sizes
    <2>6. /\ l - y \in Nat /\ last - y \in Nat /\ (l - y) * Cols \in Nat
          /\ ((l - y) + 1) * Cols = (l - y) * Cols + Cols
          /\ l < last => (l - y) * Cols + Cols <= (last - y) * Cols
          /\ (last - y) * Cols \in Nat
      <3>1. l - y \in Nat /\ last - y \in Nat /\ (l < last => l - y < last - y)
        BY <1>2
      <3> QED
        BY <3>1, LinesAdd
    <2>7. n = (last - y) * Cols + x - a
      BY DEF a, y
    <2>8. ASSUME c < Cols PROVE Right(k)
      <3>1. ~Wraps(t)
        BY <2>5, <2>8 DEF Wraps
      <3>2. /\ turn[k] \in Screens /\ Beside(t, turn[k])
            /\ turn[k].cursor = [x |-> c + 1, y |-> l]
            /\ turn[k].cells = PutAt(t.cells, <<c, l>>, ink)
        BY <2>2, <2>3, <2>4, <2>5, <3>1, Typed, Sizes
      <3>3. turn[k].cells = Blanked(s.cells, Before(c + 1, l) \ Before(a, y), ink)
        <4>1. ASSUME NEW q \in Positions
              PROVE  q \in Before(c + 1, l) \ Before(a, y)
                       <=> q \in Before(c, l) \ Before(a, y) \/ q = <<c, l>>
          <5>1. q = <<q[1], q[2]>> /\ q[1] \in Int /\ q[2] \in Int
            BY PositionIs
          <5>2. q = <<c, l>> <=> q[1] = c /\ q[2] = l
            BY <5>1
          <5>3. q[1] = c /\ q[2] = l => ~(q[2] < y \/ (q[2] = y /\ q[1] < a))
            <6>1. l = y => c >= a
              <7>1. l = y => (l - y) * Cols = 0
                BY <1>2, <2>5
              <7> QED
                BY <1>2, <2>2, <2>5, <7>1
            <6> QED
              BY <1>2, <5>1, <6>1
          <5>4. q[2] < l \/ (q[2] = l /\ q[1] < c + 1)
                  <=> q[2] < l \/ (q[2] = l /\ q[1] < c) \/ (q[2] = l /\ q[1] = c)
            BY <5>1, <2>5
          <5> QED
            BY <5>2, <5>3, <5>4 DEF Before
        <4> QED
          BY <2>2, <3>2, <4>1, BlankedMore
      <3>4. k = (l - y) * Cols + (c + 1) - a /\ c + 1 \in 0 .. Cols
        BY <1>2, <2>2, <2>5, <2>6, <2>8
      <3>5. At(k, c + 1, l)
        BY <3>2, <3>3, <3>4
      <3>6. Beside(s, turn[k])
        BY <2>2, <3>2 DEF Beside
      <3>7. \E d \in 0 .. Cols, m \in y .. last : At(k, d, m)
        <4> HIDE DEF At
        <4> QED
          BY <3>4, <3>5
      <3> QED
        BY <3>2, <3>6, <3>7, Zenon
    <2>9. ASSUME c >= Cols PROVE Right(k)
      <3>1. c = Cols /\ l < last /\ l + 1 \in y .. last
        <4>1. c = Cols
          BY <2>9, <2>5
        <4>2. l # last
          BY <1>2, <2>2, <2>5, <2>6, <2>7, <4>1
        <4> QED
          <5>1. l \in Int /\ last \in Int /\ y \in Int /\ y <= l /\ l <= last
            BY <1>2
          <5> QED
            BY <4>1, <4>2, <5>1
      <3>2. t.bottom = s.bottom
        BY <2>2 DEF Beside
      <3>3. Wraps(t) /\ l + 1 # t.bottom /\ WrapsTo(t) = l + 1
        BY <1>2, <2>5, <3>1, <3>2 DEF Wraps, WrapsTo, Clamp
      <3>4. /\ turn[k] \in Screens /\ Beside(t, turn[k])
            /\ turn[k].cursor = [x |-> 1, y |-> l + 1]
            /\ turn[k].cells = PutAt(t.cells, <<0, l + 1>>, ink)
        BY <2>2, <2>3, <2>4, <2>5, <3>3, TypedWrapped, Sizes
      <3>5. turn[k].cells = Blanked(s.cells, Before(1, l + 1) \ Before(a, y), ink)
        <4>1. ASSUME NEW q \in Positions
              PROVE  q \in Before(1, l + 1) \ Before(a, y)
                       <=> q \in Before(c, l) \ Before(a, y) \/ q = <<0, l + 1>>
          <5>1. q = <<q[1], q[2]>> /\ q[1] \in 0 .. Cols - 1 /\ q[2] \in Int
            BY PositionIs
          <5>2. q = <<0, l + 1>> <=> q[1] = 0 /\ q[2] = l + 1
            BY <5>1
          <5>3. q[1] = 0 /\ q[2] = l + 1 => ~(q[2] < y \/ (q[2] = y /\ q[1] < a))
            BY <1>2, <2>5, <5>1
          <5>4. q[2] < l + 1 \/ (q[2] = l + 1 /\ q[1] < 1)
                  <=> q[2] < l \/ (q[2] = l /\ q[1] < c) \/ (q[2] = l + 1 /\ q[1] = 0)
            BY <2>5, <3>1, <5>1
          <5> QED
            BY <5>2, <5>3, <5>4 DEF Before
        <4> QED
          BY <2>2, <3>4, <4>1, BlankedMore
      <3>6. k = ((l + 1) - y) * Cols + 1 - a /\ 1 \in 0 .. Cols
        <4>1. (l + 1) - y = (l - y) + 1
          BY <1>2, <2>5
        <4> QED
          BY <1>2, <2>2, <2>5, <2>6, <3>1, <4>1
      <3>7. At(k, 1, l + 1)
        BY <3>4, <3>5, <3>6
      <3>8. Beside(s, turn[k])
        BY <2>2, <3>4 DEF Beside
      <3>9. \E d \in 0 .. Cols, m \in y .. last : At(k, d, m)
        <4> HIDE DEF At
        <4> QED
          BY <3>1, <3>6, <3>7
      <3> QED
        BY <3>4, <3>8, <3>9, Zenon
    <2>10. c < Cols \/ c >= Cols
      BY <2>5
    <2>11. Right(k)
      BY <2>8, <2>9, <2>10, Zenon
    <2>12. k \in 0 .. n
      OBVIOUS
    <2> HIDE DEF Right
    <2> QED
      BY <2>11, <2>12
  <1> HIDE DEF S
  <1>5. \A k \in 0 .. n : k \in S
    BY <1>3, <1>4, ByTurns
  <1>6. n \in S
    BY <1>5
  <1>7. PICK c \in 0 .. Cols, l \in y .. last : At(n, c, l)
    BY <1>6 DEF S
  <1>8. c = x /\ l = last
    <2>1. n = (last - y) * Cols + x - a /\ n = (l - y) * Cols + c - a
      BY <1>7 DEF a, y
    <2>2. /\ (l - y) * Cols \in Nat /\ (last - y) * Cols \in Nat
          /\ l < last => (l - y) * Cols + Cols <= (last - y) * Cols
      <3>1. l - y \in Nat /\ last - y \in Nat /\ (l < last => l - y < last - y)
        BY <1>2
      <3> QED
        BY <3>1, LinesAdd
    <2>3. l = last
      BY <1>2, <2>1, <2>2, Sizes
    <2> QED
      BY <1>2, <2>1, <2>2, <2>3, Sizes
  <1>9. turn[n] \in Screens /\ Beside(s, turn[n])
    BY <1>6 DEF S
  <1>10. turn[n].cells = Blanked(s.cells, Before(x, last) \ Before(a, y), ink)
    BY <1>7, <1>8
  <1> QED
    BY <1>1, <1>9, <1>10 DEF a, y, ink

-----------------------------------------------------------------------------
(* What the loops do: lines.                                                 *)

\* Of the lines first .. last, each shows what the one n below it did.
Rolled(cells, first, last, n, ink) ==
  [p \in Positions |->
     IF p[2] \notin first .. last THEN cells[p]
     ELSE IF p[2] + n \in first .. last THEN cells[<<p[1], p[2] + n>>] ELSE ink]

LEMMA RolledNone ==
  ASSUME NEW cells \in [Positions -> Cells], NEW first \in Nat, NEW last \in Int, NEW ink
  PROVE  Rolled(cells, first, last, 0, ink) = cells
  <1>1. ASSUME NEW p \in Positions PROVE p[2] + 0 = p[2] /\ p = <<p[1], p[2]>>
    BY PositionIs
  <1>2. \A p \in Positions : p = <<p[1], p[2] + 0>> /\ p[2] + 0 = p[2]
    BY <1>1
  <1>3. Rolled(cells, first, last, 0, ink) = [p \in Positions |-> cells[p]]
    BY <1>2, Zenon DEF Rolled
  <1> QED
    BY <1>3

LEMMA RolledUp ==
  ASSUME NEW cells, NEW first \in Nat, NEW last \in 0 .. Rows - 1, first <= last,
         NEW n \in Nat, NEW ink
  PROVE  Up(Rolled(cells, first, last, n, ink), first, last, ink)
           = Rolled(cells, first, last, n + 1, ink)
  <1> DEFINE old == Rolled(cells, first, last, n, ink)
  <1>1. ASSUME NEW p \in Positions
        PROVE  (IF p[2] = last THEN ink
                ELSE IF p[2] \in first .. last - 1 THEN old[<<p[1], p[2] + 1>>] ELSE old[p])
               = IF p[2] \notin first .. last THEN cells[p]
                 ELSE IF p[2] + (n + 1) \in first .. last
                   THEN cells[<<p[1], p[2] + (n + 1)>>] ELSE ink
    <2>1. p[1] \in 0 .. Cols - 1 /\ p[2] \in 0 .. Rows - 1 /\ p[2] \in Int
      BY PositionIs, Sizes
    <2>2. CASE p[2] = last
      <3>1. p[2] \in first .. last /\ p[2] + (n + 1) \notin first .. last
        BY <2>1, <2>2
      <3> HIDE DEF old
      <3> QED
        BY <2>2, <3>1
    <2>3. CASE p[2] \in first .. last - 1
      <3> DEFINE q == <<p[1], p[2] + 1>>
      <3>1. /\ q \in Positions /\ q[1] = p[1] /\ q[2] = p[2] + 1
            /\ q[2] \in first .. last /\ q[2] + n = p[2] + (n + 1)
        BY <2>1, <2>3, PositionIs, Sizes
      <3>2. p[2] # last /\ p[2] \in first .. last
        BY <2>1, <2>3
      <3>3. old[q] = IF q[2] + n \in first .. last THEN cells[<<q[1], q[2] + n>>] ELSE ink
        BY <3>1, Zenon DEF Rolled
      <3> HIDE DEF old
      <3> QED
        BY <2>3, <3>1, <3>2, <3>3
    <2>4. CASE p[2] # last /\ p[2] \notin first .. last - 1
      <3>1. p[2] \notin first .. last
        BY <2>1, <2>4
      <3>2. old[p] = cells[p]
        BY <3>1, Zenon DEF Rolled
      <3> HIDE DEF old
      <3> QED
        BY <2>4, <3>1, <3>2
    <2> QED
      BY <2>2, <2>3, <2>4, Zenon
  <1> HIDE DEF old
  <1> QED
    BY <1>1, Zenon DEF Up, Rolled, old

LEMMA RolledDown ==
  ASSUME NEW cells, NEW first \in Nat, NEW last \in 0 .. Rows - 1, first <= last,
         NEW n \in Nat, NEW ink
  PROVE  Down(Rolled(cells, first, last, 0 - n, ink), first, last, ink)
           = Rolled(cells, first, last, 0 - (n + 1), ink)
  <1> DEFINE old == Rolled(cells, first, last, 0 - n, ink)
  <1>1. ASSUME NEW p \in Positions
        PROVE  (IF p[2] = first THEN ink
                ELSE IF p[2] \in first + 1 .. last THEN old[<<p[1], p[2] - 1>>] ELSE old[p])
               = IF p[2] \notin first .. last THEN cells[p]
                 ELSE IF p[2] + (0 - (n + 1)) \in first .. last
                   THEN cells[<<p[1], p[2] + (0 - (n + 1))>>] ELSE ink
    <2>1. p[1] \in 0 .. Cols - 1 /\ p[2] \in 0 .. Rows - 1 /\ p[2] \in Int
      BY PositionIs, Sizes
    <2>2. CASE p[2] = first
      <3>1. p[2] \in first .. last /\ p[2] + (0 - (n + 1)) \notin first .. last
        BY <2>1, <2>2
      <3> HIDE DEF old
      <3> QED
        BY <2>2, <3>1
    <2>3. CASE p[2] \in first + 1 .. last
      <3> DEFINE q == <<p[1], p[2] - 1>>
      <3>1. /\ q \in Positions /\ q[1] = p[1] /\ q[2] = p[2] - 1
            /\ q[2] \in first .. last /\ q[2] + (0 - n) = p[2] + (0 - (n + 1))
        BY <2>1, <2>3, PositionIs, Sizes
      <3>2. p[2] # first /\ p[2] \in first .. last
        BY <2>1, <2>3
      <3>3. old[q] = IF q[2] + (0 - n) \in first .. last
                       THEN cells[<<q[1], q[2] + (0 - n)>>] ELSE ink
        BY <3>1, Zenon DEF Rolled
      <3> HIDE DEF old
      <3> QED
        BY <2>3, <3>1, <3>2, <3>3
    <2>4. CASE p[2] # first /\ p[2] \notin first + 1 .. last
      <3>1. p[2] \notin first .. last
        BY <2>1, <2>4
      <3>2. old[p] = cells[p]
        BY <3>1, Zenon DEF Rolled
      <3> HIDE DEF old
      <3> QED
        BY <2>4, <3>1, <3>2
    <2> QED
      BY <2>2, <2>3, <2>4, Zenon
  <1> HIDE DEF old
  <1> QED
    BY <1>1, Zenon DEF Down, Rolled, old

\* M scrolls the region as often as it says.
LEMMA ScrolledOften ==
  ASSUME NEW s \in Screens, s.top < s.bottom, NEW n \in Nat
  PROVE  LET t == Loop(n, LAMBDA r, k : Scroll(r), s)
         IN  /\ t \in Screens /\ SameBut(s, t)
             /\ t.cells = Rolled(s.cells, s.top, s.bottom - 1, n, Ink(s, Space))
  <1> DEFINE turn == ScrollingTurns(s, n)
  <1>1. /\ turn[0] = s /\ turn[n] = Loop(n, LAMBDA r, k : Scroll(r), s)
        /\ \A k \in 0 .. n : turn[k] \in Screens
        /\ \A k \in 1 .. n : turn[k] = Scroll(turn[k - 1])
    BY Scrolling
  <1> HIDE DEF turn
  <1> DEFINE first == s.top
             last == s.bottom - 1
             ink == Ink(s, Space)
             Right(k) == /\ turn[k] \in Screens /\ SameBut(s, turn[k])
                         /\ turn[k].cells = Rolled(s.cells, first, last, k, ink)
             S == {k \in 0 .. n : Right(k)}
  <1>2. /\ first \in Nat /\ last \in 0 .. Rows - 1 /\ first <= last
        /\ s.cells \in [Positions -> Cells]
    BY Sizes DEF Screens
  <1> HIDE DEF first, last
  <1>3. 0 \in S
    <2>1. Rolled(s.cells, first, last, 0, ink) = s.cells
      BY <1>2, RolledNone
    <2>2. Right(0)
      BY <1>1, <2>1 DEF SameBut, Beside
    <2> QED
      BY <2>2
  <1> HIDE DEF ink
  <1>4. ASSUME NEW k \in 1 .. n, k - 1 \in S PROVE k \in S
    <2> DEFINE t == turn[k - 1]
    <2>1. t \in Screens /\ SameBut(s, t) /\ t.cells = Rolled(s.cells, first, last, k - 1, ink)
      BY <1>4
    <2>2. turn[k] = Scroll(t)
      BY <1>1
    <2> HIDE DEF t
    <2>3. Ink(t, Space) = ink /\ t.top = first /\ t.bottom - 1 = last
      BY <2>1 DEF Ink, SameBut, Beside, first, last, ink
    <2>4. /\ turn[k] \in Screens /\ SameBut(t, turn[k])
          /\ turn[k].cells = Up(t.cells, first, last, ink)
      BY <2>1, <2>2, <2>3, Scrolls, Zenon
    <2>5. k - 1 \in Nat /\ (k - 1) + 1 = k
      OBVIOUS
    <2>6. Up(t.cells, first, last, ink) = Rolled(s.cells, first, last, k, ink)
      BY <1>2, <2>1, <2>5, RolledUp
    <2>7. SameBut(s, turn[k])
      BY <2>1, <2>4 DEF SameBut, Beside
    <2>8. Right(k)
      BY <2>4, <2>6, <2>7, Zenon
    <2> QED
      BY <2>8
  <1> HIDE DEF S
  <1>5. \A k \in 0 .. n : k \in S
    BY <1>3, <1>4, ByTurns
  <1>6. n \in S
    BY <1>5
  <1>7. Right(n)
    BY <1>6 DEF S
  <1> QED
    BY <1>1, <1>7, Zenon DEF first, last, ink

\* L opens lines, at the top of a region that begins at the cursor.
LEMMA RevscrolledOften ==
  ASSUME NEW s \in Screens, NEW n \in Nat
  PROVE  LET t == Loop(n, LAMBDA r, k : Revscroll(r), s)
         IN  /\ t \in Screens /\ SameBut(s, t)
             /\ s.top < s.bottom =>
                  t.cells = Rolled(s.cells, s.top, s.bottom - 1, 0 - n, Ink(s, Space))
  <1> DEFINE turn == RevscrollingTurns(s, n)
  <1>1. /\ turn[0] = s /\ turn[n] = Loop(n, LAMBDA r, k : Revscroll(r), s)
        /\ \A k \in 0 .. n : turn[k] \in Screens
        /\ \A k \in 1 .. n : turn[k] = Revscroll(turn[k - 1])
    BY Revscrolling
  <1> HIDE DEF turn
  <1> DEFINE first == s.top
             last == s.bottom - 1
             ink == Ink(s, Space)
             Right(k) == /\ turn[k] \in Screens /\ SameBut(s, turn[k])
                         /\ first <= last =>
                              turn[k].cells = Rolled(s.cells, first, last, 0 - k, ink)
             S == {k \in 0 .. n : Right(k)}
  <1>2. /\ first \in Nat /\ last \in Int /\ (first <= last => last \in 0 .. Rows - 1)
        /\ (s.top < s.bottom => first <= last)
        /\ s.cells \in [Positions -> Cells]
    BY Sizes DEF Screens
  <1> HIDE DEF first, last
  <1>3. 0 \in S
    <2>1. Rolled(s.cells, first, last, 0 - 0, ink) = s.cells
      <3>1. 0 - 0 = 0
        OBVIOUS
      <3> QED
        BY <1>2, <3>1, RolledNone
    <2>2. Right(0)
      BY <1>1, <2>1 DEF SameBut, Beside
    <2> QED
      BY <2>2
  <1> HIDE DEF ink
  <1>4. ASSUME NEW k \in 1 .. n, k - 1 \in S PROVE k \in S
    <2> DEFINE t == turn[k - 1]
    <2>1. /\ t \in Screens /\ SameBut(s, t)
          /\ first <= last => t.cells = Rolled(s.cells, first, last, 0 - (k - 1), ink)
      BY <1>4
    <2>2. turn[k] = Revscroll(t)
      BY <1>1
    <2> HIDE DEF t
    <2>3. Ink(t, Space) = ink /\ t.top = first /\ t.bottom - 1 = last
      BY <2>1 DEF Ink, SameBut, Beside, first, last, ink
    <2>4. /\ turn[k] \in Screens /\ SameBut(t, turn[k])
          /\ turn[k].cells = Down(t.cells, first, last, ink)
      BY <2>1, <2>2, <2>3, Revscrolls, Zenon
    <2>5. k - 1 \in Nat /\ (k - 1) + 1 = k
      OBVIOUS
    <2>6. ASSUME first <= last
          PROVE  Down(t.cells, first, last, ink) = Rolled(s.cells, first, last, 0 - k, ink)
      BY <1>2, <2>1, <2>5, <2>6, RolledDown
    <2>7. SameBut(s, turn[k])
      BY <2>1, <2>4 DEF SameBut, Beside
    <2>8. Right(k)
      BY <2>4, <2>6, <2>7, Zenon
    <2> QED
      BY <2>8
  <1> HIDE DEF S
  <1>5. \A k \in 0 .. n : k \in S
    BY <1>3, <1>4, ByTurns
  <1>6. n \in S
    BY <1>5
  <1>7. Right(n)
    BY <1>6 DEF S
  <1> QED
    BY <1>1, <1>2, <1>7, Zenon DEF first, last, ink

-----------------------------------------------------------------------------
(* What the loops do: characters of a line.                                  *)

\* Line y after k turns of MakeRoom: from the last column on, each shows what its
\* neighbour did.
Opened(cells, y, k) ==
  [p \in Positions |-> IF p[2] = y /\ p[1] > Cols - k THEN cells[<<p[1] - 1, p[2]>>]
                       ELSE cells[p]]

\* After k turns of DeleteCharacters at column a.
Closed(cells, y, a, v, k) ==
  [p \in Positions |-> IF p[2] = y /\ p[1] \in a .. a + k - 1
                         THEN cells[<<p[1] + v, p[2]>>] ELSE cells[p]]

\* After k turns of InsertCharacters.
Spread(cells, y, v, k, ink) ==
  [p \in Positions |-> IF p[2] = y /\ p[1] >= Cols - k
                         THEN IF p[1] - v >= Cols - k THEN cells[<<p[1] - v, p[2]>>]
                              ELSE ink
                       ELSE cells[p]]

LEMMA OpenedMore ==
  ASSUME NEW cells, NEW y \in 0 .. Rows - 1, NEW k \in 1 .. Cols
  PROVE  LET old == Opened(cells, y, k - 1)
         IN  /\ <<Cols - k, y>> \in Positions
             /\ PutAt(old, <<Cols - k + 1, y>>, old[<<Cols - k, y>>]) = Opened(cells, y, k)
  <1> DEFINE old == Opened(cells, y, k - 1)
             from == <<Cols - k, y>>
             to == <<Cols - k + 1, y>>
  <1>1. /\ from \in Positions /\ from[2] = y /\ ~(from[1] > Cols - (k - 1))
        /\ \A p \in Positions : p[1] \in Int /\ p[2] \in Int
    BY PositionIs, Sizes
  <1>2. old[from] = cells[from]
    BY <1>1, Zenon DEF Opened
  <1>3. ASSUME NEW p \in Positions
        PROVE  (IF p = to THEN cells[from] ELSE old[p])
               = IF p[2] = y /\ p[1] > Cols - k THEN cells[<<p[1] - 1, p[2]>>] ELSE cells[p]
    <2>1. p = <<p[1], p[2]>> /\ p[1] \in Int /\ p[2] \in Int
      BY PositionIs
    <2>2. CASE p = to
      <3>1. p[2] = y /\ p[1] > Cols - k /\ <<p[1] - 1, p[2]>> = from
        BY <2>1, <2>2, Sizes
      <3> QED
        BY <2>2, <3>1
    <2>3. CASE p # to
      <3>1. p[2] = y /\ p[1] > Cols - (k - 1) <=> p[2] = y /\ p[1] > Cols - k
        BY <2>1, <2>3, Sizes
      <3>2. old[p] = IF p[2] = y /\ p[1] > Cols - (k - 1) THEN cells[<<p[1] - 1, p[2]>>]
                     ELSE cells[p]
        BY Zenon DEF Opened
      <3> HIDE DEF old, to
      <3> QED
        BY <2>3, <3>1, <3>2, Zenon
    <2> QED
      BY <2>2, <2>3, Zenon
  <1> HIDE DEF old, from, to
  <1>4. PutAt(old, to, old[from]) = Opened(cells, y, k)
    BY <1>2, <1>3, Zenon DEF PutAt, Opened
  <1> QED
    BY <1>1, <1>4 DEF old, from, to

LEMMA ClosedMore ==
  ASSUME NEW cells, NEW y \in 0 .. Rows - 1, NEW a \in Nat, NEW v \in Nat,
         NEW k \in Nat, k > 0, a + v + k <= Cols
  PROVE  LET old == Closed(cells, y, a, v, k - 1)
         IN  /\ <<a + v + k - 1, y>> \in Positions
             /\ PutAt(old, <<(a + v + k - 1) - v, y>>, old[<<a + v + k - 1, y>>])
                  = Closed(cells, y, a, v, k)
  <1> DEFINE old == Closed(cells, y, a, v, k - 1)
             from == <<a + v + k - 1, y>>
             to == <<(a + v + k - 1) - v, y>>
  <1>1. /\ from \in Positions /\ from[2] = y /\ ~(from[1] \in a .. a + (k - 1) - 1)
        /\ \A p \in Positions : p[1] \in Int /\ p[2] \in Int
    BY PositionIs, Sizes
  <1>2. old[from] = cells[from]
    BY <1>1, Zenon DEF Closed
  <1>3. ASSUME NEW p \in Positions
        PROVE  (IF p = to THEN cells[from] ELSE old[p])
               = IF p[2] = y /\ p[1] \in a .. a + k - 1 THEN cells[<<p[1] + v, p[2]>>]
                 ELSE cells[p]
    <2>1. p = <<p[1], p[2]>> /\ p[1] \in Int /\ p[2] \in Int
      BY PositionIs
    <2>2. CASE p = to
      <3>1. p[2] = y /\ p[1] \in a .. a + k - 1 /\ <<p[1] + v, p[2]>> = from
        BY <2>1, <2>2, Sizes
      <3> QED
        BY <2>2, <3>1
    <2>3. CASE p # to
      <3>1. p[2] = y /\ p[1] \in a .. a + (k - 1) - 1
              <=> p[2] = y /\ p[1] \in a .. a + k - 1
        BY <2>1, <2>3, Sizes
      <3>2. old[p] = IF p[2] = y /\ p[1] \in a .. a + (k - 1) - 1
                       THEN cells[<<p[1] + v, p[2]>>] ELSE cells[p]
        BY Zenon DEF Closed
      <3> HIDE DEF old, to
      <3> QED
        BY <2>3, <3>1, <3>2, Zenon
    <2> QED
      BY <2>2, <2>3, Zenon
  <1> HIDE DEF old, from, to
  <1>4. PutAt(old, to, old[from]) = Closed(cells, y, a, v, k)
    BY <1>2, <1>3, Zenon DEF PutAt, Closed
  <1> QED
    BY <1>1, <1>4 DEF old, from, to

LEMMA SpreadMore ==
  ASSUME NEW cells, NEW y \in 0 .. Rows - 1, NEW v \in Nat, v > 0, NEW k \in 1 .. Cols,
         NEW ink
  PROVE  LET old == Spread(cells, y, v, k - 1, ink)
         IN  /\ <<Cols - k, y>> \in Positions
             /\ PutAt(PutAt(old, <<Cols - k + v, y>>, old[<<Cols - k, y>>]),
                      <<Cols - k, y>>, ink)
                  = Spread(cells, y, v, k, ink)
  <1> DEFINE old == Spread(cells, y, v, k - 1, ink)
             from == <<Cols - k, y>>
             to == <<Cols - k + v, y>>
  <1>1. /\ from \in Positions /\ from[2] = y /\ ~(from[1] >= Cols - (k - 1))
        /\ \A p \in Positions : p[1] \in Int /\ p[2] \in Int
    BY PositionIs, Sizes
  <1>2. old[from] = cells[from]
    BY <1>1, Zenon DEF Spread
  <1>3. ASSUME NEW p \in Positions
        PROVE  (IF p = from THEN ink ELSE IF p = to THEN cells[from] ELSE old[p])
               = IF p[2] = y /\ p[1] >= Cols - k
                   THEN IF p[1] - v >= Cols - k THEN cells[<<p[1] - v, p[2]>>] ELSE ink
                 ELSE cells[p]
    <2>1. p = <<p[1], p[2]>> /\ p[1] \in Int /\ p[2] \in Int
      BY PositionIs
    <2>2. CASE p = from
      <3>1. p[2] = y /\ p[1] >= Cols - k /\ ~(p[1] - v >= Cols - k)
        BY <2>1, <2>2, Sizes
      <3> QED
        BY <2>2, <3>1
    <2>3. CASE p = to
      <3>1. /\ p # from /\ p[2] = y /\ p[1] >= Cols - k /\ p[1] - v >= Cols - k
            /\ <<p[1] - v, p[2]>> = from
        BY <2>1, <2>3, Sizes
      <3> QED
        BY <2>3, <3>1
    <2>4. CASE p # from /\ p # to
      <3>1. /\ p[2] = y /\ p[1] >= Cols - (k - 1) <=> p[2] = y /\ p[1] >= Cols - k
            /\ p[2] = y => (p[1] - v >= Cols - (k - 1) <=> p[1] - v >= Cols - k)
        BY <2>1, <2>4, Sizes
      <3>2. old[p] = IF p[2] = y /\ p[1] >= Cols - (k - 1)
                       THEN IF p[1] - v >= Cols - (k - 1) THEN cells[<<p[1] - v, p[2]>>]
                            ELSE ink
                     ELSE cells[p]
        BY Zenon DEF Spread
      <3> HIDE DEF old, to, from
      <3> QED
        BY <2>4, <3>1, <3>2, Zenon
    <2> QED
      BY <2>2, <2>3, <2>4, Zenon
  <1> HIDE DEF old, from, to
  <1>4. PutAt(PutAt(old, to, old[from]), from, ink) = Spread(cells, y, v, k, ink)
    BY <1>2, <1>3, Zenon DEF PutAt, Spread
  <1> QED
    BY <1>1, <1>4 DEF old, from, to

\* Room is made from the cursor to the end of its line.
LEMMA RoomMade ==
  ASSUME NEW s \in Screens, screen \in Screens
  PROVE  LET t == MakeRoom(s)
         IN  t \in Screens /\ SameBut(s, t) /\ t.cells = Opened(s.cells, Y, Cols - X)
  <1> DEFINE n == Cols - X
             turn == MakingRoomTurns(s, n)
  <1>1. /\ n \in 1 .. Cols /\ n \in Nat /\ Y \in 0 .. Rows - 1
        /\ s.cells \in [Positions -> Cells]
    BY HereTyped, Sizes DEF Screens
  <1>2. MakeRoom(s) = Loop(n, LAMBDA t, k : MoveCharacter(t, Cols - k + 1, Y, Cols - k, Y), s)
    BY Zenon DEF MakeRoom
  <1> HIDE DEF n
  <1>3. /\ turn[0] = s /\ turn[n] = MakeRoom(s)
        /\ \A k \in 0 .. n : turn[k] \in Screens
        /\ \A k \in 1 .. n : turn[k] = MoveCharacter(turn[k - 1], Cols - k + 1, Y, Cols - k, Y)
    BY <1>1, <1>2, MakingRoom
  <1> HIDE DEF turn
  <1> DEFINE Right(k) == /\ turn[k] \in Screens /\ SameBut(s, turn[k])
                         /\ turn[k].cells = Opened(s.cells, Y, k)
             S == {k \in 0 .. n : Right(k)}
  <1>4. 0 \in S
    <2>1. \A p \in Positions : ~(p[1] > Cols - 0)
      BY PositionIs, Sizes
    <2>2. Opened(s.cells, Y, 0) = [p \in Positions |-> s.cells[p]]
      BY <2>1, Zenon DEF Opened
    <2>3. Opened(s.cells, Y, 0) = s.cells
      BY <1>1, <2>2
    <2>4. Right(0)
      BY <1>3, <2>3 DEF SameBut, Beside
    <2> QED
      BY <1>1, <2>4
  <1>5. ASSUME NEW k \in 1 .. n, k - 1 \in S PROVE k \in S
    <2> DEFINE t == turn[k - 1]
    <2>1. t \in Screens /\ SameBut(s, t) /\ t.cells = Opened(s.cells, Y, k - 1)
      BY <1>5
    <2>2. turn[k] = MoveCharacter(t, Cols - k + 1, Y, Cols - k, Y)
      BY <1>3
    <2> HIDE DEF t
    <2>3. k \in 1 .. Cols /\ Cols - k \in Int /\ Cols - k + 1 \in Int /\ Y \in Int
      BY <1>1, Sizes
    <2>4. <<Cols - k, Y>> \in Positions
      BY <1>1, <2>3, PositionIs, Sizes
    <2>5. /\ turn[k] \in Screens /\ SameBut(t, turn[k])
          /\ turn[k].cells = PutAt(t.cells, <<Cols - k + 1, Y>>, t.cells[<<Cols - k, Y>>])
      BY <2>1, <2>2, <2>3, <2>4, Moves
    <2>6. turn[k].cells = Opened(s.cells, Y, k)
      BY <1>1, <2>1, <2>3, <2>5, OpenedMore
    <2>7. SameBut(s, turn[k])
      BY <2>1, <2>5 DEF SameBut, Beside
    <2>8. Right(k)
      BY <2>5, <2>6, <2>7, Zenon
    <2> QED
      BY <2>8
  <1> HIDE DEF S
  <1>6. \A k \in 0 .. n : k \in S
    BY <1>1, <1>4, <1>5, ByTurns
  <1>7. n \in S
    BY <1>1, <1>6
  <1>8. Right(n)
    BY <1>7 DEF S
  <1> QED
    BY <1>3, <1>8, Zenon DEF n

\* What the loop of DeleteCharacters leaves, if any of the line is left.
LEMMA Shiftings ==
  ASSUME NEW s \in Screens, screen \in Screens, NEW v \in Nat, NEW n \in Nat
  PROVE  LET t == Loop(n, LAMBDA r, k : Shifted(r, X + v + k - 1, v), s)
         IN  /\ t \in Screens /\ SameBut(s, t)
             /\ n = Cols - X - v => t.cells = Closed(s.cells, Y, X, v, n)
  <1> DEFINE turn == DeletingTurns(s, n, v)
  <1>1. /\ X \in 0 .. Cols - 1 /\ X \in Nat /\ Y \in 0 .. Rows - 1 /\ Y \in Int
        /\ s.cells \in [Positions -> Cells]
    BY HereTyped, Sizes DEF Screens
  <1>3. /\ turn[0] = s /\ turn[n] = Loop(n, LAMBDA r, k : Shifted(r, X + v + k - 1, v), s)
        /\ \A k \in 0 .. n : turn[k] \in Screens
        /\ \A k \in 1 .. n : turn[k] = Shifted(turn[k - 1], X + v + k - 1, v)
    BY Deleting
  <1> HIDE DEF turn
  <1> DEFINE Right(k) == /\ turn[k] \in Screens /\ SameBut(s, turn[k])
                         /\ n = Cols - X - v => turn[k].cells = Closed(s.cells, Y, X, v, k)
             S == {k \in 0 .. n : Right(k)}
  <1>4. 0 \in S
    <2>1. \A p \in Positions : p[1] \notin X .. X + 0 - 1
      BY <1>1, PositionIs, Sizes
    <2>2. Closed(s.cells, Y, X, v, 0) = [p \in Positions |-> s.cells[p]]
      BY <2>1, Zenon DEF Closed
    <2>3. Closed(s.cells, Y, X, v, 0) = s.cells
      BY <1>1, <2>2
    <2>4. Right(0)
      BY <1>3, <2>3 DEF SameBut, Beside
    <2> QED
      BY <1>1, <2>4
  <1>5. ASSUME NEW k \in 1 .. n, k - 1 \in S PROVE k \in S
    <2> DEFINE t == turn[k - 1]
               c == X + v + k - 1
    <2>1. /\ t \in Screens /\ SameBut(s, t)
          /\ n = Cols - X - v => t.cells = Closed(s.cells, Y, X, v, k - 1)
      BY <1>5
    <2>2. turn[k] = MoveCharacter(t, c - v, Y, c, Y)
      BY <1>3 DEF Shifted
    <2> HIDE DEF t
    <2>3. c \in Int /\ c - v \in Int /\ k \in Nat /\ k > 0
      BY <1>1
    <2>5. /\ turn[k] \in Screens /\ SameBut(t, turn[k])
          /\ <<c, Y>> \in Positions =>
               turn[k].cells = PutAt(t.cells, <<c - v, Y>>, t.cells[<<c, Y>>])
      BY <1>1, <2>1, <2>2, <2>3, Moves
    <2>6. ASSUME n = Cols - X - v PROVE turn[k].cells = Closed(s.cells, Y, X, v, k)
      <3>1. X + v + k <= Cols
        BY <1>1, <2>6, Sizes
      <3>2. /\ <<c, Y>> \in Positions
            /\ PutAt(Closed(s.cells, Y, X, v, k - 1), <<c - v, Y>>,
                     Closed(s.cells, Y, X, v, k - 1)[<<c, Y>>])
                 = Closed(s.cells, Y, X, v, k)
        BY <1>1, <2>3, <3>1, ClosedMore
      <3> HIDE DEF c
      <3> QED
        BY <2>1, <2>5, <2>6, <3>2
    <2>7. SameBut(s, turn[k])
      BY <2>1, <2>5 DEF SameBut, Beside
    <2>8. Right(k)
      BY <2>5, <2>6, <2>7, Zenon
    <2> QED
      BY <2>8
  <1> HIDE DEF S
  <1>6. \A k \in 0 .. n : k \in S
    BY <1>4, <1>5, ByTurns
  <1>7. n \in S
    BY <1>6
  <1>8. Right(n)
    BY <1>7 DEF S
  <1> QED
    BY <1>3, <1>8, Zenon

\* What the loop of InsertCharacters leaves.
LEMMA Insertings ==
  ASSUME NEW s \in Screens, screen \in Screens, ~s.autoscroll, NEW v \in Nat
  PROVE  LET r == Loop(Cols - X, LAMBDA t, k : Inserted(t, Cols - k, v), s)
         IN  /\ r \in Screens /\ Beside(s, r)
             /\ v > 0 => r.cells = Spread(s.cells, Y, v, Cols - X, Ink(s, Space))
  <1>0. PICK n \in Nat : n = Cols - X
    BY HereTyped, Sizes
  <1>2. Loop(Cols - X, LAMBDA t, k : Inserted(t, Cols - k, v), s)
          = Loop(n, LAMBDA t, k : Inserted(t, Cols - k, v), s)
    BY <1>0, Zenon
  <1> DEFINE turn == InsertingTurns(s, n, v)
             ink == Ink(s, Space)
  <1>1. /\ n \in 1 .. Cols /\ n \in Nat /\ Y \in 0 .. Rows - 1 /\ Y \in Int
        /\ s.cells \in [Positions -> Cells]
    BY <1>0, HereTyped, Sizes DEF Screens
  <1>3. /\ turn[0] = s /\ turn[n] = Loop(n, LAMBDA t, k : Inserted(t, Cols - k, v), s)
        /\ \A k \in 0 .. n : turn[k] \in Screens
        /\ \A k \in 1 .. n : turn[k] = Inserted(turn[k - 1], Cols - k, v)
    BY Inserting
  <1> HIDE DEF turn
  <1> DEFINE Right(k) == /\ turn[k] \in Screens /\ Beside(s, turn[k])
                         /\ v > 0 => turn[k].cells = Spread(s.cells, Y, v, k, ink)
             S == {k \in 0 .. n : Right(k)}
  <1>4. 0 \in S
    <2>1. \A p \in Positions : ~(p[1] >= Cols - 0)
      BY PositionIs, Sizes
    <2>2. Spread(s.cells, Y, v, 0, ink) = [p \in Positions |-> s.cells[p]]
      BY <2>1, Zenon DEF Spread
    <2>3. Spread(s.cells, Y, v, 0, ink) = s.cells
      BY <1>1, <2>2
    <2>4. Right(0)
      BY <1>3, <2>3 DEF Beside
    <2> QED
      BY <1>1, <2>4
  <1> HIDE DEF ink
  <1>5. ASSUME NEW k \in 1 .. n, k - 1 \in S PROVE k \in S
    <2> DEFINE t == turn[k - 1]
               c == Cols - k
               m == MoveCharacter(t, c + v, Y, c, Y)
               u == SetCursorPos(m, c, Y)
    <2>1. /\ t \in Screens /\ Beside(s, t)
          /\ v > 0 => t.cells = Spread(s.cells, Y, v, k - 1, ink)
      BY <1>5
    <2>2. turn[k] = RawPutchar(u, Space)
      BY <1>3, Zenon DEF Inserted
    <2> HIDE DEF t
    <2>3. /\ k \in 1 .. Cols /\ c \in 0 .. Cols - 1 /\ c \in Int /\ c + v \in Int
          /\ <<c, Y>> \in Positions
      BY <1>1, PositionIs, Sizes
    <2>4. /\ m \in Screens /\ SameBut(t, m)
          /\ m.cells = PutAt(t.cells, <<c + v, Y>>, t.cells[<<c, Y>>])
      BY <1>1, <2>1, <2>3, Moves
    <2> HIDE DEF m
    <2>5. /\ u \in Screens /\ u.cells = m.cells /\ Beside(m, u)
          /\ u.cursor = [x |-> c, y |-> Y]
      <3>1. Clamp(c, Cols) = c /\ Clamp(Y, Rows) = Y
        BY <1>1, <2>3, Clamped, Sizes
      <3>2. LET r == SetCursorPos(m, c, Y)
            IN  /\ r \in Screens /\ r.cells = m.cells /\ Beside(m, r)
                /\ r.cursor = [x |-> Clamp(c, Cols), y |-> Clamp(Y, Rows)]
        BY <1>1, <2>3, <2>4, CursorGoes, Zenon
      <3> QED
        BY <3>1, <3>2, Zenon
    <2> HIDE DEF u
    <2>6. Beside(s, u)
      BY <2>1, <2>4, <2>5 DEF SameBut, Beside
    <2>7. Ink(u, Space) = ink /\ ~Wraps(u)
      <3>1. u.text = s.text
        BY <2>6 DEF Beside
      <3>2. u.cursor.x = c /\ ~(c >= Cols)
        BY <2>3, <2>5, Sizes
      <3> QED
        BY <3>1, <3>2, Zenon DEF Ink, Wraps, ink
    <2>8. /\ turn[k] \in Screens /\ Beside(u, turn[k])
          /\ turn[k].cells = PutAt(u.cells, <<c, Y>>, ink)
      <3>1. u.cursor.x = c /\ u.cursor.y = Y
        BY <2>5
      <3>2. LET r == RawPutchar(u, Space)
            IN  /\ r \in Screens /\ Beside(u, r)
                /\ r.cells = PutAt(u.cells, <<u.cursor.x, u.cursor.y>>, Ink(u, Space))
        BY <2>5, <2>7, Typed, Sizes
      <3> QED
        BY <2>2, <2>7, <3>1, <3>2, Zenon
    <2>9. v > 0 => turn[k].cells = Spread(s.cells, Y, v, k, ink)
      <3> DEFINE old == Spread(s.cells, Y, v, k - 1, ink)
      <3>1. v > 0 => PutAt(PutAt(old, <<c + v, Y>>, old[<<c, Y>>]), <<c, Y>>, ink)
                       = Spread(s.cells, Y, v, k, ink)
        BY <1>1, <2>3, SpreadMore
      <3> HIDE DEF old
      <3>2. v > 0 => t.cells = old
        BY <2>1 DEF old
      <3> QED
        BY <2>4, <2>5, <2>8, <3>1, <3>2, Zenon
    <2>10. Beside(s, turn[k])
      BY <2>6, <2>8 DEF Beside
    <2>11. Right(k)
      BY <2>8, <2>9, <2>10, Zenon
    <2> QED
      BY <2>11
  <1> HIDE DEF S
  <1>6. \A k \in 0 .. n : k \in S
    BY <1>1, <1>4, <1>5, ByTurns
  <1>7. n \in S
    BY <1>1, <1>6
  <1>8. Right(n)
    BY <1>7 DEF S
  <1> QED
    BY <1>0, <1>2, <1>3, <1>8, Zenon DEF ink

-----------------------------------------------------------------------------
(* Types.                                                                    *)

Cursors == [x : 0 .. Cols, y : 0 .. Lines - 1]
Places  == [x : 0 .. Cols - 1, y : 0 .. Rows - 1]

Region(s) ==
  \/ s.top = 0 /\ s.bottom = Rows
  \/ s.top >= 0 /\ s.bottom <= Rows /\ s.top < s.bottom - 1

\* A screen between two functions, or between two calls of one.
Proper(s) == s \in Screens /\ s.cursor \in Cursors /\ Region(s)

\* TypeOK with the fields the type invariant leaves to the reader; what ESC [ s
\* saves is a place on the screen.
Inv == TypeOK /\ screen \in Screens /\ savedCursor \in Places

LEMMA LinesSize == Lines \in Nat \ {0} /\ Rows <= Lines /\ Cols <= Lines
  BY Sizes DEF Lines

LEMMA ProperScreen ==
  ASSUME Inv
  PROVE  /\ Proper(screen) /\ screen \in Screens /\ screen.autoscroll
         /\ savedCursor \in Cursors /\ savedCursor \in Places /\ savedState \in Cursors
         /\ X \in 0 .. Cols - 1 /\ X \in Nat /\ Y \in 0 .. Rows - 1 /\ Y \in Nat
  <1>1. X \in 0 .. Cols - 1 /\ Y \in 0 .. Rows - 1
    BY HereTyped DEF Inv
  <1> QED
    BY <1>1, Sizes DEF Inv, TypeOK, Proper, Cursors, Region

LEMMA RegionSize ==
  ASSUME NEW s \in Screens, Region(s)
  PROVE  /\ s.top \in Nat /\ s.bottom \in Nat /\ s.top < s.bottom /\ s.bottom <= Rows
         /\ s.top \in 0 .. Rows - 1 /\ s.bottom - 1 \in 0 .. Rows - 1
  BY Sizes DEF Screens, Region

LEMMA RegionStays ==
  ASSUME NEW s, Region(s), NEW t, Beside(s, t)
  PROVE  Region(t)
  BY DEF Region, Beside

LEMMA CursorProper ==
  ASSUME NEW s \in Screens, Region(s), NEW x \in Int, NEW y \in Int
  PROVE  Proper(SetCursorPos(s, x, y))
  <1> DEFINE t == SetCursorPos(s, x, y)
  <1>1. /\ t \in Screens /\ Beside(s, t)
        /\ t.cursor = [x |-> Clamp(x, Cols), y |-> Clamp(y, Rows)]
    BY CursorGoes, Zenon
  <1>2. Clamp(x, Cols) \in 0 .. Cols /\ Clamp(y, Rows) \in 0 .. Lines - 1
    BY Clamped, LinesSize, Sizes
  <1> HIDE DEF t
  <1>3. Region(t)
    BY <1>1, RegionStays
  <1>4. t.cursor \in Cursors
    BY <1>1, <1>2 DEF Cursors
  <1> QED
    BY <1>1, <1>3, <1>4 DEF Proper, t

LEMMA SameProper ==
  ASSUME NEW s, Proper(s), NEW t \in Screens, SameBut(s, t)
  PROVE  Proper(t)
  BY RegionStays DEF Proper, SameBut

\* scroll_enabled is on when a character is printed.
LEMMA TypedProper ==
  ASSUME NEW s, Proper(s), s.autoscroll, NEW g \in Glyphs
  PROVE  LET t == RawPutchar(s, g) IN Proper(t) /\ t.autoscroll
  <1> DEFINE t == RawPutchar(s, g)
  <1>1. s \in Screens /\ s.cursor.x \in 0 .. Cols /\ s.cursor.y \in 0 .. Lines - 1
    BY DEF Proper, Cursors
  <1>2. CASE Wraps(s)
    <2>1. /\ t \in Screens /\ Beside(s, t) /\ WrapsTo(s) \in 0 .. Cols - 1
          /\ t.cursor = [x |-> 1, y |-> WrapsTo(s)]
      BY <1>1, <1>2, TypedWrapped, Zenon
    <2>2. 1 \in 0 .. Cols /\ WrapsTo(s) \in 0 .. Lines - 1
      BY <2>1, LinesSize, Sizes
    <2> HIDE DEF t
    <2>3. t.cursor \in Cursors
      BY <2>1, <2>2 DEF Cursors
    <2>4. Region(t)
      BY <2>1, RegionStays DEF Proper
    <2> QED
      BY <2>1, <2>3, <2>4 DEF Proper, Beside, t
  <1>3. CASE ~Wraps(s)
    <2>1. /\ t \in Screens /\ Beside(s, t)
          /\ t.cursor = [x |-> s.cursor.x + 1, y |-> s.cursor.y]
      BY <1>1, <1>3, Typed, Zenon
    <2>2. s.cursor.x + 1 \in 0 .. Cols
      BY <1>1, <1>3, Sizes DEF Wraps
    <2> HIDE DEF t
    <2>3. t.cursor \in Cursors
      BY <1>1, <2>1, <2>2 DEF Cursors
    <2>4. Region(t)
      BY <2>1, RegionStays DEF Proper
    <2> QED
      BY <2>1, <2>3, <2>4 DEF Proper, Beside, t
  <1> QED
    BY <1>2, <1>3

LEMMA BlanksTyped ==
  ASSUME NEW s \in Screens, NEW n \in Nat
  PROVE  LET t == Blanks(s, n)
         IN  /\ t \in Screens /\ Beside(s, t)
             /\ Proper(s) /\ s.autoscroll => Proper(t) /\ t.autoscroll
  <1> DEFINE turn == BlankingTurns(s, n)
  <1>1. /\ turn[0] = s /\ turn[n] = Blanks(s, n)
        /\ \A k \in 0 .. n : turn[k] \in Screens
        /\ \A k \in 1 .. n : turn[k] = RawPutchar(turn[k - 1], Space)
    BY Blanking
  <1> HIDE DEF turn
  <1> DEFINE Right(k) == /\ turn[k] \in Screens /\ Beside(s, turn[k])
                         /\ Proper(s) /\ s.autoscroll =>
                              Proper(turn[k]) /\ turn[k].autoscroll
             S == {k \in 0 .. n : Right(k)}
  <1>3. 0 \in S
    BY <1>1 DEF Beside
  <1>4. ASSUME NEW k \in 1 .. n, k - 1 \in S PROVE k \in S
    <2>1. turn[k] = RawPutchar(turn[k - 1], Space) /\ Right(k - 1)
      BY <1>1, <1>4
    <2>2. turn[k] \in Screens /\ Beside(turn[k - 1], turn[k])
      BY <2>1, TypesSomewhere, Sizes
    <2>3. Proper(s) /\ s.autoscroll => Proper(turn[k]) /\ turn[k].autoscroll
      BY <2>1, TypedProper, Sizes
    <2>4. Beside(s, turn[k])
      BY <2>1, <2>2 DEF Beside
    <2>5. Right(k)
      BY <2>2, <2>3, <2>4, Zenon
    <2> QED
      BY <2>5
  <1> HIDE DEF S
  <1>5. \A k \in 0 .. n : k \in S
    BY <1>3, <1>4, ByTurns
  <1>6. n \in S
    BY <1>5
  <1>7. Right(n)
    BY <1>6 DEF S
  <1> QED
    BY <1>1, <1>7, Zenon

LEMMA ClearedTyped ==
  ASSUME NEW s, Proper(s)
  PROVE  /\ Proper(Clear(s, FALSE)) /\ Clear(s, FALSE).autoscroll = s.autoscroll
         /\ Proper(Clear(Reinit(s), TRUE)) /\ Clear(Reinit(s), TRUE).autoscroll
  <1>1. /\ s \in Screens /\ Ink(s, Space) \in Cells
        /\ 0 \in 0 .. Cols /\ 0 \in 0 .. Lines - 1 /\ 0 \in 0 .. Rows /\ Rows \in 0 .. Rows
    BY InkTyped, LinesSize, Sizes DEF Proper
  <1>2. Ink(Reinit(s), Space) = Ink(s, Space)
    BY <1>1 DEF Ink, Reinit, Screens
  <1>3. Proper(Clear(s, FALSE)) /\ Clear(s, FALSE).autoscroll = s.autoscroll
    <2> DEFINE cells == [p \in Positions |-> Ink(s, Space)]
    <2>1. cells \in [Positions -> Cells]
      BY <1>1
    <2>2. Clear(s, FALSE) = [s EXCEPT !.cells = cells, !.cursor = s.cursor]
      BY DEF Clear
    <2> HIDE DEF cells
    <2>3. [s EXCEPT !.cells = cells, !.cursor = s.cursor] = [s EXCEPT !.cells = cells]
      BY <1>1 DEF Screens
    <2>4. Clear(s, FALSE) \in Screens /\ SameBut(s, Clear(s, FALSE))
      BY <1>1, <2>1, <2>2, <2>3, CellsSet
    <2> QED
      BY <2>4, SameProper DEF SameBut, Beside
  <1>4. Proper(Clear(Reinit(s), TRUE)) /\ Clear(Reinit(s), TRUE).autoscroll
    <2> DEFINE cells == [p \in Positions |-> Ink(s, Space)]
               t == [s EXCEPT !.top = 0, !.bottom = Rows, !.autoscroll = TRUE,
                              !.cells = cells, !.cursor = Home]
    <2>1. cells \in [Positions -> Cells]
      BY <1>1
    <2>2. Clear(Reinit(s), TRUE) = t
      BY <1>1, <1>2 DEF Clear, Reinit, Screens, Home
    <2> HIDE DEF cells
    <2>3. t \in Screens /\ t.cursor = Home /\ t.top = 0 /\ t.bottom = Rows /\ t.autoscroll
      BY <1>1, <2>1 DEF Screens, Home
    <2>4. Home \in Cursors
      BY <1>1 DEF Home, Cursors
    <2> HIDE DEF t
    <2> QED
      BY <2>2, <2>3, <2>4 DEF Proper, Region
  <1> QED
    BY <1>3, <1>4

-----------------------------------------------------------------------------
(* Every function leaves a proper screen.                                    *)

LEMMA LinesTyped ==
  ASSUME Inv, NEW s \in Screens, Region(s), NEW x \in Int
  PROVE  Proper(LineFeed(s, x)) /\ Beside(s, LineFeed(s, x))
  <1>1. X \in Int /\ Y \in Int /\ Y + 1 \in Int
    BY ProperScreen
  <1>2. Scroll(s) \in Screens /\ Beside(s, Scroll(s))
    BY Scrolls DEF SameBut
  <1>3. Region(Scroll(s))
    BY <1>2, RegionStays
  <1>4. /\ Proper(SetCursorPos(Scroll(s), x, Y))
        /\ Beside(Scroll(s), SetCursorPos(Scroll(s), x, Y))
    BY <1>1, <1>2, <1>3, CursorProper, CursorGoes
  <1>5. Proper(SetCursorPos(s, x, Y + 1)) /\ Beside(s, SetCursorPos(s, x, Y + 1))
    BY <1>1, CursorProper, CursorGoes
  <1>6. Beside(s, SetCursorPos(Scroll(s), x, Y))
    BY <1>2, <1>4 DEF Beside
  <1> QED
    BY <1>4, <1>5, <1>6, Zenon DEF LineFeed

LEMMA ReverseTyped ==
  ASSUME Inv, NEW s \in Screens, Region(s)
  PROVE  Proper(ReverseLineFeed(s)) /\ Beside(s, ReverseLineFeed(s))
  <1>1. 0 \in Int /\ Y \in Int /\ Y - 1 \in Int
    BY ProperScreen
  <1>2. Revscroll(s) \in Screens /\ Beside(s, Revscroll(s))
    BY Revscrolls DEF SameBut
  <1>3. Region(Revscroll(s))
    BY <1>2, RegionStays
  <1>4. /\ Proper(SetCursorPos(Revscroll(s), 0, Y))
        /\ Beside(Revscroll(s), SetCursorPos(Revscroll(s), 0, Y))
    BY <1>1, <1>2, <1>3, CursorProper, CursorGoes
  <1>5. Proper(SetCursorPos(s, 0, Y - 1)) /\ Beside(s, SetCursorPos(s, 0, Y - 1))
    BY <1>1, CursorProper, CursorGoes
  <1>6. Beside(s, SetCursorPos(Revscroll(s), 0, Y))
    BY <1>2, <1>4 DEF Beside
  <1> QED
    BY <1>4, <1>5, <1>6, Zenon DEF ReverseLineFeed

LEMMA MovedTyped ==
  ASSUME Inv, NEW c \in {"TAB", "LF", "BS", "CR"}
  PROVE  Proper(Moved(c)) /\ Moved(c).autoscroll
  <1>1. /\ screen \in Screens /\ Region(screen) /\ screen.autoscroll
        /\ X \in Int /\ Y \in Int /\ X - 1 \in Int /\ 0 \in Int /\ Cols - 1 \in Int
        /\ (X \div TabSize + 1) * TabSize \in Int
    <2>1. X \div TabSize \in Int
      BY ProperScreen, TabAssumption
    <2>2. \A a, b \in Int : (a + 1) * b \in Int
      OBVIOUS
    <2> QED
      BY <2>1, <2>2, ProperScreen, Sizes, TabAssumption DEF Proper
  <1>2. ASSUME NEW x \in Int
        PROVE  /\ Proper(SetCursorPos(screen, x, Y))
               /\ SetCursorPos(screen, x, Y).autoscroll
    BY <1>1, CursorProper, CursorGoes DEF Beside
  <1>3. Proper(LineFeed(screen, 0)) /\ LineFeed(screen, 0).autoscroll
    BY <1>1, LinesTyped DEF Beside
  <1>4. CASE c = "TAB"
    BY <1>1, <1>2, <1>4, Zenon DEF Moved
  <1>5. CASE c = "LF"
    BY <1>3, <1>5 DEF Moved
  <1>6. CASE c = "BS"
    BY <1>1, <1>2, <1>6 DEF Moved
  <1>7. CASE c = "CR"
    BY <1>1, <1>2, <1>7 DEF Moved
  <1> QED
    BY <1>4, <1>5, <1>6, <1>7

LEMMA EscapedTyped ==
  ASSUME Inv, NEW c \in {"7", "8", "c", "D", "E", "M"}
  PROVE  Proper(Escaped(c)) /\ Escaped(c).autoscroll
  <1>1. /\ screen \in Screens /\ Region(screen) /\ screen.autoscroll /\ Proper(screen)
        /\ savedState \in Cursors /\ X \in Int /\ 0 \in Int
    BY ProperScreen DEF Proper
  <1>2. CASE c = "D"
    BY <1>1, <1>2, LinesTyped DEF Escaped, Beside
  <1>3. CASE c = "E"
    BY <1>1, <1>3, LinesTyped DEF Escaped, Beside
  <1>4. CASE c = "M"
    BY <1>1, <1>4, ReverseTyped DEF Escaped, Beside
  <1>5. CASE c = "c"
    BY <1>1, <1>5, ClearedTyped DEF Escaped
  <1>6. CASE c = "7"
    BY <1>1, <1>6 DEF Escaped
  <1>7. CASE c = "8"
    <2> DEFINE t == [screen EXCEPT !.cursor = [x |-> savedState.x, y |-> savedState.y]]
    <2>1. savedState = [x |-> savedState.x, y |-> savedState.y]
          /\ savedState.x \in Nat /\ savedState.y \in Nat
      BY <1>1, LinesSize, Sizes DEF Cursors
    <2>2. /\ t \in Screens /\ Beside(screen, t)
          /\ t.cursor = [x |-> savedState.x, y |-> savedState.y]
      BY <1>1, <2>1, CursorSet, Zenon
    <2>3. Escaped(c) = t
      BY <1>7, <2>1 DEF Escaped
    <2> HIDE DEF t
    <2>4. Region(t)
      BY <1>1, <2>2, RegionStays
    <2> QED
      BY <1>1, <2>1, <2>2, <2>3, <2>4 DEF Proper, Beside
  <1> QED
    BY <1>2, <1>3, <1>4, <1>5, <1>6, <1>7

LEMMA PrintedTyped ==
  ASSUME Inv, NEW g \in Glyphs
  PROVE  /\ \A inserts \in BOOLEAN :
              Proper(Printed(g, inserts)) /\ Printed(g, inserts).autoscroll
         /\ Proper(MakeRoom(screen)) /\ MakeRoom(screen).autoscroll
         /\ \A width \in Nat :
              Proper(Replaced(g, width)) /\ Replaced(g, width).autoscroll
  <1>1. Proper(screen) /\ screen \in Screens /\ screen.autoscroll
    BY ProperScreen
  <1>2. Proper(MakeRoom(screen)) /\ MakeRoom(screen).autoscroll
    <2>1. MakeRoom(screen) \in Screens /\ SameBut(screen, MakeRoom(screen))
      BY <1>1, RoomMade
    <2> QED
      BY <1>1, <2>1, SameProper DEF SameBut, Beside
  <1>3. ASSUME NEW inserts \in BOOLEAN
        PROVE  Proper(Printed(g, inserts)) /\ Printed(g, inserts).autoscroll
    <2> DEFINE s == IF inserts THEN MakeRoom(screen) ELSE screen
    <2>1. Proper(s) /\ s.autoscroll
      BY <1>1, <1>2
    <2>2. Printed(g, inserts) = RawPutchar(s, g)
      BY Zenon DEF Printed
    <2> HIDE DEF s
    <2> QED
      BY <2>1, <2>2, TypedProper
  <1>4. ASSUME NEW width \in Nat
        PROVE  Proper(Replaced(g, width)) /\ Replaced(g, width).autoscroll
    <2>1. CASE width = 0
      BY <1>1, <2>1 DEF Replaced
    <2>2. CASE width # 0
      <3> DEFINE s == RawPutchar(screen, g)
      <3>1. Proper(s) /\ s.autoscroll
        BY <1>1, TypedProper
      <3>2. Replaced(g, width) = Blanks(s, width - 1)
        BY <2>2, Zenon DEF Replaced
      <3>3. width - 1 \in Nat
        BY <2>2
      <3> HIDE DEF s
      <3> QED
        BY <3>1, <3>2, <3>3, BlanksTyped DEF Proper
    <2> QED
      BY <2>1, <2>2
  <1> QED
    BY <1>2, <1>3, <1>4

\* The screen a control function starts with.
Held == [screen EXCEPT !.autoscroll = FALSE]

LEMMA HeldProper ==
  ASSUME Inv
  PROVE  /\ Proper(Held) /\ Held \in Screens /\ Region(Held) /\ ~Held.autoscroll
         /\ Held.cells = screen.cells /\ Held.cursor = screen.cursor
         /\ Held.top = screen.top /\ Held.bottom = screen.bottom
         /\ Ink(Held, Space) = Ink(screen, Space)
  <1>1. Proper(screen) /\ screen \in Screens
    BY ProperScreen
  <1>2. /\ Held \in Screens /\ ~Held.autoscroll
        /\ Held.cells = screen.cells /\ Held.cursor = screen.cursor
        /\ Held.top = screen.top /\ Held.bottom = screen.bottom /\ Held.text = screen.text
    BY <1>1 DEF Held, Screens
  <1> QED
    BY <1>1, <1>2 DEF Proper, Region, Ink

LEMMA StepsTyped ==
  ASSUME Inv, NEW s, Proper(s), NEW x \in Int, NEW v \in Nat
  PROVE  Proper(CursorUp(s, x, v)) /\ Proper(CursorDown(s, x, v))
  <1>1. /\ s \in Screens /\ Region(s) /\ X \in Int /\ Y \in Int
        /\ Y - Min2(v, Y) \in Int /\ Y + Min2(v, Rows - 1 - Y) \in Int
    BY ProperScreen, Sizes DEF Proper, Min2
  <1>2. s.top \in Int /\ s.bottom - 1 \in Int
    BY <1>1, RegionSize
  <1>3. \A y \in Int : Proper(SetCursorPos(s, x, y))
    BY <1>1, CursorProper
  <1> QED
    BY <1>1, <1>2, <1>3, Zenon DEF CursorUp, CursorDown

LEMMA ScrollsTyped ==
  ASSUME Inv, NEW s, Proper(s), NEW v \in Nat
  PROVE  /\ Proper(Loop(v, LAMBDA t, k : Scroll(t), s))
         /\ Proper(InsertLines(s, v))
  <1>1. /\ s \in Screens /\ s.top < s.bottom /\ s.top \in 0 .. Rows /\ Y \in 0 .. Rows
    BY ProperScreen, RegionSize, Sizes DEF Proper, Screens
  <1>2. Proper(Loop(v, LAMBDA t, k : Scroll(t), s))
    <2> DEFINE t == Loop(v, LAMBDA r, k : Scroll(r), s)
    <2>1. t \in Screens /\ SameBut(s, t)
      BY <1>1, ScrolledOften, Zenon
    <2> HIDE DEF t
    <2>2. Proper(t)
      BY <2>1, SameProper
    <2> QED
      BY <2>2 DEF t
  <1>3. Proper(InsertLines(s, v))
    <2> DEFINE r == [s EXCEPT !.top = Y]
               t == Loop(v, LAMBDA u, k : Revscroll(u), r)
    <2>1. r \in Screens /\ [r EXCEPT !.top = s.top] = s
      BY <1>1 DEF Screens
    <2>2. r.text = s.text /\ r.bottom = s.bottom /\ r.autoscroll = s.autoscroll
          /\ r.cursor = s.cursor
      BY <1>1 DEF Screens
    <2> HIDE DEF r
    <2>3. t \in Screens /\ SameBut(r, t)
      BY <2>1, RevscrolledOften, Zenon
    <2>4. InsertLines(s, v) = [t EXCEPT !.top = s.top]
      BY Zenon DEF InsertLines, r
    <2> HIDE DEF t
    <2>5. [t EXCEPT !.top = s.top] \in Screens
      BY <1>1, <2>3 DEF Screens
    <2>6. SameBut(s, [t EXCEPT !.top = s.top])
      BY <1>1, <2>2, <2>3 DEF SameBut, Beside, Screens
    <2> QED
      BY <2>4, <2>5, <2>6, SameProper
  <1> QED
    BY <1>2, <1>3

LEMMA ErasesTyped ==
  ASSUME Inv, NEW v \in Nat
  PROVE  /\ Proper(EraseDisplay(Held, v)) /\ Proper(EraseLine(Held, v))
         /\ Proper(EraseCharacters(Held, v))
  <1>1. /\ Held \in Screens /\ Region(Held) /\ ~Held.autoscroll /\ Proper(Held)
        /\ X \in Int /\ Y \in Int /\ X \in 0 .. Cols - 1 /\ Y \in 0 .. Rows - 1
        /\ X \in Nat /\ Cols - X \in Nat /\ 0 \in Int
        /\ Rows - Y - 1 \in Nat /\ Y \in Nat /\ Cols \in Nat
    BY ProperScreen, HeldProper, Sizes
  <1>2. ASSUME NEW s \in Screens, Region(s), NEW n \in Nat
        PROVE  Proper(SetCursorPos(Blanks(s, n), X, Y))
    <2>1. Blanks(s, n) \in Screens /\ Beside(s, Blanks(s, n))
      BY BlanksTyped
    <2>2. Region(Blanks(s, n))
      BY <1>2, <2>1, RegionStays
    <2> QED
      BY <1>1, <2>1, <2>2, CursorProper
  <1>3. ASSUME NEW y \in Int
        PROVE  /\ SetCursorPos(Held, 0, y) \in Screens /\ Region(SetCursorPos(Held, 0, y))
               /\ SetCursorPos(Held, 0, y).cursor = [x |-> 0, y |-> Clamp(y, Rows)]
               /\ ~SetCursorPos(Held, 0, y).autoscroll
               /\ Proper(SetCursorPos(Held, 0, y))
    <2> DEFINE s == SetCursorPos(Held, 0, y)
    <2>1. /\ s \in Screens /\ Beside(Held, s)
          /\ s.cursor = [x |-> Clamp(0, Cols), y |-> Clamp(y, Rows)]
      BY <1>1, CursorGoes
    <2>2. Clamp(0, Cols) = 0
      BY Clamped, Sizes
    <2>3. Proper(s)
      BY <1>1, CursorProper
    <2> HIDE DEF s
    <2>4. s \in Screens /\ Region(s) /\ s.cursor = [x |-> 0, y |-> Clamp(y, Rows)]
          /\ ~s.autoscroll /\ Proper(s)
      BY <1>1, <2>1, <2>2, <2>3 DEF Proper, Beside
    <2> QED
      BY <2>4 DEF s
  <1>4. /\ (Rows - Y - 1) * Cols + Cols - X \in Nat /\ Y * Cols + X + 1 \in Nat
    <2>1. (Rows - Y - 1) * Cols \in Nat /\ Y * Cols \in Nat
      BY <1>1, LinesAdd
    <2> QED
      BY <1>1, <2>1
  <1>5. Proper(EraseDisplay(Held, v))
    <2>1. CASE v = 0
      <3>1. EraseDisplay(Held, v)
              = SetCursorPos(Blanks(Held, (Rows - Y - 1) * Cols + Cols - X), X, Y)
        BY <2>1 DEF EraseDisplay
      <3> QED
        BY <1>1, <1>2, <1>4, <3>1, Zenon
    <2>2. CASE v = 1
      <3>1. EraseDisplay(Held, v)
              = SetCursorPos(Blanks(SetCursorPos(Held, 0, 0), Y * Cols + X + 1), X, Y)
        BY <2>2 DEF EraseDisplay
      <3> QED
        BY <1>1, <1>2, <1>3, <1>4, <3>1, Zenon
    <2>3. CASE v \in {2, 3}
      <3>1. EraseDisplay(Held, v) = Clear(Held, FALSE)
        BY <2>3 DEF EraseDisplay
      <3> QED
        BY <1>1, <3>1, ClearedTyped
    <2>4. CASE v \notin {0, 1, 2, 3}
      <3>1. EraseDisplay(Held, v) = Held
        BY <2>4 DEF EraseDisplay
      <3> QED
        BY <1>1, <3>1
    <2> QED
      BY <2>1, <2>2, <2>3, <2>4
  <1>6. Proper(EraseLine(Held, v))
    <2>1. CASE v = 0
      <3>1. EraseLine(Held, v) = SetCursorPos(Blanks(Held, Cols - X), X, Y)
        BY <2>1 DEF EraseLine
      <3> QED
        BY <1>1, <1>2, <3>1, Zenon
    <2>2. CASE v = 1
      <3> DEFINE s == SetCursorPos(Held, 0, Y)
                 t == Blanks(s, X)
      <3>1. EraseLine(Held, v) = t
        BY <2>2 DEF EraseLine
      <3>2. /\ s \in Screens /\ Region(s) /\ s.cursor = [x |-> 0, y |-> Clamp(Y, Rows)]
            /\ ~s.autoscroll
        BY <1>1, <1>3
      <3> HIDE DEF s
      <3>3. s.cursor.x + X <= Cols
        BY <1>1, <3>2
      <3>4. /\ t \in Screens /\ Beside(s, t)
            /\ t.cursor = [x |-> s.cursor.x + X, y |-> s.cursor.y]
        BY <1>1, <3>2, <3>3, BlanksOnLine
      <3> HIDE DEF t
      <3>5. Region(t)
        BY <3>2, <3>4, RegionStays
      <3>6. t.cursor \in Cursors
        <4>1. s.cursor.x + X \in 0 .. Cols /\ s.cursor.y \in 0 .. Lines - 1
          BY <1>1, <3>2, Clamped, LinesSize, Sizes
        <4> QED
          BY <3>4, <4>1 DEF Cursors
      <3> QED
        BY <3>1, <3>4, <3>5, <3>6 DEF Proper
    <2>3. CASE v = 2
      <3>1. EraseLine(Held, v) = SetCursorPos(Blanks(SetCursorPos(Held, 0, Y), Cols), X, Y)
        BY <2>3 DEF EraseLine
      <3> QED
        BY <1>1, <1>2, <1>3, <3>1
    <2>4. CASE v \notin {0, 1, 2}
      <3>1. EraseLine(Held, v) = Held
        BY <2>4 DEF EraseLine
      <3> QED
        BY <1>1, <3>1
    <2> QED
      BY <2>1, <2>2, <2>3, <2>4
  <1>7. Proper(EraseCharacters(Held, v))
    BY <1>1, <1>2 DEF EraseCharacters
  <1> QED
    BY <1>5, <1>6, <1>7

LEMMA EditsTyped ==
  ASSUME Inv, NEW v \in Nat
  PROVE  Proper(InsertCharacters(Held, v)) /\ Proper(DeleteCharacters(Held, v))
  <1>1. /\ Held \in Screens /\ Region(Held) /\ ~Held.autoscroll /\ screen \in Screens
        /\ X \in Int /\ Y \in Int /\ Cols - X - v \in Int /\ Cols - v \in Int
    BY ProperScreen, HeldProper, Sizes
  <1>2. Proper(InsertCharacters(Held, v))
    <2> DEFINE r == Loop(Cols - X, LAMBDA t, k : Inserted(t, Cols - k, v), Held)
    <2>1. r \in Screens /\ Beside(Held, r)
      BY <1>1, Insertings
    <2>2. InsertCharacters(Held, v) = SetCursorPos(r, X, Y)
      BY Zenon DEF InsertCharacters, Inserted
    <2> HIDE DEF r
    <2>3. Region(r)
      BY <1>1, <2>1, RegionStays
    <2> QED
      BY <1>1, <2>1, <2>2, <2>3, CursorProper
  <1>3. Proper(DeleteCharacters(Held, v))
    <2>0. PICK n \in Int : n = Cols - X - v
      BY <1>1
    <2> DEFINE r == Loop(n, LAMBDA t, k : Shifted(t, X + v + k - 1, v), Held)
               u == SetCursorPos(r, Cols - v, Y)
               b == Blanks(u, v)
    <2>1. DeleteCharacters(Held, v) = SetCursorPos(b, X, Y)
      BY <2>0, Zenon DEF DeleteCharacters, EraseCharacters, Shifted
    <2>2. r \in Screens /\ Beside(Held, r)
      <3>1. CASE n > 0
        <4>1. n \in Nat
          BY <3>1
        <4> QED
          BY <1>1, <4>1, Shiftings DEF SameBut
      <3>2. CASE n <= 0
        <4>1. ~(n > 0)
          BY <3>2
        <4>2. r = Held
          BY <4>1, Zenon DEF Loop
        <4> QED
          BY <1>1, <4>2 DEF Beside
      <3>3. n > 0 \/ n <= 0
        OBVIOUS
      <3> QED
        BY <3>1, <3>2, <3>3, Zenon
    <2> HIDE DEF r
    <2>3. Region(r)
      BY <1>1, <2>2, RegionStays
    <2>4. u \in Screens /\ Region(u)
      BY <1>1, <2>2, <2>3, CursorProper DEF Proper
    <2> HIDE DEF u
    <2>5. b \in Screens /\ Beside(u, b)
      BY <2>4, BlanksTyped
    <2> HIDE DEF b
    <2>6. Region(b)
      BY <2>4, <2>5, RegionStays
    <2> QED
      BY <1>1, <2>1, <2>5, <2>6, CursorProper
  <1> QED
    BY <1>2, <1>3

LEMMA RegionSet ==
  ASSUME NEW s \in Screens, NEW t \in Nat, NEW b \in Nat
  PROVE  LET r == SetRegion(s, t, b)
             ok == t < Rows /\ b <= Rows /\ t < b - 1
         IN  /\ Proper(r) /\ r.cells = s.cells /\ r.cursor = Home
             /\ r.top = (IF ok THEN t ELSE 0) /\ r.bottom = IF ok THEN b ELSE Rows
  <1> DEFINE ok == t < Rows /\ b <= Rows /\ t < b - 1
             top == IF ok THEN t ELSE 0
             bottom == IF ok THEN b ELSE Rows
             u == [s EXCEPT !.top = top, !.bottom = bottom]
  <1>1. top \in 0 .. Rows /\ bottom \in 0 .. Rows
    BY Sizes
  <1>2. \/ top = 0 /\ bottom = Rows
        \/ top >= 0 /\ bottom <= Rows /\ top < bottom - 1
    <2>1. CASE ok
      BY <2>1
    <2>2. CASE ~ok
      <3> HIDE DEF ok
      <3> QED
        BY <2>2
    <2> QED
      BY <2>1, <2>2
  <1>3. SetRegion(s, t, b) = SetCursorPos(u, 0, 0)
    BY Zenon DEF SetRegion
  <1> HIDE DEF ok, top, bottom
  <1>4. /\ u \in Screens /\ u.cells = s.cells /\ u.top = top /\ u.bottom = bottom
    BY <1>1 DEF Screens
  <1> HIDE DEF u
  <1>5. Region(u)
    BY <1>2, <1>4 DEF Region
  <1>6. Clamp(0, Cols) = 0 /\ Clamp(0, Rows) = 0
    BY Clamped, Sizes
  <1>7. /\ Proper(SetCursorPos(u, 0, 0)) /\ Beside(u, SetCursorPos(u, 0, 0))
        /\ SetCursorPos(u, 0, 0).cells = u.cells
        /\ SetCursorPos(u, 0, 0).cursor = [x |-> Clamp(0, Cols), y |-> Clamp(0, Rows)]
    BY <1>4, <1>5, CursorProper, CursorGoes
  <1> QED
    BY <1>3, <1>4, <1>6, <1>7, Zenon DEF Beside, Home, ok, top, bottom

LEMMA RuledTyped ==
  ASSUME Inv, NEW v \in Nat, NEW w \in Nat, NEW n \in Nat
  PROVE  Proper(Ruled(Held, v, w, n))
  <1> DEFINE t == IF n > 0 THEN Place(v, v) ELSE 0
             b == IF n > 1 THEN IF w = 0 THEN 1 ELSE w ELSE Rows
  <1>1. t \in Nat /\ b \in Nat /\ Held \in Screens
    BY HeldProper, Sizes DEF Place, Min2
  <1>2. Ruled(Held, v, w, n) = SetRegion(Held, t, b)
    BY Zenon DEF Ruled
  <1> HIDE DEF t, b
  <1> QED
    BY <1>1, <1>2, RegionSet

LEMMA FunctionTyped ==
  ASSUME Inv, NEW f, NEW v \in Nat, NEW w \in Nat, NEW n \in Nat
  PROVE  Proper(Function(f, Held, v, w, n))
  <1>1. /\ Proper(Held) /\ Held \in Screens /\ Region(Held)
        /\ X \in Int /\ Y \in Int /\ 0 \in Int
        /\ X + Min2(v, Cols - 1 - X) \in Int /\ X - Min2(v, X) \in Int
        /\ savedCursor.x \in Int /\ savedCursor.y \in Int
    BY ProperScreen, HeldProper, LinesSize, Sizes DEF Min2, Cursors
  <1>2. /\ Coordinate(v, Rows) \in Int /\ Coordinate(v, Cols) \in Int
        /\ Place(w, Cols) \in Int /\ Place(v, Rows) \in Int
    BY Sizes DEF Coordinate, Place, Min2
  <1>3. \A x, y \in Int : Proper(SetCursorPos(Held, x, y))
    BY <1>1, CursorProper
  <1>4. /\ Proper(CursorUp(Held, X, v)) /\ Proper(CursorUp(Held, 0, v))
        /\ Proper(CursorDown(Held, X, v)) /\ Proper(CursorDown(Held, 0, v))
    BY <1>1, StepsTyped
  <1>5. /\ Proper(SetCursorPos(Held, X + Min2(v, Cols - 1 - X), Y))
        /\ Proper(SetCursorPos(Held, X - Min2(v, X), Y))
        /\ Proper(SetCursorPos(Held, X, Coordinate(v, Rows)))
        /\ Proper(SetCursorPos(Held, Coordinate(v, Cols), Y))
        /\ Proper(SetCursorPos(Held, Place(w, Cols), Place(v, Rows)))
        /\ Proper(SetCursorPos(Held, savedCursor.x, savedCursor.y))
    BY <1>1, <1>2, <1>3, Zenon
  <1>6. Proper(Loop(v, LAMBDA t, k : Scroll(t), Held)) /\ Proper(InsertLines(Held, v))
    BY <1>1, ScrollsTyped, Zenon
  <1>7. /\ Proper(EraseDisplay(Held, v)) /\ Proper(EraseLine(Held, v))
        /\ Proper(EraseCharacters(Held, v))
        /\ Proper(InsertCharacters(Held, v)) /\ Proper(DeleteCharacters(Held, v))
        /\ Proper(Ruled(Held, v, w, n))
    BY ErasesTyped, EditsTyped, RuledTyped
  <1> QED
    BY <1>1, <1>4, <1>5, <1>6, <1>7, Zenon DEF Function

LEMMA ControlledTyped ==
  ASSUME Inv, NEW f, NEW v \in Nat, NEW w \in Nat, NEW n \in Nat
  PROVE  Proper(Controlled(f, v, w, n)) /\ Controlled(f, v, w, n).autoscroll
  <1> DEFINE t == Function(f, Held, v, w, n)
  <1>1. Proper(t) /\ screen.autoscroll
    BY ProperScreen, FunctionTyped
  <1>2. Controlled(f, v, w, n) = [t EXCEPT !.autoscroll = screen.autoscroll]
    BY Zenon DEF Controlled, Held
  <1> HIDE DEF t
  <1>3. LET u == [t EXCEPT !.autoscroll = screen.autoscroll]
        IN  /\ u \in Screens /\ u.cursor = t.cursor /\ u.top = t.top
            /\ u.bottom = t.bottom /\ u.autoscroll
    BY <1>1 DEF Proper, Screens
  <1> QED
    BY <1>1, <1>2, <1>3 DEF Proper, Region

-----------------------------------------------------------------------------
(* What a request may be.                                                    *)

LEMMA ControlsAre ==
  ASSUME NEW r \in Controls
  PROVE  /\ r.did = "control" /\ r.args[1] \in Nat /\ r.args[2] \in Nat
         /\ r.n \in 0 .. 2 /\ r.what \in Lone \cup {"H", "r", "s", "u"}
  <1> DEFINE
    Right(f, v, w, n) ==
      /\ f \in Lone \cup {"H", "r", "s", "u"}
      /\ v \in Nat /\ w \in Nat /\ n \in 0 .. 2 /\ r = Control(f, v, w, n)
    Ruling == /\ r.did = "control" /\ r.args[1] \in Nat /\ r.args[2] \in Nat
              /\ r.n \in 0 .. 2 /\ r.what \in Lone \cup {"H", "r", "s", "u"}
  <1>1. ASSUME NEW f, NEW v, NEW w, NEW n, Right(f, v, w, n)
        PROVE  Ruling
    <2>1. /\ r.did = "control" /\ r.what = f /\ r.args = <<v, w>> /\ r.n = n
      BY <1>1 DEF Control
    <2> QED
      BY <1>1, <2>1
  <1>2. \/ \E f \in Lone, v \in Values : r = Control(f, v, 1, 1)
        \/ \E f \in {"H", "r"}, p \in Pairs : r = Control(f, p[1], p[2], 2)
        \/ \E p \in Pairs : r = Control("r", p[1], 1, 1)
        \/ \E f \in {"r", "s", "u"} : r = Control(f, 1, 1, 0)
    BY DEF Controls
  <1>3. ASSUME NEW f \in Lone, NEW v \in Values, r = Control(f, v, 1, 1)
        PROVE  Right(f, v, 1, 1)
    BY <1>3, ValuesAssumption
  <1>4. ASSUME NEW f \in {"H", "r"}, NEW p \in Pairs, r = Control(f, p[1], p[2], 2)
        PROVE  Right(f, p[1], p[2], 2)
    <2>1. p[1] \in Nat /\ p[2] \in Nat
      BY ValuesAssumption
    <2> QED
      BY <1>4, <2>1
  <1>5. ASSUME NEW p \in Pairs, r = Control("r", p[1], 1, 1)
        PROVE  Right("r", p[1], 1, 1)
    <2>1. p[1] \in Nat
      BY ValuesAssumption
    <2> QED
      BY <1>5, <2>1
  <1>6. ASSUME NEW f \in {"r", "s", "u"}, r = Control(f, 1, 1, 0)
        PROVE  Right(f, 1, 1, 0)
    BY <1>6
  <1> HIDE DEF Right
  <1> QED
    BY <1>1, <1>2, <1>3, <1>4, <1>5, <1>6, Zenon DEF Ruling

LEMMA RequestIs ==
  ASSUME NEW r \in Requests
  PROVE  \/ r.did = "print" /\ r.what \in Glyphs /\ r.inserts \in BOOLEAN
         \/ /\ r.did = "character" /\ r.what \in Glyphs /\ r.inserts \in BOOLEAN
            /\ r.width \in {0, 1, 2} /\ (r.width # 1 => r.what = Box)
         \/ r.did = "make room"
         \/ r.did = "move" /\ r.what \in {"TAB", "LF", "BS", "CR"}
         \/ r.did = "escape" /\ r.what \in {"7", "8", "c", "D", "E", "M"}
         \/ /\ r.did = "control" /\ r.args[1] \in Nat /\ r.args[2] \in Nat /\ r.n \in 0 .. 2
            /\ r.what \in Lone \cup {"H", "r", "s", "u"}
  <1> DEFINE
    A == [did : {"print"}, what : Glyphs, inserts : BOOLEAN]
    B == [did : {"character"}, what : Glyphs, width : {1}, inserts : BOOLEAN]
    C == [did : {"character"}, what : {Box}, width : {0, 2}, inserts : BOOLEAN]
    D == [did : {"make room"}, what : {"cont"}]
    E == [did : {"move"}, what : {"TAB", "LF", "BS", "CR"}]
    F == [did : {"escape"}, what : {"7", "8", "c", "D", "E", "M"}]
  <1>1. r \in A => r.did = "print" /\ r.what \in Glyphs /\ r.inserts \in BOOLEAN
    OBVIOUS
  <1>2. r \in B \/ r \in C =>
          /\ r.did = "character" /\ r.what \in Glyphs /\ r.inserts \in BOOLEAN
          /\ r.width \in {0, 1, 2} /\ (r.width # 1 => r.what = Box)
    BY Sizes
  <1>3. /\ r \in D => r.did = "make room"
        /\ r \in E => r.did = "move" /\ r.what \in {"TAB", "LF", "BS", "CR"}
        /\ r \in F => r.did = "escape" /\ r.what \in {"7", "8", "c", "D", "E", "M"}
    OBVIOUS
  <1>4. \/ r \in A \/ r \in B \/ r \in C \/ r \in D \/ r \in E \/ r \in F
        \/ r \in Controls
    BY DEF Requests
  <1> HIDE DEF A, B, C, D, E, F
  <1> QED
    BY <1>1, <1>2, <1>3, <1>4, ControlsAre, Zenon

LEMMA ControlIs ==
  ASSUME NEW r \in Requests, r.did = "control"
  PROVE  /\ r.args[1] \in Nat /\ r.args[2] \in Nat /\ r.n \in Nat /\ r.n \in 0 .. 2
         /\ r.what \in Lone \cup {"H", "r", "s", "u"}
  <1> DEFINE Ruling == /\ r.args[1] \in Nat /\ r.args[2] \in Nat /\ r.n \in 0 .. 2
                       /\ r.what \in Lone \cup {"H", "r", "s", "u"}
  <1>1. \/ r.did = "print" \/ r.did = "character" \/ r.did = "make room"
        \/ r.did = "move" \/ r.did = "escape" \/ Ruling
    BY RequestIs, Zenon
  <1>2. Ruling
    <2> HIDE DEF Ruling
    <2> QED
      BY <1>1
  <1> QED
    BY <1>2

LEMMA Started == Init => Inv
  <1> SUFFICES ASSUME Init PROVE Inv
    OBVIOUS
  <1>1. /\ 0 \in 0 .. Cols /\ 0 \in 0 .. Lines - 1 /\ 0 \in 0 .. Rows /\ Rows \in 0 .. Rows
    BY LinesSize, Sizes
  <1>2. screen.cells \in [Positions -> Cells]
    BY Sizes DEF Init, Cells
  <1>3. Home \in Cursors /\ Home \in Places
    BY <1>1, Sizes DEF Home, Cursors, Places
  <1>4. screen \in Screens
    BY <1>1, <1>2 DEF Init, Screens, Home
  <1> QED
    BY <1>1, <1>2, <1>3, <1>4 DEF Init, Inv, TypeOK, Cells, Cursors

LEMMA Goes ==
  ASSUME Proper(screen'), screen'.autoscroll,
         savedCursor' \in Places, savedState' \in Cursors, request' \in Requests \cup {None}
  PROVE  Inv'
  <1>1. /\ screen'.cells \in [Positions -> Cells] /\ screen' \in Screens
        /\ savedCursor' \in Cursors
    BY LinesSize, Sizes DEF Proper, Screens, Places, Cursors
  <1> QED
    BY <1>1, Zenon DEF Proper, Inv, TypeOK, Cursors, Cells, Region

LEMMA Kept ==
  ASSUME Inv, [Next]_vars
  PROVE  Inv'
  <1>1. /\ Proper(screen) /\ screen.autoscroll
        /\ savedCursor \in Places /\ savedState \in Cursors /\ Home \in Places
        /\ screen.cursor \in Cursors /\ GetCursorPos(screen) \in Places
        /\ request \in Requests \cup {None}
    <2>1. /\ X \in 0 .. Cols - 1 /\ Y \in 0 .. Rows - 1
          /\ 0 \in 0 .. Cols - 1 /\ 0 \in 0 .. Rows - 1
      BY ProperScreen, LinesSize, Sizes
    <2>2. GetCursorPos(screen) = [x |-> X, y |-> Y]
      BY DEF GetCursorPos, X, Y
    <2> QED
      BY <2>1, <2>2, ProperScreen DEF Inv, TypeOK, Cursors, Places, Home, Proper
  <1>2. CASE Ask
    BY <1>1, <1>2, Goes DEF Ask
  <1>3. CASE UNCHANGED vars
    BY <1>1, <1>3, Goes DEF vars
  <1>4. CASE Obey
    <2>0. request' \in Requests \cup {None} /\ (request.did # None.did => request \in Requests)
      BY <1>1, <1>4 DEF Obey
    <2>1. CASE PutGlyph
      <3>1. request \in Requests
        BY <2>0, <2>1 DEF PutGlyph, None
      <3>2. Proper(screen') /\ screen'.autoscroll
        BY <2>1, <3>1, RequestIs, PrintedTyped DEF PutGlyph
      <3> QED
        BY <1>1, <2>0, <2>1, <3>2, Goes DEF PutGlyph
    <2>2. CASE PutCharacter
      <3>1. request \in Requests
        BY <2>0, <2>2 DEF PutCharacter, None
      <3>2. Proper(screen') /\ screen'.autoscroll
        BY <2>2, <3>1, RequestIs, PrintedTyped DEF PutCharacter
      <3> QED
        BY <1>1, <2>0, <2>2, <3>2, Goes DEF PutCharacter
    <2>3. CASE PutNothing
      <3>1. Proper(screen') /\ screen'.autoscroll
        BY <2>3, PrintedTyped, Sizes DEF PutNothing
      <3> QED
        BY <1>1, <2>0, <2>3, <3>1, Goes DEF PutNothing
    <2>4. CASE Move
      <3>1. request \in Requests
        BY <2>0, <2>4 DEF Move, None
      <3>2. Proper(screen') /\ screen'.autoscroll
        BY <2>4, <3>1, RequestIs, MovedTyped DEF Move
      <3> QED
        BY <1>1, <2>0, <2>4, <3>2, Goes DEF Move
    <2>5. CASE Escape
      <3>1. request \in Requests
        BY <2>0, <2>5 DEF Escape, None
      <3>2. Proper(screen') /\ screen'.autoscroll
        BY <2>5, <3>1, RequestIs, EscapedTyped DEF Escape
      <3> QED
        BY <1>1, <2>0, <2>5, <3>2, Goes DEF Escape
    <2>6. CASE ControlSequence
      <3>1. request \in Requests
        BY <2>0, <2>6 DEF ControlSequence, None
      <3>2. Proper(screen') /\ screen'.autoscroll
        <4>1. request.args[1] \in Nat /\ request.args[2] \in Nat /\ request.n \in Nat
          <5>1. request.did = "control"
            BY <2>6 DEF ControlSequence
          <5> QED
            BY <3>1, <5>1, ControlIs
        <4> QED
          BY <2>6, <4>1, ControlledTyped DEF ControlSequence
      <3> QED
        BY <1>1, <2>0, <2>6, <3>2, Goes DEF ControlSequence
    <2> QED
      BY <1>4, <2>1, <2>2, <2>3, <2>4, <2>5, <2>6 DEF Obey
  <1> QED
    BY <1>2, <1>3, <1>4 DEF Next

\* Whatever is printed and whatever functions run, on every size of screen: every
\* cell shows a glyph, the cursor stays within a column of the screen and above the
\* line number a wrap counts to, the region has two lines or is the whole screen, and
\* no function leaves scroll_enabled off.
THEOREM TypeCorrect == Spec => []TypeOK
  <1>1. Init => Inv
    BY Started
  <1>2. Inv /\ [Next]_vars => Inv'
    BY Kept
  <1>3. Inv => TypeOK
    BY DEF Inv
  <1> QED
    BY <1>1, <1>2, <1>3, PTL DEF Spec

-----------------------------------------------------------------------------
(* What the codes say of a step, in terms of cells.                          *)

LEMMA SameNames ==
  ASSUME Inv
  PROVE  /\ Codes!X = X /\ Codes!Y = Y /\ Codes!Positions = Positions
         /\ Codes!Home = Home /\ Codes!None = None
         /\ X = (IF screen.cursor.x = Cols THEN Cols - 1 ELSE screen.cursor.x)
         /\ screen.cursor.x \in 0 .. Cols /\ screen.cursor.y \in Nat
         /\ screen.cursor = [x |-> screen.cursor.x, y |-> screen.cursor.y]
         /\ \A v \in Int, n \in Int : Codes!Within(v, n) = Clamp(v, n)
  <1>1. /\ screen.cursor.x \in 0 .. Cols /\ screen.cursor.y \in Nat
        /\ screen.cursor = [x |-> screen.cursor.x, y |-> screen.cursor.y]
    BY ProperScreen, LinesSize DEF Proper, Cursors
  <1>2. /\ X = IF screen.cursor.x >= Cols THEN Cols - 1 ELSE screen.cursor.x
        /\ Y = IF screen.cursor.y >= Rows THEN Rows - 1 ELSE screen.cursor.y
    BY HereTyped DEF Inv
  <1>3. screen.cursor.x >= Cols <=> screen.cursor.x = Cols
    BY <1>1, Sizes
  <1>4. X = IF screen.cursor.x = Cols THEN Cols - 1 ELSE screen.cursor.x
    BY <1>2, <1>3, Zenon
  <1>5. Codes!X = X /\ Codes!Y = Y
    BY <1>2, <1>4, Zenon DEF Codes!X, Codes!Y
  <1>6. /\ Codes!Positions = Positions /\ Codes!Home = Home /\ Codes!None = None
        /\ \A v \in Int, n \in Int : Codes!Within(v, n) = Clamp(v, n)
    BY Zenon DEF Codes!Positions, Positions, Codes!Home, Home, Codes!None, None,
                 Codes!Within, Clamp
  <1> QED
    BY <1>1, <1>4, <1>5, <1>6

LEMMA GlyphsKept ==
  ASSUME screen'.cells = screen.cells
  PROVE  Codes!Keeps
  BY Zenon DEF Codes!Keeps

LEMMA GlyphsErased ==
  ASSUME NEW A, NEW B, \A p \in Positions : p \in A <=> p \in B,
         NEW ink, ink.c = Space, screen'.cells = Blanked(screen.cells, A, ink)
  PROVE  Codes!Erases(B)
  <1>1. \A p \in Positions :
          screen'.cells[p].c = IF p \in B THEN Space ELSE screen.cells[p].c
    BY DEF Blanked
  <1>2. \A p \in Positions : [q \in Positions |-> screen.cells[q].c][p] = screen.cells[p].c
    OBVIOUS
  <1>3. [p \in Positions |-> screen'.cells[p].c]
          = [p \in Positions |-> IF p \in B THEN Space
                                 ELSE [q \in Positions |-> screen.cells[q].c][p]]
    BY <1>1, <1>2
  <1>4. Codes!Positions = Positions
    BY DEF Codes!Positions, Positions
  <1> QED
    BY <1>3, <1>4, Zenon DEF Codes!Erases

LEMMA GlyphsShifted ==
  ASSUME NEW first \in Nat, NEW last \in 0 .. Rows, NEW n \in Int,
         NEW ink, ink.c = Space,
         screen'.cells = Rolled(screen.cells, first, last - 1, n, ink)
  PROVE  Codes!Shifts(first, last, n)
  <1> DEFINE old == [q \in Positions |-> screen.cells[q].c]
  <1>1. ASSUME NEW p \in Positions
        PROVE  screen'.cells[p].c =
                 IF p[2] \notin first .. last - 1 THEN old[p]
                 ELSE IF p[2] + n \in first .. last - 1 THEN old[<<p[1], p[2] + n>>]
                 ELSE Space
    <2>1. p[2] + n \in first .. last - 1 => <<p[1], p[2] + n>> \in Positions
      BY PositionIs, Sizes
    <2>2. screen'.cells[p] =
            IF p[2] \notin first .. last - 1 THEN screen.cells[p]
            ELSE IF p[2] + n \in first .. last - 1 THEN screen.cells[<<p[1], p[2] + n>>]
            ELSE ink
      BY Zenon DEF Rolled
    <2> QED
      BY <2>1, <2>2
  <1>2. [p \in Positions |-> screen'.cells[p].c]
          = [p \in Positions |->
               IF p[2] \notin first .. last - 1 THEN old[p]
               ELSE IF p[2] + n \in first .. last - 1 THEN old[<<p[1], p[2] + n>>]
               ELSE Space]
    BY <1>1, Zenon
  <1>3. Codes!Positions = Positions
    BY DEF Codes!Positions, Positions
  <1> QED
    BY <1>2, <1>3, Zenon DEF Codes!Shifts

LEMMA GlyphsSlid ==
  ASSUME Inv, NEW n \in Int,
         \A p \in Positions :
           screen'.cells[p].c =
             IF p[2] # Y \/ p[1] < X THEN screen.cells[p].c
             ELSE IF p[1] + n \in X .. Cols - 1 THEN screen.cells[<<p[1] + n, p[2]>>].c
             ELSE Space
  PROVE  Codes!Slides(n)
  <1> DEFINE old == [q \in Positions |-> screen.cells[q].c]
  <1>1. ASSUME NEW p \in Positions
        PROVE  screen'.cells[p].c =
                 IF p[2] # Y \/ p[1] < X THEN old[p]
                 ELSE IF p[1] + n \in X .. Cols - 1 THEN old[<<p[1] + n, p[2]>>]
                 ELSE Space
    <2>1. p[1] + n \in X .. Cols - 1 => <<p[1] + n, p[2]>> \in Positions
      BY ProperScreen, PositionIs, Sizes
    <2> QED
      BY <2>1
  <1>2. [p \in Positions |-> screen'.cells[p].c]
          = [p \in Positions |->
               IF p[2] # Y \/ p[1] < X THEN old[p]
               ELSE IF p[1] + n \in X .. Cols - 1 THEN old[<<p[1] + n, p[2]>>]
               ELSE Space]
    BY <1>1, Zenon
  <1>3. Codes!Positions = Positions /\ Codes!X = X /\ Codes!Y = Y
    BY SameNames
  <1> QED
    BY <1>2, <1>3, Zenon DEF Codes!Slides

LEMMA RegionKept ==
  ASSUME screen'.top = screen.top, screen'.bottom = screen.bottom
  PROVE  Codes!SameRegion
  BY DEF Codes!SameRegion

LEMMA SavedKept ==
  ASSUME UNCHANGED <<savedCursor, savedState>>
  PROVE  Codes!SameSaved
  BY DEF Codes!SameSaved

-----------------------------------------------------------------------------
(* Functions that move the cursor.                                           *)

\* The step ends with what s shows.
Shows(s) ==
  /\ screen'.cells = s.cells /\ screen'.cursor = s.cursor
  /\ screen'.top = s.top /\ screen'.bottom = s.bottom

LEMMA SteersTo ==
  ASSUME Inv, NEW s \in Screens, s.cells = screen.cells,
         s.top = screen.top, s.bottom = screen.bottom,
         NEW x \in Int, NEW y \in Int, Shows(SetCursorPos(s, x, y))
  PROVE  /\ Codes!Keeps /\ Codes!SameRegion
         /\ Codes!Goes(Clamp(x, Cols), Clamp(y, Rows))
  <1> DEFINE t == SetCursorPos(s, x, y)
  <1>1. /\ t.cells = s.cells /\ Beside(s, t)
        /\ t.cursor = [x |-> Clamp(x, Cols), y |-> Clamp(y, Rows)]
    BY CursorGoes, Zenon
  <1> HIDE DEF t
  <1>2. /\ screen'.cells = screen.cells /\ screen'.top = screen.top
        /\ screen'.bottom = screen.bottom
        /\ screen'.cursor = [x |-> Clamp(x, Cols), y |-> Clamp(y, Rows)]
    BY <1>1, Zenon DEF Shows, Beside, t
  <1> QED
    BY <1>2, GlyphsKept, RegionKept, Zenon DEF Codes!Goes

LEMMA UpMeans ==
  ASSUME Inv, NEW v \in Nat, NEW x \in {X, 0}, Shows(CursorUp(Held, x, v))
  PROVE  Codes!Keeps /\ Codes!SameRegion /\ Codes!Goes(x, Codes!UpTo(v))
  <1> DEFINE dest == Y - Min2(v, Y)
             meets(m) == dest <= m /\ m <= Y
             stops == (meets(screen.top) \/ meets(screen.bottom)) /\ dest < screen.top
             y == IF stops THEN screen.top ELSE dest
  <1>1. /\ X \in 0 .. Cols - 1 /\ X \in Nat /\ Y \in 0 .. Rows - 1 /\ Y \in Nat
        /\ screen.top \in 0 .. Rows - 1 /\ screen.bottom \in Nat
        /\ screen.top < screen.bottom /\ screen.bottom <= Rows /\ screen.top \in Nat
    BY ProperScreen, RegionSize DEF Proper
  <1>2. CursorUp(Held, x, v) = SetCursorPos(Held, x, y)
    BY HeldProper, Zenon DEF CursorUp
  <1>3. y \in Int /\ x \in Int
    BY <1>1 DEF Min2
  <1>4. Clamp(x, Cols) = x
    BY <1>1, Clamped, Sizes
  <1>5. Clamp(y, Rows) = Codes!UpTo(v)
    <2>1. Codes!UpTo(v) = IF Y >= screen.top /\ Y - v < screen.top THEN screen.top
                          ELSE Clamp(Y - v, Rows)
      <3>1. Y - v \in Int /\ Rows \in Int
        BY <1>1, Sizes
      <3>2. Codes!Y = Y /\ \A a \in Int, b \in Int : Codes!Within(a, b) = Clamp(a, b)
        BY SameNames
      <3>3. Codes!Within(Y - v, Rows) = Clamp(Y - v, Rows)
        BY <3>1, <3>2
      <3> QED
        BY <3>2, <3>3, Zenon DEF Codes!UpTo
    <2>2. CASE v <= Y
      <3>1. dest = Y - v
        BY <1>1, <2>2 DEF Min2
      <3>2. stops <=> Y >= screen.top /\ Y - v < screen.top
        BY <1>1, <2>2, <3>1
      <3> HIDE DEF dest, stops
      <3> QED
        BY <1>1, <2>1, <2>2, <3>1, <3>2, Sizes DEF Clamp
    <2>3. CASE v > Y
      <3>1. dest = 0
        BY <1>1, <2>3 DEF Min2
      <3>2. stops <=> Y >= screen.top /\ 0 < screen.top
        BY <1>1, <2>3, <3>1
      <3> HIDE DEF dest, stops
      <3> QED
        BY <1>1, <2>1, <2>3, <3>1, <3>2, Sizes DEF Clamp
    <2> QED
      BY <1>1, <2>2, <2>3
  <1> HIDE DEF y
  <1> QED
    BY <1>2, <1>3, <1>4, <1>5, HeldProper, SteersTo

LEMMA DownMeans ==
  ASSUME Inv, NEW v \in Nat, NEW x \in {X, 0}, Shows(CursorDown(Held, x, v)),
         Y # screen.bottom
  PROVE  Codes!Keeps /\ Codes!SameRegion /\ Codes!Goes(x, Codes!DownTo(v))
  <1> DEFINE dest == Y + Min2(v, Rows - 1 - Y)
             meets(m) == Y <= m /\ m <= dest
             stops == (meets(screen.top) \/ meets(screen.bottom)) /\ dest >= screen.bottom
             y == IF stops THEN screen.bottom - 1 ELSE dest
  <1>1. /\ X \in 0 .. Cols - 1 /\ X \in Nat /\ Y \in 0 .. Rows - 1 /\ Y \in Nat
        /\ screen.top \in 0 .. Rows - 1 /\ screen.bottom \in Nat
        /\ screen.top < screen.bottom /\ screen.bottom <= Rows /\ screen.top \in Nat
    BY ProperScreen, RegionSize DEF Proper
  <1>2. CursorDown(Held, x, v) = SetCursorPos(Held, x, y)
    BY HeldProper, Zenon DEF CursorDown
  <1>3. y \in Int /\ x \in Int
    BY <1>1, Sizes DEF Min2
  <1>4. Clamp(x, Cols) = x
    BY <1>1, Clamped, Sizes
  <1>5. dest = Clamp(Y + v, Rows)
    BY <1>1, Sizes DEF Min2, Clamp
  <1>6. dest \in Y .. Rows - 1
    BY <1>1, Sizes DEF Min2
  <1> HIDE DEF dest
  <1>7. Clamp(y, Rows) = Codes!DownTo(v)
    <2>1. Codes!DownTo(v) = IF Y < screen.bottom /\ dest >= screen.bottom
                              THEN screen.bottom - 1 ELSE dest
      <3>1. Y + v \in Int /\ Rows \in Int
        BY <1>1, Sizes
      <3>2. Codes!Y = Y /\ \A a \in Int, b \in Int : Codes!Within(a, b) = Clamp(a, b)
        BY SameNames
      <3>3. Codes!Within(Y + v, Rows) = dest
        BY <1>5, <3>1, <3>2
      <3> QED
        BY <3>2, <3>3, Zenon DEF Codes!DownTo
    <2>2. stops <=> Y < screen.bottom /\ dest >= screen.bottom
      BY <1>1, <1>6
    <2> HIDE DEF stops
    <2> QED
      BY <1>1, <1>6, <2>1, <2>2, Sizes DEF Clamp
  <1> HIDE DEF y
  <1> QED
    BY <1>2, <1>3, <1>4, <1>7, HeldProper, SteersTo

\* The other functions that only move the cursor.
LEMMA SteersMean ==
  ASSUME Inv, NEW f, NEW v \in Nat, NEW w \in Nat, NEW n,
         f \in Codes!Steering, f # "s",
         f \in {"B", "e", "E"} => Y # screen.bottom,
         f \in {"d", "G", "HPA"} => v # 0,
         Shows(Function(f, Held, v, w, n))
  PROVE  Codes!Keeps /\ Codes!Steers(f, v, w) /\ Codes!SameRegion
  <1>1. /\ X \in 0 .. Cols - 1 /\ X \in Nat /\ Y \in 0 .. Rows - 1 /\ Y \in Nat
        /\ X \in Int /\ Y \in Int /\ Cols \in Int /\ Rows \in Int
        /\ Cols \in Nat \ {0} /\ Rows \in Nat \ {0}
        /\ Codes!X = X /\ Codes!Y = Y
        /\ \A a \in Int, b \in Int : Codes!Within(a, b) = Clamp(a, b)
        /\ Clamp(X, Cols) = X /\ Clamp(Y, Rows) = Y
    BY ProperScreen, SameNames, Clamped, Sizes
  <1>2. ASSUME NEW x \in Int, NEW y \in Int, Shows(SetCursorPos(Held, x, y))
        PROVE  /\ Codes!Keeps /\ Codes!SameRegion
               /\ Codes!Goes(Clamp(x, Cols), Clamp(y, Rows))
    BY <1>2, HeldProper, SteersTo
  <1>3. /\ v + X \in Int /\ X - v \in Int /\ v - 1 \in Int /\ w - 1 \in Int /\ X + v \in Int
    BY <1>1
  <1>4. CASE f = "A"
    BY <1>1, <1>4, UpMeans DEF Function, Codes!Steers
  <1>5. CASE f = "F"
    BY <1>1, <1>5, UpMeans DEF Function, Codes!Steers
  <1>6. CASE f \in {"B", "e"}
    BY <1>1, <1>6, DownMeans DEF Function, Codes!Steers
  <1>7. CASE f = "E"
    BY <1>1, <1>7, DownMeans DEF Function, Codes!Steers
  <1>8. CASE f \in {"C", "a"}
    <2> DEFINE x == X + Min2(v, Cols - 1 - X)
    <2>1. x \in Int /\ Clamp(x, Cols) = Codes!Within(X + v, Cols)
      <3>1. Codes!Within(X + v, Cols) = Clamp(X + v, Cols)
        BY <1>1, <1>3
      <3> QED
        BY <1>1, <3>1 DEF Min2, Clamp
    <2>2. Function(f, Held, v, w, n) = SetCursorPos(Held, x, Y)
      BY <1>8 DEF Function
    <2> HIDE DEF x
    <2>3. Codes!Keeps /\ Codes!SameRegion /\ Codes!Goes(Codes!Within(X + v, Cols), Y)
      BY <1>1, <1>2, <2>1, <2>2
    <2> QED
      BY <1>1, <1>8, <2>3, Zenon DEF Codes!Steers
  <1>9. CASE f = "D"
    <2> DEFINE x == X - Min2(v, X)
    <2>1. x \in Int /\ Clamp(x, Cols) = Codes!Within(X - v, Cols)
      <3>1. Codes!Within(X - v, Cols) = Clamp(X - v, Cols)
        BY <1>1, <1>3
      <3> QED
        BY <1>1, <3>1 DEF Min2, Clamp
    <2>2. Function(f, Held, v, w, n) = SetCursorPos(Held, x, Y)
      BY <1>9 DEF Function
    <2> HIDE DEF x
    <2>3. Codes!Keeps /\ Codes!SameRegion /\ Codes!Goes(Codes!Within(X - v, Cols), Y)
      BY <1>1, <1>2, <2>1, <2>2
    <2> QED
      BY <1>1, <1>9, <2>3, Zenon DEF Codes!Steers
  <1>10. ASSUME NEW m \in Nat \ {0}
         PROVE  /\ Coordinate(v, m) \in Int /\ Place(v, m) \in Int /\ Place(w, m) \in Int
                /\ v # 0 => Clamp(Coordinate(v, m), m) = Codes!Within(v - 1, m)
                /\ Clamp(Place(v, m), m) = Codes!Within(v - 1, m)
                /\ Clamp(Place(w, m), m) = Codes!Within(w - 1, m)
    <2>1. Codes!Within(v - 1, m) = Clamp(v - 1, m) /\ Codes!Within(w - 1, m) = Clamp(w - 1, m)
      BY <1>1, <1>3
    <2> QED
      BY <1>1, <2>1 DEF Coordinate, Place, Min2, Clamp
  <1>11. CASE f = "d"
    <2>1. Function(f, Held, v, w, n) = SetCursorPos(Held, X, Coordinate(v, Rows))
      BY <1>11 DEF Function
    <2>2. Codes!Keeps /\ Codes!SameRegion /\ Codes!Goes(X, Codes!Within(v - 1, Rows))
      BY <1>1, <1>2, <1>10, <1>11, <2>1
    <2> QED
      BY <1>1, <1>11, <2>2, Zenon DEF Codes!Steers
  <1>12. CASE f \in {"G", "HPA"}
    <2>1. Function(f, Held, v, w, n) = SetCursorPos(Held, Coordinate(v, Cols), Y)
      BY <1>12 DEF Function
    <2>2. Codes!Keeps /\ Codes!SameRegion /\ Codes!Goes(Codes!Within(v - 1, Cols), Y)
      BY <1>1, <1>2, <1>10, <1>12, <2>1
    <2> QED
      BY <1>1, <1>12, <2>2, Zenon DEF Codes!Steers
  <1>13. CASE f \in {"H", "f"}
    <2>1. Function(f, Held, v, w, n) = SetCursorPos(Held, Place(w, Cols), Place(v, Rows))
      BY <1>13 DEF Function
    <2>2. /\ Codes!Keeps /\ Codes!SameRegion
          /\ Codes!Goes(Codes!Within(w - 1, Cols), Codes!Within(v - 1, Rows))
      BY <1>1, <1>2, <1>10, <2>1
    <2> QED
      BY <1>13, <2>2, Zenon DEF Codes!Steers
  <1>14. CASE f = "u"
    <2>1. Function(f, Held, v, w, n) = SetCursorPos(Held, savedCursor.x, savedCursor.y)
      BY <1>14 DEF Function
    <2>2. /\ savedCursor.x \in Int /\ savedCursor.y \in Int
          /\ savedCursor = [x |-> savedCursor.x, y |-> savedCursor.y]
          /\ Clamp(savedCursor.x, Cols) = savedCursor.x
          /\ Clamp(savedCursor.y, Rows) = savedCursor.y
      BY <1>1, ProperScreen, Clamped DEF Places
    <2>3. Codes!Keeps /\ Codes!SameRegion /\ Codes!Goes(savedCursor.x, savedCursor.y)
      BY <1>2, <2>1, <2>2
    <2>4. screen'.cursor = savedCursor
      BY <2>2, <2>3 DEF Codes!Goes
    <2> QED
      BY <1>14, <2>3, <2>4, Zenon DEF Codes!Steers
  <1> QED
    BY <1>4, <1>5, <1>6, <1>7, <1>8, <1>9, <1>11, <1>12, <1>13, <1>14 DEF Codes!Steering

-----------------------------------------------------------------------------
(* Functions that erase.                                                     *)

\* A function that ends where the cursor was, on the screen.
LEMMA EndsHere ==
  ASSUME Inv, NEW s \in Screens, Beside(Held, s), Shows(SetCursorPos(s, X, Y))
  PROVE  /\ screen'.cells = s.cells /\ Codes!Stays /\ Codes!SameRegion
  <1> DEFINE t == SetCursorPos(s, X, Y)
  <1>1. X \in Int /\ Y \in Int /\ Clamp(X, Cols) = X /\ Clamp(Y, Rows) = Y
    BY ProperScreen, Clamped, Sizes
  <1>2. /\ t.cells = s.cells /\ Beside(s, t) /\ t.cursor = [x |-> X, y |-> Y]
    BY <1>1, CursorGoes
  <1> HIDE DEF t
  <1>3. /\ screen'.cells = s.cells /\ screen'.cursor = [x |-> X, y |-> Y]
        /\ screen'.top = screen.top /\ screen'.bottom = screen.bottom
    BY <1>2, HeldProper, Zenon DEF Shows, Beside, t
  <1>4. Codes!Stays
    <2>1. Codes!X = X /\ Codes!Y = Y
      BY SameNames
    <2>2. screen'.cursor \in {screen.cursor, [x |-> X, y |-> Y]}
      BY <1>3
    <2> QED
      BY <2>1, <2>2, Zenon DEF Codes!Stays
  <1> QED
    BY <1>3, <1>4, RegionKept

\* A function that does not touch the cursor.
LEMMA StaysHere ==
  ASSUME Inv, NEW s \in Screens, SameBut(Held, s), Shows(s)
  PROVE  /\ screen'.cells = s.cells /\ Codes!Stays /\ Codes!SameRegion
  <1>1. /\ screen'.cells = s.cells /\ screen'.cursor = screen.cursor
        /\ screen'.top = screen.top /\ screen'.bottom = screen.bottom
    BY HeldProper, Zenon DEF Shows, SameBut, Beside
  <1>2. screen'.cursor \in {screen.cursor, [x |-> Codes!X, y |-> Codes!Y]}
    BY <1>1
  <1> QED
    BY <1>1, <1>2, RegionKept, Zenon DEF Codes!Stays

LEMMA NothingHere ==
  ASSUME Inv, Shows(Held)
  PROVE  Codes!Keeps /\ Codes!Stays /\ Codes!SameRegion
  <1>1. Held \in Screens /\ SameBut(Held, Held) /\ Held.cells = screen.cells
    BY HeldProper DEF SameBut, Beside
  <1> QED
    BY <1>1, StaysHere, GlyphsKept

\* Held with the cursor moved.
LEMMA HeldAt ==
  ASSUME Inv, NEW x \in 0 .. Cols - 1, NEW y \in 0 .. Rows - 1
  PROVE  LET s == SetCursorPos(Held, x, y)
         IN  /\ s \in Screens /\ Beside(Held, s) /\ s.cells = screen.cells
             /\ s.cursor = [x |-> x, y |-> y] /\ s.cursor.x = x /\ s.cursor.y = y
             /\ ~s.autoscroll /\ s.bottom = screen.bottom
             /\ Ink(s, Space).c = Space
  <1> DEFINE s == SetCursorPos(Held, x, y)
  <1>1. x \in Int /\ y \in Int /\ Clamp(x, Cols) = x /\ Clamp(y, Rows) = y
    BY Clamped, Sizes
  <1>2. /\ s \in Screens /\ s.cells = Held.cells /\ Beside(Held, s)
        /\ s.cursor = [x |-> x, y |-> y]
    BY <1>1, HeldProper, CursorGoes
  <1> HIDE DEF s
  <1>3. Ink(s, Space).c = Space
    BY <1>2, InkTyped, Sizes
  <1>4. /\ s.cells = screen.cells /\ s.cursor.x = x /\ s.cursor.y = y
        /\ ~s.autoscroll /\ s.bottom = screen.bottom
    BY <1>2, HeldProper DEF Beside
  <1> QED
    BY <1>2, <1>3, <1>4 DEF s

\* The cursor where the functions see it.
LEMMA HereIs ==
  ASSUME Inv, screen.cursor.x # Cols, screen.cursor.y < Rows
  PROVE  /\ screen.cursor.x = X /\ screen.cursor.y = Y
         /\ Held.cursor.x = X /\ Held.cursor.y = Y
         /\ Held \in Screens /\ ~Held.autoscroll /\ Held.cells = screen.cells
         /\ Held.bottom = screen.bottom /\ Ink(Held, Space).c = Space
  <1>1. Y = IF screen.cursor.y >= Rows THEN Rows - 1 ELSE screen.cursor.y
    BY HereTyped DEF Inv
  <1>2. screen.cursor.x = X /\ screen.cursor.y = Y
    BY <1>1, SameNames, Sizes
  <1>3. Ink(Held, Space).c = Space
    BY HeldProper, InkTyped, Sizes
  <1> QED
    BY <1>2, <1>3, HeldProper

LEMMA CharactersErased ==
  ASSUME Inv, NEW v \in Nat,
         v > 0 => /\ screen.cursor.x # Cols /\ screen.cursor.y < Rows
                  /\ X + v <= Cols \/ Y >= screen.bottom - 1,
         Shows(EraseCharacters(Held, v))
  PROVE  /\ Codes!Erases({p \in Codes!OnLine : p[1] \in Codes!X .. Codes!X + v - 1})
         /\ Codes!Stays /\ Codes!SameRegion
  <1> DEFINE t == Blanks(Held, v)
             A == Span(Y, X, X + v)
             B == {p \in Codes!OnLine : p[1] \in Codes!X .. Codes!X + v - 1}
  <1>1. /\ X \in 0 .. Cols - 1 /\ X \in Nat /\ Y \in 0 .. Rows - 1 /\ Y \in Nat
        /\ Held \in Screens /\ Held.cells = screen.cells
        /\ Ink(Held, Space).c = Space /\ Held.cells \in [Positions -> Cells]
    BY ProperScreen, HeldProper, InkTyped, Sizes DEF Screens
  <1>2. EraseCharacters(Held, v) = SetCursorPos(t, X, Y)
    BY Zenon DEF EraseCharacters
  <1>3. t \in Screens /\ Beside(Held, t) /\ t.cells = Blanked(Held.cells, A, Ink(Held, Space))
    <2>1. CASE v = 0
      <3>1. t = Held
        <4>1. ~(v > 0)
          BY <2>1
        <4> QED
          BY <4>1, Zenon DEF Blanks, Loop
      <3>2. \A q \in Positions : q \notin A
        <4>1. X + v = X
          BY <1>1, <2>1
        <4> QED
          BY <1>1, <4>1, SpanGrows
      <3> HIDE DEF A
      <3>3. Blanked(Held.cells, A, Ink(Held, Space)) = Held.cells
        BY <1>1, <3>2, BlankedNone
      <3> QED
        BY <1>1, <3>1, <3>3 DEF Beside
    <2>2. CASE v # 0
      <3>1. v > 0
        BY <2>2
      <3>2. /\ Held.cursor.x = X /\ Held.cursor.y = Y /\ Held.bottom = screen.bottom
            /\ ~Held.autoscroll
        BY <3>1, HereIs
      <3>3. Held.cursor.x + v <= Cols \/ Held.cursor.y >= Held.bottom - 1
        BY <3>1, <3>2
      <3>4. LET r == Blanks(Held, v)
            IN  /\ r \in Screens /\ Beside(Held, r)
                /\ r.cells = Blanked(Held.cells,
                     Span(Held.cursor.y, Held.cursor.x, Held.cursor.x + v), Ink(Held, Space))
        BY <1>1, <3>2, <3>3, BlanksOnLine, Zenon
      <3> QED
        BY <3>2, <3>4, Zenon
    <2> QED
      BY <2>1, <2>2
  <1> HIDE DEF t
  <1>4. \A p \in Positions : p \in A <=> p \in B
    <2>1. Codes!X = X /\ Codes!Y = Y /\ Codes!Positions = Positions
      BY SameNames
    <2>2. TAKE p \in Positions
    <2>3. p \in Codes!OnLine <=> p[2] = Y
      BY <2>1 DEF Codes!OnLine
    <2>4. p \in B <=> p \in Codes!OnLine /\ p[1] \in X .. X + v - 1
      BY <2>1, Zenon
    <2>5. p \in A <=> p[2] = Y /\ p[1] \in X .. X + v - 1
      <3>1. (X + v) - 1 = X + v - 1
        BY <1>1
      <3> QED
        BY <3>1, Zenon DEF Span
    <2> QED
      BY <2>3, <2>4, <2>5, Zenon
  <1> HIDE DEF A, B
  <1>5. screen'.cells = t.cells /\ Codes!Stays /\ Codes!SameRegion
    BY <1>2, <1>3, EndsHere
  <1>6. Codes!Erases(B)
    <2>1. screen'.cells = Blanked(screen.cells, A, Ink(Held, Space))
      BY <1>1, <1>3, <1>5, Zenon
    <2>2. PICK ink : ink = Ink(Held, Space)
      OBVIOUS
    <2>3. PICK a : a = A
      OBVIOUS
    <2>4. PICK b : b = B
      OBVIOUS
    <2>5. /\ screen'.cells = Blanked(screen.cells, a, ink) /\ ink.c = Space
          /\ \A p \in Positions : p \in a <=> p \in b
      BY <1>1, <1>4, <2>1, <2>2, <2>3, <2>4, Zenon
    <2>6. Codes!Erases(b)
      BY <2>5, GlyphsErased, Zenon
    <2> QED
      BY <2>4, <2>6, Zenon DEF Codes!Erases
  <1> QED
    BY <1>5, <1>6 DEF B

LEMMA LineErased ==
  ASSUME Inv, NEW v \in Nat,
         v = 0 => screen.cursor.x # Cols /\ screen.cursor.y < Rows,
         Shows(EraseLine(Held, v))
  PROVE  Codes!ErasesLine(v) /\ Codes!Stays /\ Codes!SameRegion
  <1>1. /\ X \in 0 .. Cols - 1 /\ X \in Nat /\ Y \in 0 .. Rows - 1 /\ Y \in Nat
        /\ 0 \in 0 .. Cols - 1 /\ Cols \in Nat
        /\ Codes!X = X /\ Codes!Y = Y /\ Codes!Positions = Positions
        /\ \A p \in Positions : p[1] \in 0 .. Cols - 1
    BY ProperScreen, SameNames, PositionIs, Sizes
  <1>2. CASE v = 0
    <2> DEFINE t == Blanks(Held, Cols - X)
    <2>1. EraseLine(Held, v) = SetCursorPos(t, X, Y)
      BY <1>2 DEF EraseLine
    <2>2. /\ Held.cursor.x = X /\ Held.cursor.y = Y /\ ~Held.autoscroll
          /\ Held \in Screens /\ Held.cells = screen.cells /\ Ink(Held, Space).c = Space
      BY <1>2, HereIs
    <2>3. Held.cursor.x + (Cols - X) <= Cols /\ Cols - X \in Nat /\ X + (Cols - X) = Cols
      BY <1>1, <2>2
    <2>4. /\ t \in Screens /\ Beside(Held, t)
          /\ t.cells = Blanked(screen.cells, Span(Y, X, Cols), Ink(Held, Space))
      BY <2>2, <2>3, BlanksOnLine
    <2> HIDE DEF t
    <2>5. screen'.cells = t.cells /\ Codes!Stays /\ Codes!SameRegion
      BY <2>1, <2>4, EndsHere
    <2>6. \A q \in Positions : q \in Span(Y, X, Cols)
                                 <=> q \in {p \in Codes!OnLine : p[1] >= Codes!X}
      BY <1>1 DEF Span, Codes!OnLine
    <2>7. Codes!Erases({p \in Codes!OnLine : p[1] >= Codes!X})
      <3>1. screen'.cells = Blanked(screen.cells, Span(Y, X, Cols), Ink(Held, Space))
        BY <2>4, <2>5, Zenon
      <3>2. PICK ink : ink = Ink(Held, Space)
        OBVIOUS
      <3>3. PICK a : a = Span(Y, X, Cols)
        OBVIOUS
      <3>4. PICK b : b = {p \in Codes!OnLine : p[1] >= Codes!X}
        OBVIOUS
      <3>5. /\ screen'.cells = Blanked(screen.cells, a, ink) /\ ink.c = Space
            /\ \A q \in Positions : q \in a <=> q \in b
        BY <2>2, <2>6, <3>1, <3>2, <3>3, <3>4, Zenon
      <3>6. Codes!Erases(b)
        BY <3>5, GlyphsErased, Zenon
      <3> QED
        BY <3>4, <3>6, Zenon DEF Codes!Erases
    <2> QED
      BY <1>2, <2>5, <2>7 DEF Codes!ErasesLine
  <1>3. CASE v = 1
    <2> DEFINE s == SetCursorPos(Held, 0, Y)
               t == Blanks(s, X)
    <2>1. EraseLine(Held, v) = t
      BY <1>3 DEF EraseLine
    <2>2. /\ s \in Screens /\ Beside(Held, s) /\ s.cells = screen.cells
          /\ s.cursor = [x |-> 0, y |-> Y] /\ s.cursor.x = 0 /\ s.cursor.y = Y
          /\ ~s.autoscroll /\ s.bottom = screen.bottom
          /\ Ink(s, Space).c = Space
      BY <1>1, HeldAt, Zenon
    <2> HIDE DEF s
    <2>3. s.cursor.x + X <= Cols /\ 0 + X = X
      BY <1>1, <2>2
    <2>4. /\ t \in Screens /\ Beside(s, t) /\ t.cursor = [x |-> X, y |-> Y]
          /\ t.cells = Blanked(screen.cells, Span(Y, 0, X), Ink(s, Space))
      BY <1>1, <2>2, <2>3, BlanksOnLine
    <2> HIDE DEF t
    <2>5. /\ screen'.cells = t.cells /\ screen'.cursor = [x |-> X, y |-> Y]
          /\ screen'.top = screen.top /\ screen'.bottom = screen.bottom
      BY <2>1, <2>2, <2>4, HeldProper, Zenon DEF Shows, Beside
    <2>6. \A q \in Positions : q \in Span(Y, 0, X)
                                 <=> q \in {p \in Codes!OnLine : p[1] < Codes!X}
      BY <1>1 DEF Span, Codes!OnLine
    <2>7. Codes!Erases({p \in Codes!OnLine : p[1] < Codes!X})
      <3>1. screen'.cells = Blanked(screen.cells, Span(Y, 0, X), Ink(s, Space))
        BY <2>4, <2>5, Zenon
      <3>2. PICK ink : ink = Ink(s, Space)
        OBVIOUS
      <3>3. PICK a : a = Span(Y, 0, X)
        OBVIOUS
      <3>4. PICK b : b = {p \in Codes!OnLine : p[1] < Codes!X}
        OBVIOUS
      <3>5. /\ screen'.cells = Blanked(screen.cells, a, ink) /\ ink.c = Space
            /\ \A q \in Positions : q \in a <=> q \in b
        BY <2>2, <2>6, <3>1, <3>2, <3>3, <3>4, Zenon
      <3>6. Codes!Erases(b)
        BY <3>5, GlyphsErased, Zenon
      <3> QED
        BY <3>4, <3>6, Zenon DEF Codes!Erases
    <2>8. screen'.cursor \in {screen.cursor, [x |-> Codes!X, y |-> Codes!Y]}
      BY <1>1, <2>5
    <2> QED
      <3>1. Codes!Stays
        BY <2>8, Zenon DEF Codes!Stays
      <3> QED
        BY <1>3, <2>5, <2>7, <3>1, RegionKept DEF Codes!ErasesLine
  <1>4. CASE v = 2
    <2> DEFINE s == SetCursorPos(Held, 0, Y)
               t == Blanks(s, Cols)
    <2>1. EraseLine(Held, v) = SetCursorPos(t, X, Y)
      BY <1>4 DEF EraseLine
    <2>2. /\ s \in Screens /\ Beside(Held, s) /\ s.cells = screen.cells
          /\ s.cursor = [x |-> 0, y |-> Y] /\ s.cursor.x = 0 /\ s.cursor.y = Y
          /\ ~s.autoscroll /\ s.bottom = screen.bottom
          /\ Ink(s, Space).c = Space
      BY <1>1, HeldAt, Zenon
    <2> HIDE DEF s
    <2>3. s.cursor.x + Cols <= Cols /\ 0 + Cols = Cols
      BY <1>1, <2>2
    <2>4. /\ t \in Screens /\ Beside(s, t)
          /\ t.cells = Blanked(screen.cells, Span(Y, 0, Cols), Ink(s, Space))
      <3>1. LET r == Blanks(s, Cols)
            IN  /\ r \in Screens /\ Beside(s, r)
                /\ r.cursor = [x |-> s.cursor.x + Cols, y |-> s.cursor.y]
                /\ r.cells = Blanked(s.cells, Span(s.cursor.y, s.cursor.x, s.cursor.x + Cols),
                                     Ink(s, Space))
        BY <1>1, <2>2, <2>3, BlanksOnLine, Zenon
      <3> QED
        BY <2>2, <2>3, <3>1, Zenon
    <2> HIDE DEF t
    <2>5. Beside(Held, t)
      BY <2>2, <2>4 DEF Beside
    <2>6. screen'.cells = t.cells /\ Codes!Stays /\ Codes!SameRegion
      BY <2>1, <2>4, <2>5, EndsHere
    <2>7. \A p \in Positions : p \in Span(Y, 0, Cols) <=> p \in Codes!OnLine
      BY <1>1 DEF Span, Codes!OnLine
    <2>8. Codes!Erases(Codes!OnLine)
      <3>1. screen'.cells = Blanked(screen.cells, Span(Y, 0, Cols), Ink(s, Space))
        BY <2>4, <2>6, Zenon
      <3>2. PICK ink : ink = Ink(s, Space)
        OBVIOUS
      <3>3. PICK a : a = Span(Y, 0, Cols)
        OBVIOUS
      <3>4. PICK b : b = Codes!OnLine
        OBVIOUS
      <3>5. /\ screen'.cells = Blanked(screen.cells, a, ink) /\ ink.c = Space
            /\ \A q \in Positions : q \in a <=> q \in b
        BY <2>2, <2>7, <3>1, <3>2, <3>3, <3>4, Zenon
      <3>6. Codes!Erases(b)
        BY <3>5, GlyphsErased, Zenon
      <3> QED
        BY <3>4, <3>6, Zenon DEF Codes!Erases
    <2> QED
      BY <1>4, <2>6, <2>8, Zenon DEF Codes!ErasesLine
  <1>5. CASE v > 2
    <2>1. EraseLine(Held, v) = Held
      BY <1>5 DEF EraseLine
    <2>2. Codes!Keeps /\ Codes!Stays /\ Codes!SameRegion
      BY <2>1, NothingHere
    <2> QED
      BY <1>5, <2>2, Zenon DEF Codes!ErasesLine
  <1> QED
    BY <1>2, <1>3, <1>4, <1>5

\* The whole screen erased, without the cursor moving.
LEMMA Cleared ==
  ASSUME Inv, Shows(Clear(Held, FALSE))
  PROVE  Codes!Erases(Codes!Positions) /\ Codes!Stays /\ Codes!SameRegion
  <1> DEFINE cells == [p \in Positions |-> Ink(Held, Space)]
             t == [Held EXCEPT !.cells = cells]
  <1>1. Held \in Screens /\ Ink(Held, Space) \in Cells /\ Ink(Held, Space).c = Space
    BY HeldProper, InkTyped, Sizes
  <1>2. Clear(Held, FALSE) = t
    <2>1. Clear(Held, FALSE) = [Held EXCEPT !.cells = cells, !.cursor = Held.cursor]
      BY DEF Clear
    <2>2. [Held EXCEPT !.cells = cells, !.cursor = Held.cursor] = t
      <3> HIDE DEF cells
      <3> QED
        BY <1>1 DEF Screens
    <2> QED
      BY <2>1, <2>2, Zenon
  <1>3. cells \in [Positions -> Cells]
    BY <1>1
  <1>4. cells = Blanked(Held.cells, Positions, Ink(Held, Space))
    BY DEF Blanked
  <1> HIDE DEF cells
  <1>5. LET r == [Held EXCEPT !.cells = cells]
        IN  r \in Screens /\ r.cells = cells /\ SameBut(Held, r)
    BY <1>1, <1>3, CellsSet, Zenon
  <1>6. t \in Screens /\ t.cells = cells /\ SameBut(Held, t)
    BY <1>5
  <1> HIDE DEF t
  <1>7. screen'.cells = t.cells /\ Codes!Stays /\ Codes!SameRegion
    BY <1>2, <1>6, StaysHere
  <1>8. PICK ink : ink = Ink(Held, Space)
    OBVIOUS
  <1>9. PICK a : a = Positions
    OBVIOUS
  <1>10. screen'.cells = Blanked(screen.cells, a, ink) /\ ink.c = Space
    BY <1>1, <1>4, <1>6, <1>7, <1>8, <1>9, HeldProper, Zenon
  <1>11. Codes!Erases(a)
    BY <1>10, GlyphsErased, Zenon
  <1>12. Codes!Positions = Positions
    BY SameNames
  <1> QED
    BY <1>7, <1>9, <1>11, <1>12, Zenon DEF Codes!Erases

LEMMA DisplayErased ==
  ASSUME Inv, NEW v \in Nat,
         v = 0 => /\ screen.cursor.x # Cols /\ screen.cursor.y < Rows
                  /\ Y >= Rows - 1 \/ (screen.bottom >= Rows /\ Cols >= Rows),
         v = 1 => Y < screen.bottom /\ Y < Cols,
         Shows(EraseDisplay(Held, v))
  PROVE  Codes!ErasesDisplay(v) /\ Codes!Stays /\ Codes!SameRegion
  <1>1. /\ X \in 0 .. Cols - 1 /\ X \in Nat /\ Y \in 0 .. Rows - 1 /\ Y \in Nat
        /\ 0 \in 0 .. Cols - 1 /\ 0 \in 0 .. Rows - 1 /\ Cols \in Nat /\ Rows \in Nat
        /\ Codes!X = X /\ Codes!Y = Y /\ Codes!Positions = Positions
        /\ \A p \in Positions : p[1] \in 0 .. Cols - 1 /\ p[2] \in 0 .. Rows - 1
    BY ProperScreen, SameNames, PositionIs, Sizes
  <1>2. \A p \in Positions : Codes!Before(p) <=> p[2] < Y \/ (p[2] = Y /\ p[1] < X)
    BY <1>1, Zenon DEF Codes!Before
  <1>3. CASE v = 0
    <2> DEFINE n == (Rows - Y - 1) * Cols + Cols - X
               t == Blanks(Held, n)
               B == {p \in Codes!Positions : ~Codes!Before(p)}
    <2>1. EraseDisplay(Held, v) = SetCursorPos(t, X, Y)
      BY <1>3 DEF EraseDisplay
    <2>2. /\ Held.cursor.x = X /\ Held.cursor.y = Y /\ ~Held.autoscroll
          /\ Held \in Screens /\ Held.cells = screen.cells /\ Ink(Held, Space).c = Space
          /\ Held.bottom = screen.bottom
      BY <1>3, HereIs
    <2>3. PICK ink : ink = Ink(Held, Space)
      OBVIOUS
    <2>4. PICK a : /\ t \in Screens /\ Beside(Held, t)
                   /\ t.cells = Blanked(screen.cells, a, ink)
                   /\ \A q \in Positions : q \in a <=> ~Codes!Before(q)
      <3>1. CASE Y >= Rows - 1
        <4>1. PICK m \in Nat : m = Cols - X
          BY <1>1
        <4>2. n = m
          <5>1. Rows - Y - 1 = 0
            BY <1>1, <3>1
          <5>2. (Rows - Y - 1) * Cols = 0
            BY <1>1, <5>1
          <5> QED
            BY <1>1, <4>1, <5>2
        <4>3. Held.cursor.x + m <= Cols /\ X + m = Cols
          BY <1>1, <2>2, <4>1
        <4>4. LET r == Blanks(Held, m)
              IN  /\ r \in Screens /\ Beside(Held, r)
                  /\ r.cells = Blanked(Held.cells,
                       Span(Held.cursor.y, Held.cursor.x, Held.cursor.x + m), Ink(Held, Space))
          BY <2>2, <4>3, BlanksOnLine, Zenon
        <4>5. /\ t \in Screens /\ Beside(Held, t)
              /\ t.cells = Blanked(screen.cells, Span(Y, X, Cols), ink)
          BY <2>2, <2>3, <4>2, <4>3, <4>4, Zenon
        <4>6. \A q \in Positions : q \in Span(Y, X, Cols) <=> ~Codes!Before(q)
          BY <1>1, <1>2, <3>1 DEF Span
        <4> QED
          BY <4>5, <4>6
      <3>2. CASE ~(Y >= Rows - 1)
        <4>1. screen.bottom >= Rows /\ Cols >= Rows
          BY <1>3, <3>2
        <4>2. PICK last \in Nat : last = Rows - 1
          BY <1>1, Sizes
        <4>3. /\ Held.cursor.x < Cols /\ Held.cursor.y <= last
              /\ last < Held.bottom /\ last < Cols /\ Cols \in 1 .. Cols
          <5>1. screen.bottom \in Nat
            BY HeldProper, RegionSize
          <5> QED
            BY <1>1, <2>2, <4>1, <4>2, <5>1, Sizes
        <4>4. n \in Nat /\ n = (last - Held.cursor.y) * Cols + Cols - Held.cursor.x
          <5>1. Rows - Y - 1 = last - Y /\ last - Y \in Nat
            BY <1>1, <4>2
          <5>2. PICK k \in Nat : k = (last - Y) * Cols
            BY <1>1, <5>1
          <5>3. n = k + Cols - X
            BY <5>1, <5>2, Zenon
          <5> HIDE DEF n
          <5>4. n \in Nat
            BY <1>1, <5>2, <5>3
          <5> QED
            BY <2>2, <5>2, <5>3, <5>4, Zenon
        <4> HIDE DEF n
        <4>5. LET r == Blanks(Held, n)
              IN  /\ r \in Screens /\ Beside(Held, r)
                  /\ r.cells = Blanked(Held.cells,
                       Before(Cols, last) \ Before(Held.cursor.x, Held.cursor.y),
                       Ink(Held, Space))
          BY <2>2, <4>2, <4>3, <4>4, BlanksOverLines, Zenon
        <4>6. /\ t \in Screens /\ Beside(Held, t)
              /\ t.cells = Blanked(screen.cells, Before(Cols, last) \ Before(X, Y), ink)
          BY <2>2, <2>3, <4>5, Zenon
        <4>7. \A q \in Positions :
                q \in Before(Cols, last) \ Before(X, Y) <=> ~Codes!Before(q)
          BY <1>1, <1>2, <4>2 DEF Before
        <4> QED
          BY <4>6, <4>7
      <3> QED
        BY <3>1, <3>2
    <2> HIDE DEF t, n
    <2>5. screen'.cells = t.cells /\ Codes!Stays /\ Codes!SameRegion
      BY <2>1, <2>4, EndsHere
    <2>6. \A q \in Positions : q \in B <=> ~Codes!Before(q)
      BY <1>1, Zenon
    <2> HIDE DEF B
    <2>7. PICK b : b = B
      OBVIOUS
    <2>8. /\ screen'.cells = Blanked(screen.cells, a, ink) /\ ink.c = Space
          /\ \A q \in Positions : q \in a <=> q \in b
      BY <2>2, <2>3, <2>4, <2>5, <2>6, <2>7, Zenon
    <2>9. Codes!Erases(b)
      BY <2>8, GlyphsErased, Zenon
    <2>10. Codes!Erases(B)
      BY <2>7, <2>9, Zenon DEF Codes!Erases
    <2> QED
      BY <1>3, <2>5, <2>10 DEF Codes!ErasesDisplay, B
  <1>4. CASE v = 1
    <2> DEFINE s == SetCursorPos(Held, 0, 0)
               n == Y * Cols + X + 1
               t == Blanks(s, n)
               B == {p \in Codes!Positions : Codes!Before(p)} \cup {Codes!Here}
    <2>1. EraseDisplay(Held, v) = SetCursorPos(t, X, Y)
      BY <1>4 DEF EraseDisplay
    <2>2. /\ s \in Screens /\ Beside(Held, s) /\ s.cells = screen.cells
          /\ s.cursor = [x |-> 0, y |-> 0] /\ s.cursor.x = 0 /\ s.cursor.y = 0
          /\ ~s.autoscroll /\ s.bottom = screen.bottom
          /\ Ink(s, Space).c = Space
      <3>1. PICK x \in 0 .. Cols - 1 : x = 0
        BY <1>1
      <3>2. PICK y \in 0 .. Rows - 1 : y = 0
        BY <1>1
      <3>3. LET r == SetCursorPos(Held, x, y)
            IN  /\ r \in Screens /\ Beside(Held, r) /\ r.cells = screen.cells
                /\ r.cursor = [x |-> x, y |-> y] /\ r.cursor.x = x /\ r.cursor.y = y
                /\ ~r.autoscroll /\ r.bottom = screen.bottom
                /\ Ink(r, Space).c = Space
        BY HeldAt, Zenon
      <3> QED
        BY <3>1, <3>2, <3>3, Zenon
    <2> HIDE DEF s
    <2>3. PICK x \in 1 .. Cols : x = X + 1
      BY <1>1
    <2>17. PICK last \in Nat : last = Y
      BY <1>1
    <2>4. /\ s.cursor.x < Cols /\ s.cursor.y <= last /\ last < s.bottom /\ last < Cols
      BY <2>17,  <1>1, <1>4, <2>2, Sizes
    <2>5. n \in Nat /\ n = (last - s.cursor.y) * Cols + x - s.cursor.x
      <3>1. PICK k \in Nat : k = Y * Cols
        BY <1>1
      <3>2. n = k + X + 1
        BY <3>1, Zenon
      <3>3. last - s.cursor.y = Y /\ k + X + 1 = k + x - s.cursor.x /\ k + X + 1 \in Nat
        BY <1>1, <2>2, <2>3, <2>17
      <3> HIDE DEF n
      <3> QED
        BY <3>1, <3>2, <3>3, Zenon
    <2> HIDE DEF n
    <2>6. LET r == Blanks(s, n)
          IN  /\ r \in Screens /\ Beside(s, r)
              /\ r.cells = Blanked(s.cells,
                   Before(x, last) \ Before(s.cursor.x, s.cursor.y), Ink(s, Space))
      <3>1. s \in Screens /\ ~s.autoscroll
        BY <2>2
      <3> QED
        BY <3>1, <2>4, <2>5, BlanksOverLines, Zenon
    <2>7. PICK ink : ink = Ink(s, Space)
      OBVIOUS
    <2>8. PICK a : a = Before(x, last) \ Before(0, 0)
      OBVIOUS
    <2>9. /\ t \in Screens /\ Beside(s, t) /\ t.cells = Blanked(screen.cells, a, ink)
      BY <2>2, <2>6, <2>7, <2>8, <2>17, Zenon
    <2> HIDE DEF t
    <2>10. Beside(Held, t)
      BY <2>2, <2>9 DEF Beside
    <2>11. screen'.cells = t.cells /\ Codes!Stays /\ Codes!SameRegion
      BY <2>1, <2>9, <2>10, EndsHere
    <2>12. \A q \in Positions : q \in a <=> q \in B
      <3>1. Codes!Here = <<X, Y>>
        BY <1>1, Zenon DEF Codes!Here
      <3>2. TAKE q \in Positions
      <3>3. q \in a <=> q[2] < Y \/ (q[2] = Y /\ q[1] <= X)
        BY <1>1, <2>3, <2>8, <2>17 DEF Before
      <3>4. q = <<X, Y>> <=> q[1] = X /\ q[2] = Y
        BY PositionIs
      <3>5. q \in B <=> q[2] < Y \/ (q[2] = Y /\ q[1] < X) \/ q = <<X, Y>>
        BY <1>1, <1>2, <3>1, Zenon
      <3> HIDE DEF B
      <3> QED
        BY <1>1, <3>3, <3>4, <3>5
    <2> HIDE DEF B
    <2>13. PICK b : b = B
      OBVIOUS
    <2>14. /\ screen'.cells = Blanked(screen.cells, a, ink) /\ ink.c = Space
           /\ \A q \in Positions : q \in a <=> q \in b
      BY <2>2, <2>7, <2>9, <2>11, <2>12, <2>13, Zenon
    <2>15. Codes!Erases(b)
      BY <2>14, GlyphsErased, Zenon
    <2>16. Codes!Erases(B)
      BY <2>13, <2>15, Zenon DEF Codes!Erases
    <2> QED
      BY <1>4, <2>11, <2>16 DEF Codes!ErasesDisplay, B
  <1>5. CASE v \in {2, 3}
    <2>1. EraseDisplay(Held, v) = Clear(Held, FALSE)
      BY <1>5 DEF EraseDisplay
    <2>2. Codes!Erases(Codes!Positions) /\ Codes!Stays /\ Codes!SameRegion
      BY <2>1, Cleared
    <2> QED
      BY <1>5, <2>2 DEF Codes!ErasesDisplay
  <1>6. CASE v > 3
    <2>1. EraseDisplay(Held, v) = Held
      <3>1. v # 0 /\ v # 1 /\ v \notin {2, 3}
        BY <1>6
      <3> QED
        BY <3>1, Zenon DEF EraseDisplay
    <2>2. Codes!Keeps /\ Codes!Stays /\ Codes!SameRegion
      BY <2>1, NothingHere
    <2> QED
      BY <1>6, <2>2 DEF Codes!ErasesDisplay
  <1> QED
    BY <1>3, <1>4, <1>5, <1>6

-----------------------------------------------------------------------------
(* Functions that shift lines and characters.                                *)

LEMMA NoShift ==
  ASSUME Inv, screen'.cells = screen.cells, NEW first \in Nat, NEW last \in 0 .. Rows
  PROVE  Codes!Shifts(first, last, 0)
  <1>1. screen.cells \in [Positions -> Cells] /\ last - 1 \in Int /\ 0 \in Int
    BY ProperScreen, Sizes DEF Screens
  <1>2. PICK ink : ink = Ink(Held, Space)
    OBVIOUS
  <1>3. ink.c = Space
    BY <1>2, HeldProper, InkTyped, Sizes
  <1>4. screen'.cells = Rolled(screen.cells, first, last - 1, 0, ink)
    BY <1>1, RolledNone
  <1> QED
    BY <1>1, <1>3, <1>4, GlyphsShifted

\* Lines of the region from the cursor's line on move, if it is in the region.
LEMMA LinesShift ==
  ASSUME Inv, NEW n \in Int, NEW y \in Nat, y = Y, NEW last \in 0 .. Rows,
         last = screen.bottom,
         \/ n = 0 /\ screen'.cells = screen.cells
         \/ /\ Y \in screen.top .. screen.bottom - 1
            /\ screen'.cells = Rolled(screen.cells, y, last - 1, n, Ink(Held, Space))
  PROVE  IF Codes!Y \in screen.top .. screen.bottom - 1
           THEN Codes!Shifts(Codes!Y, screen.bottom, n) ELSE Codes!Keeps
  <1>1. Codes!Y = y /\ last = screen.bottom
    BY SameNames
  <1>2. PICK ink : ink = Ink(Held, Space)
    OBVIOUS
  <1>3. ink.c = Space
    BY <1>2, HeldProper, InkTyped, Sizes
  <1>4. CASE n = 0 /\ screen'.cells = screen.cells
    <2>1. Codes!Shifts(y, last, 0) /\ Codes!Keeps
      BY <1>4, NoShift, GlyphsKept
    <2>2. Codes!Shifts(Codes!Y, screen.bottom, n)
      BY <1>1, <1>4, <2>1, Zenon DEF Codes!Shifts
    <2> QED
      BY <2>1, <2>2, Zenon
  <1>5. CASE /\ Y \in screen.top .. screen.bottom - 1
             /\ screen'.cells = Rolled(screen.cells, y, last - 1, n, Ink(Held, Space))
    <2>1. screen'.cells = Rolled(screen.cells, y, last - 1, n, ink)
      BY <1>2, <1>5, Zenon
    <2>2. Codes!Shifts(y, last, n)
      BY <1>3, <2>1, GlyphsShifted
    <2>3. Codes!Shifts(Codes!Y, screen.bottom, n)
      BY <1>1, <2>2, Zenon DEF Codes!Shifts
    <2> QED
      BY <1>1, <1>5, <2>3, Zenon
  <1> QED
    BY <1>4, <1>5

Rolling(v) == Loop(v, LAMBDA t, k : Scroll(t), Held)

LEMMA LinesDeleted ==
  ASSUME Inv, NEW v \in Nat, v > 0 => Y = screen.top, Shows(Rolling(v))
  PROVE  /\ IF Codes!Y \in screen.top .. screen.bottom - 1
              THEN Codes!Shifts(Codes!Y, screen.bottom, v) ELSE Codes!Keeps
         /\ Codes!Stays /\ Codes!SameRegion
  <1> DEFINE t == Rolling(v)
  <1>1. /\ Y \in Nat /\ v \in Int /\ Held \in Screens /\ Held.top < Held.bottom
        /\ Held.top = screen.top /\ Held.bottom = screen.bottom
        /\ Held.cells = screen.cells
        /\ screen.top \in Nat /\ screen.bottom \in 0 .. Rows /\ screen.top < screen.bottom
    BY ProperScreen, HeldProper, RegionSize, Sizes
  <1>2. PICK y \in Nat : y = Y
    BY <1>1
  <1>3. PICK last \in 0 .. Rows : last = screen.bottom
    BY <1>1
  <1>4. CASE v = 0
    <2>1. t = Held
      <3>1. ~(v > 0)
        BY <1>4
      <3> QED
        BY <3>1, Zenon DEF Loop, Rolling
    <2> HIDE DEF t
    <2>2. Shows(Held) /\ SameBut(Held, Held)
      BY <2>1, Zenon DEF t, SameBut, Beside
    <2>3. screen'.cells = screen.cells /\ Codes!Stays /\ Codes!SameRegion
      BY <1>1, <2>2, StaysHere
    <2> QED
      BY <1>1, <1>2, <1>3, <1>4, <2>3, LinesShift
  <1>5. CASE v # 0
    <2>1. /\ t \in Screens /\ SameBut(Held, t)
          /\ t.cells = Rolled(Held.cells, Held.top, Held.bottom - 1, v, Ink(Held, Space))
      BY <1>1, ScrolledOften, Zenon DEF Rolling
    <2>2. Shows(t)
      OBVIOUS
    <2> HIDE DEF t
    <2>3. screen'.cells = t.cells /\ Codes!Stays /\ Codes!SameRegion
      BY <2>1, <2>2, StaysHere
    <2>4. Y = screen.top
      BY <1>5
    <2>5. screen'.cells = Rolled(screen.cells, y, last - 1, v, Ink(Held, Space))
      BY <1>1, <1>2, <1>3, <2>1, <2>3, <2>4, Zenon
    <2>6. Y \in screen.top .. screen.bottom - 1
      BY <1>1, <2>4
    <2> QED
      BY <1>1, <1>2, <1>3, <2>3, <2>5, <2>6, LinesShift
  <1> QED
    BY <1>4, <1>5

LEMMA LinesInserted ==
  ASSUME Inv, NEW v \in Nat, v > 0 => Y \in screen.top .. screen.bottom - 1,
         Shows(InsertLines(Held, v))
  PROVE  /\ IF Codes!Y \in screen.top .. screen.bottom - 1
              THEN Codes!Shifts(Codes!Y, screen.bottom, -v) ELSE Codes!Keeps
         /\ Codes!Stays /\ Codes!SameRegion
  <1> DEFINE r == [Held EXCEPT !.top = Y]
             u == Loop(v, LAMBDA t, k : Revscroll(t), r)
             s == [u EXCEPT !.top = Held.top]
  <1>1. /\ Y \in Nat /\ Y \in 0 .. Rows /\ Held \in Screens
        /\ Held.top = screen.top /\ Held.bottom = screen.bottom
        /\ Held.cells = screen.cells
        /\ screen.top \in Nat /\ screen.top \in 0 .. Rows /\ screen.bottom \in 0 .. Rows
        /\ screen.top < screen.bottom
    BY ProperScreen, HeldProper, RegionSize, Sizes
  <1>2. PICK y \in Nat : y = Y
    BY <1>1
  <1>3. PICK last \in 0 .. Rows : last = screen.bottom
    BY <1>1
  <1>4. PICK n \in Int : n = 0 - v /\ n = -v
    OBVIOUS
  <1>5. /\ r \in Screens /\ r.top = Y /\ r.bottom = Held.bottom /\ r.cells = Held.cells
        /\ r.text = Held.text /\ r.autoscroll = Held.autoscroll /\ r.cursor = Held.cursor
    BY <1>1 DEF Screens
  <1>6. Ink(r, Space) = Ink(Held, Space)
    BY <1>5, Zenon DEF Ink
  <1>7. InsertLines(Held, v) = s
    BY Zenon DEF InsertLines
  <1> HIDE DEF r
  <1>8. /\ u \in Screens /\ SameBut(r, u)
        /\ r.top < r.bottom =>
             u.cells = Rolled(r.cells, r.top, r.bottom - 1, 0 - v, Ink(r, Space))
    BY <1>5, RevscrolledOften, Zenon
  <1>9. v = 0 => u = r
    <2>1. v = 0 => ~(v > 0)
      OBVIOUS
    <2> QED
      BY <2>1, Zenon DEF Loop
  <1> HIDE DEF u
  <1>10. /\ s \in Screens /\ s.cells = u.cells /\ s.top = Held.top
         /\ s.bottom = u.bottom /\ s.text = u.text /\ s.autoscroll = u.autoscroll
         /\ s.cursor = u.cursor
    BY <1>1, <1>8 DEF Screens
  <1>11. Shows(s)
    BY <1>7, Zenon
  <1> HIDE DEF s
  <1>12. SameBut(Held, s)
    BY <1>5, <1>8, <1>10, Zenon DEF SameBut, Beside
  <1>13. screen'.cells = s.cells /\ Codes!Stays /\ Codes!SameRegion
    BY <1>10, <1>11, <1>12, StaysHere
  <1>14. \/ n = 0 /\ screen'.cells = screen.cells
         \/ /\ Y \in screen.top .. screen.bottom - 1
            /\ screen'.cells = Rolled(screen.cells, y, last - 1, n, Ink(Held, Space))
    <2>1. CASE v = 0
      <3>1. n = 0
        BY <1>4, <2>1
      <3> QED
        BY <1>1, <1>5, <1>9, <1>10, <1>13, <2>1, <3>1, Zenon
    <2>2. CASE v # 0
      <3>1. Y \in screen.top .. screen.bottom - 1
        BY <2>2
      <3>2. r.top < r.bottom
        BY <1>1, <1>5, <3>1
      <3>3. screen'.cells = Rolled(screen.cells, y, last - 1, n, Ink(Held, Space))
        BY <1>1, <1>2, <1>3, <1>4, <1>5, <1>6, <1>8, <1>10, <1>13, <3>2, Zenon
      <3> QED
        BY <3>1, <3>3
    <2> QED
      BY <2>1, <2>2
  <1>15. IF Codes!Y \in screen.top .. screen.bottom - 1
           THEN Codes!Shifts(Codes!Y, screen.bottom, n) ELSE Codes!Keeps
    BY <1>2, <1>3, <1>14, LinesShift
  <1> QED
    BY <1>4, <1>13, <1>15, Zenon DEF Codes!Shifts

LEMMA CharactersInserted ==
  ASSUME Inv, NEW v \in Nat, v # 0, Shows(InsertCharacters(Held, v))
  PROVE  Codes!Slides(-v) /\ Codes!Stays /\ Codes!SameRegion
  <1> DEFINE r == Loop(Cols - X, LAMBDA t, k : Inserted(t, Cols - k, v), Held)
             ink == Ink(Held, Space)
  <1>1. /\ X \in 0 .. Cols - 1 /\ X \in Nat /\ Y \in 0 .. Rows - 1 /\ Y \in Nat
        /\ Held \in Screens /\ ~Held.autoscroll /\ screen \in Screens
        /\ Held.cells = screen.cells /\ ink.c = Space /\ Cols \in Nat /\ v > 0
    BY ProperScreen, HeldProper, InkTyped, Sizes
  <1>2. PICK n \in Int : n = -v
    OBVIOUS
  <1> HIDE DEF ink
  <1>3. /\ r \in Screens /\ Beside(Held, r)
        /\ r.cells = Spread(Held.cells, Y, v, Cols - X, ink)
    BY <1>1, Insertings, Zenon DEF ink
  <1>4. InsertCharacters(Held, v) = SetCursorPos(r, X, Y)
    BY Zenon DEF InsertCharacters, Inserted
  <1> HIDE DEF r
  <1>5. screen'.cells = r.cells /\ Codes!Stays /\ Codes!SameRegion
    BY <1>3, <1>4, EndsHere
  <1>6. ASSUME NEW p \in Positions
        PROVE  screen'.cells[p].c =
                 IF p[2] # Y \/ p[1] < X THEN screen.cells[p].c
                 ELSE IF p[1] + n \in X .. Cols - 1 THEN screen.cells[<<p[1] + n, p[2]>>].c
                 ELSE Space
    <2>1. screen'.cells[p] =
            IF p[2] = Y /\ p[1] >= Cols - (Cols - X)
              THEN IF p[1] - v >= Cols - (Cols - X) THEN screen.cells[<<p[1] - v, p[2]>>]
                   ELSE ink
            ELSE screen.cells[p]
      BY <1>1, <1>3, <1>5, Zenon DEF Spread
    <2>2. p[1] \in 0 .. Cols - 1 /\ p[2] \in 0 .. Rows - 1
      BY PositionIs
    <2>3. Cols - (Cols - X) = X
      BY <1>1
    <2>4. /\ p[1] - v = p[1] + n /\ (p[1] - v >= X <=> p[1] + n \in X .. Cols - 1)
          /\ (p[1] >= X <=> ~(p[1] < X))
      BY <1>1, <1>2, <2>2
    <2> QED
      BY <1>1, <2>1, <2>3, <2>4, Zenon
  <1>7. Codes!Slides(n)
    BY <1>6, GlyphsSlid
  <1> QED
    BY <1>2, <1>5, <1>7, Zenon DEF Codes!Slides

LEMMA CharactersDeleted ==
  ASSUME Inv, NEW v \in Nat, X + v <= Cols, Shows(DeleteCharacters(Held, v))
  PROVE  Codes!Slides(v) /\ Codes!Stays /\ Codes!SameRegion
  <1>1. /\ X \in 0 .. Cols - 1 /\ X \in Nat /\ Y \in 0 .. Rows - 1 /\ Y \in Nat /\ Y \in Int
        /\ Held \in Screens /\ ~Held.autoscroll /\ screen \in Screens
        /\ Held.cells = screen.cells /\ Cols \in Nat
        /\ Held.cells \in [Positions -> Cells] /\ Cols - v \in Int
    BY ProperScreen, HeldProper, Sizes DEF Screens
  <1>2. PICK n \in Nat : n = Cols - X - v
    <2>1. Cols - X - v \in Nat
      BY <1>1
    <2> QED
      BY <2>1
  <1> DEFINE r == Loop(n, LAMBDA t, k : Shifted(t, X + v + k - 1, v), Held)
             u == SetCursorPos(r, Cols - v, Y)
             b == Blanks(u, v)
  <1>3. DeleteCharacters(Held, v) = SetCursorPos(b, X, Y)
    BY <1>2, Zenon DEF DeleteCharacters, EraseCharacters, Shifted
  <1>4. /\ r \in Screens /\ SameBut(Held, r) /\ r.cells = Closed(Held.cells, Y, X, v, n)
    BY <1>1, <1>2, Shiftings, Zenon
  <1> HIDE DEF r
  <1>5. /\ u \in Screens /\ u.cells = r.cells /\ Beside(r, u)
        /\ u.cursor = [x |-> Clamp(Cols - v, Cols), y |-> Clamp(Y, Rows)]
    BY <1>1, <1>4, CursorGoes, Zenon
  <1> HIDE DEF u
  <1>6. Beside(Held, u) /\ ~u.autoscroll
    BY <1>1, <1>4, <1>5, Zenon DEF SameBut, Beside
  <1>7. PICK ink : ink = Ink(u, Space)
    OBVIOUS
  <1>8. ink.c = Space
    BY <1>5, <1>7, InkTyped, Sizes
  <1>9. /\ b \in Screens /\ Beside(u, b)
        /\ \A p \in Positions : b.cells[p] = IF p[2] = Y /\ p[1] >= Cols - v THEN ink
                                             ELSE u.cells[p]
    <2>0. \A p \in Positions : p[1] \in 0 .. Cols - 1 /\ p[2] \in 0 .. Rows - 1
      BY PositionIs
    <2>1. CASE v = 0
      <3>1. b = u
        <4>1. ~(v > 0)
          BY <2>1
        <4> QED
          BY <4>1, Zenon DEF Blanks, Loop
      <3> HIDE DEF b
      <3>2. \A p \in Positions : ~(p[1] >= Cols - v)
        BY <1>1, <2>0, <2>1
      <3> QED
        BY <1>5, <3>1, <3>2, Zenon DEF Beside
    <2>2. CASE v # 0
      <3>1. /\ u.cursor.x = Cols - v /\ u.cursor.y = Y
        <4>1. Cols - v \in 0 .. Cols - 1
          BY <1>1, <2>2
        <4>2. Clamp(Cols - v, Cols) = Cols - v /\ Clamp(Y, Rows) = Y
          BY <1>1, <4>1, Clamped, Sizes
        <4> QED
          BY <1>5, <4>2
      <3>2. u.cursor.x + v <= Cols /\ (Cols - v) + v = Cols
        BY <1>1, <3>1
      <3>3. LET t == Blanks(u, v)
            IN  /\ t \in Screens /\ Beside(u, t)
                /\ t.cells = Blanked(u.cells,
                     Span(u.cursor.y, u.cursor.x, u.cursor.x + v), Ink(u, Space))
        BY <1>5, <1>6, <3>2, BlanksOnLine, Zenon
      <3>4. /\ b \in Screens /\ Beside(u, b)
            /\ b.cells = Blanked(u.cells, Span(Y, Cols - v, Cols), ink)
        BY <1>7, <3>1, <3>2, <3>3, Zenon
      <3> HIDE DEF b
      <3>5. ASSUME NEW p \in Positions
            PROVE  b.cells[p] = IF p[2] = Y /\ p[1] >= Cols - v THEN ink ELSE u.cells[p]
        <4>1. b.cells[p] = IF p \in Span(Y, Cols - v, Cols) THEN ink ELSE u.cells[p]
          BY <3>4, Zenon DEF Blanked
        <4>2. p \in Span(Y, Cols - v, Cols) <=> p[2] = Y /\ p[1] \in Cols - v .. Cols - 1
          BY Zenon DEF Span
        <4>3. p[1] \in Cols - v .. Cols - 1 <=> p[1] >= Cols - v
          BY <1>1, <2>0
        <4> QED
          BY <4>1, <4>2, <4>3, Zenon
      <3> QED
        BY <3>4, <3>5, Zenon
    <2> QED
      BY <2>1, <2>2
  <1> HIDE DEF b
  <1>10. Beside(Held, b)
    BY <1>6, <1>9, Zenon DEF Beside
  <1>11. screen'.cells = b.cells /\ Codes!Stays /\ Codes!SameRegion
    BY <1>3, <1>9, <1>10, EndsHere
  <1>12. ASSUME NEW p \in Positions
         PROVE  screen'.cells[p].c =
                  IF p[2] # Y \/ p[1] < X THEN screen.cells[p].c
                  ELSE IF p[1] + v \in X .. Cols - 1 THEN screen.cells[<<p[1] + v, p[2]>>].c
                  ELSE Space
    <2>1. p[1] \in 0 .. Cols - 1 /\ p[2] \in 0 .. Rows - 1
      BY PositionIs
    <2>2. screen'.cells[p] = IF p[2] = Y /\ p[1] >= Cols - v THEN ink ELSE u.cells[p]
      BY <1>9, <1>11, Zenon
    <2>3. u.cells[p] = IF p[2] = Y /\ p[1] \in X .. (X + n) - 1
                         THEN screen.cells[<<p[1] + v, p[2]>>] ELSE screen.cells[p]
      <3>1. u.cells[p] = IF p[2] = Y /\ p[1] \in X .. X + n - 1
                           THEN screen.cells[<<p[1] + v, p[2]>>] ELSE screen.cells[p]
        BY <1>1, <1>4, <1>5, Zenon DEF Closed
      <3>2. X + n - 1 = (X + n) - 1
        BY <1>1
      <3> QED
        BY <3>1, <3>2, Zenon
    <2>4. /\ X + n = Cols - v
          /\ p[1] >= Cols - v <=> ~(p[1] + v <= Cols - 1)
      BY <1>1, <1>2, <2>1
    <2>5. CASE p[2] # Y \/ p[1] < X
      <3>1. ~(p[2] = Y /\ p[1] >= Cols - v) /\ ~(p[2] = Y /\ p[1] \in X .. (X + n) - 1)
        BY <1>1, <1>2, <2>1, <2>5
      <3> QED
        BY <2>2, <2>3, <2>5, <3>1, Zenon
    <2>6. CASE p[2] = Y /\ p[1] >= X
      <3>1. CASE p[1] >= Cols - v
        <4>1. ~(p[2] # Y \/ p[1] < X) /\ ~(p[1] + v \in X .. Cols - 1)
          BY <1>1, <2>1, <2>6, <3>1
        <4> QED
          BY <1>8, <2>2, <2>6, <3>1, <4>1, Zenon
      <3>2. CASE ~(p[1] >= Cols - v)
        <4>1. /\ ~(p[2] # Y \/ p[1] < X) /\ p[1] + v \in X .. Cols - 1
              /\ p[1] \in X .. (X + n) - 1
          BY <1>1, <1>2, <2>1, <2>6, <3>2
        <4> QED
          BY <2>2, <2>3, <2>6, <3>2, <4>1, Zenon
      <3> QED
        BY <3>1, <3>2
    <2> QED
      BY <1>1, <2>1, <2>5, <2>6
  <1>13. v \in Int
    OBVIOUS
  <1>14. Codes!Slides(v)
    BY <1>12, <1>13, GlyphsSlid
  <1> QED
    BY <1>11, <1>14

-----------------------------------------------------------------------------
(* The other functions, and all of them together.                            *)

LEMMA RegionRuled ==
  ASSUME Inv, NEW v \in Nat, NEW w \in Nat, NEW n \in Nat, Shows(Ruled(Held, v, w, n))
  PROVE  Codes!Rules(v, w, n)
  <1> DEFINE t == IF n > 0 THEN Place(v, v) ELSE 0
             b == IF n > 1 THEN IF w = 0 THEN 1 ELSE w ELSE Rows
             u == IF n > 0 /\ v > 0 THEN v - 1 ELSE 0
             r == SetRegion(Held, t, b)
             ok == t < Rows /\ b <= Rows /\ t < b - 1
             valid == b <= Rows /\ b - u >= 2
  <1>1. t \in Nat /\ b \in Nat /\ t = u /\ Held \in Screens /\ Rows \in Nat
    BY HeldProper, Sizes DEF Place, Min2
  <1>2. ok <=> valid
    <2> HIDE DEF t, b, u
    <2> QED
      BY <1>1
  <1>3. Shows(r)
    BY Zenon DEF Ruled
  <1>4. screen'.top = r.top /\ screen'.bottom = r.bottom
        /\ screen'.cells = r.cells /\ screen'.cursor = r.cursor
    <2> HIDE DEF r
    <2> QED
      BY <1>3, Zenon DEF Shows
  <1> HIDE DEF t, b
  <1>5. /\ r.cells = Held.cells /\ r.cursor = Home
        /\ r.top = (IF ok THEN t ELSE 0) /\ r.bottom = IF ok THEN b ELSE Rows
    <2>1. LET q == SetRegion(Held, t, b)
              fits == t < Rows /\ b <= Rows /\ t < b - 1
          IN  /\ Proper(q) /\ q.cells = Held.cells /\ q.cursor = Home
              /\ q.top = (IF fits THEN t ELSE 0) /\ q.bottom = IF fits THEN b ELSE Rows
      <3>1. t \in Nat /\ b \in Nat /\ Held \in Screens
        BY <1>1
      <3> QED
        BY <3>1, RegionSet, Zenon
    <2> QED
      BY <2>1, Zenon
  <1> HIDE DEF r
  <1>6. /\ Codes!Keeps /\ screen'.cursor = Codes!Home
    BY <1>4, <1>5, HeldProper, SameNames, GlyphsKept
  <1>7. /\ screen'.top = (IF valid THEN u ELSE 0)
        /\ screen'.bottom = IF valid THEN b ELSE Rows
    <2> HIDE DEF ok, valid, u
    <2> QED
      BY <1>1, <1>2, <1>4, <1>5, Zenon
  <1> QED
    BY <1>6, <1>7, Zenon DEF Codes!Rules, b

\* What it means that a control function is not left open.
LEMMA Abides ==
  ASSUME Inv, NEW r, r.did = "control",
         ~Diverges(r, screen.cursor, screen.top, screen.bottom)
  PROVE  LET v == r.args[1]
             there == screen.cursor.x # Cols /\ ~(screen.cursor.y >= Rows)
         IN  /\ r.what \in {"B", "e", "E"} => Y # screen.bottom
             /\ r.what \in {"d", "G", "HPA", "@"} => v # 0
             /\ r.what = "M" /\ v > 0 => Y = screen.top
             /\ r.what = "L" /\ v > 0 => Y \in screen.top .. screen.bottom - 1
             /\ r.what = "J" /\ v = 0 =>
                  there /\ ~(Y < Rows - 1 /\ (screen.bottom < Rows \/ Cols < Rows))
             /\ r.what = "J" /\ v = 1 => ~(Y >= screen.bottom) /\ ~(Y >= Cols)
             /\ r.what = "K" /\ v = 0 => there
             /\ r.what = "X" /\ v > 0 =>
                  there /\ ~(X + v > Cols /\ Y < screen.bottom - 1)
             /\ r.what = "P" => ~(X + v > Cols)
  <1>1. /\ X = (IF screen.cursor.x = Cols THEN Cols - 1 ELSE screen.cursor.x)
        /\ Y = IF screen.cursor.y >= Rows THEN Rows - 1 ELSE screen.cursor.y
    BY SameNames, HereTyped DEF Inv
  <1> QED
    BY <1>1, Zenon DEF Diverges

LEMMA EditsMean ==
  ASSUME Inv, NEW r, r.did = "control", NEW v \in Nat, v = r.args[1], NEW w, NEW n,
         ~Diverges(r, screen.cursor, screen.top, screen.bottom),
         NEW f, f = r.what, f \in {"J", "K", "M", "L", "@", "P", "X"},
         Shows(Function(f, Held, v, w, n))
  PROVE  Codes!Edits(f, v) /\ Codes!Stays /\ Codes!SameRegion
  <1>1. /\ X \in 0 .. Cols - 1 /\ Y \in 0 .. Rows - 1 /\ Cols \in Nat \ {0}
        /\ Rows \in Nat \ {0} /\ screen.bottom \in Nat /\ screen.top \in Nat
        /\ screen.cursor.y \in Nat
    BY ProperScreen, SameNames, HeldProper, RegionSize, Sizes
  <1>2. /\ f = "@" => v # 0
        /\ f = "M" /\ v > 0 => Y = screen.top
        /\ f = "L" /\ v > 0 => Y \in screen.top .. screen.bottom - 1
        /\ f = "J" /\ v = 0 =>
             /\ screen.cursor.x # Cols /\ ~(screen.cursor.y >= Rows)
             /\ ~(Y < Rows - 1 /\ (screen.bottom < Rows \/ Cols < Rows))
        /\ f = "J" /\ v = 1 => ~(Y >= screen.bottom) /\ ~(Y >= Cols)
        /\ f = "K" /\ v = 0 => screen.cursor.x # Cols /\ ~(screen.cursor.y >= Rows)
        /\ f = "X" /\ v > 0 =>
             /\ screen.cursor.x # Cols /\ ~(screen.cursor.y >= Rows)
             /\ ~(X + v > Cols /\ Y < screen.bottom - 1)
        /\ f = "P" => ~(X + v > Cols)
    BY Abides, Zenon
  <1>3. CASE f = "J"
    <2>1. /\ v = 0 => /\ screen.cursor.x # Cols /\ screen.cursor.y < Rows
                      /\ Y >= Rows - 1 \/ (screen.bottom >= Rows /\ Cols >= Rows)
          /\ v = 1 => Y < screen.bottom /\ Y < Cols
      BY <1>1, <1>2, <1>3
    <2>2. Shows(EraseDisplay(Held, v))
      BY <1>3 DEF Function
    <2> QED
      BY <1>3, <2>1, <2>2, DisplayErased DEF Codes!Edits
  <1>4. CASE f = "K"
    <2>1. v = 0 => screen.cursor.x # Cols /\ screen.cursor.y < Rows
      BY <1>1, <1>2, <1>4
    <2>2. Shows(EraseLine(Held, v))
      BY <1>4 DEF Function
    <2> QED
      BY <1>4, <2>1, <2>2, LineErased DEF Codes!Edits
  <1>5. CASE f = "M"
    <2>1. v > 0 => Y = screen.top
      BY <1>2, <1>5
    <2>2. Shows(Rolling(v))
      BY <1>5, Zenon DEF Function, Rolling
    <2> QED
      BY <1>5, <2>1, <2>2, LinesDeleted, Zenon DEF Codes!Edits
  <1>6. CASE f = "L"
    <2>1. v > 0 => Y \in screen.top .. screen.bottom - 1
      BY <1>2, <1>6
    <2>2. Shows(InsertLines(Held, v))
      BY <1>6 DEF Function
    <2> QED
      BY <1>6, <2>1, <2>2, LinesInserted, Zenon DEF Codes!Edits
  <1>7. CASE f = "@"
    <2>1. v # 0
      BY <1>2, <1>7
    <2>2. Shows(InsertCharacters(Held, v))
      BY <1>7 DEF Function
    <2> QED
      BY <1>7, <2>1, <2>2, CharactersInserted, Zenon DEF Codes!Edits
  <1>8. CASE f = "P"
    <2>1. X + v <= Cols
      BY <1>1, <1>2, <1>8
    <2>2. Shows(DeleteCharacters(Held, v))
      BY <1>8 DEF Function
    <2> QED
      BY <1>8, <2>1, <2>2, CharactersDeleted, Zenon DEF Codes!Edits
  <1>9. CASE f = "X"
    <2>1. v > 0 => /\ screen.cursor.x # Cols /\ screen.cursor.y < Rows
                   /\ X + v <= Cols \/ Y >= screen.bottom - 1
      BY <1>1, <1>2, <1>9
    <2>2. Shows(EraseCharacters(Held, v))
      BY <1>9 DEF Function
    <2> QED
      BY <1>9, <2>1, <2>2, CharactersErased, Zenon DEF Codes!Edits
  <1> QED
    BY <1>3, <1>4, <1>5, <1>6, <1>7, <1>8, <1>9

LEMMA ControlMeans ==
  ASSUME Inv, NEW r \in Requests, r.did = "control",
         ~Diverges(r, screen.cursor, screen.top, screen.bottom),
         Shows(Function(r.what, Held, r.args[1], r.args[2], r.n)),
         savedCursor' = (IF r.what = "s" THEN GetCursorPos(screen) ELSE savedCursor),
         UNCHANGED savedState
  PROVE  Codes!Controls(r.what, r.args[1], r.args[2], r.n)
  <1>1. PICK v \in Nat, w \in Nat, n \in Nat :
          v = r.args[1] /\ w = r.args[2] /\ n = r.n
    BY ControlIs
  <1>2. PICK f : f = r.what
    OBVIOUS
  <1>3. Shows(Function(f, Held, v, w, n))
    BY <1>1, <1>2, Zenon
  <1>4. f \in Lone \cup {"H", "r", "s", "u"}
    BY <1>2, ControlIs
  <1>5. /\ savedCursor' = (IF f = "s" THEN [x |-> Codes!X, y |-> Codes!Y] ELSE savedCursor)
        /\ UNCHANGED savedState
    <2>1. GetCursorPos(screen) = [x |-> X, y |-> Y]
      BY DEF GetCursorPos, X, Y
    <2>2. Codes!X = X /\ Codes!Y = Y
      BY SameNames
    <2> QED
      BY <1>2, <2>1, <2>2, Zenon
  <1>6. /\ f \in {"B", "e", "E"} => Y # screen.bottom
        /\ f \in {"d", "G", "HPA"} => v # 0
    <2>1. f \in {"d", "G", "HPA"} => f \in {"d", "G", "HPA", "@"}
      OBVIOUS
    <2> QED
      BY <1>1, <1>2, <2>1, Abides, Zenon
  <1>7. Codes!Controls(f, v, w, n)
    <2>1. CASE f \in Codes!Steering /\ f # "s"
      <3>1. Codes!Keeps /\ Codes!Steers(f, v, w) /\ Codes!SameRegion
        BY <1>3, <1>6, <2>1, SteersMean
      <3> QED
        BY <1>5, <2>1, <3>1, Zenon DEF Codes!Controls
    <2>2. CASE f = "s"
      <3>1. Function(f, Held, v, w, n) = Held
        BY <2>2 DEF Function
      <3>2. Codes!Keeps /\ Codes!Stays /\ Codes!SameRegion
        BY <1>3, <3>1, NothingHere
      <3>3. f \in Codes!Steering /\ Codes!Steers(f, v, w)
        BY <2>2, <3>2 DEF Codes!Steering, Codes!Steers
      <3> QED
        BY <1>5, <3>2, <3>3, Zenon DEF Codes!Controls
    <2>3. CASE f \in {"J", "K", "M", "L", "@", "P", "X"}
      <3>1. Codes!Edits(f, v) /\ Codes!Stays /\ Codes!SameRegion
        BY <1>1, <1>2, <1>3, <2>3, EditsMean, Zenon
      <3> QED
        BY <1>5, <3>1, Zenon DEF Codes!Controls
    <2>4. CASE f = "r"
      <3>1. Shows(Ruled(Held, v, w, n))
        BY <1>3, <2>4 DEF Function
      <3>2. Codes!Rules(v, w, n)
        BY <3>1, RegionRuled
      <3> QED
        BY <1>5, <2>4, <3>2, Zenon DEF Codes!Controls
    <2>5. \/ f \in Codes!Steering /\ f # "s"
          \/ f = "s"
          \/ f \in {"J", "K", "M", "L", "@", "P", "X"} \/ f = "r"
      BY <1>4 DEF Codes!Steering, Lone
    <2> QED
      BY <2>1, <2>2, <2>3, <2>4, <2>5, Zenon
  <1> QED
    BY <1>1, <1>2, <1>7, Zenon

-----------------------------------------------------------------------------
(* Control characters and escape sequences.                                  *)

LEMMA LandsAt ==
  ASSUME Inv, NEW s \in Screens, s.top = screen.top, s.bottom = screen.bottom,
         NEW x \in 0 .. Cols - 1, NEW y \in Int, Shows(SetCursorPos(s, x, y))
  PROVE  /\ screen'.cells = s.cells /\ Codes!SameRegion /\ Codes!Goes(x, Clamp(y, Rows))
  <1> DEFINE t == SetCursorPos(s, x, y)
  <1>1. x \in Int /\ Clamp(x, Cols) = x
    BY Clamped, Sizes
  <1>2. /\ t.cells = s.cells /\ Beside(s, t)
        /\ t.cursor = [x |-> Clamp(x, Cols), y |-> Clamp(y, Rows)]
    BY <1>1, CursorGoes, Zenon
  <1> HIDE DEF t
  <1>3. /\ screen'.cells = s.cells /\ screen'.top = screen.top
        /\ screen'.bottom = screen.bottom
        /\ screen'.cursor = [x |-> x, y |-> Clamp(y, Rows)]
    BY <1>1, <1>2, Zenon DEF Shows, Beside, t
  <1> QED
    BY <1>3, RegionKept, Zenon DEF Codes!Goes

LEMMA LineFeedMeans ==
  ASSUME Inv, NEW x \in 0 .. Cols - 1, Shows(LineFeed(screen, x))
  PROVE  Codes!LinesFeed(x) /\ Codes!SameRegion
  <1>1. /\ Y \in 0 .. Rows - 1 /\ Y \in Int /\ Y + 1 \in Int /\ screen \in Screens
        /\ Codes!Y = Y /\ Rows \in Int
        /\ \A a \in Int, b \in Int : Codes!Within(a, b) = Clamp(a, b)
        /\ screen.top \in Nat /\ screen.bottom \in Nat /\ screen.top < screen.bottom
        /\ screen.bottom <= Rows
        /\ screen.cells \in [Positions -> Cells]
    BY ProperScreen, SameNames, HeldProper, RegionSize, Sizes DEF Screens
  <1>2. CASE Y = screen.bottom - 1
    <2> DEFINE s == Scroll(screen)
    <2>1. PICK ink : ink = Ink(screen, Space)
      OBVIOUS
    <2>2. ink.c = Space
      BY <1>1, <2>1, InkTyped, Sizes
    <2>3. PICK first \in Nat, last \in 0 .. Rows - 1, end \in 0 .. Rows :
            /\ first = screen.top /\ end = screen.bottom /\ last = end - 1
            /\ last \in Int /\ first <= last
      <3>1. screen.bottom - 1 \in 0 .. Rows - 1 /\ screen.bottom \in 0 .. Rows
            /\ screen.bottom - 1 \in Int /\ screen.top <= screen.bottom - 1
        BY <1>1
      <3> QED
        BY <1>1, <3>1
    <2>4. /\ s \in Screens /\ SameBut(screen, s)
          /\ s.cells = Up(screen.cells, screen.top, screen.bottom - 1, Ink(screen, Space))
      BY <1>1, Scrolls, Zenon
    <2>5. LineFeed(screen, x) = SetCursorPos(s, x, Y)
      BY <1>2, Zenon DEF LineFeed
    <2> HIDE DEF s
    <2>6. s.top = screen.top /\ s.bottom = screen.bottom
      BY <2>4, Zenon DEF SameBut, Beside
    <2>7. /\ screen'.cells = s.cells /\ Codes!SameRegion /\ Codes!Goes(x, Clamp(Y, Rows))
      BY <1>1, <2>4, <2>5, <2>6, LandsAt
    <2>8. s.cells = Rolled(screen.cells, first, last, 1, ink)
      <3>1. s.cells = Up(screen.cells, first, last, ink)
        BY <2>1, <2>3, <2>4, Zenon
      <3>2. Rolled(screen.cells, first, last, 0, ink) = screen.cells
        BY <1>1, <2>3, RolledNone
      <3>3. /\ Up(Rolled(screen.cells, first, last, 0, ink), first, last, ink)
                 = Rolled(screen.cells, first, last, 0 + 1, ink)
            /\ 0 + 1 = 1
        BY <2>3, RolledUp
      <3> QED
        BY <3>1, <3>2, <3>3, Zenon
    <2>9. screen'.cells = Rolled(screen.cells, first, end - 1, 1, ink)
      BY <2>3, <2>7, <2>8, Zenon
    <2>10. Codes!Shifts(first, end, 1)
      BY <2>2, <2>9, GlyphsShifted
    <2>11. Codes!Shifts(screen.top, screen.bottom, 1)
      BY <2>3, <2>10, Zenon DEF Codes!Shifts
    <2>12. Clamp(Y, Rows) = Y
      BY <1>1, Clamped, Sizes
    <2>13. Codes!Goes(x, Codes!Y)
      BY <1>1, <2>7, <2>12, Zenon DEF Codes!Goes
    <2> QED
      BY <1>1, <1>2, <2>7, <2>11, <2>13, Zenon DEF Codes!LinesFeed
  <1>3. CASE Y # screen.bottom - 1
    <2>1. LineFeed(screen, x) = SetCursorPos(screen, x, Y + 1)
      BY <1>3, Zenon DEF LineFeed
    <2>2. /\ screen'.cells = screen.cells /\ Codes!SameRegion
          /\ Codes!Goes(x, Clamp(Y + 1, Rows))
      BY <1>1, <2>1, LandsAt
    <2>3. Clamp(Y + 1, Rows) = Codes!Within(Y + 1, Rows)
      BY <1>1
    <2>4. Codes!Keeps
      BY <2>2, GlyphsKept
    <2>5. Codes!Goes(x, Codes!Within(Codes!Y + 1, Rows))
      BY <1>1, <2>2, <2>3, Zenon DEF Codes!Goes
    <2> QED
      BY <1>1, <1>3, <2>2, <2>4, <2>5, Zenon DEF Codes!LinesFeed
  <1> QED
    BY <1>2, <1>3

LEMMA ReverseMeans ==
  ASSUME Inv, X = 0, Shows(ReverseLineFeed(screen))
  PROVE  Codes!LinesReverse(X) /\ Codes!SameRegion
  <1>1. /\ Y \in 0 .. Rows - 1 /\ Y \in Int /\ Y - 1 \in Int /\ screen \in Screens
        /\ Codes!Y = Y /\ Rows \in Int /\ 0 \in 0 .. Cols - 1 /\ X = 0
        /\ \A a \in Int, b \in Int : Codes!Within(a, b) = Clamp(a, b)
        /\ screen.top \in Nat /\ screen.bottom \in Nat /\ screen.top < screen.bottom
        /\ screen.bottom <= Rows
        /\ screen.cells \in [Positions -> Cells]
    BY ProperScreen, SameNames, HeldProper, RegionSize, Sizes DEF Screens
  <1>2. CASE Y = screen.top
    <2> DEFINE s == Revscroll(screen)
    <2>1. PICK ink : ink = Ink(screen, Space)
      OBVIOUS
    <2>2. ink.c = Space
      BY <1>1, <2>1, InkTyped, Sizes
    <2>3. PICK first \in Nat, last \in 0 .. Rows - 1, end \in 0 .. Rows :
            /\ first = screen.top /\ end = screen.bottom /\ last = end - 1
            /\ last \in Int /\ first <= last
      <3>1. screen.bottom - 1 \in 0 .. Rows - 1 /\ screen.bottom \in 0 .. Rows
            /\ screen.bottom - 1 \in Int /\ screen.top <= screen.bottom - 1
        BY <1>1
      <3> QED
        BY <1>1, <3>1
    <2>4. /\ s \in Screens /\ SameBut(screen, s)
          /\ s.cells = Down(screen.cells, screen.top, screen.bottom - 1, Ink(screen, Space))
      BY <1>1, Revscrolls, Zenon
    <2>5. ReverseLineFeed(screen) = SetCursorPos(s, 0, Y)
      BY <1>2, Zenon DEF ReverseLineFeed
    <2> HIDE DEF s
    <2>6. s.top = screen.top /\ s.bottom = screen.bottom
      BY <2>4, Zenon DEF SameBut, Beside
    <2>7. /\ screen'.cells = s.cells /\ Codes!SameRegion /\ Codes!Goes(0, Clamp(Y, Rows))
      BY <1>1, <2>4, <2>5, <2>6, LandsAt
    <2>8. PICK n \in Int : n = 0 - 1 /\ n = -1
      OBVIOUS
    <2>9. s.cells = Rolled(screen.cells, first, last, n, ink)
      <3>1. s.cells = Down(screen.cells, first, last, ink)
        BY <2>1, <2>3, <2>4, Zenon
      <3>2. Rolled(screen.cells, first, last, 0, ink) = screen.cells
        BY <1>1, <2>3, RolledNone
      <3>3. PICK none \in Nat : none = 0
        OBVIOUS
      <3>4. Down(Rolled(screen.cells, first, last, 0 - none, ink), first, last, ink)
              = Rolled(screen.cells, first, last, 0 - (none + 1), ink)
        BY <2>3, RolledDown
      <3>5. 0 - (none + 1) = 0 - 1 /\ 0 - none = 0
        BY <3>3
      <3> QED
        BY <2>8, <3>1, <3>2, <3>4, <3>5, Zenon
    <2>10. screen'.cells = Rolled(screen.cells, first, end - 1, n, ink)
      BY <2>3, <2>7, <2>9, Zenon
    <2>11. Codes!Shifts(first, end, n)
      BY <2>2, <2>10, GlyphsShifted
    <2>12. Codes!Shifts(screen.top, screen.bottom, -1)
      BY <2>3, <2>8, <2>11, Zenon DEF Codes!Shifts
    <2>13. Clamp(Y, Rows) = Y
      BY <1>1, Clamped, Sizes
    <2>14. Codes!Goes(0, Codes!Y)
      BY <1>1, <2>7, <2>13, Zenon DEF Codes!Goes
    <2> QED
      BY <1>1, <1>2, <2>7, <2>12, <2>14, Zenon DEF Codes!LinesReverse
  <1>3. CASE Y # screen.top
    <2>1. ReverseLineFeed(screen) = SetCursorPos(screen, 0, Y - 1)
      BY <1>3, Zenon DEF ReverseLineFeed
    <2>2. /\ screen'.cells = screen.cells /\ Codes!SameRegion
          /\ Codes!Goes(0, Clamp(Y - 1, Rows))
      BY <1>1, <2>1, LandsAt
    <2>3. Clamp(Y - 1, Rows) = Codes!Within(Y - 1, Rows)
      BY <1>1
    <2>4. Codes!Keeps
      BY <2>2, GlyphsKept
    <2>5. Codes!Goes(0, Codes!Within(Codes!Y - 1, Rows))
      BY <1>1, <2>2, <2>3, Zenon DEF Codes!Goes
    <2> QED
      BY <1>1, <1>3, <2>2, <2>4, <2>5, Zenon DEF Codes!LinesReverse
  <1> QED
    BY <1>2, <1>3

LEMMA TabsStop ==
  ASSUME NEW q \in Nat
  PROVE  /\ (q + 1) * TabSize \in Int
         /\ q + 1 >= Cols => Clamp((q + 1) * TabSize, Cols) = Cols - 1
  <1>1. PICK k \in Nat : k = TabSize - 1 /\ TabSize = k + 1
    BY TabAssumption
  <1>2. (q + 1) * (k + 1) = (q + 1) * k + (q + 1) /\ (q + 1) * k \in Nat
    OBVIOUS
  <1>3. PICK m \in Nat : m = (q + 1) * k
    BY <1>2
  <1>4. PICK z \in Int : z = (q + 1) * TabSize /\ z = m + (q + 1)
    <2>1. (q + 1) * TabSize = m + (q + 1)
      BY <1>1, <1>2, <1>3, Zenon
    <2>2. m + (q + 1) \in Int
      OBVIOUS
    <2> QED
      BY <2>1, <2>2, Zenon
  <1>5. q + 1 >= Cols => Clamp(z, Cols) = Cols - 1
    BY <1>4, Sizes DEF Clamp
  <1> QED
    BY <1>4, <1>5, Zenon

LEMMA MovesMean ==
  ASSUME Inv, NEW c \in {"TAB", "LF", "BS", "CR"}, Shows(Moved(c))
  PROVE  Codes!Moves(c) /\ Codes!SameRegion
  <1>1. /\ X \in 0 .. Cols - 1 /\ X \in Nat /\ Y \in 0 .. Rows - 1 /\ Y \in Int
        /\ X - 1 \in Int /\ Cols - 1 \in Int /\ 0 \in Int /\ 0 \in 0 .. Cols - 1
        /\ Cols \in Int /\ screen \in Screens
        /\ Codes!X = X /\ Codes!Y = Y
        /\ \A a \in Int, b \in Int : Codes!Within(a, b) = Clamp(a, b)
        /\ Clamp(Y, Rows) = Y /\ Clamp(0, Cols) = 0 /\ Clamp(Cols - 1, Cols) = Cols - 1
    BY ProperScreen, SameNames, Clamped, Sizes
  <1>2. ASSUME NEW x \in Int, Shows(SetCursorPos(screen, x, Y))
        PROVE  /\ Codes!Keeps /\ Codes!SameRegion /\ Codes!Goes(Clamp(x, Cols), Codes!Y)
    <2>1. /\ Codes!Keeps /\ Codes!SameRegion
          /\ Codes!Goes(Clamp(x, Cols), Clamp(Y, Rows))
      BY <1>1, <1>2, SteersTo
    <2> QED
      BY <1>1, <2>1, Zenon DEF Codes!Goes
  <1>3. CASE c = "TAB"
    <2>1. PICK q \in Nat : q = X \div TabSize
      BY <1>1, TabAssumption
    <2>2. PICK x \in Int : x = (q + 1) * TabSize
      BY TabsStop
    <2>3. q + 1 >= Cols => Clamp(x, Cols) = Cols - 1
      BY <2>2, TabsStop, Zenon
    <2>4. Moved(c) = IF q + 1 >= Cols THEN SetCursorPos(screen, Cols - 1, Y)
                     ELSE SetCursorPos(screen, x, Y)
      BY <1>3, <2>1, <2>2, Zenon DEF Moved
    <2>5. Codes!Keeps /\ Codes!SameRegion /\ Codes!Goes(Clamp(x, Cols), Codes!Y)
      <3>1. CASE q + 1 >= Cols
        <4>1. Shows(SetCursorPos(screen, Cols - 1, Y))
          BY <2>4, <3>1, Zenon
        <4>2. /\ Codes!Keeps /\ Codes!SameRegion
              /\ Codes!Goes(Clamp(Cols - 1, Cols), Codes!Y)
          BY <1>1, <1>2, <4>1
        <4> QED
          BY <1>1, <2>3, <3>1, <4>2, Zenon DEF Codes!Goes
      <3>2. CASE ~(q + 1 >= Cols)
        BY <1>2, <2>4, <3>2, Zenon
      <3> QED
        BY <3>1, <3>2
    <2>6. Codes!Within(x, Cols) = Clamp(x, Cols)
      BY <1>1
    <2>7. Codes!Goes(Codes!Within((Codes!X \div TabSize + 1) * TabSize, Cols), Codes!Y)
      BY <1>1, <2>1, <2>2, <2>5, <2>6, Zenon DEF Codes!Goes
    <2> QED
      BY <1>3, <2>5, <2>7 DEF Codes!Moves
  <1>4. CASE c = "LF"
    <2>1. Shows(LineFeed(screen, 0))
      BY <1>4 DEF Moved
    <2> QED
      BY <1>1, <1>4, <2>1, LineFeedMeans DEF Codes!Moves
  <1>5. CASE c = "BS"
    <2>1. Shows(SetCursorPos(screen, X - 1, Y))
      BY <1>5 DEF Moved
    <2>2. Codes!Keeps /\ Codes!SameRegion /\ Codes!Goes(Clamp(X - 1, Cols), Codes!Y)
      BY <1>1, <1>2, <2>1
    <2>3. Codes!Within(X - 1, Cols) = Clamp(X - 1, Cols)
      BY <1>1
    <2>4. Codes!Goes(Codes!Within(Codes!X - 1, Cols), Codes!Y)
      BY <1>1, <2>2, <2>3, Zenon DEF Codes!Goes
    <2> QED
      BY <1>5, <2>2, <2>4 DEF Codes!Moves
  <1>6. CASE c = "CR"
    <2>1. Shows(SetCursorPos(screen, 0, Y))
      BY <1>6 DEF Moved
    <2>2. Codes!Keeps /\ Codes!SameRegion /\ Codes!Goes(Clamp(0, Cols), Codes!Y)
      BY <1>1, <1>2, <2>1
    <2>3. Codes!Goes(0, Codes!Y)
      BY <1>1, <2>2, Zenon DEF Codes!Goes
    <2> QED
      BY <1>6, <2>2, <2>3 DEF Codes!Moves
  <1> QED
    BY <1>3, <1>4, <1>5, <1>6

LEMMA EscapesMean ==
  ASSUME Inv, NEW c \in {"7", "8", "c", "D", "E", "M"}, Shows(Escaped(c)),
         c = "M" => X = 0,
         savedState' = (IF c = "7" THEN screen.cursor ELSE savedState),
         savedCursor' = IF c = "c" THEN Home ELSE savedCursor
  PROVE  Codes!Escapes(c)
  <1>1. /\ X \in 0 .. Cols - 1 /\ 0 \in 0 .. Cols - 1 /\ screen \in Screens
        /\ Codes!X = X /\ Codes!Home = Home
        /\ savedState = [x |-> savedState.x, y |-> savedState.y]
        /\ savedState.x \in Nat /\ savedState.y \in Nat
    BY ProperScreen, SameNames, LinesSize, Sizes DEF Cursors
  <1>2. CASE c = "D"
    <2>1. PICK x \in 0 .. Cols - 1 : x = X
      BY <1>1
    <2>2. Shows(LineFeed(screen, x))
      BY <1>2, <2>1 DEF Escaped
    <2>3. Codes!LinesFeed(x) /\ Codes!SameRegion
      BY <2>2, LineFeedMeans
    <2>4. Codes!LinesFeed(Codes!X)
      BY <1>1, <2>1, <2>3, Zenon DEF Codes!LinesFeed, Codes!Goes
    <2>5. Codes!SameSaved
      BY <1>2, SavedKept
    <2> QED
      BY <1>2, <2>3, <2>4, <2>5 DEF Codes!Escapes
  <1>3. CASE c = "E"
    <2>1. Shows(LineFeed(screen, 0))
      BY <1>3 DEF Escaped
    <2>2. Codes!LinesFeed(0) /\ Codes!SameRegion
      BY <1>1, <2>1, LineFeedMeans
    <2>3. Codes!SameSaved
      BY <1>3, SavedKept
    <2> QED
      BY <1>3, <2>2, <2>3 DEF Codes!Escapes
  <1>4. CASE c = "M"
    <2>1. Shows(ReverseLineFeed(screen))
      BY <1>4 DEF Escaped
    <2>2. Codes!LinesReverse(X) /\ Codes!SameRegion
      BY <1>4, <2>1, ReverseMeans
    <2>4. Codes!LinesReverse(Codes!X)
      BY <1>1, <2>2, Zenon DEF Codes!LinesReverse, Codes!Goes
    <2>3. Codes!SameSaved
      BY <1>4, SavedKept
    <2> QED
      BY <1>4, <2>2, <2>3, <2>4 DEF Codes!Escapes
  <1>5. CASE c = "7"
    <2>1. Shows(screen)
      BY <1>5 DEF Escaped
    <2>2. /\ screen'.cells = screen.cells /\ screen'.cursor = screen.cursor
          /\ screen'.top = screen.top /\ screen'.bottom = screen.bottom
      BY <2>1, Zenon DEF Shows
    <2>3. Codes!Keeps /\ Codes!SameRegion
      BY <2>2, GlyphsKept, RegionKept
    <2> QED
      BY <1>5, <2>2, <2>3 DEF Codes!Escapes
  <1>6. CASE c = "8"
    <2> DEFINE t == [screen EXCEPT !.cursor = [x |-> savedState.x, y |-> savedState.y]]
    <2>1. /\ t \in Screens /\ t.cells = screen.cells /\ Beside(screen, t)
          /\ t.cursor = [x |-> savedState.x, y |-> savedState.y]
      BY <1>1, CursorSet, Zenon
    <2>2. Escaped(c) = t
      BY <1>1, <1>6 DEF Escaped
    <2> HIDE DEF t
    <2>3. /\ screen'.cells = screen.cells /\ screen'.cursor = savedState
          /\ screen'.top = screen.top /\ screen'.bottom = screen.bottom
      BY <1>1, <2>1, <2>2, Zenon DEF Shows, Beside
    <2>4. Codes!Keeps /\ Codes!SameRegion
      BY <2>3, GlyphsKept, RegionKept
    <2>5. Codes!SameSaved
      BY <1>6, SavedKept
    <2> QED
      BY <1>6, <2>3, <2>4, <2>5 DEF Codes!Escapes
  <1>7. CASE c = "c"
    <2> DEFINE cells == [p \in Positions |-> Ink(screen, Space)]
               t == [screen EXCEPT !.top = 0, !.bottom = Rows, !.autoscroll = TRUE,
                                   !.cells = cells, !.cursor = Home]
    <2>1. PICK ink : ink = Ink(screen, Space)
      OBVIOUS
    <2>2. ink.c = Space
      BY <1>1, <2>1, InkTyped, Sizes
    <2>3. PICK a : a = Positions
      OBVIOUS
    <2>4. cells = Blanked(screen.cells, a, ink)
      BY <2>1, <2>3 DEF Blanked
    <2>5. Ink(Reinit(screen), Space) = Ink(screen, Space)
      BY <1>1 DEF Ink, Reinit, Screens
    <2>6. Escaped(c) = t
      <3>1. Escaped(c) = Clear(Reinit(screen), TRUE)
        BY <1>7 DEF Escaped
      <3>2. Clear(Reinit(screen), TRUE) = t
        BY <1>1, <2>5 DEF Clear, Reinit, Screens, Home
      <3> QED
        BY <3>1, <3>2, Zenon
    <2> HIDE DEF cells
    <2>7. t.cells = cells /\ t.cursor = Home /\ t.top = 0 /\ t.bottom = Rows
      BY <1>1 DEF Screens
    <2> HIDE DEF t
    <2>8. /\ screen'.cells = Blanked(screen.cells, a, ink) /\ screen'.cursor = Codes!Home
          /\ screen'.top = 0 /\ screen'.bottom = Rows
      BY <1>1, <2>4, <2>6, <2>7, Zenon DEF Shows
    <2>9. Codes!Erases(a)
      BY <2>2, <2>8, GlyphsErased, Zenon
    <2>10. Codes!Positions = Positions
      BY SameNames
    <2>11. Codes!Erases(Codes!Positions)
      BY <2>3, <2>9, <2>10, Zenon DEF Codes!Erases
    <2>12. savedCursor' = Codes!Home /\ UNCHANGED savedState
      BY <1>1, <1>7
    <2> QED
      BY <1>7, <2>8, <2>11, <2>12 DEF Codes!Escapes
  <1> QED
    BY <1>2, <1>3, <1>4, <1>5, <1>6, <1>7

-----------------------------------------------------------------------------
(* Printing.                                                                 *)

\* Where a glyph is printed, and what the screen shows once it has scrolled.
Column == IF screen.cursor.x = Cols THEN 0 ELSE screen.cursor.x
RollsUp == screen.cursor.x = Cols /\ Codes!Y = screen.bottom - 1
Line == IF screen.cursor.x = Cols /\ ~RollsUp THEN Codes!Within(Codes!Y + 1, Rows)
        ELSE Codes!Y
Glyph(p) == [q \in Positions |-> screen.cells[q].c][p]
Old(p) == IF ~RollsUp \/ p[2] \notin screen.top .. screen.bottom - 1 THEN Glyph(p)
          ELSE IF p[2] = screen.bottom - 1 THEN Space ELSE Glyph(<<p[1], p[2] + 1>>)

LEMMA GlyphsPrinted ==
  ASSUME Inv, NEW g, NEW width, NEW inserts,
         \A p \in Positions :
           screen'.cells[p].c =
             IF p = <<Column, Line>> THEN g
             ELSE IF p[2] = Line /\ p[1] \in Column + 1 .. Column + width - 1 THEN Space
             ELSE IF inserts /\ p[2] = Line /\ p[1] > Column
               THEN Old(<<p[1] - width, Line>>) ELSE Old(p),
         screen'.cursor = [x |-> Column + width, y |-> Line]
  PROVE  Codes!Prints(g, width, inserts)
  <1>1. [p \in Positions |-> screen'.cells[p].c]
          = [p \in Positions |->
             IF p = <<Column, Line>> THEN g
             ELSE IF p[2] = Line /\ p[1] \in Column + 1 .. Column + width - 1 THEN Space
             ELSE IF inserts /\ p[2] = Line /\ p[1] > Column
               THEN Old(<<p[1] - width, Line>>) ELSE Old(p)]
    BY Zenon
  <1>2. Codes!Positions = Positions
    BY SameNames
  <1>3. Codes!Goes(Column + width, Line)
    BY Zenon DEF Codes!Goes
  <1> QED
    BY <1>1, <1>2, <1>3, Zenon DEF Codes!Prints, Column, Line, RollsUp, Old, Glyph

\* Where the next glyph goes.
LEMMA PrintsAt ==
  ASSUME Inv, screen.cursor.y < Rows
  PROVE  /\ Column \in 0 .. Cols - 1 /\ Line \in 0 .. Rows - 1
         /\ screen.cursor.x # Cols => Column = screen.cursor.x /\ Column = X
         /\ screen.cursor.x = Cols => Column = 0
         /\ Y = screen.cursor.y /\ screen.cursor.x \in 0 .. Cols
         /\ RollsUp <=> screen.cursor.x = Cols /\ screen.cursor.y + 1 = screen.bottom
         /\ Line = IF screen.cursor.x = Cols /\ ~RollsUp THEN Clamp(Y + 1, Rows) ELSE Y
         /\ screen.top \in Nat /\ screen.bottom \in Nat /\ screen.top < screen.bottom
         /\ screen.bottom <= Rows
  <1>1. /\ X \in 0 .. Cols - 1 /\ Y \in 0 .. Rows - 1 /\ Y + 1 \in Int /\ Rows \in Int
        /\ Codes!X = X /\ Codes!Y = Y
        /\ X = (IF screen.cursor.x = Cols THEN Cols - 1 ELSE screen.cursor.x)
        /\ Y = (IF screen.cursor.y >= Rows THEN Rows - 1 ELSE screen.cursor.y)
        /\ screen.cursor.x \in 0 .. Cols /\ screen.cursor.y \in Nat
        /\ \A v \in Int, n \in Int : Codes!Within(v, n) = Clamp(v, n)
        /\ screen.top \in Nat /\ screen.bottom \in Nat /\ screen.top < screen.bottom
        /\ screen.bottom <= Rows
    BY ProperScreen, SameNames, HereTyped, HeldProper, RegionSize, Sizes
  <1>2. Codes!Within(Y + 1, Rows) = Clamp(Y + 1, Rows)
    BY <1>1
  <1>3. Y = screen.cursor.y
    BY <1>1
  <1>4. RollsUp <=> screen.cursor.x = Cols /\ screen.cursor.y + 1 = screen.bottom
    BY <1>1, <1>3 DEF RollsUp
  <1>5. Line = IF screen.cursor.x = Cols /\ ~RollsUp THEN Clamp(Y + 1, Rows) ELSE Y
    BY <1>1, <1>2, Zenon DEF Line
  <1>6. Line \in 0 .. Rows - 1
    BY <1>1, <1>5, Clamped, Sizes
  <1>7. /\ Column \in 0 .. Cols - 1
        /\ screen.cursor.x # Cols => Column = screen.cursor.x /\ Column = X
        /\ screen.cursor.x = Cols => Column = 0
    BY <1>1, Sizes DEF Column
  <1> QED
    BY <1>1, <1>3, <1>4, <1>5, <1>6, <1>7, Zenon

\* A glyph of one cell, typed on a screen with the cursor and the region of this one.
LEMMA TypesAt ==
  ASSUME Inv, screen.cursor.y < Rows, ~Astray(screen.cursor, screen.bottom),
         NEW s \in Screens, SameBut(screen, s), NEW g \in Glyphs
  PROVE  LET t == RawPutchar(s, g)
         IN  /\ t \in Screens /\ Beside(screen, t)
             /\ t.cursor = [x |-> Column + 1, y |-> Line]
             /\ t.cells = PutAt(IF RollsUp
                                  THEN Up(s.cells, s.top, s.bottom - 1, Ink(s, Space))
                                  ELSE s.cells, <<Column, Line>>, Ink(s, g))
  <1> DEFINE t == RawPutchar(s, g)
  <1>1. /\ s.cursor = screen.cursor /\ s.top = screen.top /\ s.bottom = screen.bottom
        /\ s.autoscroll /\ Beside(screen, s)
    BY ProperScreen, Zenon DEF SameBut, Beside
  <1>2. /\ Column \in 0 .. Cols - 1 /\ Line \in 0 .. Rows - 1
        /\ screen.cursor.x # Cols => Column = screen.cursor.x
        /\ screen.cursor.x = Cols => Column = 0
        /\ Y = screen.cursor.y /\ screen.cursor.x \in 0 .. Cols
        /\ RollsUp <=> screen.cursor.x = Cols /\ screen.cursor.y + 1 = screen.bottom
        /\ Line = IF screen.cursor.x = Cols /\ ~RollsUp THEN Clamp(Y + 1, Rows) ELSE Y
    BY PrintsAt, Zenon
  <1>3. CASE screen.cursor.x # Cols
    <2>1. ~Wraps(s)
      BY <1>1, <1>2, <1>3, Sizes DEF Wraps
    <2>2. /\ t \in Screens /\ Beside(s, t)
          /\ t.cursor = [x |-> s.cursor.x + 1, y |-> s.cursor.y]
          /\ t.cells = PutAt(s.cells, <<s.cursor.x, s.cursor.y>>, Ink(s, g))
      BY <2>1, Typed, Zenon
    <2> HIDE DEF t
    <2>3. ~RollsUp /\ Line = Y /\ Column = screen.cursor.x
      BY <1>2, <1>3, Zenon
    <2>4. Beside(screen, t)
      BY <1>1, <2>2, Zenon DEF Beside
    <2> QED
      BY <1>1, <1>2, <2>2, <2>3, <2>4, Zenon DEF t
  <1>4. CASE screen.cursor.x = Cols
    <2>1. Wraps(s)
      BY <1>1, <1>2, <1>4, Sizes DEF Wraps
    <2>2. /\ t \in Screens /\ Beside(s, t)
          /\ t.cursor = [x |-> 1, y |-> WrapsTo(s)]
          /\ t.cells = PutAt(IF s.cursor.y + 1 = s.bottom
                               THEN Up(s.cells, s.top, s.bottom - 1, Ink(s, Space))
                               ELSE s.cells,
                             <<0, WrapsTo(s)>>, Ink(s, g))
      BY <2>1, TypedWrapped, Zenon
    <2> HIDE DEF t
    <2>3. WrapsTo(s) = Line
      <3>1. Clamp(Y, Rows) = Y /\ screen.cursor.y \in Nat /\ screen.bottom \in Nat
        BY ProperScreen, SameNames, PrintsAt, Clamped, Sizes
      <3>2. screen.cursor.y = screen.bottom - 1 <=> screen.cursor.y + 1 = screen.bottom
        BY <3>1
      <3>3. Clamp(IF screen.cursor.y = screen.bottom - 1 THEN screen.cursor.y
                  ELSE screen.cursor.y + 1, Cols)
              = Clamp(IF screen.cursor.y = screen.bottom - 1 THEN screen.cursor.y
                      ELSE screen.cursor.y + 1, Rows)
        BY <1>4, Zenon DEF Astray
      <3>4. CASE screen.cursor.y + 1 = screen.bottom
        <4>1. WrapsTo(s) = Clamp(screen.cursor.y, Cols)
          BY <1>1, <3>4, Zenon DEF WrapsTo
        <4>2. Clamp(screen.cursor.y, Cols) = Clamp(screen.cursor.y, Rows)
          BY <3>2, <3>3, <3>4, Zenon
        <4> QED
          BY <1>2, <1>4, <3>1, <3>4, <4>1, <4>2, Zenon
      <3>5. CASE ~(screen.cursor.y + 1 = screen.bottom)
        <4>1. WrapsTo(s) = Clamp(screen.cursor.y + 1, Cols)
          BY <1>1, <3>5, Zenon DEF WrapsTo
        <4>2. Clamp(screen.cursor.y + 1, Cols) = Clamp(screen.cursor.y + 1, Rows)
          BY <3>2, <3>3, <3>5, Zenon
        <4> QED
          BY <1>2, <1>4, <3>5, <4>1, <4>2, Zenon
      <3> QED
        BY <3>4, <3>5
    <2>4. Beside(screen, t)
      BY <1>1, <2>2, Zenon DEF Beside
    <2>5. Column = 0 /\ Column + 1 = 1
      BY <1>2, <1>4
    <2>6. RollsUp <=> s.cursor.y + 1 = s.bottom
      BY <1>1, <1>2, <1>4, Zenon
    <2> QED
      BY <2>2, <2>3, <2>4, <2>5, <2>6, Zenon DEF t
  <1> QED
    BY <1>3, <1>4

LEMMA OldIs ==
  ASSUME Inv, screen.cursor.y < Rows, NEW ink, ink.c = Space, NEW p \in Positions
  PROVE  /\ (IF RollsUp THEN Up(screen.cells, screen.top, screen.bottom - 1, ink)
             ELSE screen.cells)[p].c = Old(p)
         /\ ~RollsUp => Old(p) = screen.cells[p].c
  <1>1. /\ p[1] \in 0 .. Cols - 1 /\ p[2] \in 0 .. Rows - 1
        /\ screen.top \in Nat /\ screen.bottom \in Nat /\ screen.top < screen.bottom
        /\ screen.bottom <= Rows
    BY PositionIs, PrintsAt
  <1>2. Glyph(p) = screen.cells[p].c
    BY DEF Glyph
  <1>3. CASE ~RollsUp
    BY <1>2, <1>3, Zenon DEF Old
  <1>4. CASE RollsUp
    <2>1. Up(screen.cells, screen.top, screen.bottom - 1, ink)[p]
            = IF p[2] = screen.bottom - 1 THEN ink
              ELSE IF p[2] \in screen.top .. (screen.bottom - 1) - 1
                THEN screen.cells[<<p[1], p[2] + 1>>] ELSE screen.cells[p]
      BY Zenon DEF Up
    <2>2. CASE p[2] = screen.bottom - 1
      <3>1. p[2] \in screen.top .. screen.bottom - 1
        BY <1>1, <2>2
      <3> QED
        BY <1>4, <2>1, <2>2, <3>1, Zenon DEF Old
    <2>3. CASE p[2] \in screen.top .. (screen.bottom - 1) - 1
      <3>1. /\ p[2] \in screen.top .. screen.bottom - 1 /\ p[2] # screen.bottom - 1
            /\ <<p[1], p[2] + 1>> \in Positions
        <4>1. /\ p[2] \in screen.top .. screen.bottom - 1 /\ p[2] # screen.bottom - 1
              /\ p[1] \in Int /\ p[2] + 1 \in Int /\ p[2] + 1 \in 0 .. Rows - 1
          BY <1>1, <2>3, Sizes
        <4>2. <<p[1], p[2] + 1>> \in Positions
          BY <1>1, <4>1, PositionIs
        <4> QED
          BY <4>1, <4>2
      <3>2. Glyph(<<p[1], p[2] + 1>>) = screen.cells[<<p[1], p[2] + 1>>].c
        BY <3>1 DEF Glyph
      <3> QED
        BY <1>4, <2>1, <2>3, <3>1, <3>2, Zenon DEF Old
    <2>4. CASE p[2] # screen.bottom - 1 /\ p[2] \notin screen.top .. (screen.bottom - 1) - 1
      <3>1. p[2] \notin screen.top .. screen.bottom - 1
        BY <1>1, <2>4
      <3> QED
        BY <1>2, <1>4, <2>1, <2>4, <3>1, Zenon DEF Old
    <2> QED
      BY <2>2, <2>3, <2>4
  <1> QED
    BY <1>3, <1>4

LEMMA PrintedMeans ==
  ASSUME Inv, screen.cursor.y < Rows, ~Astray(screen.cursor, screen.bottom),
         NEW g \in Glyphs, NEW inserts \in BOOLEAN, inserts => screen.cursor.x # Cols,
         Shows(Printed(g, inserts))
  PROVE  Codes!Prints(g, 1, inserts) /\ Codes!SameRegion
  <1> DEFINE s == IF inserts THEN MakeRoom(screen) ELSE screen
             t == RawPutchar(s, g)
  <1>1. /\ screen \in Screens /\ X \in 0 .. Cols - 1 /\ Y \in 0 .. Rows - 1
        /\ Cols \in Nat
    BY ProperScreen, Sizes
  <1>2. /\ s \in Screens /\ SameBut(screen, s)
        /\ inserts => s.cells = Opened(screen.cells, Y, Cols - X)
        /\ ~inserts => s.cells = screen.cells
    <2>1. LET r == MakeRoom(screen)
          IN  /\ r \in Screens /\ SameBut(screen, r)
              /\ r.cells = Opened(screen.cells, Y, Cols - X)
      BY <1>1, RoomMade, Zenon
    <2> QED
      BY <1>1, <2>1, Zenon DEF SameBut, Beside
  <1>3. Shows(t)
    BY Zenon DEF Printed
  <1> HIDE DEF s
  <1>4. PICK ink : ink = Ink(s, g)
    OBVIOUS
  <1>5. PICK blank : blank = Ink(s, Space)
    OBVIOUS
  <1>6. ink.c = g /\ blank.c = Space
    BY <1>2, <1>4, <1>5, InkTyped, Sizes
  <1>7. /\ t \in Screens /\ Beside(screen, t)
        /\ t.cursor = [x |-> Column + 1, y |-> Line]
        /\ t.cells = PutAt(IF RollsUp THEN Up(s.cells, s.top, s.bottom - 1, blank)
                           ELSE s.cells, <<Column, Line>>, ink)
    BY <1>2, <1>4, <1>5, TypesAt, Zenon
  <1> HIDE DEF t
  <1>8. /\ screen'.cells = t.cells /\ screen'.cursor = t.cursor
        /\ screen'.top = screen.top /\ screen'.bottom = screen.bottom
        /\ s.top = screen.top /\ s.bottom = screen.bottom
    BY <1>2, <1>3, <1>7, Zenon DEF Shows, SameBut, Beside
  <1>9. /\ Column \in 0 .. Cols - 1 /\ Line \in 0 .. Rows - 1
        /\ inserts => ~RollsUp /\ Line = Y /\ Column = X
    <2>1. /\ Column \in 0 .. Cols - 1 /\ Line \in 0 .. Rows - 1
          /\ screen.cursor.x # Cols => Column = X
          /\ RollsUp <=> screen.cursor.x = Cols /\ screen.cursor.y + 1 = screen.bottom
          /\ Line = IF screen.cursor.x = Cols /\ ~RollsUp THEN Clamp(Y + 1, Rows) ELSE Y
      BY PrintsAt, Zenon
    <2> QED
      BY <2>1, Zenon
  <1>10. ASSUME NEW p \in Positions
         PROVE  screen'.cells[p].c =
                  IF p = <<Column, Line>> THEN g
                  ELSE IF p[2] = Line /\ p[1] \in Column + 1 .. Column + 1 - 1 THEN Space
                  ELSE IF inserts /\ p[2] = Line /\ p[1] > Column
                    THEN Old(<<p[1] - 1, Line>>) ELSE Old(p)
    <2>1. screen'.cells[p] =
            IF p = <<Column, Line>> THEN ink
            ELSE (IF RollsUp THEN Up(s.cells, screen.top, screen.bottom - 1, blank)
                  ELSE s.cells)[p]
      <3>1. t.cells[p] =
              IF p = <<Column, Line>> THEN ink
              ELSE (IF RollsUp THEN Up(s.cells, s.top, s.bottom - 1, blank)
                    ELSE s.cells)[p]
        BY <1>7, Zenon DEF PutAt
      <3> QED
        BY <1>8, <3>1, Zenon
    <2>2. p[1] \in 0 .. Cols - 1 /\ p[2] \in 0 .. Rows - 1
      BY PositionIs
    <2>3. ~(p[1] \in Column + 1 .. Column + 1 - 1)
      BY <1>9, <2>2
    <2>4. CASE ~inserts
      <3>1. (IF RollsUp THEN Up(s.cells, screen.top, screen.bottom - 1, blank)
             ELSE s.cells)[p].c = Old(p)
        BY <1>2, <1>6, <2>4, OldIs, Zenon
      <3> QED
        BY <1>6, <2>1, <2>3, <2>4, <3>1, Zenon
    <2>5. CASE inserts
      <3>1. ~RollsUp /\ Line = Y /\ Column = X
        BY <1>9, <2>5
      <3>2. s.cells[p] = IF p[2] = Y /\ p[1] > Cols - (Cols - X)
                           THEN screen.cells[<<p[1] - 1, p[2]>>] ELSE screen.cells[p]
        BY <1>2, <2>5, Zenon DEF Opened
      <3>3. Cols - (Cols - X) = X
        BY <1>1
      <3>4. Old(p) = screen.cells[p].c
        BY <1>6, <3>1, OldIs
      <3>5. CASE p[2] = Y /\ p[1] > X
        <4>1. PICK q \in Positions : q = <<p[1] - 1, Y>>
          <5>1. p[1] - 1 \in 0 .. Cols - 1 /\ p[1] - 1 \in Int /\ Y \in Int
            BY <1>1, <2>2, <3>5
          <5>2. <<p[1] - 1, Y>> \in Positions
            BY <1>1, <5>1, PositionIs
          <5> QED
            BY <5>2
        <4>2. Old(q) = screen.cells[q].c
          BY <1>6, <3>1, OldIs
        <4>3. s.cells[p].c = Old(<<p[1] - 1, Line>>)
          BY <3>1, <3>2, <3>3, <3>5, <4>1, <4>2, Zenon
        <4>4. p # <<Column, Line>>
          BY <1>1, <2>2, <3>1, <3>5
        <4> QED
          BY <2>1, <2>3, <2>5, <3>1, <3>5, <4>3, <4>4, Zenon
      <3>6. CASE ~(p[2] = Y /\ p[1] > X)
        <4>1. s.cells[p].c = Old(p)
          BY <3>2, <3>3, <3>4, <3>6, Zenon
        <4> QED
          BY <1>6, <2>1, <2>3, <3>1, <3>6, <4>1, Zenon
      <3> QED
        BY <3>5, <3>6
    <2> QED
      BY <2>4, <2>5
  <1>11. screen'.cursor = [x |-> Column + 1, y |-> Line]
    BY <1>7, <1>8, Zenon
  <1>12. Codes!Prints(g, 1, inserts)
    BY <1>10, <1>11, GlyphsPrinted, Zenon
  <1> QED
    BY <1>8, <1>12, RegionKept

\* A box and the blanks to its width.
LEMMA BlankedOnce ==
  ASSUME NEW s \in Screens
  PROVE  Blanks(s, 0) = s /\ Blanks(s, 1) = RawPutchar(s, Space)
  <1>1. PICK n \in Nat : n = 1
    OBVIOUS
  <1> DEFINE turn == BlankingTurns(s, n)
  <1>2. /\ turn[0] = s /\ turn[n] = Blanks(s, n)
        /\ \A k \in 1 .. n : turn[k] = RawPutchar(turn[k - 1], Space)
    BY Blanking, Zenon
  <1> HIDE DEF turn
  <1>3. turn[1] = RawPutchar(turn[0], Space)
    <2>1. 1 \in 1 .. n /\ 1 - 1 = 0
      BY <1>1
    <2> QED
      BY <1>2, <2>1, Zenon
  <1>4. Blanks(s, 1) = RawPutchar(s, Space)
    BY <1>1, <1>2, <1>3, Zenon
  <1>5. Blanks(s, 0) = s
    <2>1. ~(0 > 0)
      OBVIOUS
    <2> QED
      BY <2>1, Zenon DEF Blanks, Loop
  <1> QED
    BY <1>4, <1>5

LEMMA CharacterMeans ==
  ASSUME Inv, screen.cursor.y < Rows, ~Astray(screen.cursor, screen.bottom),
         NEW g \in Glyphs, NEW inserts \in BOOLEAN, inserts => screen.cursor.x = Cols - 1,
         NEW width \in {1, 2}, width = 2 => screen.cursor.x # Cols - 1 /\ Cols # 1,
         Shows(Replaced(g, width))
  PROVE  Codes!Prints(g, width, inserts) /\ Codes!SameRegion
  <1> DEFINE t == RawPutchar(screen, g)
             b == Blanks(t, width - 1)
  <1>1. /\ screen \in Screens /\ SameBut(screen, screen) /\ Cols \in Nat \ {0}
    BY ProperScreen, Sizes DEF SameBut, Beside
  <1>2. Shows(b)
    <2>1. width # 0
      OBVIOUS
    <2> QED
      BY <2>1, Zenon DEF Replaced
  <1>3. PICK ink : ink = Ink(screen, g)
    OBVIOUS
  <1>4. PICK blank : blank = Ink(screen, Space)
    OBVIOUS
  <1>5. ink.c = g /\ blank.c = Space
    BY <1>1, <1>3, <1>4, InkTyped, Sizes
  <1>6. /\ t \in Screens /\ Beside(screen, t)
        /\ t.cursor = [x |-> Column + 1, y |-> Line]
        /\ t.cells = PutAt(IF RollsUp THEN Up(screen.cells, screen.top, screen.bottom - 1, blank)
                           ELSE screen.cells, <<Column, Line>>, ink)
    BY <1>1, <1>3, <1>4, TypesAt, Zenon
  <1> HIDE DEF t
  <1>7. /\ Column \in 0 .. Cols - 1 /\ Line \in 0 .. Rows - 1
        /\ screen.cursor.x # Cols => Column = screen.cursor.x
        /\ screen.cursor.x = Cols => Column = 0
        /\ screen.cursor.x \in 0 .. Cols
    BY PrintsAt, Zenon
  <1>8. width = 2 => Column + 1 < Cols
    BY <1>1, <1>7
  <1>9. inserts => Column = Cols - 1 /\ width = 1
    BY <1>1, <1>7
  <1>10. ASSUME NEW p \in Positions
         PROVE  t.cells[p].c = IF p = <<Column, Line>> THEN g ELSE Old(p)
    <2>1. t.cells[p] =
            IF p = <<Column, Line>> THEN ink
            ELSE (IF RollsUp THEN Up(screen.cells, screen.top, screen.bottom - 1, blank)
                  ELSE screen.cells)[p]
      BY <1>6, Zenon DEF PutAt
    <2>2. (IF RollsUp THEN Up(screen.cells, screen.top, screen.bottom - 1, blank)
           ELSE screen.cells)[p].c = Old(p)
      BY <1>5, OldIs
    <2> QED
      BY <1>5, <2>1, <2>2, Zenon
  <1>11. /\ Beside(screen, b) /\ b.cursor = [x |-> Column + width, y |-> Line]
         /\ \A p \in Positions :
              b.cells[p].c = IF p[2] = Line /\ p[1] \in Column + 1 .. Column + width - 1
                               THEN Space ELSE t.cells[p].c
    <2>0. \A p \in Positions : p[1] \in 0 .. Cols - 1
      BY PositionIs
    <2>1. CASE width = 1
      <3>1. b = t
        <4>1. width - 1 = 0
          BY <2>1
        <4> QED
          BY <1>6, <4>1, BlankedOnce, Zenon
      <3> HIDE DEF b
      <3>2. \A p \in Positions : ~(p[1] \in Column + 1 .. Column + width - 1)
        BY <1>7, <2>0, <2>1
      <3> QED
        BY <1>6, <2>1, <3>1, <3>2, Zenon
    <2>2. CASE width = 2
      <3>1. b = RawPutchar(t, Space)
        <4>1. width - 1 = 1
          BY <2>2
        <4> QED
          BY <1>6, <4>1, BlankedOnce, Zenon
      <3>2. t.cursor.x = Column + 1 /\ t.cursor.y = Line
        BY <1>6
      <3>3. ~Wraps(t)
        BY <1>1, <1>7, <1>8, <2>2, <3>2 DEF Wraps
      <3>4. LET u == RawPutchar(t, Space)
            IN  /\ u \in Screens /\ Beside(t, u)
                /\ u.cursor = [x |-> t.cursor.x + 1, y |-> t.cursor.y]
                /\ u.cells = PutAt(t.cells, <<t.cursor.x, t.cursor.y>>, Ink(t, Space))
        BY <1>6, <3>3, Typed, Sizes, Zenon
      <3>5. Ink(t, Space).c = Space
        BY <1>6, InkTyped, Sizes
      <3> HIDE DEF b
      <3>6. /\ Beside(t, b) /\ b.cursor = [x |-> (Column + 1) + 1, y |-> Line]
            /\ b.cells = PutAt(t.cells, <<Column + 1, Line>>, Ink(t, Space))
        BY <3>1, <3>2, <3>4, Zenon
      <3>7. (Column + 1) + 1 = Column + width
        BY <1>7, <2>2
      <3>8. Beside(screen, b)
        BY <1>6, <3>6, Zenon DEF Beside
      <3>9. ASSUME NEW p \in Positions
            PROVE  b.cells[p].c = IF p[2] = Line /\ p[1] \in Column + 1 .. Column + width - 1
                                    THEN Space ELSE t.cells[p].c
        <4>1. b.cells[p] = IF p = <<Column + 1, Line>> THEN Ink(t, Space) ELSE t.cells[p]
          BY <3>6, Zenon DEF PutAt
        <4>2. p = <<Column + 1, Line>>
                <=> p[2] = Line /\ p[1] \in Column + 1 .. Column + width - 1
          BY <1>7, <2>0, <2>2, PositionIs
        <4> QED
          BY <3>5, <4>1, <4>2, Zenon
      <3> QED
        BY <3>6, <3>7, <3>8, <3>9, Zenon
    <2> QED
      BY <2>1, <2>2
  <1> HIDE DEF b
  <1>12. /\ screen'.cells = b.cells /\ screen'.cursor = b.cursor
         /\ screen'.top = screen.top /\ screen'.bottom = screen.bottom
    BY <1>2, <1>11, Zenon DEF Shows, Beside
  <1>13. ASSUME NEW p \in Positions
         PROVE  screen'.cells[p].c =
                  IF p = <<Column, Line>> THEN g
                  ELSE IF p[2] = Line /\ p[1] \in Column + 1 .. Column + width - 1 THEN Space
                  ELSE IF inserts /\ p[2] = Line /\ p[1] > Column
                    THEN Old(<<p[1] - width, Line>>) ELSE Old(p)
    <2>1. p[1] \in 0 .. Cols - 1
      BY PositionIs
    <2>2. p = <<Column, Line>> => ~(p[1] \in Column + 1 .. Column + width - 1)
      BY <1>7, <2>1
    <2>3. ~(inserts /\ p[2] = Line /\ p[1] > Column)
      BY <1>1, <1>7, <1>9, <2>1
    <2> QED
      BY <1>10, <1>11, <1>12, <2>2, <2>3, Zenon
  <1>14. screen'.cursor = [x |-> Column + width, y |-> Line]
    BY <1>11, <1>12, Zenon
  <1>15. Codes!Prints(g, width, inserts)
    BY <1>13, <1>14, GlyphsPrinted, Zenon
  <1> QED
    BY <1>12, <1>15, RegionKept

LEMMA RoomMeans ==
  ASSUME Inv, Shows(MakeRoom(screen))
  PROVE  Codes!PrintsNothing /\ Codes!SameRegion
  <1> DEFINE t == MakeRoom(screen)
             old == [q \in Positions |-> screen.cells[q].c]
             new == [q \in Positions |-> screen'.cells[q].c]
  <1>1. /\ screen \in Screens /\ X \in 0 .. Cols - 1 /\ Cols \in Nat
        /\ Codes!X = X /\ Codes!Y = Y /\ Codes!Positions = Positions
    BY ProperScreen, SameNames, Sizes
  <1>2. t \in Screens /\ SameBut(screen, t) /\ t.cells = Opened(screen.cells, Y, Cols - X)
    BY <1>1, RoomMade, Zenon
  <1> HIDE DEF t
  <1>3. /\ screen'.cells = t.cells /\ screen'.cursor = screen.cursor
        /\ screen'.top = screen.top /\ screen'.bottom = screen.bottom
    BY <1>2, Zenon DEF Shows, SameBut, Beside, t
  <1>4. ASSUME NEW p \in Positions, p[2] # Y \/ p[1] < X
        PROVE  new[p] = old[p]
    <2>1. screen'.cells[p] = IF p[2] = Y /\ p[1] > Cols - (Cols - X)
                               THEN screen.cells[<<p[1] - 1, p[2]>>] ELSE screen.cells[p]
      <3>1. t.cells[p] = IF p[2] = Y /\ p[1] > Cols - (Cols - X)
                           THEN screen.cells[<<p[1] - 1, p[2]>>] ELSE screen.cells[p]
        BY <1>2, Zenon DEF Opened
      <3> QED
        BY <1>3, <3>1, Zenon
    <2>2. ~(p[2] = Y /\ p[1] > Cols - (Cols - X))
      BY <1>1, <1>4, PositionIs
    <2> QED
      BY <2>1, <2>2
  <1>5. Codes!Stays
    BY <1>3 DEF Codes!Stays
  <1>6. Codes!PrintsNothing
    <2>1. \A p \in Positions : p[2] # Y \/ p[1] < X => new[p] = old[p]
      BY <1>4, Zenon
    <2> QED
      BY <1>1, <1>5, <2>1, Zenon DEF Codes!PrintsNothing
  <1> QED
    BY <1>3, <1>6, RegionKept

-----------------------------------------------------------------------------
(* What is left open leaves the region alone.                                *)

Remains(s) == s \in Screens /\ s.top = screen.top /\ s.bottom = screen.bottom

LEMMA RemainsBeside ==
  ASSUME NEW s, Remains(s), NEW t \in Screens, Beside(s, t)
  PROVE  Remains(t)
  BY Zenon DEF Remains, Beside

LEMMA RemainsAt ==
  ASSUME NEW s, Remains(s), NEW x \in Int, NEW y \in Int
  PROVE  Remains(SetCursorPos(s, x, y))
  <1>1. s \in Screens
    BY DEF Remains
  <1>2. SetCursorPos(s, x, y) \in Screens /\ Beside(s, SetCursorPos(s, x, y))
    BY <1>1, CursorGoes
  <1> QED
    BY <1>2, RemainsBeside

LEMMA RemainsBlanked ==
  ASSUME NEW s, Remains(s), NEW n \in Nat
  PROVE  Remains(Blanks(s, n))
  <1>1. s \in Screens
    BY DEF Remains
  <1>2. Blanks(s, n) \in Screens /\ Beside(s, Blanks(s, n))
    BY <1>1, BlanksTyped
  <1> QED
    BY <1>2, RemainsBeside

LEMMA RemainsTyped ==
  ASSUME NEW s, Remains(s), NEW g \in Glyphs
  PROVE  Remains(RawPutchar(s, g))
  <1>1. s \in Screens
    BY DEF Remains
  <1>2. RawPutchar(s, g) \in Screens /\ Beside(s, RawPutchar(s, g))
    BY <1>1, TypesSomewhere
  <1> QED
    BY <1>2, RemainsBeside

LEMMA ReverseRemains ==
  ASSUME Inv
  PROVE  Remains(ReverseLineFeed(screen))
  <1>1. /\ screen \in Screens /\ Remains(screen) /\ Y \in Int /\ Y - 1 \in Int /\ 0 \in Int
    BY ProperScreen, Sizes DEF Remains
  <1>2. Remains(Revscroll(screen))
    <2>1. Revscroll(screen) \in Screens /\ SameBut(screen, Revscroll(screen))
      BY <1>1, Revscrolls, Zenon
    <2> QED
      BY <1>1, <2>1, RemainsBeside, Zenon DEF SameBut
  <1> QED
    BY <1>1, <1>2, RemainsAt, Zenon DEF ReverseLineFeed

LEMMA FunctionRemains ==
  ASSUME Inv, NEW f, NEW v \in Nat, NEW w, NEW n,
         \/ f \in {"B", "e", "E", "d", "G", "HPA", "@", "M", "L", "X", "P"}
         \/ f = "J" /\ v \in {0, 1}
         \/ f = "K" /\ v = 0
  PROVE  Remains(Function(f, Held, v, w, n))
  <1>1. /\ Held \in Screens /\ Held.top < Held.bottom /\ ~Held.autoscroll
        /\ screen \in Screens
        /\ X \in Int /\ Y \in Int /\ 0 \in Int /\ Y \in 0 .. Rows
        /\ X \in Nat /\ Y \in Nat /\ Cols - X \in Nat /\ Rows - Y - 1 \in Nat
        /\ Cols - v \in Int /\ Cols - X - v \in Int /\ Cols \in Nat /\ Rows \in Int
    BY ProperScreen, HeldProper, RegionSize, Sizes
  <1>2. Remains(Held)
    BY HeldProper, Zenon DEF Remains
  <1>3. \A x, y \in Int : Remains(SetCursorPos(Held, x, y))
    BY <1>2, RemainsAt
  <1>4. \A m \in Nat : Remains(SetCursorPos(Blanks(Held, m), X, Y))
    BY <1>1, <1>2, RemainsBlanked, RemainsAt
  <1>5. CASE f \in {"B", "e", "E"}
    <2>1. \A x \in Int : Remains(CursorDown(Held, x, v))
      <3>1. Y + Min2(v, Rows - 1 - Y) \in Int /\ Held.bottom - 1 \in Int
        BY <1>1 DEF Min2, Screens
      <3> QED
        BY <1>3, <3>1, Zenon DEF CursorDown
    <2> QED
      BY <1>1, <1>5, <2>1 DEF Function
  <1>6. CASE f \in {"d", "G", "HPA"}
    <2>1. Coordinate(v, Rows) \in Int /\ Coordinate(v, Cols) \in Int
      BY <1>1 DEF Coordinate
    <2> QED
      BY <1>1, <1>3, <1>6, <2>1 DEF Function
  <1>7. CASE f = "M"
    <2> DEFINE t == Rolling(v)
    <2>1. t \in Screens /\ SameBut(Held, t)
      BY <1>1, ScrolledOften, Zenon DEF Rolling
    <2>2. Function(f, Held, v, w, n) = t
      BY <1>7, Zenon DEF Function, Rolling
    <2> HIDE DEF t
    <2> QED
      BY <1>2, <2>1, <2>2, RemainsBeside DEF SameBut
  <1>8. CASE f = "L"
    <2> DEFINE r == [Held EXCEPT !.top = Y]
               u == Loop(v, LAMBDA t, k : Revscroll(t), r)
    <2>1. r \in Screens /\ r.bottom = Held.bottom
      BY <1>1 DEF Screens
    <2>2. InsertLines(Held, v) = [u EXCEPT !.top = Held.top]
      BY Zenon DEF InsertLines
    <2> HIDE DEF r
    <2>3. u \in Screens /\ SameBut(r, u)
      BY <2>1, RevscrolledOften, Zenon
    <2> HIDE DEF u
    <2>4. u.bottom = Held.bottom
      BY <2>1, <2>3, Zenon DEF SameBut, Beside
    <2>5. /\ [u EXCEPT !.top = Held.top] \in Screens
          /\ [u EXCEPT !.top = Held.top].top = Held.top
          /\ [u EXCEPT !.top = Held.top].bottom = Held.bottom
      BY <1>1, <2>3, <2>4 DEF Screens
    <2>6. Function(f, Held, v, w, n) = InsertLines(Held, v)
      BY <1>8 DEF Function
    <2> QED
      BY <1>2, <2>2, <2>5, <2>6, Zenon DEF Remains
  <1>9. CASE f = "J"
    <2>1. /\ (Rows - Y - 1) * Cols + Cols - X \in Nat /\ Y * Cols + X + 1 \in Nat
      <3>1. (Rows - Y - 1) * Cols \in Nat /\ Y * Cols \in Nat
        BY <1>1, LinesAdd
      <3> QED
        BY <1>1, <3>1
    <2>2. CASE v = 0
      <3>1. Function(f, Held, v, w, n)
              = SetCursorPos(Blanks(Held, (Rows - Y - 1) * Cols + Cols - X), X, Y)
        BY <1>9, <2>2 DEF Function, EraseDisplay
      <3> QED
        BY <1>4, <2>1, <3>1, Zenon
    <2>3. CASE v = 1
      <3>1. Function(f, Held, v, w, n)
              = SetCursorPos(Blanks(SetCursorPos(Held, 0, 0), Y * Cols + X + 1), X, Y)
        BY <1>9, <2>3 DEF Function, EraseDisplay
      <3>2. Remains(SetCursorPos(Held, 0, 0))
        BY <1>1, <1>3
      <3>3. Remains(Blanks(SetCursorPos(Held, 0, 0), Y * Cols + X + 1))
        BY <2>1, <3>2, RemainsBlanked, Zenon
      <3> QED
        BY <1>1, <3>1, <3>3, RemainsAt, Zenon
    <2> QED
      BY <1>9, <2>2, <2>3
  <1>10. CASE f = "K" /\ v = 0
    <2>1. Function(f, Held, v, w, n) = SetCursorPos(Blanks(Held, Cols - X), X, Y)
      BY <1>10 DEF Function, EraseLine
    <2> QED
      BY <1>1, <1>4, <2>1, Zenon
  <1>11. CASE f = "X"
    <2>1. Function(f, Held, v, w, n) = SetCursorPos(Blanks(Held, v), X, Y)
      BY <1>11 DEF Function, EraseCharacters
    <2> QED
      BY <1>4, <2>1, Zenon
  <1>12. CASE f = "@"
    <2> DEFINE r == Loop(Cols - X, LAMBDA t, k : Inserted(t, Cols - k, v), Held)
    <2>1. r \in Screens /\ Beside(Held, r)
      BY <1>1, Insertings
    <2>2. InsertCharacters(Held, v) = SetCursorPos(r, X, Y)
      BY Zenon DEF InsertCharacters, Inserted
    <2> HIDE DEF r
    <2>3. Function(f, Held, v, w, n) = SetCursorPos(r, X, Y)
      BY <1>12, <2>2 DEF Function
    <2> QED
      BY <1>1, <1>2, <2>1, <2>3, RemainsBeside, RemainsAt
  <1>13. CASE f = "P"
    <2>0. PICK m \in Int : m = Cols - X - v
      BY <1>1
    <2> DEFINE r == Loop(m, LAMBDA t, k : Shifted(t, X + v + k - 1, v), Held)
               u == SetCursorPos(r, Cols - v, Y)
    <2>1. DeleteCharacters(Held, v) = SetCursorPos(Blanks(u, v), X, Y)
      BY <2>0, Zenon DEF DeleteCharacters, EraseCharacters, Shifted
    <2>2. r \in Screens /\ Beside(Held, r)
      <3>1. CASE m > 0
        <4>1. m \in Nat
          BY <3>1
        <4> QED
          BY <1>1, <4>1, Shiftings DEF SameBut
      <3>2. CASE m <= 0
        <4>1. ~(m > 0)
          BY <3>2
        <4>2. r = Held
          BY <4>1, Zenon DEF Loop
        <4> QED
          BY <1>1, <4>2 DEF Beside
      <3>3. m > 0 \/ m <= 0
        OBVIOUS
      <3> QED
        BY <3>1, <3>2, <3>3, Zenon
    <2> HIDE DEF r
    <2>3. Remains(u)
      BY <1>1, <1>2, <2>2, RemainsBeside, RemainsAt
    <2> HIDE DEF u
    <2>4. Remains(SetCursorPos(Blanks(u, v), X, Y))
      BY <1>1, <2>3, RemainsBlanked, RemainsAt
    <2>5. Function(f, Held, v, w, n) = DeleteCharacters(Held, v)
      BY <1>13 DEF Function
    <2> QED
      BY <2>1, <2>4, <2>5, Zenon
  <1> QED
    BY <1>5, <1>6, <1>7, <1>8, <1>9, <1>10, <1>11, <1>12, <1>13

-----------------------------------------------------------------------------
(* A request obeyed.                                                         *)

LEMMA ShownIs == \A t : screen' = t => Shows(t)
  BY Zenon DEF Shows

\* What a function that is called with the scrolling held back makes of the
\* screen is what is shown afterwards.
LEMMA ControlledShows ==
  ASSUME Inv, NEW f, NEW v \in Nat, NEW w \in Nat, NEW n \in Nat,
         screen' = Controlled(f, v, w, n)
  PROVE  Shows(Function(f, Held, v, w, n))
  <1> DEFINE t == Function(f, Held, v, w, n)
  <1>1. t \in Screens
    BY FunctionTyped DEF Proper
  <1>2. screen' = [t EXCEPT !.autoscroll = screen.autoscroll]
    BY Zenon DEF Controlled, Held
  <1> HIDE DEF t
  <1>3. Shows(t)
    BY <1>1, <1>2 DEF Shows, Screens
  <1> QED
    BY <1>3, Zenon DEF t

\* The requests that may be left open.
LEMMA DivergesOnly ==
  ASSUME NEW r, NEW cur, NEW t, NEW b, Diverges(r, cur, t, b)
  PROVE  \/ r.did = "print"
         \/ r.did = "character" /\ r.width > 0
         \/ r.did = "escape" /\ r.what = "M"
         \/ /\ r.did = "control"
            /\ \/ r.what \in {"B", "e", "E", "d", "G", "HPA", "@", "M", "L", "X", "P"}
               \/ r.what = "J" /\ r.args[1] \in {0, 1}
               \/ r.what = "K" /\ r.args[1] = 0
  BY DEF Diverges

LEMMA PrintConforms ==
  ASSUME Inv, NEW r, r.did = "print",
         ~Diverges(r, screen.cursor, screen.top, screen.bottom)
  PROVE  /\ screen.cursor.y < Rows /\ ~Astray(screen.cursor, screen.bottom)
         /\ r.inserts => screen.cursor.x # Cols
  <1>1. /\ ~(screen.cursor.y >= Rows) /\ ~Astray(screen.cursor, screen.bottom)
        /\ r.inserts => screen.cursor.x # Cols
    BY Zenon DEF Diverges
  <1>2. screen.cursor.y \in Nat /\ Rows \in Nat
    BY SameNames, Sizes
  <1>3. screen.cursor.y < Rows
    BY <1>1, <1>2
  <1> QED
    BY <1>1, <1>3

LEMMA CharacterConforms ==
  ASSUME Inv, NEW r, r.did = "character", r.width > 0,
         ~Diverges(r, screen.cursor, screen.top, screen.bottom)
  PROVE  /\ screen.cursor.y < Rows /\ ~Astray(screen.cursor, screen.bottom)
         /\ r.inserts => screen.cursor.x = Cols - 1
         /\ r.width = 2 => screen.cursor.x # Cols - 1 /\ Cols # 1
  <1>1. /\ ~(screen.cursor.y >= Rows) /\ ~Astray(screen.cursor, screen.bottom)
        /\ r.inserts => screen.cursor.x = Cols - 1
        /\ r.width = 2 => screen.cursor.x # Cols - 1 /\ Cols # 1
    BY Zenon DEF Diverges
  <1>2. screen.cursor.y \in Nat /\ Rows \in Nat
    BY SameNames, Sizes
  <1>3. screen.cursor.y < Rows
    BY <1>1, <1>2
  <1> QED
    BY <1>1, <1>3

LEMMA ReverseConforms ==
  ASSUME Inv, NEW r, r.did = "escape", r.what = "M",
         ~Diverges(r, screen.cursor, screen.top, screen.bottom)
  PROVE  X = 0
  <1>1. X = IF screen.cursor.x = Cols THEN Cols - 1 ELSE screen.cursor.x
    BY SameNames, HereTyped DEF Inv
  <1> QED
    BY <1>1, Zenon DEF Diverges

LEMMA ScreenKept ==
  ASSUME screen' = screen
  PROVE  Codes!Keeps /\ Codes!Stays /\ Codes!SameRegion
  <1>1. screen'.cells = screen.cells /\ screen'.cursor = screen.cursor
        /\ screen'.top = screen.top /\ screen'.bottom = screen.bottom
    BY Zenon
  <1>2. Codes!Keeps /\ Codes!SameRegion
    BY <1>1, GlyphsKept, RegionKept
  <1>3. Codes!Stays
    BY <1>1 DEF Codes!Stays
  <1> QED
    BY <1>2, <1>3

\* What the console codes say of a request that is not left open.
LEMMA ObeyDoes ==
  ASSUME Inv, Obey, ~Diverges(request, screen.cursor, screen.top, screen.bottom)
  PROVE  Codes!Does(request)
  <1>0. PICK r : r = request
    OBVIOUS
  <1>1. r \in Requests \cup {None} /\ ~Diverges(r, screen.cursor, screen.top, screen.bottom)
    BY <1>0, Zenon DEF Inv, TypeOK
  <1>2. r.did # "nothing" => r \in Requests
    BY <1>1 DEF None
  <1>3. ASSUME PutGlyph
        PROVE  Codes!Does(r)
    <2>1. r.did = "print" /\ screen' = Printed(r.what, r.inserts)
          /\ UNCHANGED <<savedCursor, savedState>>
      BY <1>0, <1>3, Zenon DEF PutGlyph
    <2>2. r.what \in Glyphs /\ r.inserts \in BOOLEAN
      BY <1>2, <2>1, RequestIs
    <2>3. PICK g \in Glyphs, inserts \in BOOLEAN : g = r.what /\ inserts = r.inserts
      BY <2>2
    <2>4. Shows(Printed(g, inserts))
      BY <2>1, <2>3, ShownIs, Zenon
    <2>5. /\ screen.cursor.y < Rows /\ ~Astray(screen.cursor, screen.bottom)
          /\ inserts => screen.cursor.x # Cols
      BY <1>1, <2>1, <2>3, PrintConforms, Zenon
    <2>6. Codes!Prints(g, 1, inserts) /\ Codes!SameRegion
      BY <2>4, <2>5, PrintedMeans, Zenon
    <2>7. Codes!SameSaved
      BY <2>1, SavedKept
    <2> QED
      BY <2>1, <2>3, <2>6, <2>7, Zenon DEF Codes!Does
  <1>4. ASSUME PutCharacter
        PROVE  Codes!Does(r)
    <2>1. r.did = "character" /\ screen' = Replaced(r.what, r.width)
          /\ UNCHANGED <<savedCursor, savedState>>
      BY <1>0, <1>4, Zenon DEF PutCharacter
    <2>2. r.what \in Glyphs /\ r.inserts \in BOOLEAN /\ r.width \in {0, 1, 2}
      BY <1>2, <2>1, RequestIs
    <2>3. Codes!SameSaved
      BY <2>1, SavedKept
    <2>4. CASE r.width = 0
      <3>1. screen' = screen
        BY <2>1, <2>4, Zenon DEF Replaced
      <3>2. Codes!Keeps /\ Codes!Stays /\ Codes!SameRegion
        BY <3>1, ScreenKept
      <3> QED
        BY <2>1, <2>3, <2>4, <3>2, Zenon DEF Codes!Does
    <2>5. CASE r.width # 0
      <3>1. PICK g \in Glyphs, inserts \in BOOLEAN, width \in {1, 2} :
              g = r.what /\ inserts = r.inserts /\ width = r.width
        BY <2>2, <2>5
      <3>2. Shows(Replaced(g, width))
        BY <2>1, <3>1, ShownIs, Zenon
      <3>3. r.width > 0
        BY <3>1
      <3>4. /\ screen.cursor.y < Rows /\ ~Astray(screen.cursor, screen.bottom)
            /\ inserts => screen.cursor.x = Cols - 1
            /\ width = 2 => screen.cursor.x # Cols - 1 /\ Cols # 1
        BY <1>1, <2>1, <3>1, <3>3, CharacterConforms, Zenon
      <3>5. Codes!Prints(g, width, inserts) /\ Codes!SameRegion
        BY <3>2, <3>4, CharacterMeans, Zenon
      <3> QED
        BY <2>1, <2>3, <2>5, <3>1, <3>5, Zenon DEF Codes!Does
    <2> QED
      BY <2>4, <2>5
  <1>5. ASSUME PutNothing
        PROVE  Codes!Does(r)
    <2>1. r.did = "make room" /\ screen' = MakeRoom(screen)
          /\ UNCHANGED <<savedCursor, savedState>>
      BY <1>0, <1>5, Zenon DEF PutNothing
    <2>2. Shows(MakeRoom(screen))
      BY <2>1, ShownIs, Zenon
    <2>3. Codes!PrintsNothing /\ Codes!SameRegion /\ Codes!SameSaved
      BY <2>1, <2>2, RoomMeans, SavedKept
    <2> QED
      BY <2>1, <2>3, Zenon DEF Codes!Does
  <1>6. ASSUME Move
        PROVE  Codes!Does(r)
    <2>1. r.did = "move" /\ screen' = Moved(r.what)
          /\ UNCHANGED <<savedCursor, savedState>>
      BY <1>0, <1>6, Zenon DEF Move
    <2>2. r.what \in {"TAB", "LF", "BS", "CR"}
      BY <1>2, <2>1, RequestIs
    <2>3. PICK c \in {"TAB", "LF", "BS", "CR"} : c = r.what
      BY <2>2
    <2>4. Shows(Moved(c))
      BY <2>1, <2>3, ShownIs, Zenon
    <2>5. Codes!Moves(c) /\ Codes!SameRegion /\ Codes!SameSaved
      BY <2>1, <2>4, MovesMean, SavedKept
    <2> QED
      BY <2>1, <2>3, <2>5, Zenon DEF Codes!Does
  <1>7. ASSUME Escape
        PROVE  Codes!Does(r)
    <2>1. /\ r.did = "escape" /\ screen' = Escaped(r.what)
          /\ savedState' = (IF r.what = "7" THEN screen.cursor ELSE savedState)
          /\ savedCursor' = IF r.what = "c" THEN Home ELSE savedCursor
      BY <1>0, <1>7, Zenon DEF Escape
    <2>2. r.what \in {"7", "8", "c", "D", "E", "M"}
      BY <1>2, <2>1, RequestIs
    <2>3. PICK c \in {"7", "8", "c", "D", "E", "M"} : c = r.what
      BY <2>2
    <2>4. Shows(Escaped(c))
      BY <2>1, <2>3, ShownIs, Zenon
    <2>5. /\ savedState' = (IF c = "7" THEN screen.cursor ELSE savedState)
          /\ savedCursor' = IF c = "c" THEN Home ELSE savedCursor
          /\ c = "M" => X = 0
      BY <1>1, <2>1, <2>3, ReverseConforms, Zenon
    <2>6. Codes!Escapes(c)
      BY <2>4, <2>5, EscapesMean, Zenon
    <2> QED
      BY <2>1, <2>3, <2>6, Zenon DEF Codes!Does
  <1>8. ASSUME ControlSequence
        PROVE  Codes!Does(r)
    <2>1. /\ r.did = "control"
          /\ screen' = Controlled(r.what, r.args[1], r.args[2], r.n)
          /\ savedCursor' = (IF r.what = "s" THEN GetCursorPos(screen) ELSE savedCursor)
          /\ UNCHANGED savedState
      BY <1>0, <1>8, Zenon DEF ControlSequence
    <2>2. r \in Requests
      BY <1>2, <2>1
    <2>3. r.args[1] \in Nat /\ r.args[2] \in Nat /\ r.n \in Nat
      BY <2>1, <2>2, ControlIs
    <2>4. Shows(Function(r.what, Held, r.args[1], r.args[2], r.n))
      BY <2>1, <2>3, ControlledShows, Zenon
    <2>5. Codes!Controls(r.what, r.args[1], r.args[2], r.n)
      BY <1>1, <2>1, <2>2, <2>4, ControlMeans, Zenon
    <2> QED
      BY <2>1, <2>5, Zenon DEF Codes!Does
  <1>9. Codes!Does(r)
    BY <1>3, <1>4, <1>5, <1>6, <1>7, <1>8, Zenon DEF Obey
  <1>10. Codes!Does(r) => Codes!Does(request)
    <2>1. Codes!Prints(r.what, 1, r.inserts)
            => Codes!Prints(request.what, 1, request.inserts)
      BY <1>0, Zenon DEF Codes!Prints
    <2>2. Codes!Prints(r.what, r.width, r.inserts)
            => Codes!Prints(request.what, request.width, request.inserts)
      BY <1>0, Zenon DEF Codes!Prints, Codes!Goes
    <2>3. Codes!Moves(r.what) => Codes!Moves(request.what)
      BY <1>0, Zenon DEF Codes!Moves
    <2>4. Codes!Escapes(r.what) => Codes!Escapes(request.what)
      BY <1>0, Zenon DEF Codes!Escapes
    <2>5. Codes!Steers(r.what, r.args[1], r.args[2])
            => Codes!Steers(request.what, request.args[1], request.args[2])
      BY <1>0, Zenon DEF Codes!Steers, Codes!Goes, Codes!UpTo, Codes!DownTo, Codes!Within
    <2>6. Codes!Edits(r.what, r.args[1]) => Codes!Edits(request.what, request.args[1])
      <3>1. Codes!ErasesDisplay(r.args[1]) => Codes!ErasesDisplay(request.args[1])
        BY <1>0, Zenon DEF Codes!ErasesDisplay
      <3>2. Codes!ErasesLine(r.args[1]) => Codes!ErasesLine(request.args[1])
        BY <1>0, Zenon DEF Codes!ErasesLine
      <3>3. Codes!Slides(r.args[1]) => Codes!Slides(request.args[1])
        BY <1>0, Zenon DEF Codes!Slides
      <3>4. Codes!Slides(-r.args[1]) => Codes!Slides(-request.args[1])
        BY <1>0, Zenon DEF Codes!Slides
      <3>5. Codes!Shifts(Codes!Y, screen.bottom, r.args[1])
              => Codes!Shifts(Codes!Y, screen.bottom, request.args[1])
        BY <1>0, Zenon DEF Codes!Shifts
      <3>6. Codes!Shifts(Codes!Y, screen.bottom, -r.args[1])
              => Codes!Shifts(Codes!Y, screen.bottom, -request.args[1])
        BY <1>0, Zenon DEF Codes!Shifts
      <3>7. Codes!Erases({p \in Codes!OnLine : p[1] \in Codes!X .. Codes!X + r.args[1] - 1})
              => Codes!Erases({p \in Codes!OnLine :
                                p[1] \in Codes!X .. Codes!X + request.args[1] - 1})
        BY <1>0, Zenon DEF Codes!Erases
      <3> QED
        BY <1>0, <3>1, <3>2, <3>3, <3>4, <3>5, <3>6, <3>7, Zenon DEF Codes!Edits
    <2>7. Codes!Rules(r.args[1], r.args[2], r.n)
            => Codes!Rules(request.args[1], request.args[2], request.n)
      BY <1>0, Zenon DEF Codes!Rules
    <2>8. Codes!Controls(r.what, r.args[1], r.args[2], r.n)
            => Codes!Controls(request.what, request.args[1], request.args[2], request.n)
      BY <1>0, <2>5, <2>6, <2>7, Zenon DEF Codes!Controls
    <2> QED
      BY <1>0, <2>1, <2>2, <2>3, <2>4, <2>8, Zenon DEF Codes!Does
  <1> QED
    BY <1>9, <1>10

LEMMA RemainsShown ==
  ASSUME NEW t, Remains(t), Shows(t), UNCHANGED <<savedCursor, savedState>>
  PROVE  Codes!LeftOpen
  <1>1. screen'.top = screen.top /\ screen'.bottom = screen.bottom
    BY Zenon DEF Remains, Shows
  <1>2. Codes!SameRegion /\ Codes!SameSaved
    BY <1>1, RegionKept, SavedKept
  <1> QED
    BY <1>2 DEF Codes!LeftOpen

\* A request that is left open keeps the region and what is saved.
LEMMA ObeyLeavesOpen ==
  ASSUME Inv, Obey, Diverges(request, screen.cursor, screen.top, screen.bottom)
  PROVE  Codes!LeftOpen
  <1>0. PICK r : r = request
    OBVIOUS
  <1>1. r \in Requests \cup {None} /\ Diverges(r, screen.cursor, screen.top, screen.bottom)
    BY <1>0, Zenon DEF Inv, TypeOK
  <1>2. r.did # "nothing" => r \in Requests
    BY <1>1 DEF None
  <1>3. \/ r.did = "print"
        \/ r.did = "character" /\ r.width > 0
        \/ r.did = "escape" /\ r.what = "M"
        \/ /\ r.did = "control"
           /\ \/ r.what \in {"B", "e", "E", "d", "G", "HPA", "@", "M", "L", "X", "P"}
              \/ r.what = "J" /\ r.args[1] \in {0, 1}
              \/ r.what = "K" /\ r.args[1] = 0
    BY <1>1, DivergesOnly, Zenon
  <1>4. screen \in Screens /\ Remains(screen)
    BY ProperScreen DEF Remains
  <1>5. CASE r.did = "print"
    <2>1. /\ screen' = Printed(r.what, r.inserts)
          /\ UNCHANGED <<savedCursor, savedState>>
      BY <1>0, <1>5 DEF Obey, PutGlyph, PutCharacter, PutNothing, Move, Escape,
                        ControlSequence
    <2>2. r.what \in Glyphs /\ r.inserts \in BOOLEAN
      BY <1>2, <1>5, RequestIs
    <2> DEFINE s == IF r.inserts THEN MakeRoom(screen) ELSE screen
    <2>3. Remains(s)
      <3>1. LET t == MakeRoom(screen)
            IN  t \in Screens /\ SameBut(screen, t)
                /\ t.cells = Opened(screen.cells, Y, Cols - X)
        BY <1>4, RoomMade, Zenon
      <3>2. Remains(MakeRoom(screen))
        BY <1>4, <3>1, RemainsBeside, Zenon DEF SameBut
      <3> QED
        BY <1>4, <3>2, Zenon
    <2>4. Shows(RawPutchar(s, r.what))
      BY <2>1, ShownIs, Zenon DEF Printed
    <2> HIDE DEF s
    <2>5. Remains(RawPutchar(s, r.what))
      BY <2>2, <2>3, RemainsTyped, Zenon
    <2> QED
      BY <2>1, <2>4, <2>5, RemainsShown, Zenon
  <1>6. CASE r.did = "character" /\ r.width > 0
    <2>1. /\ screen' = Replaced(r.what, r.width)
          /\ UNCHANGED <<savedCursor, savedState>>
      BY <1>0, <1>6 DEF Obey, PutGlyph, PutCharacter, PutNothing, Move, Escape,
                        ControlSequence
    <2>2. r.what \in Glyphs /\ r.width # 0 /\ r.width - 1 \in Nat
      <3>1. r.what \in Glyphs /\ r.width \in {0, 1, 2}
        BY <1>2, <1>6, RequestIs
      <3> QED
        BY <1>6, <3>1
    <2>3. Shows(Blanks(RawPutchar(screen, r.what), r.width - 1))
      BY <2>1, <2>2, ShownIs, Zenon DEF Replaced
    <2>4. Remains(Blanks(RawPutchar(screen, r.what), r.width - 1))
      BY <1>4, <2>2, RemainsTyped, RemainsBlanked, Zenon
    <2> QED
      BY <2>1, <2>3, <2>4, RemainsShown, Zenon
  <1>8. CASE r.did = "escape" /\ r.what = "M"
    <2>1. /\ screen' = Escaped(r.what)
          /\ savedState' = (IF r.what = "7" THEN screen.cursor ELSE savedState)
          /\ savedCursor' = IF r.what = "c" THEN Home ELSE savedCursor
      BY <1>0, <1>8 DEF Obey, PutGlyph, PutCharacter, PutNothing, Move, Escape,
                        ControlSequence
    <2>2. UNCHANGED <<savedCursor, savedState>>
      BY <1>8, <2>1
    <2>3. Shows(ReverseLineFeed(screen))
      <3>1. Escaped("M") = ReverseLineFeed(screen)
        BY DEF Escaped
      <3> QED
        BY <1>8, <2>1, <3>1, ShownIs, Zenon
    <2>4. Remains(ReverseLineFeed(screen))
      BY <1>4, ReverseRemains, Zenon
    <2> QED
      BY <2>2, <2>3, <2>4, RemainsShown, Zenon
  <1>7. CASE r.did = "control"
    <2>1. /\ screen' = Controlled(r.what, r.args[1], r.args[2], r.n)
          /\ savedCursor' = (IF r.what = "s" THEN GetCursorPos(screen) ELSE savedCursor)
          /\ UNCHANGED savedState
      BY <1>0, <1>7 DEF Obey, PutGlyph, PutCharacter, PutNothing, Move, Escape,
                        ControlSequence
    <2>2. \/ r.what \in {"B", "e", "E", "d", "G", "HPA", "@", "M", "L", "X", "P"}
          \/ r.what = "J" /\ r.args[1] \in {0, 1}
          \/ r.what = "K" /\ r.args[1] = 0
      BY <1>3, <1>7
    <2>3. r.args[1] \in Nat /\ r.args[2] \in Nat /\ r.n \in Nat
      BY <1>2, <1>7, ControlIs
    <2>4. Shows(Function(r.what, Held, r.args[1], r.args[2], r.n))
      BY <2>1, <2>3, ControlledShows, Zenon
    <2>5. Remains(Function(r.what, Held, r.args[1], r.args[2], r.n))
      BY <2>2, <2>3, FunctionRemains, Zenon
    <2>6. UNCHANGED <<savedCursor, savedState>>
      <3>1. r.what # "s"
        BY <2>2
      <3> QED
        BY <2>1, <3>1
    <2> QED
      BY <2>4, <2>5, <2>6, RemainsShown, Zenon
  <1> QED
    BY <1>3, <1>5, <1>6, <1>7, <1>8

LEMMA StartsBlank == Init => Codes!Init
  <1> SUFFICES ASSUME Init PROVE Codes!Init
    OBVIOUS
  <1>1. [p \in Positions |-> screen.cells[p].c] = [p \in Positions |-> Space]
    BY DEF Init
  <1>2. /\ screen.cursor = Home /\ screen.top = 0 /\ screen.bottom = Rows
        /\ savedCursor = Home /\ savedState = Home /\ request = None
    BY DEF Init
  <1>3. Codes!Positions = Positions /\ Codes!Home = Home /\ Codes!None = None
    BY Zenon DEF Codes!Positions, Positions, Codes!Home, Home, Codes!None, None
  <1> QED
    BY <1>1, <1>2, <1>3, Zenon DEF Codes!Init

LEMMA StepsAsCodes ==
  ASSUME Inv, [Next]_vars
  PROVE  [Codes!Ask \/ (request # Codes!None /\ Codes!Obey)]_(Codes!vars)
  <1>1. CASE Ask
    <2>1. request = None /\ UNCHANGED <<screen, savedCursor, savedState>>
      BY <1>1 DEF Ask
    <2>2. Codes!None = None
      BY DEF Codes!None, None
    <2>3. Codes!Ask
      BY <2>1, <2>2, Zenon DEF Codes!Ask
    <2> QED
      BY <2>3
  <1>2. CASE Obey
    <2>1. request' = None /\ request # None
      <3>1. request.did # "nothing"
        BY <1>2 DEF Obey, PutGlyph, PutCharacter, PutNothing, Move, Escape,
                    ControlSequence
      <3> QED
        BY <1>2, <3>1 DEF Obey, None
    <2>2. Codes!None = None
      BY DEF Codes!None, None
    <2>3. IF Diverges(request, screen.cursor, screen.top, screen.bottom)
            THEN Codes!LeftOpen ELSE Codes!Does(request)
      BY <1>2, ObeyDoes, ObeyLeavesOpen
    <2>4. Codes!Obey
      BY <2>1, <2>2, <2>3, Zenon DEF Codes!Obey
    <2> QED
      BY <2>1, <2>2, <2>4
  <1>3. CASE UNCHANGED vars
    <2>1. UNCHANGED <<screen, savedCursor, savedState, request>>
      BY <1>3 DEF vars
    <2>2. UNCHANGED Codes!vars
      BY <2>1, Zenon DEF Codes!vars
    <2> QED
      BY <2>2
  <1> QED
    BY <1>1, <1>2, <1>3 DEF Next

\* On every size of screen and for every request, the backend's calls and the
\* loops around them move, shift and erase exactly the glyphs console_codes(4)
\* names, outside the cases Diverges lists; and those leave the region and what
\* is saved alone.
THEOREM CodesImplemented == Spec => ImplementsConsoleCodes
  <1>1. Init => Inv
    BY Started
  <1>2. Inv /\ [Next]_vars => Inv'
    BY Kept
  <1>3. Init => Codes!Init
    BY StartsBlank
  <1>4. Inv /\ [Next]_vars
          => [Codes!Ask \/ (request # Codes!None /\ Codes!Obey)]_(Codes!vars)
    BY StepsAsCodes
  <1> QED
    BY <1>1, <1>2, <1>3, <1>4, PTL DEF Spec, Codes!Spec, ImplementsConsoleCodes

-----------------------------------------------------------------------------
(* Colours.                                                                  *)

Colours == [of : {"normal", "bright", "rgb", "default", "default bright"},
            n : Nat]
Wishes == [kind : {"default", "plain", "bright", "exact"}, colour : Colours]
Contexts == [bold : BOOLEAN, bg_bold : BOOLEAN, reverse_video : BOOLEAN,
             current_primary : 0 .. 8, current_bg : 0 .. 8]

FlagIn(c, p) == IF p = "fg" THEN c.bold ELSE c.bg_bold
CurrentIn(c, p) == IF p = "fg" THEN c.current_primary ELSE c.current_bg
SideIn(c, p) == IF c.reverse_video THEN Other(p) ELSE p

\* The colour remembered for a later bold or normal intensity is the one that
\* was asked for: a colour remembered wrongly shows only then.
Recalls(current, wish) ==
  /\ wish.kind = "default" => current = NotChosen
  /\ wish.kind = "plain" => current \in 0 .. 7 /\ wish.colour = Normal(current)
  /\ wish.kind = "bright" => current \in 0 .. 7 /\ wish.colour = Bright(current)

\* The colour shown for plane p, bright or not, is the one that was asked for.
Matches(shown, bright, wish, p) ==
  /\ wish.kind = "default" =>
       shown = IF bright THEN DefaultBrightOf(p) ELSE DefaultOf(p)
  /\ wish.kind = "plain" =>
       shown = IF bright THEN Bright(wish.colour.n) ELSE wish.colour
  /\ wish.kind \in {"bright", "exact"} => shown = wish.colour

\* A context c, a text t, wishes w and planes o: of now, or as ESC 7 saved them.
WellTyped(c, t, w, o) ==
  /\ c \in Contexts /\ t \in [Planes -> Colours]
  /\ w \in [Planes -> Wishes] /\ o \subseteq Planes

Good(c, t, w, o) ==
  /\ WellTyped(c, t, w, o)
  /\ \A p \in Planes : Recalls(CurrentIn(c, p), w[p])
  /\ \A p \in Planes \ o : Matches(t[SideIn(c, p)], FlagIn(c, p), w[p], p)

\* The inductive invariant.
IInv ==
  /\ values \in Seq(Nat) /\ i \in Nat
  /\ Good(ctx, text, chosen, off)
  /\ Good(saved.ctx, saved.text, saved.chosen, saved.off)

LEMMA GoodNow == IInv => ColoursAsAsked
  BY DEF IInv, Good, WellTyped, Wishes, ColoursAsAsked, Matches, Wanted, FlagIn,
         Flag, SideIn, Side

LEMMA Colouring ==
  /\ \A n \in Nat : /\ {Normal(n), Bright(n), Rgb(n)} \subseteq Colours
                    /\ Plain(n) \in Wishes /\ BrightOne(n) \in Wishes
  /\ \A p \in Planes : DefaultOf(p) \in Colours /\ DefaultBrightOf(p) \in Colours
  /\ Default \in Wishes
  /\ \A c \in Colours : Exact(c) \in Wishes
  <1>1. \A n \in Nat : {Normal(n), Bright(n), Rgb(n)} \subseteq Colours
    BY DEF Colours, Normal, Bright, Rgb
  <1>2. \A p \in Planes : DefaultOf(p) \in Colours /\ DefaultBrightOf(p) \in Colours
    BY DEF Colours, DefaultOf, DefaultBrightOf
  <1>3. \A c \in Colours : Exact(c) \in Wishes
    BY DEF Exact, Wishes
  <1>4. \A n \in Nat : Plain(n) \in Wishes /\ BrightOne(n) \in Wishes
    BY <1>1 DEF Plain, BrightOne, Wishes
  <1>5. Default \in Wishes
    BY <1>1 DEF Default, Wishes
  <1> QED BY <1>1, <1>2, <1>3, <1>4, <1>5

LEMMA ContextTyped == \A n \in 0 .. 8 : Plainly(n) \in Contexts
  BY DEF Plainly, Contexts

LEMMA Sides ==
  ASSUME NEW c, NEW p \in Planes
  PROVE  /\ SideIn(c, p) \in Planes /\ Other(p) \in Planes
         /\ \A q \in Planes : q # p => q = Other(p) /\ SideIn(c, q) # SideIn(c, p)
  BY DEF SideIn, Other, Planes

\* What setting the side of one plane does: the other plane is not disturbed.
LEMMA SetSide ==
  ASSUME NEW c, NEW t, NEW w, NEW o, Good(c, t, w, o),
         NEW p \in Planes, NEW d \in Contexts, NEW colour \in Colours,
         NEW wish \in Wishes, NEW u \in SUBSET Planes,
         d.reverse_video = c.reverse_video,
         FlagIn(d, Other(p)) = FlagIn(c, Other(p)),
         CurrentIn(d, Other(p)) = CurrentIn(c, Other(p)),
         Other(p) \notin u => Other(p) \notin o,
         Recalls(CurrentIn(d, p), wish),
         p \notin u => Matches(colour, FlagIn(d, p), wish, p)
  PROVE  Good(d, [t EXCEPT ![SideIn(c, p)] = colour], [w EXCEPT ![p] = wish], u)
  <1> DEFINE s == [t EXCEPT ![SideIn(c, p)] = colour]
             v == [w EXCEPT ![p] = wish]
  <1>1. /\ t \in [Planes -> Colours] /\ w \in [Planes -> Wishes]
        /\ \A q \in Planes : Recalls(CurrentIn(c, q), w[q])
        /\ \A q \in Planes \ o : Matches(t[SideIn(c, q)], FlagIn(c, q), w[q], q)
    BY DEF Good, WellTyped
  <1>2. WellTyped(d, s, v, u)
    BY <1>1, Sides DEF WellTyped
  <1>3. \A q \in Planes : SideIn(d, q) = SideIn(c, q)
    BY DEF SideIn
  <1>4. s[SideIn(d, p)] = colour /\ v[p] = wish
    BY <1>1, <1>3, Sides
  <1>5. /\ s[SideIn(d, Other(p))] = t[SideIn(c, Other(p))]
        /\ v[Other(p)] = w[Other(p)]
    BY <1>1, <1>3, Sides DEF Planes, Other
  <1> HIDE DEF s, v
  <1>6. ASSUME NEW q \in Planes PROVE Recalls(CurrentIn(d, q), v[q])
    <2>1. CASE q = p
      BY <1>4, <2>1
    <2>2. CASE q = Other(p)
      BY <1>1, <1>5, <2>2
    <2> QED BY <2>1, <2>2, Sides
  <1>7. ASSUME NEW q \in Planes \ u
        PROVE  Matches(s[SideIn(d, q)], FlagIn(d, q), v[q], q)
    <2>1. CASE q = p
      BY <1>4, <2>1
    <2>2. CASE q = Other(p)
      BY <1>1, <1>5, <2>2
    <2> QED BY <2>1, <2>2, Sides
  <1> QED BY <1>2, <1>6, <1>7 DEF Good, s, v

LEMMA InitGood == SgrInit => IInv
  <1> SUFFICES ASSUME SgrInit PROVE IInv
    OBVIOUS
  <1>1. values \in Seq(Nat) /\ i \in Nat
    BY DEF SgrInit
  <1>2. /\ WellTyped(ctx, text, chosen, off)
        /\ WellTyped(saved.ctx, saved.text, saved.chosen, saved.off)
    BY Colouring, ContextTyped DEF SgrInit, WellTyped, NotChosen
  <1>3. ASSUME NEW p \in Planes
        PROVE  /\ Recalls(CurrentIn(ctx, p), chosen[p])
               /\ Recalls(CurrentIn(saved.ctx, p), saved.chosen[p])
    BY DEF SgrInit, Recalls, CurrentIn, Planes, NotChosen, Plainly, Default, Plain
  <1>4. ASSUME NEW p \in Planes
        PROVE  /\ Matches(text[SideIn(ctx, p)], FlagIn(ctx, p), chosen[p], p)
               /\ Matches(saved.text[SideIn(saved.ctx, p)],
                          FlagIn(saved.ctx, p), saved.chosen[p], p)
    BY DEF SgrInit, SideIn, FlagIn, Matches, Planes, Plainly, Default, Plain
  <1> QED BY <1>1, <1>2, <1>3, <1>4 DEF IInv, Good

LEMMA ResetAllGood ==
  ASSUME ResetAll PROVE Good(ctx', text', chosen', off')
  <1>1. WellTyped(ctx', text', chosen', off')
    BY Colouring, ContextTyped DEF ResetAll, WellTyped, NotChosen
  <1>2. ASSUME NEW p \in Planes PROVE Recalls(CurrentIn(ctx', p), chosen'[p])
    BY DEF ResetAll, Recalls, CurrentIn, Plainly, Default
  <1>3. ASSUME NEW p \in Planes
        PROVE  Matches(text'[SideIn(ctx', p)], FlagIn(ctx', p), chosen'[p], p)
    BY DEF ResetAll, SideIn, FlagIn, Matches, Plainly, Default
  <1> QED BY <1>1, <1>2, <1>3 DEF Good

LEMMA IntensifyGood ==
  ASSUME IInv, NEW p \in Planes, Intensify(p)
  PROVE  Good(ctx', text', chosen', off')
  <1> DEFINE colour == IF Current(p) # NotChosen THEN Bright(Current(p))
                       ELSE DefaultBrightOf(Side(p))
             wish == chosen[p]
  <1>1. /\ Good(ctx, text, chosen, off) /\ ctx \in Contexts
        /\ text \in [Planes -> Colours] /\ chosen \in [Planes -> Wishes]
        /\ off \subseteq Planes /\ Recalls(CurrentIn(ctx, p), wish)
    BY DEF IInv, Good, WellTyped
  <1>2. /\ ctx' \in Contexts /\ ctx'.reverse_video = ctx.reverse_video
        /\ FlagIn(ctx', p) = TRUE /\ FlagIn(ctx', Other(p)) = FlagIn(ctx, Other(p))
        /\ \A q \in Planes : CurrentIn(ctx', q) = CurrentIn(ctx, q)
    BY <1>1 DEF Intensify, WithFlag, Contexts, FlagIn, CurrentIn, Other, Planes
  <1>3. Side(p) = SideIn(ctx, p) /\ Current(p) = CurrentIn(ctx, p)
    BY DEF Side, SideIn, Current, CurrentIn
  <1>4. CurrentIn(ctx, p) \in Nat
    BY <1>1 DEF Contexts, CurrentIn
  <1>5. colour \in Colours
    BY <1>3, <1>4, Colouring, Sides
  <1>6. off' \in SUBSET Planes /\ off \subseteq off'
    BY <1>1 DEF Intensify
  <1>7. p \notin off' => Matches(colour, TRUE, wish, p)
    <2> SUFFICES ASSUME p \notin off' PROVE Matches(colour, TRUE, wish, p)
      OBVIOUS
    <2>1. /\ wish.kind # "exact"
          /\ wish.kind = "default" => ~ctx.reverse_video
      BY <1>1 DEF Intensify
    <2> QED BY <1>1, <1>3, <2>1
            DEF Matches, Recalls, SideIn, NotChosen, Normal, Bright
  <1>8. /\ text' = [text EXCEPT ![SideIn(ctx, p)] = colour]
        /\ chosen' = [chosen EXCEPT ![p] = wish]
    BY <1>1, <1>3 DEF Intensify
  <1> HIDE DEF colour
  <1>9. /\ wish \in Wishes /\ Other(p) \in Planes
        /\ Recalls(CurrentIn(ctx', p), wish)
    BY <1>1, <1>2, Sides
  <1> QED BY <1>1, <1>2, <1>5, <1>6, <1>7, <1>8, <1>9, SetSide

LEMMA SoftenGood ==
  ASSUME IInv, NEW p \in Planes, Soften(p)
  PROVE  Good(ctx', text', chosen', off')
  <1> DEFINE colour == IF Current(p) # NotChosen THEN Normal(Current(p))
                       ELSE DefaultOf(Side(p))
             wish == chosen[p]
  <1>1. /\ Good(ctx, text, chosen, off) /\ ctx \in Contexts
        /\ text \in [Planes -> Colours] /\ chosen \in [Planes -> Wishes]
        /\ off \subseteq Planes /\ Recalls(CurrentIn(ctx, p), wish)
    BY DEF IInv, Good, WellTyped
  <1>2. /\ ctx' \in Contexts /\ ctx'.reverse_video = ctx.reverse_video
        /\ FlagIn(ctx', p) = FALSE /\ FlagIn(ctx', Other(p)) = FlagIn(ctx, Other(p))
        /\ \A q \in Planes : CurrentIn(ctx', q) = CurrentIn(ctx, q)
    BY <1>1 DEF Soften, WithFlag, Contexts, FlagIn, CurrentIn, Other, Planes
  <1>3. Side(p) = SideIn(ctx, p) /\ Current(p) = CurrentIn(ctx, p)
    BY DEF Side, SideIn, Current, CurrentIn
  <1>4. CurrentIn(ctx, p) \in Nat
    BY <1>1 DEF Contexts, CurrentIn
  <1>5. colour \in Colours
    BY <1>3, <1>4, Colouring, Sides
  <1>6. off' \in SUBSET Planes /\ off \subseteq off'
    BY <1>1 DEF Soften
  <1>7. p \notin off' => Matches(colour, FALSE, wish, p)
    <2> SUFFICES ASSUME p \notin off' PROVE Matches(colour, FALSE, wish, p)
      OBVIOUS
    <2>1. /\ wish.kind \notin {"exact", "bright"}
          /\ wish.kind = "default" => ~ctx.reverse_video
      BY <1>1 DEF Soften
    <2> QED BY <1>1, <1>3, <2>1 DEF Matches, Recalls, SideIn, NotChosen
  <1>8. /\ text' = [text EXCEPT ![SideIn(ctx, p)] = colour]
        /\ chosen' = [chosen EXCEPT ![p] = wish]
    BY <1>1, <1>3 DEF Soften
  <1> HIDE DEF colour
  <1>9. /\ wish \in Wishes /\ Other(p) \in Planes
        /\ Recalls(CurrentIn(ctx', p), wish)
    BY <1>1, <1>2, Sides
  <1> QED BY <1>1, <1>2, <1>5, <1>6, <1>7, <1>8, <1>9, SetSide

\* Choosing a colour n, with or without a bright form, for a plane.
LEMMA ChosenGood ==
  ASSUME IInv, NEW p \in Planes, NEW n \in 0 .. 8, NEW colour \in Colours,
         NEW wish \in Wishes,
         ctx' = WithCurrent(ctx, p, n),
         text' = [text EXCEPT ![Side(p)] = colour],
         chosen' = [chosen EXCEPT ![p] = wish],
         off' = off \ {p},
         Recalls(n, wish), Matches(colour, Flag(p), wish, p)
  PROVE  Good(ctx', text', chosen', off')
  <1>1. Good(ctx, text, chosen, off) /\ ctx \in Contexts /\ off \subseteq Planes
    BY DEF IInv, Good, WellTyped
  <1>2. /\ ctx' \in Contexts /\ ctx'.reverse_video = ctx.reverse_video
        /\ \A q \in Planes : FlagIn(ctx', q) = FlagIn(ctx, q)
        /\ CurrentIn(ctx', p) = n
        /\ CurrentIn(ctx', Other(p)) = CurrentIn(ctx, Other(p))
    BY <1>1 DEF WithCurrent, Contexts, FlagIn, CurrentIn, Other, Planes
  <1>3. Side(p) = SideIn(ctx, p) /\ Flag(p) = FlagIn(ctx, p)
    BY DEF Side, SideIn, Flag, FlagIn
  <1>4. off' \in SUBSET Planes /\ (Other(p) \notin off' => Other(p) \notin off)
    BY <1>1 DEF Other, Planes
  <1>5. /\ Recalls(CurrentIn(ctx', p), wish)
        /\ Matches(colour, FlagIn(ctx', p), wish, p)
        /\ FlagIn(ctx', Other(p)) = FlagIn(ctx, Other(p))
    BY <1>2, <1>3, Sides
  <1> QED BY <1>1, <1>2, <1>3, <1>4, <1>5, SetSide

LEMMA ChooseGood ==
  ASSUME IInv, NEW p \in Planes, Choose(p)
  PROVE  Good(ctx', text', chosen', off')
  <1> DEFINE n == ColourFrom(IF p = "fg" THEN 30 ELSE 40)
             colour == IF Flag(p) THEN Bright(n) ELSE Normal(n)
  <1>1. n \in 0 .. 7 /\ n \in Nat /\ n \in 0 .. 8
    <2>1. V \in Nat
      BY DEF IInv, Choose, Turn, Looking, V
    <2>2. CASE p = "fg"
      <3>1. V \in 30 .. 30 + 7
        BY <2>2 DEF Choose, Turn
      <3> QED BY <2>1, <2>2, <3>1 DEF ColourFrom
    <2>3. CASE p # "fg"
      <3>1. V \in 40 .. 40 + 7
        BY <2>3 DEF Choose, Turn
      <3> QED BY <2>1, <2>3, <3>1 DEF ColourFrom
    <2> QED BY <2>2, <2>3
  <1>2. colour \in Colours /\ Plain(n) \in Wishes
    BY <1>1, Colouring
  <1>3. Recalls(n, Plain(n)) /\ Matches(colour, Flag(p), Plain(n), p)
    BY <1>1 DEF Recalls, Matches, Plain, Normal
  <1>4. /\ ctx' = WithCurrent(ctx, p, n)
        /\ text' = [text EXCEPT ![Side(p)] = colour]
        /\ chosen' = [chosen EXCEPT ![p] = Plain(n)] /\ off' = off \ {p}
    BY DEF Choose
  <1> QED BY <1>1, <1>2, <1>3, <1>4, ChosenGood

LEMMA ChooseBrightGood ==
  ASSUME IInv, NEW p \in Planes, ChooseBright(p)
  PROVE  Good(ctx', text', chosen', off')
  <1> DEFINE n == ColourFrom(IF p = "fg" THEN 90 ELSE 100)
  <1>1. n \in 0 .. 7 /\ n \in Nat /\ n \in 0 .. 8
    <2>1. V \in Nat
      BY DEF IInv, ChooseBright, Turn, Looking, V
    <2>2. CASE p = "fg"
      <3>1. V \in 90 .. 90 + 7
        BY <2>2 DEF ChooseBright, Turn
      <3> QED BY <2>1, <2>2, <3>1 DEF ColourFrom
    <2>3. CASE p # "fg"
      <3>1. V \in 100 .. 100 + 7
        BY <2>3 DEF ChooseBright, Turn
      <3> QED BY <2>1, <2>3, <3>1 DEF ColourFrom
    <2> QED BY <2>2, <2>3
  <1>2. Bright(n) \in Colours /\ BrightOne(n) \in Wishes
    BY <1>1, Colouring
  <1>3. Recalls(n, BrightOne(n)) /\ Matches(Bright(n), Flag(p), BrightOne(n), p)
    BY <1>1 DEF Recalls, Matches, BrightOne
  <1>4. /\ ctx' = WithCurrent(ctx, p, n)
        /\ text' = [text EXCEPT ![Side(p)] = Bright(n)]
        /\ chosen' = [chosen EXCEPT ![p] = BrightOne(n)] /\ off' = off \ {p}
    BY DEF ChooseBright
  <1> QED BY <1>1, <1>2, <1>3, <1>4, ChosenGood

LEMMA ChooseDefaultGood ==
  ASSUME IInv, NEW p \in Planes, ChooseDefault(p)
  PROVE  Good(ctx', text', chosen', off')
  <1> DEFINE colour == IF Flag(p) THEN DefaultBrightOf(p) ELSE DefaultOf(p)
  <1>1. colour \in Colours /\ Default \in Wishes
    BY Colouring
  <1>2. Recalls(NotChosen, Default) /\ Matches(colour, Flag(p), Default, p)
    BY DEF Recalls, Matches, Default
  <1>3. /\ ctx' = WithCurrent(ctx, p, NotChosen)
        /\ text' = [text EXCEPT ![Side(p)] = colour]
        /\ chosen' = [chosen EXCEPT ![p] = Default] /\ off' = off \ {p}
    BY DEF ChooseDefault
  <1>4. NotChosen \in 0 .. 8
    BY DEF NotChosen
  <1> QED BY <1>1, <1>2, <1>3, <1>4, ChosenGood

LEMMA ReverseGood ==
  ASSUME IInv, Reverse
  PROVE  Good(ctx', text', chosen', off')
  <1>1. /\ Good(ctx, text, chosen, off) /\ ctx \in Contexts
        /\ text \in [Planes -> Colours] /\ WellTyped(ctx, text, chosen, off)
    BY DEF IInv, Good, WellTyped
  <1>2. /\ ctx' \in Contexts /\ chosen' = chosen /\ off' = off
        /\ \A q \in Planes : /\ FlagIn(ctx', q) = FlagIn(ctx, q)
                             /\ CurrentIn(ctx', q) = CurrentIn(ctx, q)
    BY <1>1 DEF Reverse, Contexts, FlagIn, CurrentIn
  <1>3. text' \in [Planes -> Colours]
    BY <1>1 DEF Reverse, Swapped, Planes
  <1>4. ASSUME NEW q \in Planes
        PROVE  text'[SideIn(ctx', q)] = text[SideIn(ctx, q)]
    <2>1. ctx.reverse_video \in BOOLEAN /\ ctx'.reverse_video = (V = 7)
      BY <1>1 DEF Reverse, Contexts
    <2>2. CASE ctx.reverse_video = (V = 7)
      BY <2>1, <2>2 DEF Reverse, SideIn
    <2>3. CASE ctx.reverse_video # (V = 7)
      <3>1. SideIn(ctx', q) = Other(SideIn(ctx, q)) /\ text' = Swapped
        BY <2>1, <2>3 DEF Reverse, SideIn, Other, Planes
      <3>2. SideIn(ctx, q) \in Planes
        BY Sides
      <3> QED BY <1>1, <3>1, <3>2 DEF Swapped, Other, Planes
    <2> QED BY <2>2, <2>3
  <1> QED BY <1>1, <1>2, <1>3, <1>4 DEF Good, WellTyped

LEMMA DirectGood ==
  ASSUME IInv, NEW p \in Planes, Direct(p)
  PROVE  Good(ctx', text', chosen', off')
  <1>1. /\ Good(ctx, text, chosen, off) /\ ctx \in Contexts
        /\ text \in [Planes -> Colours] /\ chosen \in [Planes -> Wishes]
        /\ off \subseteq Planes
    BY DEF IInv, Good, WellTyped
  <1>2. ctx' = ctx
    BY DEF Direct
  <1>3. CASE UNCHANGED <<text, chosen, off>>
    BY <1>1, <1>2, <1>3
  <1>4. ASSUME NEW c \in Colours,
               text' = [text EXCEPT ![p] = c],
               chosen' = [chosen EXCEPT ![p] = Exact(c)],
               off' = IF ctx.reverse_video THEN Planes ELSE off \ {p}
        PROVE  Good(ctx', text', chosen', off')
    <2>1. Exact(c) \in Wishes /\ \A n : Recalls(n, Exact(c))
      BY Colouring DEF Recalls, Exact
    <2>2. Matches(c, FlagIn(ctx, p), Exact(c), p)
      BY DEF Matches, Exact
    <2>3. CASE ctx.reverse_video
      <3>1. WellTyped(ctx', text', chosen', off') /\ Planes \ off' = {}
        BY <1>1, <1>2, <1>4, <2>1, <2>3 DEF WellTyped
      <3>2. ASSUME NEW q \in Planes PROVE Recalls(CurrentIn(ctx', q), chosen'[q])
        BY <1>1, <1>2, <1>4, <2>1 DEF Good
      <3> QED BY <3>1, <3>2 DEF Good
    <2>4. CASE ~ctx.reverse_video
      <3>1. SideIn(ctx, p) = p /\ off' = off \ {p} /\ off' \in SUBSET Planes
        BY <1>1, <1>4, <2>4 DEF SideIn
      <3>2. Other(p) \notin off' => Other(p) \notin off
        BY <3>1 DEF Other, Planes
      <3> QED BY <1>1, <1>2, <1>4, <2>1, <2>2, <3>1, <3>2, SetSide
    <2> QED BY <2>3, <2>4
  <1>5. ASSUME ~UNCHANGED <<text, chosen, off>>
        PROVE  \E c \in Colours :
                 /\ text' = [text EXCEPT ![p] = c]
                 /\ chosen' = [chosen EXCEPT ![p] = Exact(c)]
                 /\ off' = IF ctx.reverse_video THEN Planes ELSE off \ {p}
    <2>1. /\ i + 1 \in 1 .. Len(values) /\ values[i + 1] \in {2, 5}
          /\ i + Operands(values[i + 1]) \in 1 .. Len(values)
          /\ values \in Seq(Nat)
      BY <1>5 DEF Direct, Looking, Operands, IInv
    <2>2. values[i + 2] \in Nat
      BY <2>1 DEF Operands, IInv
    <2>3. Rgb(values[i + 2]) \in Colours
      BY <2>2, Colouring
    <2>4. IndexedColour(values[i + 2]) \subseteq Colours
      BY <2>2, Colouring, PaletteAssumption DEF IndexedColour
    <2> QED BY <1>5, <2>1, <2>3, <2>4 DEF Direct
  <1> QED BY <1>3, <1>4, <1>5

LEMMA AttributeGood ==
  ASSUME IInv, Attribute PROVE Good(ctx', text', chosen', off')
  <1>1. CASE Reset
    BY <1>1, ResetAllGood DEF Reset
  <1>2. CASE Ignored
    BY <1>2 DEF Ignored, IInv
  <1> QED BY <1>1, <1>2, ReverseGood, IntensifyGood, SoftenGood, ChooseGood,
             ChooseBrightGood, ChooseDefaultGood, DirectGood DEF Attribute

\* Nothing in the loop writes the saved fields, and i grows.
LEMMA LoopGood ==
  ASSUME IInv, Attribute
  PROVE  i' \in Nat /\ UNCHANGED <<saved, values>>
  <1>0. \A vs : Turn(vs) => i' \in Nat /\ UNCHANGED <<saved, values>>
    BY DEF IInv, Turn
  <1>1. CASE Reset
    BY <1>0, <1>1 DEF Reset
  <1>2. CASE Reverse
    BY <1>0, <1>2 DEF Reverse
  <1>3. CASE Ignored
    BY <1>0, <1>3 DEF Ignored
  <1>4. ASSUME NEW p \in Planes, Intensify(p) \/ Soften(p)
        PROVE  i' \in Nat /\ UNCHANGED <<saved, values>>
    BY <1>0, <1>4 DEF Intensify, Soften
  <1>5. ASSUME NEW p \in Planes, Choose(p) \/ ChooseBright(p) \/ ChooseDefault(p)
        PROVE  i' \in Nat /\ UNCHANGED <<saved, values>>
    BY <1>0, <1>5 DEF Choose, ChooseBright, ChooseDefault
  <1>6. ASSUME NEW p \in Planes, Direct(p)
        PROVE  i' \in Nat /\ UNCHANGED <<saved, values>>
    <2>1. Len(values) + 1 \in Nat /\ \A n : i + Operands(n) + 1 \in Nat
      BY DEF Operands, IInv
    <2>2. i' = Len(values) + 1 \/ i' = i + Operands(values[i + 1]) + 1
      BY <1>6 DEF Direct
    <2> QED BY <1>6, <2>1, <2>2 DEF Direct
  <1> QED BY <1>1, <1>2, <1>3, <1>4, <1>5, <1>6 DEF Attribute

LEMMA StepGood == IInv /\ [SgrNext]_sgrVars => IInv'
  <1> SUFFICES ASSUME IInv, [SgrNext]_sgrVars PROVE IInv'
    OBVIOUS
  <1>1. ASSUME NEW vs \in Lists, Begin(vs) PROVE IInv'
    <2>1. vs \in Seq(Nat)
      BY ListsAssumption
    <2>2. Good(ctx', text', chosen', off')
      BY <1>1, ResetAllGood DEF Begin, IInv
    <2> QED BY <1>1, <2>1, <2>2 DEF Begin, IInv
  <1>2. CASE Attribute
    BY <1>2, AttributeGood, LoopGood DEF IInv
  <1>3. CASE End
    BY <1>3 DEF End, IInv
  <1>4. CASE SaveState
    BY <1>4 DEF SaveState, IInv
  <1>5. CASE RestoreState
    BY <1>5 DEF RestoreState, IInv
  <1>6. CASE ResetTerminal
    <2>1. WellTyped(ctx', text', chosen', off')
      BY <1>6, Colouring, ContextTyped
      DEF ResetTerminal, IInv, Good, WellTyped, NotChosen
    <2>2. ASSUME NEW q \in Planes PROVE Recalls(CurrentIn(ctx', q), chosen'[q])
      BY <1>6 DEF ResetTerminal, Recalls, CurrentIn, Plainly, Default
    <2>3. Planes \ off' = {}
      BY <1>6 DEF ResetTerminal
    <2> QED BY <1>6, <2>1, <2>2, <2>3 DEF ResetTerminal, IInv, Good
  <1>7. CASE UNCHANGED sgrVars
    BY <1>7 DEF sgrVars, IInv
  <1> QED BY <1>1, <1>2, <1>3, <1>4, <1>5, <1>6, <1>7 DEF SgrNext

\* Whatever attributes a program sets, in sequences of any length, with states
\* saved and restored between them, a plane is shown in the colour sgr was last
\* asked for, except in the ways of losing it that ColoursAsAsked names.
THEOREM ColoursCorrect == SgrSpec => []ColoursAsAsked
  BY InitGood, StepGood, GoodNow, PTL DEF SgrSpec

-----------------------------------------------------------------------------
(* The parameters taken.                                                    *)

\* The inductive invariant: what is behind i has been told apart, and what is
\* at i is no operand.
Told ==
  /\ values \in Seq(Nat) /\ i \in Nat
  /\ taken \subseteq 1 .. Len(values) /\ \A j \in taken : j < i
  /\ \A k \in 1 .. Len(values) : k < i => (k \in taken <=> Free(k))
  /\ i \in 1 .. Len(values) => Free(i)

\* Some of the parameters after i are its operands: all before the next one
\* sgr looks at, and not that one.
LEMMA TakenOn ==
  ASSUME Told, Looking, taken' = taken \cup {i}, values' = values,
         NEW n \in Nat, i' = n, n > i,
         \A k \in 1 .. Len(values) : k > i /\ k < n => k - i <= OperandsOf(i),
         n \in 1 .. Len(values) => n - i > OperandsOf(i)
  PROVE  Told'
  <1> DEFINE len == Len(values)
  <1>1. len \in Nat /\ i \in 1 .. len /\ taken \subseteq 1 .. len
    BY DEF Told, Looking
  <1>2. \A j \in taken : j < i /\ j \in 1 .. len
    BY DEF Told
  <1>3. \A j \in 1 .. len : OperandsOf(j)' = OperandsOf(j) /\ OperandsOf(j) \in 0 .. 4
    BY DEF OperandsOf
  <1>4. \A j \in 1 .. len : (j \in taken') <=> (j \in taken \/ j = i)
    BY <1>1
  <1>5. \A k \in 1 .. len : k <= i => (Free(k)' <=> Free(k))
    BY <1>1, <1>2, <1>3 DEF Free
  <1>6. Free(i)
    BY <1>1 DEF Told
  <1>7. \A j \in taken : i - j > OperandsOf(j)
    BY <1>2, <1>6 DEF Free
  <1>8. \A k \in 1 .. len : k > i => (Free(k)' <=> k - i > OperandsOf(i))
    <2> SUFFICES ASSUME NEW k \in 1 .. len, k > i
                 PROVE  Free(k)' <=> k - i > OperandsOf(i)
      OBVIOUS
    <2>1. \A j \in taken : k - j > OperandsOf(j)
      BY <1>1, <1>2, <1>3, <1>7
    <2> QED
      BY <1>1, <1>2, <1>3, <2>1 DEF Free
  <1>9. ASSUME NEW k \in 1 .. len, k < n
        PROVE  k \in taken' <=> Free(k)'
    <2>1. CASE k < i
      BY <1>1, <1>4, <1>5, <2>1 DEF Told
    <2>2. CASE k = i
      BY <1>1, <1>5, <1>6, <2>2
    <2>3. CASE k > i
      <3>1. k \notin taken'
        BY <1>1, <1>2, <2>3
      <3>2. ~(k - i > OperandsOf(i))
        BY <1>1, <1>3, <1>9, <2>3
      <3> QED
        BY <1>8, <2>3, <3>1, <3>2
    <2> QED
      BY <1>1, <2>1, <2>2, <2>3
  <1>10. n \in 1 .. len => Free(n)'
    BY <1>1, <1>8
  <1>11. taken' \subseteq 1 .. len /\ \A j \in taken' : j < n
    BY <1>1, <1>2
  <1> QED
    BY <1>9, <1>10, <1>11 DEF Told

\* An attribute that has no operands.
LEMMA TurnTold ==
  ASSUME Told, NEW vs, Turn(vs), V \notin {38, 48}
  PROVE  Told'
  <1>1. /\ Looking /\ taken' = taken \cup {i} /\ values' = values /\ i' = i + 1
        /\ i \in Nat /\ OperandsOf(i) = 0
    BY DEF Turn, Told, OperandsOf, V
  <1>2. i + 1 \in Nat /\ i + 1 > i
        /\ (\A k \in 1 .. Len(values) : k > i /\ k < i + 1 => k - i <= OperandsOf(i))
        /\ (i + 1 \in 1 .. Len(values) => i + 1 - i > OperandsOf(i))
    BY <1>1
  <1> QED
    BY <1>1, <1>2, TakenOn

\* A 38 or 48, with its operands or without.
LEMMA DirectTold ==
  ASSUME Told, NEW p \in Planes, Direct(p)
  PROVE  Told'
  <1> DEFINE len == Len(values)
             kind == values[i + 1]
  <1>1. /\ Looking /\ V \in {38, 48} /\ taken' = taken \cup {i} /\ values' = values
        /\ i \in 1 .. len /\ len \in Nat
    BY DEF Direct, Looking, Told
  <1>2. OperandsOf(i) = Operands(kind) /\ Operands(kind) \in 1 .. 4
        /\ (kind \notin {2, 5} => Operands(kind) = 1)
    BY <1>1 DEF OperandsOf, Operands, V
  <1>3. CASE i + 1 > len \/ (kind \in {2, 5} /\ i + Operands(kind) > len)
    <2>1. i' = len + 1
      BY <1>3 DEF Direct
    <2>2. \A k \in 1 .. len : k > i => k - i <= OperandsOf(i)
      BY <1>1, <1>2, <1>3
    <2> QED
      BY <1>1, <2>1, <2>2, TakenOn
  <1>4. CASE ~(i + 1 > len \/ (kind \in {2, 5} /\ i + Operands(kind) > len))
    <2>1. i' = i + Operands(kind) + 1
      BY <1>4 DEF Direct
    <2>2. i' \in Nat /\ i' > i
          /\ (\A k \in 1 .. len : k > i /\ k < i' => k - i <= OperandsOf(i))
          /\ i' - i > OperandsOf(i)
      BY <1>1, <1>2, <2>1
    <2> QED
      BY <1>1, <2>1, <2>2, TakenOn
  <1> QED
    BY <1>3, <1>4

\* A turn of the loop.
LEMMA AttributeTold == Told /\ Attribute => Told'
  <1> SUFFICES ASSUME Told, Attribute PROVE Told'
    OBVIOUS
  <1>1. ASSUME NEW vs, Turn(vs), vs \cap {38, 48} = {} PROVE Told'
    <2>1. V \notin {38, 48}
      BY <1>1 DEF Turn
    <2> QED
      BY <1>1, <2>1, TurnTold
  <1>2. CASE Reset
    <2>1. {0} \cap {38, 48} = {}
      OBVIOUS
    <2> QED
      BY <1>1, <1>2, <2>1 DEF Reset
  <1>3. CASE Reverse
    <2>1. {7, 27} \cap {38, 48} = {}
      OBVIOUS
    <2> QED
      BY <1>1, <1>3, <2>1 DEF Reverse
  <1>4. CASE Ignored
    <2> DEFINE vs == {V} \ ({0, 1, 5, 7, 22, 25, 27, 38, 39, 48, 49}
                      \cup (30 .. 37) \cup (40 .. 47)
                      \cup (90 .. 97) \cup (100 .. 107))
    <2>1. vs \cap {38, 48} = {}
      OBVIOUS
    <2>2. Turn(vs)
      BY <1>4 DEF Ignored
    <2> HIDE DEF vs
    <2> QED
      BY <1>1, <2>1, <2>2
  <1>5. ASSUME NEW p \in Planes,
               Intensify(p) \/ Soften(p) \/ Choose(p) \/ ChooseBright(p) \/ ChooseDefault(p)
        PROVE  Told'
    <2>1. \E vs : Turn(vs) /\ vs \in {{1}, {5}, {22}, {25}, {39}, {49}, 30 .. 37,
                                      40 .. 47, 90 .. 97, 100 .. 107}
      <3>1. Intensify(p) => Turn({1}) \/ Turn({5})
        BY Zenon DEF Intensify, Planes
      <3>2. Soften(p) => Turn({22}) \/ Turn({25})
        BY Zenon DEF Soften, Planes
      <3>3. ChooseDefault(p) => Turn({39}) \/ Turn({49})
        BY Zenon DEF ChooseDefault, Planes
      <3>4. Choose(p) => Turn(30 .. 30 + 7) \/ Turn(40 .. 40 + 7)
        BY Zenon DEF Choose, Planes
      <3>5. ChooseBright(p) => Turn(90 .. 90 + 7) \/ Turn(100 .. 100 + 7)
        BY Zenon DEF ChooseBright, Planes
      <3>6. 30 + 7 = 37 /\ 40 + 7 = 47 /\ 90 + 7 = 97 /\ 100 + 7 = 107
        OBVIOUS
      <3> QED
        BY <1>5, <3>1, <3>2, <3>3, <3>4, <3>5, <3>6
    <2>2. \A vs \in {{1}, {5}, {22}, {25}, {39}, {49}, 30 .. 37,
                     40 .. 47, 90 .. 97, 100 .. 107} : vs \cap {38, 48} = {}
      OBVIOUS
    <2> QED
      BY <1>1, <2>1, <2>2
  <1> QED
    BY <1>2, <1>3, <1>4, <1>5, DirectTold DEF Attribute

\* However a sequence mixes attributes and colours of one, two or four operands,
\* complete or cut short, sgr takes for attributes those that are.
THEOREM ParametersToldApart == SgrSpec => []OperandsAreNotAttributes
  <1>1. SgrInit => Told
    BY DEF SgrInit, Told, Free
  <1>2. Told /\ [SgrNext]_sgrVars => Told'
    <2> SUFFICES ASSUME Told, [SgrNext]_sgrVars PROVE Told'
      OBVIOUS
    <2>1. ASSUME NEW vs \in Lists, Begin(vs) PROVE Told'
      <3>1. vs \in Seq(Nat)
        BY ListsAssumption
      <3> QED
        BY <2>1, <3>1 DEF Begin, Told, Free
    <2>2. CASE End
      BY <2>2 DEF End, Told, Free
    <2>3. CASE SaveState \/ RestoreState \/ ResetTerminal \/ UNCHANGED sgrVars
      <3>1. UNCHANGED <<values, i, taken>>
        BY <2>3 DEF SaveState, RestoreState, ResetTerminal, sgrVars
      <3>2. \A k : Free(k)' <=> Free(k)
        BY <3>1 DEF Free, OperandsOf
      <3> QED
        BY <3>1, <3>2 DEF Told
    <2> QED
      BY <2>1, <2>2, <2>3, AttributeTold DEF SgrNext
  <1>3. Told => OperandsAreNotAttributes
    BY DEF Told, OperandsAreNotAttributes
  <1> QED
    BY <1>1, <1>2, <1>3, PTL DEF SgrSpec
=================================================================================
