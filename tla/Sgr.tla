---------------------------------- MODULE Sgr ----------------------------------
(***************************************************************************)
(* Colours: sgr of src/kernel/flanterm/flanterm.c, which runs through the  *)
(* parameters of ESC [ ... m, and what saving, restoring and resetting the *)
(* terminal do to them.                                                    *)
(*                                                                         *)
(* The context remembers which of the eight colours were chosen and how    *)
(* bright; the backend has the two colours characters are typed with.      *)
(* While reverse video is on the two are swapped, and every branch of sgr  *)
(* has to set the other one.  A plane is what a program means: the         *)
(* foreground "fg" or the background "bg".                                 *)
(***************************************************************************)
EXTENDS Integers, Sequences, FiniteSets

CONSTANTS
  Palette,      \* bound: the colours chosen, of 0 .. 7
  Indices,      \* bound: indices of the 256 colours
  Lists,        \* bound: the parameters of a sequence
  SaveBound(_, _, _)    \* bound: the ctx, chosen and off that are saved

ASSUME PaletteAssumption == Palette \subseteq 0 .. 7 /\ Indices \subseteq Nat
ASSUME ListsAssumption == Lists \subseteq Seq(Nat)

VARIABLES
  ctx,      \* bold, bg_bold, reverse_video, current_primary, current_bg
  text,     \* text_fg, text_bg of the backend
  saved,    \* the saved_state_ fields of both
  values,   \* esc_values[0 .. esc_values_i - 1]
  i,        \* the parameter sgr looks at next; 0 while it does not run
  taken,    \* history: the parameters that were taken for attributes
  chosen,   \* history: the colour last asked for, per plane
  off       \* history: planes whose colour is known to be wrong, see below

sgrVars == <<ctx, text, saved, values, i, taken, chosen, off>>

Planes == {"fg", "bg"}
Other(p) == IF p = "fg" THEN "bg" ELSE "fg"

\* Colours: ansi_colours, ansi_bright_colours, the four defaults, RGB values.
Normal(n) == [of |-> "normal", n |-> n]
Bright(n) == [of |-> "bright", n |-> n]
Rgb(n)    == [of |-> "rgb", n |-> n]
DefaultOf(p)       == [of |-> "default", n |-> IF p = "fg" THEN 0 ELSE 1]
DefaultBrightOf(p) == [of |-> "default bright", n |-> IF p = "fg" THEN 0 ELSE 1]

NotChosen == 8      \* (size_t)-1 of current_primary and current_bg

Default == [kind |-> "default", colour |-> Rgb(0)]
Plain(n) == [kind |-> "plain", colour |-> Normal(n)]
BrightOne(n) == [kind |-> "bright", colour |-> Bright(n)]
Exact(c) == [kind |-> "exact", colour |-> c]

-----------------------------------------------------------------------------
\* The side of the backend that shows a plane.
Side(p) == IF ctx.reverse_video THEN Other(p) ELSE p

\* bold and current_primary for the foreground, bg_bold and current_bg for the
\* background.
Flag(p)    == IF p = "fg" THEN ctx.bold ELSE ctx.bg_bold
Current(p) == IF p = "fg" THEN ctx.current_primary ELSE ctx.current_bg
WithFlag(c, p, b) ==
  IF p = "fg" THEN [c EXCEPT !.bold = b] ELSE [c EXCEPT !.bg_bold = b]
WithCurrent(c, p, n) ==
  IF p = "fg" THEN [c EXCEPT !.current_primary = n]
  ELSE [c EXCEPT !.current_bg = n]

\* The context without attributes, with colour n for both planes.
Plainly(n) ==
  [bold |-> FALSE, bg_bold |-> FALSE, reverse_video |-> FALSE,
   current_primary |-> n, current_bg |-> n]

Swapped == [fg |-> text.bg, bg |-> text.fg]

Looking == i \in 1 .. Len(values)
V == values[i]

\* One turn of the loop for parameter i.
Turn(vs) ==
  /\ Looking /\ V \in vs
  /\ i' = i + 1
  /\ taken' = taken \cup {i}
  /\ UNCHANGED <<saved, values>>

\* Parameter 0, or no parameters.
ResetAll ==
  /\ ctx' = Plainly(NotChosen)
  /\ text' = [p \in Planes |-> DefaultOf(p)]
  /\ chosen' = [p \in Planes |-> Default]
  /\ off' = {}

Reset == Turn({0}) /\ ResetAll

\* 1 and 5: the side that shows the plane gets its own bright default, or the
\* bright form of the colour last chosen among the eight.
Intensify(p) ==
  /\ Turn(IF p = "fg" THEN {1} ELSE {5})
  /\ ctx' = WithFlag(ctx, p, TRUE)
  /\ text' = [text EXCEPT ![Side(p)] =
                IF Current(p) # NotChosen THEN Bright(Current(p))
                ELSE DefaultBrightOf(Side(p))]
  /\ off' = IF \/ chosen[p].kind = "exact"
               \/ chosen[p].kind = "default" /\ ctx.reverse_video
              THEN off \cup {p} ELSE off
  /\ UNCHANGED chosen

\* 22 and 25.
Soften(p) ==
  /\ Turn(IF p = "fg" THEN {22} ELSE {25})
  /\ ctx' = WithFlag(ctx, p, FALSE)
  /\ text' = [text EXCEPT ![Side(p)] =
                IF Current(p) # NotChosen THEN Normal(Current(p))
                ELSE DefaultOf(Side(p))]
  /\ off' = IF \/ chosen[p].kind \in {"exact", "bright"}
               \/ chosen[p].kind = "default" /\ ctx.reverse_video
              THEN off \cup {p} ELSE off
  /\ UNCHANGED chosen

\* esc_values[i] - offset
ColourFrom(offset) == V - offset

\* 30 .. 37 and 40 .. 47, with the jumps to set_fg and set_bg.
Choose(p) ==
  LET base == IF p = "fg" THEN 30 ELSE 40
      n    == ColourFrom(base)
  IN  /\ Turn(base .. base + 7)
      /\ ctx' = WithCurrent(ctx, p, n)
      /\ text' = [text EXCEPT ![Side(p)] =
                    IF Flag(p) THEN Bright(n) ELSE Normal(n)]
      /\ chosen' = [chosen EXCEPT ![p] = Plain(n)]
      /\ off' = off \ {p}

\* 90 .. 97 and 100 .. 107.
ChooseBright(p) ==
  LET base == IF p = "fg" THEN 90 ELSE 100
      n    == ColourFrom(base)
  IN  /\ Turn(base .. base + 7)
      /\ ctx' = WithCurrent(ctx, p, n)
      /\ text' = [text EXCEPT ![Side(p)] = Bright(n)]
      /\ chosen' = [chosen EXCEPT ![p] = BrightOne(n)]
      /\ off' = off \ {p}

\* 39 and 49: swap, set the plane's own side, swap back.
ChooseDefault(p) ==
  /\ Turn(IF p = "fg" THEN {39} ELSE {49})
  /\ ctx' = WithCurrent(ctx, p, NotChosen)
  /\ text' = [text EXCEPT ![Side(p)] =
                IF Flag(p) THEN DefaultBrightOf(p) ELSE DefaultOf(p)]
  /\ chosen' = [chosen EXCEPT ![p] = Default]
  /\ off' = off \ {p}

\* 7 and 27.
Reverse ==
  /\ Turn({7, 27})
  /\ ctx' = [ctx EXCEPT !.reverse_video = (V = 7)]
  /\ text' = IF ctx.reverse_video = (V = 7) THEN text ELSE Swapped
  /\ UNCHANGED <<chosen, off>>

Ignored ==
  /\ Looking
  /\ Turn({V} \ ({0, 1, 5, 7, 22, 25, 27, 38, 39, 48, 49}
                   \cup (30 .. 37) \cup (40 .. 47)
                   \cup (90 .. 97) \cup (100 .. 107)))
  /\ UNCHANGED <<ctx, text, chosen, off>>

\* Seeded fault: a component of an RGB colour is not skipped.
Operands_OneShort(kind) == IF kind = 2 THEN 3 ELSE IF kind = 5 THEN 2 ELSE 1

\* How many parameters follow a 38 or 48, from the kind of colour it gives.
Operands(kind) == IF kind = 2 THEN 4 ELSE IF kind = 5 THEN 2 ELSE 1

\* Of the 256 colours the first sixteen are the eight and their bright forms;
\* the others are col256[index - 16], which has 240 entries: what is read
\* beyond them is any colour.
IndexedColour(n) ==
  IF n < 8 THEN {Normal(n)}
  ELSE IF n < 16 THEN {Bright(n - 8)}
  ELSE IF n < 256 THEN {Rgb(n)}
  ELSE {Rgb(m) : m \in Indices}

\* 38 and 48 with their operands; without all of them the rest of the sequence
\* is given up.  The side is set whether or not the colours are swapped.
Direct(p) ==
  /\ Looking /\ V = IF p = "fg" THEN 38 ELSE 48
  /\ taken' = taken \cup {i}
  /\ IF i + 1 > Len(values) \/ (values[i + 1] \in {2, 5}
                                  /\ i + Operands(values[i + 1]) > Len(values))
       THEN i' = Len(values) + 1 /\ UNCHANGED <<text, chosen, off>>
       ELSE /\ i' = i + Operands(values[i + 1]) + 1
            /\ IF values[i + 1] \notin {2, 5}
                 THEN UNCHANGED <<text, chosen, off>>
                 ELSE \E c \in IF values[i + 1] = 2 THEN {Rgb(values[i + 2])}
                               ELSE IndexedColour(values[i + 2]) :
                        /\ text' = [text EXCEPT ![p] = c]
                        /\ chosen' = [chosen EXCEPT ![p] = Exact(c)]
                        /\ off' = IF ctx.reverse_video THEN Planes ELSE off \ {p}
  /\ UNCHANGED <<ctx, saved, values>>

Attribute ==
  \/ Reset \/ Reverse \/ Ignored
  \/ \E p \in Planes :
       Intensify(p) \/ Soften(p) \/ Choose(p) \/ ChooseBright(p)
         \/ ChooseDefault(p) \/ Direct(p)

-----------------------------------------------------------------------------
\* sgr starts; without parameters it jumps to def.
Begin(vs) ==
  /\ i = 0
  /\ values' = vs /\ taken' = {} /\ i' = 1
  /\ IF vs = <<>> THEN ResetAll ELSE UNCHANGED <<ctx, text, chosen, off>>
  /\ UNCHANGED saved

End ==
  /\ i > Len(values)
  /\ i' = 0 /\ values' = <<>> /\ taken' = {}
  /\ UNCHANGED <<ctx, text, saved, chosen, off>>

\* ESC 7.
SaveState ==
  /\ i = 0 /\ SaveBound(ctx, chosen, off)
  /\ saved' = [ctx |-> ctx, text |-> text, chosen |-> chosen, off |-> off]
  /\ UNCHANGED <<ctx, text, values, i, taken, chosen, off>>

\* Seeded fault: reverse_video is not restored.
RestoreState_KeepsReverse ==
  /\ i = 0
  /\ ctx' = [saved.ctx EXCEPT !.reverse_video = ctx.reverse_video]
  /\ text' = saved.text
  /\ chosen' = saved.chosen /\ off' = saved.off
  /\ UNCHANGED <<saved, values, i, taken>>

\* ESC 8.
RestoreState ==
  /\ i = 0
  /\ ctx' = saved.ctx /\ text' = saved.text
  /\ chosen' = saved.chosen /\ off' = saved.off
  /\ UNCHANGED <<saved, values, i, taken>>

\* ESC c: flanterm_context_reinit resets the context, and nothing sets the
\* backend's colours back.
ResetTerminal ==
  /\ i = 0
  /\ ctx' = Plainly(NotChosen)
  /\ chosen' = [p \in Planes |-> Default]
  /\ off' = Planes
  /\ UNCHANGED <<text, saved, values, i, taken>>

\* The saved fields are zero in a new context: colour 0, black on black.
SgrInit ==
  /\ ctx = Plainly(NotChosen)
  /\ text = [p \in Planes |-> DefaultOf(p)]
  /\ chosen = [p \in Planes |-> Default]
  /\ off = {}
  /\ saved = [ctx |-> Plainly(0),
              text |-> [p \in Planes |-> Normal(0)],
              chosen |-> [p \in Planes |-> Plain(0)], off |-> {}]
  /\ values = <<>> /\ i = 0 /\ taken = {}

SgrNext ==
  \/ \E vs \in Lists : Begin(vs)
  \/ Attribute \/ End
  \/ SaveState \/ RestoreState \/ ResetTerminal

SgrSpec == SgrInit /\ [][SgrNext]_sgrVars
-----------------------------------------------------------------------------
\* The colour a plane should have.
Wanted(p) ==
  CASE chosen[p].kind = "default" ->
         IF Flag(p) THEN DefaultBrightOf(p) ELSE DefaultOf(p)
    [] chosen[p].kind = "plain" ->
         IF Flag(p) THEN Bright(chosen[p].colour.n) ELSE chosen[p].colour
    [] OTHER -> chosen[p].colour

\* Whatever attributes were set in whatever order, with reverse video switched
\* on and off and states saved and restored between them, characters are typed
\* in the colours asked for, bright where bold or blink asks for it and swapped
\* where reverse does.  The ways known to lose a plane, until it is chosen
\* again: a direct colour chosen in reverse video, bold or normal intensity
\* applied to a direct colour, a default in reverse video, or a bright colour
\* made normal, and resetting the terminal.
ColoursAsAsked == \A p \in Planes \ off : text[Side(p)] = Wanted(p)

\* How many parameters belong to the one at j, when it is an attribute.
OperandsOf(j) ==
  IF values[j] \notin {38, 48} THEN 0
  ELSE IF values[j + 1] = 2 THEN 4 ELSE IF values[j + 1] = 5 THEN 2 ELSE 1

\* Parameter k is not an operand of an attribute before it.
Free(k) == \A j \in taken : j < k => k - j > OperandsOf(j)

\* No component of a colour is taken for an attribute, and no attribute for a
\* component, in complete, unknown and truncated colours alike: the attributes
\* are those parameters that are no operands of attributes before them.
OperandsAreNotAttributes ==
  i > Len(values) =>
    /\ taken \subseteq 1 .. Len(values)
    /\ \A k \in 1 .. Len(values) : k \in taken <=> Free(k)
==============================================================================
