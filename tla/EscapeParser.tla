----------------------------- MODULE EscapeParser -----------------------------
(***************************************************************************)
(* The byte parser of src/kernel/flanterm/flanterm.c: flanterm_putchar,    *)
(* escape_parse, control_sequence_parse, osc_parse.                        *)
(*                                                                         *)
(* The terminal is fed byte after byte and has to remember, in a dozen     *)
(* flags, where in an escape sequence or in a UTF-8 character it is.  What *)
(* a byte makes the terminal do is recorded in out; what the calls of the  *)
(* backend then change is the matter of FlantermFb.  The callback of the   *)
(* context, which the kernel never sets, is left out.                      *)
(*                                                                         *)
(* A byte is its character, or the name of its class.                      *)
(***************************************************************************)
EXTENDS Integers, SequencesExt

CONSTANTS
  Alphabet,     \* bound: the bytes written to the terminal
  MaxText,      \* bound: parameter bytes of a sequence
  MaxValues,    \* FLANTERM_MAX_ESC_VALUES, 16 in the code
  Width         \* values are computed modulo Width, 2^32 in the code

ASSUME ValuesAssumption == MaxValues \in Nat \ {0} /\ Width \in Nat \ {0, 1}
ASSUME TextAssumption == MaxText \in Nat

VARIABLES
  ctx,          \* the fields of flanterm_context the parser works with
  out,          \* what the last byte made the terminal do
  text,         \* history: the parameter bytes since the last introducer, ESC [
                \*   or 0x9b and the byte after it
  utf8          \* history: a UTF-8 lead byte and what continued it

vars == <<ctx, out, text, utf8>>

Numerals == <<"0", "1", "2", "3", "4", "5", "6", "7", "8", "9">>
Digits == {Numerals[n + 1] : n \in 0 .. 9}
Digit  == [c \in Digits |-> CHOOSE n \in 0 .. 9 : Numerals[n + 1] = c]

\* The lead bytes 0xc0 .. 0xf7 and how many bytes continue them.
Lead == [c \in {"lead2", "lead3", "lead4"} |->
           IF c = "lead2" THEN 1 ELSE IF c = "lead3" THEN 2 ELSE 3]

\* Bytes 0x80 .. 0xbf; 0x9b, which alone is CSI, is one of them.
Continuations == {"cont", "CSI"}

Zeros == [i \in 1 .. MaxValues |-> 0]
Nothing    == [did |-> "nothing"]
Does(w, c) == [did |-> w, what |-> c]

-----------------------------------------------------------------------------
\* flanterm_context_reinit, on a context whose other fields are those of c.
Reinit(c) ==
  [c EXCEPT !.escape = FALSE, !.csi = FALSE, !.control_sequence = FALSE,
            !.osc = FALSE, !.osc_escape = FALSE, !.rrr = FALSE,
            !.discard_next = FALSE, !.dec_private = FALSE,
            !.insert_mode = FALSE, !.cursor_enabled = TRUE,
            !.unicode_remaining = 0, !.g_select = 0,
            !.charsets = <<"default", "dec special">>, !.current_charset = 1,
            !.escape_offset = 0, !.esc_values_i = 0]

\* Fields flanterm_context_reinit does not set are zero in a new context.
Init ==
  /\ ctx = [escape |-> FALSE, csi |-> FALSE, control_sequence |-> FALSE,
            osc |-> FALSE, osc_escape |-> FALSE, rrr |-> FALSE,
            discard_next |-> FALSE, dec_private |-> FALSE,
            insert_mode |-> FALSE, cursor_enabled |-> TRUE,
            unicode_remaining |-> 0, g_select |-> 0,
            charsets |-> <<"default", "dec special">>, current_charset |-> 1,
            saved_state_current_charset |-> 1,
            escape_offset |-> 0, esc_values_i |-> 0, esc_values |-> Zeros]
  /\ out = Nothing
  /\ text = <<>> /\ utf8 = <<>>

-----------------------------------------------------------------------------
(* UTF-8, and cancelling.                                                   *)

Cancels(c) == ctx.discard_next \/ c \in {"CAN", "SUB"}
Continues(c) == ~Cancels(c) /\ ctx.unicode_remaining # 0 /\ c \in Continuations
Leads(c) == ~Cancels(c) /\ c \in DOMAIN Lead

\* Seeded fault: osc keeps its value.
Cancel_KeepsOsc(c) ==
  /\ Cancels(c)
  /\ ctx' = [ctx EXCEPT !.discard_next = FALSE, !.escape = FALSE, !.csi = FALSE,
                        !.control_sequence = FALSE, !.unicode_remaining = 0,
                        !.osc_escape = FALSE, !.g_select = 0]
  /\ out' = Nothing
  /\ utf8' = <<>>
  /\ text' = <<>>

\* The first block of flanterm_putchar.  dec_private keeps its value.
Cancel(c) ==
  /\ Cancels(c)
  /\ ctx' = [ctx EXCEPT !.discard_next = FALSE, !.escape = FALSE, !.csi = FALSE,
                        !.control_sequence = FALSE, !.unicode_remaining = 0,
                        !.osc = FALSE, !.osc_escape = FALSE, !.g_select = 0]
  /\ out' = Nothing
  /\ utf8' = <<>>
  /\ text' = <<>>

\* Characters inside a control sequence do not end it.
OpenText == IF ctx.control_sequence THEN text ELSE <<>>

\* A byte of a character; the last one prints it.
ContinueCharacter(c) ==
  /\ Continues(c)
  /\ ctx' = [ctx EXCEPT !.unicode_remaining = @ - 1]
  /\ out' = IF ctx.unicode_remaining = 1
              THEN [did |-> "character", what |-> c, inserts |-> ctx.insert_mode]
            ELSE Nothing
  /\ utf8' = Append(utf8, c)
  /\ text' = OpenText

\* A lead byte, even inside an escape sequence or another character.
StartCharacter(c) ==
  /\ Leads(c)
  /\ ctx' = [ctx EXCEPT !.unicode_remaining = Lead[c]]
  /\ out' = Nothing
  /\ utf8' = <<c>>
  /\ text' = OpenText

\* All other bytes; they end an incomplete character.
Plain(c) == ~Cancels(c) /\ ~Continues(c) /\ ~Leads(c)

\* Seeded fault: the character stays open.
Ended_KeepsCharacter == ctx

Ended == [ctx EXCEPT !.unicode_remaining = 0]

-----------------------------------------------------------------------------
(* escape_parse.                                                            *)

\* escape_parse counts its bytes; only whether the count is 2 matters.
Counted ==
  [Ended EXCEPT !.escape_offset = IF @ < 3 THEN @ + 1 ELSE 3]

InEscape(c) == Plain(c) /\ ctx.escape
InOsc(c)     == InEscape(c) /\ ctx.osc
InControl(c) == InEscape(c) /\ ~ctx.osc /\ ctx.control_sequence
AfterCsi(c)  == InEscape(c) /\ ~ctx.osc /\ ~ctx.control_sequence /\ ctx.csi
AfterEsc(c)  == InEscape(c) /\ ~ctx.osc /\ ~ctx.control_sequence /\ ~ctx.csi

\* osc_parse: the string runs to BEL or to ESC \.
OscByte(c) ==
  /\ InOsc(c)
  /\ LET ends == c = "BEL" \/ (ctx.osc_escape /\ c = "backslash")
     IN  ctx' = [Counted EXCEPT !.osc_escape = ~ends /\ c = "ESC",
                                !.osc = ~ends, !.escape = ~ends]
  /\ out' = Nothing
  /\ text' = <<>>

\* The label is_csi.
Introduced ==
  [Counted EXCEPT !.csi = FALSE, !.control_sequence = TRUE, !.rrr = FALSE,
                  !.esc_values = Zeros, !.esc_values_i = 0]

\* The byte after 0x9b jumps to is_csi too, and is not looked at: it is taken
\* for the second byte of the introducer, whatever it is.
CsiSwallows(c) ==
  /\ AfterCsi(c)
  /\ ctx' = Introduced
  /\ out' = Nothing
  /\ text' = <<>>

EscBracket(c) ==
  /\ AfterEsc(c) /\ c = "["
  /\ ctx' = Introduced
  /\ out' = Nothing
  /\ text' = <<>>

\* osc stays TRUE only until the string ends, and escape with it.
EscOsc(c) ==
  /\ AfterEsc(c) /\ c = "]"
  /\ ctx' = [Counted EXCEPT !.osc_escape = FALSE, !.osc = TRUE]
  /\ out' = Nothing
  /\ text' = <<>>

\* A sequence of two bytes.
EscFinal(c) ==
  /\ AfterEsc(c) /\ c \notin {"[", "]"}
  /\ LET done == [Counted EXCEPT !.escape = FALSE]
     IN  ctx' = IF c = "c" THEN Reinit(Counted)
                ELSE [done EXCEPT
                  !.saved_state_current_charset = IF c = "7" THEN ctx.current_charset
                                                  ELSE @,
                  !.current_charset = IF c = "8" THEN ctx.saved_state_current_charset
                                      ELSE @,
                  !.g_select = IF c = "(" THEN 1 ELSE IF c = ")" THEN 2 ELSE @]
  /\ out' = Does("escape", c)
  /\ text' = <<>>

-----------------------------------------------------------------------------
(* control_sequence_parse.                                                  *)

Second == Counted.escape_offset = 2

\* ESC [ [ : the byte to come is dropped.
DoubleBracket(c) ==
  /\ InControl(c) /\ Second /\ c = "["
  /\ ctx' = [Counted EXCEPT !.discard_next = TRUE, !.control_sequence = FALSE,
                            !.escape = FALSE]
  /\ out' = Nothing
  /\ text' = <<>>

PrivateMark(c) ==
  /\ InControl(c) /\ Second /\ c = "?"
  /\ ctx' = [Counted EXCEPT !.dec_private = TRUE]
  /\ out' = Nothing
  /\ text' = Append(text, c)

\* Seeded fault: a number too many is dropped, but counted.
ParameterDigit_Unchecked(c) ==
  /\ InControl(c) /\ c \in Digits
  /\ LET i == ctx.esc_values_i
     IN  ctx' = IF i = MaxValues THEN [Counted EXCEPT !.rrr = TRUE]
                ELSE [Counted EXCEPT !.rrr = TRUE,
                        !.esc_values[i + 1] = (10 * @ + Digit[c]) % Width]
  /\ out' = Nothing
  /\ text' = Append(text, c)

\* Digits beyond the last value are dropped.
ParameterDigit(c) ==
  /\ InControl(c) /\ c \in Digits
  /\ LET i == ctx.esc_values_i
     IN  ctx' = IF i = MaxValues THEN Counted
                ELSE [Counted EXCEPT !.rrr = TRUE,
                        !.esc_values[i + 1] = (10 * @ + Digit[c]) % Width]
  /\ out' = Nothing
  /\ text' = Append(text, c)

\* Seeded fault: a value that has digits is not counted.
ParameterEnd_ForgetsValue(c) ==
  /\ InControl(c) /\ c = ";"
  /\ LET i == ctx.esc_values_i
     IN  ctx' = [Counted EXCEPT !.rrr = FALSE,
                   !.esc_values_i = IF i = MaxValues \/ ctx.rrr THEN i
                                    ELSE i + 1]
  /\ out' = Nothing
  /\ text' = Append(text, c)

\* A semicolon ends a value; without digits before it the value is zero.
ParameterEnd(c) ==
  /\ InControl(c) /\ c = ";"
  /\ LET i == ctx.esc_values_i
     IN  ctx' = IF ctx.rrr
                  THEN [Counted EXCEPT !.rrr = FALSE, !.esc_values_i = i + 1]
                ELSE IF i = MaxValues THEN Counted
                ELSE [Counted EXCEPT !.esc_values[i + 1] = 0,
                                     !.esc_values_i = i + 1]
  /\ out' = Nothing
  /\ text' = Append(text, c)

\* The value a missing parameter has.
Default(c) == IF c \in {"J", "K", "q"} THEN 0 ELSE 1

\* Everything else is the final byte.  A private sequence switches the cursor
\* or does nothing; the others are the functions of the terminal, of which
\* only insert mode is a field of the parser.
ControlFinal(c) ==
  /\ InControl(c)
  /\ c \notin Digits \cup {";"}
  /\ ~(Second /\ c \in {"[", "?"})
  /\ LET n    == IF ctx.rrr THEN ctx.esc_values_i + 1 ELSE ctx.esc_values_i
         args == [i \in 1 .. MaxValues |->
                    IF i <= n THEN ctx.esc_values[i] ELSE Default(c)]
         done == [Counted EXCEPT !.rrr = FALSE, !.esc_values_i = n,
                    !.esc_values = args, !.dec_private = FALSE,
                    !.control_sequence = FALSE, !.escape = FALSE]
         switches == n > 0 /\ c \in {"h", "l"}
     IN  /\ ctx' = IF ctx.dec_private
                     THEN IF switches /\ args[1] = 25
                            THEN [done EXCEPT !.cursor_enabled = (c = "h")]
                            ELSE done
                     ELSE IF switches /\ args[1] = 4
                            THEN [done EXCEPT !.insert_mode = (c = "h")]
                            ELSE done
         /\ out' = [did |-> IF ctx.dec_private THEN "private" ELSE "control",
                    what |-> c, args |-> args, n |-> n]
  /\ UNCHANGED text

-----------------------------------------------------------------------------
(* Outside sequences.                                                       *)

\* The byte after ESC ( or ESC ) designates a character set.
Designate(c) ==
  /\ Plain(c) /\ ~ctx.escape /\ ctx.g_select # 0
  /\ LET set == IF c = "B" THEN "default" ELSE IF c = "0" THEN "dec special"
                ELSE ctx.charsets[ctx.g_select]
     IN  ctx' = [Ended EXCEPT !.charsets[ctx.g_select] = set, !.g_select = 0]
  /\ out' = Nothing
  /\ text' = <<>>

Ground(c) == Plain(c) /\ ~ctx.escape /\ ctx.g_select = 0

StartEscape(c) ==
  /\ Ground(c) /\ c \in {"ESC", "CSI"}
  /\ ctx' = [Ended EXCEPT !.csi = @ \/ c = "CSI", !.escape_offset = 0,
                          !.escape = TRUE]
  /\ out' = Nothing
  /\ text' = <<>>

\* SO and SI select one of the two sets.
Shift(c) ==
  /\ Ground(c) /\ c \in {"SO", "SI"}
  /\ ctx' = [Ended EXCEPT !.current_charset = IF c = "SO" THEN 2 ELSE 1]
  /\ out' = Nothing
  /\ text' = <<>>

\* Bytes that move the cursor, and bytes that are printed, in insert mode after
\* making room, through the selected set.
PutText(c) ==
  /\ Ground(c) /\ c \notin {"ESC", "CSI", "SO", "SI"}
  /\ ctx' = Ended
  /\ out' = CASE c \in {"BEL", "NUL"} -> Nothing
              [] c = "cont" -> IF ctx.insert_mode THEN Does("make room", c)
                               ELSE Nothing
              [] c \in {"LF", "CR", "BS", "TAB"} -> Does("move", c)
              [] OTHER -> [did |-> "print", what |-> c,
                           set |-> ctx.charsets[ctx.current_charset],
                           inserts |-> ctx.insert_mode]
  /\ text' = <<>>

PlainByte(c) ==
  \/ OscByte(c) \/ CsiSwallows(c)
  \/ EscBracket(c) \/ EscOsc(c) \/ EscFinal(c)
  \/ DoubleBracket(c) \/ PrivateMark(c)
  \/ ParameterDigit(c) \/ ParameterEnd(c) \/ ControlFinal(c)
  \/ Designate(c) \/ StartEscape(c) \/ Shift(c) \/ PutText(c)

Byte(c) ==
  \/ Cancel(c) \/ ContinueCharacter(c) \/ StartCharacter(c)
  \/ PlainByte(c) /\ utf8' = <<>>

Next ==
  \E c \in Alphabet :
    /\ InControl(c) /\ c \in Digits \cup {";", "?"} => Len(text) < MaxText
    /\ Byte(c)

Spec == Init /\ [][Next]_vars
-----------------------------------------------------------------------------
Flags == {"escape", "csi", "control_sequence", "osc", "osc_escape", "rrr",
          "discard_next", "dec_private", "insert_mode", "cursor_enabled"}

TypeOK ==
  /\ \A f \in Flags : ctx[f] \in BOOLEAN
  /\ ctx.unicode_remaining \in 0 .. 3
  /\ ctx.g_select \in 0 .. 2
  /\ ctx.charsets \in [1 .. 2 -> {"default", "dec special"}]
  /\ {ctx.current_charset, ctx.saved_state_current_charset} \subseteq 1 .. 2
  /\ ctx.escape_offset \in 0 .. 3
  /\ ctx.esc_values_i \in 0 .. MaxValues
  /\ ctx.esc_values \in [1 .. MaxValues -> 0 .. Width - 1]
  /\ out.did \in {"nothing", "character", "escape", "private", "control",
                 "make room", "move", "print"}
  /\ Len(text) <= MaxText + 1 /\ Len(utf8) <= 4

\* The flags never contradict each other, whatever bytes arrive in whatever
\* place: at most one kind of sequence is open; a string's escape, a character
\* set to designate or a byte to drop is remembered only where the code that
\* forgets it will run; and a number being read has a slot of its own in
\* esc_values.
ModesExclude ==
  /\ \A f \in {"csi", "control_sequence", "osc"} :
       ctx[f] => /\ ctx.escape
                 /\ \A g \in {"csi", "control_sequence", "osc"} \ {f} : ~ctx[g]
  /\ ctx.osc_escape => ctx.osc
  /\ ctx.g_select # 0 => ~ctx.escape
  /\ ctx.discard_next =>
       ~ctx.escape /\ ctx.g_select = 0 /\ ctx.unicode_remaining = 0
  /\ ctx.rrr => ctx.esc_values_i < MaxValues

(* What a control sequence means: its parameters are the numbers between the  *)
(* semicolons, an empty one being zero and an empty last one none.            *)
WithByte(fields, c) ==
  CASE c = ";" -> Append(fields, <<>>)
    [] c = "?" -> fields
    [] OTHER   -> [fields EXCEPT ![Len(fields)] = Append(@, c)]
FieldsOf(bytes) ==
  LET F[n \in 0 .. Len(bytes)] ==
        IF n = 0 THEN << <<>> >> ELSE WithByte(F[n - 1], bytes[n])
  IN  F[Len(bytes)]
Number(f) ==
  LET N[n \in 0 .. Len(f)] ==
        IF n = 0 THEN 0 ELSE (10 * N[n - 1] + Digit[f[n]]) % Width
  IN  N[Len(f)]
Fields == FieldsOf(text)
Given == IF Last(Fields) = <<>> THEN Front(Fields) ELSE Fields

\* A control function is given exactly the numbers written between introducer
\* and final byte, as many as esc_values holds, and the default for the rest;
\* nothing of an earlier sequence, cancelled or not, is left in them.  (0x9b
\* introduces a sequence only together with the byte that follows it.)
ParametersRead ==
  out.did \in {"control", "private"} =>
    /\ out.n = IF Len(Given) < MaxValues THEN Len(Given) ELSE MaxValues
    /\ \A i \in 1 .. MaxValues :
         out.args[i] = IF i <= out.n THEN Number(Given[i]) ELSE Default(out.what)

\* A UTF-8 character is printed when, and only when, a lead byte has been
\* followed by as many continuation bytes as it calls for, in whatever state
\* of an escape sequence they come.
Complete ==
  /\ utf8 # <<>> /\ utf8[1] \in DOMAIN Lead
  /\ Len(utf8) = 1 + Lead[utf8[1]]
CharactersWellFormed == out.did = "character" <=> Complete
==============================================================================
