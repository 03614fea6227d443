---------------------------- MODULE EscapeProofs ----------------------------
(***************************************************************************)
(* Machine-checked proofs about EscapeParser, for every alphabet made of   *)
(* its bytes, every capacity of esc_values, every width of a value and     *)
(* parameters of every length.                                             *)
(*                                                                         *)
(* ModesExclude and CharactersWellFormed are nearly inductive: the first   *)
(* needs to know that the context has its fields and types (Good), and a   *)
(* character in progress needs the count of the bytes it still waits for   *)
(* (Reading). ParametersRead speaks of the step that ends a sequence only: *)
(* PInv says what esc_values, esc_values_i and rrr hold after each byte    *)
(* before it. What the bytes of a sequence mean is a recursive function    *)
(* over them (FieldsOf, Number), and the lemmas from NatSetInduction on    *)
(* solve its equations, so that a byte more is one application of them.    *)
(***************************************************************************)
EXTENDS EscapeParser, SequenceTheorems, WellFoundedInduction, TLAPS

FieldNames ==
  {"escape", "csi", "control_sequence", "osc", "osc_escape", "rrr",
   "discard_next", "dec_private", "insert_mode", "cursor_enabled",
   "unicode_remaining", "g_select", "charsets", "current_charset",
   "saved_state_current_charset", "escape_offset", "esc_values_i", "esc_values"}

\* The fields of a context r.
Switches(r) == \A f \in Flags : r[f] \in BOOLEAN
Numbers(r) ==
  /\ r.g_select \in 0 .. 2 /\ r.unicode_remaining \in 0 .. 3
  /\ r.charsets \in [1 .. 2 -> {"default", "dec special"}]
  /\ r.current_charset \in 1 .. 2 /\ r.saved_state_current_charset \in 1 .. 2
  /\ r.escape_offset \in 0 .. 3
  /\ r.esc_values_i \in 0 .. MaxValues
  /\ r.esc_values \in [1 .. MaxValues -> 0 .. Width - 1]

\* ModesExclude, field by field.
Modes(c) ==
  /\ c.csi => c.escape /\ ~c.control_sequence /\ ~c.osc
  /\ c.control_sequence => c.escape /\ ~c.csi /\ ~c.osc
  /\ c.osc => c.escape /\ ~c.csi /\ ~c.control_sequence
  /\ c.osc_escape => c.osc
  /\ c.g_select # 0 => ~c.escape
  /\ c.discard_next => ~c.escape /\ c.g_select = 0 /\ c.unicode_remaining = 0
  /\ c.rrr => c.esc_values_i < MaxValues

Good(r) ==
  DOMAIN r = FieldNames /\ Switches(r) /\ Numbers(r) /\ Modes(r)

\* The character being read, or the one just read.
Reading ==
  /\ utf8 \in Seq(Alphabet)
  /\ utf8 = <<>> => ctx.unicode_remaining = 0
  /\ utf8 # <<>> =>
       /\ utf8[1] \in DOMAIN Lead
       /\ Len(utf8) + ctx.unicode_remaining = 1 + Lead[utf8[1]]
  /\ out.did = "character" <=> utf8 # <<>> /\ ctx.unicode_remaining = 0

Outs == {"nothing", "character", "escape", "private", "control",
         "make room", "move", "print"}

\* The inductive invariant.
IInv ==
  /\ Good(ctx)
  /\ out.did \in Outs
  /\ text \in Seq(Alphabet) /\ Len(text) <= MaxText
  /\ Reading

-----------------------------------------------------------------------------
LEMMA ModesAreModes ==
  ASSUME Modes(ctx) PROVE ModesExclude
  BY DEF Modes, ModesExclude

\* Facts about the tables.
LEMMA DigitTyped == \A c \in Digits : Digit[c] \in 0 .. 9
  <1>1. ASSUME NEW c \in Digits
        PROVE  \E n \in 0 .. 9 : Numerals[n + 1] = c
    BY DEF Digits
  <1> QED BY <1>1 DEF Digit

LEMMA LeadTyped == \A c \in DOMAIN Lead : Lead[c] \in 1 .. 3
  BY DEF Lead

LEMMA ZerosTyped == Zeros \in [1 .. MaxValues -> 0 .. Width - 1]
  BY ValuesAssumption DEF Zeros

LEMMA Small ==
  /\ 0 \in 0 .. 2 /\ 1 \in 0 .. 2 /\ 2 \in 0 .. 2
  /\ 0 \in 0 .. 3 /\ 3 \in 0 .. 3 /\ 1 \in 1 .. 2 /\ 2 \in 1 .. 2
  /\ 0 \in 0 .. MaxValues
  BY ValuesAssumption

\* The bytes of a character, and those that cancel.
LEMMA CancelGood ==
  ASSUME Good(ctx), NEW c, Cancel(c)
  PROVE  Good(ctx')
  <1>1. DOMAIN ctx' = FieldNames
    BY DEF Good, Cancel
  <1>2. Switches(ctx')
    BY DEF Good, FieldNames, Flags, Switches, Cancel
  <1>3. Numbers(ctx')
    BY Small, Zenon DEF Good, FieldNames, Numbers, Cancel
  <1>4. Modes(ctx')
    BY DEF Good, FieldNames, Modes, Numbers, Cancel
  <1> QED
    BY <1>1, <1>2, <1>3, <1>4 DEF Good

LEMMA ContinueGood ==
  ASSUME Good(ctx), NEW c, ContinueCharacter(c)
  PROVE  Good(ctx')
  <1>1. DOMAIN ctx' = FieldNames
    BY DEF Good, ContinueCharacter, Continues
  <1>2. Switches(ctx')
    BY DEF Good, FieldNames, Flags, Switches, ContinueCharacter, Continues
  <1>0. ctx.unicode_remaining - 1 \in 0 .. 3
    <2>1. ctx.unicode_remaining \in 0 .. 3 /\ ctx.unicode_remaining # 0
      BY Zenon DEF Good, Numbers, ContinueCharacter, Continues
    <2> QED BY ONLY <2>1
  <1>3. Numbers(ctx')
    BY <1>0, Small, Zenon DEF Good, FieldNames, Numbers, ContinueCharacter, Continues
  <1>4. Modes(ctx')
    BY DEF Good, FieldNames, Modes, Numbers, ContinueCharacter, Continues
  <1> QED
    BY <1>1, <1>2, <1>3, <1>4 DEF Good

LEMMA StartGood ==
  ASSUME Good(ctx), NEW c, StartCharacter(c)
  PROVE  Good(ctx')
  <1>1. DOMAIN ctx' = FieldNames
    BY DEF Good, StartCharacter, Leads, Cancels
  <1>2. Switches(ctx')
    BY DEF Good, FieldNames, Flags, Switches, StartCharacter, Leads, Cancels
  <1>3. Numbers(ctx')
    <2>1. Lead[c] \in 0 .. 3
      BY LeadTyped DEF StartCharacter, Leads
    <2> QED
      BY <2>1, Small, Zenon DEF Good, FieldNames, Numbers, StartCharacter
  <1>4. Modes(ctx')
    BY DEF Good, FieldNames, Modes, Numbers, StartCharacter, Leads, Cancels
  <1> QED
    BY <1>1, <1>2, <1>3, <1>4 DEF Good

\* Bytes that end a character, and those escape_parse counts.
LEMMA EndedGood ==
  ASSUME Good(ctx)
  PROVE  Good(Ended)
  <1>1. DOMAIN Ended = FieldNames
    BY DEF Good, Ended
  <1>2. Switches(Ended)
    BY DEF Good, FieldNames, Flags, Switches, Ended
  <1>3. Numbers(Ended)
    BY Small, Zenon DEF Good, FieldNames, Numbers, Ended
  <1>4. Modes(Ended)
    BY DEF Good, FieldNames, Modes, Numbers, Ended
  <1> QED
    BY <1>1, <1>2, <1>3, <1>4 DEF Good

LEMMA CountedGood ==
  ASSUME Good(Ended)
  PROVE  Good(Counted)
  <1>1. DOMAIN Counted = FieldNames
    BY DEF Good, Counted
  <1>2. Switches(Counted)
    BY DEF Good, FieldNames, Flags, Switches, Counted
  <1>0. (IF Ended.escape_offset < 3 THEN Ended.escape_offset + 1 ELSE 3) \in 0 .. 3
    <2>1. Ended.escape_offset \in 0 .. 3
      BY Zenon DEF Good, Numbers
    <2> QED BY ONLY <2>1
  <1>3. Numbers(Counted)
    BY <1>0, Small, Zenon DEF Good, FieldNames, Numbers, Counted
  <1>4. Modes(Counted)
    BY DEF Good, FieldNames, Modes, Numbers, Counted
  <1> QED
    BY <1>1, <1>2, <1>3, <1>4 DEF Good


\* Counting changes nothing else.
LEMMA CountedIsCtx ==
  ASSUME Good(ctx)
  PROVE  /\ \A f \in FieldNames \ {"unicode_remaining", "escape_offset"} :
              Counted[f] = ctx[f]
         /\ Counted.unicode_remaining = 0
  <1>1. \A f \in FieldNames \ {"unicode_remaining"} : Ended[f] = ctx[f]
    BY Zenon DEF Good, Ended
  <1>2. DOMAIN Ended = FieldNames
    BY DEF Good, Ended
  <1>3. \A f \in FieldNames \ {"escape_offset"} : Counted[f] = Ended[f]
    BY <1>2, Zenon DEF Counted
  <1>4. Ended.unicode_remaining = 0
    BY DEF Good, FieldNames, Ended
  <1> QED
    BY <1>1, <1>3, <1>4, Zenon DEF FieldNames

\* Inside escape sequences.
LEMMA OscGood ==
  ASSUME Good(Counted), NEW c, OscByte(c), Counted.osc, Counted.escape
  PROVE  Good(ctx')
  <1>1. DOMAIN ctx' = FieldNames
    BY DEF Good, OscByte, InOsc, InEscape
  <1>2. Switches(ctx')
    BY DEF Good, FieldNames, Flags, Switches, OscByte, InOsc, InEscape
  <1>3. Numbers(ctx')
    BY Small, Zenon DEF Good, FieldNames, Numbers, OscByte, InOsc, InEscape
  <1>4. Modes(ctx')
    BY DEF Good, FieldNames, Modes, Numbers, OscByte, InOsc, InEscape
  <1> QED
    BY <1>1, <1>2, <1>3, <1>4 DEF Good

LEMMA IntroducedGood ==
  ASSUME Good(Counted), Counted.escape, ~Counted.osc, Counted.g_select = 0, ~Counted.discard_next
  PROVE  Good(Introduced)
  <1>1. DOMAIN Introduced = FieldNames
    BY DEF Good, Introduced
  <1>2. Switches(Introduced)
    BY DEF Good, FieldNames, Flags, Switches, Introduced
  <1>3. Numbers(Introduced)
    BY ZerosTyped, Small, Zenon DEF Good, FieldNames, Numbers, Introduced
  <1>4. Modes(Introduced)
    BY DEF Good, FieldNames, Modes, Numbers, Introduced
  <1> QED
    BY <1>1, <1>2, <1>3, <1>4 DEF Good

LEMMA PairTyped ==
  ASSUME NEW S, NEW a \in S, NEW b \in S
  PROVE  <<a, b>> \in [1 .. 2 -> S]
  OBVIOUS

LEMMA EscOscGood ==
  ASSUME Good(Counted),
         NEW c, EscOsc(c),
         Counted.escape, ~Counted.csi, ~Counted.control_sequence
  PROVE  Good(ctx')
  <1>1. DOMAIN ctx' = FieldNames
    BY DEF Good, EscOsc
  <1>2. Switches(ctx')
    BY DEF Good, FieldNames, Flags, Switches, EscOsc
  <1>3. Numbers(ctx')
    BY Small, Zenon DEF Good, FieldNames, Numbers, EscOsc
  <1>4. Modes(ctx')
    BY DEF Good, FieldNames, Modes, Numbers, EscOsc
  <1> QED
    BY <1>1, <1>2, <1>3, <1>4 DEF Good

LEMMA DoubleBracketGood ==
  ASSUME Good(Counted),
         NEW c, DoubleBracket(c),
         Counted.control_sequence, Counted.unicode_remaining = 0
  PROVE  Good(ctx')
  <1>1. DOMAIN ctx' = FieldNames
    BY DEF Good, DoubleBracket
  <1>2. Switches(ctx')
    BY DEF Good, FieldNames, Flags, Switches, DoubleBracket
  <1>3. Numbers(ctx')
    BY Small, Zenon DEF Good, FieldNames, Numbers, DoubleBracket
  <1>4. Modes(ctx')
    BY DEF Good, FieldNames, Modes, Numbers, DoubleBracket
  <1> QED
    BY <1>1, <1>2, <1>3, <1>4 DEF Good

LEMMA PrivateMarkGood ==
  ASSUME Good(Counted),
         NEW c, PrivateMark(c)
  PROVE  Good(ctx')
  <1>1. DOMAIN ctx' = FieldNames
    BY DEF Good, PrivateMark
  <1>2. Switches(ctx')
    BY DEF Good, FieldNames, Flags, Switches, PrivateMark
  <1>3. Numbers(ctx')
    BY Small, Zenon DEF Good, FieldNames, Numbers, PrivateMark
  <1>4. Modes(ctx')
    BY DEF Good, FieldNames, Modes, Numbers, PrivateMark
  <1> QED
    BY <1>1, <1>2, <1>3, <1>4 DEF Good

\* Outside sequences.
LEMMA ShiftGood ==
  ASSUME Good(Ended),
         NEW c, Shift(c)
  PROVE  Good(ctx')
  <1>1. DOMAIN ctx' = FieldNames
    BY DEF Good, Shift
  <1>2. Switches(ctx')
    BY DEF Good, FieldNames, Flags, Switches, Shift
  <1>3. Numbers(ctx')
    BY Small, Zenon DEF Good, FieldNames, Numbers, Shift
  <1>4. Modes(ctx')
    BY DEF Good, FieldNames, Modes, Numbers, Shift
  <1> QED
    BY <1>1, <1>2, <1>3, <1>4 DEF Good

LEMMA StartEscapeGood ==
  ASSUME Good(Ended),
         NEW c, StartEscape(c),
         ~Ended.escape, ~Ended.discard_next, Ended.g_select = 0
  PROVE  Good(ctx')
  <1>1. DOMAIN ctx' = FieldNames
    BY DEF Good, StartEscape
  <1>2. Switches(ctx')
    BY DEF Good, FieldNames, Flags, Switches, StartEscape
  <1>3. Numbers(ctx')
    BY Small, Zenon DEF Good, FieldNames, Numbers, StartEscape
  <1>4. Modes(ctx')
    BY DEF Good, FieldNames, Modes, Numbers, StartEscape
  <1> QED
    BY <1>1, <1>2, <1>3, <1>4 DEF Good

LEMMA DesignateGood ==
  ASSUME Good(Ended),
         NEW c, Designate(c),
         ctx.charsets = Ended.charsets, ctx.g_select = Ended.g_select
  PROVE  Good(ctx')
  <1>1. DOMAIN ctx' = FieldNames
    BY DEF Good, Designate
  <1>2. Switches(ctx')
    BY DEF Good, FieldNames, Flags, Switches, Designate
  <1>3. Numbers(ctx')
    <2> DEFINE k == ctx.g_select
               set == IF c = "B" THEN "default" ELSE IF c = "0" THEN "dec special"
                      ELSE ctx.charsets[k]
    <2>1. k \in 1 .. 2
      <3>1. k \in 0 .. 2 /\ k # 0
        BY Zenon DEF Good, Numbers, Designate
      <3> QED BY ONLY <3>1
    <2>2. Ended.charsets \in [1 .. 2 -> {"default", "dec special"}]
      BY Zenon DEF Good, Numbers
    <2>3. set \in {"default", "dec special"}
      BY <2>1, <2>2
    <2>4. ctx' = [Ended EXCEPT !.charsets = [Ended.charsets EXCEPT ![k] = set],
                              !.g_select = 0]
      BY Zenon DEF Designate
    <2> HIDE DEF k, set
    <2>5. [Ended.charsets EXCEPT ![k] = set] \in [1 .. 2 -> {"default", "dec special"}]
      BY ONLY <2>1, <2>2, <2>3
    <2> QED
      BY <2>4, <2>5, Small, Zenon DEF Good, FieldNames, Numbers
  <1>4. Modes(ctx')
    BY DEF Good, FieldNames, Modes, Numbers, Designate
  <1> QED
    BY <1>1, <1>2, <1>3, <1>4 DEF Good

\* ESC c, and the other sequences of two bytes.
LEMMA ReinitGood ==
  ASSUME Good(Counted)
  PROVE  Good(Reinit(Counted))
  <1>1. DOMAIN Reinit(Counted) = FieldNames
    BY DEF Good, Reinit
  <1>2. Switches(Reinit(Counted))
    <2> PICK r : r = Reinit(Counted)
      OBVIOUS
    <2>1. /\ r.escape = FALSE /\ r.csi = FALSE /\ r.control_sequence = FALSE
          /\ r.osc = FALSE /\ r.osc_escape = FALSE /\ r.rrr = FALSE
          /\ r.discard_next = FALSE /\ r.dec_private = FALSE
          /\ r.insert_mode = FALSE /\ r.cursor_enabled = TRUE
      BY Zenon DEF Good, FieldNames, Reinit
    <2> QED
      BY <2>1, Zenon DEF Flags, Switches
  <1>3. Numbers(Reinit(Counted))
    <2>1. <<"default", "dec special">> \in [1 .. 2 -> {"default", "dec special"}]
      BY PairTyped
    <2> QED
      BY <2>1, Small, Zenon DEF Good, FieldNames, Numbers, Reinit
  <1>4. Modes(Reinit(Counted))
    BY DEF Good, FieldNames, Modes, Numbers, Reinit
  <1> QED
    BY <1>1, <1>2, <1>3, <1>4 DEF Good

LEMMA EscFinalGood ==
  ASSUME Good(Counted), ctx.current_charset \in 1 .. 2,
         ctx.saved_state_current_charset \in 1 .. 2,
         NEW c, EscFinal(c),
         ~Counted.csi, ~Counted.control_sequence, ~Counted.osc, ~Counted.discard_next
  PROVE  Good(ctx')
  <1>1. CASE c = "c"
    BY <1>1, ReinitGood, Zenon DEF EscFinal
  <1>2. CASE c # "c"
    <2> PICK d : d = [Counted EXCEPT !.escape = FALSE]
      OBVIOUS
    <2>1. Good(d) /\ ~d.escape /\ ~d.csi /\ ~d.control_sequence /\ ~d.osc /\ ~d.discard_next
      <3>1. DOMAIN d = FieldNames
        BY DEF Good
      <3>2. Switches(d)
        BY DEF Good, FieldNames, Flags, Switches
      <3>3. Numbers(d)
        BY Small, Zenon DEF Good, FieldNames, Numbers
      <3>4. /\ d.escape = FALSE /\ d.csi = Counted.csi
            /\ d.control_sequence = Counted.control_sequence /\ d.osc = Counted.osc
            /\ d.discard_next = Counted.discard_next
        BY Zenon DEF Good, FieldNames
      <3>5. Modes(d)
        BY DEF Good, FieldNames, Modes, Numbers
      <3> QED
        BY <3>1, <3>2, <3>3, <3>4, <3>5, Zenon DEF Good
    <2>2. PICK u, v, g :
            /\ u \in 1 .. 2 /\ v \in 1 .. 2 /\ g \in 0 .. 2
            /\ ctx' = [d EXCEPT !.saved_state_current_charset = u,
                                !.current_charset = v, !.g_select = g]
      <3>1. /\ d.saved_state_current_charset \in 1 .. 2 /\ d.current_charset \in 1 .. 2
            /\ d.g_select \in 0 .. 2
        BY <2>1, Zenon DEF Good, Numbers
      <3> DEFINE u == IF c = "7" THEN ctx.current_charset
                      ELSE d.saved_state_current_charset
                 v == IF c = "8" THEN ctx.saved_state_current_charset
                      ELSE d.current_charset
                 g == IF c = "(" THEN 1 ELSE IF c = ")" THEN 2 ELSE d.g_select
      <3>2. u \in 1 .. 2 /\ v \in 1 .. 2 /\ g \in 0 .. 2
        BY <3>1, Small, Zenon
      <3>3. ctx' = [d EXCEPT !.saved_state_current_charset = u,
                             !.current_charset = v, !.g_select = g]
        BY <1>2, <2>1, Zenon DEF EscFinal, Good, FieldNames
      <3> HIDE DEF u, v, g
      <3> QED
        BY <3>2, <3>3, Zenon
    <2>3. DOMAIN ctx' = FieldNames
      BY <2>1, <2>2 DEF Good
    <2>4. Switches(ctx')
      BY <2>1, <2>2 DEF Good, FieldNames, Flags, Switches
    <2>5. Numbers(ctx')
      BY <2>1, <2>2, Zenon DEF Good, FieldNames, Numbers
    <2>6. Modes(ctx')
      BY <2>1, <2>2 DEF Good, FieldNames, Modes, Numbers
    <2> QED
      BY <2>3, <2>4, <2>5, <2>6 DEF Good
  <1> QED
    BY <1>1, <1>2

\* A number has its slot, and stays below Width.
LEMMA ParameterDigitGood ==
  ASSUME Good(Counted), NEW c, ParameterDigit(c),
         ctx.esc_values_i = Counted.esc_values_i
  PROVE  Good(ctx')
  <1> DEFINE i == ctx.esc_values_i
             v == (10 * Counted.esc_values[i + 1] + Digit[c]) % Width
             vs == [Counted.esc_values EXCEPT ![i + 1] = v]
  <1>1. CASE i = MaxValues
    BY <1>1, Zenon DEF ParameterDigit
  <1>2. CASE i # MaxValues
    <2>1. i \in 0 .. MaxValues /\ Counted.esc_values \in [1 .. MaxValues -> 0 .. Width - 1]
      BY Zenon DEF Good, Numbers
    <2>2. i \in Nat /\ i < MaxValues /\ i + 1 \in 1 .. MaxValues
      BY ONLY <1>2, <2>1, ValuesAssumption
    <2>3. v \in 0 .. Width - 1
      <3>1. Counted.esc_values[i + 1] \in 0 .. Width - 1
        BY <2>1, <2>2, Zenon
      <3>2. Digit[c] \in Nat
        BY DigitTyped DEF ParameterDigit
      <3> QED BY ONLY <3>1, <3>2, ValuesAssumption
    <2>4. ctx' = [Counted EXCEPT !.rrr = TRUE, !.esc_values = vs]
      BY <1>2, Zenon DEF ParameterDigit
    <2> HIDE DEF v
    <2>5. vs \in [1 .. MaxValues -> 0 .. Width - 1]
      BY ONLY <2>1, <2>2, <2>3
    <2> HIDE DEF i, vs
    <2>6. DOMAIN ctx' = FieldNames
      BY <2>4 DEF Good
    <2>7. Switches(ctx')
      BY <2>4 DEF Good, FieldNames, Flags, Switches
    <2>8. Numbers(ctx')
      BY <2>4, <2>5, Zenon DEF Good, FieldNames, Numbers
    <2>9. Modes(ctx')
      <3>1. Counted.esc_values_i < MaxValues
        BY <2>2, Zenon DEF i
      <3> QED BY <2>4, <3>1 DEF Good, FieldNames, Modes, Numbers
    <2> QED
      BY <2>6, <2>7, <2>8, <2>9 DEF Good
  <1> QED
    BY <1>1, <1>2, Zenon

\* An ended number leaves its slot counted.
LEMMA ParameterEndGood ==
  ASSUME Good(Counted), NEW c, ParameterEnd(c), ctx.rrr = Counted.rrr,
         ctx.esc_values_i = Counted.esc_values_i
  PROVE  Good(ctx')
  <1> PICK i : i = ctx.esc_values_i
    OBVIOUS
  <1>1. /\ i \in 0 .. MaxValues /\ i = Counted.esc_values_i
        /\ Counted.esc_values \in [1 .. MaxValues -> 0 .. Width - 1]
    BY Zenon DEF Good, Numbers
  <1>2. CASE ctx.rrr
    <2>1. i + 1 \in 0 .. MaxValues
      <3>1. i < MaxValues
        BY <1>1, <1>2, Zenon DEF Good, Modes
      <3> QED BY ONLY <1>1, <3>1, ValuesAssumption
    <2>2. ctx' = [Counted EXCEPT !.rrr = FALSE, !.esc_values_i = i + 1]
      BY <1>2, Zenon DEF ParameterEnd
    <2>3. DOMAIN ctx' = FieldNames
      BY <2>2 DEF Good
    <2>4. Switches(ctx')
      BY <2>2 DEF Good, FieldNames, Flags, Switches
    <2>5. Numbers(ctx')
      BY <2>1, <2>2, Zenon DEF Good, FieldNames, Numbers
    <2>6. Modes(ctx')
      BY <2>2 DEF Good, FieldNames, Modes, Numbers
    <2> QED
      BY <2>3, <2>4, <2>5, <2>6 DEF Good
  <1>3. CASE ~ctx.rrr /\ i = MaxValues
    BY <1>3, Zenon DEF ParameterEnd
  <1>4. CASE ~ctx.rrr /\ i # MaxValues
    <2>1. i + 1 \in 0 .. MaxValues /\ i + 1 \in 1 .. MaxValues /\ 0 \in 0 .. Width - 1
      BY ONLY <1>1, <1>4, ValuesAssumption
    <2> DEFINE vs == [Counted.esc_values EXCEPT ![i + 1] = 0]
    <2>2. vs \in [1 .. MaxValues -> 0 .. Width - 1]
      BY ONLY <1>1, <2>1
    <2>3. ctx' = [Counted EXCEPT !.esc_values = vs, !.esc_values_i = i + 1]
      BY <1>4, Zenon DEF ParameterEnd
    <2> HIDE DEF vs
    <2>4. DOMAIN ctx' = FieldNames
      BY <2>3 DEF Good
    <2>5. Switches(ctx')
      BY <2>3 DEF Good, FieldNames, Flags, Switches
    <2>6. Numbers(ctx')
      BY <2>1, <2>2, <2>3, Zenon DEF Good, FieldNames, Numbers
    <2>7. Modes(ctx')
      <3>1. ctx'.rrr = FALSE
        BY <1>4, <2>3 DEF Good, FieldNames, Flags, Switches
      <3> QED BY <2>3, <3>1 DEF Good, FieldNames, Modes, Numbers
    <2> QED
      BY <2>4, <2>5, <2>6, <2>7 DEF Good
  <1> QED
    BY <1>2, <1>3, <1>4

\* The parameters given, the defaults for the rest.
LEMMA ControlFinalGood ==
  ASSUME Good(Counted), NEW c, ControlFinal(c), ctx.rrr = Counted.rrr,
         ctx.esc_values_i = Counted.esc_values_i,
         ctx.esc_values = Counted.esc_values,
         ~Counted.csi, ~Counted.osc
  PROVE  Good(ctx')
  <1> DEFINE n == IF ctx.rrr THEN ctx.esc_values_i + 1 ELSE ctx.esc_values_i
             args == [i \in 1 .. MaxValues |->
                        IF i <= n THEN ctx.esc_values[i] ELSE Default(c)]
             done == [Counted EXCEPT !.rrr = FALSE, !.esc_values_i = n,
                        !.esc_values = args, !.dec_private = FALSE,
                        !.control_sequence = FALSE, !.escape = FALSE]
  <1>1. n \in 0 .. MaxValues
    <2>1. /\ ctx.esc_values_i \in 0 .. MaxValues
          /\ ctx.rrr => ctx.esc_values_i < MaxValues
      BY Zenon DEF Good, Numbers, Modes
    <2> QED BY ONLY <2>1, ValuesAssumption
  <1>2. args \in [1 .. MaxValues -> 0 .. Width - 1]
    <2>1. ctx.esc_values \in [1 .. MaxValues -> 0 .. Width - 1]
      BY Zenon DEF Good, Numbers
    <2>2. Default(c) \in 0 .. Width - 1
      BY ValuesAssumption DEF Default
    <2> QED BY <2>1, <2>2, Zenon
  <1>3. \/ ctx' = done
        \/ \E b \in BOOLEAN : ctx' = [done EXCEPT !.cursor_enabled = b]
        \/ \E b \in BOOLEAN : ctx' = [done EXCEPT !.insert_mode = b]
    BY Zenon DEF ControlFinal
  <1>4. PICK d : d = done
    OBVIOUS
  <1> HIDE DEF n, args
  <1>5. DOMAIN d = FieldNames
    BY <1>4 DEF Good
  <1>6. Switches(d)
    BY <1>4 DEF Good, FieldNames, Flags, Switches
  <1>7. Numbers(d)
    BY <1>1, <1>2, <1>4, Zenon DEF Good, FieldNames, Numbers
  <1>8. Modes(d)
    BY <1>4 DEF Good, FieldNames, Modes, Numbers
  <1>9. Good(d)
    BY <1>5, <1>6, <1>7, <1>8 DEF Good
  <1>10. ASSUME NEW b \in BOOLEAN, NEW e,
                e \in {[d EXCEPT !.cursor_enabled = b], [d EXCEPT !.insert_mode = b]}
         PROVE  Good(e)
    <2>1. DOMAIN e = FieldNames
      BY <1>5, <1>10
    <2>2. Switches(e)
      BY <1>5, <1>6, <1>10 DEF FieldNames, Flags, Switches
    <2>3. Numbers(e)
      BY <1>5, <1>7, <1>10, Zenon DEF FieldNames, Numbers
    <2>4. Modes(e)
      BY <1>5, <1>8, <1>10 DEF FieldNames, Modes
    <2> QED
      BY <2>1, <2>2, <2>3, <2>4 DEF Good
  <1> QED
    BY <1>3, <1>4, <1>9, <1>10, Zenon


LEMMA InitGood == Init => Good(ctx)
  <1> SUFFICES ASSUME Init PROVE Good(ctx)
    OBVIOUS
  <1>1. DOMAIN ctx = FieldNames
    BY DEF Init, FieldNames
  <1>2. /\ ctx.escape = FALSE /\ ctx.csi = FALSE /\ ctx.control_sequence = FALSE
        /\ ctx.osc = FALSE /\ ctx.osc_escape = FALSE /\ ctx.rrr = FALSE
        /\ ctx.discard_next = FALSE /\ ctx.dec_private = FALSE
        /\ ctx.insert_mode = FALSE /\ ctx.cursor_enabled = TRUE
    BY Zenon DEF Init
  <1>3. /\ ctx.unicode_remaining = 0 /\ ctx.g_select = 0
        /\ ctx.charsets = <<"default", "dec special">> /\ ctx.current_charset = 1
        /\ ctx.saved_state_current_charset = 1
        /\ ctx.escape_offset = 0 /\ ctx.esc_values_i = 0 /\ ctx.esc_values = Zeros
    BY Zenon DEF Init
  <1>4. Switches(ctx)
    BY <1>2, Zenon DEF Flags, Switches
  <1>5. Numbers(ctx)
    <2>1. <<"default", "dec special">> \in [1 .. 2 -> {"default", "dec special"}]
      BY PairTyped
    <2> QED
      BY <1>3, <2>1, Small, ZerosTyped, Zenon DEF Numbers
  <1>6. Modes(ctx)
    BY <1>2, <1>3, Zenon DEF Modes
  <1> QED
    BY <1>1, <1>4, <1>5, <1>6 DEF Good

\* What escape_parse finds in the context it has counted its byte in.
LEMMA InSequence ==
  ASSUME Good(ctx), NEW c, InEscape(c)
  PROVE  /\ Good(Counted)
         /\ \A f \in FieldNames \ {"unicode_remaining", "escape_offset"} :
              Counted[f] = ctx[f]
         /\ Counted.unicode_remaining = 0
         /\ Counted.escape /\ Counted.g_select = 0 /\ ~Counted.discard_next
         /\ Counted.osc = ctx.osc /\ Counted.csi = ctx.csi
         /\ Counted.control_sequence = ctx.control_sequence
         /\ Counted.rrr = ctx.rrr /\ Counted.esc_values_i = ctx.esc_values_i
         /\ Counted.esc_values = ctx.esc_values
  <1>1. Good(Counted)
    BY EndedGood, CountedGood
  <1>2. ctx.escape /\ ~ctx.discard_next /\ ctx.g_select = 0
    <2>1. ctx.g_select # 0 => ~ctx.escape
      BY Zenon DEF Good, Modes
    <2> QED
      BY <2>1, Zenon DEF InEscape, Plain, Cancels
  <1> QED
    BY <1>1, <1>2, CountedIsCtx, Zenon DEF FieldNames

\* What flanterm_putchar finds when no sequence is open.
LEMMA OutsideSequence ==
  ASSUME Good(ctx), NEW c, Plain(c), ~ctx.escape
  PROVE  /\ Good(Ended)
         /\ Ended.charsets = ctx.charsets /\ Ended.g_select = ctx.g_select
         /\ ~Ended.escape /\ ~Ended.discard_next
  <1>1. \A f \in FieldNames \ {"unicode_remaining"} : Ended[f] = ctx[f]
    BY Zenon DEF Good, Ended
  <1> QED
    BY <1>1, EndedGood, Zenon DEF FieldNames, Plain, Cancels

\* Whatever byte comes next, the context stays good.
LEMMA GoodStep ==
  ASSUME Good(ctx), NEW c, Byte(c)
  PROVE  Good(ctx')
  <1>1. CASE Cancel(c)
    BY <1>1, CancelGood
  <1>2. CASE ContinueCharacter(c)
    BY <1>2, ContinueGood
  <1>3. CASE StartCharacter(c)
    BY <1>3, StartGood
  <1>4. CASE OscByte(c)
    <2>1. InEscape(c) /\ ctx.osc
      BY <1>4, Zenon DEF OscByte, InOsc
    <2> QED
      BY <1>4, <2>1, InSequence, OscGood
  <1>5. CASE CsiSwallows(c) \/ EscBracket(c)
    <2>1. InEscape(c) /\ ~ctx.osc /\ ctx' = Introduced
      BY <1>5, Zenon DEF CsiSwallows, EscBracket, AfterCsi, AfterEsc
    <2>2. Good(Introduced)
      BY <2>1, InSequence, IntroducedGood
    <2> QED
      BY <2>1, <2>2, Zenon
  <1>6. CASE EscOsc(c)
    <2>1. InEscape(c) /\ ~ctx.csi /\ ~ctx.control_sequence
      BY <1>6, Zenon DEF EscOsc, AfterEsc
    <2> QED
      BY <1>6, <2>1, InSequence, EscOscGood
  <1>7. CASE EscFinal(c)
    <2>1. InEscape(c) /\ ~ctx.csi /\ ~ctx.control_sequence /\ ~ctx.osc
      BY <1>7, Zenon DEF EscFinal, AfterEsc
    <2>2. ctx.current_charset \in 1 .. 2 /\ ctx.saved_state_current_charset \in 1 .. 2
      BY Zenon DEF Good, Numbers
    <2> QED
      BY <1>7, <2>1, <2>2, InSequence, EscFinalGood
  <1>8. CASE DoubleBracket(c)
    <2>1. InEscape(c) /\ ctx.control_sequence
      BY <1>8, Zenon DEF DoubleBracket, InControl
    <2> QED
      BY <1>8, <2>1, InSequence, DoubleBracketGood
  <1>9. CASE PrivateMark(c)
    <2>1. InEscape(c)
      BY <1>9, Zenon DEF PrivateMark, InControl
    <2> QED
      BY <1>9, <2>1, InSequence, PrivateMarkGood
  <1>10. CASE ParameterDigit(c)
    <2>1. InEscape(c)
      BY <1>10, Zenon DEF ParameterDigit, InControl
    <2> QED
      BY <1>10, <2>1, InSequence, ParameterDigitGood
  <1>11. CASE ParameterEnd(c)
    <2>1. InEscape(c)
      BY <1>11, Zenon DEF ParameterEnd, InControl
    <2> QED
      BY <1>11, <2>1, InSequence, ParameterEndGood
  <1>12. CASE ControlFinal(c)
    <2>1. InEscape(c) /\ ctx.control_sequence
      BY <1>12, Zenon DEF ControlFinal, InControl
    <2>2. ~ctx.csi /\ ~ctx.osc
      BY <2>1, Zenon DEF Good, Modes
    <2> QED
      BY <1>12, <2>1, <2>2, InSequence, ControlFinalGood
  <1>13. CASE Designate(c)
    <2>1. Plain(c) /\ ~ctx.escape
      BY <1>13, Zenon DEF Designate
    <2> QED
      BY <1>13, <2>1, OutsideSequence, DesignateGood
  <1>14. CASE StartEscape(c) \/ Shift(c) \/ PutText(c)
    <2>1. Plain(c) /\ ~ctx.escape /\ ctx.g_select = 0
      BY <1>14, Zenon DEF StartEscape, Shift, PutText, Ground
    <2>2. /\ Good(Ended) /\ ~Ended.escape /\ ~Ended.discard_next
          /\ Ended.g_select = 0
      BY <2>1, OutsideSequence
    <2>3. PutText(c) => ctx' = Ended
      BY Zenon DEF PutText
    <2> QED
      BY <1>14, <2>2, <2>3, StartEscapeGood, ShiftGood
  <1> QED
    BY <1>1, <1>2, <1>3, <1>4, <1>5, <1>6, <1>7, <1>8, <1>9, <1>10, <1>11, <1>12,
       <1>13, <1>14, Zenon DEF Byte, PlainByte

\* Every byte that does not belong to a character ends the one being read.
LEMMA PlainEnds ==
  ASSUME Good(ctx), NEW c, PlainByte(c)
  PROVE  ctx'.unicode_remaining = 0
  <1>1. /\ DOMAIN Ended = FieldNames /\ Ended.unicode_remaining = 0
        /\ DOMAIN Counted = FieldNames /\ Counted.unicode_remaining = 0
    BY EndedGood, CountedGood, CountedIsCtx DEF Good, FieldNames, Ended
  <1>2. CASE OscByte(c)
    BY <1>1, <1>2 DEF FieldNames, OscByte
  <1>3. CASE CsiSwallows(c) \/ EscBracket(c)
    BY <1>1, <1>3 DEF FieldNames, CsiSwallows, EscBracket, Introduced
  <1>4. CASE EscOsc(c)
    BY <1>1, <1>4 DEF FieldNames, EscOsc
  <1>5. CASE EscFinal(c)
    <2>1. CASE c = "c"
      BY <1>1, <1>5, <2>1 DEF FieldNames, EscFinal, Reinit
    <2>2. CASE c # "c"
      BY <1>1, <1>5, <2>2, Zenon DEF FieldNames, EscFinal
    <2> QED
      BY <2>1, <2>2
  <1>6. CASE DoubleBracket(c) \/ PrivateMark(c)
    BY <1>1, <1>6 DEF FieldNames, DoubleBracket, PrivateMark
  <1>7. CASE ParameterDigit(c)
    BY <1>1, <1>7, Zenon DEF FieldNames, ParameterDigit
  <1>8. CASE ParameterEnd(c)
    BY <1>1, <1>8, Zenon DEF FieldNames, ParameterEnd
  <1>9. CASE ControlFinal(c)
    BY <1>1, <1>9, Zenon DEF FieldNames, ControlFinal
  <1>10. CASE Designate(c)
    BY <1>1, <1>10, Zenon DEF FieldNames, Designate
  <1>11. CASE StartEscape(c) \/ Shift(c) \/ PutText(c)
    BY <1>1, <1>11 DEF FieldNames, StartEscape, Shift, PutText
  <1> QED
    BY <1>2, <1>3, <1>4, <1>5, <1>6, <1>7, <1>8, <1>9, <1>10, <1>11, Zenon
    DEF PlainByte

\* Such a byte never prints a character of several bytes.
LEMMA PlainOut ==
  ASSUME NEW c, PlainByte(c)
  PROVE  out'.did \in Outs \ {"character"}
  <1>1. CASE ControlFinal(c)
    <2>1. out'.did \in {"private", "control"}
      BY <1>1, Zenon DEF ControlFinal
    <2> QED
      BY <2>1 DEF Outs
  <1>2. CASE EscFinal(c)
    BY <1>2 DEF EscFinal, Does, Outs
  <1>3. CASE PutText(c)
    BY <1>3 DEF PutText, Does, Nothing, Outs
  <1>4. CASE ~ControlFinal(c) /\ ~EscFinal(c) /\ ~PutText(c)
    <2>1. out' = Nothing
      BY <1>4, Zenon DEF PlainByte, OscByte, CsiSwallows, EscBracket, EscOsc,
         DoubleBracket, PrivateMark, ParameterDigit, ParameterEnd, Designate,
         StartEscape, Shift
    <2> QED
      BY <2>1 DEF Nothing, Outs
  <1> QED
    BY <1>1, <1>2, <1>3, <1>4

LEMMA Appended ==
  ASSUME NEW S, NEW s \in Seq(S), NEW e \in S
  PROVE  Append(s, e) \in Seq(S) /\ Len(Append(s, e)) = Len(s) + 1 /\ Len(s) \in Nat
  OBVIOUS

LEMMA EmptyText == <<>> \in Seq(Alphabet) /\ Len(<<>>) = 0
  OBVIOUS

\* The parameter bytes stay within the bound of Next.
LEMMA TextStep ==
  ASSUME text \in Seq(Alphabet), Len(text) <= MaxText, Next
  PROVE  text' \in Seq(Alphabet) /\ Len(text') <= MaxText
  <1> PICK c \in Alphabet :
        /\ InControl(c) /\ c \in Digits \cup {";", "?"} => Len(text) < MaxText
        /\ Byte(c)
    BY Zenon DEF Next
  <1>1. \/ text' = <<>> \/ text' = text
        \/ text' = Append(text, c) /\ InControl(c) /\ c \in Digits \cup {";", "?"}
    BY Zenon DEF Byte, PlainByte, Cancel, ContinueCharacter, StartCharacter, OpenText,
       OscByte, CsiSwallows, EscBracket, EscOsc, EscFinal,
       DoubleBracket, PrivateMark, ParameterDigit, ParameterEnd, ControlFinal,
       Designate, StartEscape, Shift, PutText
  <1>2. <<>> \in Seq(Alphabet) /\ Len(<<>>) <= MaxText
    <2>1. 0 <= MaxText
      BY ONLY TextAssumption
    <2> QED
      BY <2>1, EmptyText, Zenon
  <1>3. /\ Append(text, c) \in Seq(Alphabet)
        /\ Len(text) < MaxText => Len(Append(text, c)) <= MaxText
    <2>1. /\ Append(text, c) \in Seq(Alphabet) /\ Len(text) \in Nat
          /\ Len(Append(text, c)) = Len(text) + 1
      BY Appended
    <2> PICK l, m : l = Len(text) /\ m = Len(Append(text, c))
      OBVIOUS
    <2>2. l < MaxText => m <= MaxText
      <3>1. l \in Nat /\ m = l + 1
        BY <2>1, Zenon
      <3> QED
        BY ONLY <3>1, TextAssumption
    <2> QED
      BY <2>1, <2>2, Zenon
  <1>4. CASE text' = <<>>
    BY <1>2, <1>4, Zenon
  <1>5. CASE text' = text
    BY <1>5, Zenon
  <1>6. CASE text' = Append(text, c) /\ Len(text) < MaxText
    BY <1>3, <1>6, Zenon
  <1> QED
    BY <1>1, <1>4, <1>5, <1>6, Zenon

\* A character grows by the byte that continues it, and is printed by its last.
LEMMA ReadingStep ==
  ASSUME IInv, NEW c \in Alphabet, Byte(c)
  PROVE  Reading' /\ out'.did \in Outs
  <1> DEFINE r == ctx.unicode_remaining
  <1>0. /\ r \in 0 .. 3 /\ Good(ctx) /\ Good(ctx') /\ utf8 \in Seq(Alphabet)
        /\ DOMAIN ctx = FieldNames
    <2>1. Good(ctx')
      BY GoodStep DEF IInv
    <2> QED
      BY <2>1, Zenon DEF IInv, Good, Numbers, Reading
  <1>1. CASE Cancel(c)
    <2>1. ctx'.unicode_remaining = 0
      BY <1>0, <1>1 DEF Cancel, FieldNames
    <2>2. utf8' = <<>> /\ out'.did = "nothing"
      BY <1>1 DEF Cancel, Nothing
    <2> QED
      BY <2>1, <2>2 DEF Reading, Outs
  <1>2. CASE ContinueCharacter(c)
    <2>1. ctx'.unicode_remaining = r - 1 /\ r # 0 /\ utf8' = Append(utf8, c)
      BY <1>0, <1>2, Zenon DEF ContinueCharacter, Continues, FieldNames
    <2>2. /\ r = 1 => out'.did = "character"
          /\ r # 1 => out'.did = "nothing"
      BY <1>2 DEF ContinueCharacter, Does, Nothing
    <2>3. utf8 # <<>> /\ utf8[1] \in DOMAIN Lead /\ Len(utf8) + r = 1 + Lead[utf8[1]]
      BY <2>1, Zenon DEF IInv, Reading
    <2>4. /\ utf8' \in Seq(Alphabet) /\ utf8' # <<>>
          /\ utf8'[1] = utf8[1] /\ Len(utf8') = Len(utf8) + 1
      BY <1>0, <2>1, <2>3
    <2>5. Len(utf8') + (r - 1) = 1 + Lead[utf8'[1]]
      <3>1. Len(utf8) \in Nat
        BY <1>0
      <3> HIDE DEF r
      <3> QED
        BY ONLY <1>0, <2>3, <2>4, <3>1
    <2>6. r - 1 = 0 <=> r = 1
      BY ONLY <1>0
    <2> QED
      BY <2>1, <2>2, <2>3, <2>4, <2>5, <2>6, Zenon DEF Reading, Outs
  <1>3. CASE StartCharacter(c)
    <2>1. /\ ctx'.unicode_remaining = Lead[c] /\ utf8' = <<c>> /\ c \in DOMAIN Lead
      BY <1>0, <1>3, Zenon DEF StartCharacter, Leads, FieldNames
    <2>2. out'.did = "nothing"
      BY <1>3 DEF StartCharacter, Nothing
    <2>3. Lead[c] \in 1 .. 3
      BY <2>1, LeadTyped
    <2>4. utf8' \in Seq(Alphabet) /\ utf8' # <<>> /\ utf8'[1] = c /\ Len(utf8') = 1
      BY <2>1
    <2> QED
      BY <2>1, <2>2, <2>3, <2>4 DEF Reading, Outs
  <1>4. CASE PlainByte(c) /\ utf8' = <<>>
    <2>1. ctx'.unicode_remaining = 0 /\ out'.did \in Outs \ {"character"}
      BY <1>0, <1>4, PlainEnds, PlainOut
    <2> QED
      BY <1>4, <2>1 DEF Reading
  <1> QED
    BY <1>1, <1>2, <1>3, <1>4, Zenon DEF Byte

LEMMA Initially == Init => IInv
  <1> SUFFICES ASSUME Init PROVE IInv
    OBVIOUS
  <1>1. Good(ctx)
    BY InitGood
  <1>2. ctx.unicode_remaining = 0
    BY Zenon DEF Init
  <1>3. out.did = "nothing" /\ text = <<>> /\ utf8 = <<>>
    BY DEF Init, Nothing
  <1> QED
    BY <1>1, <1>2, <1>3, TextAssumption DEF IInv, Outs, Reading

LEMMA Inductive == IInv /\ [Next]_vars => IInv'
  <1> SUFFICES ASSUME IInv, [Next]_vars PROVE IInv'
    OBVIOUS
  <1>1. CASE Next
    <2>1. PICK c \in Alphabet : Byte(c)
      BY <1>1, Zenon DEF Next
    <2>2. Good(ctx')
      BY <2>1, GoodStep DEF IInv
    <2>3. text' \in Seq(Alphabet) /\ Len(text') <= MaxText
      BY <1>1, TextStep DEF IInv
    <2>4. Reading' /\ out'.did \in Outs
      BY <2>1, ReadingStep
    <2> QED
      BY <2>2, <2>3, <2>4, Zenon DEF IInv
  <1>2. CASE UNCHANGED vars
    BY <1>2, Zenon DEF vars, IInv, Reading
  <1> QED
    BY <1>1, <1>2

LEMMA Implied == IInv => TypeOK /\ ModesExclude /\ CharactersWellFormed
  <1> SUFFICES ASSUME IInv PROVE TypeOK /\ ModesExclude /\ CharactersWellFormed
    OBVIOUS
  <1>1. ModesExclude
    BY ModesAreModes DEF IInv, Good
  <1>2. Len(utf8) \in Nat /\ ctx.unicode_remaining \in 0 .. 3
    <2>1. Len(utf8) \in Nat
      BY DEF IInv, Reading
    <2>2. ctx.unicode_remaining \in 0 .. 3
      BY Zenon DEF IInv, Good, Numbers
    <2> QED BY <2>1, <2>2
  <1>3. Len(utf8) <= 4
    <2>1. CASE utf8 = <<>>
      BY <2>1
    <2>2. CASE utf8 # <<>>
      BY <1>2, <2>2, LeadTyped DEF IInv, Reading
    <2> QED BY <2>1, <2>2
  <1>4. TypeOK
    <2>1. Len(text) <= MaxText + 1
      BY TextAssumption DEF IInv
    <2>2. \A f \in Flags : ctx[f] \in BOOLEAN
      BY Zenon DEF IInv, Good, Switches
    <2>3. out.did \in {"nothing", "character", "escape", "private", "control",
                       "make room", "move", "print"}
      BY Zenon DEF IInv, Outs
    <2>4. {ctx.current_charset, ctx.saved_state_current_charset} \subseteq 1 .. 2
      BY Zenon DEF IInv, Good, Numbers
    <2> QED
      BY <1>3, <2>1, <2>2, <2>3, <2>4, Zenon DEF IInv, Good, Numbers, TypeOK
  <1>5. Complete <=> utf8 # <<>> /\ ctx.unicode_remaining = 0
    <2>1. CASE utf8 = <<>>
      BY <2>1 DEF Complete
    <2>2. CASE utf8 # <<>>
      <3>1. Lead[utf8[1]] \in Nat
        BY <2>2, LeadTyped DEF IInv, Reading
      <3> QED BY <1>2, <2>2, <3>1 DEF IInv, Reading, Complete
    <2> QED BY <2>1, <2>2
  <1>6. CharactersWellFormed
    BY <1>5 DEF IInv, Reading, CharactersWellFormed
  <1> QED BY <1>1, <1>4, <1>6

-----------------------------------------------------------------------------
LEMMA Always == Spec => []IInv
  BY Initially, Inductive, PTL DEF Spec

\* Every state of the parser is well typed: a number written into esc_values has
\* an index of the array, the count of continuation bytes never wraps below zero,
\* and the character set selected exists, whatever bytes arrive.
THEOREM TypeCorrect == Spec => []TypeOK
  BY Always, Implied, PTL

\* The flags of flanterm_putchar, escape_parse, osc_parse and
\* control_sequence_parse never contradict each other, whatever bytes arrive.
THEOREM ModesCorrect == Spec => []ModesExclude
  BY Always, Implied, PTL

\* A character of several bytes is printed exactly when its lead byte has been
\* followed by the continuation bytes it calls for.
THEOREM CharactersCorrect == Spec => []CharactersWellFormed
  BY Always, Implied, PTL

-----------------------------------------------------------------------------
(* Recursion over a sequence.                                               *)

\* Induction over Nat, from the library's theorem about least elements.
LEMMA NatSetInduction ==
  ASSUME NEW S, 0 \in S, \A n \in Nat : n \in S => n + 1 \in S
  PROVE  Nat \subseteq S
  <1> DEFINE R == OpToRel(<, Nat)
  <1>1. \A x, y \in Nat : <<x, y>> \in R <=> x < y
    BY DEF OpToRel
  <1>2. IsWellFoundedOn(R, Nat)
    BY NatLessThanWellFounded, Zenon
  <1> HIDE DEF R
  <1>3. SUFFICES ASSUME Nat \ S # {} PROVE FALSE
    BY Zenon
  <1>4. PICK x \in Nat \ S : \A y \in Nat \ S : ~(<<y, x>> \in R)
    <2>1. Nat \ S \subseteq Nat
      OBVIOUS
    <2> QED BY <1>2, <1>3, <2>1, WFMin, Zenon
  <1>5. x # 0
    BY <1>4
  <1>6. x - 1 \in Nat /\ x - 1 < x /\ x - 1 + 1 = x
    BY <1>4, <1>5
  <1>7. x - 1 \in S
    BY <1>1, <1>4, <1>6
  <1> QED
    BY <1>4, <1>6, <1>7

\* h is what step makes, element after element of s, of the value v in V.
Steps(h, step, v, s, V) ==
  /\ h[0] = v
  /\ \A n \in 1 .. Len(s) : h[n - 1] \in V => h[n] = step[<<h[n - 1], s[n]>>]

Made(h, m, step, v, s, V) ==
  /\ h \in [0 .. m -> V] /\ h[0] = v
  /\ \A n \in 1 .. m : h[n] = step[<<h[n - 1], s[n]>>]

LEMMA StepMade ==
  ASSUME NEW V, NEW C, NEW v \in V, NEW s \in Seq(C), NEW step \in [V \X C -> V],
         NEW m \in Nat, m + 1 <= Len(s), NEW h, Made(h, m, step, v, s, V)
  PROVE  \E g : Made(g, m + 1, step, v, s, V)
  <1> DEFINE x == step[<<h[m], s[m + 1]>>]
             g == [n \in 0 .. m + 1 |-> IF n = m + 1 THEN x ELSE h[n]]
  <1>1. m + 1 \in 1 .. Len(s) /\ m \in 0 .. m
    OBVIOUS
  <1>2. h \in [0 .. m -> V] /\ h[0] = v /\ \A n \in 1 .. m : h[n] = step[<<h[n - 1], s[n]>>]
    BY DEF Made
  <1>3. h[m] \in V /\ s[m + 1] \in C
    BY <1>1, <1>2
  <1>4. x \in V
    BY <1>3
  <1> HIDE DEF x
  <1>5. g \in [0 .. m + 1 -> V] /\ g[m + 1] = x /\ \A n \in 0 .. m : g[n] = h[n]
    BY <1>2, <1>4
  <1> HIDE DEF g
  <1>6. g[0] = v
    BY <1>2, <1>5
  <1>7. ASSUME NEW n \in 1 .. m + 1 PROVE g[n] = step[<<g[n - 1], s[n]>>]
    <2>1. CASE n = m + 1
      <3>1. g[n - 1] = h[m]
        BY <1>5, <2>1
      <3> QED
        BY <1>5, <2>1, <3>1 DEF x
    <2>2. CASE n # m + 1
      <3>1. n \in 1 .. m /\ n \in 0 .. m /\ n - 1 \in 0 .. m
        BY <2>2
      <3> QED
        BY <1>2, <1>5, <3>1
    <2> QED
      BY <2>1, <2>2
  <1>8. Made(g, m + 1, step, v, s, V)
    BY <1>5, <1>6, <1>7 DEF Made
  <1> QED
    BY <1>8

LEMMA StepsExist ==
  ASSUME NEW V, NEW C, NEW v \in V, NEW s \in Seq(C), NEW step \in [V \X C -> V]
  PROVE  \E h : Made(h, Len(s), step, v, s, V)
  <1> DEFINE S == {m \in Nat : m <= Len(s) => \E h : Made(h, m, step, v, s, V)}
  <1>0. Len(s) \in Nat
    OBVIOUS
  <1>1. 0 \in S
    <2> DEFINE h == [n \in 0 .. 0 |-> v]
    <2>1. Made(h, 0, step, v, s, V)
      BY DEF Made
    <2> QED
      BY <2>1, Zenon
  <1>2. ASSUME NEW m \in Nat, m \in S PROVE m + 1 \in S
    <2>1. m + 1 \in Nat /\ (m + 1 <= Len(s) => m <= Len(s))
      BY <1>0
    <2>2. ASSUME m + 1 <= Len(s)
          PROVE  \E h : Made(h, m + 1, step, v, s, V)
      <3>1. PICK h : Made(h, m, step, v, s, V)
        BY <1>2, <2>1, <2>2, Zenon
      <3> QED
        BY <2>2, <3>1, StepMade
    <2> QED
      BY <2>1, <2>2, Zenon
  <1> HIDE DEF S
  <1>3. Nat \subseteq S
    BY <1>1, <1>2, NatSetInduction
  <1>4. Len(s) \in S /\ Len(s) <= Len(s)
    BY <1>0, <1>3
  <1> QED
    BY <1>4, Zenon DEF S

\* There is one such function only.
Agree(h, g, s, V) == \A n \in 0 .. Len(s) : h[n] \in V /\ h[n] = g[n]

LEMMA StepsAgree ==
  ASSUME NEW V, NEW C, NEW v \in V, NEW s \in Seq(C), NEW step \in [V \X C -> V],
         NEW h, Steps(h, step, v, s, V), NEW g, Steps(g, step, v, s, V)
  PROVE  Agree(h, g, s, V)
  <1> DEFINE S == {n \in Nat : n <= Len(s) => h[n] \in V /\ h[n] = g[n]}
  <1>0. Len(s) \in Nat /\ \A n \in 1 .. Len(s) : s[n] \in C
    OBVIOUS
  <1>1. 0 \in S
    BY DEF Steps
  <1>2. ASSUME NEW n \in Nat, n \in S PROVE n + 1 \in S
    <2>1. SUFFICES ASSUME n + 1 <= Len(s) PROVE h[n + 1] \in V /\ h[n + 1] = g[n + 1]
      OBVIOUS
    <2>2. n + 1 \in 1 .. Len(s) /\ n + 1 - 1 = n /\ h[n] \in V /\ h[n] = g[n]
      BY <1>0, <1>2, <2>1
    <2>3. h[n + 1] = step[<<h[n], s[n + 1]>>] /\ g[n + 1] = step[<<g[n], s[n + 1]>>]
      BY <2>2 DEF Steps
    <2>4. s[n + 1] \in C
      BY <1>0, <2>2
    <2> QED
      BY <2>2, <2>3, <2>4
  <1> HIDE DEF S
  <1>3. Nat \subseteq S
    BY <1>1, <1>2, NatSetInduction
  <1> QED
    BY <1>0, <1>3 DEF S, Agree

\* One more element is one more step.
Grown(h, g, step, s, c, V) ==
  h[Len(s)] \in V /\ g[Len(Append(s, c))] = step[<<h[Len(s)], c>>]

LEMMA StepsOn ==
  ASSUME NEW V, NEW C, NEW v \in V, NEW s \in Seq(C), NEW c \in C,
         NEW step \in [V \X C -> V],
         NEW h, Steps(h, step, v, s, V),
         NEW g, Steps(g, step, v, Append(s, c), V)
  PROVE  Grown(h, g, step, s, c, V)
  <1> DEFINE t == Append(s, c)
  <1>1. /\ Len(s) \in Nat /\ Len(t) = Len(s) + 1 /\ t[Len(s) + 1] = c
        /\ \A n \in 1 .. Len(s) : t[n] = s[n]
    OBVIOUS
  <1> HIDE DEF t
  <1>2. Steps(g, step, v, s, V)
    <2>1. g[0] = v /\ \A n \in 1 .. Len(t) : g[n - 1] \in V => g[n] = step[<<g[n - 1], t[n]>>]
      BY Zenon DEF Steps, t
    <2>2. \A n \in 1 .. Len(s) : n \in 1 .. Len(t)
      BY <1>1
    <2> QED
      BY <1>1, <2>1, <2>2, Zenon DEF Steps
  <1>3. h[Len(s)] \in V /\ h[Len(s)] = g[Len(s)]
    <2>1. Len(s) \in 0 .. Len(s)
      BY <1>1
    <2>2. Agree(h, g, s, V)
      BY <1>2, StepsAgree
    <2> QED
      BY <2>1, <2>2 DEF Agree
  <1>4. Len(t) \in 1 .. Len(t) /\ Len(t) - 1 = Len(s)
    BY <1>1
  <1>5. g[Len(t)] = step[<<g[Len(t) - 1], t[Len(t)]>>]
    BY <1>3, <1>4 DEF Steps, t
  <1> QED
    BY <1>1, <1>3, <1>4, <1>5 DEF t, Grown

-----------------------------------------------------------------------------
(* Numbers and fields.                                                      *)

Values == 0 .. Width - 1
NumberStep == [w \in Values \X Digits |-> (10 * w[1] + Digit[w[2]]) % Width]

LEMMA Valued ==
  ASSUME NEW n \in Values, NEW d \in Digits
  PROVE  (10 * n + Digit[d]) % Width \in Values
  <1>1. Digit[d] \in Nat
    BY DigitTyped
  <1>2. 10 * n + Digit[d] \in Nat
    BY <1>1, ValuesAssumption DEF Values
  <1> QED
    BY <1>2, ValuesAssumption DEF Values

LEMMA NumberStepTyped ==
  /\ NumberStep \in [Values \X Digits -> Values] /\ 0 \in Values
  /\ \A n \in Values, d \in Digits : NumberStep[<<n, d>>] = (10 * n + Digit[d]) % Width
  <1>1. 0 \in Values
    BY ValuesAssumption DEF Values
  <1>2. \A w \in Values \X Digits : (10 * w[1] + Digit[w[2]]) % Width \in Values
    BY Valued
  <1> QED
    BY <1>1, <1>2 DEF NumberStep

\* The recursive definition of Number has a solution.
NumberBody(f, N) ==
  [n \in 0 .. Len(f) |-> IF n = 0 THEN 0 ELSE (10 * N[n - 1] + Digit[f[n]]) % Width]
NumberIn(f) == CHOOSE N : N = NumberBody(f, N)

LEMMA NumberSolved ==
  ASSUME NEW f \in Seq(Digits)
  PROVE  Number(f) = NumberIn(f)[Len(f)] /\ Steps(NumberIn(f), NumberStep, 0, f, Values)
  <1>1. PICK h : Made(h, Len(f), NumberStep, 0, f, Values)
    BY NumberStepTyped, StepsExist
  <1>2. /\ h \in [0 .. Len(f) -> Values] /\ h[0] = 0
        /\ \A n \in 1 .. Len(f) : h[n] = NumberStep[<<h[n - 1], f[n]>>]
    BY <1>1 DEF Made
  <1>3. Len(f) \in Nat /\ \A n \in 1 .. Len(f) : f[n] \in Digits
    OBVIOUS
  <1>4. \A n \in 1 .. Len(f) : h[n - 1] \in Values
    <2>1. \A n \in 1 .. Len(f) : n - 1 \in 0 .. Len(f)
      BY <1>3
    <2> QED
      BY <1>2, <2>1
  <1>5. \A n \in 0 .. Len(f) : h[n] = NumberBody(f, h)[n]
    <2>1. \A n \in 1 .. Len(f) : h[n] = (10 * h[n - 1] + Digit[f[n]]) % Width
      BY <1>2, <1>3, <1>4, NumberStepTyped
    <2>2. \A n \in 0 .. Len(f) : n # 0 => n \in 1 .. Len(f)
      OBVIOUS
    <2> QED
      BY <1>2, <2>1, <2>2, Zenon DEF NumberBody
  <1>6. h = NumberBody(f, h)
    <2>1. DOMAIN NumberBody(f, h) = 0 .. Len(f)
      BY DEF NumberBody
    <2>2. NumberBody(f, h) = [n \in 0 .. Len(f) |-> NumberBody(f, h)[n]]
      BY Zenon DEF NumberBody
    <2>3. h = [n \in 0 .. Len(f) |-> h[n]]
      BY <1>2
    <2> QED
      BY <1>5, <2>2, <2>3, Zenon
  <1>7. NumberIn(f) = NumberBody(f, NumberIn(f))
    BY <1>6, Zenon DEF NumberIn
  <1> PICK N : N = NumberIn(f)
    OBVIOUS
  <1>8. N = NumberBody(f, N)
    BY <1>7
  <1>9. N[0] = 0 /\ \A n \in 1 .. Len(f) : N[n] = (10 * N[n - 1] + Digit[f[n]]) % Width
    <2>1. 0 \in 0 .. Len(f) /\ \A n \in 1 .. Len(f) : n \in 0 .. Len(f) /\ n # 0
      BY <1>3
    <2>2. \A n \in 0 .. Len(f) :
            N[n] = IF n = 0 THEN 0 ELSE (10 * N[n - 1] + Digit[f[n]]) % Width
      BY <1>8, Zenon DEF NumberBody
    <2> QED
      BY <2>1, <2>2, Zenon
  <1>10. Steps(N, NumberStep, 0, f, Values)
    BY <1>3, <1>9, NumberStepTyped DEF Steps
  <1>11. Number(f) = NumberIn(f)[Len(f)]
    BY Zenon DEF Number, NumberIn, NumberBody
  <1> QED
    BY <1>10, <1>11

LEMMA NumberTyped ==
  ASSUME NEW f \in Seq(Digits)
  PROVE  Number(f) \in Values
  <1>1. Agree(NumberIn(f), NumberIn(f), f, Values)
    BY NumberSolved, NumberStepTyped, StepsAgree
  <1>2. Len(f) \in 0 .. Len(f)
    OBVIOUS
  <1> QED
    BY <1>1, <1>2, NumberSolved DEF Agree

\* A number grows by its digits.
LEMMA NumberGrows ==
  /\ Number(<<>>) = 0
  /\ \A f \in Seq(Digits), d \in Digits :
       Number(Append(f, d)) = (10 * Number(f) + Digit[d]) % Width
  <1>1. Number(<<>>) = 0
    <2>1. <<>> \in Seq(Digits) /\ Len(<<>>) = 0
      OBVIOUS
    <2> QED
      BY <2>1, NumberSolved DEF Steps
  <1>2. ASSUME NEW f \in Seq(Digits), NEW d \in Digits
        PROVE  Number(Append(f, d)) = (10 * Number(f) + Digit[d]) % Width
    <2> DEFINE g == Append(f, d)
    <2>1. g \in Seq(Digits)
      OBVIOUS
    <2> HIDE DEF g
    <2>2. /\ Number(f) = NumberIn(f)[Len(f)] /\ Steps(NumberIn(f), NumberStep, 0, f, Values)
          /\ Number(g) = NumberIn(g)[Len(g)] /\ Steps(NumberIn(g), NumberStep, 0, g, Values)
      BY <2>1, NumberSolved
    <2>3. Grown(NumberIn(f), NumberIn(g), NumberStep, f, d, Values)
      BY <2>2, NumberStepTyped, StepsOn DEF g
    <2> QED
      BY <2>2, <2>3, NumberStepTyped DEF g, Grown
  <1> QED
    BY <1>1, <1>2

Bytes == Digits \cup {";", "?"}
FieldLists == Seq(Seq(Digits)) \ {<<>>}
FieldStep == [w \in FieldLists \X Bytes |-> WithByte(w[1], w[2])]

LEMMA ByteKinds == \A c \in Digits : c # ";" /\ c # "?"
  <1>1. /\ Numerals[1] = "0" /\ Numerals[2] = "1" /\ Numerals[3] = "2"
        /\ Numerals[4] = "3" /\ Numerals[5] = "4" /\ Numerals[6] = "5"
        /\ Numerals[7] = "6" /\ Numerals[8] = "7" /\ Numerals[9] = "8"
        /\ Numerals[10] = "9"
    BY DEF Numerals
  <1>2. ASSUME NEW n \in 0 .. 9
        PROVE  Numerals[n + 1] \in {"0", "1", "2", "3", "4", "5", "6", "7", "8", "9"}
    <2>1. n + 1 \in {1, 2, 3, 4, 5, 6, 7, 8, 9, 10}
      OBVIOUS
    <2> QED
      BY <1>1, <2>1
  <1>3. Digits \subseteq {"0", "1", "2", "3", "4", "5", "6", "7", "8", "9"}
    BY <1>2 DEF Digits
  <1> QED
    BY <1>3

LEMMA Fielded ==
  ASSUME NEW fs \in FieldLists, NEW c \in Bytes
  PROVE  WithByte(fs, c) \in FieldLists
  <1>1. Len(fs) \in 1 .. Len(fs) /\ Len(fs) \in Nat /\ fs[Len(fs)] \in Seq(Digits)
        /\ fs \in Seq(Seq(Digits))
    BY DEF FieldLists
  <1>2. CASE c = ";"
    <2>1. Append(fs, <<>>) \in Seq(Seq(Digits)) /\ Append(fs, <<>>) # <<>>
      BY <1>1
    <2> QED
      BY <1>2, <2>1 DEF WithByte, FieldLists
  <1>3. CASE c = "?"
    BY <1>3 DEF WithByte
  <1>4. CASE c \in Digits
    <2> DEFINE f == Append(fs[Len(fs)], c)
    <2>1. f \in Seq(Digits)
      BY <1>1, <1>4
    <2> HIDE DEF f
    <2>2. [fs EXCEPT ![Len(fs)] = f] \in Seq(Seq(Digits))
          /\ Len([fs EXCEPT ![Len(fs)] = f]) = Len(fs)
      BY <1>1, <2>1
    <2>3. WithByte(fs, c) = [fs EXCEPT ![Len(fs)] = f]
      BY <1>4, ByteKinds DEF WithByte, f
    <2> QED
      BY <1>1, <2>2, <2>3 DEF FieldLists
  <1> QED
    BY <1>2, <1>3, <1>4 DEF Bytes

LEMMA FieldStepTyped ==
  /\ FieldStep \in [FieldLists \X Bytes -> FieldLists] /\ << <<>> >> \in FieldLists
  /\ \A fs \in FieldLists, c \in Bytes : FieldStep[<<fs, c>>] = WithByte(fs, c)
  <1>1. << <<>> >> \in FieldLists
    <2>1. <<>> \in Seq(Digits)
      OBVIOUS
    <2>2. \A S : \A e \in S : << e >> \in Seq(S) /\ << e >> # <<>>
      OBVIOUS
    <2> QED
      BY <2>1, <2>2 DEF FieldLists
  <1>2. \A w \in FieldLists \X Bytes : WithByte(w[1], w[2]) \in FieldLists
    BY Fielded
  <1> QED
    BY <1>1, <1>2 DEF FieldStep

\* The recursive definition of FieldsOf has a solution.
FieldsBody(s, F) ==
  [n \in 0 .. Len(s) |-> IF n = 0 THEN << <<>> >> ELSE WithByte(F[n - 1], s[n])]
FieldsIn(s) == CHOOSE F : F = FieldsBody(s, F)

LEMMA FieldsSolved ==
  ASSUME NEW s \in Seq(Bytes)
  PROVE  FieldsOf(s) = FieldsIn(s)[Len(s)]
         /\ Steps(FieldsIn(s), FieldStep, << <<>> >>, s, FieldLists)
  <1>1. PICK h : Made(h, Len(s), FieldStep, << <<>> >>, s, FieldLists)
    BY FieldStepTyped, StepsExist
  <1>2. /\ h \in [0 .. Len(s) -> FieldLists] /\ h[0] = << <<>> >>
        /\ \A n \in 1 .. Len(s) : h[n] = FieldStep[<<h[n - 1], s[n]>>]
    BY <1>1, Zenon DEF Made
  <1>3. Len(s) \in Nat /\ \A n \in 1 .. Len(s) : s[n] \in Bytes
    OBVIOUS
  <1>4. \A n \in 1 .. Len(s) : h[n - 1] \in FieldLists
    <2>1. \A n \in 1 .. Len(s) : n - 1 \in 0 .. Len(s)
      BY <1>3
    <2> QED
      BY <1>2, <2>1
  <1>5. \A n \in 0 .. Len(s) : h[n] = FieldsBody(s, h)[n]
    <2>1. \A n \in 1 .. Len(s) : h[n] = WithByte(h[n - 1], s[n])
      BY <1>2, <1>3, <1>4, FieldStepTyped
    <2>2. \A n \in 0 .. Len(s) : n # 0 => n \in 1 .. Len(s)
      OBVIOUS
    <2> QED
      BY <1>2, <2>1, <2>2, Zenon DEF FieldsBody
  <1>6. h = FieldsBody(s, h)
    <2>1. FieldsBody(s, h) = [n \in 0 .. Len(s) |-> FieldsBody(s, h)[n]]
      BY Zenon DEF FieldsBody
    <2>2. h = [n \in 0 .. Len(s) |-> h[n]]
      BY <1>2
    <2> QED
      BY <1>5, <2>1, <2>2, Zenon
  <1>7. FieldsIn(s) = FieldsBody(s, FieldsIn(s))
    BY <1>6, Zenon DEF FieldsIn
  <1> PICK F : F = FieldsIn(s)
    OBVIOUS
  <1>8. F = FieldsBody(s, F)
    BY <1>7
  <1>9. F[0] = << <<>> >> /\ \A n \in 1 .. Len(s) : F[n] = WithByte(F[n - 1], s[n])
    <2>1. 0 \in 0 .. Len(s) /\ \A n \in 1 .. Len(s) : n \in 0 .. Len(s) /\ n # 0
      BY <1>3
    <2>2. \A n \in 0 .. Len(s) :
            F[n] = IF n = 0 THEN << <<>> >> ELSE WithByte(F[n - 1], s[n])
      BY <1>8, Zenon DEF FieldsBody
    <2> QED
      BY <2>1, <2>2, Zenon
  <1>10. Steps(F, FieldStep, << <<>> >>, s, FieldLists)
    BY <1>3, <1>9, FieldStepTyped DEF Steps
  <1>11. FieldsOf(s) = FieldsIn(s)[Len(s)]
    BY Zenon DEF FieldsOf, FieldsIn, FieldsBody
  <1> QED
    BY <1>10, <1>11

\* The fields grow with the bytes.
LEMMA FieldsGrow ==
  /\ FieldsOf(<<>>) = << <<>> >>
  /\ \A s \in Seq(Bytes) :
       /\ FieldsOf(s) \in FieldLists
       /\ \A c \in Bytes : FieldsOf(Append(s, c)) = WithByte(FieldsOf(s), c)
  <1>1. FieldsOf(<<>>) = << <<>> >>
    <2>1. <<>> \in Seq(Bytes) /\ Len(<<>>) = 0
      OBVIOUS
    <2> QED
      BY <2>1, FieldsSolved, Zenon DEF Steps
  <1>2. ASSUME NEW s \in Seq(Bytes)
        PROVE  FieldsOf(s) \in FieldLists
    <2>1. Agree(FieldsIn(s), FieldsIn(s), s, FieldLists)
      BY FieldsSolved, FieldStepTyped, StepsAgree
    <2>2. Len(s) \in 0 .. Len(s)
      OBVIOUS
    <2> QED
      BY <2>1, <2>2, FieldsSolved, Zenon DEF Agree
  <1>3. ASSUME NEW s \in Seq(Bytes), NEW c \in Bytes
        PROVE  FieldsOf(Append(s, c)) = WithByte(FieldsOf(s), c)
    <2> DEFINE g == Append(s, c)
    <2>1. g \in Seq(Bytes)
      OBVIOUS
    <2> HIDE DEF g
    <2>2. /\ FieldsOf(s) = FieldsIn(s)[Len(s)]
          /\ Steps(FieldsIn(s), FieldStep, << <<>> >>, s, FieldLists)
          /\ FieldsOf(g) = FieldsIn(g)[Len(g)]
          /\ Steps(FieldsIn(g), FieldStep, << <<>> >>, g, FieldLists)
      BY <2>1, FieldsSolved
    <2>3. Grown(FieldsIn(s), FieldsIn(g), FieldStep, s, c, FieldLists)
      BY <2>2, FieldStepTyped, StepsOn DEF g
    <2> QED
      BY <2>2, <2>3, FieldStepTyped DEF g, Grown
  <1> QED
    BY <1>1, <1>2, <1>3

-----------------------------------------------------------------------------
(* Parameters.                                                              *)

\* A number is being read that will be kept.
Open(fields) == fields[Len(fields)] # <<>> /\ Len(fields) <= MaxValues

\* While a control sequence is read, esc_values holds the numbers read so far,
\* the unfinished one included, and zeros after them.
ValuesRead(fields, c) ==
  /\ c.esc_values_i = IF Len(fields) - 1 < MaxValues THEN Len(fields) - 1 ELSE MaxValues
  /\ c.rrr <=> Open(fields)
  /\ \A k \in 1 .. MaxValues :
       c.esc_values[k] = IF k <= Len(fields) THEN Number(fields[k]) ELSE 0

\* The inductive invariant of the parameters.
PInv ==
  /\ text \in Seq(Bytes)
  /\ ctx.control_sequence => ValuesRead(Fields, ctx)
  /\ ParametersRead

LEMMA ListFacts ==
  ASSUME NEW fs \in FieldLists
  PROVE  /\ Len(fs) \in Nat \ {0} /\ fs \in Seq(Seq(Digits))
         /\ \A k \in 1 .. Len(fs) : fs[k] \in Seq(Digits)
         /\ Last(fs) = fs[Len(fs)]
  BY DEF FieldLists, Last

\* The introducer.
LEMMA NothingRead ==
  ASSUME NEW c, c.esc_values_i = 0, c.rrr = FALSE, c.esc_values = Zeros
  PROVE  ValuesRead(FieldsOf(<<>>), c)
  <1>1. FieldsOf(<<>>) = << <<>> >> /\ Number(<<>>) = 0
    BY FieldsGrow, NumberGrows
  <1>2. Len(<< <<>> >>) = 1 /\ << <<>> >>[1] = <<>>
    OBVIOUS
  <1>3. \A k \in 1 .. MaxValues : c.esc_values[k] = 0
    BY DEF Zeros
  <1>4. \A k \in 1 .. MaxValues : k <= 1 => k = 1
    OBVIOUS
  <1> QED
    <2>1. ~Open(<< <<>> >>)
      BY <1>2 DEF Open
    <2>2. 0 = IF 1 - 1 < MaxValues THEN 1 - 1 ELSE MaxValues
      BY ValuesAssumption
    <2>3. \A k \in 1 .. MaxValues :
            c.esc_values[k] = IF k <= 1 THEN Number(<< <<>> >>[k]) ELSE 0
      BY <1>1, <1>2, <1>3, <1>4, Zenon
    <2> QED
      BY <1>1, <1>2, <2>1, <2>2, <2>3, Zenon DEF ValuesRead

LEMMA Longer ==
  ASSUME NEW S, NEW s \in Seq(S), NEW c \in S
  PROVE  Append(s, c) \in Seq(S) /\ Append(s, c) # <<>>
  <1>1. Append(s, c) \in Seq(S)
    OBVIOUS
  <1>2. Len(s) \in Nat /\ Len(Append(s, c)) = Len(s) + 1 /\ Len(<<>>) = 0
    OBVIOUS
  <1>3. Append(s, c) # <<>>
    BY <1>2
  <1> QED
    BY <1>1, <1>3

LEMMA DigitRead ==
  ASSUME NEW fs \in FieldLists, NEW b, NEW e, NEW c \in Digits, ValuesRead(fs, b),
         b.esc_values \in [1 .. MaxValues -> Values],
         e.esc_values_i = b.esc_values_i,
         b.esc_values_i = MaxValues => e.rrr = b.rrr /\ e.esc_values = b.esc_values,
         b.esc_values_i # MaxValues =>
           /\ e.rrr = TRUE
           /\ e.esc_values = [b.esc_values EXCEPT ![b.esc_values_i + 1] =
                                (10 * @ + Digit[c]) % Width]
  PROVE  ValuesRead(WithByte(fs, c), e)
  <1> DEFINE m == Len(fs)
             f == Append(fs[m], c)
             gs == WithByte(fs, c)
  <1>1. m \in Nat \ {0} /\ fs \in Seq(Seq(Digits)) /\ fs[m] \in Seq(Digits)
    BY ListFacts
  <1>2. f \in Seq(Digits) /\ f # <<>> /\ Number(f) = (10 * Number(fs[m]) + Digit[c]) % Width
    <2>1. f \in Seq(Digits) /\ f # <<>>
      BY <1>1, Longer, Zenon
    <2>2. Number(f) = (10 * Number(fs[m]) + Digit[c]) % Width
      BY <1>1, NumberGrows, Zenon
    <2> QED
      BY <2>1, <2>2
  <1>3. gs = [fs EXCEPT ![m] = f]
    BY ByteKinds DEF WithByte
  <1> HIDE DEF f, gs
  <1>4. /\ Len(gs) = m /\ gs[m] = f
        /\ \A k \in 1 .. m : k # m => gs[k] = fs[k]
    BY <1>1, <1>2, <1>3
  <1>5. MaxValues \in Nat \ {0}
    BY ValuesAssumption
  <1>6. CASE m > MaxValues
    <2>1. b.esc_values_i = MaxValues
      BY <1>1, <1>5, <1>6 DEF ValuesRead
    <2>2. \A k \in 1 .. MaxValues : k <= m /\ k # m
      BY <1>1, <1>5, <1>6
    <2>3. /\ e.esc_values = b.esc_values /\ e.rrr = b.rrr
          /\ e.esc_values_i = b.esc_values_i
      BY <2>1
    <2>4. ASSUME NEW k \in 1 .. MaxValues
          PROVE  e.esc_values[k] = IF k <= m THEN Number(gs[k]) ELSE 0
      <3>1. b.esc_values[k] = IF k <= m THEN Number(fs[k]) ELSE 0
        BY Zenon DEF ValuesRead
      <3>2. k \in 1 .. m /\ k # m
        BY <1>1, <2>2
      <3> QED
        BY <1>4, <2>2, <2>3, <3>1, <3>2, Zenon
    <2>5. ~Open(fs) /\ ~Open(gs)
      BY <1>1, <1>4, <1>5, <1>6 DEF Open
    <2>6. e.rrr <=> Open(gs)
      BY <2>3, <2>5, Zenon DEF ValuesRead
    <2>7. e.esc_values_i = IF Len(gs) - 1 < MaxValues THEN Len(gs) - 1 ELSE MaxValues
      BY <1>4, <2>3, Zenon DEF ValuesRead
    <2> QED
      BY <1>4, <2>4, <2>6, <2>7, Zenon DEF ValuesRead, gs
  <1>7. CASE m <= MaxValues
    <2>1. b.esc_values_i = m - 1 /\ b.esc_values_i # MaxValues /\ b.esc_values_i + 1 = m
      BY <1>1, <1>5, <1>7 DEF ValuesRead
    <2>2. m \in 1 .. MaxValues
      BY <1>1, <1>5, <1>7
    <2>3. b.esc_values[m] = Number(fs[m])
      BY <1>1, <2>2 DEF ValuesRead
    <2>4. e.esc_values = [b.esc_values EXCEPT ![m] = Number(f)] /\ e.rrr = TRUE
      BY <1>2, <2>1, <2>3
    <2>5. /\ e.esc_values[m] = Number(f)
          /\ \A k \in 1 .. MaxValues : k # m => e.esc_values[k] = b.esc_values[k]
      BY <2>2, <2>4
    <2>6. ASSUME NEW k \in 1 .. MaxValues
          PROVE  e.esc_values[k] = IF k <= m THEN Number(gs[k]) ELSE 0
      <3>1. CASE k = m
        BY <1>1, <1>4, <2>5, <3>1
      <3>2. CASE k # m
        <4>1. e.esc_values[k] = IF k <= m THEN Number(fs[k]) ELSE 0
          BY <2>5, <3>2 DEF ValuesRead
        <4> QED
          BY <1>1, <1>4, <3>2, <4>1
      <3> QED
        BY <3>1, <3>2
    <2>7. Open(gs)
      BY <1>2, <1>4, <1>7 DEF Open
    <2>8. e.esc_values_i = IF Len(gs) - 1 < MaxValues THEN Len(gs) - 1 ELSE MaxValues
      BY <1>4, Zenon DEF ValuesRead
    <2> QED
      BY <1>4, <2>4, <2>6, <2>7, <2>8, Zenon DEF ValuesRead, gs
  <1> QED
    BY <1>1, <1>5, <1>6, <1>7

LEMMA EndRead ==
  ASSUME NEW fs \in FieldLists, NEW b, NEW e, ValuesRead(fs, b),
         b.esc_values \in [1 .. MaxValues -> Values], b.esc_values_i \in 0 .. MaxValues,
         b.rrr \in BOOLEAN,
         b.rrr => /\ e.rrr = FALSE /\ e.esc_values_i = b.esc_values_i + 1
                  /\ e.esc_values = b.esc_values,
         ~b.rrr /\ b.esc_values_i = MaxValues =>
           /\ e.rrr = b.rrr /\ e.esc_values_i = b.esc_values_i
           /\ e.esc_values = b.esc_values,
         ~b.rrr /\ b.esc_values_i # MaxValues =>
           /\ e.rrr = b.rrr /\ e.esc_values_i = b.esc_values_i + 1
           /\ e.esc_values = [b.esc_values EXCEPT ![b.esc_values_i + 1] = 0]
  PROVE  ValuesRead(WithByte(fs, ";"), e)
  <1> DEFINE m == Len(fs)
             gs == WithByte(fs, ";")
  <1>1. m \in Nat \ {0} /\ fs \in Seq(Seq(Digits)) /\ fs[m] \in Seq(Digits)
    BY ListFacts
  <1>2. gs = Append(fs, <<>>)
    BY DEF WithByte
  <1> HIDE DEF gs
  <1>3. /\ Len(gs) = m + 1 /\ gs[m + 1] = <<>>
        /\ \A k \in 1 .. m : gs[k] = fs[k]
    BY <1>1, <1>2
  <1>4. MaxValues \in Nat \ {0} /\ Number(<<>>) = 0
    BY ValuesAssumption, NumberGrows
  <1>5. e.rrr = FALSE
    OBVIOUS
  <1>6. e.esc_values_i = IF m < MaxValues THEN m ELSE MaxValues
    <2>1. b.rrr => m <= MaxValues
      BY DEF ValuesRead, Open
    <2> QED
      BY <1>1, <1>4, <2>1 DEF ValuesRead
  <1>7. \A k \in 1 .. MaxValues : e.esc_values[k] = b.esc_values[k]
    <2>1. CASE b.rrr \/ b.esc_values_i = MaxValues
      BY <2>1
    <2>2. CASE ~b.rrr /\ b.esc_values_i # MaxValues
      <3>1. b.esc_values_i + 1 = m /\ m \in 1 .. MaxValues /\ fs[m] = <<>>
        BY <1>1, <1>4, <2>2 DEF ValuesRead, Open
      <3>2. b.esc_values[m] = 0
        BY <1>1, <1>4, <3>1 DEF ValuesRead
      <3>3. e.esc_values = [b.esc_values EXCEPT ![m] = 0]
        BY <2>2, <3>1
      <3> QED
        BY <3>1, <3>2, <3>3
    <2> QED
      BY <2>1, <2>2
  <1>8. ASSUME NEW k \in 1 .. MaxValues
        PROVE  e.esc_values[k] = IF k <= m + 1 THEN Number(gs[k]) ELSE 0
    <2>1. e.esc_values[k] = IF k <= m THEN Number(fs[k]) ELSE 0
      BY <1>7 DEF ValuesRead
    <2>2. CASE k <= m
      BY <1>1, <1>3, <2>1, <2>2
    <2>3. CASE k = m + 1
      BY <1>1, <1>3, <1>4, <2>1, <2>3
    <2>4. CASE k > m + 1
      BY <1>1, <2>1, <2>4
    <2> QED
      BY <1>1, <2>2, <2>3, <2>4
  <1>9. Len(gs) - 1 = m
    BY <1>1, <1>3
  <1>10. ~Open(gs)
    BY <1>3 DEF Open
  <1> QED
    BY <1>3, <1>5, <1>6, <1>8, <1>9, <1>10, Zenon DEF ValuesRead, gs

\* An empty last field is no parameter.
LEMMA GivenFacts ==
  ASSUME Fields \in FieldLists
  PROVE  /\ Len(Given) = IF Fields[Len(Fields)] = <<>> THEN Len(Fields) - 1 ELSE Len(Fields)
         /\ \A k \in 1 .. Len(Given) : Given[k] = Fields[k]
  <1> PICK fs : fs = Fields
    OBVIOUS
  <1> DEFINE m == Len(fs)
  <1>1. m \in Nat \ {0} /\ fs \in Seq(Seq(Digits)) /\ Last(fs) = fs[m]
    BY ListFacts
  <1>2. Given = IF fs[m] = <<>> THEN SubSeq(fs, 1, m - 1) ELSE fs
    BY <1>1 DEF Given, Front
  <1>3. m - 1 \in Nat /\ 1 \in Int /\ \A k \in 1 .. m - 1 : fs[k] \in Seq(Digits)
    BY <1>1
  <1> HIDE DEF m
  <1>4. /\ Len(SubSeq(fs, 1, m - 1)) = IF 1 <= m - 1 THEN m - 1 - 1 + 1 ELSE 0
        /\ \A k \in 1 .. m - 1 - 1 + 1 : SubSeq(fs, 1, m - 1)[k] = fs[1 + k - 1]
    BY <1>3, SubSeqProperties
  <1>5. /\ Len(SubSeq(fs, 1, m - 1)) = m - 1
        /\ \A k \in 1 .. m - 1 : SubSeq(fs, 1, m - 1)[k] = fs[k]
    BY <1>1, <1>3, <1>4
  <1>6. CASE fs[m] = <<>>
    BY <1>2, <1>5, <1>6 DEF m
  <1>7. CASE fs[m] # <<>>
    BY <1>2, <1>7 DEF m
  <1> QED
    BY <1>6, <1>7

\* The final byte of a sequence hands over what was read.
LEMMA FinalRead ==
  ASSUME Good(ctx), text \in Seq(Bytes), ValuesRead(Fields, ctx),
         NEW c, ControlFinal(c)
  PROVE  ParametersRead'
  <1> DEFINE m == Len(Fields)
             i == ctx.esc_values_i
             n == IF ctx.rrr THEN i + 1 ELSE i
             args == [j \in 1 .. MaxValues |->
                        IF j <= n THEN ctx.esc_values[j] ELSE Default(c)]
  <1>1. Fields \in FieldLists
    BY FieldsGrow DEF Fields
  <1>2. m \in Nat \ {0} /\ MaxValues \in Nat \ {0}
    BY <1>1, ListFacts, ValuesAssumption
  <1>3. i = IF m - 1 < MaxValues THEN m - 1 ELSE MaxValues
    BY Zenon DEF ValuesRead
  <1>4. ctx.rrr <=> Fields[m] # <<>> /\ m <= MaxValues
    BY Zenon DEF ValuesRead, Open
  <1>5. Len(Given) = IF Fields[m] = <<>> THEN m - 1 ELSE m
    BY <1>1, GivenFacts
  <1>6. n = IF Len(Given) < MaxValues THEN Len(Given) ELSE MaxValues
    BY <1>2, <1>3, <1>4, <1>5
  <1>7. text' = text /\ out'.n = n /\ out'.args = args /\ out'.what = c
    BY Zenon DEF ControlFinal
  <1>8. Given' = Given
    BY <1>7 DEF Given, Fields
  <1>9. n \in Nat /\ n <= Len(Given) /\ n <= m /\ Len(Given) \in Nat
    BY <1>2, <1>5, <1>6
  <1>10. ASSUME NEW j \in 1 .. MaxValues
         PROVE  args[j] = IF j <= n THEN Number(Given[j]) ELSE Default(c)
    <2>1. CASE j <= n
      <3>1. j \in 1 .. Len(Given) /\ j <= m
        BY <1>2, <1>9, <2>1
      <3>2. ctx.esc_values[j] = Number(Fields[j])
        BY <3>1, Zenon DEF ValuesRead
      <3>3. Given[j] = Fields[j]
        BY <1>1, <3>1, GivenFacts
      <3> QED
        BY <2>1, <3>2, <3>3, Zenon
    <2>2. CASE ~(j <= n)
      BY <2>2, Zenon
    <2> QED
      BY <2>1, <2>2
  <1> HIDE DEF n, args
  <1> QED
    BY <1>6, <1>7, <1>8, <1>10, Zenon DEF ParametersRead

\* A byte of the parameters.
LEMMA ParameterBytes ==
  ASSUME Good(ctx), text \in Seq(Bytes), ctx.control_sequence => ValuesRead(Fields, ctx),
         NEW c, ParameterDigit(c) \/ ParameterEnd(c) \/ PrivateMark(c)
  PROVE  text' \in Seq(Bytes) /\ ValuesRead(Fields', ctx')
  <1>1. InEscape(c) /\ ctx.control_sequence /\ text' = Append(text, c)
    BY Zenon DEF ParameterDigit, ParameterEnd, PrivateMark, InControl
  <1>2. c \in Bytes /\ (ParameterDigit(c) => c \in Digits)
    BY Zenon DEF ParameterDigit, ParameterEnd, PrivateMark, Bytes
  <1>3. /\ Good(Counted) /\ Counted.rrr = ctx.rrr /\ Counted.esc_values_i = ctx.esc_values_i
        /\ Counted.esc_values = ctx.esc_values /\ DOMAIN Counted = FieldNames
    BY <1>1, InSequence DEF Good
  <1>4. Fields \in FieldLists /\ Fields' = WithByte(Fields, c)
    BY <1>1, <1>2, FieldsGrow DEF Fields
  <1>5. text' \in Seq(Bytes)
    BY <1>1, <1>2
  <1>6. /\ ctx.esc_values \in [1 .. MaxValues -> Values] /\ ctx.esc_values_i \in 0 .. MaxValues
        /\ ctx.rrr \in BOOLEAN /\ ValuesRead(Fields, ctx)
    BY <1>1, Zenon DEF Good, Numbers, Switches, Flags, Values
  <1>7. CASE ParameterDigit(c)
    <2>1. /\ ctx'.esc_values_i = ctx.esc_values_i
          /\ ctx.esc_values_i = MaxValues =>
               ctx'.rrr = ctx.rrr /\ ctx'.esc_values = ctx.esc_values
          /\ ctx.esc_values_i # MaxValues =>
               /\ ctx'.rrr = TRUE
               /\ ctx'.esc_values = [ctx.esc_values EXCEPT ![ctx.esc_values_i + 1] =
                                       (10 * @ + Digit[c]) % Width]
      BY <1>3, <1>7, Zenon DEF ParameterDigit, FieldNames
    <2>2. ValuesRead(WithByte(Fields, c), ctx')
      BY <1>2, <1>4, <1>6, <1>7, <2>1, DigitRead
    <2> QED
      BY <1>4, <1>5, <2>2, Zenon
  <1>8. CASE ParameterEnd(c)
    <2>1. /\ c = ";"
          /\ ctx.rrr => /\ ctx'.rrr = FALSE /\ ctx'.esc_values_i = ctx.esc_values_i + 1
                        /\ ctx'.esc_values = ctx.esc_values
          /\ ~ctx.rrr /\ ctx.esc_values_i = MaxValues =>
               /\ ctx'.rrr = ctx.rrr /\ ctx'.esc_values_i = ctx.esc_values_i
               /\ ctx'.esc_values = ctx.esc_values
          /\ ~ctx.rrr /\ ctx.esc_values_i # MaxValues =>
               /\ ctx'.rrr = ctx.rrr /\ ctx'.esc_values_i = ctx.esc_values_i + 1
               /\ ctx'.esc_values = [ctx.esc_values EXCEPT ![ctx.esc_values_i + 1] = 0]
      BY <1>3, <1>8, Zenon DEF ParameterEnd, FieldNames
    <2>2. ValuesRead(WithByte(Fields, ";"), ctx')
      BY <1>4, <1>6, <2>1, EndRead
    <2> QED
      BY <1>4, <1>5, <2>1, <2>2, Zenon
  <1>9. CASE PrivateMark(c)
    <2>1. c = "?" /\ ctx'.rrr = ctx.rrr /\ ctx'.esc_values_i = ctx.esc_values_i
          /\ ctx'.esc_values = ctx.esc_values
      BY <1>3, <1>9, Zenon DEF PrivateMark, FieldNames
    <2>2. WithByte(Fields, "?") = Fields
      BY DEF WithByte
    <2>3. ValuesRead(Fields, ctx')
      BY <1>6, <2>1, Zenon DEF ValuesRead
    <2> QED
      BY <1>4, <1>5, <2>1, <2>2, <2>3, Zenon
  <1> QED
    BY <1>7, <1>8, <1>9

\* A byte that neither belongs to parameters nor introduces nor ends them.
Elsewhere(c) ==
  \/ Cancel(c) \/ OscByte(c) \/ EscOsc(c) \/ EscFinal(c) \/ DoubleBracket(c)
  \/ Designate(c) \/ StartEscape(c) \/ Shift(c) \/ PutText(c)

LEMMA ElsewhereCloses ==
  ASSUME Good(ctx), NEW c, Elsewhere(c)
  PROVE  /\ ~ctx'.control_sequence /\ text' = <<>>
         /\ out'.did \notin {"control", "private"}
  <1>1. text' = <<>>
    BY Zenon DEF Elsewhere, Cancel, OscByte, EscOsc, EscFinal, DoubleBracket, Designate,
       StartEscape, Shift, PutText
  <1>2. out'.did \notin {"control", "private"}
    <2>1. CASE EscFinal(c)
      BY <2>1 DEF EscFinal, Does
    <2>2. CASE PutText(c)
      BY <2>2 DEF PutText, Does, Nothing
    <2>3. CASE ~EscFinal(c) /\ ~PutText(c)
      <3>1. out' = Nothing
        BY <2>3, Zenon DEF Elsewhere, Cancel, OscByte, EscOsc, DoubleBracket, Designate,
           StartEscape, Shift
      <3> QED
        BY <3>1 DEF Nothing
    <2> QED
      BY <2>1, <2>2, <2>3
  <1>3. /\ DOMAIN ctx = FieldNames
        /\ (ctx.control_sequence => ctx.escape /\ ~ctx.csi /\ ~ctx.osc)
    BY Zenon DEF Good, Modes
  <1>4. ASSUME Cancel(c) PROVE ~ctx'.control_sequence
    BY <1>3, <1>4, Zenon DEF Cancel, FieldNames
  <1>5. ASSUME OscByte(c) \/ EscOsc(c) \/ EscFinal(c) \/ DoubleBracket(c)
        PROVE  ~ctx'.control_sequence
    <2>1. InEscape(c)
      BY <1>5, Zenon DEF OscByte, EscOsc, EscFinal, DoubleBracket, InOsc, AfterEsc, InControl
    <2>2. Counted.control_sequence = ctx.control_sequence /\ DOMAIN Counted = FieldNames
      BY <2>1, InSequence, Zenon DEF Good
    <2>3. CASE DoubleBracket(c)
      BY <2>2, <2>3, Zenon DEF DoubleBracket, FieldNames
    <2>4. CASE OscByte(c)
      <3>1. ~Counted.control_sequence
        BY <1>3, <2>2, <2>4, Zenon DEF OscByte, InOsc
      <3> QED
        BY <2>2, <2>4, <3>1, Zenon DEF OscByte, FieldNames
    <2>5. CASE EscOsc(c)
      <3>1. ~Counted.control_sequence
        BY <2>2, <2>5, Zenon DEF EscOsc, AfterEsc
      <3> QED
        BY <2>2, <2>5, <3>1, Zenon DEF EscOsc, FieldNames
    <2>6. CASE EscFinal(c)
      <3>1. ~Counted.control_sequence
        BY <2>2, <2>6, Zenon DEF EscFinal, AfterEsc
      <3>2. CASE c = "c"
        BY <2>2, <2>6, <3>2, Zenon DEF EscFinal, FieldNames, Reinit
      <3>3. CASE c # "c"
        BY <2>2, <2>6, <3>1, <3>3, Zenon DEF EscFinal, FieldNames
      <3> QED
        BY <3>2, <3>3
    <2> QED
      BY <1>5, <2>3, <2>4, <2>5, <2>6
  <1>6. ASSUME Designate(c) \/ StartEscape(c) \/ Shift(c) \/ PutText(c)
        PROVE  ~ctx'.control_sequence
    <2>1. ~ctx.escape
      BY <1>6, Zenon DEF Designate, StartEscape, Shift, PutText, Ground
    <2>2. ~Ended.control_sequence /\ DOMAIN Ended = FieldNames
      BY <1>3, <2>1, Zenon DEF Ended, FieldNames
    <2>3. CASE Designate(c)
      BY <2>2, <2>3, Zenon DEF Designate, FieldNames
    <2>4. CASE StartEscape(c)
      BY <2>2, <2>4, Zenon DEF StartEscape, FieldNames
    <2>5. CASE Shift(c)
      BY <2>2, <2>5, Zenon DEF Shift, FieldNames
    <2>6. CASE PutText(c)
      BY <2>2, <2>6, Zenon DEF PutText
    <2> QED
      BY <1>6, <2>3, <2>4, <2>5, <2>6
  <1> QED
    BY <1>1, <1>2, <1>4, <1>5, <1>6, Zenon DEF Elsewhere

\* Bytes of a character leave the parameters alone.
LEMMA CharactersApart ==
  ASSUME Good(ctx), NEW c, ContinueCharacter(c) \/ StartCharacter(c)
  PROVE  /\ ctx'.control_sequence = ctx.control_sequence /\ ctx'.rrr = ctx.rrr
         /\ ctx'.esc_values = ctx.esc_values /\ ctx'.esc_values_i = ctx.esc_values_i
         /\ text' = IF ctx.control_sequence THEN text ELSE <<>>
         /\ out'.did \notin {"control", "private"}
  <1>1. DOMAIN ctx = FieldNames
    BY DEF Good
  <1>2. text' = IF ctx.control_sequence THEN text ELSE <<>>
    BY Zenon DEF ContinueCharacter, StartCharacter, OpenText
  <1>3. out'.did \notin {"control", "private"}
    BY DEF ContinueCharacter, StartCharacter, Nothing
  <1>4. /\ ctx'.control_sequence = ctx.control_sequence /\ ctx'.rrr = ctx.rrr
        /\ ctx'.esc_values = ctx.esc_values /\ ctx'.esc_values_i = ctx.esc_values_i
    BY <1>1, Zenon DEF ContinueCharacter, StartCharacter, FieldNames
  <1> QED
    BY <1>2, <1>3, <1>4, Zenon

LEMMA ParametersStep ==
  ASSUME IInv, PInv, NEW c \in Alphabet, Byte(c)
  PROVE  PInv'
  <1>0. Good(ctx) /\ text \in Seq(Bytes) /\ (ctx.control_sequence => ValuesRead(Fields, ctx))
    BY Zenon DEF IInv, PInv
  <1>1. <<>> \in Seq(Bytes)
    OBVIOUS
  <1>2. CASE ContinueCharacter(c) \/ StartCharacter(c)
    <2>1. /\ ctx'.control_sequence = ctx.control_sequence /\ ctx'.rrr = ctx.rrr
          /\ ctx'.esc_values = ctx.esc_values /\ ctx'.esc_values_i = ctx.esc_values_i
          /\ text' = IF ctx.control_sequence THEN text ELSE <<>>
          /\ out'.did \notin {"control", "private"}
      BY <1>0, <1>2, CharactersApart
    <2>2. text' \in Seq(Bytes)
      BY <1>0, <1>1, <2>1, Zenon
    <2>3. ctx'.control_sequence => ValuesRead(Fields', ctx')
      BY <1>0, <2>1, Zenon DEF ValuesRead, Fields
    <2> QED
      BY <2>1, <2>2, <2>3, Zenon DEF PInv, ParametersRead
  <1>3. CASE ParameterDigit(c) \/ ParameterEnd(c) \/ PrivateMark(c)
    <2>1. out' = Nothing
      BY <1>3, Zenon DEF ParameterDigit, ParameterEnd, PrivateMark
    <2>2. out'.did \notin {"control", "private"}
      BY <2>1 DEF Nothing
    <2> QED
      BY <1>0, <1>3, <2>2, ParameterBytes, Zenon DEF PInv, ParametersRead
  <1>4. CASE ControlFinal(c)
    <2>1. InEscape(c) /\ ctx.control_sequence /\ text' = text
      BY <1>4, Zenon DEF ControlFinal, InControl
    <2>2. DOMAIN Counted = FieldNames
      BY <1>0, <2>1, InSequence, Zenon DEF Good
    <2>3. ~ctx'.control_sequence
      BY <1>4, <2>2, Zenon DEF ControlFinal, FieldNames
    <2>4. ParametersRead'
      BY <1>0, <1>4, <2>1, FinalRead
    <2> QED
      BY <1>0, <2>1, <2>3, <2>4, Zenon DEF PInv
  <1>5. CASE CsiSwallows(c) \/ EscBracket(c)
    <2>1. InEscape(c) /\ ctx' = Introduced /\ text' = <<>> /\ out' = Nothing
      BY <1>5, Zenon DEF CsiSwallows, EscBracket, AfterCsi, AfterEsc
    <2>2. DOMAIN Counted = FieldNames
      BY <1>0, <2>1, InSequence, Zenon DEF Good
    <2>3. ctx'.esc_values_i = 0 /\ ctx'.rrr = FALSE /\ ctx'.esc_values = Zeros
      BY <2>1, <2>2, Zenon DEF Introduced, FieldNames
    <2>4. ValuesRead(Fields', ctx')
      BY <2>1, <2>3, NothingRead DEF Fields
    <2>5. out'.did \notin {"control", "private"}
      BY <2>1 DEF Nothing
    <2> QED
      BY <1>1, <2>1, <2>4, <2>5, Zenon DEF PInv, ParametersRead
  <1>6. CASE Elsewhere(c)
    BY <1>0, <1>1, <1>6, ElsewhereCloses, Zenon DEF PInv, ParametersRead
  <1> QED
    BY <1>2, <1>3, <1>4, <1>5, <1>6, Zenon DEF Byte, PlainByte, Elsewhere

\* Every control function is given the numbers written between introducer and
\* final byte, each modulo the width of a value, as many as esc_values holds,
\* and its default for the rest, whatever bytes came before or between.
THEOREM ParametersCorrect == Spec => []ParametersRead
  <1>1. Init => PInv
    <2> SUFFICES ASSUME Init PROVE PInv
      OBVIOUS
    <2>1. text = <<>> /\ out = Nothing /\ ~ctx.control_sequence
      BY Zenon DEF Init
    <2>2. <<>> \in Seq(Bytes)
      OBVIOUS
    <2>3. out.did \notin {"control", "private"}
      BY <2>1 DEF Nothing
    <2> QED
      BY <2>1, <2>2, <2>3, Zenon DEF PInv, ParametersRead
  <1>2. IInv /\ PInv /\ [Next]_vars => PInv'
    <2> SUFFICES ASSUME IInv, PInv, [Next]_vars PROVE PInv'
      OBVIOUS
    <2>1. CASE Next
      BY <2>1, ParametersStep, Zenon DEF Next
    <2>2. CASE UNCHANGED vars
      <3>1. text' = text /\ ctx' = ctx /\ out' = out
        BY <2>2 DEF vars
      <3>2. Fields' = Fields /\ Given' = Given
        BY <3>1 DEF Fields, Given
      <3> QED
        BY <3>1, <3>2, Zenon DEF PInv, ParametersRead
    <2> QED
      BY <2>1, <2>2
  <1>3. PInv => ParametersRead
    BY DEF PInv
  <1> QED
    BY <1>1, <1>2, <1>3, Always, PTL DEF Spec
============================================================================
