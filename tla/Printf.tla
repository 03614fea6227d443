--------------------------------- MODULE Printf ---------------------------------
(***************************************************************************)
(* printf of src/kernel/printf/printf.c with int2str, uintptr2str and      *)
(* reverse.                                                                *)
(*                                                                         *)
(* A format is read character by character up to the NUL that ends it;     *)
(* behind it in memory other data follow.  A number is written into a      *)
(* buffer on the stack, least significant digit first, one digit a step,   *)
(* then reversed and printed.  What print does with a string is Console's  *)
(* matter; here it is recorded.                                            *)
(***************************************************************************)
EXTENDS Integers, SequencesExt

CONSTANTS
  IntLimit,     \* an int is in -IntLimit .. IntLimit - 1; 2^31 in the code
  PtrLimit,     \* a uintptr_t is in 0 .. PtrLimit - 1; 2^64
  IntBuffer,    \* sizes of the buffers on the stack, 12
  PtrBuffer,    \*   and 20
  Formats,      \* bound: the formats given to printf
  Behind        \* bound: what lies behind a format in memory

ASSUME WidthAssumption == IntLimit \in Nat \ {0} /\ PtrLimit \in Nat \ {0}
ASSUME MemoryAssumption ==
  /\ Behind \in Seq(STRING) /\ Behind # <<>> /\ Last(Behind) = "NUL"
  /\ \A f \in Formats : f \in Seq(STRING) /\ "NUL" \notin Range(f)

\* b to the n.
Power(b, n) ==
  LET P[k \in 0 .. n] == IF k = 0 THEN 1 ELSE b * P[k - 1]
  IN  P[n]

\* The buffers are long enough for the figures of the largest number, the sign
\* of an int, and the NUL: 2^31 < 10^10, 2^64 < 16^19.
ASSUME BuffersAssumption ==
  /\ IntBuffer \in Nat /\ IntBuffer > 2 /\ IntLimit < Power(10, IntBuffer - 2)
  /\ PtrBuffer \in Nat /\ PtrBuffer > 1 /\ PtrLimit <= Power(16, PtrBuffer - 1)

VARIABLES
  memory,       \* the format, NUL, and what lies behind
  pos,          \* i, the character printf looks at
  number,       \* the number being converted, Idle if none
  printed,      \* the strings given to print
  args,         \* history: the arguments taken by va_arg
  returned      \* printf has returned

printfVars == <<memory, pos, number, printed, args, returned>>

Idle == [kind |-> "none"]

Ints == -IntLimit .. IntLimit - 1
Ptrs == 0 .. PtrLimit - 1

\* The operators % and / of C round towards zero.
Remainder(a, b) == IF a < 0 THEN -((-a) % b) ELSE a % b
Quotient(a, b)  == IF a < 0 THEN -((-a) \div b) ELSE a \div b

\* value % base + '0'; a negative remainder gives a character before '0'.
Figures == <<"0", "1", "2", "3", "4", "5", "6", "7", "8", "9",
             "A", "B", "C", "D", "E", "F">>
Figure(r) == IF r < 0 THEN "below 0" ELSE Figures[r + 1]

\* -value of the least int overflows: it stays as it is, or a compiler that
\* takes the result for positive computes with it as if it were.
Negated(v) == IF v = -IntLimit THEN {v, -v} ELSE {-v}

Scans == ~returned /\ number = Idle
Here == memory[pos]
Following == memory[pos + 1]

-----------------------------------------------------------------------------
PrintfInit ==
  /\ \E f \in Formats : memory = f \o <<"NUL">> \o Behind
  /\ pos = 1 /\ number = Idle
  /\ printed = <<>> /\ args = <<>> /\ returned = FALSE

\* Any character but '%' is a string of its own.
Character ==
  /\ Scans /\ Here \notin {"%", "NUL"}
  /\ printed' = Append(printed, <<Here>>)
  /\ pos' = pos + 1
  /\ UNCHANGED <<memory, number, args, returned>>

Return ==
  /\ Scans /\ Here = "NUL"
  /\ returned' = TRUE
  /\ UNCHANGED <<memory, pos, number, printed, args>>

\* Seeded fault: the NUL after a '%' ends the loop, but so does every letter.
OtherDirective_Stops ==
  /\ Scans /\ Here = "%" /\ Following \notin {"d", "p"}
  /\ returned' = TRUE
  /\ UNCHANGED <<memory, pos, number, printed, args>>

\* The default of the switch: nothing is printed, be it a letter, a second '%'
\* or the NUL, which is stepped over.
OtherDirective ==
  /\ Scans /\ Here = "%" /\ Following \notin {"d", "p"}
  /\ pos' = pos + 2
  /\ UNCHANGED <<memory, number, printed, args, returned>>

\* int2str: the sign is taken off first.
StartInt(v) ==
  /\ Scans /\ Here = "%" /\ Following = "d"
  /\ args' = Append(args, v)
  /\ \E w \in IF v < 0 THEN Negated(v) ELSE {v} :
       number' = [kind |-> "d", value |-> w, negative |-> v < 0,
                  buffer |-> <<>>, phase |-> "figures"]
  /\ UNCHANGED <<memory, pos, printed, returned>>

\* uintptr2str.
StartPtr(v) ==
  /\ Scans /\ Here = "%" /\ Following = "p"
  /\ args' = Append(args, v)
  /\ number' = [kind |-> "p", value |-> v, negative |-> FALSE,
                buffer |-> <<>>, phase |-> "figures"]
  /\ UNCHANGED <<memory, pos, printed, returned>>

Base == IF number.kind = "d" THEN 10 ELSE 16
Store(c) == [number EXCEPT !.buffer = Append(@, c)]

\* Seeded fault: the loop tests before its first turn, and goes on one too far.
WriteFigure_Late ==
  /\ number # Idle /\ number.phase = "figures"
  /\ number' = [Store(Figure(Remainder(number.value, Base))) EXCEPT
                  !.value = Quotient(@, Base),
                  !.phase = IF number.value = 0 THEN "sign" ELSE @]
  /\ UNCHANGED <<memory, pos, printed, args, returned>>

\* One turn of the loop, which tests after it.
WriteFigure ==
  /\ number # Idle /\ number.phase = "figures"
  /\ LET rest == Quotient(number.value, Base)
     IN  number' = [Store(Figure(Remainder(number.value, Base))) EXCEPT
                      !.value = rest,
                      !.phase = IF rest = 0 THEN "sign" ELSE @]
  /\ UNCHANGED <<memory, pos, printed, args, returned>>

WriteSign ==
  /\ number # Idle /\ number.phase = "sign"
  /\ number' = [IF number.negative THEN Store("-") ELSE number EXCEPT
                  !.phase = "end"]
  /\ UNCHANGED <<memory, pos, printed, args, returned>>

\* NUL is written behind the figures; reverse; print.
PrintNumber ==
  /\ number # Idle /\ number.phase = "end"
  /\ printed' = Append(printed, Reverse(number.buffer))
  /\ number' = Idle
  /\ pos' = pos + 2
  /\ UNCHANGED <<memory, args, returned>>

PrintfNext ==
  \/ Character \/ Return \/ OtherDirective
  \/ \E v \in Ints : StartInt(v)
  \/ \E v \in Ptrs : StartPtr(v)
  \/ WriteFigure \/ WriteSign \/ PrintNumber

PrintfSpec == PrintfInit /\ [][PrintfNext]_printfVars
-----------------------------------------------------------------------------
\* Every character int2str and uintptr2str write, the NUL at the end too, lies
\* in the buffer: the longest int needs all of it.
BuffersHold ==
  number # Idle =>
    LET size == IF number.kind = "d" THEN IntBuffer ELSE PtrBuffer
    IN  /\ Len(number.buffer) <= size
        /\ number.phase = "end" => Len(number.buffer) < size

(* What a format means.                                                       *)

Length == CHOOSE n \in DOMAIN memory :
            memory[n] = "NUL" /\ \A k \in 1 .. n - 1 : memory[k] # "NUL"

\* Whether a character or a directive begins behind the n-th character: not
\* behind a '%' that begins one itself.
Fresh ==
  LET F[n \in 0 .. Len(memory)] == IF n = 0 THEN TRUE ELSE ~(F[n - 1] /\ memory[n] = "%")
  IN  F
Begins(k) == Fresh[k - 1]

Directive(k) == Begins(k) /\ memory[k] = "%"
Number(k) == Directive(k) /\ memory[k + 1] \in {"d", "p"}
Prints(k) == Begins(k) /\ (memory[k] # "%" \/ Number(k))
Dangling == Length > 1 /\ Directive(Length - 1)

\* What is printed up to k, and the arguments it takes.
Printing(k) == {l \in 1 .. k : Prints(l)}
Taking(k) == {l \in 1 .. k : Number(l)}
PrintedFor(k) == printed[Cardinality(Printing(k))]
ArgumentOf(k) == args[Cardinality(Taking(k))]

Worth(c) == (CHOOSE n \in DOMAIN Figures : Figures[n] = c) - 1

\* What a text reads as when v stands before it.
Reading(v, text, base) ==
  LET R[n \in 0 .. Len(text)] ==
        IF n = 0 THEN v ELSE base * R[n - 1] + Worth(text[n])
  IN  R[Len(text)]

Reads(text, base, v) ==
  /\ Range(text) \subseteq {Figures[n] : n \in 1 .. base}
  /\ Reading(0, text, base) = v
  /\ text # <<>> /\ (text[1] = "0" => Len(text) = 1)

\* An argument and its text.  The least int has no negation.
WrittenOut(text, kind, v) ==
  CASE kind = "p"                      -> Reads(text, 16, v)
    [] kind = "d" /\ v >= 0            -> Reads(text, 10, v)
    [] kind = "d" /\ -IntLimit < v /\ v < 0 ->
         text # <<>> /\ Head(text) = "-" /\ Reads(Tail(text), 10, -v)
    [] OTHER                           -> TRUE

\* printf prints the characters of its format and, where it says so, the
\* numbers that were given, each to the argument of its place, written out in
\* full without zeros in front; and it stops at the end of the format, unless
\* a '%' at the very end leads past it.
PrintsAsMeant ==
  returned /\ ~Dangling =>
    /\ pos = Length
    /\ Len(printed) = Cardinality(Printing(Length - 1))
    /\ \A k \in Printing(Length - 1) :
         IF Number(k) THEN WrittenOut(PrintedFor(k), memory[k + 1], ArgumentOf(k))
         ELSE PrintedFor(k) = <<memory[k]>>
==============================================================================
