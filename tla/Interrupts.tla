------------------------------ MODULE Interrupts ------------------------------
(***************************************************************************)
(* The boot sequence of src/kernel/kernel.c and what may interrupt it: the *)
(* gates of sys/idt.c, the stubs of sys/_asm_idt.asm and isrHandler.       *)
(*                                                                         *)
(* The stack is a sequence of words, its top last.  A word is [is, v]:     *)
(* what was pushed.  A place is [at, v]: where the processor executes, and *)
(* for a stub the vector it was assembled for.  The registers are known by *)
(* the activity whose values they hold: 0 for _start, n for a handler that *)
(* interrupts at depth n.  The fifteen registers isrCommon pushes are one  *)
(* word.                                                                   *)
(***************************************************************************)
EXTENDS Integers, SequencesExt

CONSTANTS
  Faults,       \* bound: the vectors of exceptions a behaviour may raise
  Devices,      \* bound: the vectors of device interrupts, of {32, 33}
  MaxDepth,     \* bound: interruptions on the stack at one time
  MaxRaised     \* bound: interruptions in a behaviour

ASSUME VectorsAssumption == Faults \subseteq 0 .. 31 /\ Devices \subseteq {32, 33}
ASSUME BoundsAssumption == MaxDepth \in Nat /\ MaxRaised \in Nat

Vectors == Faults \cup Devices \cup {14}

VARIABLES
  place,        \* where the processor executes
  regs,         \* whose values the registers hold
  interruptsOn, \* the interrupt flag of rflags
  idtLoaded,    \* lidt was executed
  stack,        \* words above the frame of _start
  origin,       \* history: what was interrupted, innermost last
  raised        \* how many interruptions there were

vars == <<place, regs, interruptsOn, idtLoaded, stack, origin, raised>>

At(p) == [at |-> p, v |-> 0]
Word(is, v) == [is |-> is, v |-> v]

\* What _start calls, in order.
BootSteps == << "print loading", "FreelistPMMInit", "print pmm ok", "gdt_init",
                "print gdt ok", "idtStart", "sti", "print idt ok", "hcf", "hlt" >>

Here(p) == place.at = p

\* Vectors for which the processor pushes an error code.
PushesError == {8, 10, 11, 12, 13, 14, 17, 21, 29, 30}

\* Vectors whose stub counts on it (ISR_ERRCODE); the others push a zero.
StubExpectsError == {8, 10, 11, 12, 13, 14}

\* Seeded fault: 0x8F, a trap gate.
Gate_Trap == FALSE

\* The gates set by idtStart: 0x8E, an interrupt gate, switches interrupts off.
GateDisablesInterrupts == TRUE

-----------------------------------------------------------------------------
Init ==
  /\ place = At(BootSteps[1])
  /\ regs = 0
  /\ interruptsOn = FALSE
  /\ idtLoaded = FALSE
  /\ stack = <<>> /\ origin = <<>>
  /\ raised = 0

\* The next call of _start.  idtStart sets the gates and loads the table, and
\* _load_idt switches interrupts on; hcf switches them off and halts for good.
BootStep ==
  \E i \in 1 .. Len(BootSteps) - 1 :
    /\ Here(BootSteps[i])
    /\ place' = At(BootSteps[i + 1])
    /\ idtLoaded' = (idtLoaded \/ Here("idtStart"))
    /\ interruptsOn' = ((interruptsOn \/ Here("sti")) /\ ~Here("hcf"))
    /\ UNCHANGED <<regs, stack, origin, raised>>

\* The processor enters the stub of vector v, or, with no table loaded, has
\* nowhere to go and resets.
Enter(v) ==
  /\ IF idtLoaded
       THEN /\ stack' = stack \o
                 << Word("ss", 0), Word("rsp", Len(stack)),
                    Word("rflags", interruptsOn), Word("cs", 0),
                    Word("rip", place) >>
                 \o (IF v \in PushesError THEN << Word("error", v) >> ELSE <<>>)
            /\ origin' = Append(origin, [vector |-> v, place |-> place,
                                         regs |-> regs, on |-> interruptsOn,
                                         height |-> Len(stack)])
            /\ place' = [at |-> "stub", v |-> v]
            /\ interruptsOn' = (interruptsOn /\ ~GateDisablesInterrupts)
       ELSE place' = At("reset") /\ UNCHANGED <<stack, origin, interruptsOn>>
  /\ UNCHANGED <<regs, idtLoaded>>

MayRaise ==
  /\ ~Here("reset")
  /\ Len(origin) < MaxDepth
  /\ raised < MaxRaised /\ raised' = raised + 1

\* An exception, an NMI among them, may come at any instruction.
Raise(v) == v \in Faults /\ MayRaise /\ Enter(v)

\* A device interrupt comes when interrupts are on.
Interrupt(v) == v \in Devices /\ MayRaise /\ interruptsOn /\ Enter(v)

\* Seeded fault: a zero is pushed whatever the vector.
Stub_AlwaysZero ==
  /\ Here("stub")
  /\ stack' = stack \o << Word("zero", 0), Word("vector", place.v) >>
  /\ place' = At("isrCommon")
  /\ interruptsOn' = FALSE
  /\ UNCHANGED <<regs, idtLoaded, origin, raised>>

\* Seeded fault: device vectors go on at irqCommon, as the macro IRQ_ENTRY would.
Stub_ToIrqCommon ==
  /\ Here("stub")
  /\ stack' = stack \o << Word("zero", 0), Word("vector", place.v) >>
  /\ place' = IF place.v \in Devices THEN At("irqCommon") ELSE At("isrCommon")
  /\ interruptsOn' = FALSE
  /\ UNCHANGED <<regs, idtLoaded, origin, raised>>

\* cli; push byte 0, unless there is an error code; push byte <vector>.
Stub ==
  /\ Here("stub")
  /\ stack' = stack
       \o (IF place.v \in StubExpectsError THEN <<>> ELSE << Word("zero", 0) >>)
       \o << Word("vector", place.v) >>
  /\ place' = At("isrCommon")
  /\ interruptsOn' = FALSE
  /\ UNCHANGED <<regs, idtLoaded, origin, raised>>

\* The fifteen pushes and the call of isrHandler, whose code takes the
\* registers over.
SaveRegisters ==
  /\ Here("isrCommon")
  /\ stack' = Append(stack, Word("regs", regs))
  /\ regs' = Len(origin)
  /\ place' = At("printf")
  /\ UNCHANGED <<interruptsOn, idtLoaded, origin, raised>>

\* The struct isrHandler is given, laid over the top of the stack.
Below(n) == stack[Len(stack) - n].v
Frame == [int_no |-> Below(1), err_code |-> stack[Len(stack) - 2].is,
          rip |-> Below(3), rflags |-> Below(5), rsp |-> Below(6)]

Goto(p) ==
  place' = At(p)
  /\ UNCHANGED <<regs, interruptsOn, idtLoaded, stack, origin, raised>>

\* Seeded fault: the vectors without a case are not returned from.
HandlerSwitch_NoReturn ==
  /\ Here("switch")
  /\ \/ Frame.int_no = 14 /\ Goto("error screen")
     \/ Frame.int_no \in {32, 33} /\ Goto("handleIrq")

\* Seeded fault: the error screen is left again.
HandlerSwitch_ScreenReturns ==
  /\ Here("switch")
  /\ \/ Frame.int_no \in {32, 33} /\ Goto("handleIrq")
     \/ Frame.int_no \notin {32, 33} /\ Goto("pops")

\* isrHandler prints, then looks at the vector: a page fault ends in the error
\* screen, a loop around hlt; the two device vectors in handleIrq, all others return.
HandlerPrint == Here("printf") /\ Goto("switch")

HandlerSwitch ==
  /\ Here("switch")
  /\ \/ Frame.int_no = 14 /\ Goto("error screen")
     \/ Frame.int_no \in {32, 33} /\ Goto("handleIrq")
     \/ Frame.int_no \notin {14, 32, 33} /\ Goto("pops")

\* handleIrq reads the table of handlers through the pointer irqs, which is
\* never set: page zero is not mapped, so the read faults.
HandleIrq == Here("handleIrq") /\ Enter(14) /\ UNCHANGED raised

\* The fifteen pops, and add rsp, 16.
Restore ==
  /\ Here("pops")
  /\ regs' = Below(0)
  /\ stack' = SubSeq(stack, 1, Len(stack) - 3)
  /\ place' = At("iretq")
  /\ UNCHANGED <<interruptsOn, idtLoaded, origin, raised>>

\* Seeded fault: the saved flags are not taken back.
Iretq_KeepsFlags ==
  /\ Here("iretq")
  /\ place' = Below(0)
  /\ stack' = SubSeq(stack, 1, Below(3))
  /\ origin' = Front(origin)
  /\ UNCHANGED <<regs, idtLoaded, raised, interruptsOn>>

\* iretq takes back rip, cs, rflags, rsp and ss.
Iretq ==
  /\ Here("iretq")
  /\ place' = Below(0)
  /\ interruptsOn' = Below(2)
  /\ stack' = SubSeq(stack, 1, Below(3))
  /\ origin' = Front(origin)
  /\ UNCHANGED <<regs, idtLoaded, raised>>

Next ==
  \/ BootStep
  \/ \E v \in Faults : Raise(v)
  \/ \E v \in Devices : Interrupt(v)
  \/ Stub \/ SaveRegisters
  \/ HandlerPrint \/ HandlerSwitch \/ HandleIrq
  \/ Restore \/ Iretq

\* The processor executes one instruction after the other.
Instruction ==
  BootStep \/ Stub \/ SaveRegisters \/ HandlerPrint \/ HandlerSwitch
    \/ HandleIrq \/ Restore \/ Iretq

Spec == Init /\ [][Next]_vars /\ WF_vars(Instruction)
-----------------------------------------------------------------------------
Stubs  == {[at |-> "stub", v |-> v] : v \in Vectors}
Places == {At(p) : p \in Range(BootSteps) \cup
                     {"reset", "isrCommon", "printf", "switch", "handleIrq",
                      "error screen", "pops", "iretq"}} \cup Stubs

TypeOK ==
  /\ place \in Places
  /\ regs \in 0 .. MaxDepth + 1
  /\ interruptsOn \in BOOLEAN /\ idtLoaded \in BOOLEAN
  /\ \A i \in DOMAIN stack :
       stack[i].is \in {"ss", "rsp", "rflags", "cs", "rip", "error", "zero",
                       "vector", "regs"}
  /\ origin \in Seq([vector : Vectors, place : Places, regs : 0 .. MaxDepth + 1,
                     on : BOOLEAN, height : Nat])
  /\ Len(origin) <= MaxDepth + 1
  /\ raised \in 0 .. MaxRaised

\* While isrHandler has the struct, every field holds what its name says of the
\* interruption it serves, whatever else interrupted it meanwhile: "Pushed by
\* common stub", "by wrapper", "by interrupt" (idt.c:40-51).
HandlerSeesFrame ==
  place.at \in {"printf", "switch", "handleIrq", "pops"} =>
    LET o == Last(origin)
    IN  /\ Frame.int_no = o.vector
        /\ Frame.err_code = IF o.vector \in PushesError THEN "error" ELSE "zero"
        /\ Frame.rip = o.place /\ Frame.rflags = o.on /\ Frame.rsp = o.height
        /\ Below(0) = o.regs

\* iretq resumes exactly what was interrupted: the place, all registers, the
\* interrupt flag and the height of the stack, at every depth.
ResumesExactly ==
  [][ Len(origin') < Len(origin) =>
        LET o == Last(origin)
        IN  /\ place' = o.place /\ regs' = o.regs
            /\ interruptsOn' = o.on /\ Len(stack') = o.height ]_vars

\* A device interrupt never comes while a handler runs, exceptions during the
\* handler and the window before the stub's cli included.
DevicesNeverNest ==
  \A k \in DOMAIN origin : origin[k].vector \in Devices => k = 1

\* Nothing below a page fault or a device interrupt runs again: the first ends
\* in the error screen, the second in a page fault.
NeverBackFromFatal ==
  [][ \A k \in DOMAIN origin :
        origin[k].vector \in {14, 32, 33} =>
          k \in DOMAIN origin' /\ origin'[k] = origin[k] ]_vars

\* However interruptions nest, in the end _start hangs in hcf, or the error
\* screen stays up, or the machine was reset.
ComesToRest == <>[](place.at \in {"hlt", "error screen", "reset"})
==============================================================================
