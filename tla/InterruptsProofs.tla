--------------------------- MODULE InterruptsProofs ---------------------------
(***************************************************************************)
(* Machine-checked proofs about Interrupts: however deep exceptions nest   *)
(* and however many come, every handler sees its own frame and iretq goes  *)
(* back to what was interrupted, provided stub and processor agree on the  *)
(* error code of every vector that comes.                                  *)
(***************************************************************************)
EXTENDS Interrupts, SequenceTheorems, TLAPS

\* What _asm_idt.asm assumes of the processor; false of vectors 17, 21, 29, 30.
StubsAgree == \A v \in Vectors : v \in PushesError <=> v \in StubExpectsError

Names == {"ss", "rsp", "rflags", "cs", "rip", "error", "zero", "vector", "regs"}
Words == [is : Names, v : Nat \cup BOOLEAN \cup Places]

\* Activity 0 is _start; activity k serves the k-th interruption.  Where it
\* stands, with which registers and how high a stack: now for the innermost,
\* when it was interrupted for the others.
Depth       == Len(origin)
PlaceOf(k)  == IF k = Depth THEN place ELSE origin[k + 1].place
RegsOf(k)   == IF k = Depth THEN regs ELSE origin[k + 1].regs
HeightOf(k) == IF k = Depth THEN Len(stack) ELSE origin[k + 1].height

ErrorWord(v) == IF v \in PushesError THEN "error" ELSE "zero"
InHandler == {"printf", "switch", "handleIrq", "pops", "error screen"}

\* The words of interruption o on stack s, while the activity that serves it
\* is at p with registers r and the stack n words high.
Pushed(o, s) ==
  /\ s[o.height + 2].v = o.height
  /\ s[o.height + 3].v = o.on
  /\ s[o.height + 5].v = o.place

InStub(o, p, r, n, s) ==
  /\ p = [at |-> "stub", v |-> o.vector] /\ r = o.regs
  /\ IF o.vector \in PushesError
       THEN n = o.height + 6 /\ s[o.height + 6].is = "error"
       ELSE n = o.height + 5

InCommon(o, p, r, n, s) ==
  /\ p.at = "isrCommon" /\ n = o.height + 7 /\ r = o.regs
  /\ s[o.height + 6].is = ErrorWord(o.vector)
  /\ s[o.height + 7].v = o.vector

Handles(o, p, n, s) ==
  /\ p.at \in InHandler /\ n = o.height + 8
  /\ s[o.height + 6].is = ErrorWord(o.vector)
  /\ s[o.height + 7].v = o.vector
  /\ s[o.height + 8].v = o.regs
  /\ p.at = "pops" => o.vector \notin {14, 32, 33}
  /\ p.at = "handleIrq" => o.vector \in {32, 33}

Returns(o, p, r, n) ==
  /\ p.at = "iretq" /\ n = o.height + 5 /\ r = o.regs
  /\ o.vector \notin {14, 32, 33}

Serves(o, p, r, n, s) ==
  /\ Pushed(o, s)
  /\ InStub(o, p, r, n, s) \/ InCommon(o, p, r, n, s) \/ Handles(o, p, n, s)
       \/ Returns(o, p, r, n)

\* Every interruption has its frame.
Framed ==
  /\ stack \in Seq(Words)
  /\ \A k \in 1 .. Depth : Serves(origin[k], PlaceOf(k), RegsOf(k), HeightOf(k), stack)

\* The frames lie above each other.
Rising ==
  \A k, l \in 0 .. Depth : k <= l => HeightOf(k) <= HeightOf(l)

\* _start is at one of its steps, or the machine was reset.
Booting ==
  /\ PlaceOf(0).at \in Range(BootSteps) \cup {"reset"}
  /\ idtLoaded \/ origin = <<>>
  /\ origin # <<>> => ~Here("reset")

\* No handler runs with interrupts on.
Masked ==
  /\ origin # <<>> => ~interruptsOn
  /\ \A k \in 2 .. Depth : ~origin[k].on

\* Only the fault of handleIrq goes past MaxDepth.
Bounded == Depth > 0 => MaxDepth > 0 /\ (Depth <= MaxDepth \/ Depth = 2)

\* The inductive invariant.
IInv ==
  /\ TypeOK /\ Framed /\ Rising /\ Booting /\ Masked /\ Bounded
  /\ DevicesNeverNest

Origins == [vector : Vectors, place : Places, regs : 0 .. MaxDepth + 1,
            on : BOOLEAN, height : Nat]
-----------------------------------------------------------------------------
(* The stack.                                                               *)

LEMMA Typed ==
  ASSUME IInv
  PROVE  /\ origin \in Seq(Origins) /\ Depth \in Nat
         /\ stack \in Seq(Words) /\ Len(stack) \in Nat
         /\ \A k \in 1 .. Depth : origin[k] \in Origins /\ origin[k].height \in Nat
  <1>1. origin \in Seq(Origins)
    BY Zenon DEF IInv, TypeOK, Origins
  <1>2. stack \in Seq(Words)
    BY DEF IInv, Framed
  <1>3. \A k \in 1 .. Len(origin) : origin[k] \in Origins
    BY <1>1
  <1>4. \A k \in 1 .. Len(origin) : origin[k].height \in Nat
    BY <1>3 DEF Origins
  <1> QED
    BY <1>1, <1>2, <1>3, <1>4 DEF Depth

LEMMA ServingPlaces ==
  ASSUME NEW o, NEW p, NEW r, NEW n, NEW s, Serves(o, p, r, n, s)
  PROVE  p.at \in InHandler \cup {"stub", "isrCommon", "iretq"} /\ p.at # "reset"
  <1>1. p.at \in InHandler \cup {"stub", "isrCommon", "iretq"}
    <2>1. CASE InStub(o, p, r, n, s)
      <3>1. p = [at |-> "stub", v |-> o.vector]
        BY <2>1, Zenon DEF InStub
      <3> QED
        BY <3>1
    <2>2. CASE InCommon(o, p, r, n, s)
      BY <2>2, Zenon DEF InCommon
    <2>3. CASE Handles(o, p, n, s)
      BY <2>3, Zenon DEF Handles
    <2>4. CASE Returns(o, p, r, n)
      BY <2>4, Zenon DEF Returns
    <2> QED
      BY <2>1, <2>2, <2>3, <2>4, Zenon DEF Serves
  <1> QED
    BY <1>1 DEF InHandler

\* A frame is not disturbed by what happens above it.
LEMMA ServesPrefix ==
  ASSUME NEW o, o.height \in Nat, NEW p, NEW r, NEW n, NEW s, NEW t,
         Serves(o, p, r, n, s), \A i \in 1 .. n : t[i] = s[i]
  PROVE  Serves(o, p, r, n, t)
  <1>1. n >= o.height + 5 /\ n \in Nat
    BY DEF Serves, InStub, InCommon, Handles, Returns
  <1>2. Pushed(o, t)
    <2>1. /\ t[o.height + 2] = s[o.height + 2]
          /\ t[o.height + 3] = s[o.height + 3]
          /\ t[o.height + 5] = s[o.height + 5]
      BY <1>1
    <2> QED
      BY <2>1 DEF Serves, Pushed
  <1>3. CASE InStub(o, p, r, n, s)
    <2>1. InStub(o, p, r, n, t)
      BY <1>3 DEF InStub
    <2> QED
      BY <1>2, <2>1 DEF Serves
  <1>4. CASE InCommon(o, p, r, n, s)
    <2>1. InCommon(o, p, r, n, t)
      BY <1>4 DEF InCommon
    <2> QED
      BY <1>2, <2>1 DEF Serves
  <1>5. CASE Handles(o, p, n, s)
    <2>1. /\ t[o.height + 6] = s[o.height + 6]
          /\ t[o.height + 7] = s[o.height + 7]
          /\ t[o.height + 8] = s[o.height + 8]
      BY <1>5 DEF Handles
    <2>2. Handles(o, p, n, t)
      BY <1>5, <2>1 DEF Handles
    <2> QED
      BY <1>2, <2>2 DEF Serves
  <1>6. CASE Returns(o, p, r, n)
    BY <1>2, <1>6 DEF Serves
  <1> QED
    BY <1>3, <1>4, <1>5, <1>6 DEF Serves

\* The innermost activity above its frame's foot; the others end below it.
LEMMA FrameAbove ==
  ASSUME IInv, Depth > 0
  PROVE  /\ origin[Depth].height <= Len(stack)
         /\ \A k \in 0 .. Depth - 1 :
              HeightOf(k) \in Nat /\ HeightOf(k) <= origin[Depth].height
  <1>1. Depth \in Nat /\ \A k \in 1 .. Depth : origin[k].height \in Nat
    BY Typed
  <1>2. HeightOf(Depth - 1) = origin[Depth].height /\ HeightOf(Depth) = Len(stack)
    BY <1>1 DEF HeightOf
  <1>3. Rising
    BY DEF IInv
  <1>4. HeightOf(Depth - 1) <= HeightOf(Depth)
    BY <1>1, <1>3 DEF Rising
  <1>5. ASSUME NEW k \in 0 .. Depth - 1
        PROVE  HeightOf(k) \in Nat /\ HeightOf(k) <= HeightOf(Depth - 1)
    <2>1. HeightOf(k) = origin[k + 1].height /\ k + 1 \in 1 .. Depth
      BY <1>1 DEF HeightOf
    <2>2. HeightOf(k) <= HeightOf(Depth - 1)
      BY <1>1, <1>3 DEF Rising
    <2> QED
      BY <1>1, <2>1, <2>2
  <1> QED
    BY <1>2, <1>4, <1>5

\* A step of the innermost activity that leaves the stack below its frame alone.
LEMMA TopStep ==
  ASSUME IInv, Depth > 0, origin' = origin, stack' \in Seq(Words),
         origin[Depth].height <= Len(stack'),
         \A i \in 1 .. origin[Depth].height : stack'[i] = stack[i],
         Serves(origin[Depth], place', regs', Len(stack'), stack')
  PROVE  Framed' /\ Rising'
  <1> PICK d \in Nat \ {0} : d = Depth
    BY Typed
  <1>1. /\ Len(stack) \in Nat
        /\ \A k \in 1 .. d : origin[k].height \in Nat
    BY Typed
  <1>2. Depth' = d /\ Len(stack') \in Nat
    BY LenProperties DEF Depth
  <1>3. \A k \in 0 .. d - 1 :
          PlaceOf(k)' = PlaceOf(k) /\ RegsOf(k)' = RegsOf(k) /\ HeightOf(k)' = HeightOf(k)
    BY <1>1, <1>2 DEF PlaceOf, RegsOf, HeightOf
  <1>4. /\ PlaceOf(d)' = place' /\ RegsOf(d)' = regs'
        /\ HeightOf(d)' = Len(stack')
    BY <1>2 DEF PlaceOf, RegsOf, HeightOf
  <1>5. ASSUME NEW k \in 1 .. d
        PROVE  Serves(origin[k], PlaceOf(k)', RegsOf(k)', HeightOf(k)', stack')
    <2>1. CASE k = d
      BY <1>4, <2>1
    <2>2. CASE k # d
      <3>1. k \in 0 .. d - 1
        BY <2>2
      <3>2. HeightOf(k) \in Nat /\ HeightOf(k) <= origin[d].height
        BY <3>1, FrameAbove
      <3>3. \A i \in 1 .. HeightOf(k) : stack'[i] = stack[i]
        BY <1>1, <3>2
      <3>4. Serves(origin[k], PlaceOf(k), RegsOf(k), HeightOf(k), stack)
        BY DEF IInv, Framed
      <3>5. Serves(origin[k], PlaceOf(k), RegsOf(k), HeightOf(k), stack')
        BY <1>1, <3>3, <3>4, ServesPrefix
      <3> QED
        BY <1>3, <3>1, <3>5
    <2> QED
      BY <2>1, <2>2
  <1>6. Framed'
    BY <1>2, <1>5 DEF Framed
  <1>7. Rising'
    <2>1. \A k \in 0 .. d - 1 : HeightOf(k)' <= HeightOf(d)'
      <3> SUFFICES ASSUME NEW k \in 0 .. d - 1
                   PROVE  HeightOf(k)' <= HeightOf(d)'
        OBVIOUS
      <3>1. HeightOf(k) \in Nat /\ HeightOf(k) <= origin[d].height
        BY FrameAbove
      <3> QED
        BY <1>1, <1>2, <1>3, <1>4, <3>1
    <2>2. \A k, l \in 0 .. d - 1 : k <= l => HeightOf(k)' <= HeightOf(l)'
      BY <1>1, <1>3 DEF IInv, Rising
    <2>3. HeightOf(d)' <= HeightOf(d)'
      BY <1>2, <1>4
    <2>4. ASSUME NEW k \in 0 .. d, NEW l \in 0 .. d, k <= l
          PROVE  HeightOf(k)' <= HeightOf(l)'
      <3>1. CASE l = d /\ k = d
        BY <2>3, <3>1
      <3>2. CASE l = d /\ k # d
        BY <2>1, <3>2
      <3>3. CASE l # d
        BY <2>2, <2>4, <3>3
      <3> QED
        BY <3>1, <3>2, <3>3
    <2> QED
      BY <1>2, <2>4 DEF Rising
  <1> QED
    BY <1>6, <1>7

\* Where the innermost activity is, and the frame that goes with it.
LEMMA Innermost ==
  ASSUME IInv
  PROVE  /\ Depth = 0 => place.at \in Range(BootSteps) \cup {"reset"}
         /\ Depth > 0 => /\ Serves(origin[Depth], place, regs, Len(stack), stack)
                         /\ Last(origin) = origin[Depth]
                         /\ origin[Depth] \in Origins
  <1>1. Depth \in Nat /\ \A k \in 1 .. Depth : origin[k] \in Origins
    BY Typed
  <1>2. Depth = 0 => place.at \in Range(BootSteps) \cup {"reset"}
    BY DEF IInv, Booting, PlaceOf
  <1>3. ASSUME Depth > 0
        PROVE  Serves(origin[Depth], place, regs, Len(stack), stack)
    <2>1. Depth \in 1 .. Depth
      BY <1>1, <1>3
    <2>2. Serves(origin[Depth], PlaceOf(Depth), RegsOf(Depth), HeightOf(Depth), stack)
      BY <2>1 DEF IInv, Framed
    <2> QED
      BY <2>2 DEF PlaceOf, RegsOf, HeightOf
  <1>4. Last(origin) = origin[Depth]
    BY DEF Last, Depth
  <1> QED
    BY <1>1, <1>2, <1>3, <1>4

LEMMA BootNames ==
  Range(BootSteps) = {"print loading", "FreelistPMMInit", "print pmm ok", "gdt_init",
                "print gdt ok", "idtStart", "sti", "print idt ok", "hcf", "hlt"}
  <1>1. DOMAIN BootSteps = {1, 2, 3, 4, 5, 6, 7, 8, 9, 10}
    <2>1. DOMAIN BootSteps = 1 .. 10
      BY DEF BootSteps
    <2> QED
      BY <2>1
  <1>2. /\ BootSteps[1] = "print loading" /\ BootSteps[2] = "FreelistPMMInit"
        /\ BootSteps[3] = "print pmm ok" /\ BootSteps[4] = "gdt_init"
        /\ BootSteps[5] = "print gdt ok" /\ BootSteps[6] = "idtStart"
        /\ BootSteps[7] = "sti" /\ BootSteps[8] = "print idt ok"
        /\ BootSteps[9] = "hcf" /\ BootSteps[10] = "hlt"
    BY DEF BootSteps
  <1>3. ASSUME NEW p
        PROVE  p \in Range(BootSteps) <=> \E i \in DOMAIN BootSteps : p = BootSteps[i]
    BY Zenon DEF Range
  <1>4. ASSUME NEW p
        PROVE  (\E i \in DOMAIN BootSteps : p = BootSteps[i])
                 <=> p \in {"print loading", "FreelistPMMInit", "print pmm ok",
                            "gdt_init", "print gdt ok", "idtStart", "sti",
                            "print idt ok", "hcf", "hlt"}
    <2>1. ASSUME NEW i \in DOMAIN BootSteps, p = BootSteps[i]
          PROVE  p \in {"print loading", "FreelistPMMInit", "print pmm ok",
                        "gdt_init", "print gdt ok", "idtStart", "sti",
                        "print idt ok", "hcf", "hlt"}
      BY <1>1, <1>2, <2>1, ZenonT(60)
    <2>2. ASSUME p \in {"print loading", "FreelistPMMInit", "print pmm ok",
                        "gdt_init", "print gdt ok", "idtStart", "sti",
                        "print idt ok", "hcf", "hlt"}
          PROVE  \E i \in {1, 2, 3, 4, 5, 6, 7, 8, 9, 10} : p = BootSteps[i]
      BY <1>2, <2>2, ZenonT(60)
    <2> QED
      BY <1>1, <2>1, <2>2, Zenon
  <1> QED
    BY <1>3, <1>4, Zenon

\* In a stub or a handler something was interrupted.
LEMMA InnermostFrame ==
  ASSUME IInv
  PROVE  /\ Here("stub") => Depth > 0 /\ InStub(origin[Depth], place, regs, Len(stack), stack)
         /\ Here("isrCommon") => Depth > 0 /\ InCommon(origin[Depth], place, regs, Len(stack), stack)
         /\ place.at \in InHandler =>
              Depth > 0 /\ Handles(origin[Depth], place, Len(stack), stack)
         /\ Here("iretq") => Depth > 0 /\ Returns(origin[Depth], place, regs, Len(stack))
         /\ place.at \in Range(BootSteps) \cup {"reset"} => Depth = 0
         /\ Depth > 0 => Pushed(origin[Depth], stack)
  <1>1. Depth \in Nat
    BY Typed
  <1>2. CASE Depth = 0
    <2>1. place.at \in Range(BootSteps) \cup {"reset"}
      BY <1>2, Innermost
    <2>2. place.at \notin InHandler \cup {"stub", "isrCommon", "iretq"}
      BY <2>1, BootNames DEF InHandler
    <2>3. ~(Depth > 0)
      BY <1>2
    <2> QED
      BY <1>2, <2>1, <2>2, <2>3, Zenon DEF Here
  <1>3. CASE Depth > 0
    <2>1. Serves(origin[Depth], place, regs, Len(stack), stack)
      BY <1>3, Innermost
    <2>2. CASE InStub(origin[Depth], place, regs, Len(stack), stack)
      <3>1. place.at = "stub"
        BY <2>2 DEF InStub
      <3> QED
        BY <1>3, <2>1, <2>2, <3>1, BootNames DEF Here, InHandler, Serves
    <2>3. CASE InCommon(origin[Depth], place, regs, Len(stack), stack)
      <3>1. place.at = "isrCommon"
        BY <2>3 DEF InCommon
      <3> QED
        BY <1>3, <2>1, <2>3, <3>1, BootNames DEF Here, InHandler, Serves
    <2>4. CASE Handles(origin[Depth], place, Len(stack), stack)
      <3>1. place.at \in InHandler
        BY <2>4 DEF Handles
      <3> QED
        BY <1>3, <2>1, <2>4, <3>1, BootNames DEF Here, InHandler, Serves
    <2>5. CASE Returns(origin[Depth], place, regs, Len(stack))
      <3>1. place.at = "iretq"
        BY <2>5 DEF Returns
      <3> QED
        BY <1>3, <2>1, <2>5, <3>1, BootNames DEF Here, InHandler, Serves
    <2> QED
      BY <2>1, <2>2, <2>3, <2>4, <2>5 DEF Serves
  <1> QED
    BY <1>1, <1>2, <1>3

-----------------------------------------------------------------------------
(* Entering a stub.                                                         *)

LEMMA Concatenated ==
  ASSUME NEW S, NEW s \in Seq(S), NEW u \in Seq(S), NEW n \in Nat, Len(u) = n,
         NEW t, t = s \o u
  PROVE  /\ t \in Seq(S) /\ Len(t) = Len(s) + n
         /\ \A i \in 1 .. Len(s) : t[i] = s[i]
         /\ \A i \in 1 .. n : t[Len(s) + i] = u[i]
  <1>1. /\ s \o u \in Seq(S) /\ Len(s \o u) = Len(s) + Len(u)
        /\ \A i \in 1 .. Len(s) + Len(u) :
             (s \o u)[i] = IF i <= Len(s) THEN s[i] ELSE u[i - Len(s)]
    BY ConcatProperties
  <1>2. /\ t \in Seq(S) /\ Len(t) = Len(s) + n
        /\ \A i \in 1 .. Len(s) + n : t[i] = IF i <= Len(s) THEN s[i] ELSE u[i - Len(s)]
    BY <1>1
  <1>3. Len(s) \in Nat
    BY LenProperties
  <1>4. \A i \in 1 .. Len(s) : t[i] = s[i]
    BY ONLY <1>2, <1>3, n \in Nat
  <1>5. ASSUME NEW i \in 1 .. n
        PROVE  t[Len(s) + i] = u[i]
    <2>1. /\ Len(s) + i \in 1 .. Len(s) + n /\ ~(Len(s) + i <= Len(s))
          /\ Len(s) + i - Len(s) = i
      BY <1>3
    <2> QED
      BY <1>2, <2>1
  <1> QED
    BY ONLY <1>2, <1>4, <1>5, Zenon

LEMMA FivePushed ==
  ASSUME NEW S, NEW s \in Seq(S), NEW a \in S, NEW b \in S, NEW c \in S,
         NEW d \in S, NEW e \in S, NEW t, t = s \o <<a, b, c, d, e>>
  PROVE  /\ t \in Seq(S) /\ Len(t) = Len(s) + 5
         /\ \A i \in 1 .. Len(s) : t[i] = s[i]
         /\ t[Len(s) + 2] = b /\ t[Len(s) + 3] = c /\ t[Len(s) + 5] = e
  <1> PICK u : u = <<a, b, c, d, e>>
    OBVIOUS
  <1>1. /\ u \in Seq(S) /\ Len(u) = 5 /\ u[2] = b /\ u[3] = c /\ u[5] = e
        /\ 5 \in Nat /\ {2, 3, 5} \subseteq 1 .. 5
    OBVIOUS
  <1>2. t = s \o u
    OBVIOUS
  <1>3. /\ t \in Seq(S) /\ Len(t) = Len(s) + 5
        /\ \A i \in 1 .. Len(s) : t[i] = s[i]
        /\ \A i \in 1 .. 5 : t[Len(s) + i] = u[i]
    BY <1>1, <1>2, Concatenated
  <1> QED
    BY ONLY <1>1, <1>3, Zenon

LEMMA OnePushed ==
  ASSUME NEW S, NEW s \in Seq(S), NEW a \in S, NEW t, t = s \o <<a>>
  PROVE  /\ t \in Seq(S) /\ Len(t) = Len(s) + 1
         /\ \A i \in 1 .. Len(s) : t[i] = s[i]
         /\ t[Len(s) + 1] = a
  <1> PICK u : u = <<a>>
    OBVIOUS
  <1>1. u \in Seq(S) /\ Len(u) = 1 /\ u[1] = a /\ 1 \in Nat /\ 1 \in 1 .. 1
    OBVIOUS
  <1>2. t = s \o u
    OBVIOUS
  <1>3. /\ t \in Seq(S) /\ Len(t) = Len(s) + 1
        /\ \A i \in 1 .. Len(s) : t[i] = s[i]
        /\ \A i \in 1 .. 1 : t[Len(s) + i] = u[i]
    BY <1>1, <1>2, Concatenated
  <1> QED
    BY ONLY <1>1, <1>3, Zenon

LEMMA WordTyped ==
  ASSUME NEW n \in Names, NEW x \in Nat \cup BOOLEAN \cup Places
  PROVE  Word(n, x) \in Words /\ Word(n, x).is = n /\ Word(n, x).v = x
  BY Zenon DEF Word, Words

LEMMA VectorsTyped == \A v \in Vectors : v \in Nat
  BY VectorsAssumption DEF Vectors

\* What the processor pushes.
LEMMA EntryWords ==
  ASSUME IInv, NEW v \in Vectors, Enter(v), idtLoaded
  PROVE  /\ stack' \in Seq(Words)
         /\ \A i \in 1 .. Len(stack) : stack'[i] = stack[i]
         /\ stack'[Len(stack) + 2].v = Len(stack)
         /\ stack'[Len(stack) + 3].v = interruptsOn
         /\ stack'[Len(stack) + 5].v = place
         /\ IF v \in PushesError
              THEN Len(stack') = Len(stack) + 6 /\ stack'[Len(stack) + 6].is = "error"
              ELSE Len(stack') = Len(stack) + 5
  <1> DEFINE e == Word("error", v)
  <1> PICK t : t = stack \o << Word("ss", 0), Word("rsp", Len(stack)),
                    Word("rflags", interruptsOn), Word("cs", 0), Word("rip", place) >>
    OBVIOUS
  <1>1. /\ stack \in Seq(Words) /\ Len(stack) \in Nat
        /\ interruptsOn \in BOOLEAN /\ place \in Places
    BY Typed DEF IInv, TypeOK
  <1>2. v \in Nat
    BY VectorsAssumption DEF Vectors
  <1>3. /\ Word("ss", 0) \in Words /\ Word("cs", 0) \in Words
        /\ Word("rsp", Len(stack)) \in Words /\ Word("rsp", Len(stack)).v = Len(stack)
        /\ Word("rflags", interruptsOn) \in Words
        /\ Word("rflags", interruptsOn).v = interruptsOn
        /\ Word("rip", place) \in Words /\ Word("rip", place).v = place
        /\ e \in Words /\ e.is = "error"
    <2>1. 0 \in Nat
      OBVIOUS
    <2>2. {"ss", "rsp", "rflags", "cs", "rip", "error"} \subseteq Names
      BY DEF Names
    <2> QED
      BY <1>1, <1>2, <2>1, <2>2, WordTyped, Zenon
  <1>4. /\ t \in Seq(Words) /\ Len(t) = Len(stack) + 5
        /\ \A i \in 1 .. Len(stack) : t[i] = stack[i]
        /\ t[Len(stack) + 2] = Word("rsp", Len(stack))
        /\ t[Len(stack) + 3] = Word("rflags", interruptsOn)
        /\ t[Len(stack) + 5] = Word("rip", place)
    BY <1>1, <1>3, FivePushed
  <1>5. /\ t[Len(stack) + 2].v = Len(stack)
        /\ t[Len(stack) + 3].v = interruptsOn
        /\ t[Len(stack) + 5].v = place
    BY <1>3, <1>4, Zenon
  <1>6. stack' = t \o (IF v \in PushesError THEN <<e>> ELSE <<>>)
    BY Zenon DEF Enter
  <1> HIDE DEF e
  <1>7. CASE v \in PushesError
    <2>1. stack' = t \o <<e>>
      BY <1>6, <1>7
    <2>2. /\ stack' \in Seq(Words) /\ Len(stack') = Len(t) + 1
          /\ \A i \in 1 .. Len(t) : stack'[i] = t[i]
          /\ stack'[Len(t) + 1] = e
      BY <1>3, <1>4, <2>1, OnePushed
    <2>3. /\ 1 .. Len(stack) \subseteq 1 .. Len(t)
          /\ {Len(stack) + 2, Len(stack) + 3, Len(stack) + 5} \subseteq 1 .. Len(t)
          /\ Len(t) + 1 = Len(stack) + 6
      BY <1>1, <1>4
    <2> QED
      BY <1>3, <1>4, <1>5, <1>7, <2>1, <2>2, <2>3, Zenon
  <1>8. CASE v \notin PushesError
    <2>1. stack' = t
      BY <1>4, <1>6, <1>8, ConcatEmptySeq, Zenon
    <2> QED
      BY <1>4, <1>5, <1>8, <2>1, Zenon
  <1> QED
    BY <1>7, <1>8

\* The interrupted activity keeps its frame, and the new one has its own.
LEMMA EnterFrames ==
  ASSUME IInv, NEW v \in Vectors, Enter(v), idtLoaded
  PROVE  /\ Framed' /\ Rising' /\ origin' \in Seq(Origins) /\ Depth' = Depth + 1
         /\ \A k \in 1 .. Depth : origin'[k] = origin[k]
         /\ origin'[Depth + 1].vector = v /\ origin'[Depth + 1].on = interruptsOn
         /\ PlaceOf(0)' = PlaceOf(0)
  <1> PICK d \in Nat : d = Depth
    BY Typed
  <1> PICK m \in Nat : m = Len(stack)
    BY Typed
  <1> PICK o : o = [vector |-> v, place |-> place, regs |-> regs,
                    on |-> interruptsOn, height |-> Len(stack)]
    OBVIOUS
  <1>1. /\ place \in Places /\ regs \in 0 .. MaxDepth + 1 /\ interruptsOn \in BOOLEAN
        /\ origin \in Seq(Origins) /\ \A k \in 1 .. d : origin[k].height \in Nat
    BY Typed, Zenon DEF IInv, TypeOK
  <1>2. /\ o.vector = v /\ o.place = place /\ o.regs = regs
        /\ o.on = interruptsOn /\ o.height = m
    BY Zenon
  <1>3. o \in Origins
    BY <1>1, Zenon DEF Origins
  <1>4. /\ origin' = Append(origin, o) /\ place' = [at |-> "stub", v |-> v]
        /\ regs' = regs
    BY Zenon DEF Enter
  <1>5. /\ origin' \in Seq(Origins) /\ Depth' = d + 1 /\ origin'[d + 1] = o
        /\ \A k \in 1 .. d : origin'[k] = origin[k]
    BY <1>1, <1>3, <1>4 DEF Depth
  <1>6. /\ stack' \in Seq(Words)
        /\ \A i \in 1 .. m : stack'[i] = stack[i]
        /\ stack'[m + 2].v = m
        /\ stack'[m + 3].v = interruptsOn
        /\ stack'[m + 5].v = place
        /\ IF v \in PushesError
             THEN Len(stack') = m + 6 /\ stack'[m + 6].is = "error"
             ELSE Len(stack') = m + 5
    BY EntryWords, Zenon
  <1>7. \A k \in 0 .. d :
          PlaceOf(k)' = PlaceOf(k) /\ RegsOf(k)' = RegsOf(k) /\ HeightOf(k)' = HeightOf(k)
    <2> SUFFICES ASSUME NEW k \in 0 .. d
        PROVE  PlaceOf(k)' = PlaceOf(k) /\ RegsOf(k)' = RegsOf(k)
                 /\ HeightOf(k)' = HeightOf(k)
      OBVIOUS
    <2>1. k # d + 1
      OBVIOUS
    <2>2. CASE k = d
      BY <1>2, <1>5, <2>1, <2>2, Zenon DEF PlaceOf, RegsOf, HeightOf
    <2>3. CASE k # d
      <3>1. k + 1 \in 1 .. d
        BY <2>3
      <3> QED
        BY <1>5, <2>1, <2>3, <3>1, Zenon DEF PlaceOf, RegsOf, HeightOf
    <2> QED
      BY <2>2, <2>3
  <1>8. /\ PlaceOf(d + 1)' = place' /\ RegsOf(d + 1)' = regs'
        /\ HeightOf(d + 1)' = Len(stack')
    BY <1>5 DEF PlaceOf, RegsOf, HeightOf
  <1>9. \A k \in 0 .. d : HeightOf(k) \in Nat /\ HeightOf(k) <= m
    <2>1. Rising /\ HeightOf(d) = m
      BY DEF IInv, HeightOf
    <2>2. \A k \in 0 .. d : HeightOf(k) <= m
      BY <2>1 DEF Rising
    <2>3. \A k \in 0 .. d : HeightOf(k) \in Nat
      BY <1>1 DEF HeightOf
    <2> QED
      BY <2>2, <2>3
  <1>10. ASSUME NEW k \in 1 .. d
         PROVE  Serves(origin[k], PlaceOf(k), RegsOf(k), HeightOf(k), stack')
    <2>1. Serves(origin[k], PlaceOf(k), RegsOf(k), HeightOf(k), stack)
      BY DEF IInv, Framed
    <2>2. \A i \in 1 .. HeightOf(k) : stack'[i] = stack[i]
      BY <1>6, <1>9
    <2> QED
      BY <1>1, <2>1, <2>2, ServesPrefix
  <1>11. Serves(o, place', regs', Len(stack'), stack')
    <2>1. Pushed(o, stack')
      BY <1>2, <1>6, Zenon DEF Pushed
    <2>2. InStub(o, place', regs', Len(stack'), stack')
      BY <1>2, <1>4, <1>6, Zenon DEF InStub
    <2> QED
      BY <2>1, <2>2 DEF Serves
  <1>12. Framed'
    <2>1. ASSUME NEW k \in 1 .. d + 1
          PROVE  Serves(origin'[k], PlaceOf(k)', RegsOf(k)', HeightOf(k)', stack')
      <3>1. CASE k = d + 1
        BY <1>5, <1>8, <1>11, <3>1
      <3>2. CASE k # d + 1
        <4>1. k \in 1 .. d /\ k \in 0 .. d
          BY <3>2
        <4> QED
          BY <1>5, <1>7, <1>10, <4>1
      <3> QED
        BY <3>1, <3>2
    <2> QED
      BY <1>5, <1>6, <2>1 DEF Framed
  <1>13. Rising'
    <2>1. Len(stack') \in Nat /\ m <= Len(stack')
      BY <1>6
    <2>2. \A k, l \in 0 .. d : k <= l => HeightOf(k)' <= HeightOf(l)'
      BY <1>7 DEF IInv, Rising
    <2>3. \A k \in 0 .. d + 1 : HeightOf(k)' <= HeightOf(d + 1)'
      BY <1>7, <1>8, <1>9, <2>1
    <2>4. ASSUME NEW k \in 0 .. d + 1, NEW l \in 0 .. d + 1, k <= l
          PROVE  HeightOf(k)' <= HeightOf(l)'
      <3>1. CASE l = d + 1
        BY <2>3, <3>1
      <3>2. CASE l # d + 1
        BY <2>2, <2>4, <3>2
      <3> QED
        BY <3>1, <3>2
    <2> QED
      BY <1>5, <2>4 DEF Rising
  <1> QED
    BY <1>2, <1>5, <1>7, <1>12, <1>13

\* A device interrupt comes to _start only, and one more level has a bound.
LEMMA EnterStep ==
  ASSUME IInv, NEW v \in Vectors, Enter(v), ~Here("reset"),
         v \in Devices => interruptsOn,
         \/ Depth < MaxDepth
         \/ Depth > 0 /\ origin[Depth].vector \in Devices,
         raised' \in 0 .. MaxRaised
  PROVE  IInv'
  <1>1. /\ TypeOK /\ Depth \in Nat /\ Booting /\ Masked /\ Bounded /\ DevicesNeverNest
        /\ origin \in Seq(Origins)
    BY Typed DEF IInv
  <1>2. CASE idtLoaded
    <2>1. /\ Framed' /\ Rising' /\ origin' \in Seq(Origins) /\ Depth' = Depth + 1
          /\ \A k \in 1 .. Depth : origin'[k] = origin[k]
          /\ origin'[Depth + 1].vector = v /\ origin'[Depth + 1].on = interruptsOn
          /\ PlaceOf(0)' = PlaceOf(0)
      BY <1>2, EnterFrames, Zenon
    <2>2. /\ place' = [at |-> "stub", v |-> v] /\ interruptsOn' = FALSE
          /\ regs' = regs /\ idtLoaded' = idtLoaded
      BY <1>2, Zenon DEF Enter, GateDisablesInterrupts
    <2>3. origin # <<>> <=> Depth > 0
      BY <1>1, EmptySeq DEF Depth
    <2>4. Bounded'
      <3>1. MaxDepth \in Nat
        BY BoundsAssumption
      <3>2. CASE Depth < MaxDepth
        BY <1>1, <2>1, <3>1, <3>2 DEF Bounded
      <3>3. CASE Depth > 0 /\ origin[Depth].vector \in Devices
        <4>1. Depth \in DOMAIN origin
          BY <1>1, <3>3 DEF Depth
        <4>2. Depth = 1
          BY <1>1, <3>3, <4>1, Zenon DEF DevicesNeverNest
        <4> QED
          BY <1>1, <2>1, <4>2 DEF Bounded
      <3> QED
        BY <3>2, <3>3
    <2>5. DevicesNeverNest'
      <3>1. DOMAIN origin = 1 .. Depth /\ DOMAIN origin' = 1 .. Depth + 1
        BY <1>1, <2>1 DEF Depth
      <3>2. v \in Devices => Depth = 0
        BY <1>1, <2>3 DEF Masked
      <3>3. ASSUME NEW k \in DOMAIN origin', origin'[k].vector \in Devices
            PROVE  k = 1
        <4>1. CASE k \in 1 .. Depth
          BY <1>1, <2>1, <3>1, <3>3, <4>1 DEF DevicesNeverNest
        <4>2. CASE k = Depth + 1
          BY <2>1, <3>2, <3>3, <4>2
        <4> QED
          BY <1>1, <3>1, <4>1, <4>2
      <3> QED
        BY <3>3 DEF DevicesNeverNest
    <2>6. Masked'
      <3>1. ASSUME NEW k \in 2 .. Depth + 1
            PROVE  ~origin'[k].on
        <4>1. CASE k = Depth + 1
          <5>1. Depth > 0
            BY <1>1, <4>1
          <5> QED
            BY <1>1, <2>1, <2>3, <4>1, <5>1, Zenon DEF Masked
        <4>2. CASE k # Depth + 1
          <5>1. k \in 2 .. Depth /\ k \in 1 .. Depth
            BY <1>1, <4>2
          <5> QED
            BY <1>1, <2>1, <5>1, Zenon DEF Masked
        <4> QED
          BY <4>1, <4>2
      <3> QED
        BY <2>1, <2>2, <3>1, Zenon DEF Masked
    <2>7. Booting'
      <3>1. place'.at # "reset"
        BY <2>2
      <3> QED
        BY <1>1, <1>2, <2>1, <2>2, <3>1, Zenon DEF Booting, Here
    <2>8. TypeOK'
      <3>1. place' \in Places
        BY <2>2 DEF Places, Stubs
      <3>2. Depth' <= MaxDepth + 1
        BY <1>1, <2>1, <2>4, BoundsAssumption DEF Bounded
      <3>3. \A i \in DOMAIN stack' : stack'[i].is \in Names
        <4>1. \A i \in DOMAIN stack' : stack'[i] \in Words
          BY <2>1 DEF Framed
        <4> QED
          BY <4>1 DEF Words
      <3>4. regs' \in 0 .. MaxDepth + 1 /\ interruptsOn' \in BOOLEAN /\ idtLoaded' \in BOOLEAN
        BY <1>1, <2>2, Zenon DEF TypeOK
      <3> QED
        BY <2>1, <3>1, <3>2, <3>3, <3>4, Zenon DEF TypeOK, Origins, Names, Depth
    <2> QED
      BY <2>1, <2>4, <2>5, <2>6, <2>7, <2>8, Zenon DEF IInv
  <1>3. CASE ~idtLoaded
    <2>1. origin = <<>> /\ Depth = 0
      BY <1>1, <1>3 DEF Booting, Depth
    <2>2. /\ place' = At("reset")
          /\ UNCHANGED <<stack, origin, interruptsOn, regs, idtLoaded>>
      BY <1>3, Zenon DEF Enter
    <2>3. Depth' = 0
      BY <2>1, <2>2 DEF Depth
    <2>4. Framed' /\ Rising'
      <3>1. stack \in Seq(Words) /\ Len(stack) \in Nat
        BY Typed
      <3>2. HeightOf(0)' = Len(stack)
        BY <2>2, <2>3 DEF HeightOf
      <3> QED
        BY <2>2, <2>3, <3>1, <3>2 DEF Framed, Rising
    <2>5. Booting'
      <3>1. PlaceOf(0)' = At("reset") /\ At("reset").at = "reset"
        BY <2>2, <2>3 DEF PlaceOf, At
      <3> QED
        BY <2>1, <2>2, <3>1, Zenon DEF Booting
    <2>6. TypeOK'
      <3>1. At("reset") \in Places
        BY DEF Places
      <3> QED
        BY <1>1, <2>2, <3>1, Zenon DEF TypeOK
    <2>7. Masked' /\ Bounded' /\ DevicesNeverNest'
      BY <1>1, <2>1, <2>2, <2>3 DEF Masked, Bounded, DevicesNeverNest
    <2> QED
      BY <2>4, <2>5, <2>6, <2>7, Zenon DEF IInv
  <1> QED
    BY <1>2, <1>3

-----------------------------------------------------------------------------
(* Steps of the innermost activity.                                         *)

LEMMA FramesTyped ==
  ASSUME Framed'
  PROVE  \A i \in DOMAIN stack' : stack'[i].is \in Names
  <1>1. \A i \in DOMAIN stack' : stack'[i] \in Words
    BY DEF Framed
  <1> QED
    BY <1>1 DEF Words

LEMMA ActivityStep ==
  ASSUME IInv, Depth > 0, UNCHANGED <<origin, idtLoaded, raised>>,
         interruptsOn' \in {FALSE, interruptsOn},
         place' \in Places, place'.at # "reset", regs' \in 0 .. MaxDepth + 1,
         stack' \in Seq(Words),
         origin[Depth].height <= Len(stack'),
         \A i \in 1 .. origin[Depth].height : stack'[i] = stack[i],
         Serves(origin[Depth], place', regs', Len(stack'), stack')
  PROVE  IInv'
  <1>1. /\ TypeOK /\ Depth \in Nat /\ Booting /\ Masked /\ Bounded /\ DevicesNeverNest
    BY Typed DEF IInv
  <1>2. Framed' /\ Rising'
    BY TopStep
  <1>3. Depth' = Depth
    BY DEF Depth
  <1>4. interruptsOn \in BOOLEAN
    BY <1>1, Zenon DEF TypeOK
  <1>5. TypeOK'
    <2>1. interruptsOn' \in BOOLEAN
      BY <1>4, Zenon
    <2> QED
      BY <1>1, <1>2, <2>1, FramesTyped, Zenon DEF TypeOK, Names
  <1>6. Booting'
    <2>1. PlaceOf(0)' = PlaceOf(0)
      BY <1>1, <1>3 DEF PlaceOf
    <2> QED
      BY <1>1, <2>1, Zenon DEF Booting, Here
  <1>7. Masked' /\ Bounded' /\ DevicesNeverNest'
    <2>1. Masked'
      <3>1. origin' = origin /\ (interruptsOn' = FALSE \/ interruptsOn' = interruptsOn)
        BY Zenon
      <3>2. origin' # <<>> => ~interruptsOn'
        BY <1>1, <3>1, Zenon DEF Masked
      <3>3. ASSUME NEW k \in 2 .. Depth
            PROVE  ~origin'[k].on
        BY <1>1, <3>1, Zenon DEF Masked
      <3> QED
        BY <1>3, <3>2, <3>3, Zenon DEF Masked
    <2>2. Bounded' /\ DevicesNeverNest'
      BY <1>1, <1>3 DEF Bounded, DevicesNeverNest
    <2> QED
      BY <2>1, <2>2
  <1> QED
    BY <1>2, <1>5, <1>6, <1>7, Zenon DEF IInv

LEMMA PlaceNames ==
  /\ \A p \in {"isrCommon", "printf", "switch", "handleIrq", "error screen",
               "pops", "iretq"} :
       At(p) \in Places /\ At(p).at = p /\ p # "reset"
  /\ \A p \in Range(BootSteps) : At(p) \in Places /\ At(p).at = p
  BY DEF At, Places

LEMMA StubStep ==
  ASSUME IInv, StubsAgree, Stub
  PROVE  IInv'
  <1> PICK d \in Nat : d = Depth
    BY Typed
  <1> PICK o : o = origin[d]
    OBVIOUS
  <1>1. /\ d > 0 /\ InStub(o, place, regs, Len(stack), stack) /\ Pushed(o, stack)
        /\ stack \in Seq(Words) /\ Len(stack) \in Nat /\ o \in Origins
        /\ place.at = "stub"
    BY InnermostFrame, Innermost, Typed DEF Stub, Here
  <1>2. o.height \in Nat /\ o.vector \in Vectors /\ place.v = o.vector
    BY <1>1 DEF Origins, InStub
  <1>3. o.vector \in PushesError <=> o.vector \in StubExpectsError
    BY <1>2 DEF StubsAgree
  <1> PICK h \in Nat : h = o.height
    BY <1>2
  <1> PICK w : w = Word("vector", o.vector)
    OBVIOUS
  <1> PICK z : z = Word("zero", 0)
    OBVIOUS
  <1>4. /\ w \in Words /\ w.v = o.vector
        /\ z \in Words /\ z.is = "zero"
    <2>1. o.vector \in Nat /\ 0 \in Nat
      BY <1>2, VectorsTyped
    <2>2. "zero" \in Names /\ "vector" \in Names
      BY DEF Names
    <2> QED
      BY <2>1, <2>2, WordTyped, Zenon
  <1>5. PICK t : /\ t \in Seq(Words) /\ Len(t) = h + 6
                 /\ \A i \in 1 .. h + 5 : t[i] = stack[i]
                 /\ t[h + 6].is = ErrorWord(o.vector)
                 /\ stack' = t \o <<w>>
    <2>1. CASE o.vector \in PushesError
      <3>1. stack' = stack \o <<w>>
        <4>1. stack' = (stack \o <<>>) \o <<w>>
          BY <1>2, <1>3, <2>1, Zenon DEF Stub
        <4> QED
          BY <1>1, <4>1, ConcatEmptySeq, Zenon
      <3>2. Len(stack) = h + 6 /\ stack[h + 6].is = "error"
        BY <1>1, <2>1 DEF InStub
      <3> QED
        BY <1>1, <2>1, <3>1, <3>2, Zenon DEF ErrorWord
    <2>2. CASE o.vector \notin PushesError
      <3> PICK t : t = stack \o <<z>>
        OBVIOUS
      <3>1. stack' = t \o <<w>>
        BY <1>2, <1>3, <2>2, Zenon DEF Stub
      <3>2. Len(stack) = h + 5
        BY <1>1, <2>2 DEF InStub
      <3>3. /\ t \in Seq(Words) /\ Len(t) = Len(stack) + 1
            /\ \A i \in 1 .. Len(stack) : t[i] = stack[i]
            /\ t[Len(stack) + 1] = z
        BY <1>1, <1>4, OnePushed
      <3>4. Len(t) = h + 6 /\ t[h + 6] = z
        BY ONLY <3>2, <3>3, h \in Nat
      <3> QED
        BY <1>4, <2>2, <3>1, <3>2, <3>3, <3>4, Zenon DEF ErrorWord
    <2> QED
      BY <2>1, <2>2
  <1>6. /\ stack' \in Seq(Words) /\ Len(stack') = h + 7
        /\ \A i \in 1 .. h + 6 : stack'[i] = t[i]
        /\ stack'[h + 7] = w
    <2>1. /\ stack' \in Seq(Words) /\ Len(stack') = Len(t) + 1
          /\ \A i \in 1 .. Len(t) : stack'[i] = t[i]
          /\ stack'[Len(t) + 1] = w
      BY ONLY <1>4, <1>5, OnePushed
    <2> QED
      BY ONLY <1>5, <2>1, h \in Nat
  <1>7. \A i \in 1 .. h + 5 : stack'[i] = stack[i]
    BY ONLY <1>5, <1>6, h \in Nat
  <1>8. /\ place' = At("isrCommon") /\ interruptsOn' = FALSE
        /\ UNCHANGED <<regs, idtLoaded, origin, raised>>
    BY Zenon DEF Stub
  <1>9. place' \in Places /\ place'.at = "isrCommon"
    BY <1>8, PlaceNames
  <1>10. Serves(o, place', regs', Len(stack'), stack')
    <2>1. Pushed(o, stack')
      <3>1. h + 2 \in 1 .. h + 5 /\ h + 3 \in 1 .. h + 5 /\ h + 5 \in 1 .. h + 5
        OBVIOUS
      <3> QED
        BY <1>1, <1>7, <3>1, Zenon DEF Pushed
    <2>2. InCommon(o, place', regs', Len(stack'), stack')
      <3>1. h + 6 \in 1 .. h + 6
        OBVIOUS
      <3>2. regs' = o.regs
        BY <1>1, <1>8 DEF InStub
      <3> QED
        BY <1>1, <1>4, <1>5, <1>6, <1>8, <1>9, <3>1, <3>2, Zenon DEF InCommon
    <2> QED
      BY <2>1, <2>2, Zenon DEF Serves
  <1>11. h <= Len(stack') /\ \A i \in 1 .. h : stack'[i] = stack[i]
    BY <1>6, <1>7
  <1>12. regs' \in 0 .. MaxDepth + 1 /\ place'.at # "reset"
    BY <1>8, <1>9, Zenon DEF IInv, TypeOK
  <1> QED
    BY <1>1, <1>6, <1>8, <1>9, <1>10, <1>11, <1>12, ActivityStep, Zenon

\* Only isrCommon makes what stands on top the registers of the interrupted.
LEMMA SaveRegistersStep ==
  ASSUME IInv, SaveRegisters
  PROVE  IInv'
  <1> PICK d \in Nat : d = Depth
    BY Typed
  <1> PICK o : o = origin[d]
    OBVIOUS
  <1>1. /\ d > 0 /\ InCommon(o, place, regs, Len(stack), stack) /\ Pushed(o, stack)
        /\ stack \in Seq(Words) /\ Len(stack) \in Nat /\ o \in Origins
    BY InnermostFrame, Innermost, Typed DEF SaveRegisters
  <1>2. o.height \in Nat
    BY <1>1 DEF Origins
  <1> PICK h \in Nat : h = o.height
    BY <1>2
  <1> PICK w : w = Word("regs", regs)
    OBVIOUS
  <1>3. w \in Words /\ w.v = regs
    <2>1. regs \in Nat
      BY BoundsAssumption DEF IInv, TypeOK
    <2>2. "regs" \in Names
      BY DEF Names
    <2> QED
      BY <2>1, <2>2, WordTyped, Zenon
  <1>4. /\ stack' = Append(stack, w) /\ regs' = Len(origin) /\ place' = At("printf")
        /\ UNCHANGED <<interruptsOn, idtLoaded, origin, raised>>
    BY Zenon DEF SaveRegisters
  <1>5. /\ Len(stack) = h + 7 /\ stack[h + 6].is = ErrorWord(o.vector)
        /\ stack[h + 7].v = o.vector
    BY <1>1 DEF InCommon
  <1>6. /\ stack' \in Seq(Words) /\ Len(stack') = h + 8
        /\ \A i \in 1 .. h + 7 : stack'[i] = stack[i]
        /\ stack'[h + 8] = w
    BY ONLY <1>1, <1>3, <1>4, <1>5, h \in Nat
  <1>7. place' \in Places /\ place'.at = "printf" /\ place'.at # "reset"
    BY <1>4, PlaceNames
  <1>8. Serves(o, place', regs', Len(stack'), stack')
    <2>1. /\ h + 2 \in 1 .. h + 7 /\ h + 3 \in 1 .. h + 7 /\ h + 5 \in 1 .. h + 7
          /\ h + 6 \in 1 .. h + 7 /\ h + 7 \in 1 .. h + 7
      OBVIOUS
    <2>2. Pushed(o, stack')
      BY <1>1, <1>6, <2>1, Zenon DEF Pushed
    <2>3. Handles(o, place', Len(stack'), stack')
      <3>1. o.regs = regs
        BY <1>1 DEF InCommon
      <3>2. place'.at \in InHandler /\ place'.at # "pops" /\ place'.at # "handleIrq"
        BY <1>7 DEF InHandler
      <3> QED
        BY <1>3, <1>5, <1>6, <2>1, <3>1, <3>2, Zenon DEF Handles
    <2> QED
      BY <2>2, <2>3, Zenon DEF Serves
  <1>9. h <= Len(stack') /\ \A i \in 1 .. h : stack'[i] = stack[i]
    BY ONLY <1>6, h \in Nat
  <1>10. regs' \in 0 .. MaxDepth + 1
    <2>1. Len(origin) \in Nat /\ Len(origin) <= MaxDepth + 1
      BY Typed DEF IInv, TypeOK, Depth
    <2> QED
      BY <1>4, <2>1, BoundsAssumption
  <1> QED
    BY <1>1, <1>4, <1>6, <1>7, <1>8, <1>9, <1>10, ActivityStep, Zenon

\* The struct isrHandler is given is that of the innermost interruption.
LEMMA FrameRead ==
  ASSUME IInv, place.at \in InHandler
  PROVE  /\ Frame.int_no = origin[Depth].vector
         /\ Frame.err_code = ErrorWord(origin[Depth].vector)
         /\ Frame.rip = origin[Depth].place
         /\ Frame.rflags = origin[Depth].on
         /\ Frame.rsp = origin[Depth].height
         /\ Below(0) = origin[Depth].regs
  <1> PICK o : o = origin[Depth]
    OBVIOUS
  <1>1. Depth > 0 /\ Handles(o, place, Len(stack), stack) /\ Pushed(o, stack)
    BY InnermostFrame
  <1>2. o.height \in Nat
    BY <1>1, Typed
  <1> PICK h \in Nat : h = o.height
    BY <1>2
  <1> PICK n : n = Len(stack)
    OBVIOUS
  <1>3. n = h + 8
    BY <1>1 DEF Handles
  <1>4. /\ n - 0 = h + 8 /\ n - 1 = h + 7 /\ n - 2 = h + 6 /\ n - 3 = h + 5
        /\ n - 5 = h + 3 /\ n - 6 = h + 2
    BY ONLY <1>3, h \in Nat
  <1>5. /\ stack[h + 2].v = h /\ stack[h + 3].v = o.on /\ stack[h + 5].v = o.place
        /\ stack[h + 6].is = ErrorWord(o.vector) /\ stack[h + 7].v = o.vector
        /\ stack[h + 8].v = o.regs
    BY <1>1, Zenon DEF Handles, Pushed
  <1> QED
    BY <1>4, <1>5, Zenon DEF Frame, Below

\* Moving on within isrHandler.
LEMMA GotoStep ==
  ASSUME IInv, place.at \in InHandler,
         NEW p \in InHandler, Goto(p),
         p = "pops" => origin[Depth].vector \notin {14, 32, 33},
         p = "handleIrq" => origin[Depth].vector \in {32, 33}
  PROVE  IInv'
  <1> PICK o : o = origin[Depth]
    OBVIOUS
  <1>1. /\ Depth > 0 /\ Handles(o, place, Len(stack), stack) /\ Pushed(o, stack)
        /\ stack \in Seq(Words) /\ Len(stack) \in Nat /\ o.height \in Nat
    BY InnermostFrame, Typed
  <1>2. /\ place' = At(p)
        /\ UNCHANGED <<regs, interruptsOn, idtLoaded, stack, origin, raised>>
    BY Zenon DEF Goto
  <1>3. place' \in Places /\ place'.at = p /\ p # "reset"
    BY <1>2, PlaceNames DEF InHandler
  <1>4. Handles(o, place', Len(stack'), stack')
    BY <1>1, <1>2, <1>3, Zenon DEF Handles
  <1>5. Serves(o, place', regs', Len(stack'), stack')
    BY <1>1, <1>2, <1>4, Zenon DEF Serves
  <1>6. o.height <= Len(stack)
    BY <1>1 DEF Handles
  <1>7. regs' \in 0 .. MaxDepth + 1
    BY <1>2, Zenon DEF IInv, TypeOK
  <1> QED
    BY <1>1, <1>2, <1>3, <1>5, <1>6, <1>7, ActivityStep, Zenon

LEMMA HandlerStep ==
  ASSUME IInv, HandlerPrint \/ HandlerSwitch
  PROVE  IInv'
  <1>1. {"printf", "switch", "error screen", "handleIrq", "pops"} = InHandler
    BY DEF InHandler
  <1>2. CASE HandlerPrint
    <2>1. place.at \in InHandler /\ Goto("switch") /\ "switch" \in InHandler
      BY <1>1, <1>2, Zenon DEF HandlerPrint, Here
    <2>2. "switch" # "pops" /\ "switch" # "handleIrq"
      OBVIOUS
    <2> QED
      BY <2>1, <2>2, GotoStep, Zenon
  <1>3. CASE HandlerSwitch
    <2>1. place.at \in InHandler
      BY <1>1, <1>3, Zenon DEF HandlerSwitch, Here
    <2>2. Frame.int_no = origin[Depth].vector
      BY <2>1, FrameRead
    <2>3. CASE Frame.int_no = 14 /\ Goto("error screen")
      <3>1. "error screen" # "pops" /\ "error screen" # "handleIrq"
        OBVIOUS
      <3> QED
        BY <1>1, <2>1, <2>3, <3>1, GotoStep, Zenon
    <2>4. CASE Frame.int_no \in {32, 33} /\ Goto("handleIrq")
      <3>1. "handleIrq" # "pops"
        OBVIOUS
      <3> QED
        BY <1>1, <2>1, <2>2, <2>4, <3>1, GotoStep, Zenon
    <2>5. CASE Frame.int_no \notin {14, 32, 33} /\ Goto("pops")
      <3>1. "handleIrq" # "pops"
        OBVIOUS
      <3> QED
        BY <1>1, <2>1, <2>2, <2>5, <3>1, GotoStep, Zenon
    <2> QED
      BY <1>3, <2>3, <2>4, <2>5, Zenon DEF HandlerSwitch
  <1> QED
    BY <1>2, <1>3

\* handleIrq runs for a device, the only one there is, and faults.
LEMMA HandleIrqStep ==
  ASSUME IInv, HandleIrq
  PROVE  IInv'
  <1>1. Here("handleIrq") /\ Enter(14) /\ raised' = raised
    BY Zenon DEF HandleIrq
  <1>2. place.at = "handleIrq" /\ place.at \in InHandler /\ ~Here("reset")
    BY <1>1 DEF Here, InHandler
  <1>3. Depth > 0 /\ origin[Depth].vector \in {32, 33}
    BY <1>2, InnermostFrame DEF Handles
  <1>4. origin[Depth].vector \in Vectors
    <2>1. origin[Depth] \in Origins
      BY <1>3, Innermost
    <2> QED
      BY <2>1 DEF Origins
  <1>5. origin[Depth].vector \in Devices /\ 14 \in Vectors /\ 14 \notin Devices
    BY <1>3, <1>4, VectorsAssumption DEF Vectors
  <1>6. raised' \in 0 .. MaxRaised
    BY <1>1, Zenon DEF IInv, TypeOK
  <1> QED
    BY <1>1, <1>2, <1>3, <1>5, <1>6, EnterStep, Zenon

LEMMA RaiseStep ==
  ASSUME IInv, NEW v, Raise(v) \/ Interrupt(v)
  PROVE  IInv'
  <1>1. /\ v \in Vectors /\ MayRaise /\ Enter(v)
        /\ v \in Devices => interruptsOn
    <2>1. CASE Raise(v)
      <3>1. v \in Faults /\ v \in Vectors /\ v \notin Devices
        BY <2>1, VectorsAssumption DEF Raise, Vectors
      <3> QED
        BY <2>1, <3>1, Zenon DEF Raise
    <2>2. CASE Interrupt(v)
      BY <2>2, Zenon DEF Interrupt, Vectors
    <2> QED
      BY <2>1, <2>2
  <1>2. ~Here("reset") /\ Depth < MaxDepth
    BY <1>1 DEF MayRaise, Depth
  <1>3. raised' \in 0 .. MaxRaised
    BY <1>1, BoundsAssumption DEF MayRaise, IInv, TypeOK
  <1> QED
    BY <1>1, <1>2, <1>3, EnterStep, Zenon

\* The pops give back what isrCommon pushed.
LEMMA RestoreStep ==
  ASSUME IInv, Restore
  PROVE  IInv'
  <1> PICK o : o = origin[Depth]
    OBVIOUS
  <1>0. place.at = "pops" /\ place.at \in InHandler
    BY DEF Restore, Here, InHandler
  <1>1. /\ Depth > 0 /\ Handles(o, place, Len(stack), stack) /\ Pushed(o, stack)
        /\ stack \in Seq(Words) /\ Len(stack) \in Nat /\ o \in Origins
    BY <1>0, InnermostFrame, Innermost, Typed
  <1>2. o.height \in Nat /\ o.regs \in 0 .. MaxDepth + 1
    BY <1>1 DEF Origins
  <1> PICK h \in Nat : h = o.height
    BY <1>2
  <1>3. Len(stack) = h + 8 /\ o.vector \notin {14, 32, 33}
    BY <1>0, <1>1 DEF Handles
  <1>4. /\ regs' = o.regs /\ place' = At("iretq")
        /\ stack' = SubSeq(stack, 1, Len(stack) - 3)
        /\ UNCHANGED <<interruptsOn, idtLoaded, origin, raised>>
    BY <1>0, FrameRead, Zenon DEF Restore
  <1>5. /\ stack' \in Seq(Words) /\ Len(stack') = h + 5
        /\ \A i \in 1 .. h + 5 : stack'[i] = stack[i]
    <2>1. Len(stack) - 3 = h + 5 /\ 1 .. h + 5 \subseteq 1 .. Len(stack)
      BY <1>3
    <2>2. \A i \in 1 .. h + 5 : stack[i] \in Words
      BY <1>1, <2>1
    <2>3. stack' = SubSeq(stack, 1, h + 5)
      BY <1>4, <2>1
    <2>4. /\ SubSeq(stack, 1, h + 5) \in Seq(Words)
          /\ Len(SubSeq(stack, 1, h + 5)) = h + 5
          /\ \A i \in 1 .. h + 5 : SubSeq(stack, 1, h + 5)[i] = stack[1 + i - 1]
      BY <2>2, SubSeqProperties
    <2> QED
      BY <2>3, <2>4
  <1>6. place' \in Places /\ place'.at = "iretq" /\ place'.at # "reset"
    BY <1>4, PlaceNames
  <1>7. Serves(o, place', regs', Len(stack'), stack')
    <2>1. h + 2 \in 1 .. h + 5 /\ h + 3 \in 1 .. h + 5 /\ h + 5 \in 1 .. h + 5
      OBVIOUS
    <2>2. Pushed(o, stack')
      BY <1>1, <1>5, <2>1, Zenon DEF Pushed
    <2>3. Returns(o, place', regs', Len(stack'))
      BY <1>3, <1>4, <1>5, <1>6, Zenon DEF Returns
    <2> QED
      BY <2>2, <2>3, Zenon DEF Serves
  <1>8. h <= Len(stack') /\ \A i \in 1 .. h : stack'[i] = stack[i]
    BY ONLY <1>5, h \in Nat
  <1>9. regs' \in 0 .. MaxDepth + 1
    BY <1>2, <1>4
  <1> QED
    BY <1>1, <1>4, <1>5, <1>6, <1>7, <1>8, <1>9, ActivityStep, Zenon

\* iretq takes back all of the interruption and nothing else.
LEMMA IretqResumes ==
  ASSUME IInv, Iretq
  PROVE  /\ Depth > 0 /\ origin[Depth].vector \notin {14, 32, 33}
         /\ place' = origin[Depth].place /\ regs' = origin[Depth].regs
         /\ interruptsOn' = origin[Depth].on
         /\ stack' \in Seq(Words) /\ Len(stack') = origin[Depth].height
         /\ \A i \in 1 .. origin[Depth].height : stack'[i] = stack[i]
         /\ origin' \in Seq(Origins) /\ Depth' = Depth - 1
         /\ \A k \in 1 .. Depth - 1 : origin'[k] = origin[k]
         /\ idtLoaded' = idtLoaded /\ raised' = raised
  <1> PICK o : o = origin[Depth]
    OBVIOUS
  <1> PICK d \in Nat : d = Depth
    BY Typed
  <1>1. /\ d > 0 /\ Returns(o, place, regs, Len(stack)) /\ Pushed(o, stack)
        /\ stack \in Seq(Words) /\ origin \in Seq(Origins) /\ o.height \in Nat
    BY InnermostFrame, Typed DEF Iretq
  <1> PICK h \in Nat : h = o.height
    BY <1>1
  <1> PICK n : n = Len(stack)
    OBVIOUS
  <1>2. n = h + 5 /\ regs = o.regs /\ o.vector \notin {14, 32, 33}
    BY <1>1 DEF Returns
  <1>3. n - 0 = h + 5 /\ n - 2 = h + 3 /\ n - 3 = h + 2
    BY ONLY <1>2, h \in Nat
  <1>4. Below(0) = o.place /\ Below(2) = o.on /\ Below(3) = h
    BY <1>1, <1>3, Zenon DEF Below, Pushed
  <1>5. /\ place' = o.place /\ interruptsOn' = o.on /\ stack' = SubSeq(stack, 1, h)
        /\ origin' = Front(origin)
        /\ UNCHANGED <<regs, idtLoaded, raised>>
    BY <1>4, Zenon DEF Iretq
  <1>6. /\ stack' \in Seq(Words) /\ Len(stack') = h
        /\ \A i \in 1 .. h : stack'[i] = stack[i]
    <2>1. 1 .. h \subseteq 1 .. n
      BY <1>2
    <2>2. \A i \in 1 .. h : stack[i] \in Words
      BY <1>1, <2>1
    <2>3. /\ SubSeq(stack, 1, h) \in Seq(Words)
          /\ Len(SubSeq(stack, 1, h)) = h
          /\ \A i \in 1 .. h : SubSeq(stack, 1, h)[i] = stack[1 + i - 1]
      BY <2>2, SubSeqProperties
    <2> QED
      BY <1>5, <2>3
  <1>7. /\ origin' \in Seq(Origins) /\ Depth' = d - 1
        /\ \A k \in 1 .. d - 1 : origin'[k] = origin[k]
    <2>1. origin' = SubSeq(origin, 1, d - 1)
      BY <1>5 DEF Front, Depth
    <2>2. \A k \in 1 .. d - 1 : origin[k] \in Origins
      BY <1>1 DEF Depth
    <2>3. /\ SubSeq(origin, 1, d - 1) \in Seq(Origins)
          /\ Len(SubSeq(origin, 1, d - 1)) = d - 1
          /\ \A k \in 1 .. d - 1 : SubSeq(origin, 1, d - 1)[k] = origin[1 + k - 1]
      BY <1>1, <2>2, SubSeqProperties
    <2> QED
      BY <2>1, <2>3 DEF Depth
  <1> QED
    BY <1>1, <1>2, <1>5, <1>6, <1>7, Zenon

LEMMA IretqFrames ==
  ASSUME IInv, Iretq
  PROVE  /\ Framed' /\ Rising' /\ PlaceOf(0)' = PlaceOf(0)
         /\ Depth' > 0 => place'.at # "reset"
  <1> PICK d \in Nat : d = Depth
    BY Typed
  <1> PICK o : o = origin[d]
    OBVIOUS
  <1>1. /\ d > 0 /\ place' = o.place /\ regs' = o.regs
        /\ stack' \in Seq(Words) /\ Len(stack') = o.height
        /\ \A i \in 1 .. o.height : stack'[i] = stack[i]
        /\ Depth' = d - 1
        /\ \A k \in 1 .. d - 1 : origin'[k] = origin[k]
    BY IretqResumes, Zenon
  <1>2. \A k \in 1 .. d : origin[k].height \in Nat
    BY Typed
  <1>3. \A k \in 0 .. d - 1 :
          PlaceOf(k)' = PlaceOf(k) /\ RegsOf(k)' = RegsOf(k) /\ HeightOf(k)' = HeightOf(k)
    <2> SUFFICES ASSUME NEW k \in 0 .. d - 1
        PROVE  PlaceOf(k)' = PlaceOf(k) /\ RegsOf(k)' = RegsOf(k)
                 /\ HeightOf(k)' = HeightOf(k)
      OBVIOUS
    <2>1. k # d
      OBVIOUS
    <2>2. CASE k = d - 1
      <3>1. k + 1 = d
        BY <2>2
      <3> QED
        BY <1>1, <2>1, <2>2, <3>1, Zenon DEF PlaceOf, RegsOf, HeightOf
    <2>3. CASE k # d - 1
      <3>1. k + 1 \in 1 .. d - 1
        BY <2>3
      <3> QED
        BY <1>1, <2>1, <2>3, <3>1, Zenon DEF PlaceOf, RegsOf, HeightOf
    <2> QED
      BY <2>2, <2>3
  <1>4. \A k \in 0 .. d - 1 : HeightOf(k) \in Nat /\ HeightOf(k) <= o.height
    BY <1>1, FrameAbove
  <1>5. ASSUME NEW k \in 1 .. d - 1
        PROVE  Serves(origin'[k], PlaceOf(k)', RegsOf(k)', HeightOf(k)', stack')
    <2>1. k \in 1 .. d /\ k \in 0 .. d - 1
      OBVIOUS
    <2>2. Serves(origin[k], PlaceOf(k), RegsOf(k), HeightOf(k), stack)
      BY <2>1 DEF IInv, Framed
    <2>3. \A i \in 1 .. HeightOf(k) : stack'[i] = stack[i]
      <3>1. o.height \in Nat
        BY <1>1, <1>2
      <3> QED
        BY <1>1, <1>4, <2>1, <3>1
    <2>4. Serves(origin[k], PlaceOf(k), RegsOf(k), HeightOf(k), stack')
      BY <1>2, <2>1, <2>2, <2>3, ServesPrefix
    <2> QED
      BY <1>1, <1>3, <2>1, <2>4
  <1>6. Framed'
    BY <1>1, <1>5 DEF Framed
  <1>7. Rising'
    <2>1. \A k, l \in 0 .. d - 1 : k <= l => HeightOf(k)' <= HeightOf(l)'
      BY <1>3 DEF IInv, Rising
    <2> QED
      BY <1>1, <2>1 DEF Rising
  <1>8. PlaceOf(0)' = PlaceOf(0)
    BY <1>1, <1>3
  <1>9. Depth' > 0 => place'.at # "reset"
    <2> SUFFICES ASSUME d - 1 > 0
                 PROVE  place'.at # "reset"
      BY <1>1
    <2>1. d - 1 \in 1 .. d - 1
      OBVIOUS
    <2>2. PlaceOf(d - 1)' = place'
      BY <1>1 DEF PlaceOf
    <2>3. Serves(origin'[d - 1], place', RegsOf(d - 1)', HeightOf(d - 1)', stack')
      BY <1>5, <2>1, <2>2
    <2> QED
      BY <2>3, ServingPlaces, Zenon
  <1> QED
    BY <1>6, <1>7, <1>8, <1>9

LEMMA IretqStep ==
  ASSUME IInv, Iretq
  PROVE  IInv'
  <1> PICK d \in Nat : d = Depth
    BY Typed
  <1>1. /\ TypeOK /\ Booting /\ Masked /\ Bounded /\ DevicesNeverNest
        /\ origin \in Seq(Origins) /\ \A k \in 1 .. d : origin[k] \in Origins
    BY Typed DEF IInv
  <1>2. /\ d > 0 /\ place' = origin[d].place /\ regs' = origin[d].regs
        /\ interruptsOn' = origin[d].on
        /\ origin' \in Seq(Origins) /\ Depth' = d - 1
        /\ \A k \in 1 .. d - 1 : origin'[k] = origin[k]
        /\ idtLoaded' = idtLoaded /\ raised' = raised
    BY IretqResumes, Zenon
  <1>3. /\ Framed' /\ Rising' /\ PlaceOf(0)' = PlaceOf(0)
        /\ Depth' > 0 => place'.at # "reset"
    BY IretqFrames
  <1>4. d \in 1 .. d /\ origin[d] \in Origins
    BY <1>1, <1>2
  <1>5. origin' # <<>> => d \in 2 .. d
    BY <1>2 DEF Depth
  <1>6. Bounded'
    BY <1>1, <1>2, BoundsAssumption DEF Bounded
  <1>7. Booting'
    <2>1. origin # <<>>
      BY <1>2 DEF Depth
    <2>2. origin' # <<>> => place'.at # "reset"
      BY <1>2, <1>3, <1>5
    <2> QED
      BY <1>1, <1>2, <1>3, <2>1, <2>2, Zenon DEF Booting, Here
  <1>8. Masked'
    <2>1. \A k \in 2 .. d : ~origin[k].on
      BY <1>1, Zenon DEF Masked
    <2>2. origin' # <<>> => ~interruptsOn'
      BY <1>2, <1>5, <2>1, Zenon
    <2>3. ASSUME NEW k \in 2 .. d - 1
          PROVE  ~origin'[k].on
      <3>1. k \in 2 .. d /\ k \in 1 .. d - 1
        OBVIOUS
      <3> QED
        BY <1>2, <2>1, <3>1, Zenon
    <2> QED
      BY <1>2, <2>2, <2>3, Zenon DEF Masked
  <1>9. DevicesNeverNest'
    <2>1. DOMAIN origin = 1 .. d /\ DOMAIN origin' = 1 .. d - 1
      BY <1>1, <1>2 DEF Depth
    <2>2. ASSUME NEW k \in 1 .. d - 1, origin'[k].vector \in Devices
          PROVE  k = 1
      <3>1. k \in 1 .. d
        OBVIOUS
      <3> QED
        BY <1>1, <1>2, <2>1, <2>2, <3>1, Zenon DEF DevicesNeverNest
    <2> QED
      BY <2>1, <2>2, Zenon DEF DevicesNeverNest
  <1>10. TypeOK'
    <2>1. /\ place' \in Places /\ regs' \in 0 .. MaxDepth + 1
          /\ interruptsOn' \in BOOLEAN
      BY <1>2, <1>4, Zenon DEF Origins
    <2>2. Len(origin') <= MaxDepth + 1
      BY <1>2, <1>6, BoundsAssumption DEF Bounded, Depth
    <2> QED
      BY <1>1, <1>2, <1>3, <2>1, <2>2, FramesTyped, Zenon DEF TypeOK, Origins, Names
  <1> QED
    BY <1>3, <1>6, <1>7, <1>8, <1>9, <1>10, Zenon DEF IInv

LEMMA BootStepStep ==
  ASSUME IInv, BootStep
  PROVE  IInv'
  <1>1. /\ TypeOK /\ Booting /\ Masked /\ Bounded /\ DevicesNeverNest
        /\ stack \in Seq(Words) /\ Len(stack) \in Nat
    BY Typed DEF IInv
  <1>2. PICK i \in 1 .. Len(BootSteps) - 1 :
          /\ Here(BootSteps[i]) /\ place' = At(BootSteps[i + 1])
          /\ idtLoaded' = (idtLoaded \/ Here("idtStart"))
          /\ interruptsOn' = ((interruptsOn \/ Here("sti")) /\ ~Here("hcf"))
          /\ UNCHANGED <<regs, stack, origin, raised>>
    BY Zenon DEF BootStep
  <1>3. BootSteps[i] \in Range(BootSteps) /\ BootSteps[i + 1] \in Range(BootSteps)
    <2>1. i \in DOMAIN BootSteps /\ i + 1 \in DOMAIN BootSteps
      BY DEF BootSteps
    <2> QED
      BY <2>1, Zenon DEF Range
  <1>4. Depth = 0 /\ origin = <<>>
    <2>1. Depth = 0
      BY <1>2, <1>3, InnermostFrame, Zenon DEF Here
    <2> QED
      BY <2>1, Typed DEF Depth
  <1>5. place' \in Places /\ place'.at \in Range(BootSteps)
    BY <1>2, <1>3, PlaceNames, Zenon
  <1>6. Depth' = 0 /\ origin' = <<>> /\ stack' = stack
    BY <1>2, <1>4 DEF Depth
  <1>7. Framed' /\ Rising'
    <2>1. HeightOf(0)' = Len(stack)
      BY <1>6 DEF HeightOf
    <2> QED
      BY <1>1, <1>6, <2>1 DEF Framed, Rising
  <1>8. Booting'
    <2>1. PlaceOf(0)' = place'
      BY <1>6 DEF PlaceOf
    <2> QED
      BY <1>5, <1>6, <2>1, Zenon DEF Booting
  <1>9. Masked' /\ Bounded' /\ DevicesNeverNest'
    BY <1>6 DEF Masked, Bounded, DevicesNeverNest
  <1>10. TypeOK'
    <2>1. interruptsOn' \in BOOLEAN /\ idtLoaded' \in BOOLEAN
      BY <1>1, <1>2, Zenon DEF TypeOK
    <2> QED
      BY <1>1, <1>2, <1>5, <2>1, Zenon DEF TypeOK
  <1> QED
    BY <1>7, <1>8, <1>9, <1>10, Zenon DEF IInv

LEMMA InitInvariant == Init => IInv
  <1> SUFFICES ASSUME Init PROVE IInv
    OBVIOUS
  <1>1. /\ place = At(BootSteps[1]) /\ regs = 0 /\ interruptsOn = FALSE
        /\ idtLoaded = FALSE /\ stack = <<>> /\ origin = <<>> /\ raised = 0
    BY DEF Init
  <1>2. Depth = 0 /\ HeightOf(0) = 0
    BY <1>1 DEF Depth, HeightOf
  <1>3. BootSteps[1] \in Range(BootSteps)
    <2>1. 1 \in DOMAIN BootSteps
      BY DEF BootSteps
    <2> QED
      BY <2>1, Zenon DEF Range
  <1>4. place \in Places /\ place.at \in Range(BootSteps)
    BY <1>1, <1>3, PlaceNames, Zenon
  <1>5. Framed /\ Rising
    BY <1>1, <1>2 DEF Framed, Rising
  <1>6. Booting
    BY <1>1, <1>2, <1>4 DEF Booting, PlaceOf
  <1>7. Masked /\ Bounded /\ DevicesNeverNest
    BY <1>1, <1>2 DEF Masked, Bounded, DevicesNeverNest
  <1>8. TypeOK
    <2>1. 0 \in 0 .. MaxDepth + 1 /\ Len(origin) <= MaxDepth + 1 /\ 0 \in 0 .. MaxRaised
      BY <1>1, BoundsAssumption
    <2>2. origin \in Seq(Origins) /\ DOMAIN stack = {}
      BY <1>1
    <2>3. interruptsOn \in BOOLEAN /\ idtLoaded \in BOOLEAN
      BY <1>1, Zenon
    <2> QED
      BY <1>1, <1>4, <2>1, <2>2, <2>3, Zenon DEF TypeOK, Origins
  <1> QED
    BY <1>5, <1>6, <1>7, <1>8 DEF IInv

-----------------------------------------------------------------------------
LEMMA StepInvariant ==
  ASSUME IInv, StubsAgree, [Next]_vars
  PROVE  IInv'
  <1>1. CASE BootStep
    BY <1>1, BootStepStep
  <1>2. ASSUME NEW v, Raise(v) \/ Interrupt(v)
        PROVE  IInv'
    BY <1>2, RaiseStep
  <1>3. CASE Stub
    BY <1>3, StubStep
  <1>4. CASE SaveRegisters
    BY <1>4, SaveRegistersStep
  <1>5. CASE HandlerPrint \/ HandlerSwitch
    BY <1>5, HandlerStep
  <1>6. CASE HandleIrq
    BY <1>6, HandleIrqStep
  <1>7. CASE Restore
    BY <1>7, RestoreStep
  <1>8. CASE Iretq
    BY <1>8, IretqStep
  <1>9. CASE UNCHANGED vars
    <2>1. UNCHANGED <<place, regs, interruptsOn, idtLoaded, stack, origin, raised>>
      BY <1>9 DEF vars
    <2>2. Framed'
      BY <2>1, Zenon DEF IInv, Framed, Depth, PlaceOf, RegsOf, HeightOf
    <2>3. Rising'
      BY <2>1, Zenon DEF IInv, Rising, Depth, HeightOf
    <2>5. Booting'
      BY <2>1, Zenon DEF IInv, Booting, Here, Depth, PlaceOf
    <2>4. TypeOK' /\ Masked' /\ Bounded' /\ DevicesNeverNest'
      BY <2>1, Zenon DEF IInv, TypeOK, Masked, Bounded, DevicesNeverNest, Depth
    <2> QED
      BY <2>2, <2>3, <2>4, <2>5, Zenon DEF IInv
  <1> QED
    BY <1>1, <1>2, <1>3, <1>4, <1>5, <1>6, <1>7, <1>8, <1>9, Zenon DEF Next

\* The frames of all interruptions lie on the stack as they were pushed.
THEOREM Invariance ==
  ASSUME StubsAgree
  PROVE  Spec => []IInv
  <1>1. IInv /\ [Next]_vars => IInv'
    BY StepInvariant
  <1> QED
    BY <1>1, InitInvariant, PTL DEF Spec

\* Every variable of the boot and interrupt model keeps its type.
THEOREM TypeCorrect ==
  ASSUME StubsAgree
  PROVE  Spec => []TypeOK
  <1>1. IInv => TypeOK
    BY DEF IInv
  <1> QED
    BY <1>1, Invariance, PTL

\* The struct isrHandler is given describes the interruption it serves, for
\* every set of vectors whose stubs agree with the processor and every depth.
THEOREM HandlerCorrect ==
  ASSUME StubsAgree
  PROVE  Spec => []HandlerSeesFrame
  <1>1. IInv => HandlerSeesFrame
    <2> SUFFICES ASSUME IInv, place.at \in {"printf", "switch", "handleIrq", "pops"}
                 PROVE  LET o == Last(origin)
                        IN  /\ Frame.int_no = o.vector
                            /\ Frame.err_code = IF o.vector \in PushesError THEN "error"
                                                ELSE "zero"
                            /\ Frame.rip = o.place /\ Frame.rflags = o.on
                            /\ Frame.rsp = o.height
                            /\ Below(0) = o.regs
      BY Zenon DEF HandlerSeesFrame
    <2>1. place.at \in InHandler
      BY DEF InHandler
    <2>2. Depth > 0
      BY <2>1, InnermostFrame
    <2>3. Last(origin) = origin[Depth]
      BY <2>2, Innermost
    <2> QED
      BY <2>1, <2>3, FrameRead, Zenon DEF ErrorWord
  <1> QED
    BY <1>1, Invariance, PTL

\* A device interrupt never comes while any handler runs.
THEOREM DevicesCorrect ==
  ASSUME StubsAgree
  PROVE  Spec => []DevicesNeverNest
  <1>1. IInv => DevicesNeverNest
    BY DEF IInv
  <1> QED
    BY <1>1, Invariance, PTL

\* No step but iretq makes the list of interruptions shorter.
LEMMA OnlyIretqEnds ==
  ASSUME IInv, Next, ~Iretq
  PROVE  /\ Len(origin) <= Len(origin')
         /\ \A k \in DOMAIN origin : k \in DOMAIN origin' /\ origin'[k] = origin[k]
  <1>1. origin \in Seq(Origins)
    BY Typed
  <1>2. CASE origin' = origin
    BY <1>1, <1>2
  <1>3. ASSUME NEW v, Enter(v), origin' # origin
        PROVE  \E o : origin' = Append(origin, o)
    BY <1>3, Zenon DEF Enter
  <1>4. ASSUME NEW o, origin' = Append(origin, o)
        PROVE  /\ Len(origin) <= Len(origin')
               /\ \A k \in DOMAIN origin : k \in DOMAIN origin' /\ origin'[k] = origin[k]
    BY <1>1, <1>4
  <1>5. origin' = origin \/ \E v : Enter(v)
    BY Zenon DEF Next, BootStep, Raise, Interrupt, Stub, SaveRegisters, HandlerPrint,
                 HandlerSwitch, HandleIrq, Restore, Goto
  <1> QED
    BY <1>2, <1>3, <1>4, <1>5, Zenon

\* iretq resumes the place, the registers, the flag and the stack of what was
\* interrupted, at every depth.
THEOREM ResumeCorrect ==
  ASSUME StubsAgree
  PROVE  Spec => ResumesExactly
  <1>1. ASSUME IInv, [Next]_vars, Len(origin') < Len(origin)
        PROVE  LET o == Last(origin)
               IN  /\ place' = o.place /\ regs' = o.regs
                   /\ interruptsOn' = o.on /\ Len(stack') = o.height
    <2>1. Iretq
      <3>1. Len(origin) \in Nat
        BY Typed DEF Depth
      <3>2. origin' # origin
        BY <1>1, <3>1
      <3>3. Next
        BY <1>1, <3>2 DEF vars
      <3>4. CASE ~Iretq
        <4>1. Len(origin) <= Len(origin')
          BY <1>1, <3>3, <3>4, OnlyIretqEnds
        <4>2. Len(origin') \in Nat
          <5>1. CASE origin' = origin
            BY <3>2, <5>1
          <5> QED
            BY <1>1, StepInvariant, Typed, <3>1, <4>1
        <4> QED
          BY <1>1, <3>1, <4>1, <4>2
      <3> QED
        BY <3>4
    <2>2. /\ Depth > 0
          /\ place' = origin[Depth].place /\ regs' = origin[Depth].regs
          /\ interruptsOn' = origin[Depth].on /\ Len(stack') = origin[Depth].height
      BY <1>1, <2>1, IretqResumes, Zenon
    <2>3. Last(origin) = origin[Depth]
      BY <1>1, <2>2, Innermost
    <2> QED
      BY <2>2, <2>3, Zenon
  <1>2. IInv /\ [Next]_vars =>
          [ Len(origin') < Len(origin) =>
              LET o == Last(origin)
              IN  /\ place' = o.place /\ regs' = o.regs
                  /\ interruptsOn' = o.on /\ Len(stack') = o.height ]_vars
    BY <1>1, Zenon
  <1> QED
    BY <1>2, Invariance, PTL DEF Spec, ResumesExactly

\* What a page fault or a device interrupted never runs again.
THEOREM FatalCorrect ==
  ASSUME StubsAgree
  PROVE  Spec => NeverBackFromFatal
  <1>1. ASSUME IInv, [Next]_vars
        PROVE  [ \A k \in DOMAIN origin :
                   origin[k].vector \in {14, 32, 33} =>
                     k \in DOMAIN origin' /\ origin'[k] = origin[k] ]_vars
    <2>1. CASE UNCHANGED vars
      BY <2>1, Zenon
    <2>2. CASE Next /\ ~Iretq
      BY <1>1, <2>2, OnlyIretqEnds, Zenon
    <2>3. CASE Iretq
      <3>1. /\ Depth \in Nat /\ DOMAIN origin = 1 .. Depth
        BY <1>1, Typed DEF Depth
      <3>2. /\ origin[Depth].vector \notin {14, 32, 33}
            /\ origin' \in Seq(Origins) /\ Depth' = Depth - 1
            /\ \A k \in 1 .. Depth - 1 : origin'[k] = origin[k]
        BY <1>1, <2>3, IretqResumes, Zenon
      <3>3. DOMAIN origin' = 1 .. Depth - 1
        BY <3>2 DEF Depth
      <3>4. ASSUME NEW k \in DOMAIN origin, origin[k].vector \in {14, 32, 33}
            PROVE  k \in DOMAIN origin' /\ origin'[k] = origin[k]
        <4>1. k # Depth
          BY <3>2, <3>4, Zenon
        <4>2. k \in 1 .. Depth - 1
          BY <3>1, <3>4, <4>1
        <4> QED
          BY <3>2, <3>3, <4>2, Zenon
      <3> QED
        BY <3>4, Zenon
    <2> QED
      BY <1>1, <2>1, <2>2, <2>3, Zenon
  <1>2. IInv /\ [Next]_vars =>
          [ \A k \in DOMAIN origin :
              origin[k].vector \in {14, 32, 33} =>
                k \in DOMAIN origin' /\ origin'[k] = origin[k] ]_vars
    BY <1>1, Zenon
  <1> QED
    BY <1>2, Invariance, PTL DEF Spec, NeverBackFromFatal
==============================================================================
