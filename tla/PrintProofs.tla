------------------------------ MODULE PrintProofs ------------------------------
(***************************************************************************)
(* Machine-checked proofs about print (Console) and printf (Printf).       *)
(*                                                                         *)
(* Console, for every size of screen, every message and any number of      *)
(* exceptions: that the queue is sound wherever exceptions come but inside *)
(* push_to_queue or a running flush (QueueStaysSound), and that the screen *)
(* shows what was printed when _start comes to rest (PaperCorrect).        *)
(*                                                                         *)
(* Printf, for every format, every argument and every width of int and     *)
(* uintptr_t that the buffers are long enough for: that no figure is       *)
(* written outside a buffer (BuffersSuffice), and that what is printed is  *)
(* what the format and the arguments mean (OutputCorrect).                 *)
(***************************************************************************)
EXTENDS Console, Printf, SequenceTheorems, FiniteSetTheorems,
        WellFoundedInduction, TLAPS

(* Console.                                                                  *)

\* What the terminal is given.  The literals are strings, which no installed
\* prover knows.
Chars == STRING \cup {Space, "p", "e", "LF"}

\* Operations that another activity may come between without harm, and those
\* in which it may not: a slot is taken, or part of a flush is done.
CalmOps ==
  [op : {"print"}, text : Seq(Chars)] \cup [op : {"type"}, c : Chars]
    \cup [op : {"put"}, ch : Chars, to : CellIds]
    \cup [op : {"copy"}, from : CellIds, to : CellIds]
    \cup [op : {"cursor"}, x : Nat, y : 0 .. Rows - 1]
    \cup [op : {"turn"}, k : {1}]
    \cup [op : {"idtStart", "switch", "paint", "hlt"}]
MidOps ==
  [op : {"take"}, slot : Nat, to : CellIds, ch : Chars]
    \cup [op : {"turn"}, k : Nat \ {0, 1}]
Ops == CalmOps \cup MidOps

Midway(o) == o.op = "take" \/ (o.op = "turn" /\ o.k # 1)

Frame == [vector : Int, todo : Seq(Ops)]

Types ==
  /\ frames \in Seq(Frame)
  /\ grid \in [CellIds -> Chars]
  /\ slots \in [1 .. Size -> [cell : CellIds, ch : Chars]]
  /\ queueI \in 0 .. Size
  /\ map \in [CellIds -> 0 .. Size]
  /\ cursor \in [x : Nat, y : 0 .. Rows - 1]

\* Nobody but the innermost activity is inside a push or a flush, and it is at
\* its first operation.
OneInside ==
  \A n \in 1 .. Len(frames) : \A j \in 1 .. Len(frames[n].todo) :
    Midway(frames[n].todo[j]) => n = Len(frames) /\ j = 1

\* The slots lo .. hi wait for their cells, and nothing else does.
Waiting(lo, hi) ==
  /\ \A k \in lo .. hi : map[slots[k].cell] = k
  /\ \A i \in CellIds : map[i] # 0 => map[i] \in lo .. hi /\ slots[map[i]].cell = i

\* The slots that wait, by what the innermost activity is doing.
Queue ==
  /\ Runs("take") => /\ Now.slot = queueI /\ queueI > 0 /\ map[Now.to] = 0
                     /\ Waiting(1, queueI - 1)
  /\ Runs("turn") => Now.k \in 1 .. queueI + 1 /\ Waiting(Now.k, queueI)
  /\ Running /\ ~Runs("take") /\ ~Runs("turn") => Waiting(1, queueI)

Mapped ==
  \A i \in CellIds : map[i] # 0 => map[i] <= queueI /\ slots[map[i]].cell = i

Sound == Types /\ OneInside /\ Queue /\ Mapped /\ ended # "overrun"

\* The inductive invariant: it is lost only where QueueSound says nothing.
IInv == Harmless({"push", "flush"}) => Sound

\* The innermost activity is not inside a push or a flush.
CalmTop == ~Runs("take") /\ (Runs("turn") => Now.k = 1)

-----------------------------------------------------------------------------
(* Cells and operations.                                                    *)

LEMMA Area == Size \in Nat \ {0}
  BY SizeAssumption DEF Size

\* A place on the screen is a cell.
LEMMA CellInRange ==
  ASSUME NEW x \in Nat, NEW y \in Nat, x < Cols, y < Rows
  PROVE  CellAt(x, y) \in CellIds
  <1>1. y * Cols =< (Rows - 1) * Cols /\ y * Cols \in Nat
    BY SizeAssumption
  <1>2. (Rows - 1) * Cols = Rows * Cols - Cols
    BY SizeAssumption
  <1> QED
    BY <1>1, <1>2, Area, SizeAssumption DEF CellAt, CellIds, Size

\* What an operation carries, by its name.
LEMMA OpFields ==
  ASSUME NEW o \in Ops
  PROVE  /\ o.op = "print" => o.text \in Seq(Chars)
         /\ o.op = "type" => o.c \in Chars
         /\ o.op = "put" => o.ch \in Chars /\ o.to \in CellIds
         /\ o.op = "copy" => o.from \in CellIds /\ o.to \in CellIds
         /\ o.op = "cursor" => o.x \in Nat /\ o.y \in 0 .. Rows - 1
         /\ o.op = "turn" => o.k \in Nat \ {0}
         /\ o.op = "take" => o.slot \in Nat /\ o.to \in CellIds /\ o.ch \in Chars
  BY DEF Ops, CalmOps, MidOps

\* The two kinds of operations are disjoint.
LEMMA CalmOrMidway ==
  ASSUME NEW o \in Ops
  PROVE  (o \in CalmOps => ~Midway(o)) /\ (o \in MidOps => Midway(o))
  BY DEF Ops, CalmOps, MidOps, Midway

\* The operations the actions are made of are calm, ...
LEMMA CalmOpsOf ==
  /\ \A text \in Seq(Chars) : Write(text) \in CalmOps
  /\ \A c \in Chars : Type(c) \in CalmOps
  /\ \A ch \in Chars, i \in CellIds : Put(ch, i) \in CalmOps
  /\ \A i \in CellIds, j \in CellIds : Copy(j, i) \in CalmOps
  /\ \A x \in Nat, y \in 0 .. Rows - 1 : Cursor(x, y) \in CalmOps
  /\ Turn(1) \in CalmOps
  /\ \A name \in {"idtStart", "switch", "paint", "hlt"} : Do(name) \in CalmOps
  BY DEF CalmOps, Write, Type, Put, Copy, Cursor, Turn, Do

\* ... but for these two.
LEMMA MidOpsOf ==
  /\ \A k \in Nat, i \in CellIds, ch \in Chars : Take(k, i, ch) \in MidOps
  /\ \A k \in Nat \ {0, 1} : Turn(k) \in MidOps
  BY DEF MidOps, Take, Turn

\* A sequence of calm operations.
LEMMA CalmSeq ==
  ASSUME NEW s \in Seq(CalmOps)
  PROVE  s \in Seq(Ops) /\ \A j \in 1 .. Len(s) : ~Midway(s[j])
  <1>1. \A j \in 1 .. Len(s) : s[j] \in CalmOps /\ s[j] \in Ops
    BY DEF Ops
  <1>2. s \in Seq(Ops)
    BY <1>1
  <1> QED
    BY <1>1, <1>2, CalmOrMidway

-----------------------------------------------------------------------------
(* A step of the innermost activity.                                        *)

LEMMA TopTyped ==
  ASSUME Types, Running
  PROVE  /\ Len(frames) \in Nat \ {0} /\ Top = frames[Len(frames)]
         /\ Top \in Frame /\ Top.todo \in Seq(Ops) /\ Top.vector \in Int
  <1>1. frames \in Seq(Frame) /\ frames # <<>>
    BY DEF Types, Running
  <1>2. Len(frames) \in Nat \ {0} /\ frames[Len(frames)] \in Frame
    BY <1>1
  <1> QED
    BY <1>2 DEF Top, Last, Frame

LEMMA NowTyped ==
  ASSUME Types, Running, Top.todo # <<>>
  PROVE  /\ Len(Top.todo) \in Nat \ {0} /\ Now = Top.todo[1] /\ Now \in Ops
         /\ Tail(Top.todo) \in Seq(Ops) /\ Len(Tail(Top.todo)) = Len(Top.todo) - 1
         /\ \A j \in 1 .. Len(Top.todo) - 1 : Tail(Top.todo)[j] = Top.todo[j + 1]
  <1>1. Top.todo \in Seq(Ops)
    BY TopTyped
  <1> DEFINE s == Top.todo
  <1>2. s \in Seq(Ops) /\ s # <<>>
    BY <1>1
  <1> HIDE DEF s
  <1>3. /\ Len(s) \in Nat \ {0} /\ Head(s) = s[1] /\ s[1] \in Ops
        /\ Tail(s) \in Seq(Ops) /\ Len(Tail(s)) = Len(s) - 1
        /\ \A j \in 1 .. Len(s) - 1 : Tail(s)[j] = s[j + 1]
    BY <1>2
  <1> QED
    BY <1>3 DEF s, Now

\* What Becomes does to the activities.
Replaced(ops) ==
  /\ frames' \in Seq(Frame) /\ Len(frames') = Len(frames)
  /\ \A n \in 1 .. Len(frames) - 1 : frames'[n] = frames[n]
  /\ frames'[Len(frames)].todo = ops \o Tail(Top.todo)

LEMMA BecomesReplaces ==
  ASSUME Types, Running, Top.todo # <<>>, NEW ops \in Seq(Ops), Becomes(ops)
  PROVE  Replaced(ops)
  <1> DEFINE len == Len(frames)
             rest == ops \o Tail(frames[len].todo)
             top == [frames[len] EXCEPT !.todo = rest]
  <1>1. len \in Nat \ {0} /\ frames[len] \in Frame /\ frames \in Seq(Frame)
    BY TopTyped DEF Types
  <1>2. Top = frames[len] /\ Tail(frames[len].todo) \in Seq(Ops)
    BY TopTyped, NowTyped
  <1>3. rest \in Seq(Ops)
    BY <1>2
  <1>4. top \in Frame /\ top.todo = rest
    BY <1>1, <1>3 DEF Frame
  <1>5. frames' = [frames EXCEPT ![len] = top]
    BY DEF Becomes
  <1> HIDE DEF top, rest
  <1>6. /\ frames' \in Seq(Frame) /\ Len(frames') = len
        /\ \A n \in 1 .. len - 1 : frames'[n] = frames[n]
        /\ frames'[len] = top
    BY <1>1, <1>4, <1>5
  <1> QED
    BY <1>2, <1>4, <1>6 DEF rest, Replaced

\* Below the innermost activity's operation everything is calm.
LEMMA RestCalm ==
  ASSUME Types, OneInside, Running, Top.todo # <<>>
  PROVE  /\ \A n \in 1 .. Len(frames) - 1 : \A j \in 1 .. Len(frames[n].todo) :
              ~Midway(frames[n].todo[j])
         /\ \A j \in 1 .. Len(Tail(Top.todo)) : ~Midway(Tail(Top.todo)[j])
  <1>1. \A n \in 1 .. Len(frames) - 1 : \A j \in 1 .. Len(frames[n].todo) :
          ~Midway(frames[n].todo[j])
    BY TopTyped DEF OneInside
  <1>2. ASSUME NEW j \in 1 .. Len(Tail(Top.todo))
        PROVE  ~Midway(Tail(Top.todo)[j])
    <2>1. Tail(Top.todo)[j] = Top.todo[j + 1] /\ j + 1 \in 1 .. Len(Top.todo)
          /\ j + 1 # 1
      BY NowTyped
    <2> QED
      BY <2>1, TopTyped DEF OneInside
  <1> QED
    BY <1>1, <1>2

\* When an operation is replaced by calm ones, nobody is inside a push or flush.
LEMMA BecomesCalm ==
  ASSUME Types, OneInside, Running, Top.todo # <<>>,
         NEW ops \in Seq(CalmOps), Becomes(ops)
  PROVE  frames' \in Seq(Frame) /\ Running' /\ OneInside' /\ CalmTop'
  <1> DEFINE len == Len(frames)
             rest == Tail(Top.todo)
  <1>1. ops \in Seq(Ops) /\ \A j \in 1 .. Len(ops) : ~Midway(ops[j])
    BY CalmSeq
  <1>2. Replaced(ops)
    BY <1>1, BecomesReplaces
  <1>3. len \in Nat \ {0} /\ rest \in Seq(Ops)
    BY TopTyped, NowTyped
  <1>4. /\ \A n \in 1 .. len - 1 : \A j \in 1 .. Len(frames[n].todo) :
             ~Midway(frames[n].todo[j])
        /\ \A j \in 1 .. Len(rest) : ~Midway(rest[j])
    BY RestCalm
  <1> HIDE DEF rest
  <1>5. \A j \in 1 .. Len(ops \o rest) : ~Midway((ops \o rest)[j])
    <2>1. TAKE j \in 1 .. Len(ops \o rest)
    <2>2. CASE j =< Len(ops)
      <3>1. (ops \o rest)[j] = ops[j] /\ j \in 1 .. Len(ops)
        BY <1>1, <1>3, <2>2
      <3> QED
        BY <1>1, <3>1
    <2>3. CASE j > Len(ops)
      <3>1. (ops \o rest)[j] = rest[j - Len(ops)] /\ j - Len(ops) \in 1 .. Len(rest)
        BY <1>1, <1>3, <2>3
      <3> QED
        BY <1>4, <3>1
    <2> QED
      BY <1>1, <2>2, <2>3
  <1>6. frames' \in Seq(Frame) /\ Len(frames') = len
        /\ frames'[len].todo = ops \o rest
    BY <1>2 DEF Replaced, rest
  <1>7. \A n \in 1 .. Len(frames') : \A j \in 1 .. Len(frames'[n].todo) :
          ~Midway(frames'[n].todo[j])
    <2>1. TAKE n \in 1 .. Len(frames')
    <2>2. CASE n = len
      BY <1>5, <1>6, <2>2
    <2>3. CASE n # len
      <3>1. n \in 1 .. len - 1
        BY <1>3, <1>6, <2>3
      <3> QED
        BY <1>2, <1>4, <3>1 DEF Replaced
    <2> QED
      BY <2>2, <2>3
  <1>8. Running' /\ OneInside'
    BY <1>3, <1>6, <1>7 DEF Running, OneInside
  <1>9. CalmTop'
    <2>1. Top' = frames'[len] /\ Top.todo' = ops \o rest
      BY <1>6 DEF Top, Last
    <2>2. SUFFICES ASSUME ops \o rest # <<>>
                   PROVE  ~Midway((ops \o rest)[1]) /\ Now' = (ops \o rest)[1]
      BY <2>1 DEF CalmTop, Runs, Midway
    <2>3. ops \o rest \in Seq(Ops)
      BY <1>1, <1>3
    <2>4. Len(ops \o rest) \in Nat \ {0} /\ Head(ops \o rest) = (ops \o rest)[1]
      BY <2>2, <2>3
    <2> QED
      BY <1>5, <2>1, <2>4 DEF Now
  <1> QED
    BY <1>6, <1>8, <1>9

\* When it is replaced by one inside a push or a flush, that one runs next.
LEMMA BecomesMid ==
  ASSUME Types, OneInside, Running, Top.todo # <<>>,
         NEW m \in MidOps, Becomes(<< m >>)
  PROVE  /\ frames' \in Seq(Frame) /\ Running' /\ OneInside'
         /\ Top.todo' # <<>> /\ Now' = m
  <1> DEFINE len == Len(frames)
             rest == Tail(Top.todo)
             todo == << m >> \o rest
  <1>1. m \in Ops /\ << m >> \in Seq(Ops)
    BY DEF Ops
  <1>2. Replaced(<< m >>)
    BY <1>1, BecomesReplaces
  <1>3. len \in Nat \ {0} /\ rest \in Seq(Ops)
    BY TopTyped, NowTyped
  <1>4. /\ \A n \in 1 .. len - 1 : \A j \in 1 .. Len(frames[n].todo) :
             ~Midway(frames[n].todo[j])
        /\ \A j \in 1 .. Len(rest) : ~Midway(rest[j])
    BY RestCalm
  <1> HIDE DEF rest
  <1>5. /\ todo \in Seq(Ops) /\ Len(todo) = Len(rest) + 1 /\ todo[1] = m
        /\ \A j \in 2 .. Len(todo) : todo[j] = rest[j - 1]
        /\ todo # <<>> /\ Head(todo) = m
    BY <1>1, <1>3
  <1>6. \A j \in 2 .. Len(todo) : ~Midway(todo[j])
    <2>1. TAKE j \in 2 .. Len(todo)
    <2>2. j - 1 \in 1 .. Len(rest)
      BY <1>3, <1>5
    <2> QED
      BY <1>4, <1>5, <2>2
  <1>7. frames' \in Seq(Frame) /\ Len(frames') = len /\ frames'[len].todo = todo
        /\ \A n \in 1 .. len - 1 : frames'[n] = frames[n]
    BY <1>2 DEF Replaced, rest
  <1> HIDE DEF todo
  <1>8. OneInside'
    <2>1. ASSUME NEW n \in 1 .. Len(frames'), NEW j \in 1 .. Len(frames'[n].todo),
                 Midway(frames'[n].todo[j])
          PROVE  n = Len(frames') /\ j = 1
      <3>1. n = len
        <4>1. SUFFICES ASSUME n # len PROVE FALSE
          OBVIOUS
        <4>2. n \in 1 .. len - 1
          BY <1>3, <1>7, <4>1
        <4> QED
          BY <1>4, <1>7, <2>1, <4>2
      <3>2. j \in 1 .. Len(todo) /\ Midway(todo[j])
        BY <1>7, <2>1, <3>1
      <3>3. Len(todo) \in Nat /\ j \notin 2 .. Len(todo)
        BY <1>3, <1>5, <1>6, <3>2
      <3>4. j = 1
        BY <3>2, <3>3
      <3> QED
        BY <1>7, <3>1, <3>4
    <2> QED
      BY <2>1 DEF OneInside
  <1>9. Running' /\ Top.todo' = todo
    BY <1>3, <1>7 DEF Running, Top, Last
  <1> QED
    BY <1>5, <1>7, <1>8, <1>9 DEF Now

-----------------------------------------------------------------------------
(* The queue between the steps.                                             *)

\* When slots wait for a different cell each and one cell has none, there is
\* room for it.
LEMMA RoomForOne ==
  ASSUME Types, Waiting(1, queueI), NEW i \in CellIds, map[i] = 0
  PROVE  queueI < Size
  <1> DEFINE f == [k \in 1 .. queueI |-> slots[k].cell]
             rest == CellIds \ {i}
  <1>1. queueI \in Nat /\ queueI =< Size
    BY Area DEF Types
  <1>2. \A k \in 1 .. queueI : slots[k].cell \in CellIds /\ map[slots[k].cell] = k
    BY <1>1, Area DEF Types, Waiting
  <1>3. f \in [1 .. queueI -> rest] /\ \A k, l \in 1 .. queueI : f[k] = f[l] => k = l
    BY <1>1, <1>2
  <1> HIDE DEF f
  <1>4. f \in Injection(1 .. queueI, rest)
    BY <1>3 DEF Injection, IsInjective
  <1>5. IsFiniteSet(CellIds) /\ Cardinality(CellIds) = Size
    BY Area, FS_Interval DEF CellIds
  <1>6. IsFiniteSet(rest) /\ Cardinality(rest) = Size - 1
    BY <1>5, FS_RemoveElement
  <1>7. Cardinality(1 .. queueI) = queueI
    BY <1>1, FS_Interval
  <1> QED
    BY <1>1, <1>4, <1>6, <1>7, Area, FS_Injection

\* The invariant of the queue when nobody is inside a push or a flush.
LEMMA CalmWaits ==
  ASSUME Types, Queue, Running, CalmTop
  PROVE  Waiting(1, queueI)
  BY DEF Queue, CalmTop

LEMMA WaitsCalm ==
  ASSUME Types', OneInside', Running', CalmTop', Waiting(1, queueI)', ended' # "overrun"
  PROVE  Sound'
  <1>1. queueI' \in Nat /\ map' \in [CellIds -> 0 .. Size]
    BY Area DEF Types
  <1>2. Mapped'
    BY <1>1 DEF Mapped, Waiting
  <1>3. Queue'
    BY <1>1 DEF Queue, CalmTop
  <1> QED
    BY <1>2, <1>3 DEF Sound

\* Nothing runs any more.
LEMMA Halted ==
  ASSUME Sound, frames' = <<>>, ended' # "overrun", UNCHANGED <<grid, pending, cursor>>
  PROVE  Sound'
  <1>1. Types'
    BY DEF Sound, Types, pending
  <1>2. OneInside'
    BY DEF OneInside
  <1>3. Queue'
    BY DEF Queue, Runs, Running
  <1>4. Mapped'
    BY DEF Sound, Mapped, pending
  <1> QED
    BY <1>1, <1>2, <1>3, <1>4 DEF Sound

\* A step that leaves the queue alone.
LEMMA QuietStep ==
  ASSUME Sound, Running, Top.todo # <<>>, CalmTop,
         NEW ops \in Seq(CalmOps), Becomes(ops),
         UNCHANGED <<grid, pending, ended>>, cursor' \in [x : Nat, y : 0 .. Rows - 1]
  PROVE  Sound'
  <1>1. frames' \in Seq(Frame) /\ Running' /\ OneInside' /\ CalmTop'
    BY BecomesCalm DEF Sound
  <1>2. Types'
    BY <1>1 DEF Sound, Types, pending
  <1>3. Waiting(1, queueI)'
    BY CalmWaits DEF Sound, Waiting, pending
  <1>4. ended' # "overrun"
    BY DEF Sound
  <1> QED
    BY <1>1, <1>2, <1>3, <1>4, WaitsCalm

\* An operation that is neither of a push nor of a flush leaves the others calm.
LEMMA OtherOps ==
  ASSUME NEW op, Runs(op)
  PROVE  Running /\ Top.todo # <<>> /\ Now.op = op
         /\ (op \notin {"take", "turn"} => CalmTop)
  BY DEF Runs, CalmTop

LEMMA TextTyped ==
  /\ Seq(STRING) \subseteq Seq(Chars)
  /\ Space \in Chars
  /\ <<"p">> \in Seq(Chars) /\ <<"e">> \in Seq(Chars) /\ <<"LF">> \in Seq(Chars)
  <1>1. STRING \subseteq Chars /\ Space \in Chars
        /\ "p" \in Chars /\ "e" \in Chars /\ "LF" \in Chars
    BY DEF Chars
  <1>2. Seq(STRING) \subseteq Seq(Chars)
    BY <1>1, SeqMonotonic
  <1>3. \A c \in Chars : << c >> \in Seq(Chars)
    OBVIOUS
  <1> QED
    BY <1>1, <1>2, <1>3

\* An operation may be replaced by none.
LEMMA NoOps == <<>> \in Seq(CalmOps)
  OBVIOUS

-----------------------------------------------------------------------------
(* print.                                                                   *)

\* flanterm_write.
LEMMA WrittenCalm ==
  ASSUME NEW text \in Seq(Chars)
  PROVE  [n \in DOMAIN text |-> Type(text[n])] \o << Turn(1) >> \in Seq(CalmOps)
  <1> DEFINE s == [n \in DOMAIN text |-> Type(text[n])]
  <1>1. s \in [1 .. Len(text) -> CalmOps] /\ Len(text) \in Nat
    <2>1. DOMAIN text = 1 .. Len(text) /\ Len(text) \in Nat
          /\ \A n \in DOMAIN text : text[n] \in Chars
      OBVIOUS
    <2> QED
      BY <2>1, CalmOpsOf
  <1>2. s \in Seq(CalmOps)
    BY <1>1
  <1>3. << Turn(1) >> \in Seq(CalmOps)
    BY CalmOpsOf
  <1> HIDE DEF s
  <1>4. s \o << Turn(1) >> \in Seq(CalmOps)
    BY <1>2, <1>3
  <1> QED
    BY <1>4 DEF s

LEMMA PrintsCalmly ==
  ASSUME Sound, PrintText \/ PrintFirst
  PROVE  Sound'
  <1>1. Runs("print") /\ FlantermWrite(Now.text) /\ UNCHANGED <<grid, pending, ended, cursor>>
    BY DEF PrintText, PrintFirst
  <1>2. Running /\ Top.todo # <<>> /\ Now.op = "print" /\ CalmTop
    BY <1>1, OtherOps
  <1>3. Now.text \in Seq(Chars)
    BY <1>2, NowTyped, OpFields DEF Sound
  <1>4. cursor' \in [x : Nat, y : 0 .. Rows - 1]
    BY <1>1 DEF Sound, Types
  <1> QED
    BY <1>1, <1>2, <1>3, <1>4, WrittenCalm, QuietStep DEF FlantermWrite

LEMMA ScrollCalm == ScrollOps \in Seq(CalmOps)
  <1> DEFINE copies == [n \in 1 .. Size - Cols |-> Copy(n - 1 + Cols, n - 1)]
             spaces == [n \in 1 .. Cols |-> Put(Space, Size - Cols + n - 1)]
  <1>1. Size - Cols \in Nat /\ Cols \in Nat \ {0} /\ Size \in Nat
    <2>1. Size - Cols = (Rows - 1) * Cols /\ (Rows - 1) * Cols \in Nat
      BY SizeAssumption DEF Size
    <2> QED
      BY <2>1, Area, SizeAssumption
  <1>2. copies \in [1 .. Size - Cols -> CalmOps]
    <2>1. ASSUME NEW n \in 1 .. Size - Cols
          PROVE  n - 1 + Cols \in CellIds /\ n - 1 \in CellIds
      BY <1>1 DEF CellIds
    <2> QED
      BY <2>1, CalmOpsOf
  <1>3. spaces \in [1 .. Cols -> CalmOps]
    <2>1. ASSUME NEW n \in 1 .. Cols
          PROVE  Size - Cols + n - 1 \in CellIds
      BY <1>1 DEF CellIds
    <2> QED
      BY <2>1, TextTyped, CalmOpsOf
  <1> HIDE DEF copies, spaces
  <1>4. copies \in Seq(CalmOps) /\ spaces \in Seq(CalmOps)
    BY <1>1, <1>2, <1>3
  <1>5. copies \o spaces \in Seq(CalmOps)
    BY <1>4
  <1> QED
    BY <1>5 DEF ScrollOps, copies, spaces

\* The operations of a line feed and of a character.
LineFeedOps ==
  IF Y = Rows - 1 THEN ScrollOps \o << Cursor(0, Y) >> ELSE << Cursor(0, Y + 1) >>
CharacterOps ==
  IF cursor.x < Cols THEN << Put(Now.c, CellAt(cursor.x, cursor.y)) >> ELSE <<>>

LEMMA LineFeedCalm ==
  ASSUME Types
  PROVE  LineFeedOps \in Seq(CalmOps)
  <1>1. Y \in 0 .. Rows - 1
    <2>1. cursor \in [x : Nat, y : 0 .. Rows - 1]
      BY DEF Types
    <2> QED
      BY <2>1, SizeAssumption DEF Y, Smaller
  <1>2. CASE Y = Rows - 1
    <2>1. << Cursor(0, Y) >> \in Seq(CalmOps)
      BY <1>1, CalmOpsOf
    <2>2. ScrollOps \o << Cursor(0, Y) >> \in Seq(CalmOps)
      BY <2>1, ScrollCalm
    <2> QED
      BY <1>2, <2>2 DEF LineFeedOps
  <1>3. CASE Y # Rows - 1
    <2>1. Y + 1 \in 0 .. Rows - 1
      BY <1>1, <1>3, SizeAssumption
    <2>2. Cursor(0, Y + 1) \in CalmOps
      BY <2>1, CalmOpsOf
    <2> QED
      BY <1>3, <2>2 DEF LineFeedOps
  <1> QED
    BY <1>2, <1>3

LEMMA CharacterCalm ==
  ASSUME Types, Running, Top.todo # <<>>, Now.op = "type"
  PROVE  CharacterOps \in Seq(CalmOps)
  <1>1. CASE cursor.x < Cols
    <2>1. CellAt(cursor.x, cursor.y) \in CellIds
      BY <1>1, CellInRange, SizeAssumption DEF Types
    <2>2. Now.c \in Chars
      BY NowTyped, OpFields
    <2>3. Put(Now.c, CellAt(cursor.x, cursor.y)) \in CalmOps
      BY <2>1, <2>2, CalmOpsOf
    <2> QED
      BY <1>1, <2>3 DEF CharacterOps
  <1>2. CASE ~(cursor.x < Cols)
    BY <1>2, NoOps DEF CharacterOps
  <1> QED
    BY <1>1, <1>2

LEMMA LineFeeds ==
  ASSUME Sound, TypeLineFeed
  PROVE  Sound'
  <1>1. Runs("type") /\ Becomes(LineFeedOps) /\ UNCHANGED <<grid, pending, ended, cursor>>
    BY DEF TypeLineFeed, LineFeedOps
  <1>2. Running /\ Top.todo # <<>> /\ CalmTop
    BY <1>1, OtherOps
  <1>3. cursor' \in [x : Nat, y : 0 .. Rows - 1]
    BY <1>1 DEF Sound, Types
  <1>4. LineFeedOps \in Seq(CalmOps)
    BY LineFeedCalm DEF Sound
  <1> QED
    BY <1>1, <1>2, <1>3, <1>4, QuietStep

LEMMA Characters ==
  ASSUME Sound, TypeCharacter
  PROVE  Sound'
  <1>1. Runs("type") /\ Becomes(CharacterOps) /\ UNCHANGED <<grid, pending, ended>>
        /\ cursor' = [cursor EXCEPT !.x = @ + 1]
    BY DEF TypeCharacter, CharacterOps
  <1>2. Running /\ Top.todo # <<>> /\ CalmTop /\ Now.op = "type"
    BY <1>1, OtherOps
  <1>3. cursor' \in [x : Nat, y : 0 .. Rows - 1]
    BY <1>1 DEF Sound, Types
  <1>4. CharacterOps \in Seq(CalmOps)
    BY <1>2, CharacterCalm DEF Sound
  <1> QED
    BY <1>1, <1>2, <1>3, <1>4, QuietStep

LEMMA CursorSet ==
  ASSUME Sound, SetCursorPos
  PROVE  Sound'
  <1>1. Runs("cursor") /\ Becomes(<<>>) /\ UNCHANGED <<grid, pending, ended>>
        /\ cursor' = [x |-> Now.x, y |-> Now.y]
    BY DEF SetCursorPos
  <1>2. Running /\ Top.todo # <<>> /\ CalmTop /\ Now.op = "cursor"
    BY <1>1, OtherOps
  <1>3. Now.x \in Nat /\ Now.y \in 0 .. Rows - 1
    BY <1>2, NowTyped, OpFields DEF Sound
  <1>4. cursor' \in [x : Nat, y : 0 .. Rows - 1]
    BY <1>1, <1>3
  <1> QED
    BY <1>1, <1>2, <1>4, NoOps, QuietStep

LEMMA ExceptionCalm == Exception \in Seq(CalmOps)
  <1>1. ErrorAt.x \in Nat /\ ErrorAt.y \in 0 .. Rows - 1
    BY ErrorAssumption, SizeAssumption
  <1>2. /\ Do("paint") \in CalmOps /\ Cursor(ErrorAt.x, ErrorAt.y) \in CalmOps
        /\ Write(<<"p">>) \in CalmOps /\ Do("hlt") \in CalmOps
    BY <1>1, TextTyped, CalmOpsOf
  <1> QED
    BY <1>2 DEF Exception

LEMMA QuietActions ==
  ASSUME Sound, IdtStart \/ Switch \/ Paint
  PROVE  Sound'
  <1>1. UNCHANGED <<grid, pending, ended, cursor>>
    BY DEF IdtStart, Switch, Paint
  <1>2. cursor' \in [x : Nat, y : 0 .. Rows - 1]
    BY <1>1 DEF Sound, Types
  <1>4. \E ops \in Seq(CalmOps) : Becomes(ops)
    BY ExceptionCalm, NoOps DEF IdtStart, Switch, Paint
  <1>5. Running /\ Top.todo # <<>> /\ CalmTop
    BY OtherOps DEF IdtStart, Switch, Paint
  <1> QED
    BY <1>1, <1>2, <1>4, <1>5, QuietStep

-----------------------------------------------------------------------------
(* push_to_queue and the flush.                                             *)

\* What is pushed, and where.
LEMMA ContentTyped ==
  ASSUME Types, Running, Top.todo # <<>>, Now.op = "put" \/ Now.op = "copy"
  PROVE  Content \in Chars /\ Now.to \in CellIds
  <1>1. Now \in Ops
    BY NowTyped
  <1>2. CASE Now.op = "put"
    BY <1>1, <1>2, OpFields DEF Content
  <1>3. CASE Now.op = "copy"
    <2>1. Now.from \in CellIds /\ Now.to \in CellIds
      BY <1>1, <1>3, OpFields
    <2>2. map[Now.from] \in 0 .. Size /\ grid[Now.from] \in Chars
      BY <2>1 DEF Types
    <2>3. map[Now.from] # 0 => slots[map[Now.from]].ch \in Chars
      BY <2>2, Area DEF Types
    <2> QED
      BY <1>3, <2>1, <2>2, <2>3 DEF Content, Pending
  <1> QED
    BY <1>2, <1>3

\* push_to_queue up to queue_i++.
LEMMA Pushes ==
  ASSUME Sound, Push
  PROVE  Sound'
  <1> DEFINE i == Now.to
  <1>1. Running /\ Top.todo # <<>> /\ CalmTop /\ (Now.op = "put" \/ Now.op = "copy")
    BY OtherOps DEF Push
  <1>2. UNCHANGED <<grid, map, cursor, ended>>
    BY DEF Push
  <1>3. Types /\ OneInside /\ ended # "overrun"
    BY DEF Sound
  <1>4. Content \in Chars /\ i \in CellIds
    BY <1>1, <1>3, ContentTyped
  <1>5. Waiting(1, queueI)
    BY <1>1, CalmWaits DEF Sound
  <1>6. /\ queueI \in 0 .. Size /\ map \in [CellIds -> 0 .. Size] /\ Size \in Nat
        /\ slots \in [1 .. Size -> [cell : CellIds, ch : Chars]]
    BY <1>3, Area DEF Types
  <1>7. CASE map[i] # 0 /\ slots' = [slots EXCEPT ![map[i]].ch = Content]
             /\ Becomes(<<>>) /\ queueI' = queueI
    <2>1. frames' \in Seq(Frame) /\ Running' /\ OneInside' /\ CalmTop'
      BY <1>1, <1>3, <1>7, NoOps, BecomesCalm
    <2>2. map[i] \in 1 .. Size
      BY <1>4, <1>6, <1>7
    <2>3. /\ slots' \in [1 .. Size -> [cell : CellIds, ch : Chars]]
          /\ \A k \in 1 .. Size : slots'[k].cell = slots[k].cell
      BY <1>4, <1>6, <1>7, <2>2
    <2>4. Types'
      BY <1>2, <1>3, <1>7, <2>1, <2>3 DEF Types
    <2>5. Waiting(1, queueI)'
      BY <1>2, <1>5, <1>6, <1>7, <2>3 DEF Waiting
    <2> QED
      BY <1>2, <1>3, <2>1, <2>4, <2>5, WaitsCalm
  <1>8. CASE Becomes(<<>>) /\ UNCHANGED <<slots, queueI>>
    <2>1. cursor' \in [x : Nat, y : 0 .. Rows - 1]
      BY <1>2, <1>3 DEF Types
    <2> QED
      BY <1>1, <1>2, <1>8, <2>1, NoOps, QuietStep DEF pending
  <1>9. CASE /\ map[i] = 0 /\ queueI' = queueI + 1 /\ UNCHANGED slots
             /\ Becomes(<< Take(queueI + 1, i, Content) >>)
    <2> DEFINE m == Take(queueI + 1, i, Content)
    <2>1. m \in MidOps
      BY <1>4, <1>6, MidOpsOf
    <2>2. /\ frames' \in Seq(Frame) /\ Running' /\ OneInside'
          /\ Top.todo' # <<>> /\ Now' = m
      BY <1>1, <1>3, <1>9, <2>1, BecomesMid
    <2>3. m.op = "take" /\ m.slot = queueI + 1 /\ m.to = i
      BY DEF Take
    <2> HIDE DEF m
    <2>4. queueI + 1 \in 0 .. Size /\ queueI + 1 \in Nat \ {0}
      BY <1>3, <1>4, <1>5, <1>6, <1>9, RoomForOne
    <2>5. Types'
      BY <1>2, <1>3, <1>9, <2>2, <2>4 DEF Types
    <2>6. Waiting(1, queueI - 1)'
      <3>1. queueI' - 1 = queueI
        BY <1>6, <1>9
      <3> QED
        BY <1>2, <1>5, <1>9, <3>1 DEF Waiting
    <2>7. Runs("take")' /\ ~Runs("turn")'
      BY <2>2, <2>3 DEF Runs
    <2>8. Queue'
      BY <1>2, <1>9, <2>2, <2>3, <2>4, <2>6, <2>7 DEF Queue
    <2>9. Mapped'
      BY <1>2, <1>5, <1>6, <1>9 DEF Mapped, Waiting
    <2> QED
      BY <1>2, <1>3, <2>2, <2>5, <2>8, <2>9 DEF Sound
  <1> QED
    BY <1>7, <1>8, <1>9 DEF Push

\* push_to_queue after it.
LEMMA Takes ==
  ASSUME Sound, TakeSlot
  PROVE  Sound'
  <1> DEFINE i == Now.to
             slot == [cell |-> i, ch |-> Now.ch]
  <1>1. Types /\ OneInside /\ ended # "overrun" /\ Runs("take")
    BY DEF Sound, TakeSlot
  <1>2. Running /\ Top.todo # <<>> /\ Now.op = "take"
    BY <1>1, OtherOps
  <1>3. Now.slot = queueI /\ queueI > 0 /\ map[i] = 0 /\ Waiting(1, queueI - 1)
    BY <1>1 DEF Sound, Queue
  <1>4. i \in CellIds /\ Now.ch \in Chars
    BY <1>1, <1>2, NowTyped, OpFields
  <1>5. /\ queueI \in 1 .. Size /\ map \in [CellIds -> 0 .. Size] /\ Size \in Nat
        /\ slots \in [1 .. Size -> [cell : CellIds, ch : Chars]]
    BY <1>1, <1>3, Area DEF Types
  <1>6. /\ slots' = [slots EXCEPT ![queueI] = slot]
        /\ map' = [map EXCEPT ![i] = queueI]
        /\ Becomes(<<>>) /\ UNCHANGED <<grid, queueI, cursor, ended>>
    BY <1>3, <1>5 DEF TakeSlot
  <1>7. frames' \in Seq(Frame) /\ Running' /\ OneInside' /\ CalmTop'
    BY <1>1, <1>2, <1>6, NoOps, BecomesCalm
  <1>8. slot \in [cell : CellIds, ch : Chars] /\ slot.cell = i
    BY <1>4
  <1> HIDE DEF i, slot
  <1>9. /\ slots' \in [1 .. Size -> [cell : CellIds, ch : Chars]]
        /\ slots'[queueI] = slot
        /\ \A k \in 1 .. Size : k # queueI => slots'[k] = slots[k]
    BY <1>5, <1>6, <1>8
  <1>10. /\ map' \in [CellIds -> 0 .. Size] /\ map'[i] = queueI
         /\ \A c \in CellIds : c # i => map'[c] = map[c]
    BY <1>4, <1>5, <1>6
  <1>11. Types'
    BY <1>1, <1>6, <1>7, <1>9, <1>10 DEF Types
  <1>12. Waiting(1, queueI)'
    <2>1. ASSUME NEW k \in 1 .. queueI
          PROVE  map'[slots'[k].cell] = k
      <3>1. CASE k = queueI
        BY <1>8, <1>9, <1>10, <3>1
      <3>2. CASE k # queueI
        <4>1. k \in 1 .. queueI - 1 /\ k \in 1 .. Size
          BY <1>5, <3>2
        <4>2. slots'[k] = slots[k] /\ map[slots[k].cell] = k /\ slots[k].cell \in CellIds
          BY <1>3, <1>5, <1>9, <3>2, <4>1 DEF Waiting
        <4>3. slots[k].cell # i
          BY <1>3, <4>1, <4>2
        <4> QED
          BY <1>10, <4>2, <4>3
      <3> QED
        BY <3>1, <3>2
    <2>2. ASSUME NEW c \in CellIds, map'[c] # 0
          PROVE  map'[c] \in 1 .. queueI /\ slots'[map'[c]].cell = c
      <3>1. CASE c = i
        BY <1>5, <1>8, <1>9, <1>10, <3>1
      <3>2. CASE c # i
        <4>1. map'[c] = map[c] /\ map[c] \in 1 .. queueI - 1 /\ slots[map[c]].cell = c
          BY <1>3, <1>10, <2>2, <3>2 DEF Waiting
        <4>2. map[c] \in 1 .. Size /\ map[c] # queueI
          BY <1>5, <4>1
        <4> QED
          BY <1>5, <1>9, <4>1, <4>2
      <3> QED
        BY <3>1, <3>2
    <2> QED
      BY <1>6, <2>1, <2>2 DEF Waiting
  <1> QED
    BY <1>1, <1>6, <1>7, <1>11, <1>12, WaitsCalm

\* A turn of the flush takes its slot off the map, which led there.
LEMMA Turns ==
  ASSUME Sound, FlushTurn
  PROVE  Sound'
  <1> DEFINE k == Now.k
             i == slots[k].cell
  <1>1. Types /\ OneInside /\ ended # "overrun" /\ Runs("turn") /\ k <= queueI
    BY DEF Sound, FlushTurn
  <1>2. Running /\ Top.todo # <<>> /\ Now.op = "turn"
    BY <1>1, OtherOps
  <1>3. k \in 1 .. queueI + 1 /\ Waiting(k, queueI)
    BY <1>1 DEF Sound, Queue
  <1>4. k \in Nat \ {0}
    BY <1>1, <1>2, NowTyped, OpFields
  <1>5. /\ queueI \in 0 .. Size /\ map \in [CellIds -> 0 .. Size] /\ Size \in Nat
        /\ slots \in [1 .. Size -> [cell : CellIds, ch : Chars]]
        /\ grid \in [CellIds -> Chars]
    BY <1>1, Area DEF Types
  <1>6. k \in 1 .. Size /\ i \in CellIds /\ slots[k].ch \in Chars
    BY <1>1, <1>4, <1>5
  <1>7. map[i] = k /\ map[i] # 0
    BY <1>1, <1>3, <1>4, <1>5 DEF Waiting
  <1>8. /\ grid' = [grid EXCEPT ![i] = slots[k].ch]
        /\ map' = [map EXCEPT ![i] = 0]
        /\ Becomes(<< Turn(k + 1) >>) /\ UNCHANGED <<slots, queueI, cursor, ended>>
    BY <1>7 DEF FlushTurn
  <1>9. Turn(k + 1) \in MidOps
    BY <1>4, MidOpsOf
  <1>10. /\ frames' \in Seq(Frame) /\ Running' /\ OneInside'
         /\ Top.todo' # <<>> /\ Now' = Turn(k + 1)
    BY <1>1, <1>2, <1>8, <1>9, BecomesMid
  <1>11. Now'.op = "turn" /\ Now'.k = k + 1
    BY <1>10 DEF Turn
  <1> DEFINE ch == slots[k].ch
  <1> HIDE DEF k, i, ch
  <1>14. grid' \in [CellIds -> Chars]
    BY <1>5, <1>6, <1>8 DEF ch
  <1>15. /\ map' \in [CellIds -> 0 .. Size] /\ map'[i] = 0
         /\ \A c \in CellIds : c # i => map'[c] = map[c]
    BY <1>5, <1>6, <1>8
  <1>16. Types'
    BY <1>1, <1>8, <1>10, <1>14, <1>15 DEF Types
  <1>17. Waiting(Now.k, queueI)'
    <2>1. ASSUME NEW l \in k + 1 .. queueI
          PROVE  map'[slots[l].cell] = l
      <3>1. l \in k .. queueI /\ l # k /\ l \in 1 .. Size
        BY <1>4, <1>5
      <3>2. map[slots[l].cell] = l /\ slots[l].cell \in CellIds
        BY <1>3, <1>5, <3>1 DEF Waiting
      <3> QED
        BY <1>7, <1>15, <3>1, <3>2
    <2>2. ASSUME NEW c \in CellIds, map'[c] # 0
          PROVE  map'[c] \in k + 1 .. queueI /\ slots[map'[c]].cell = c
      <3>1. c # i /\ map'[c] = map[c]
        BY <1>15, <2>2
      <3>2. map[c] \in k .. queueI /\ slots[map[c]].cell = c
        BY <1>3, <2>2, <3>1 DEF Waiting
      <3>3. map[c] # k
        BY <3>1, <3>2 DEF i
      <3> QED
        BY <1>4, <1>5, <3>1, <3>2, <3>3
    <2>3. \A l \in k + 1 .. queueI : map'[slots[l].cell] = l
      BY <2>1
    <2>4. \A c \in CellIds : map'[c] # 0 =>
            map'[c] \in k + 1 .. queueI /\ slots[map'[c]].cell = c
      BY <2>2
    <2>5. slots' = slots /\ queueI' = queueI
      BY <1>8
    <2> QED
      BY <1>11, <2>3, <2>4, <2>5 DEF Waiting
  <1>18. Runs("turn")' /\ ~Runs("take")'
    BY <1>10, <1>11 DEF Runs
  <1>19. Queue'
    <2>1. Now'.k \in 1 .. queueI' + 1
      BY <1>1, <1>4, <1>5, <1>8, <1>11
    <2> QED
      BY <1>17, <1>18, <2>1 DEF Queue
  <1>20. Mapped'
    <2>1. ASSUME NEW c \in CellIds, map'[c] # 0
          PROVE  map'[c] <= queueI /\ slots[map'[c]].cell = c
      <3>1. map'[c] = map[c]
        BY <1>15, <2>1
      <3> QED
        BY <2>1, <3>1 DEF Sound, Mapped
    <2> QED
      BY <1>8, <2>1 DEF Mapped
  <1> QED
    BY <1>1, <1>8, <1>10, <1>16, <1>19, <1>20 DEF Sound

\* After the last turn nothing waits.
LEMMA FlushEnds ==
  ASSUME Sound, FlushEnd
  PROVE  Sound'
  <1>1. /\ Types /\ OneInside /\ ended # "overrun" /\ Runs("turn") /\ Now.k > queueI
        /\ queueI' = 0 /\ Becomes(<<>>) /\ UNCHANGED <<grid, slots, map, cursor, ended>>
    BY DEF Sound, FlushEnd
  <1>2. Running /\ Top.todo # <<>> /\ Now.op = "turn"
    BY <1>1, OtherOps
  <1>3. Now.k \in 1 .. queueI + 1 /\ Waiting(Now.k, queueI)
    BY <1>1 DEF Sound, Queue
  <1>4. /\ queueI \in 0 .. Size /\ map \in [CellIds -> 0 .. Size] /\ Size \in Nat
    BY <1>1, Area DEF Types
  <1>5. \A c \in CellIds : map[c] = 0
    BY <1>1, <1>3, <1>4 DEF Waiting
  <1>6. frames' \in Seq(Frame) /\ Running' /\ OneInside' /\ CalmTop'
    BY <1>1, <1>2, NoOps, BecomesCalm
  <1>7. Types'
    BY <1>1, <1>4, <1>6 DEF Types
  <1>8. Waiting(1, queueI)'
    BY <1>1, <1>5 DEF Waiting
  <1> QED
    BY <1>1, <1>6, <1>7, <1>8, WaitsCalm

-----------------------------------------------------------------------------
(* Exceptions.                                                              *)

LEMMA HandlerCalm == IsrHandler \in Seq(CalmOps)
  <1>1. Write(<<"e">>) \in CalmOps /\ Write(<<"LF">>) \in CalmOps /\ Do("switch") \in CalmOps
    BY TextTyped, CalmOpsOf
  <1> QED
    BY <1>1 DEF IsrHandler

\* An exception that is not counted as a hit of a push or a flush.
LEMMA WindowCalm ==
  ASSUME Types, Running, Window \cap {"push", "flush"} = {}
  PROVE  CalmTop
  <1>1. CASE Top.todo = <<>>
    BY <1>1 DEF CalmTop, Runs
  <1>2. CASE Top.todo # <<>>
    <2>1. Now.op # "take"
      BY <1>2 DEF Window
    <2>2. Now.op = "turn" => Now.k \in Nat \ {0}
      BY <1>2, NowTyped, OpFields
    <2>3. ~(Now.op = "turn" /\ Now.k > 1)
      BY <1>2, <2>1 DEF Window
    <2> QED
      BY <2>1, <2>2, <2>3 DEF CalmTop, Runs
  <1> QED
    BY <1>1, <1>2

\* Activities of which none is inside a push or a flush.
LEMMA AllCalm ==
  ASSUME frames' \in Seq(Frame), frames' # <<>>,
         \A n \in 1 .. Len(frames') : \A j \in 1 .. Len(frames'[n].todo) :
           ~Midway(frames'[n].todo[j])
  PROVE  Running' /\ OneInside' /\ CalmTop'
  <1>1. Running' /\ OneInside'
    BY DEF Running, OneInside
  <1> DEFINE len == Len(frames')
             todo == frames'[len].todo
  <1>2. len \in Nat \ {0} /\ Top' = frames'[len] /\ todo \in Seq(Ops)
    <2>1. len \in Nat \ {0} /\ frames'[len] \in Frame
      OBVIOUS
    <2> QED
      BY <2>1 DEF Top, Last, Frame
  <1>3. \A j \in 1 .. Len(todo) : ~Midway(todo[j])
    BY <1>2
  <1>4. Top.todo' = todo
    BY <1>2
  <1> HIDE DEF todo
  <1>5. ASSUME todo # <<>>
        PROVE  ~Midway(todo[1]) /\ Now' = todo[1]
    <2>1. Len(todo) \in Nat \ {0} /\ Head(todo) = todo[1]
      BY <1>2, <1>5
    <2> QED
      BY <1>3, <1>4, <2>1 DEF Now
  <1>6. CalmTop'
    BY <1>4, <1>5 DEF CalmTop, Runs, Midway
  <1> QED
    BY <1>1, <1>6

\* When the innermost activity is not inside a push or a flush, none is.
LEMMA NoneInside ==
  ASSUME Types, OneInside, Running, CalmTop
  PROVE  \A n \in 1 .. Len(frames) : \A j \in 1 .. Len(frames[n].todo) :
           ~Midway(frames[n].todo[j])
  <1>1. TAKE n \in 1 .. Len(frames)
  <1>2. TAKE j \in 1 .. Len(frames[n].todo)
  <1>3. SUFFICES ASSUME n = Len(frames), j = 1
                 PROVE  ~Midway(frames[n].todo[j])
    BY DEF OneInside
  <1>4. Top = frames[n] /\ Top.todo \in Seq(Ops)
    BY <1>3, TopTyped
  <1>5. Top.todo # <<>>
    BY <1>2, <1>3, <1>4
  <1>6. Now = frames[n].todo[j]
    BY <1>3, <1>4, <1>5, NowTyped
  <1> QED
    BY <1>5, <1>6 DEF CalmTop, Runs, Midway

\* An exception starts another activity, or resets the machine.
LEMMA Raises ==
  ASSUME Sound, NEW v \in Vectors, Raise(v), Harmless({"push", "flush"})'
  PROVE  Sound'
  <1>1. Types /\ OneInside /\ ended # "overrun" /\ Running
        /\ UNCHANGED <<grid, pending, cursor>>
    BY DEF Sound, Raise
  <1>2. CASE ~idtLoaded
    <2>1. frames' = <<>> /\ ended' # "overrun"
      BY <1>2 DEF Raise
    <2> QED
      BY <1>1, <2>1, Halted
  <1>3. CASE idtLoaded
    <2> DEFINE f == [vector |-> v, todo |-> IsrHandler]
    <2>1. /\ frames' = Append(frames, f) /\ hits' = hits \cup Window /\ ended' = ended
      BY <1>3 DEF Raise
    <2>2. CalmTop
      <3>1. Window \cap {"push", "flush"} = {}
        BY <2>1 DEF Harmless
      <3> QED
        BY <1>1, <3>1, WindowCalm
    <2>3. Waiting(1, queueI)
      BY <1>1, <2>2, CalmWaits DEF Sound
    <2>4. f \in Frame /\ \A j \in 1 .. Len(f.todo) : ~Midway(f.todo[j])
      <3>1. v \in Int
        BY VectorsAssumption
      <3>2. IsrHandler \in Seq(Ops) /\ \A j \in 1 .. Len(IsrHandler) : ~Midway(IsrHandler[j])
        BY HandlerCalm, CalmSeq
      <3> QED
        BY <3>1, <3>2 DEF Frame
    <2>5. \A n \in 1 .. Len(frames) : \A j \in 1 .. Len(frames[n].todo) :
            ~Midway(frames[n].todo[j])
      BY <1>1, <2>2, NoneInside
    <2> HIDE DEF f
    <2>6. /\ frames' \in Seq(Frame) /\ frames' # <<>> /\ Len(frames') = Len(frames) + 1
          /\ frames'[Len(frames) + 1] = f
          /\ \A n \in 1 .. Len(frames) : frames'[n] = frames[n]
          /\ Len(frames) \in Nat
      BY <1>1, <2>1, <2>4 DEF Types
    <2>7. \A n \in 1 .. Len(frames') : \A j \in 1 .. Len(frames'[n].todo) :
            ~Midway(frames'[n].todo[j])
      <3>1. TAKE n \in 1 .. Len(frames')
      <3>2. CASE n = Len(frames) + 1
        BY <2>4, <2>6, <3>2
      <3>3. CASE n # Len(frames) + 1
        <4>1. n \in 1 .. Len(frames)
          BY <2>6, <3>3
        <4> QED
          BY <2>5, <2>6, <4>1
      <3> QED
        BY <3>2, <3>3
    <2>8. Running' /\ OneInside' /\ CalmTop'
      BY <2>6, <2>7, AllCalm
    <2>9. Types' /\ Waiting(1, queueI)'
      BY <1>1, <2>3, <2>6 DEF Types, Waiting, pending
    <2> QED
      BY <1>1, <2>1, <2>8, <2>9, WaitsCalm
  <1> QED
    BY <1>2, <1>3

\* iretq goes back to an activity that is not inside a push or a flush.
LEMMA Resumes ==
  ASSUME Sound, Resume
  PROVE  Sound'
  <1>1. Types /\ OneInside /\ ended # "overrun" /\ Running /\ Top.todo = <<>>
        /\ UNCHANGED <<grid, pending, cursor, ended>> /\ frames' = Front(frames)
    BY DEF Sound, Resume
  <1>2. CalmTop
    BY <1>1 DEF CalmTop, Runs
  <1>3. Waiting(1, queueI)
    BY <1>1, <1>2, CalmWaits DEF Sound
  <1>4. \A n \in 1 .. Len(frames) : \A j \in 1 .. Len(frames[n].todo) :
          ~Midway(frames[n].todo[j])
    BY <1>1, <1>2, NoneInside
  <1>5. frames \in Seq(Frame) /\ Len(frames) \in Nat \ {0}
    BY <1>1, TopTyped DEF Types
  <1>6. /\ frames' \in Seq(Frame) /\ Len(frames') = Len(frames) - 1
        /\ \A n \in 1 .. Len(frames') : frames'[n] = frames[n]
    <2>1. Front(frames) = SubSeq(frames, 1, Len(frames) - 1)
      BY DEF Front
    <2> DEFINE len == Len(frames) - 1
    <2>2. 1 \in Int /\ len \in Nat /\ \A i \in 1 .. len : frames[i] \in Frame
      BY <1>5
    <2> HIDE DEF len
    <2>3. /\ SubSeq(frames, 1, len) \in Seq(Frame)
          /\ Len(SubSeq(frames, 1, len)) = IF 1 <= len THEN len - 1 + 1 ELSE 0
          /\ \A i \in 1 .. len - 1 + 1 : SubSeq(frames, 1, len)[i] = frames[1 + i - 1]
      BY <2>2, SubSeqProperties
    <2>4. frames' = SubSeq(frames, 1, len)
      BY <1>1, <2>1 DEF len
    <2>5. Len(frames') = len
      BY <2>2, <2>3, <2>4
    <2>6. \A n \in 1 .. Len(frames') : frames'[n] = frames[n]
      BY <2>2, <2>3, <2>4, <2>5
    <2> QED
      BY <2>3, <2>4, <2>5, <2>6 DEF len
  <1>7. CASE frames' = <<>>
    BY <1>1, <1>7, Halted
  <1>8. CASE frames' # <<>>
    <2>1. Running' /\ OneInside' /\ CalmTop'
      <3>1. \A n \in 1 .. Len(frames') : \A j \in 1 .. Len(frames'[n].todo) :
              ~Midway(frames'[n].todo[j])
        BY <1>4, <1>5, <1>6
      <3> QED
        BY <1>6, <1>8, <3>1, AllCalm
    <2>2. Types' /\ Waiting(1, queueI)'
      BY <1>1, <1>3, <1>6 DEF Types, Waiting, pending
    <2> QED
      BY <1>1, <2>1, <2>2, WaitsCalm
  <1> QED
    BY <1>7, <1>8

-----------------------------------------------------------------------------
(* The invariant.                                                           *)

LEMMA InitSound == Init => Sound
  <1> SUFFICES ASSUME Init PROVE Sound
    OBVIOUS
  <1>1. Boot \in Seq(Ops) /\ \A j \in 1 .. Len(Boot) : ~Midway(Boot[j])
    <2>1. Messages[1] \in Seq(Chars) /\ Messages[2] \in Seq(Chars)
      BY MessagesAssumption, TextTyped
    <2>2. /\ Write(Messages[1]) \in CalmOps /\ Write(Messages[2]) \in CalmOps
          /\ Do("idtStart") \in CalmOps /\ Do("hlt") \in CalmOps
      BY <2>1, CalmOpsOf
    <2>3. Boot \in Seq(CalmOps)
      BY <2>2 DEF Boot
    <2> QED
      BY <2>3, CalmSeq
  <1> DEFINE f == [vector |-> NoVector, todo |-> Boot]
  <1>2. f \in Frame /\ f.todo = Boot
    BY <1>1 DEF Frame, NoVector
  <1>3. frames = << f >>
    BY DEF Init
  <1> HIDE DEF f
  <1>4. frames \in Seq(Frame) /\ Len(frames) = 1 /\ frames[1] = f
    BY <1>2, <1>3
  <1>5. OneInside
    BY <1>1, <1>2, <1>4 DEF OneInside
  <1>6. Running /\ CalmTop
    <2>1. Running /\ Top = f
      BY <1>3, <1>4 DEF Running, Top, Last
    <2>2. Boot # <<>> => ~Midway(Now)
      BY <1>1, <1>2, <2>1 DEF Now
    <2> QED
      BY <1>2, <2>1, <2>2 DEF CalmTop, Runs, Midway
  <1>7. 0 \in CellIds
    BY Area DEF CellIds
  <1>8. Types
    BY <1>4, <1>7, Area, SizeAssumption, TextTyped DEF Types, Init, Home
  <1>9. Waiting(1, queueI)
    BY DEF Waiting, Init
  <1>10. Mapped /\ Queue
    BY <1>6, <1>9 DEF Mapped, Queue, CalmTop, Init
  <1> QED
    BY <1>5, <1>8, <1>10 DEF Sound, Init

LEMMA StepSound ==
  ASSUME Sound, [Next]_vars, Harmless({"push", "flush"})'
  PROVE  Sound'
  <1>1. CASE \E v \in Vectors : Raise(v)
    BY <1>1, Raises
  <1>2. CASE PrintText \/ PrintFirst
    BY <1>2, PrintsCalmly
  <1>3. CASE PrintWithoutContext
    BY <1>3, Halted DEF PrintWithoutContext
  <1>4. CASE TypeLineFeed
    BY <1>4, LineFeeds
  <1>5. CASE TypeCharacter
    BY <1>5, Characters
  <1>6. CASE SetCursorPos
    BY <1>6, CursorSet
  <1>7. CASE Push
    BY <1>7, Pushes
  <1>8. CASE TakeSlot
    BY <1>8, Takes
  <1>9. CASE FlushTurn
    BY <1>9, Turns
  <1>10. CASE FlushEnd
    BY <1>10, FlushEnds
  <1>11. CASE IdtStart \/ Switch \/ Paint
    BY <1>11, QuietActions
  <1>12. CASE Resume
    BY <1>12, Resumes
  <1>13. CASE UNCHANGED vars
    BY <1>13 DEF vars, pending, Sound, Types, OneInside, Queue, Mapped, Waiting,
                 Running, Top, Now, Runs
  <1> QED
    BY <1>1, <1>2, <1>3, <1>4, <1>5, <1>6, <1>7, <1>8, <1>9, <1>10, <1>11, <1>12,
       <1>13 DEF Next

\* What exceptions have interrupted stays in the history.
LEMMA HitsStay ==
  ASSUME [Next]_vars
  PROVE  hits \subseteq hits'
  <1>1. ASSUME NEW v \in Vectors, Raise(v) PROVE hits \subseteq hits'
    BY <1>1 DEF Raise
  <1> QED
    BY <1>1 DEF Next, vars, PrintText, PrintFirst, PrintWithoutContext, TypeLineFeed,
       TypeCharacter, SetCursorPos, Push, TakeSlot, FlushTurn, FlushEnd, IdtStart,
       Switch, Paint, Resume

\* However exceptions are nested, and for every size of screen and every pair of
\* messages: unless an exception came inside push_to_queue or a running flush,
\* the map leads to slots of their cells, no slot that waits is forgotten, and
\* the queue does not run over its array.
THEOREM QueueStaysSound == Spec => []QueueSound
  <1>1. Init => IInv
    BY InitSound DEF IInv
  <1>2. IInv /\ [Next]_vars => IInv'
    <2> SUFFICES ASSUME IInv, [Next]_vars, Harmless({"push", "flush"})'
                 PROVE  Sound'
      BY DEF IInv
    <2>1. Harmless({"push", "flush"})
      BY HitsStay DEF Harmless
    <2> QED
      BY <2>1, StepSound DEF IInv
  <1>3. IInv => QueueSound
    BY DEF IInv, Sound, QueueSound, Mapped, Queue, Waiting
  <1> QED
    BY <1>1, <1>2, <1>3, PTL DEF Spec
-----------------------------------------------------------------------------
(* The paper: what _start and the handlers print is what the screen shows.  *)

\* What the paper has for each cell, and what the cells will show when the queue
\* has been flushed.
OnPaper(p, x, y) == IF y < Len(p) /\ x < Len(p[y + 1]) THEN p[y + 1][x + 1] ELSE Space
OnCells(p) == [i \in CellIds |-> OnPaper(p, i % Cols, i \div Cols)]
Printed == OnCells(paper)
Visible == [i \in CellIds |-> Pending(i)]
Screens == [CellIds -> Chars]
Set(screen, i, ch) == [screen EXCEPT ![i] = ch]

\* The cursor is at the end of the last line; that line is empty.
AtEnd == cursor = [x |-> Len(paper[Len(paper)]), y |-> Len(paper) - 1]
AtStart == paper[Len(paper)] = <<>>

\* Operations that do not depend on a place read before.
PlainNames == {"print", "type", "turn", "idtStart", "switch", "hlt"}
Plain(todo) == \A j \in 1 .. Len(todo) : todo[j].op \in PlainNames

\* Between characters; and inside one, which has its place.
Between(todo) == Plain(todo) /\ Visible = Printed /\ AtEnd
Placing(todo) ==
  /\ todo # <<>> /\ todo[1].op \in {"put", "take"} /\ Plain(Tail(todo))
  /\ Set(Visible, todo[1].to, todo[1].ch) = Printed
  /\ AtEnd

\* A line feed before turn n of its scroll, which has Size turns: the cells up to
\* there show the paper, the others still what is a line further up on it.
FeedTodo(todo, n, y) ==
  /\ Len(todo) >= Size + 2 - n
  /\ \A j \in 1 .. Size + 1 - n : todo[j] = ScrollOps[n + j - 1]
  /\ todo[Size + 2 - n] = Cursor(0, y)
  /\ \A j \in Size + 3 - n .. Len(todo) : todo[j].op \in PlainNames
Moved(screen, sheet, n) ==
  \A i \in CellIds :
    /\ i < n - 1 => screen[i] = sheet[i]
    /\ i >= n - 1 /\ i >= Cols => screen[i] = sheet[i - Cols]
FeedingAt(todo, n) ==
  /\ AtStart
  /\ FeedTodo(todo, n, Len(paper) - 1) /\ Moved(Visible, Printed, n)
  /\ n <= Size => Len(paper) = Rows
Feeding(todo) == \E n \in 1 .. Size + 1 : FeedingAt(todo, n)
FeedTakingAt(todo, n) ==
  /\ AtStart /\ todo # <<>> /\ todo[1].op = "take" /\ todo[1].to = n - 1
  /\ FeedTodo(Tail(todo), n + 1, Len(paper) - 1)
  /\ Moved(Set(Visible, n - 1, todo[1].ch), Printed, n + 1)
  /\ Len(paper) = Rows
FeedTaking(todo) == \E n \in 1 .. Size : FeedTakingAt(todo, n)
InStep == Between(Top.todo) \/ Placing(Top.todo) \/ Feeding(Top.todo) \/ FeedTaking(Top.todo)

\* Whoever pushes flushes later, and nothing comes after the end of _start.
HasTurn(todo) == \E j \in 1 .. Len(todo) : todo[j].op = "turn"
PushNames == {"type", "put", "copy", "take"}
Closed(todo) ==
  \A j \in 1 .. Len(todo) :
    /\ todo[j].op = "hlt" => j = Len(todo)
    /\ todo[j].op \in PushNames => \E l \in j + 1 .. Len(todo) : todo[l].op = "turn"
TurnAhead == \E n \in 1 .. Len(frames) : HasTurn(frames[n].todo)

\* The activities but the innermost hold no place, and _start takes no page fault.
Shape ==
  /\ \A n \in 1 .. Len(frames) - 1 : Plain(frames[n].todo)
  /\ \A n \in 1 .. Len(frames) : Closed(frames[n].todo)
  /\ frames[1].vector # 14

PaperTyped == paper \in Seq(Seq(Chars)) /\ Len(paper) \in 1 .. Rows

\* The error screen is there, or about to be: _start will not come to rest.
HasEnd(todo) == \E j \in 1 .. Len(todo) : todo[j].op = "hlt"
Lost == \E n \in 2 .. Len(frames) : HasEnd(frames[n].todo)

PaperKept ==
  /\ PaperTyped /\ shown = grid /\ Shape
  /\ queueI > 0 => TurnAhead
  /\ InStep

\* The inductive invariant, for as long as no exception came between a reading
\* and its use.
PInv == hits = {} /\ Running /\ ~Lost => PaperKept

-----------------------------------------------------------------------------
(* A step of the innermost activity, and the shape of the others.           *)

\* What may take the place of the operation that runs.
Covered(ops) ==
  /\ \A j \in 1 .. Len(ops) : ops[j].op # "hlt"
  /\ \/ \A j \in 1 .. Len(ops) : ops[j].op \notin PushNames
     \/ ops # <<>> /\ ops[Len(ops)].op = "turn"
     \/ HasTurn(Tail(Top.todo))

\* What joining two sequences makes.
IsJoined(all, a, b) ==
  /\ Len(all) = Len(a) + Len(b) /\ Len(a) \in Nat /\ Len(b) \in Nat
  /\ \A j \in 1 .. Len(a) : all[j] = a[j]
  /\ \A j \in 1 .. Len(b) : all[Len(a) + j] = b[j]

LEMMA Joined ==
  ASSUME NEW a \in Seq(Ops), NEW b \in Seq(Ops)
  PROVE  a \o b \in Seq(Ops) /\ IsJoined(a \o b, a, b)
  BY DEF IsJoined

LEMMA VectorsStay ==
  ASSUME Types, Running, NEW ops, Becomes(ops)
  PROVE  frames'[1].vector = frames[1].vector
  <1>1. Len(frames) \in Nat \ {0} /\ frames[Len(frames)] \in Frame /\ frames \in Seq(Frame)
    BY TopTyped DEF Types
  <1>2. frames[1] \in Frame /\ 1 \in 1 .. Len(frames)
    BY <1>1
  <1> QED
    BY <1>1, <1>2 DEF Becomes, Frame

LEMMA JoinedClosed ==
  ASSUME NEW todo \in Seq(Ops), todo # <<>>, Closed(todo), NEW ops \in Seq(Ops),
         \A j \in 1 .. Len(ops) : ops[j].op # "hlt",
         \/ \A j \in 1 .. Len(ops) : ops[j].op \notin PushNames
         \/ ops # <<>> /\ ops[Len(ops)].op = "turn"
         \/ HasTurn(Tail(todo))
  PROVE  Closed(ops \o Tail(todo))
  <1> DEFINE rest == Tail(todo)
             all  == ops \o rest
             m    == Len(ops)
  <1>1. /\ rest \in Seq(Ops) /\ Len(rest) = Len(todo) - 1 /\ m \in Nat /\ Len(todo) \in Nat \ {0}
        /\ \A j \in 1 .. Len(rest) : rest[j] = todo[j + 1]
    OBVIOUS
  <1> HIDE DEF rest
  <1>2. /\ Len(all) = m + Len(rest)
        /\ \A j \in 1 .. m : all[j] = ops[j]
        /\ \A j \in 1 .. Len(rest) : all[m + j] = rest[j]
    <2>1. IsJoined(all, ops, rest)
      BY <1>1, Joined
    <2> QED
      BY <2>1 DEF IsJoined
  <1> HIDE DEF all
  <1>3. ASSUME NEW j \in 1 .. Len(all), j > m
        PROVE  /\ all[j].op = "hlt" => j = Len(all)
               /\ all[j].op \in PushNames => \E l \in j + 1 .. Len(all) : all[l].op = "turn"
    <2>1. /\ j - m \in 1 .. Len(rest) /\ m + (j - m) = j /\ j - m + 1 \in 1 .. Len(todo)
      BY <1>1, <1>2, <1>3
    <2>2. all[j] = todo[j - m + 1]
      BY <1>1, <1>2, <2>1
    <2>3. all[j].op = "hlt" => j = Len(all)
      <3>1. all[j].op = "hlt" => j - m + 1 = Len(todo)
        BY <2>1, <2>2 DEF Closed
      <3> QED
        BY <1>1, <1>2, <3>1
    <2>4. ASSUME all[j].op \in PushNames
          PROVE  \E l \in j + 1 .. Len(all) : all[l].op = "turn"
      <3>1. PICK l \in j - m + 1 + 1 .. Len(todo) : todo[l].op = "turn"
        BY <2>1, <2>2, <2>4 DEF Closed
      <3>2. /\ l - 1 \in 1 .. Len(rest) /\ m + (l - 1) \in j + 1 .. Len(all)
            /\ l - 1 + 1 = l
        BY <1>1, <1>2, <2>1
      <3>3. all[m + (l - 1)] = todo[l]
        BY <1>1, <1>2, <3>2
      <3> QED
        BY <3>1, <3>2, <3>3
    <2> QED
      BY <2>3, <2>4
  <1>4. ASSUME NEW j \in 1 .. Len(all), j <= m
        PROVE  /\ all[j].op = "hlt" => j = Len(all)
               /\ all[j].op \in PushNames => \E l \in j + 1 .. Len(all) : all[l].op = "turn"
    <2>1. j \in 1 .. m /\ all[j] = ops[j] /\ all[j].op # "hlt"
      BY <1>1, <1>2, <1>4
    <2>2. SUFFICES ASSUME ops[j].op \in PushNames
                   PROVE  \E l \in j + 1 .. Len(all) : all[l].op = "turn"
      BY <2>1
    <2>3. CASE ops # <<>> /\ ops[m].op = "turn"
      <3>1. j # m
        BY <2>2, <2>3 DEF PushNames
      <3>2. m \in 1 .. m /\ m \in j + 1 .. Len(all)
        BY <1>1, <1>2, <2>1, <3>1
      <3> QED
        BY <1>2, <2>3, <3>2
    <2>4. CASE HasTurn(rest)
      <3>1. PICK l \in 1 .. Len(rest) : rest[l].op = "turn"
        BY <2>4 DEF HasTurn
      <3>2. m + l \in j + 1 .. Len(all) /\ all[m + l] = rest[l]
        BY <1>1, <1>2, <2>1
      <3> QED
        BY <3>1, <3>2
    <2> QED
      BY <2>1, <2>2, <2>3, <2>4 DEF rest
  <1>5. \A j \in 1 .. Len(all) :
          /\ all[j].op = "hlt" => j = Len(all)
          /\ all[j].op \in PushNames => \E l \in j + 1 .. Len(all) : all[l].op = "turn"
    <2>1. \A j \in 1 .. Len(all) : j > m \/ j <= m
      BY <1>1
    <2> QED
      BY <1>3, <1>4, <2>1
  <1> QED
    BY <1>5 DEF Closed, all, rest

LEMMA BecomesShape ==
  ASSUME Types, Shape, Running, Top.todo # <<>>, NEW ops \in Seq(Ops),
         Becomes(ops), Covered(ops)
  PROVE  /\ Running' /\ Shape' /\ Top.todo' = ops \o Tail(Top.todo)
         /\ TurnAhead /\ (Now.op = "turn" => HasTurn(ops)) => TurnAhead'
  <1> DEFINE len == Len(frames)
             rest == Tail(Top.todo)
             all == ops \o rest
  <1>1. Replaced(ops)
    BY BecomesReplaces
  <1>2. /\ len \in Nat \ {0} /\ Top = frames[len] /\ Top.todo \in Seq(Ops)
        /\ rest \in Seq(Ops) /\ Len(rest) = Len(Top.todo) - 1 /\ Now = Top.todo[1]
        /\ \A j \in 1 .. Len(Top.todo) - 1 : rest[j] = Top.todo[j + 1]
        /\ Len(Top.todo) \in Nat \ {0}
    BY TopTyped, NowTyped
  <1> HIDE DEF rest
  <1>3. /\ frames' \in Seq(Frame) /\ Len(frames') = len /\ frames'[len].todo = all
        /\ \A n \in 1 .. len - 1 : frames'[n] = frames[n]
    BY <1>1 DEF Replaced, rest
  <1> HIDE DEF all
  <1>4. Running' /\ Top.todo' = all
    BY <1>2, <1>3 DEF Running, Top, Last
  <1>5. Closed(all)
    <2>1. Closed(Top.todo)
      BY <1>2 DEF Shape
    <2>2. /\ \A j \in 1 .. Len(ops) : ops[j].op # "hlt"
          /\ \/ \A j \in 1 .. Len(ops) : ops[j].op \notin PushNames
             \/ ops # <<>> /\ ops[Len(ops)].op = "turn"
             \/ HasTurn(Tail(Top.todo))
      BY Zenon DEF Covered
    <2> QED
      BY <1>2, <2>1, <2>2, JoinedClosed DEF all, rest
  <1>6. frames'[1].vector # 14
    BY VectorsStay DEF Shape
  <1>7. \A n \in 1 .. Len(frames') - 1 : Plain(frames'[n].todo)
    BY <1>3 DEF Shape
  <1>8. ASSUME NEW n \in 1 .. Len(frames') PROVE Closed(frames'[n].todo)
    <2>1. CASE n = len
      BY <1>3, <1>5, <2>1
    <2>2. CASE n # len
      <3>1. n \in 1 .. len - 1 /\ n \in 1 .. len
        BY <1>2, <1>3, <2>2
      <3> QED
        BY <1>3, <3>1 DEF Shape
    <2> QED
      BY <2>1, <2>2
  <1>9. Shape'
    BY <1>6, <1>7, <1>8, Zenon DEF Shape
  <1>10. ASSUME TurnAhead, Now.op = "turn" => HasTurn(ops) PROVE TurnAhead'
    <2>0. /\ Len(all) = Len(ops) + Len(rest) /\ Len(ops) \in Nat /\ Len(rest) \in Nat
          /\ \A j \in 1 .. Len(ops) : all[j] = ops[j]
          /\ \A j \in 1 .. Len(rest) : all[Len(ops) + j] = rest[j]
      <3>1. IsJoined(all, ops, rest)
        BY <1>2, Joined DEF all
      <3> QED
        BY <3>1 DEF IsJoined
    <2>1. PICK n \in 1 .. len : HasTurn(frames[n].todo)
      BY <1>10 DEF TurnAhead
    <2>2. CASE n # len
      <3>1. n \in 1 .. len - 1 /\ n \in 1 .. Len(frames')
        BY <1>2, <1>3, <2>2
      <3> QED
        BY <1>3, <2>1, <3>1 DEF TurnAhead
    <2>3. CASE n = len
      <3>1. HasTurn(all)
        <4>1. CASE Now.op = "turn"
          <5>1. PICK j \in 1 .. Len(ops) : ops[j].op = "turn"
            BY <1>10, <4>1 DEF HasTurn
          <5>2. j \in 1 .. Len(all) /\ all[j] = ops[j]
            BY <2>0
          <5> QED
            BY <5>1, <5>2 DEF HasTurn
        <4>2. CASE Now.op # "turn"
          <5>1. PICK j \in 1 .. Len(Top.todo) : Top.todo[j].op = "turn"
            BY <1>2, <2>1, <2>3 DEF HasTurn
          <5>2. j # 1
            BY <1>2, <4>2, <5>1
          <5>3. j - 1 \in 1 .. Len(rest) /\ Len(ops) + (j - 1) \in 1 .. Len(all) /\ j - 1 + 1 = j
            BY <1>2, <2>0, <5>2
          <5>4. all[Len(ops) + (j - 1)] = Top.todo[j]
            BY <1>2, <2>0, <5>3
          <5> QED
            BY <5>1, <5>3, <5>4 DEF HasTurn
        <4> QED
          BY <4>1, <4>2
      <3>2. len \in 1 .. Len(frames')
        BY <1>2, <1>3
      <3> QED
        BY <1>3, <3>1, <3>2 DEF TurnAhead
    <2> QED
      BY <2>2, <2>3
  <1> QED
    BY <1>4, <1>9, <1>10 DEF all, rest

\* An end that is not the next operation stays.
LEMMA LostStays ==
  ASSUME Types, Running, Top.todo # <<>>, Now.op # "hlt", NEW ops \in Seq(Ops),
         Becomes(ops), Lost
  PROVE  Lost'
  <1> DEFINE len == Len(frames)
             rest == Tail(Top.todo)
             all == ops \o rest
  <1>1. Replaced(ops)
    BY BecomesReplaces
  <1>2. /\ len \in Nat \ {0} /\ Top = frames[len] /\ Top.todo \in Seq(Ops)
        /\ rest \in Seq(Ops) /\ Len(rest) = Len(Top.todo) - 1 /\ Now = Top.todo[1]
        /\ \A j \in 1 .. Len(Top.todo) - 1 : rest[j] = Top.todo[j + 1]
        /\ Len(Top.todo) \in Nat \ {0}
    BY TopTyped, NowTyped
  <1> HIDE DEF rest
  <1>3. /\ Len(frames') = len /\ frames'[len].todo = all
        /\ \A n \in 1 .. len - 1 : frames'[n] = frames[n]
    BY <1>1 DEF Replaced, rest
  <1>4. /\ Len(all) = Len(ops) + Len(rest) /\ Len(ops) \in Nat /\ Len(rest) \in Nat
        /\ \A j \in 1 .. Len(rest) : all[Len(ops) + j] = rest[j]
    <2>1. IsJoined(all, ops, rest)
      BY <1>2, Joined
    <2> QED
      BY <2>1 DEF IsJoined
  <1> HIDE DEF all
  <1>5. PICK n \in 2 .. len : HasEnd(frames[n].todo)
    BY DEF Lost
  <1>6. HasEnd(frames'[n].todo)
    <2>1. CASE n # len
      <3>1. n \in 1 .. len - 1
        BY <1>2, <2>1
      <3> QED
        BY <1>3, <1>5, <3>1
    <2>2. CASE n = len
      <3>1. PICK j \in 1 .. Len(Top.todo) : Top.todo[j].op = "hlt"
        BY <1>2, <1>5, <2>2 DEF HasEnd
      <3>2. j # 1
        BY <1>2, <3>1
      <3>3. j - 1 \in 1 .. Len(rest) /\ Len(ops) + (j - 1) \in 1 .. Len(all) /\ j - 1 + 1 = j
        BY <1>2, <1>4, <3>2
      <3>4. all[Len(ops) + (j - 1)] = Top.todo[j]
        BY <1>2, <1>4, <3>3
      <3> QED
        BY <1>3, <2>2, <3>1, <3>3, <3>4 DEF HasEnd
    <2> QED
      BY <2>1, <2>2
  <1> QED
    BY <1>3, <1>5, <1>6 DEF Lost

-----------------------------------------------------------------------------
(* Where the innermost activity is, by its next operation.                  *)

LEMMA TailIs ==
  ASSUME NEW s \in Seq(Ops), s # <<>>
  PROVE  /\ Len(s) \in Nat \ {0} /\ Tail(s) \in Seq(Ops) /\ Len(Tail(s)) = Len(s) - 1
         /\ \A j \in 1 .. Len(s) - 1 : Tail(s)[j] = s[j + 1]
  OBVIOUS

\* The turns of a scroll.
LEMMA ScrollAt ==
  /\ Len(ScrollOps) = Size /\ Size - Cols \in Nat /\ Cols \in Nat \ {0}
  /\ \A n \in 1 .. Size :
       ScrollOps[n] = IF n <= Size - Cols THEN Copy(n - 1 + Cols, n - 1) ELSE Put(Space, n - 1)
  <1> DEFINE k == Size - Cols
             copies == [n \in 1 .. k |-> Copy(n - 1 + Cols, n - 1)]
             spaces == [n \in 1 .. Cols |-> Put(Space, k + n - 1)]
  <1>1. k \in Nat /\ Cols \in Nat \ {0} /\ Size \in Nat /\ k + Cols = Size
    <2>1. Size - Cols = (Rows - 1) * Cols /\ (Rows - 1) * Cols \in Nat
      BY SizeAssumption DEF Size
    <2> QED
      BY <2>1, Area, SizeAssumption
  <1>2. /\ copies \in Seq(Ops) /\ Len(copies) = k
        /\ spaces \in Seq(Ops) /\ Len(spaces) = Cols
    <2>1. ASSUME NEW n \in 1 .. k
          PROVE  Copy(n - 1 + Cols, n - 1) \in Ops
      <3>1. n - 1 + Cols \in CellIds /\ n - 1 \in CellIds
        BY <1>1 DEF CellIds
      <3> QED
        BY <3>1, CalmOpsOf DEF Ops
    <2>2. ASSUME NEW n \in 1 .. Cols
          PROVE  Put(Space, k + n - 1) \in Ops
      <3>1. k + n - 1 \in CellIds
        BY <1>1 DEF CellIds
      <3> QED
        BY <3>1, TextTyped, CalmOpsOf DEF Ops
    <2>3. copies \in [1 .. k -> Ops] /\ spaces \in [1 .. Cols -> Ops]
      BY <2>1, <2>2
    <2> HIDE DEF copies, spaces
    <2> QED
      BY <1>1, <2>3
  <1>3. IsJoined(copies \o spaces, copies, spaces)
    BY <1>2, Joined
  <1>4. ScrollOps = copies \o spaces
    BY DEF ScrollOps
  <1>5. \A n \in 1 .. k : copies[n] = Copy(n - 1 + Cols, n - 1)
    OBVIOUS
  <1>6. \A n \in 1 .. Cols : spaces[n] = Put(Space, k + n - 1)
    OBVIOUS
  <1> HIDE DEF copies, spaces, k
  <1>7. /\ Len(ScrollOps) = Size
        /\ \A n \in 1 .. k : ScrollOps[n] = copies[n]
        /\ \A n \in 1 .. Cols : ScrollOps[k + n] = spaces[n]
    BY <1>1, <1>2, <1>3, <1>4 DEF IsJoined
  <1>8. ASSUME NEW n \in 1 .. Size
        PROVE  ScrollOps[n] = IF n <= k THEN Copy(n - 1 + Cols, n - 1) ELSE Put(Space, n - 1)
    <2>1. CASE n <= k
      <3>1. n \in 1 .. k
        BY <1>1, <2>1
      <3> QED
        BY <1>5, <1>7, <2>1, <3>1
    <2>2. CASE ~(n <= k)
      <3>1. n - k \in 1 .. Cols /\ k + (n - k) = n
        BY <1>1, <2>2
      <3>2. ScrollOps[n] = Put(Space, k + (n - k) - 1)
        BY <1>6, <1>7, <3>1
      <3> QED
        BY <1>1, <2>2, <3>1, <3>2
    <2> QED
      BY <2>1, <2>2
  <1> QED
    BY <1>1, <1>7, <1>8 DEF k

LEMMA ScrollNames ==
  ASSUME NEW n \in 1 .. Size
  PROVE  /\ ScrollOps[n].op \in {"put", "copy"} /\ ScrollOps[n].to = n - 1
         /\ ScrollOps[n].op = "copy" => n <= Size - Cols /\ ScrollOps[n].from = n - 1 + Cols
         /\ ScrollOps[n].op = "put" => n > Size - Cols /\ ScrollOps[n].ch = Space
  <1>1. Size - Cols \in Nat /\ n \in Nat
    BY ScrollAt, Area
  <1>2. CASE n <= Size - Cols
    BY <1>1, <1>2, ScrollAt DEF Copy
  <1>3. CASE ~(n <= Size - Cols)
    BY <1>1, <1>3, ScrollAt DEF Put
  <1> QED
    BY <1>2, <1>3

LEMMA FeedNext ==
  ASSUME NEW todo \in Seq(Ops), NEW n \in 1 .. Size, NEW y, FeedTodo(todo, n, y)
  PROVE  todo # <<>> /\ todo[1] = ScrollOps[n] /\ FeedTodo(Tail(todo), n + 1, y)
  <1>1. n \in Nat /\ Size \in Nat /\ n <= Size /\ n >= 1
    BY Area
  <1>2. todo # <<>> /\ Len(todo) \in Nat /\ Len(todo) >= Size + 2 - n
    BY <1>1 DEF FeedTodo
  <1>3. todo[1] = ScrollOps[n]
    <2>1. 1 \in 1 .. Size + 1 - n /\ n + 1 - 1 = n
      BY <1>1
    <2> QED
      BY <2>1 DEF FeedTodo
  <1> DEFINE s == Tail(todo)
  <1>4. /\ Len(s) = Len(todo) - 1
        /\ \A j \in 1 .. Len(todo) - 1 : s[j] = todo[j + 1]
    BY <1>2, TailIs
  <1> HIDE DEF s
  <1>5. Len(s) >= Size + 2 - (n + 1)
    BY <1>1, <1>2, <1>4
  <1>6. ASSUME NEW j \in 1 .. Size + 1 - (n + 1)
        PROVE  s[j] = ScrollOps[n + 1 + j - 1]
    <2>1. j + 1 \in 1 .. Size + 1 - n /\ j \in 1 .. Len(todo) - 1 /\ n + (j + 1) - 1 = n + 1 + j - 1
      BY <1>1, <1>2
    <2> QED
      BY <1>4, <2>1 DEF FeedTodo
  <1>7. s[Size + 2 - (n + 1)] = Cursor(0, y)
    <2>1. Size + 2 - (n + 1) \in 1 .. Len(todo) - 1 /\ Size + 2 - (n + 1) + 1 = Size + 2 - n
      BY <1>1, <1>2
    <2> QED
      BY <1>4, <2>1 DEF FeedTodo
  <1>8. ASSUME NEW j \in Size + 3 - (n + 1) .. Len(s)
        PROVE  s[j].op \in PlainNames
    <2>1. j + 1 \in Size + 3 - n .. Len(todo) /\ j \in 1 .. Len(todo) - 1
      BY <1>1, <1>2, <1>4
    <2> QED
      BY <1>4, <2>1 DEF FeedTodo
  <1>9. FeedTodo(s, n + 1, y)
    BY <1>5, <1>6, <1>7, <1>8 DEF FeedTodo
  <1> QED
    BY <1>2, <1>3, <1>9 DEF s

LEMMA FeedLast ==
  ASSUME NEW todo \in Seq(Ops), NEW y, FeedTodo(todo, Size + 1, y)
  PROVE  todo # <<>> /\ todo[1] = Cursor(0, y) /\ Plain(Tail(todo))
  <1>1. Size \in Nat /\ Size + 2 - (Size + 1) = 1 /\ Size + 3 - (Size + 1) = 2
    BY Area
  <1>2. todo # <<>> /\ Len(todo) \in Nat /\ Len(todo) >= 1 /\ todo[1] = Cursor(0, y)
        /\ \A j \in 2 .. Len(todo) : todo[j].op \in PlainNames
    BY <1>1 DEF FeedTodo
  <1>3. ASSUME NEW j \in 1 .. Len(Tail(todo)) PROVE Tail(todo)[j].op \in PlainNames
    <2>1. j + 1 \in 2 .. Len(todo) /\ Tail(todo)[j] = todo[j + 1]
      BY <1>2, TailIs
    <2> QED
      BY <1>2, <2>1
  <1> QED
    BY <1>2, <1>3 DEF Plain

LEMMA PlainTail ==
  ASSUME NEW todo \in Seq(Ops), todo # <<>>, Plain(todo)
  PROVE  Plain(Tail(todo)) /\ todo[1].op \in PlainNames
  <1>1. ASSUME NEW j \in 1 .. Len(Tail(todo)) PROVE Tail(todo)[j].op \in PlainNames
    <2>1. j + 1 \in 1 .. Len(todo) /\ Tail(todo)[j] = todo[j + 1]
      BY TailIs
    <2> QED
      BY <2>1 DEF Plain
  <1>2. 1 \in 1 .. Len(todo)
    BY TailIs
  <1> QED
    BY <1>1, <1>2 DEF Plain

\* What the innermost activity does next tells where it is.
LEMMA HeadTells ==
  ASSUME Types, Running, Top.todo # <<>>, InStep
  PROVE  /\ Now.op \in PlainNames => Between(Top.todo)
         /\ Now.op = "put" =>
              Placing(Top.todo) \/ \E n \in 1 .. Size : FeedingAt(Top.todo, n) /\ Now = ScrollOps[n]
         /\ Now.op = "copy" => \E n \in 1 .. Size : FeedingAt(Top.todo, n) /\ Now = ScrollOps[n]
         /\ Now.op = "take" => Placing(Top.todo) \/ FeedTaking(Top.todo)
         /\ Now.op = "cursor" => FeedingAt(Top.todo, Size + 1) /\ Now = Cursor(0, Len(paper) - 1)
         /\ Now.op # "paint"
  <1>1. Top.todo \in Seq(Ops) /\ Now = Top.todo[1]
    BY TopTyped, NowTyped
  <1>2. CASE Between(Top.todo)
    <2>1. Now.op \in PlainNames
      BY <1>1, <1>2, PlainTail DEF Between
    <2> QED
      BY <1>2, <2>1 DEF PlainNames
  <1>3. CASE Placing(Top.todo)
    BY <1>1, <1>3 DEF Placing, PlainNames
  <1>4. CASE FeedTaking(Top.todo)
    <2>1. Now.op = "take"
      BY <1>1, <1>4 DEF FeedTaking, FeedTakingAt
    <2> QED
      BY <1>4, <2>1 DEF PlainNames
  <1>5. CASE Feeding(Top.todo)
    <2>1. PICK n \in 1 .. Size + 1 : FeedingAt(Top.todo, n)
      BY <1>5 DEF Feeding
    <2>2. FeedTodo(Top.todo, n, Len(paper) - 1)
      BY <2>1 DEF FeedingAt
    <2>3. CASE n \in 1 .. Size
      <3>1. Now = ScrollOps[n]
        BY <1>1, <2>2, <2>3, FeedNext
      <3>2. Now.op \in {"put", "copy"}
        BY <2>3, <3>1, ScrollNames
      <3> QED
        BY <2>1, <2>3, <3>1, <3>2 DEF PlainNames
    <2>4. CASE n = Size + 1
      <3>1. Now = Cursor(0, Len(paper) - 1)
        BY <1>1, <2>2, <2>4, FeedLast
      <3>2. Now.op = "cursor"
        BY <3>1 DEF Cursor
      <3> QED
        BY <2>1, <2>4, <3>1, <3>2 DEF PlainNames
    <2> QED
      BY <2>3, <2>4, Area
  <1> QED
    BY <1>2, <1>3, <1>4, <1>5 DEF InStep

LEMMA NothingLeft ==
  ASSUME Types, Running, Top.todo = <<>>, InStep
  PROVE  Between(Top.todo)
  <1>1. \A n \in 1 .. Size + 1 : ~FeedingAt(Top.todo, n)
    <2>1. TAKE n \in 1 .. Size + 1
    <2>2. SUFFICES ASSUME FeedTodo(Top.todo, n, Len(paper) - 1) PROVE FALSE
      BY DEF FeedingAt
    <2>3. Len(Top.todo) = 0 /\ Size + 2 - n > 0
      BY Area
    <2> QED
      BY <2>2, <2>3, Area DEF FeedTodo
  <1> QED
    BY <1>1 DEF InStep, Placing, Feeding, FeedTaking, FeedTakingAt

-----------------------------------------------------------------------------
(* Cells and the lines of the paper.                                        *)

LEMMA Placed ==
  ASSUME NEW i \in CellIds
  PROVE  /\ i % Cols \in 0 .. Cols - 1 /\ i \div Cols \in 0 .. Rows - 1
         /\ i = CellAt(i % Cols, i \div Cols)
  <1> DEFINE x == i % Cols
             y == i \div Cols
  <1>1. i \in Nat /\ Cols \in Nat \ {0} /\ Rows \in Nat \ {0} /\ i < Rows * Cols
    BY Area, SizeAssumption DEF CellIds, Size
  <1>2. x \in 0 .. Cols - 1 /\ y \in Nat /\ i = Cols * y + x
    BY <1>1
  <1> HIDE DEF x, y
  <1>3. y < Rows
    <2>1. SUFFICES ASSUME y >= Rows PROVE FALSE
      BY <1>1, <1>2
    <2>2. Cols * y >= Cols * Rows /\ Cols * Rows = Rows * Cols /\ Cols * y \in Nat
      BY <1>1, <1>2, <2>1
    <2> QED
      BY <1>1, <1>2, <2>2
  <1>4. i = y * Cols + x
    BY <1>1, <1>2
  <1> QED
    BY <1>1, <1>2, <1>3, <1>4 DEF x, y, CellAt

LEMMA PlaceOf ==
  ASSUME NEW x \in 0 .. Cols - 1, NEW y \in 0 .. Rows - 1
  PROVE  /\ CellAt(x, y) \in CellIds
         /\ CellAt(x, y) % Cols = x /\ CellAt(x, y) \div Cols = y
  <1>1. Cols \in Nat \ {0} /\ Rows \in Nat \ {0} /\ x \in Nat /\ y \in Nat /\ x < Cols /\ y < Rows
    BY SizeAssumption
  <1>2. CellAt(x, y) = y * Cols + x
    BY DEF CellAt
  <1>3. (y * Cols + x) \div Cols = y
    BY <1>1
  <1>4. (y * Cols + x) % Cols = x
    BY <1>1
  <1> QED
    BY <1>1, <1>2, <1>3, <1>4, CellInRange

\* The cell a line further up.
LEMMA PlaceAbove ==
  ASSUME NEW i \in CellIds, i >= Cols
  PROVE  /\ i - Cols \in CellIds /\ i \div Cols \in 1 .. Rows - 1
         /\ (i - Cols) % Cols = i % Cols /\ (i - Cols) \div Cols = i \div Cols - 1
  <1> DEFINE x == i % Cols
             y == i \div Cols
  <1>1. /\ x \in 0 .. Cols - 1 /\ y \in 0 .. Rows - 1 /\ i = y * Cols + x
        /\ Cols \in Nat \ {0} /\ Rows \in Nat \ {0}
    BY Placed, SizeAssumption DEF CellAt
  <1> HIDE DEF x, y
  <1>2. y # 0
    <2>1. SUFFICES ASSUME y = 0 PROVE FALSE
      OBVIOUS
    <2>2. i = x
      BY <1>1, <2>1
    <2> QED
      BY <1>1, <2>2
  <1>3. y - 1 \in 0 .. Rows - 1 /\ y \in 1 .. Rows - 1
    BY <1>1, <1>2
  <1>4. i - Cols = CellAt(x, y - 1)
    <2>1. (y - 1) * Cols = y * Cols - Cols /\ y * Cols \in Nat
      BY <1>1
    <2> QED
      BY <1>1, <2>1 DEF CellAt
  <1> QED
    BY <1>1, <1>3, <1>4, PlaceOf DEF x, y

\* The cells of the last row.
LEMMA LastRow ==
  ASSUME NEW x \in 0 .. Cols - 1, NEW y \in 0 .. Rows - 1, y * Cols + x >= Size - Cols
  PROVE  y = Rows - 1
  <1>0. Rows \in Nat \ {0} /\ Cols \in Nat \ {0}
    BY SizeAssumption
  <1>1. SUFFICES ASSUME y <= Rows - 2 PROVE FALSE
    BY <1>0
  <1>2. (Rows - 1) * Cols = Rows * Cols - Cols /\ (y + 1) * Cols = y * Cols + Cols
    BY <1>0
  <1>3. (y + 1) * Cols <= (Rows - 1) * Cols
    BY <1>0, <1>1
  <1>4. Rows * Cols \in Nat /\ y * Cols \in Nat
    BY <1>0
  <1>5. y * Cols + x >= Rows * Cols - Cols
    BY DEF Size
  <1> QED
    BY <1>0, <1>2, <1>3, <1>4, <1>5

Papers == Seq(Seq(Chars))

LEMMA OnPaperTyped ==
  ASSUME NEW p \in Papers, NEW x \in Nat, NEW y \in Nat
  PROVE  OnPaper(p, x, y) \in Chars
  <1>1. CASE y < Len(p) /\ x < Len(p[y + 1])
    <2>1. y + 1 \in 1 .. Len(p) /\ p[y + 1] \in Seq(Chars)
      BY <1>1 DEF Papers
    <2>2. x + 1 \in 1 .. Len(p[y + 1])
      BY <1>1, <2>1
    <2>3. p[y + 1][x + 1] \in Chars
      BY <2>1, <2>2
    <2> QED
      BY <1>1, <2>3 DEF OnPaper
  <1>2. CASE ~(y < Len(p) /\ x < Len(p[y + 1]))
    BY <1>2, TextTyped DEF OnPaper
  <1> QED
    BY <1>1, <1>2

LEMMA OnCellsTyped ==
  ASSUME NEW p \in Papers
  PROVE  OnCells(p) \in Screens
  <1>1. ASSUME NEW i \in CellIds PROVE OnPaper(p, i % Cols, i \div Cols) \in Chars
    BY Placed, OnPaperTyped, SizeAssumption
  <1> QED
    BY <1>1 DEF OnCells, Screens

\* A new line below the last changes nothing on the screen ...
LEMMA FedBelow ==
  ASSUME NEW p \in Papers
  PROVE  Append(p, <<>>) \in Papers /\ OnCells(Append(p, <<>>)) = OnCells(p)
  <1> DEFINE q == Append(p, <<>>)
  <1>1. <<>> \in Seq(Chars)
    OBVIOUS
  <1>2. /\ q \in Papers /\ Len(q) = Len(p) + 1 /\ Len(p) \in Nat /\ q[Len(p) + 1] = <<>>
        /\ \A n \in 1 .. Len(p) : q[n] = p[n]
    BY <1>1 DEF Papers
  <1> HIDE DEF q
  <1>3. ASSUME NEW x \in Nat, NEW y \in Nat
        PROVE  OnPaper(q, x, y) = OnPaper(p, x, y)
    <2>1. CASE y < Len(p)
      <3>1. y + 1 \in 1 .. Len(p) /\ y < Len(q)
        BY <1>2, <2>1
      <3> QED
        BY <1>2, <2>1, <3>1 DEF OnPaper
    <2>2. CASE y = Len(p)
      <3>1. ~(x < Len(q[y + 1])) /\ ~(y < Len(p))
        <4>1. Len(<<>>) = 0
          OBVIOUS
        <4> QED
          BY <1>2, <2>2, <4>1
      <3> QED
        BY <3>1 DEF OnPaper
    <2>3. CASE y > Len(p)
      BY <1>2, <2>3 DEF OnPaper
    <2> QED
      BY <1>2, <2>1, <2>2, <2>3
  <1>4. \A i \in CellIds : OnPaper(q, i % Cols, i \div Cols) = OnPaper(p, i % Cols, i \div Cols)
    BY <1>3, Placed, SizeAssumption
  <1>5. OnCells(q) = OnCells(p)
    BY <1>4 DEF OnCells
  <1> QED
    BY <1>2, <1>5 DEF q

\* ... but when the screen is full everything moves up.
LEMMA FedFull ==
  ASSUME NEW p \in Papers, Len(p) = Rows
  PROVE  /\ Append(Tail(p), <<>>) \in Papers /\ Len(Append(Tail(p), <<>>)) = Rows
         /\ \A i \in CellIds : i >= Cols =>
              OnCells(Append(Tail(p), <<>>))[i - Cols] = OnCells(p)[i]
         /\ \A i \in CellIds : i >= Size - Cols => OnCells(Append(Tail(p), <<>>))[i] = Space
  <1> DEFINE t == Tail(p)
             q == Append(t, <<>>)
  <1>0. Rows \in Nat \ {0} /\ Cols \in Nat \ {0}
    BY SizeAssumption
  <1>1. /\ t \in Papers /\ Len(t) = Rows - 1
        /\ \A n \in 1 .. Rows - 1 : t[n] = p[n + 1]
    BY <1>0 DEF Papers
  <1> HIDE DEF t
  <1>2. <<>> \in Seq(Chars) /\ Len(<<>>) = 0
    OBVIOUS
  <1>3. /\ q \in Papers /\ Len(q) = Rows /\ q[Rows] = <<>>
        /\ \A n \in 1 .. Rows - 1 : q[n] = p[n + 1]
    BY <1>0, <1>1, <1>2 DEF Papers
  <1> HIDE DEF q
  <1>4. ASSUME NEW x \in Nat, NEW y \in 1 .. Rows - 1
        PROVE  OnPaper(q, x, y - 1) = OnPaper(p, x, y)
    <2>1. y - 1 < Len(q) /\ y < Len(p) /\ y - 1 + 1 = y /\ y \in 1 .. Rows - 1
      BY <1>0, <1>3
    <2>2. q[y - 1 + 1] = p[y + 1]
      BY <1>3, <2>1
    <2> QED
      BY <2>1, <2>2 DEF OnPaper
  <1>5. ASSUME NEW i \in CellIds, i >= Cols
        PROVE  OnCells(q)[i - Cols] = OnCells(p)[i]
    <2>1. /\ i - Cols \in CellIds /\ i \div Cols \in 1 .. Rows - 1
          /\ (i - Cols) % Cols = i % Cols /\ (i - Cols) \div Cols = i \div Cols - 1
      BY <1>5, PlaceAbove
    <2>2. i % Cols \in Nat
      BY Placed, <1>0
    <2>3. OnPaper(q, i % Cols, i \div Cols - 1) = OnPaper(p, i % Cols, i \div Cols)
      BY <1>4, <2>1, <2>2
    <2> QED
      BY <2>1, <2>3 DEF OnCells
  <1>6. ASSUME NEW i \in CellIds, i >= Size - Cols
        PROVE  OnCells(q)[i] = Space
    <2> DEFINE x == i % Cols
               y == i \div Cols
    <2>1. x \in 0 .. Cols - 1 /\ y \in 0 .. Rows - 1 /\ i = y * Cols + x
      BY Placed DEF CellAt
    <2> HIDE DEF x, y
    <2>2. y = Rows - 1
      BY <1>0, <1>6, <2>1, LastRow
    <2>3. y + 1 = Rows /\ ~(x < Len(q[y + 1]))
      BY <1>0, <1>2, <1>3, <2>1, <2>2
    <2>4. OnPaper(q, x, y) = Space
      BY <2>3 DEF OnPaper
    <2> QED
      BY <2>4 DEF OnCells, x, y
  <1> QED
    BY <1>3, <1>5, <1>6 DEF t, q

\* A character goes to the cell after the last line's last, if the screen has one.
Lengthened(p, c) == [p EXCEPT ![Len(p)] = Append(@, c)]

LEMMA TypedOnPaper ==
  ASSUME NEW p \in Papers, Len(p) \in 1 .. Rows, NEW c \in Chars
  PROVE  /\ Lengthened(p, c) \in Papers /\ Len(Lengthened(p, c)) = Len(p)
         /\ Len(p[Len(p)]) \in Nat /\ Lengthened(p, c)[Len(p)] = Append(p[Len(p)], c)
         /\ Len(Lengthened(p, c)[Len(p)]) = Len(p[Len(p)]) + 1
         /\ \A x \in Nat, y \in Nat :
              OnPaper(Lengthened(p, c), x, y) =
                IF x = Len(p[Len(p)]) /\ y = Len(p) - 1 THEN c ELSE OnPaper(p, x, y)
  <1> DEFINE m == Len(p)
             line == p[m]
             l == Len(line)
             new == Append(line, c)
             q == [p EXCEPT ![m] = new]
  <1>1. m \in Nat \ {0} /\ m \in 1 .. Len(p) /\ line \in Seq(Chars)
    BY SizeAssumption DEF Papers
  <1> HIDE DEF line
  <1>2. /\ new \in Seq(Chars) /\ Len(new) = l + 1 /\ l \in Nat /\ new[l + 1] = c
        /\ \A n \in 1 .. l : new[n] = line[n]
    BY <1>1
  <1> HIDE DEF new, l
  <1>3. /\ q \in Papers /\ Len(q) = m /\ q[m] = new
        /\ \A n \in 1 .. m : n # m => q[n] = p[n]
    BY <1>1, <1>2 DEF Papers
  <1>4. Lengthened(p, c) = q
    BY DEF Lengthened, new, line
  <1> HIDE DEF q
  <1>5. ASSUME NEW x \in Nat, NEW y \in Nat
        PROVE  OnPaper(q, x, y) = IF x = l /\ y = m - 1 THEN c ELSE OnPaper(p, x, y)
    <2>1. CASE y + 1 # m
      <3>1. y < Len(p) => y + 1 \in 1 .. m
        BY <1>1
      <3>2. y < Len(p) => q[y + 1] = p[y + 1]
        BY <1>3, <2>1, <3>1
      <3>3. y # m - 1
        BY <1>1, <2>1
      <3> QED
        BY <1>3, <3>2, <3>3 DEF OnPaper
    <2>2. CASE y + 1 = m
      <3>1. y < Len(q) /\ y < Len(p) /\ q[y + 1] = new /\ p[y + 1] = line /\ y = m - 1
        BY <1>1, <1>3, <2>2 DEF line
      <3>2. OnPaper(q, x, y) = IF x < l + 1 THEN new[x + 1] ELSE Space
        BY <1>2, <3>1 DEF OnPaper
      <3>3. OnPaper(p, x, y) = IF x < l THEN line[x + 1] ELSE Space
        BY <3>1 DEF OnPaper, l
      <3>4. CASE x = l
        BY <1>2, <3>1, <3>2, <3>4
      <3>5. CASE x < l
        <4>1. x + 1 \in 1 .. l /\ x < l + 1 /\ x # l
          BY <1>2, <3>5
        <4> QED
          BY <1>2, <3>2, <3>3, <3>5, <4>1
      <3>6. CASE x > l
        <4>1. ~(x < l + 1) /\ ~(x < l) /\ x # l
          BY <1>2, <3>6
        <4> QED
          BY <3>2, <3>3, <4>1
      <3> QED
        BY <1>2, <3>4, <3>5, <3>6
    <2> QED
      BY <2>1, <2>2
  <1> QED
    BY <1>1, <1>2, <1>3, <1>4, <1>5 DEF l, line, new

LEMMA TypedOnCells ==
  ASSUME NEW p \in Papers, Len(p) \in 1 .. Rows, NEW c \in Chars
  PROVE  OnCells(Lengthened(p, c)) =
           IF Len(p[Len(p)]) < Cols
             THEN Set(OnCells(p), CellAt(Len(p[Len(p)]), Len(p) - 1), c)
           ELSE OnCells(p)
  <1> DEFINE l == Len(p[Len(p)])
             m == Len(p) - 1
             q == Lengthened(p, c)
             k == CellAt(l, m)
  <1>1. /\ l \in Nat /\ m \in 0 .. Rows - 1 /\ Cols \in Nat \ {0} /\ Rows \in Nat \ {0}
        /\ \A x \in Nat, y \in Nat :
             OnPaper(q, x, y) = IF x = l /\ y = m THEN c ELSE OnPaper(p, x, y)
    BY TypedOnPaper, SizeAssumption
  <1> HIDE DEF l, m, q
  <1>2. ASSUME NEW i \in CellIds
        PROVE  OnCells(q)[i] = IF l < Cols /\ i = k THEN c ELSE OnCells(p)[i]
    <2> DEFINE x == i % Cols
               y == i \div Cols
    <2>1. x \in 0 .. Cols - 1 /\ y \in 0 .. Rows - 1 /\ i = CellAt(x, y)
      BY Placed
    <2>2. OnCells(q)[i] = OnPaper(q, x, y) /\ OnCells(p)[i] = OnPaper(p, x, y)
      BY DEF OnCells
    <2> HIDE DEF x, y
    <2>3. OnPaper(q, x, y) = IF x = l /\ y = m THEN c ELSE OnPaper(p, x, y)
      BY <1>1, <2>1
    <2>4. l < Cols /\ i = k => x = l /\ y = m
      <3>1. SUFFICES ASSUME l < Cols, i = k PROVE x = l /\ y = m
        OBVIOUS
      <3>2. l \in 0 .. Cols - 1
        BY <1>1, <3>1
      <3> QED
        BY <1>1, <3>1, <3>2, PlaceOf DEF x, y
    <2>5. x = l /\ y = m => l < Cols /\ i = k
      BY <1>1, <2>1
    <2> QED
      BY <2>2, <2>3, <2>4, <2>5
  <1>3. CASE l < Cols
    <2>1. DOMAIN OnCells(p) = CellIds
      BY DEF OnCells
    <2>2. OnCells(q) = [i \in CellIds |-> IF i = k THEN c ELSE OnCells(p)[i]]
      BY <1>2, <1>3 DEF OnCells
    <2>3. OnCells(q) = Set(OnCells(p), k, c)
      BY <2>1, <2>2 DEF Set
    <2> QED
      BY <1>3, <2>3 DEF l, m, q
  <1>4. CASE ~(l < Cols)
    <2>1. \A i \in CellIds : OnCells(q)[i] = OnCells(p)[i]
      BY <1>2, <1>4
    <2>2. OnCells(q) = OnCells(p)
      BY <2>1 DEF OnCells
    <2> QED
      BY <1>4, <2>2 DEF l, q
  <1> QED
    BY <1>3, <1>4

-----------------------------------------------------------------------------
(* What the cells will show.                                                *)

LEMMA VisibleTyped ==
  ASSUME Types
  PROVE  Visible \in Screens /\ \A i \in CellIds : Visible[i] = Pending(i)
  <1>1. ASSUME NEW i \in CellIds PROVE Pending(i) \in Chars
    <2>1. map[i] \in 0 .. Size /\ grid[i] \in Chars
      BY DEF Types
    <2>2. map[i] # 0 => slots[map[i]].ch \in Chars
      BY <2>1, Area DEF Types
    <2> QED
      BY <2>1, <2>2 DEF Pending
  <1> QED
    BY <1>1 DEF Visible, Screens

LEMMA VisibleStays ==
  ASSUME UNCHANGED <<grid, pending>>
  PROVE  Visible' = Visible
  BY DEF Visible, Pending, pending

LEMMA SetIs ==
  ASSUME NEW screen \in Screens, NEW i \in CellIds, NEW ch
  PROVE  Set(screen, i, ch) = [j \in CellIds |-> IF j = i THEN ch ELSE screen[j]]
  BY DEF Set, Screens

\* push_to_queue either has the effect of the whole call or takes a slot.
Stored ==
  /\ Becomes(<<>>) /\ queueI' = queueI
  /\ Visible' = Set(Visible, Now.to, Content)
Counted ==
  /\ Becomes(<< Take(queueI + 1, Now.to, Content) >>)
  /\ Visible' = Visible

LEMMA PushVisible ==
  ASSUME Sound, Push
  PROVE  Stored \/ Counted
  <1> DEFINE i == Now.to
  <1>1. Running /\ Top.todo # <<>> /\ CalmTop /\ (Now.op = "put" \/ Now.op = "copy")
    BY OtherOps DEF Push
  <1>2. grid' = grid /\ map' = map
    BY DEF Push
  <1>3. Types
    BY DEF Sound
  <1>4. Content \in Chars /\ i \in CellIds
    BY <1>1, <1>3, ContentTyped
  <1>5. Waiting(1, queueI)
    BY <1>1, CalmWaits DEF Sound
  <1>6. /\ queueI \in 0 .. Size /\ map \in [CellIds -> 0 .. Size] /\ Size \in Nat
        /\ slots \in [1 .. Size -> [cell : CellIds, ch : Chars]]
    BY <1>3, Area DEF Types
  <1>7. Visible \in Screens /\ \A j \in CellIds : Visible[j] = Pending(j)
    BY <1>3, VisibleTyped
  <1> HIDE DEF i
  <1>8. Set(Visible, i, Content) = [j \in CellIds |-> IF j = i THEN Content ELSE Visible[j]]
    BY <1>4, <1>7, SetIs
  <1>9. CASE map[i] # 0 /\ slots' = [slots EXCEPT ![map[i]].ch = Content]
             /\ Becomes(<<>>) /\ queueI' = queueI
    <2>1. map[i] \in 1 .. Size
      BY <1>4, <1>6, <1>9
    <2>2. /\ slots'[map[i]].ch = Content
          /\ \A k \in 1 .. Size : k # map[i] => slots'[k] = slots[k]
      BY <1>4, <1>6, <1>9, <2>1
    <2>3. ASSUME NEW j \in CellIds
          PROVE  Pending(j)' = IF j = i THEN Content ELSE Pending(j)
      <3>1. CASE j = i
        BY <1>2, <1>9, <2>2, <3>1 DEF Pending
      <3>2. CASE j # i /\ map[j] # 0
        <4>1. map[j] # map[i] /\ map[j] \in 1 .. Size
          BY <1>4, <1>5, <1>6, <1>9, <3>2 DEF Waiting
        <4>2. slots'[map[j]] = slots[map[j]]
          BY <2>2, <4>1
        <4> QED
          BY <1>2, <3>2, <4>2 DEF Pending
      <3>3. CASE j # i /\ map[j] = 0
        BY <1>2, <3>3 DEF Pending
      <3> QED
        BY <3>1, <3>2, <3>3
    <2>4. Visible' = [j \in CellIds |-> IF j = i THEN Content ELSE Visible[j]]
      BY <1>7, <2>3 DEF Visible
    <2> QED
      BY <1>8, <1>9, <2>4 DEF Stored, i
  <1>10. CASE map[i] = 0 /\ grid[i] = Content /\ Becomes(<<>>) /\ UNCHANGED <<slots, queueI>>
    <2>1. Visible' = Visible
      BY <1>2, <1>10, VisibleStays DEF pending
    <2>2. Visible[i] = Content
      BY <1>4, <1>7, <1>10 DEF Pending
    <2>3. Visible = [j \in CellIds |-> IF j = i THEN Content ELSE Visible[j]]
      <3>1. \A j \in CellIds : Visible[j] = IF j = i THEN Content ELSE Visible[j]
        BY <2>2
      <3> QED
        BY <1>7, <3>1 DEF Screens
    <2> QED
      BY <1>8, <1>10, <2>1, <2>3 DEF Stored, i
  <1>11. CASE /\ map[i] = 0 /\ UNCHANGED slots
              /\ Becomes(<< Take(queueI + 1, i, Content) >>)
    <2>1. Visible' = Visible
      BY <1>2, <1>11 DEF Visible, Pending
    <2> QED
      BY <1>11, <2>1 DEF Counted, i
  <1> QED
    BY <1>9, <1>10, <1>11 DEF Push, i

LEMMA TakeVisible ==
  ASSUME Sound, TakeSlot
  PROVE  Becomes(<<>>) /\ Visible' = Set(Visible, Now.to, Now.ch) /\ UNCHANGED <<ended>>
  <1> DEFINE i == Now.to
             ch == Now.ch
  <1>1. Types /\ Runs("take")
    BY DEF Sound, TakeSlot
  <1>2. Running /\ Top.todo # <<>> /\ Now.op = "take"
    BY <1>1, OtherOps
  <1>3. Now.slot = queueI /\ queueI > 0 /\ map[i] = 0 /\ Waiting(1, queueI - 1)
    BY <1>1 DEF Sound, Queue
  <1>4. i \in CellIds /\ ch \in Chars
    BY <1>1, <1>2, NowTyped, OpFields
  <1>5. /\ queueI \in 1 .. Size /\ map \in [CellIds -> 0 .. Size] /\ Size \in Nat
        /\ slots \in [1 .. Size -> [cell : CellIds, ch : Chars]]
    BY <1>1, <1>3, Area DEF Types
  <1>6. /\ slots' = [slots EXCEPT ![queueI] = [cell |-> i, ch |-> ch]]
        /\ map' = [map EXCEPT ![i] = queueI]
        /\ Becomes(<<>>) /\ grid' = grid /\ ended' = ended
    BY <1>3, <1>5 DEF TakeSlot
  <1>7. Visible \in Screens /\ \A j \in CellIds : Visible[j] = Pending(j)
    BY <1>1, VisibleTyped
  <1> HIDE DEF i, ch
  <1>8. Set(Visible, i, ch) = [j \in CellIds |-> IF j = i THEN ch ELSE Visible[j]]
    BY <1>4, <1>7, SetIs
  <1>9. /\ slots'[queueI].ch = ch
        /\ \A k \in 1 .. Size : k # queueI => slots'[k] = slots[k]
        /\ map'[i] = queueI /\ \A c \in CellIds : c # i => map'[c] = map[c]
    BY <1>4, <1>5, <1>6
  <1>10. ASSUME NEW j \in CellIds
         PROVE  Pending(j)' = IF j = i THEN ch ELSE Pending(j)
    <2>1. CASE j = i
      BY <1>3, <1>9, <2>1 DEF Pending
    <2>2. CASE j # i /\ map[j] # 0
      <3>1. map[j] \in 1 .. queueI - 1
        BY <1>3, <2>2 DEF Waiting
      <3>2. map[j] \in 1 .. Size /\ map[j] # queueI
        BY <1>5, <3>1
      <3>3. slots'[map[j]] = slots[map[j]] /\ map'[j] = map[j]
        BY <1>9, <2>2, <3>2
      <3> QED
        BY <2>2, <3>3 DEF Pending
    <2>3. CASE j # i /\ map[j] = 0
      <3>1. map'[j] = 0
        BY <1>9, <2>3
      <3> QED
        BY <1>6, <2>3, <3>1 DEF Pending
    <2> QED
      BY <2>1, <2>2, <2>3
  <1>11. Visible' = [j \in CellIds |-> IF j = i THEN ch ELSE Visible[j]]
    BY <1>7, <1>10 DEF Visible
  <1> QED
    BY <1>6, <1>8, <1>11 DEF i, ch

\* A flush changes nothing: what waited is in the grid afterwards.
LEMMA TurnVisible ==
  ASSUME Sound, FlushTurn, shown = grid
  PROVE  Visible' = Visible /\ shown' = grid' /\ Becomes(<< Turn(Now.k + 1) >>)
  <1> DEFINE k == Now.k
             i == slots[k].cell
  <1>1. Types /\ Runs("turn") /\ k <= queueI
    BY DEF Sound, FlushTurn
  <1>2. Running /\ Top.todo # <<>> /\ Now.op = "turn"
    BY <1>1, OtherOps
  <1>3. k \in 1 .. queueI + 1 /\ Waiting(k, queueI)
    BY <1>1 DEF Sound, Queue
  <1>4. k \in Nat \ {0}
    BY <1>1, <1>2, NowTyped, OpFields
  <1>5. /\ queueI \in 0 .. Size /\ map \in [CellIds -> 0 .. Size] /\ Size \in Nat
        /\ slots \in [1 .. Size -> [cell : CellIds, ch : Chars]]
        /\ grid \in [CellIds -> Chars]
    BY <1>1, Area DEF Types
  <1>6. k \in 1 .. Size /\ i \in CellIds
    BY <1>1, <1>4, <1>5
  <1>7. map[i] = k /\ map[i] # 0
    BY <1>1, <1>3, <1>4, <1>5 DEF Waiting
  <1>8. /\ grid' = [grid EXCEPT ![i] = slots[k].ch]
        /\ shown' = [shown EXCEPT ![i] = slots[k].ch]
        /\ map' = [map EXCEPT ![i] = 0]
        /\ Becomes(<< Turn(k + 1) >>) /\ slots' = slots
    BY <1>7 DEF FlushTurn
  <1>9. shown' = grid'
    BY <1>8
  <1> HIDE DEF i
  <1>10. /\ grid'[i] = slots[k].ch /\ map'[i] = 0
         /\ \A j \in CellIds : j # i => grid'[j] = grid[j] /\ map'[j] = map[j]
    BY <1>5, <1>6, <1>8
  <1>11. ASSUME NEW j \in CellIds PROVE Pending(j)' = Pending(j)
    <2>1. CASE j = i
      BY <1>7, <1>8, <1>10, <2>1 DEF Pending
    <2>2. CASE j # i
      BY <1>8, <1>10, <2>2 DEF Pending
    <2> QED
      BY <2>1, <2>2
  <1>12. Visible' = Visible
    BY <1>11 DEF Visible
  <1> QED
    BY <1>8, <1>9, <1>12

LEMMA EndVisible ==
  ASSUME Sound, FlushEnd, shown = grid
  PROVE  Visible' = Visible /\ shown' = grid'
  <1>1. grid' = grid /\ slots' = slots /\ map' = map
    BY DEF FlushEnd
  <1>2. Visible' = Visible
    BY <1>1 DEF Visible, Pending
  <1>3. grid \in [CellIds -> Chars]
    BY DEF Sound, Types
  <1>4. \A i : [grid EXCEPT ![i] = grid[i]] = grid
    BY <1>3
  <1>5. shown' = grid
    BY <1>4 DEF FlushEnd
  <1> QED
    BY <1>1, <1>2, <1>5

-----------------------------------------------------------------------------
(* The steps of the innermost activity.                                     *)

LEMMA PlainJoined ==
  ASSUME NEW a \in Seq(Ops), NEW b \in Seq(Ops), Plain(a), Plain(b)
  PROVE  Plain(a \o b)
  <1> DEFINE all == a \o b
  <1>1. IsJoined(all, a, b)
    BY Joined
  <1> HIDE DEF all
  <1>2. ASSUME NEW j \in 1 .. Len(all) PROVE all[j].op \in PlainNames
    <2>1. CASE j <= Len(a)
      <3>1. j \in 1 .. Len(a) /\ all[j] = a[j]
        BY <1>1, <2>1 DEF IsJoined
      <3> QED
        BY <3>1 DEF Plain
    <2>2. CASE j > Len(a)
      <3>1. j - Len(a) \in 1 .. Len(b) /\ Len(a) + (j - Len(a)) = j
        BY <1>1, <2>2 DEF IsJoined
      <3>2. all[j] = b[j - Len(a)]
        BY <1>1, <3>1 DEF IsJoined
      <3> QED
        BY <3>1, <3>2 DEF Plain
    <2> QED
      BY <1>1, <2>1, <2>2 DEF IsJoined
  <1> QED
    BY <1>2 DEF Plain, all

\* Who is about to push flushes later.
LEMMA PusherFlushes ==
  ASSUME Types, Shape, Running, Top.todo # <<>>, Now.op \in PushNames
  PROVE  HasTurn(Tail(Top.todo)) /\ TurnAhead
  <1> DEFINE todo == Top.todo
  <1>1. /\ Len(frames) \in Nat \ {0} /\ Top = frames[Len(frames)]
        /\ todo \in Seq(Ops) /\ todo # <<>> /\ Now = todo[1] /\ Len(todo) \in Nat \ {0}
        /\ \A j \in 1 .. Len(todo) - 1 : Tail(todo)[j] = todo[j + 1]
        /\ Len(Tail(todo)) = Len(todo) - 1
    BY TopTyped, NowTyped
  <1>2. Closed(todo)
    BY <1>1 DEF Shape
  <1> HIDE DEF todo
  <1>3. PICK l \in 2 .. Len(todo) : todo[l].op = "turn"
    <2>1. 1 \in 1 .. Len(todo) /\ 1 + 1 = 2
      BY <1>1
    <2> QED
      BY <1>1, <1>2, <2>1 DEF Closed
  <1>4. l - 1 \in 1 .. Len(todo) - 1 /\ l - 1 + 1 = l
    BY <1>1
  <1>5. Tail(todo)[l - 1].op = "turn"
    BY <1>1, <1>3, <1>4
  <1>6. HasTurn(Tail(todo))
    BY <1>1, <1>4, <1>5 DEF HasTurn
  <1>7. TurnAhead
    <2>1. HasTurn(todo)
      BY <1>1, <1>3 DEF HasTurn
    <2> QED
      BY <1>1, <2>1 DEF TurnAhead, todo
  <1> QED
    BY <1>6, <1>7 DEF todo

\* A step keeps the paper if it keeps its own account of it.
LEMMA StepKeeps ==
  ASSUME Sound, PaperKept, Running, Top.todo # <<>>,
         NEW ops \in Seq(Ops), Becomes(ops), Covered(ops),
         PaperTyped', shown' = grid', InStep',
         queueI' > 0 => TurnAhead /\ (Now.op = "turn" => HasTurn(ops))
  PROVE  PaperKept'
  <1>1. Types /\ Shape
    BY DEF Sound, PaperKept
  <1>2. /\ Shape'
        /\ TurnAhead /\ (Now.op = "turn" => HasTurn(ops)) => TurnAhead'
    BY <1>1, BecomesShape
  <1> QED
    BY <1>2 DEF PaperKept

\* What the paper and the cells say stays, and so does the place.
LEMMA IdleStays ==
  ASSUME UNCHANGED <<paper, cursor>>, Visible' = Visible, Visible = Printed, AtEnd,
         Plain(Top.todo')
  PROVE  InStep'
  <1>1. Printed' = Printed /\ AtEnd'
    BY DEF Printed, AtEnd
  <1>2. Between(Top.todo)'
    BY <1>1 DEF Between
  <1> QED
    BY <1>2 DEF InStep

\* An operation that is plain replaced by plain ones, in an idle activity.
LEMMA IdleStep ==
  ASSUME Sound, PaperKept, Running, Top.todo # <<>>, Now.op \in PlainNames,
         NEW ops \in Seq(Ops), Becomes(ops), Plain(ops), Covered(ops),
         UNCHANGED <<paper, cursor>>, Visible' = Visible, shown' = grid',
         queueI' > 0 => TurnAhead /\ (Now.op = "turn" => HasTurn(ops))
  PROVE  PaperKept'
  <1>1. Types /\ Shape /\ InStep /\ PaperTyped
    BY DEF Sound, PaperKept
  <1>2. Between(Top.todo)
    BY <1>1, HeadTells
  <1>3. Top.todo' = ops \o Tail(Top.todo)
    BY <1>1, BecomesShape
  <1>4. Top.todo \in Seq(Ops) /\ Tail(Top.todo) \in Seq(Ops)
    BY <1>1, TopTyped, NowTyped
  <1>5. Plain(Tail(Top.todo))
    BY <1>2, <1>4, PlainTail DEF Between
  <1>6. Plain(Top.todo')
    BY <1>3, <1>4, <1>5, PlainJoined
  <1>7. InStep'
    BY <1>2, <1>6, IdleStays DEF Between
  <1>8. PaperTyped'
    BY <1>1 DEF PaperTyped
  <1> QED
    BY <1>7, <1>8, StepKeeps

LEMMA PrintKeeps ==
  ASSUME Sound, PaperKept, PrintText \/ PrintFirst
  PROVE  PaperKept'
  <1> DEFINE text == Now.text
             typed == [n \in DOMAIN text |-> Type(text[n])]
             ops == typed \o << Turn(1) >>
  <1>1. /\ Runs("print") /\ Becomes(ops)
        /\ UNCHANGED <<grid, pending, cursor, paper, shown>>
    BY DEF PrintText, PrintFirst, FlantermWrite
  <1>2. Running /\ Top.todo # <<>> /\ Now.op = "print"
    BY <1>1, OtherOps
  <1>3. text \in Seq(Chars)
    BY <1>2, NowTyped, OpFields DEF Sound
  <1> HIDE DEF text
  <1>4. /\ DOMAIN text = 1 .. Len(text) /\ Len(text) \in Nat
        /\ \A n \in 1 .. Len(text) : text[n] \in Chars
    BY <1>3
  <1>5. /\ typed \in Seq(Ops) /\ Len(typed) = Len(text)
        /\ \A n \in 1 .. Len(text) : typed[n].op = "type"
    <2>1. \A n \in 1 .. Len(text) : Type(text[n]) \in Ops
      BY <1>4, CalmOpsOf DEF Ops
    <2>2. typed \in [1 .. Len(text) -> Ops]
      BY <1>4, <2>1
    <2>3. \A n \in 1 .. Len(text) : typed[n].op = "type"
      BY <1>4 DEF Type
    <2> HIDE DEF typed
    <2> QED
      BY <1>4, <2>2, <2>3
  <1>6. << Turn(1) >> \in Seq(Ops) /\ Len(<< Turn(1) >>) = 1 /\ << Turn(1) >>[1].op = "turn"
    BY CalmOpsOf DEF Ops, Turn
  <1> HIDE DEF typed
  <1>7. ops \in Seq(Ops) /\ IsJoined(ops, typed, << Turn(1) >>)
    BY <1>5, <1>6, Joined
  <1> HIDE DEF ops
  <1>8. /\ Len(ops) = Len(text) + 1 /\ ops[Len(text) + 1].op = "turn"
        /\ \A n \in 1 .. Len(text) : ops[n].op = "type"
    <2>1. Len(ops) = Len(text) + 1 /\ 1 \in 1 .. Len(<< Turn(1) >>)
      BY <1>4, <1>5, <1>6, <1>7 DEF IsJoined
    <2>2. ops[Len(text) + 1] = << Turn(1) >>[1]
      BY <1>4, <1>5, <1>6, <1>7, <2>1 DEF IsJoined
    <2>3. \A n \in 1 .. Len(text) : ops[n] = typed[n]
      BY <1>5, <1>7 DEF IsJoined
    <2> QED
      BY <1>5, <1>6, <2>1, <2>2, <2>3
  <1>9. \A n \in 1 .. Len(ops) : ops[n].op \in {"type", "turn"}
    <2>1. \A n \in 1 .. Len(ops) : n \in 1 .. Len(text) \/ n = Len(text) + 1
      BY <1>4, <1>8
    <2> QED
      BY <1>8, <2>1
  <1>10. Plain(ops)
    BY <1>9 DEF Plain, PlainNames
  <1>11. Covered(ops)
    <2>1. ops # <<>> /\ ops[Len(ops)].op = "turn"
      BY <1>4, <1>8
    <2> QED
      BY <1>9, <2>1 DEF Covered
  <1>12. Visible' = Visible
    BY <1>1, VisibleStays
  <1>13. shown' = grid' /\ (queueI' > 0 => TurnAhead)
    BY <1>1 DEF PaperKept, pending
  <1> QED
    BY <1>1, <1>2, <1>7, <1>10, <1>11, <1>12, <1>13, IdleStep DEF PlainNames

\* The operation is done and nothing changed that matters.
LEMMA QuietKeeps ==
  ASSUME Sound, PaperKept, Running, Top.todo # <<>>, Becomes(<<>>),
         Now.op \in PlainNames, UNCHANGED <<paper, cursor>>, Visible' = Visible, shown' = grid',
         queueI' > 0 => TurnAhead /\ Now.op # "turn"
  PROVE  PaperKept'
  <1>1. <<>> \in Seq(Ops) /\ Len(<<>>) = 0
    OBVIOUS
  <1>2. Plain(<<>>) /\ Covered(<<>>)
    BY <1>1 DEF Plain, Covered
  <1> QED
    BY <1>1, <1>2, IdleStep

LEMMA TurnKeeps ==
  ASSUME Sound, PaperKept, FlushTurn
  PROVE  PaperKept'
  <1> DEFINE ops == << Turn(Now.k + 1) >>
  <1>1. Runs("turn") /\ UNCHANGED <<queueI, paper, cursor>>
    BY DEF FlushTurn
  <1>2. Running /\ Top.todo # <<>> /\ Now.op = "turn"
    BY <1>1, OtherOps
  <1>3. Visible' = Visible /\ shown' = grid' /\ Becomes(ops)
    BY TurnVisible DEF PaperKept
  <1>4. Now.k \in Nat \ {0}
    BY <1>2, NowTyped, OpFields DEF Sound
  <1>5. ops \in Seq(Ops) /\ Len(ops) = 1 /\ ops # <<>> /\ ops[1].op = "turn"
    <2>1. Turn(Now.k + 1) \in Ops
      BY <1>4, MidOpsOf DEF Ops
    <2>2. Turn(Now.k + 1).op = "turn"
      BY DEF Turn
    <2> QED
      BY <2>1, <2>2
  <1> HIDE DEF ops
  <1>6. Plain(ops) /\ HasTurn(ops)
    BY <1>5 DEF Plain, PlainNames, HasTurn
  <1>7. Covered(ops)
    <2>1. \A j \in 1 .. Len(ops) : ops[j].op # "hlt"
      BY <1>5
    <2>2. ops # <<>> /\ ops[Len(ops)].op = "turn"
      BY <1>5
    <2> QED
      BY <2>1, <2>2 DEF Covered
  <1>8. queueI' > 0 => TurnAhead
    BY <1>1 DEF PaperKept
  <1> QED
    BY <1>1, <1>2, <1>3, <1>5, <1>6, <1>7, <1>8, IdleStep DEF PlainNames

LEMMA EndKeeps ==
  ASSUME Sound, PaperKept, FlushEnd
  PROVE  PaperKept'
  <1>1. Runs("turn") /\ Becomes(<<>>) /\ queueI' = 0 /\ UNCHANGED <<paper, cursor>>
    BY DEF FlushEnd
  <1>2. Running /\ Top.todo # <<>> /\ Now.op = "turn"
    BY <1>1, OtherOps
  <1>3. Visible' = Visible /\ shown' = grid'
    BY EndVisible DEF PaperKept
  <1>4. ~(queueI' > 0)
    BY <1>1
  <1> QED
    BY <1>1, <1>2, <1>3, <1>4, QuietKeeps DEF PlainNames

LEMMA IdtKeeps ==
  ASSUME Sound, PaperKept, IdtStart
  PROVE  PaperKept'
  <1>1. /\ Runs("idtStart") /\ Becomes(<<>>)
        /\ UNCHANGED <<grid, pending, cursor, paper, shown>>
    BY DEF IdtStart
  <1>2. Running /\ Top.todo # <<>> /\ Now.op = "idtStart"
    BY <1>1, OtherOps
  <1>3. Visible' = Visible /\ shown' = grid' /\ (queueI' > 0 => TurnAhead)
    BY <1>1, VisibleStays DEF PaperKept, pending
  <1> QED
    BY <1>1, <1>2, <1>3, QuietKeeps DEF PlainNames

\* A page fault's handler goes on to the error screen, which _start never does.
LEMMA SwitchKeeps ==
  ASSUME Sound, PaperKept, Switch, ~Lost'
  PROVE  PaperKept'
  <1>1. Runs("switch") /\ UNCHANGED <<grid, pending, cursor, paper, shown>>
    BY DEF Switch
  <1>2. Running /\ Top.todo # <<>> /\ Now.op = "switch" /\ Types /\ Shape
    BY <1>1, OtherOps DEF Sound, PaperKept
  <1>3. Top.vector # 14
    <2>1. SUFFICES ASSUME Top.vector = 14 PROVE FALSE
      OBVIOUS
    <2> DEFINE len == Len(frames)
               rest == Tail(Top.todo)
    <2>2. len \in Nat \ {0} /\ Top = frames[len] /\ rest \in Seq(Ops)
      BY <1>2, TopTyped, NowTyped
    <2>3. len \in 2 .. len
      BY <1>2, <2>1, <2>2 DEF Shape
    <2>4. Exception \in Seq(Ops) /\ Len(Exception) = 4 /\ Exception[4].op = "hlt"
      <3>1. Exception \in Seq(Ops)
        BY ExceptionCalm, CalmSeq
      <3>3. Do("hlt").op = "hlt"
        BY DEF Do
      <3> QED
        BY <3>1, <3>3 DEF Exception
    <2>5. Becomes(Exception)
      BY <2>1 DEF Switch
    <2>6. Replaced(Exception)
      BY <1>2, <2>4, <2>5, BecomesReplaces
    <2> HIDE DEF rest
    <2>7. IsJoined(Exception \o rest, Exception, rest)
      BY <2>2, <2>4, Joined
    <2> DEFINE all == Exception \o rest
    <2> HIDE DEF all
    <2>8. 4 \in 1 .. Len(all) /\ all[4].op = "hlt"
      BY <2>4, <2>7 DEF IsJoined, all
    <2>9. frames'[len].todo = all /\ Len(frames') = len
      BY <2>6 DEF Replaced, all, rest
    <2>10. HasEnd(frames'[len].todo)
      BY <2>8, <2>9 DEF HasEnd
    <2> QED
      BY <2>3, <2>9, <2>10 DEF Lost
  <1>4. Becomes(<<>>)
    BY <1>3 DEF Switch
  <1>5. Visible' = Visible /\ shown' = grid' /\ (queueI' > 0 => TurnAhead)
    BY <1>1, VisibleStays DEF PaperKept, pending
  <1> QED
    BY <1>1, <1>2, <1>4, <1>5, QuietKeeps DEF PlainNames

\* An operation put before others, and none.
LEMMA Headed ==
  ASSUME NEW o \in Ops, NEW rest \in Seq(Ops)
  PROVE  /\ << o >> \in Seq(Ops) /\ << o >> \o rest # <<>> /\ << o >> \o rest \in Seq(Ops)
         /\ (<< o >> \o rest)[1] = o /\ Tail(<< o >> \o rest) = rest
  OBVIOUS

LEMMA Unheaded ==
  ASSUME NEW rest \in Seq(Ops)
  PROVE  <<>> \in Seq(Ops) /\ <<>> \o rest = rest
  OBVIOUS

LEMMA CoveredByRest ==
  ASSUME NEW ops, \A j \in 1 .. Len(ops) : ops[j].op # "hlt", HasTurn(Tail(Top.todo))
  PROVE  Covered(ops)
  BY DEF Covered

LEMMA NoneOrOne ==
  /\ \A j \in 1 .. Len(<<>>) : <<>>[j].op # "hlt"
  /\ \A o : o.op # "hlt" => \A j \in 1 .. Len(<< o >>) : << o >>[j].op # "hlt"
  <1>1. Len(<<>>) = 0
    OBVIOUS
  <1>2. ASSUME NEW o, o.op # "hlt" PROVE \A j \in 1 .. Len(<< o >>) : << o >>[j].op # "hlt"
    BY <1>2
  <1> QED
    BY <1>1, <1>2

\* The activity types and has the end of the paper.
LEMMA TypingIdle ==
  ASSUME Sound, PaperKept, Runs("type")
  PROVE  /\ Running /\ Top.todo # <<>> /\ Now.op = "type" /\ Between(Top.todo)
         /\ Tail(Top.todo) \in Seq(Ops) /\ Plain(Tail(Top.todo)) /\ HasTurn(Tail(Top.todo))
         /\ TurnAhead /\ Now.c \in Chars
         /\ paper \in Papers /\ Len(paper) \in 1 .. Rows /\ Types
  <1>1. Running /\ Top.todo # <<>> /\ Now.op = "type" /\ Types /\ InStep /\ Shape
    BY OtherOps DEF Sound, PaperKept
  <1>2. Between(Top.todo)
    BY <1>1, HeadTells DEF PlainNames
  <1>3. Top.todo \in Seq(Ops) /\ Tail(Top.todo) \in Seq(Ops) /\ Now.c \in Chars
    BY <1>1, TopTyped, NowTyped, OpFields
  <1>4. Plain(Tail(Top.todo))
    BY <1>1, <1>2, <1>3, PlainTail DEF Between
  <1>5. HasTurn(Tail(Top.todo)) /\ TurnAhead
    BY <1>1, PusherFlushes DEF PushNames
  <1> QED
    BY <1>1, <1>2, <1>3, <1>4, <1>5 DEF PaperKept, PaperTyped, Papers

LEMMA FeedBegins ==
  ASSUME NEW y \in 0 .. Rows - 1, NEW rest \in Seq(Ops), Plain(rest)
  PROVE  /\ ScrollOps \o << Cursor(0, y) >> \in Seq(Ops)
         /\ \A j \in 1 .. Len(ScrollOps \o << Cursor(0, y) >>) :
              (ScrollOps \o << Cursor(0, y) >>)[j].op # "hlt"
         /\ FeedTodo((ScrollOps \o << Cursor(0, y) >>) \o rest, 1, y)
  <1> DEFINE last == Cursor(0, y)
             ops == ScrollOps \o << last >>
             all == ops \o rest
  <1>1. Size \in Nat \ {0} /\ Len(ScrollOps) = Size /\ ScrollOps \in Seq(Ops)
    BY Area, ScrollAt, ScrollCalm, CalmSeq
  <1>2. last \in Ops /\ last.op = "cursor"
    BY CalmOpsOf DEF Ops, Cursor
  <1> HIDE DEF last
  <1>3. << last >> \in Seq(Ops) /\ Len(<< last >>) = 1 /\ << last >>[1] = last
    BY <1>2
  <1>4. ops \in Seq(Ops) /\ IsJoined(ops, ScrollOps, << last >>)
    BY <1>1, <1>3, Joined
  <1> HIDE DEF ops
  <1>5. /\ Len(ops) = Size + 1 /\ ops[Size + 1] = last
        /\ \A j \in 1 .. Size : ops[j] = ScrollOps[j]
    <2>1. 1 \in 1 .. Len(<< last >>) /\ Len(ops) = Size + 1
      BY <1>1, <1>3, <1>4 DEF IsJoined
    <2>2. ops[Size + 1] = << last >>[1]
      BY <1>1, <1>3, <1>4, <2>1 DEF IsJoined
    <2>3. \A j \in 1 .. Size : ops[j] = ScrollOps[j]
      BY <1>1, <1>4 DEF IsJoined
    <2> QED
      BY <1>3, <2>1, <2>2, <2>3
  <1>6. ASSUME NEW j \in 1 .. Len(ops) PROVE ops[j].op # "hlt"
    <2>1. CASE j \in 1 .. Size
      BY <1>5, <2>1, ScrollNames
    <2>2. CASE j = Size + 1
      BY <1>2, <1>5, <2>2
    <2> QED
      BY <1>1, <1>5, <2>1, <2>2
  <1>7. IsJoined(all, ops, rest)
    BY <1>4, Joined
  <1> HIDE DEF all
  <1>8. /\ Len(all) >= Size + 2 - 1 /\ Len(all) = Size + 1 + Len(rest) /\ Len(rest) \in Nat
        /\ \A j \in 1 .. Size + 1 : all[j] = ops[j]
        /\ \A j \in 1 .. Len(rest) : all[Size + 1 + j] = rest[j]
    BY <1>1, <1>5, <1>7 DEF IsJoined
  <1>9. ASSUME NEW j \in 1 .. Size + 1 - 1 PROVE all[j] = ScrollOps[1 + j - 1]
    <2>1. j \in 1 .. Size /\ j \in 1 .. Size + 1 /\ 1 + j - 1 = j
      BY <1>1
    <2> QED
      BY <1>5, <1>8, <2>1
  <1>10. all[Size + 2 - 1] = last
    <2>1. Size + 2 - 1 = Size + 1 /\ Size + 1 \in 1 .. Size + 1
      BY <1>1
    <2> QED
      BY <1>5, <1>8, <2>1
  <1>11. ASSUME NEW j \in Size + 3 - 1 .. Len(all) PROVE all[j].op \in PlainNames
    <2>1. j - (Size + 1) \in 1 .. Len(rest) /\ Size + 1 + (j - (Size + 1)) = j
      BY <1>1, <1>8
    <2>2. all[j] = rest[j - (Size + 1)]
      BY <1>8, <2>1
    <2> QED
      BY <2>1, <2>2 DEF Plain
  <1>12. FeedTodo(all, 1, y)
    BY <1>8, <1>9, <1>10, <1>11 DEF FeedTodo, last
  <1> QED
    BY <1>4, <1>6, <1>12 DEF all, ops, last

LEMMA FeedEnds ==
  ASSUME NEW y, NEW todo \in Seq(Ops), todo # <<>>, todo[1] = Cursor(0, y), Plain(Tail(todo))
  PROVE  FeedTodo(todo, Size + 1, y)
  <1>1. /\ Size \in Nat /\ Size + 2 - (Size + 1) = 1 /\ Size + 3 - (Size + 1) = 2
        /\ Size + 1 - (Size + 1) = 0
    BY Area
  <1>2. /\ Len(todo) \in Nat \ {0} /\ Len(Tail(todo)) = Len(todo) - 1
        /\ \A j \in 1 .. Len(todo) - 1 : Tail(todo)[j] = todo[j + 1]
    BY TailIs
  <1>3. ASSUME NEW j \in 2 .. Len(todo) PROVE todo[j].op \in PlainNames
    <2>1. j - 1 \in 1 .. Len(todo) - 1 /\ j - 1 + 1 = j
      BY <1>2
    <2>2. Tail(todo)[j - 1] = todo[j]
      BY <1>2, <2>1
    <2> QED
      BY <1>2, <2>1, <2>2 DEF Plain
  <1> QED
    BY <1>1, <1>2, <1>3 DEF FeedTodo

LEMMA LineFeedKeeps ==
  ASSUME Sound, PaperKept, TypeLineFeed
  PROVE  PaperKept'
  <1> DEFINE rest == Tail(Top.todo)
             m == Len(paper)
  <1>1. Runs("type") /\ paper' = Feed(paper) /\ UNCHANGED <<grid, pending, cursor, shown>>
    BY DEF TypeLineFeed
  <1>2. /\ Running /\ Top.todo # <<>> /\ Now.op = "type" /\ Between(Top.todo)
        /\ rest \in Seq(Ops) /\ Plain(rest) /\ HasTurn(rest) /\ TurnAhead
        /\ paper \in Papers /\ m \in 1 .. Rows /\ Types
    BY <1>1, TypingIdle
  <1>3. Visible' = Visible /\ Visible = Printed
    BY <1>1, <1>2, VisibleStays DEF Between
  <1>4. Rows \in Nat \ {0} /\ m \in Nat \ {0} /\ Y = m - 1
    <2>1. cursor.y = m - 1
      BY <1>2 DEF Between, AtEnd
    <2> QED
      BY <1>2, <2>1, SizeAssumption DEF Y, Smaller
  <1>5. shown' = grid' /\ (Now.op = "turn" => FALSE)
    BY <1>1, <1>2 DEF PaperKept
  <1>6. Shape /\ Types
    BY <1>2 DEF PaperKept
  <1> HIDE DEF rest
  <1>7. CASE m = Rows
    <2> DEFINE y == Rows - 1
               ops == ScrollOps \o << Cursor(0, y) >>
               all == ops \o rest
    <2>1. Becomes(ops)
      BY <1>4, <1>7 DEF TypeLineFeed
    <2>2. y \in 0 .. Rows - 1
      BY <1>4
    <2>3. /\ ops \in Seq(Ops) /\ (\A j \in 1 .. Len(ops) : ops[j].op # "hlt")
          /\ FeedTodo(all, 1, y)
      BY <1>2, <2>2, FeedBegins
    <2> HIDE DEF ops
    <2>4. Covered(ops)
      BY <1>2, <2>3, CoveredByRest DEF rest
    <2>5. Top.todo' = all
      BY <1>2, <1>6, <2>1, <2>3, <2>4, BecomesShape DEF rest
    <2>6. paper' = Append(Tail(paper), <<>>)
      BY <1>1, <1>7 DEF Feed
    <2>7. /\ paper' \in Papers /\ Len(paper') = Rows
          /\ \A i \in CellIds : i >= Cols => OnCells(paper')[i - Cols] = OnCells(paper)[i]
      BY <1>2, <1>7, <2>6, FedFull
    <2>8. AtStart'
      <3>1. paper'[Len(paper')] = <<>>
        <4>1. Tail(paper) \in Papers /\ Len(Tail(paper)) = Rows - 1
          BY <1>2, <1>4, <1>7 DEF Papers
        <4> HIDE DEF m
        <4>2. Append(Tail(paper), <<>>)[Len(Tail(paper)) + 1] = <<>>
          BY <4>1 DEF Papers
        <4> QED
          BY <1>4, <2>6, <2>7, <4>1, <4>2
      <3> QED
        BY <3>1 DEF AtStart
    <2>9. Moved(Visible', Printed', 1)
      <3>1. ASSUME NEW i \in CellIds
            PROVE  /\ i < 1 - 1 => Visible'[i] = Printed'[i]
                   /\ i >= 1 - 1 /\ i >= Cols => Visible'[i] = Printed'[i - Cols]
        <4>1. ~(i < 1 - 1)
          BY DEF CellIds
        <4> QED
          BY <1>3, <2>7, <4>1 DEF Printed
      <3> QED
        BY <3>1 DEF Moved
    <2>10. FeedingAt(Top.todo, 1)'
      <3>1. Len(paper') - 1 = y
        BY <2>7
      <3>2. FeedTodo(Top.todo', 1, Len(paper') - 1)
        BY <2>3, <2>5, <3>1
      <3> QED
        BY <2>7, <2>8, <2>9, <3>2 DEF FeedingAt
    <2>11. InStep'
      <3>1. 1 \in 1 .. Size + 1
        BY Area
      <3> QED
        BY <2>10, <3>1 DEF InStep, Feeding
    <2>12. PaperTyped'
      BY <1>4, <2>7 DEF PaperTyped, Papers
    <2> QED
      BY <1>2, <1>5, <2>1, <2>3, <2>4, <2>11, <2>12, StepKeeps
  <1>8. CASE m # Rows
    <2> DEFINE o == Cursor(0, m)
               all == << o >> \o rest
    <2>1. Y # Rows - 1 /\ Y + 1 = m /\ m \in 0 .. Rows - 1 /\ m + 1 \in 1 .. Rows
      BY <1>2, <1>4, <1>8
    <2>2. Becomes(<< o >>)
      BY <2>1 DEF TypeLineFeed
    <2>3. o \in Ops /\ o.op # "hlt"
      BY <2>1, CalmOpsOf DEF Ops, Cursor
    <2> HIDE DEF o
    <2>4. /\ << o >> \in Seq(Ops) /\ all # <<>> /\ all \in Seq(Ops)
          /\ all[1] = o /\ Tail(all) = rest
      BY <1>2, <2>3, Headed
    <2>5. Covered(<< o >>)
      BY <1>2, <2>3, NoneOrOne, CoveredByRest DEF rest
    <2>6. Top.todo' = all
      BY <1>2, <1>6, <2>2, <2>4, <2>5, BecomesShape DEF rest
    <2>7. paper' = Append(paper, <<>>)
      BY <1>1, <1>8 DEF Feed
    <2>8. paper' \in Papers /\ OnCells(paper') = OnCells(paper)
      BY <1>2, <2>7, FedBelow
    <2>9. Len(paper') = m + 1 /\ paper'[m + 1] = <<>>
      BY <1>2, <2>7 DEF Papers
    <2>10. AtStart'
      BY <2>9 DEF AtStart
    <2>11. Moved(Visible', Printed', Size + 1)
      <3>1. ASSUME NEW i \in CellIds
            PROVE  /\ i < (Size + 1) - 1 => Visible'[i] = Printed'[i]
                   /\ i >= (Size + 1) - 1 /\ i >= Cols => Visible'[i] = Printed'[i - Cols]
        <4>1. ~(i >= (Size + 1) - 1)
          BY Area DEF CellIds
        <4> QED
          BY <1>3, <2>8, <4>1 DEF Printed
      <3> QED
        BY <3>1 DEF Moved
    <2> HIDE DEF all
    <2>12. FeedTodo(all, Size + 1, m)
      BY <1>2, <2>4, FeedEnds DEF o
    <2>13. FeedingAt(Top.todo, Size + 1)'
      <3>1. Len(paper') - 1 = m
        BY <1>4, <2>9
      <3>2. FeedTodo(Top.todo', Size + 1, Len(paper') - 1)
        BY <2>6, <2>12, <3>1
      <3>3. ~(Size + 1 <= Size)
        BY Area
      <3> QED
        BY <2>10, <2>11, <3>2, <3>3 DEF FeedingAt
    <2>14. InStep'
      <3>1. Size + 1 \in 1 .. Size + 1
        BY Area
      <3> QED
        BY <2>13, <3>1 DEF InStep, Feeding
    <2>15. PaperTyped'
      BY <2>1, <2>8, <2>9 DEF PaperTyped, Papers
    <2> QED
      BY <1>2, <1>5, <2>2, <2>4, <2>5, <2>14, <2>15, StepKeeps
  <1> QED
    BY <1>7, <1>8

LEMMA CharacterKeeps ==
  ASSUME Sound, PaperKept, TypeCharacter
  PROVE  PaperKept'
  <1> DEFINE rest == Tail(Top.todo)
             m == Len(paper)
             l == Len(paper[m])
             c == Now.c
  <1>1. /\ Runs("type") /\ paper' = Lengthened(paper, c) /\ UNCHANGED <<grid, pending, shown>>
        /\ cursor' = [cursor EXCEPT !.x = @ + 1]
    BY DEF TypeCharacter, Lengthened
  <1>2. /\ Running /\ Top.todo # <<>> /\ Now.op = "type" /\ Between(Top.todo)
        /\ rest \in Seq(Ops) /\ Plain(rest) /\ HasTurn(rest) /\ TurnAhead /\ c \in Chars
        /\ paper \in Papers /\ m \in 1 .. Rows /\ Types
    BY <1>1, TypingIdle
  <1>3. Visible' = Visible /\ Visible = Printed /\ AtEnd
    BY <1>1, <1>2, VisibleStays DEF Between
  <1>4. Shape
    BY DEF PaperKept
  <1> HIDE DEF rest, c
  <1>5. /\ paper' \in Papers /\ Len(paper') = m /\ l \in Nat /\ Len(paper'[m]) = l + 1
    BY <1>1, <1>2, TypedOnPaper
  <1>6. cursor.x = l /\ cursor.y = m - 1 /\ m \in Nat \ {0} /\ Rows \in Nat \ {0}
    BY <1>2, <1>3, SizeAssumption DEF AtEnd
  <1>7. AtEnd'
    <2>1. cursor' = [x |-> l + 1, y |-> m - 1]
      BY <1>1, <1>3, <1>5 DEF AtEnd
    <2> QED
      BY <1>5, <2>1 DEF AtEnd
  <1>8. Printed' = IF l < Cols THEN Set(Printed, CellAt(l, m - 1), c) ELSE Printed
    BY <1>1, <1>2, TypedOnCells DEF Printed
  <1>9. PaperTyped'
    BY <1>2, <1>5 DEF PaperTyped, Papers
  <1>10. shown' = grid' /\ (Now.op = "turn" => FALSE)
    BY <1>1, <1>2 DEF PaperKept
  <1>11. CASE l < Cols
    <2> DEFINE i == CellAt(l, m - 1)
               o == Put(c, i)
               all == << o >> \o rest
    <2>1. i \in CellIds
      BY <1>2, <1>5, <1>6, <1>11, CellInRange
    <2>2. Becomes(<< o >>)
      BY <1>6, <1>11 DEF TypeCharacter, c
    <2>3. o \in Ops /\ o.op = "put" /\ o.to = i /\ o.ch = c
      BY <1>2, <2>1, CalmOpsOf DEF Ops, Put
    <2> HIDE DEF o
    <2>4. /\ << o >> \in Seq(Ops) /\ all # <<>> /\ all \in Seq(Ops)
          /\ all[1] = o /\ Tail(all) = rest
      BY <1>2, <2>3, Headed
    <2>5. Covered(<< o >>)
      BY <1>2, <2>3, NoneOrOne, CoveredByRest DEF rest
    <2>6. Top.todo' = all
      BY <1>2, <1>4, <2>2, <2>4, <2>5, BecomesShape DEF rest
    <2> HIDE DEF all, i
    <2>7. Set(Visible', all[1].to, all[1].ch) = Printed'
      BY <1>3, <1>8, <1>11, <2>3, <2>4 DEF i
    <2>8. Placing(Top.todo)'
      BY <1>2, <1>7, <2>3, <2>4, <2>6, <2>7 DEF Placing
    <2>9. InStep'
      BY <2>8 DEF InStep
    <2> QED
      BY <1>2, <1>9, <1>10, <2>2, <2>4, <2>5, <2>9, StepKeeps
  <1>12. CASE ~(l < Cols)
    <2>1. Becomes(<<>>)
      BY <1>6, <1>12 DEF TypeCharacter
    <2>2. <<>> \in Seq(Ops) /\ <<>> \o rest = rest
      BY <1>2, Unheaded
    <2>3. Covered(<<>>)
      BY <1>2, NoneOrOne, CoveredByRest DEF rest
    <2>4. Top.todo' = rest
      BY <1>2, <1>4, <2>1, <2>2, <2>3, BecomesShape DEF rest
    <2>5. Between(Top.todo)'
      BY <1>2, <1>3, <1>7, <1>8, <1>12, <2>4 DEF Between
    <2>6. InStep'
      BY <2>5 DEF InStep
    <2> QED
      BY <1>2, <1>9, <1>10, <2>1, <2>2, <2>3, <2>6, StepKeeps
  <1> QED
    BY <1>11, <1>12

\* At its end the line feed has moved every line.
LEMMA CursorKeeps ==
  ASSUME Sound, PaperKept, SetCursorPos
  PROVE  PaperKept'
  <1> DEFINE todo == Top.todo
             rest == Tail(todo)
             m == Len(paper)
  <1>1. /\ Runs("cursor") /\ Becomes(<<>>) /\ UNCHANGED <<grid, pending, shown, paper>>
        /\ cursor' = [x |-> Now.x, y |-> Now.y]
    BY DEF SetCursorPos
  <1>2. /\ Running /\ Top.todo # <<>> /\ Now.op = "cursor" /\ Types /\ Shape
        /\ InStep /\ PaperTyped
    BY <1>1, OtherOps DEF Sound, PaperKept
  <1>3. FeedingAt(todo, Size + 1) /\ Now = Cursor(0, m - 1)
    BY <1>2, HeadTells
  <1>4. todo \in Seq(Ops) /\ rest \in Seq(Ops)
    BY <1>2, TopTyped, NowTyped
  <1>5. /\ AtStart /\ FeedTodo(todo, Size + 1, m - 1) /\ Moved(Visible, Printed, Size + 1)
    BY <1>3 DEF FeedingAt
  <1> HIDE DEF todo
  <1>6. Plain(rest)
    BY <1>4, <1>5, FeedLast
  <1> HIDE DEF rest
  <1>7. Visible = Printed
    <2>1. ASSUME NEW i \in CellIds PROVE Visible[i] = Printed[i]
      <3>1. i < (Size + 1) - 1
        BY Area DEF CellIds
      <3> QED
        BY <1>5, <3>1 DEF Moved
    <2>2. Visible \in Screens /\ Printed \in Screens
      BY <1>2, VisibleTyped, OnCellsTyped DEF Printed, PaperTyped, Papers
    <2> QED
      BY <2>1, <2>2 DEF Screens
  <1>8. Visible' = Visible /\ Printed' = Printed
    BY <1>1, VisibleStays DEF Printed
  <1>9. AtEnd'
    <2>1. cursor' = [x |-> 0, y |-> m - 1]
      BY <1>1, <1>3 DEF Cursor
    <2>2. Len(paper[m]) = 0
      BY <1>5 DEF AtStart
    <2> QED
      BY <1>1, <2>1, <2>2 DEF AtEnd
  <1>10. <<>> \in Seq(Ops) /\ <<>> \o rest = rest
    BY <1>4, Unheaded
  <1>11. Covered(<<>>)
    <2>1. Len(<<>>) = 0
      OBVIOUS
    <2> QED
      BY <2>1 DEF Covered
  <1>12. Top.todo' = rest
    BY <1>1, <1>2, <1>10, <1>11, BecomesShape DEF rest, todo
  <1>13. Between(Top.todo)'
    BY <1>6, <1>7, <1>8, <1>9, <1>12 DEF Between
  <1>14. InStep'
    BY <1>13 DEF InStep
  <1>15. /\ PaperTyped' /\ shown' = grid'
         /\ queueI' > 0 => TurnAhead /\ (Now.op = "turn" => HasTurn(<<>>))
    BY <1>1, <1>2 DEF PaperTyped, PaperKept, pending
  <1> QED
    BY <1>1, <1>2, <1>10, <1>11, <1>14, <1>15, StepKeeps

-----------------------------------------------------------------------------
(* A push, in the middle of a character or of a scroll.                     *)

\* A turn of a scroll moves one more cell.
LEMMA MovedMore ==
  ASSUME NEW screen \in Screens, NEW sheet \in Screens, NEW n \in 1 .. Size,
         Moved(screen, sheet, n)
  PROVE  Moved(Set(screen, n - 1, sheet[n - 1]), sheet, n + 1)
  <1> DEFINE new == Set(screen, n - 1, sheet[n - 1])
  <1>1. n - 1 \in CellIds /\ n \in Nat /\ n + 1 - 1 = n
    BY Area DEF CellIds
  <1>2. new = [j \in CellIds |-> IF j = n - 1 THEN sheet[n - 1] ELSE screen[j]]
    BY <1>1, SetIs
  <1> HIDE DEF new
  <1>3. ASSUME NEW i \in CellIds
        PROVE  /\ i < n + 1 - 1 => new[i] = sheet[i]
               /\ i >= n + 1 - 1 /\ i >= Cols => new[i] = sheet[i - Cols]
    <2>1. i \in Nat
      BY Area DEF CellIds
    <2>2. CASE i = n - 1
      <3>1. ~(i >= n + 1 - 1)
        BY <1>1, <2>2
      <3> QED
        BY <1>2, <2>2, <3>1
    <2>3. CASE i # n - 1
      <3>1. new[i] = screen[i]
        BY <1>2, <2>3
      <3>2. (i < n + 1 - 1 => i < n - 1) /\ (i >= n + 1 - 1 => i >= n - 1)
        BY <1>1, <2>1, <2>3
      <3> QED
        BY <3>1, <3>2 DEF Moved
    <2> QED
      BY <2>2, <2>3
  <1>4. Moved(new, sheet, n + 1)
    BY <1>3 DEF Moved
  <1> QED
    BY <1>4 DEF new

\* What a turn of a scroll pushes is what the paper has there.
LEMMA FeedContent ==
  ASSUME Types, PaperTyped, NEW n \in 1 .. Size, FeedingAt(Top.todo, n), Now = ScrollOps[n]
  PROVE  Now.to = n - 1 /\ n - 1 \in CellIds /\ Content = Printed[n - 1]
  <1>1. /\ Moved(Visible, Printed, n) /\ Len(paper) = Rows /\ AtStart
        /\ n \in Nat /\ n >= 1 /\ n <= Size /\ Size \in Nat
    BY Area DEF FeedingAt
  <1>2. /\ Now.op \in {"put", "copy"} /\ Now.to = n - 1
        /\ Now.op = "copy" => n <= Size - Cols /\ Now.from = n - 1 + Cols
        /\ Now.op = "put" => n > Size - Cols /\ Now.ch = Space
    BY ScrollNames
  <1>3. n - 1 \in CellIds /\ Cols \in Nat \ {0} /\ Size - Cols \in Nat
    BY <1>1, ScrollAt DEF CellIds
  <1>4. CASE Now.op = "copy"
    <2> DEFINE i == n - 1 + Cols
    <2>1. i \in CellIds /\ i >= n - 1 /\ i >= Cols /\ i - Cols = n - 1
      BY <1>1, <1>2, <1>3, <1>4 DEF CellIds
    <2>2. Visible[i] = Printed[i - Cols]
      BY <1>1, <2>1 DEF Moved
    <2>3. Content = Pending(i)
      BY <1>2, <1>4 DEF Content
    <2>4. Visible[i] = Pending(i)
      BY <2>1, VisibleTyped
    <2> QED
      BY <1>2, <1>3, <2>1, <2>2, <2>3, <2>4
  <1>5. CASE Now.op = "put"
    <2>1. Content = Space
      BY <1>2, <1>5 DEF Content
    <2>2. Printed[n - 1] = Space
      <3> DEFINE i == n - 1
                 x == i % Cols
                 y == i \div Cols
      <3>1. x \in 0 .. Cols - 1 /\ y \in 0 .. Rows - 1 /\ i = y * Cols + x /\ Rows \in Nat \ {0}
        BY <1>3, Placed, SizeAssumption DEF CellAt
      <3>2. i >= Size - Cols
        BY <1>1, <1>2, <1>3, <1>5
      <3>3. y = Rows - 1
        BY <1>3, <3>1, <3>2, LastRow
      <3>4. ~(x < Len(paper[y + 1]))
        <4>1. Len(<<>>) = 0
          OBVIOUS
        <4>2. y + 1 = Len(paper)
          BY <1>1, <3>1, <3>3
        <4>3. paper[y + 1] = <<>>
          BY <1>1, <4>2 DEF AtStart
        <4> QED
          BY <1>3, <3>1, <4>1, <4>3
      <3>5. OnPaper(paper, x, y) = Space
        BY <3>4 DEF OnPaper
      <3> QED
        BY <1>3, <3>5 DEF Printed, OnCells
    <2> QED
      BY <1>2, <1>3, <2>1, <2>2
  <1> QED
    BY <1>2, <1>4, <1>5

\* The cell that is filled in next is right, be it a character's or a scroll's.
FillsAt(n, ch) ==
  /\ Now.to = n - 1 /\ AtStart /\ Len(paper) = Rows
  /\ FeedTodo(Tail(Top.todo), n + 1, Len(paper) - 1)
  /\ Moved(Set(Visible, n - 1, ch), Printed, n + 1)
FillsIn(ch) ==
  \/ Plain(Tail(Top.todo)) /\ Set(Visible, Now.to, ch) = Printed /\ AtEnd
  \/ \E n \in 1 .. Size : FillsAt(n, ch)

LEMMA PushFills ==
  ASSUME Types, PaperTyped, InStep, Running, Top.todo # <<>>, Now.op \in {"put", "copy"}
  PROVE  FillsIn(Content)
  <1>1. Top.todo \in Seq(Ops) /\ Now = Top.todo[1]
    BY TopTyped, NowTyped
  <1>2. CASE Placing(Top.todo)
    <2>1. Now.op = "put"
      BY <1>1, <1>2 DEF Placing
    <2>2. Content = Now.ch
      BY <2>1 DEF Content
    <2> QED
      BY <1>1, <1>2, <2>2 DEF Placing, FillsIn
  <1>3. CASE \E n \in 1 .. Size : FeedingAt(Top.todo, n) /\ Now = ScrollOps[n]
    <2>1. PICK n \in 1 .. Size : FeedingAt(Top.todo, n) /\ Now = ScrollOps[n]
      BY <1>3
    <2>2. Now.to = n - 1 /\ Content = Printed[n - 1]
      BY <2>1, FeedContent
    <2>3. /\ AtStart /\ FeedTodo(Top.todo, n, Len(paper) - 1)
          /\ Moved(Visible, Printed, n) /\ Len(paper) = Rows
      BY <2>1, Area DEF FeedingAt
    <2>4. FeedTodo(Tail(Top.todo), n + 1, Len(paper) - 1)
      BY <1>1, <2>3, FeedNext
    <2>5. Visible \in Screens /\ Printed \in Screens
      BY VisibleTyped, OnCellsTyped DEF Printed, PaperTyped, Papers
    <2>6. Moved(Set(Visible, n - 1, Content), Printed, n + 1)
      BY <2>2, <2>3, <2>5, MovedMore
    <2>7. FillsAt(n, Content)
      BY <2>2, <2>3, <2>4, <2>6 DEF FillsAt
    <2> QED
      BY <2>7 DEF FillsIn
  <1> QED
    BY <1>2, <1>3, HeadTells

LEMMA TakeFills ==
  ASSUME Types, InStep, Running, Top.todo # <<>>, Now.op = "take"
  PROVE  FillsIn(Now.ch)
  <1>1. Top.todo \in Seq(Ops) /\ Now = Top.todo[1]
    BY TopTyped, NowTyped
  <1>2. CASE Placing(Top.todo)
    BY <1>1, <1>2 DEF Placing, FillsIn
  <1>3. CASE FeedTaking(Top.todo)
    <2>1. PICK n \in 1 .. Size : FeedTakingAt(Top.todo, n)
      BY <1>3 DEF FeedTaking
    <2>2. FillsAt(n, Now.ch)
      BY <1>1, <2>1 DEF FeedTakingAt, FillsAt
    <2> QED
      BY <2>2 DEF FillsIn
  <1> QED
    BY <1>2, <1>3, HeadTells

\* The cell is filled in, or its slot is counted.
LEMMA FilledKeeps ==
  ASSUME Sound, PaperKept, Running, Top.todo # <<>>, Now.op \in PushNames,
         NEW ch, FillsIn(ch), Becomes(<<>>), Visible' = Set(Visible, Now.to, ch),
         UNCHANGED <<paper, cursor>>, shown' = grid'
  PROVE  PaperKept'
  <1> DEFINE rest == Tail(Top.todo)
  <1>1. Types /\ Shape /\ PaperTyped
    BY DEF Sound, PaperKept
  <1>2. HasTurn(rest) /\ TurnAhead
    BY <1>1, PusherFlushes
  <1>3. rest \in Seq(Ops)
    BY <1>1, NowTyped
  <1>4. <<>> \in Seq(Ops) /\ <<>> \o rest = rest
    BY <1>3, Unheaded
  <1>5. Covered(<<>>)
    BY <1>2, NoneOrOne, CoveredByRest
  <1>6. Top.todo' = rest
    BY <1>1, <1>4, <1>5, BecomesShape
  <1>7. PaperTyped' /\ Printed' = Printed /\ (AtEnd' <=> AtEnd) /\ (AtStart' <=> AtStart)
    BY <1>1 DEF PaperTyped, Printed, AtEnd, AtStart
  <1>8. ASSUME Plain(rest) /\ Set(Visible, Now.to, ch) = Printed /\ AtEnd
        PROVE  InStep'
    <2>1. Between(Top.todo)'
      BY <1>6, <1>7, <1>8 DEF Between
    <2> QED
      BY <2>1 DEF InStep
  <1>9. ASSUME \E n \in 1 .. Size : FillsAt(n, ch)
        PROVE  InStep'
    <2>1. PICK n \in 1 .. Size : FillsAt(n, ch)
      BY <1>9
    <2>2. Moved(Visible', Printed', n + 1)
      BY <1>7, <2>1 DEF FillsAt
    <2>3. FeedTodo(Top.todo', n + 1, Len(paper') - 1)
      BY <1>6, <2>1 DEF FillsAt
    <2>4. AtStart' /\ Len(paper') = Rows
      BY <1>7, <2>1 DEF FillsAt
    <2>5. FeedingAt(Top.todo, n + 1)'
      BY <2>2, <2>3, <2>4 DEF FeedingAt
    <2>6. n + 1 \in 1 .. Size + 1
      BY Area
    <2>7. Feeding(Top.todo)'
      BY <2>5, <2>6 DEF Feeding
    <2> QED
      BY <2>7 DEF InStep
  <1>10. InStep'
    BY <1>8, <1>9 DEF FillsIn
  <1>11. Now.op # "turn"
    BY DEF PushNames
  <1> QED
    BY <1>2, <1>4, <1>5, <1>7, <1>10, <1>11, StepKeeps

LEMMA CountedKeeps ==
  ASSUME Sound, PaperKept, Running, Top.todo # <<>>, Now.op \in {"put", "copy"},
         FillsIn(Content), Counted, UNCHANGED <<paper, cursor>>, shown' = grid'
  PROVE  PaperKept'
  <1> DEFINE rest == Tail(Top.todo)
             o == Take(queueI + 1, Now.to, Content)
             all == << o >> \o rest
  <1>1. Types /\ Shape /\ PaperTyped
    BY DEF Sound, PaperKept
  <1>2. HasTurn(rest) /\ TurnAhead
    BY <1>1, PusherFlushes DEF PushNames
  <1>3. rest \in Seq(Ops)
    BY <1>1, NowTyped
  <1>4. o \in Ops /\ o.op = "take" /\ o.to = Now.to /\ o.ch = Content
    <2>1. Content \in Chars /\ Now.to \in CellIds
      BY <1>1, ContentTyped
    <2>2. queueI + 1 \in Nat
      BY <1>1, Area DEF Types
    <2>3. o \in Ops
      BY <2>1, <2>2, MidOpsOf DEF Ops
    <2> QED
      BY <2>3 DEF Take
  <1>5. Becomes(<< o >>) /\ Visible' = Visible
    BY DEF Counted
  <1> HIDE DEF o
  <1>6. /\ << o >> \in Seq(Ops) /\ all # <<>> /\ all \in Seq(Ops)
        /\ all[1] = o /\ Tail(all) = rest
    BY <1>3, <1>4, Headed
  <1>7. Covered(<< o >>)
    BY <1>2, <1>4, NoneOrOne, CoveredByRest
  <1>8. Top.todo' = all
    BY <1>1, <1>5, <1>6, <1>7, BecomesShape
  <1> HIDE DEF all
  <1>9. PaperTyped' /\ Printed' = Printed /\ (AtEnd' <=> AtEnd) /\ (AtStart' <=> AtStart)
    BY <1>1 DEF PaperTyped, Printed, AtEnd, AtStart
  <1>10. ASSUME Plain(rest) /\ Set(Visible, Now.to, Content) = Printed /\ AtEnd
         PROVE  InStep'
    <2>1. Set(Visible', all[1].to, all[1].ch) = Printed'
      BY <1>4, <1>5, <1>6, <1>9, <1>10
    <2>2. Placing(Top.todo)'
      BY <1>4, <1>6, <1>8, <1>9, <1>10, <2>1 DEF Placing
    <2> QED
      BY <2>2 DEF InStep
  <1>11. ASSUME \E n \in 1 .. Size : FillsAt(n, Content)
         PROVE  InStep'
    <2>1. PICK n \in 1 .. Size : FillsAt(n, Content)
      BY <1>11
    <2>2. Moved(Set(Visible', n - 1, all[1].ch), Printed', n + 1)
      BY <1>4, <1>5, <1>6, <1>9, <2>1 DEF FillsAt
    <2>3. FeedTodo(Tail(Top.todo'), n + 1, Len(paper') - 1)
      BY <1>6, <1>8, <2>1 DEF FillsAt
    <2>4. AtStart' /\ Len(paper') = Rows /\ all[1].to = n - 1
      BY <1>4, <1>6, <1>9, <2>1 DEF FillsAt
    <2>5. FeedTakingAt(Top.todo, n)'
      BY <1>4, <1>6, <1>8, <2>2, <2>3, <2>4 DEF FeedTakingAt
    <2>6. FeedTaking(Top.todo)'
      BY <2>5 DEF FeedTaking
    <2> QED
      BY <2>6 DEF InStep
  <1>12. InStep'
    BY <1>10, <1>11 DEF FillsIn
  <1>13. Now.op # "turn"
    OBVIOUS
  <1> QED
    BY <1>2, <1>5, <1>6, <1>7, <1>9, <1>12, <1>13, StepKeeps

LEMMA PushKeeps ==
  ASSUME Sound, PaperKept, Push
  PROVE  PaperKept'
  <1>1. Running /\ Top.todo # <<>> /\ Now.op \in {"put", "copy"}
    BY OtherOps DEF Push
  <1>2. UNCHANGED <<paper, cursor>> /\ shown' = grid'
    BY DEF Push, PaperKept
  <1>3. FillsIn(Content)
    BY <1>1, PushFills DEF Sound, PaperKept
  <1>4. CASE Stored
    BY <1>1, <1>2, <1>3, <1>4, FilledKeeps DEF Stored, PushNames
  <1>5. CASE Counted
    BY <1>1, <1>2, <1>3, <1>5, CountedKeeps
  <1> QED
    BY <1>4, <1>5, PushVisible

LEMMA TakeKeeps ==
  ASSUME Sound, PaperKept, TakeSlot
  PROVE  PaperKept'
  <1>1. Running /\ Top.todo # <<>> /\ Now.op = "take"
    BY OtherOps DEF TakeSlot
  <1>2. UNCHANGED <<paper, cursor>> /\ shown' = grid'
    BY DEF TakeSlot, PaperKept
  <1>3. FillsIn(Now.ch)
    BY <1>1, TakeFills DEF Sound, PaperKept
  <1>4. Becomes(<<>>) /\ Visible' = Set(Visible, Now.to, Now.ch)
    BY TakeVisible
  <1> QED
    BY <1>1, <1>2, <1>3, <1>4, FilledKeeps DEF PushNames

-----------------------------------------------------------------------------
(* Exceptions.                                                              *)

\* Where an exception does no harm the interrupted activity is idle.
LEMMA WindowIdle ==
  ASSUME Types, Running, InStep, Window = {}
  PROVE  Between(Top.todo)
  <1>1. CASE Top.todo = <<>>
    BY <1>1, NothingLeft
  <1>2. CASE Top.todo # <<>>
    <2>1. Now.op \notin {"take", "put", "copy", "cursor"}
      BY <1>2 DEF Window
    <2>2. Now.op # "paint"
      BY <1>2, HeadTells
    <2>3. Now \in Ops
      BY <1>2, NowTyped
    <2>4. Now.op \in PlainNames
      BY <2>1, <2>2, <2>3 DEF Ops, CalmOps, MidOps, PlainNames
    <2> QED
      BY <1>2, <2>4, HeadTells
  <1> QED
    BY <1>1, <1>2

LEMMA HandlerPlain ==
  /\ IsrHandler \in Seq(Ops) /\ Plain(IsrHandler) /\ Closed(IsrHandler)
  <1>1. IsrHandler \in Seq(Ops)
    BY HandlerCalm, CalmSeq
  <1>2. \A j \in 1 .. Len(IsrHandler) : IsrHandler[j].op \in {"print", "switch"}
    <2>1. /\ Write(<<"e">>).op = "print" /\ Write(<<"LF">>).op = "print"
          /\ Do("switch").op = "switch"
      BY DEF Write, Do
    <2> QED
      BY <2>1 DEF IsrHandler
  <1> QED
    BY <1>1, <1>2 DEF Plain, PlainNames, Closed, PushNames

LEMMA RaiseKeeps ==
  ASSUME Sound, PaperKept, NEW v \in Vectors, Raise(v), hits' = {}, Running'
  PROVE  PaperKept'
  <1> DEFINE f == [vector |-> v, todo |-> IsrHandler]
             len == Len(frames)
  <1>1. /\ Running /\ Types /\ Shape /\ InStep /\ PaperTyped
        /\ UNCHANGED <<grid, pending, cursor, shown, paper>>
    BY DEF Raise, Sound, PaperKept
  <1>2. /\ frames' = Append(frames, f) /\ hits' = hits \cup Window
    BY DEF Raise, Running
  <1>3. Between(Top.todo)
    BY <1>1, <1>2, WindowIdle
  <1>4. len \in Nat \ {0} /\ Top = frames[len] /\ frames \in Seq(Frame)
    BY <1>1, TopTyped DEF Types
  <1>5. f \in Frame /\ f.todo = IsrHandler
    <2>1. v \in Int
      BY VectorsAssumption
    <2> QED
      BY <2>1, HandlerPlain DEF Frame
  <1> HIDE DEF f
  <1>6. /\ Len(frames') = len + 1 /\ frames'[len + 1] = f
        /\ \A n \in 1 .. len : frames'[n] = frames[n]
    BY <1>2, <1>4, <1>5
  <1>7. Top.todo' = IsrHandler
    BY <1>4, <1>5, <1>6 DEF Top, Last
  <1>8. InStep'
    <2>1. Visible' = Visible
      BY <1>1, VisibleStays
    <2>2. Plain(Top.todo')
      BY <1>7, HandlerPlain
    <2> QED
      BY <1>1, <1>3, <2>1, <2>2, IdleStays DEF Between
  <1>9. Shape'
    <2>1. ASSUME NEW n \in 1 .. Len(frames') - 1 PROVE Plain(frames'[n].todo)
      <3>1. n \in 1 .. len
        BY <1>4, <1>6
      <3>2. CASE n = len
        BY <1>3, <1>4, <1>6, <3>1, <3>2 DEF Between
      <3>3. CASE n # len
        <4>1. n \in 1 .. len - 1
          BY <1>4, <3>1, <3>3
        <4> QED
          BY <1>1, <1>6, <3>1, <4>1 DEF Shape
      <3> QED
        BY <3>2, <3>3
    <2>2. ASSUME NEW n \in 1 .. Len(frames') PROVE Closed(frames'[n].todo)
      <3>1. CASE n = len + 1
        BY <1>5, <1>6, <3>1, HandlerPlain
      <3>2. CASE n # len + 1
        <4>1. n \in 1 .. len
          BY <1>4, <1>6, <3>2
        <4> QED
          BY <1>1, <1>6, <4>1 DEF Shape
      <3> QED
        BY <3>1, <3>2
    <2>3. frames'[1].vector # 14
      <3>1. 1 \in 1 .. len
        BY <1>4
      <3> QED
        BY <1>1, <1>6, <3>1 DEF Shape
    <2> QED
      BY <2>1, <2>2, <2>3, Zenon DEF Shape
  <1>10. queueI' > 0 => TurnAhead'
    <2>1. SUFFICES ASSUME TurnAhead PROVE TurnAhead'
      BY <1>1 DEF PaperKept, pending
    <2>2. PICK n \in 1 .. len : HasTurn(frames[n].todo)
      BY <2>1 DEF TurnAhead
    <2>3. n \in 1 .. Len(frames') /\ frames'[n] = frames[n]
      BY <1>4, <1>6
    <2> QED
      BY <2>2, <2>3 DEF TurnAhead
  <1>11. PaperTyped' /\ shown' = grid'
    BY <1>1 DEF PaperTyped, PaperKept
  <1> QED
    BY <1>8, <1>9, <1>10, <1>11 DEF PaperKept

LEMMA FrontFrames ==
  ASSUME Types, Running, Resume
  PROVE  /\ frames' \in Seq(Frame)
         /\ Len(frames') = Len(frames) - 1 /\ Len(frames) \in Nat \ {0}
         /\ \A n \in 1 .. Len(frames') : frames'[n] = frames[n]
         /\ Top.todo = <<>> /\ Top = frames[Len(frames)]
  <1>1. frames \in Seq(Frame) /\ Len(frames) \in Nat \ {0} /\ Top = frames[Len(frames)]
    BY TopTyped DEF Types
  <1> DEFINE len == Len(frames) - 1
  <1>2. 1 \in Int /\ len \in Nat /\ \A i \in 1 .. len : frames[i] \in Frame
    BY <1>1
  <1>3. frames' = SubSeq(frames, 1, len) /\ Top.todo = <<>>
    BY DEF Resume, Front
  <1> HIDE DEF len
  <1>4. /\ SubSeq(frames, 1, len) \in Seq(Frame)
        /\ Len(SubSeq(frames, 1, len)) = IF 1 <= len THEN len - 1 + 1 ELSE 0
        /\ \A i \in 1 .. len - 1 + 1 : SubSeq(frames, 1, len)[i] = frames[1 + i - 1]
    BY <1>2, SubSeqProperties
  <1>5. Len(frames') = len
    BY <1>2, <1>3, <1>4
  <1>6. \A n \in 1 .. Len(frames') : frames'[n] = frames[n]
    BY <1>2, <1>3, <1>4, <1>5
  <1> QED
    BY <1>1, <1>3, <1>4, <1>5, <1>6 DEF len

LEMMA ResumeKeeps ==
  ASSUME Sound, PaperKept, Resume, Running'
  PROVE  PaperKept'
  <1> DEFINE len == Len(frames)
  <1>1. /\ Running /\ Types /\ Shape /\ InStep /\ PaperTyped
        /\ UNCHANGED <<grid, pending, cursor, shown, paper>>
    BY DEF Resume, Sound, PaperKept
  <1>2. /\ Len(frames') = len - 1 /\ len \in Nat \ {0}
        /\ \A n \in 1 .. len - 1 : frames'[n] = frames[n]
        /\ Top.todo = <<>> /\ Top = frames[len]
    BY <1>1, FrontFrames
  <1>3. len - 1 \in 1 .. len - 1
    <2>1. frames' # <<>> /\ frames' = Front(frames)
      BY DEF Running, Resume
    <2>2. frames' \in Seq(Frame)
      BY <1>1, FrontFrames
    <2>3. Len(frames') \in Nat \ {0}
      BY <2>1, <2>2
    <2> QED
      BY <1>2, <2>3
  <1>4. Between(Top.todo)
    BY <1>1, <1>2, NothingLeft
  <1>5. Top.todo' = frames[len - 1].todo
    BY <1>2, <1>3 DEF Top, Last
  <1>6. InStep'
    <2>1. Plain(Top.todo')
      BY <1>1, <1>3, <1>5 DEF Shape
    <2>2. Visible' = Visible
      BY <1>1, VisibleStays
    <2> QED
      BY <1>1, <1>4, <2>1, <2>2, IdleStays DEF Between
  <1>7. Shape'
    <2>1. ASSUME NEW n \in 1 .. Len(frames') - 1 PROVE Plain(frames'[n].todo)
      <3>1. n \in 1 .. len - 1
        BY <1>2
      <3> QED
        BY <1>1, <1>2, <3>1 DEF Shape
    <2>2. ASSUME NEW n \in 1 .. Len(frames') PROVE Closed(frames'[n].todo)
      <3>1. n \in 1 .. len - 1 /\ n \in 1 .. len
        BY <1>2
      <3> QED
        BY <1>1, <1>2, <3>1 DEF Shape
    <2>3. frames'[1].vector # 14
      <3>1. 1 \in 1 .. len - 1
        BY <1>2, <1>3
      <3> QED
        BY <1>1, <1>2, <3>1 DEF Shape
    <2> QED
      BY <2>1, <2>2, <2>3, Zenon DEF Shape
  <1>8. queueI' > 0 => TurnAhead'
    <2>1. SUFFICES ASSUME TurnAhead PROVE TurnAhead'
      BY <1>1 DEF PaperKept, pending
    <2>2. PICK n \in 1 .. len : HasTurn(frames[n].todo)
      BY <2>1 DEF TurnAhead
    <2>3. n # len
      <3>1. SUFFICES ASSUME n = len PROVE FALSE
        OBVIOUS
      <3>2. HasTurn(<<>>)
        BY <1>2, <2>2, <3>1
      <3>3. Len(<<>>) = 0
        OBVIOUS
      <3> QED
        BY <3>2, <3>3 DEF HasTurn
    <2>4. n \in 1 .. Len(frames') /\ frames'[n] = frames[n]
      BY <1>2, <2>3
    <2> QED
      BY <2>2, <2>4 DEF TurnAhead
  <1>9. PaperTyped' /\ shown' = grid'
    BY <1>1 DEF PaperTyped, PaperKept
  <1> QED
    BY <1>6, <1>7, <1>8, <1>9 DEF PaperKept

-----------------------------------------------------------------------------
(* An end that is ahead stays ahead.                                        *)

LEMMA SomeOps ==
  ASSUME Sound,
         \/ PrintText \/ PrintFirst \/ TypeLineFeed \/ TypeCharacter \/ SetCursorPos
         \/ Push \/ FlushTurn \/ FlushEnd \/ IdtStart \/ Switch \/ Paint
         \/ TakeSlot
  PROVE  /\ Running /\ Top.todo # <<>> /\ Now.op # "hlt"
         /\ \E ops \in Seq(Ops) : Becomes(ops)
  <1> USE DEF Sound
  <1>0. Seq(CalmOps) \subseteq Seq(Ops)
    BY CalmSeq
  <1>1. CASE PrintText \/ PrintFirst
    <2>1. Runs("print") /\ FlantermWrite(Now.text)
      BY <1>1 DEF PrintText, PrintFirst
    <2>2. Running /\ Top.todo # <<>> /\ Now.op = "print"
      BY <2>1, OtherOps
    <2>3. Now.text \in Seq(Chars)
      BY <2>2, NowTyped, OpFields
    <2> QED
      BY <1>0, <2>1, <2>2, <2>3, WrittenCalm DEF FlantermWrite
  <1>2. CASE TypeLineFeed
    <2>1. Runs("type") /\ Becomes(LineFeedOps)
      BY <1>2 DEF TypeLineFeed, LineFeedOps
    <2> QED
      BY <1>0, <2>1, OtherOps, LineFeedCalm
  <1>3. CASE TypeCharacter
    <2>1. Runs("type") /\ Becomes(CharacterOps)
      BY <1>3 DEF TypeCharacter, CharacterOps
    <2> QED
      BY <1>0, <2>1, OtherOps, CharacterCalm
  <1>4. CASE SetCursorPos \/ FlushEnd \/ IdtStart \/ Paint
    <2>1. Becomes(<<>>) /\ Running /\ Top.todo # <<>> /\ Now.op # "hlt"
      BY <1>4, OtherOps DEF SetCursorPos, FlushEnd, IdtStart, Paint
    <2> QED
      BY <1>0, <2>1, NoOps
  <1>5. CASE Switch
    <2>1. Runs("switch") /\ (Becomes(Exception) \/ Becomes(<<>>))
      BY <1>5 DEF Switch
    <2>2. Running /\ Top.todo # <<>> /\ Now.op # "hlt"
      BY <2>1, OtherOps
    <2>3. Exception \in Seq(Ops) /\ <<>> \in Seq(Ops)
      BY <1>0, ExceptionCalm, NoOps
    <2> QED
      BY <2>1, <2>2, <2>3
  <1>6. CASE Push
    <2>1. Running /\ Top.todo # <<>> /\ (Now.op = "put" \/ Now.op = "copy")
      BY <1>6, OtherOps DEF Push
    <2>2. Content \in Chars /\ Now.to \in CellIds /\ queueI + 1 \in Nat
      BY <2>1, ContentTyped, Area DEF Types
    <2>3. << Take(queueI + 1, Now.to, Content) >> \in Seq(Ops)
      BY <2>2, MidOpsOf DEF Ops
    <2>4. Becomes(<<>>) \/ Becomes(<< Take(queueI + 1, Now.to, Content) >>)
      BY <1>6 DEF Push
    <2> QED
      BY <1>0, <2>1, <2>3, <2>4, NoOps
  <1>7. CASE FlushTurn
    <2>1. Runs("turn") /\ Becomes(<< Turn(Now.k + 1) >>)
      BY <1>7 DEF FlushTurn
    <2>2. Running /\ Top.todo # <<>> /\ Now.op = "turn"
      BY <2>1, OtherOps
    <2>3. Now.k \in Nat \ {0}
      BY <2>2, NowTyped, OpFields
    <2>4. << Turn(Now.k + 1) >> \in Seq(Ops)
      BY <2>3, MidOpsOf DEF Ops
    <2> QED
      BY <2>1, <2>2, <2>4
  <1>8. CASE TakeSlot
    <2>1. Becomes(<<>>) /\ Running /\ Top.todo # <<>> /\ Now.op # "hlt"
      BY <1>8, TakeVisible, OtherOps DEF TakeSlot
    <2> QED
      BY <1>0, <2>1, NoOps
  <1> QED
    BY <1>1, <1>2, <1>3, <1>4, <1>5, <1>6, <1>7, <1>8

LEMMA LostLasts ==
  ASSUME Sound, [Next]_vars, Running', Lost
  PROVE  Lost'
  <1>1. PICK n \in 2 .. Len(frames) : HasEnd(frames[n].todo)
    BY DEF Lost
  <1>2. Types
    BY DEF Sound
  <1>3. CASE \E v \in Vectors : Raise(v)
    <2>1. PICK v \in Vectors : Raise(v)
      BY <1>3
    <2> DEFINE f == [vector |-> v, todo |-> IsrHandler]
    <2>2. frames' = Append(frames, f) /\ frames \in Seq(Frame)
      BY <1>2, <2>1 DEF Raise, Running, Types
    <2> HIDE DEF f
    <2>3. n \in 2 .. Len(frames') /\ frames'[n] = frames[n]
      BY <1>2, <2>2
    <2> QED
      BY <1>1, <2>3 DEF Lost
  <1>4. CASE PrintWithoutContext
    BY <1>4 DEF PrintWithoutContext, Running
  <1>5. CASE Resume
    <2>1. Running
      BY <1>5 DEF Resume
    <2>2. /\ Len(frames') = Len(frames) - 1 /\ Len(frames) \in Nat \ {0}
          /\ \A k \in 1 .. Len(frames') : frames'[k] = frames[k]
          /\ frames[Len(frames)].todo = <<>>
      BY <1>2, <1>5, <2>1, FrontFrames
    <2>3. n # Len(frames)
      <3>1. ~HasEnd(<<>>)
        <4>1. Len(<<>>) = 0
          OBVIOUS
        <4> QED
          BY <4>1 DEF HasEnd
      <3> QED
        BY <1>1, <2>2, <3>1
    <2>4. n \in 2 .. Len(frames') /\ n \in 1 .. Len(frames')
      BY <2>2, <2>3
    <2> QED
      BY <1>1, <2>2, <2>4 DEF Lost
  <1>6. CASE \/ PrintText \/ PrintFirst \/ TypeLineFeed \/ TypeCharacter \/ SetCursorPos
             \/ Push \/ FlushTurn \/ FlushEnd \/ IdtStart \/ Switch \/ Paint
             \/ TakeSlot
    <2>1. Running /\ Top.todo # <<>> /\ Now.op # "hlt" /\ \E ops \in Seq(Ops) : Becomes(ops)
      BY <1>6, SomeOps
    <2> QED
      BY <1>2, <2>1, LostStays
  <1>7. CASE UNCHANGED vars
    BY <1>7 DEF vars, Lost
  <1> QED
    BY <1>3, <1>4, <1>5, <1>6, <1>7 DEF Next

-----------------------------------------------------------------------------
(* The invariant.                                                           *)

LEMMA PaperBegins == Init => PaperKept
  <1> SUFFICES ASSUME Init PROVE PaperKept
    OBVIOUS
  <1> DEFINE f == [vector |-> NoVector, todo |-> Boot]
  <1>1. frames = << f >> /\ f.todo = Boot /\ f.vector = -1
    BY DEF Init, NoVector
  <1> HIDE DEF f
  <1>2. Len(frames) = 1 /\ frames[1] = f /\ Top = f
    BY <1>1 DEF Top, Last
  <1>3. /\ Len(Boot) = 4 /\ Boot[4].op = "hlt"
        /\ \A j \in 1 .. 3 : Boot[j].op \in {"print", "idtStart"}
    BY DEF Boot, Write, Do
  <1>4. \A j \in 1 .. Len(Boot) :
          /\ Boot[j].op \in PlainNames /\ Boot[j].op \notin PushNames
          /\ Boot[j].op = "hlt" => j = Len(Boot)
    <2>1. TAKE j \in 1 .. Len(Boot)
    <2>2. j \in 1 .. 3 \/ j = 4
      BY <1>3
    <2> QED
      BY <1>3, <2>2 DEF PlainNames, PushNames
  <1>5. Plain(Boot) /\ Closed(Boot)
    BY <1>4 DEF Plain, Closed
  <1>6. Shape
    <2>1. \A n \in 1 .. Len(frames) - 1 : Plain(frames[n].todo)
      BY <1>2
    <2>2. \A n \in 1 .. Len(frames) : Closed(frames[n].todo)
      BY <1>1, <1>2, <1>5
    <2>3. frames[1].vector # 14
      BY <1>1, <1>2
    <2> QED
      BY <2>1, <2>2, <2>3, Zenon DEF Shape
  <1>7. paper = << <<>> >> /\ Len(paper) = 1 /\ paper[1] = <<>>
    BY DEF Init
  <1>8. PaperTyped
    <2>1. <<>> \in Seq(Chars)
      OBVIOUS
    <2>2. << <<>> >> \in Seq(Seq(Chars))
      BY <2>1
    <2> QED
      BY <1>7, <2>2, SizeAssumption DEF PaperTyped
  <1>9. Visible = Printed
    <2>1. ASSUME NEW i \in CellIds
          PROVE  Pending(i) = Space /\ OnPaper(paper, i % Cols, i \div Cols) = Space
      <3>1. Pending(i) = Space
        BY DEF Init, Pending
      <3>2. ~(i \div Cols < Len(paper) /\ i % Cols < Len(paper[i \div Cols + 1]))
        <4>1. i % Cols \in 0 .. Cols - 1 /\ i \div Cols \in 0 .. Rows - 1
          BY Placed
        <4> DEFINE x == i % Cols
                   y == i \div Cols
        <4> HIDE DEF x, y
        <4>2. x \in Nat /\ y \in Nat
          BY <4>1, SizeAssumption DEF x, y
        <4>3. y < 1 => y + 1 = 1
          BY <4>2
        <4>4. Len(<<>>) = 0 /\ ~(x < 0)
          BY <4>2
        <4>5. ~(y < Len(paper) /\ x < Len(paper[y + 1]))
          BY <1>7, <4>3, <4>4
        <4> QED
          BY <4>5 DEF x, y
      <3> QED
        BY <3>1, <3>2 DEF OnPaper
    <2> QED
      BY <2>1 DEF Visible, Printed, OnCells
  <1>10. AtEnd
    <2>1. Len(<<>>) = 0
      OBVIOUS
    <2> QED
      BY <1>7, <2>1 DEF AtEnd, Init, Home
  <1>11. InStep
    BY <1>1, <1>2, <1>5, <1>9, <1>10 DEF InStep, Between
  <1> QED
    BY <1>6, <1>8, <1>11 DEF PaperKept, Init

LEMMA PaperSteps ==
  ASSUME Sound, PaperKept, [Next]_vars, hits' = {}, Running', ~Lost'
  PROVE  PaperKept'
  <1>1. CASE \E v \in Vectors : Raise(v)
    BY <1>1, RaiseKeeps
  <1>2. CASE PrintText \/ PrintFirst
    BY <1>2, PrintKeeps
  <1>3. CASE PrintWithoutContext
    BY <1>3 DEF PrintWithoutContext, Running
  <1>4. CASE TypeLineFeed
    BY <1>4, LineFeedKeeps
  <1>5. CASE TypeCharacter
    BY <1>5, CharacterKeeps
  <1>6. CASE SetCursorPos
    BY <1>6, CursorKeeps
  <1>7. CASE Push
    BY <1>7, PushKeeps
  <1>8. CASE TakeSlot
    BY <1>8, TakeKeeps
  <1>9. CASE FlushTurn
    BY <1>9, TurnKeeps
  <1>10. CASE FlushEnd
    BY <1>10, EndKeeps
  <1>11. CASE IdtStart
    BY <1>11, IdtKeeps
  <1>12. CASE Switch
    BY <1>12, SwitchKeeps
  <1>13. CASE Paint
    <2>1. Running /\ Top.todo # <<>> /\ Now.op = "paint"
      BY <1>13, OtherOps DEF Paint
    <2> QED
      BY <2>1, HeadTells DEF Sound, PaperKept
  <1>14. CASE Resume
    BY <1>14, ResumeKeeps
  <1>15. CASE UNCHANGED vars
    BY <1>15 DEF vars, pending, PaperKept, PaperTyped, Shape, TurnAhead, InStep, Between,
       Placing, Feeding, FeedingAt, FeedTaking, FeedTakingAt, AtStart, AtEnd, Visible,
       Printed, Pending, Top
  <1> QED
    BY <1>1, <1>2, <1>3, <1>4, <1>5, <1>6, <1>7, <1>8, <1>9, <1>10, <1>11, <1>12,
       <1>13, <1>14, <1>15 DEF Next

\* At rest nothing waits for a flush.
LEMMA PaperAtRest ==
  ASSUME Sound, PaperKept, Resting, Len(frames) = 1,
         NEW x \in 0 .. Cols - 1, NEW y \in 0 .. Rows - 1
  PROVE  shown[CellAt(x, y)] = OnPaper(paper, x, y)
  <1>1. /\ Running /\ Top.todo # <<>> /\ Now.op = "hlt" /\ Types
        /\ Shape /\ InStep /\ shown = grid
    BY DEF Resting, Runs, Sound, PaperKept
  <1>2. Between(Top.todo)
    BY <1>1, HeadTells DEF PlainNames
  <1>3. /\ Top = frames[1] /\ Top.todo \in Seq(Ops) /\ Now = Top.todo[1]
        /\ Len(Top.todo) \in Nat \ {0}
    BY <1>1, TopTyped, NowTyped
  <1>4. Len(Top.todo) = 1
    <2>1. Closed(Top.todo) /\ 1 \in 1 .. Len(Top.todo)
      BY <1>1, <1>3 DEF Shape
    <2> QED
      BY <1>1, <1>3, <2>1 DEF Closed
  <1>5. ~TurnAhead
    BY <1>1, <1>3, <1>4 DEF TurnAhead, HasTurn
  <1>6. queueI = 0
    <2>1. queueI \in Nat /\ ~(queueI > 0)
      BY <1>1, <1>5, Area DEF Types, PaperKept
    <2> QED
      BY <2>1
  <1> DEFINE i == CellAt(x, y)
  <1>7. i \in CellIds /\ i % Cols = x /\ i \div Cols = y
    BY PlaceOf
  <1>8. map[i] = 0
    <2>1. map[i] \in 0 .. Size
      BY <1>1, <1>7 DEF Types
    <2>2. map[i] # 0 => map[i] <= 0
      BY <1>6, <1>7 DEF Sound, Mapped
    <2> QED
      BY <2>1, <2>2, Area
  <1>9. Visible[i] = shown[i]
    BY <1>1, <1>7, <1>8 DEF Visible, Pending
  <1>10. Printed[i] = OnPaper(paper, x, y)
    BY <1>7 DEF Printed, OnCells
  <1> QED
    BY <1>2, <1>9, <1>10 DEF Between

\* For every size of screen, every pair of messages and any number of exceptions:
\* when _start comes to rest the screen shows what it and the handlers printed, in
\* order, scrolled as on paper, if no exception came between a reading and its use.
THEOREM PaperCorrect == Spec => []PaperShown
  <1>1. Init => IInv /\ PInv
    BY InitSound, PaperBegins DEF IInv, PInv
  <1>2. IInv /\ PInv /\ [Next]_vars => IInv' /\ PInv'
    <2> SUFFICES ASSUME IInv, PInv, [Next]_vars PROVE IInv' /\ PInv'
      OBVIOUS
    <2>1. hits \subseteq hits'
      BY HitsStay
    <2>2. IInv'
      <3>1. SUFFICES ASSUME Harmless({"push", "flush"})' PROVE Sound'
        BY DEF IInv
      <3>2. Harmless({"push", "flush"})
        BY <2>1, <3>1 DEF Harmless
      <3> QED
        BY <3>1, <3>2, StepSound DEF IInv
    <2>3. PInv'
      <3>1. SUFFICES ASSUME hits' = {}, Running', ~Lost' PROVE PaperKept'
        BY DEF PInv
      <3>2. hits = {}
        BY <2>1, <3>1
      <3>3. Sound
        BY <3>2 DEF IInv, Harmless
      <3>4. Running
        BY <3>1 DEF Next, vars, Running, Raise, Runs, PrintText, PrintFirst,
           PrintWithoutContext, TypeLineFeed, TypeCharacter, SetCursorPos, Push, TakeSlot,
           FlushTurn, FlushEnd, IdtStart, Switch, Paint, Resume
      <3>5. ~Lost
        BY <3>1, <3>3, LostLasts
      <3>6. PaperKept
        BY <3>2, <3>4, <3>5 DEF PInv
      <3> QED
        BY <3>1, <3>3, <3>6, PaperSteps
    <2> QED
      BY <2>2, <2>3
  <1>3. IInv /\ PInv => PaperShown
    <2> SUFFICES ASSUME IInv, PInv, Resting, Len(frames) = 1, hits = {},
                        NEW x \in 0 .. Cols - 1, NEW y \in 0 .. Rows - 1
                 PROVE  shown[CellAt(x, y)] = OnPaper(paper, x, y)
      BY DEF PaperShown, OnPaper
    <2>1. Sound
      BY DEF IInv, Harmless
    <2>2. Running /\ ~Lost
      BY DEF Resting, Runs, Lost
    <2>3. PaperKept
      BY <2>2 DEF PInv
    <2> QED
      BY <2>1, <2>3, PaperAtRest
  <1> QED
    BY <1>1, <1>2, <1>3, PTL DEF Spec

--------------------------------------------------------------------------------
(* Printf.                                                                   *)

(* Recursive functions: the recursion has a solution.                        *)

\* Induction over Nat, from the library's theorem about least elements.
LEMMA NatSetInduction ==
  ASSUME NEW S, 0 \in S, \A n \in Nat : n \in S => n + 1 \in S
  PROVE  Nat \subseteq S
  <1> DEFINE R == OpToRel(<, Nat)
  <1>1. \A x, y \in Nat : <<x, y>> \in R <=> x < y
    BY DEF OpToRel
  <1>2. IsWellFoundedOn(R, Nat)
    BY NatLessThanWellFounded, Zenon
  <1> HIDE DEF R
  <1>3. SUFFICES ASSUME Nat \ S # {} PROVE FALSE
    BY Zenon
  <1>4. PICK x \in Nat \ S : \A y \in Nat \ S : ~(<<y, x>> \in R)
    <2>1. Nat \ S \subseteq Nat
      OBVIOUS
    <2> QED BY <1>2, <1>3, <2>1, WFMin, Zenon
  <1>5. x # 0
    BY <1>4
  <1>6. x - 1 \in Nat /\ x - 1 < x /\ x - 1 + 1 = x
    BY <1>4, <1>5
  <1>7. x - 1 \in S
    BY <1>1, <1>4, <1>6
  <1> QED
    BY <1>4, <1>6, <1>7

\* h[n] is what step makes of h[n - 1] in turn n.
Made(h, step, v, m) ==
  h[0] = v /\ \A n \in 1 .. m : h[n] = step[<<n, h[n - 1]>>]

LEMMA OneMoreMade ==
  ASSUME NEW V, NEW v \in V, NEW top \in Nat, NEW step \in [(1 .. top) \X V -> V],
         NEW m \in Nat, m + 1 <= top, NEW h \in [0 .. m -> V], Made(h, step, v, m)
  PROVE  \E g \in [0 .. m + 1 -> V] : Made(g, step, v, m + 1)
  <1> DEFINE x == step[<<m + 1, h[m]>>]
             g == [n \in 0 .. m + 1 |-> IF n = m + 1 THEN x ELSE h[n]]
  <1>1. m + 1 \in 1 .. top /\ m \in 0 .. m
    OBVIOUS
  <1>2. h[m] \in V
    BY <1>1
  <1>3. x \in V
    BY <1>1, <1>2
  <1> HIDE DEF x
  <1>4. g \in [0 .. m + 1 -> V] /\ g[m + 1] = x /\ \A n \in 0 .. m : g[n] = h[n]
    BY <1>3
  <1> HIDE DEF g
  <1>5. g[0] = v
    BY <1>4 DEF Made
  <1>6. ASSUME NEW n \in 1 .. m + 1 PROVE g[n] = step[<<n, g[n - 1]>>]
    <2>1. CASE n = m + 1
      <3>1. g[n - 1] = h[m]
        BY <1>4, <2>1
      <3> QED
        BY <1>4, <2>1, <3>1 DEF x
    <2>2. CASE n # m + 1
      <3>1. n \in 1 .. m /\ n \in 0 .. m /\ n - 1 \in 0 .. m
        BY <2>2
      <3> QED
        BY <1>4, <3>1 DEF Made
    <2> QED
      BY <2>1, <2>2
  <1> QED
    BY <1>4, <1>5, <1>6 DEF Made

LEMMA MadeExists ==
  ASSUME NEW V, NEW v \in V, NEW top \in Nat, NEW step \in [(1 .. top) \X V -> V]
  PROVE  \E h \in [0 .. top -> V] : Made(h, step, v, top)
  <1> DEFINE S == {m \in Nat : m <= top => \E h \in [0 .. m -> V] : Made(h, step, v, m)}
  <1>1. 0 \in S
    <2> DEFINE h == [n \in 0 .. 0 |-> v]
    <2>1. h \in [0 .. 0 -> V] /\ Made(h, step, v, 0)
      BY DEF Made
    <2> QED
      BY <2>1, Zenon
  <1>2. ASSUME NEW m \in Nat, m \in S PROVE m + 1 \in S
    <2>1. m + 1 \in Nat /\ (m + 1 <= top => m <= top)
      OBVIOUS
    <2>2. ASSUME m + 1 <= top
          PROVE  \E h \in [0 .. m + 1 -> V] : Made(h, step, v, m + 1)
      <3>1. PICK h \in [0 .. m -> V] : Made(h, step, v, m)
        BY <1>2, <2>1, <2>2, Zenon
      <3> QED
        BY <2>2, <3>1, OneMoreMade
    <2> QED
      BY <2>1, <2>2, Zenon
  <1> HIDE DEF S
  <1>3. Nat \subseteq S
    BY <1>1, <1>2, NatSetInduction
  <1>4. top \in S /\ top <= top
    BY <1>3
  <1> QED
    BY <1>4, Zenon DEF S

\* Whatever solves it takes its values in V.
LEMMA MadeTyped ==
  ASSUME NEW V, NEW v \in V, NEW top \in Nat, NEW step \in [(1 .. top) \X V -> V],
         NEW h, h[0] = v,
         \A n \in 1 .. top : h[n - 1] \in V => h[n] = step[<<n, h[n - 1]>>]
  PROVE  \A n \in 0 .. top : h[n] \in V
  <1> DEFINE S == {n \in Nat : n <= top => h[n] \in V}
  <1>1. 0 \in S
    OBVIOUS
  <1>2. ASSUME NEW n \in Nat, n \in S PROVE n + 1 \in S
    <2>1. SUFFICES ASSUME n + 1 <= top PROVE h[n + 1] \in V
      OBVIOUS
    <2>2. n + 1 \in 1 .. top /\ (n + 1) - 1 = n /\ h[n] \in V
      BY <1>2, <2>1
    <2>3. h[n + 1] = step[<<n + 1, h[n]>>]
      BY <2>2
    <2>4. <<n + 1, h[n]>> \in (1 .. top) \X V
      BY <2>2
    <2> QED
      BY <2>3, <2>4
  <1> HIDE DEF S
  <1>3. Nat \subseteq S
    BY <1>1, <1>2, NatSetInduction
  <1> QED
    BY <1>3 DEF S

-----------------------------------------------------------------------------
(* The buffers.                                                              *)

PowerBody(b, n, P) == [k \in 0 .. n |-> IF k = 0 THEN 1 ELSE b * P[k - 1]]
Powers(b, n) == CHOOSE P : P = PowerBody(b, n, P)

LEMMA PowersAre ==
  ASSUME NEW b \in Nat, NEW n \in Nat
  PROVE  /\ Power(b, n) = Powers(b, n)[n]
         /\ Powers(b, n)[0] = 1 /\ \A k \in 0 .. n : Powers(b, n)[k] \in Int
         /\ \A k \in 1 .. n : Powers(b, n)[k] = b * Powers(b, n)[k - 1]
  <1> DEFINE step == [w \in (1 .. n) \X Int |-> b * w[2]]
  <1>1. step \in [(1 .. n) \X Int -> Int]
    OBVIOUS
  <1>2. \A k \in 1 .. n, x \in Int : step[<<k, x>>] = b * x
    OBVIOUS
  <1> HIDE DEF step
  <1>3. PICK f \in [0 .. n -> Int] : Made(f, step, 1, n)
    <2>1. 1 \in Int
      OBVIOUS
    <2> QED
      BY <1>1, <2>1, MadeExists
  <1>4. f = PowerBody(b, n, f)
    <2>1. \A k \in 1 .. n : f[k] = b * f[k - 1]
      <3>1. \A k \in 1 .. n : k - 1 \in 0 .. n
        OBVIOUS
      <3> QED
        BY <1>2, <1>3, <3>1 DEF Made
    <2>2. f[0] = 1 /\ \A k \in 0 .. n : k # 0 => k \in 1 .. n
      BY <1>3 DEF Made
    <2>3. \A k \in 0 .. n : f[k] = IF k = 0 THEN 1 ELSE b * f[k - 1]
      BY <2>1, <2>2, Zenon
    <2>4. f = [k \in 0 .. n |-> f[k]]
      BY <1>3
    <2> QED
      BY <2>3, <2>4, Zenon DEF PowerBody
  <1>5. Powers(b, n) = PowerBody(b, n, Powers(b, n))
    BY <1>4, Zenon DEF Powers
  <1> PICK P : P = Powers(b, n)
    OBVIOUS
  <1>6. P[0] = 1 /\ \A k \in 1 .. n : P[k] = b * P[k - 1]
    <2>1. 0 \in 0 .. n /\ \A k \in 1 .. n : k \in 0 .. n /\ k # 0
      OBVIOUS
    <2>2. \A k \in 0 .. n : P[k] = IF k = 0 THEN 1 ELSE b * P[k - 1]
      BY <1>5, Zenon DEF PowerBody
    <2> QED
      BY <2>1, <2>2, Zenon
  <1>7. \A k \in 0 .. n : P[k] \in Int
    <2>1. 1 \in Int /\ \A k \in 1 .. n : P[k - 1] \in Int => P[k] = step[<<k, P[k - 1]>>]
      BY <1>2, <1>6
    <2> HIDE <1>2
    <2> QED
      BY <1>1, <1>6, <2>1, MadeTyped, Zenon
  <1>8. Power(b, n) = Powers(b, n)[n]
    BY Zenon DEF Power, Powers, PowerBody
  <1> QED
    BY <1>6, <1>7, <1>8

\* A number in the making; a number the program can have.
Marks == {Figures[n] : n \in 1 .. 16} \cup {"below 0", "-"}
Numbers == [kind : {"d", "p"}, value : Int, negative : BOOLEAN, buffer : Seq(Marks),
            phase : {"figures", "sign", "end"}]
NumberTyped == number \in Numbers \cup {Idle}

\* Room for figures, without the sign and the NUL.
BufferOf(kind) == IF kind = "d" THEN IntBuffer ELSE PtrBuffer
Room(kind) == IF kind = "d" THEN IntBuffer - 2 ELSE PtrBuffer - 1
BaseOf(kind) == IF kind = "d" THEN 10 ELSE 16
Magnitude(v) == IF v < 0 THEN -v ELSE v
PowersOf(kind) == Powers(BaseOf(kind), Room(kind))

\* What is left of the value has no more figures than there is room for.
Fits(m) ==
  /\ m.kind = "p" => m.negative = FALSE
  /\ m.phase = "figures" =>
       /\ Len(m.buffer) < Room(m.kind)
       /\ Magnitude(m.value) < PowersOf(m.kind)[Room(m.kind) - Len(m.buffer)]
  /\ m.phase = "sign" => Len(m.buffer) <= Room(m.kind)
  /\ m.phase = "end" => Len(m.buffer) < BufferOf(m.kind)
BInv == NumberTyped /\ (number # Idle => Fits(number))

LEMMA Rooms ==
  ASSUME NEW kind \in {"d", "p"}
  PROVE  /\ Room(kind) \in Nat \ {0} /\ BaseOf(kind) \in Nat
         /\ BufferOf(kind) \in Nat /\ Room(kind) + (IF kind = "d" THEN 2 ELSE 1) = BufferOf(kind)
         /\ PowersOf(kind)[0] = 1
         /\ \A k \in 0 .. Room(kind) : PowersOf(kind)[k] \in Int
         /\ \A k \in 1 .. Room(kind) : PowersOf(kind)[k] = BaseOf(kind) * PowersOf(kind)[k - 1]
  <1>1. Room(kind) \in Nat \ {0} /\ BaseOf(kind) \in Nat
    BY BuffersAssumption DEF Room, BaseOf
  <1>2. BufferOf(kind) \in Nat /\ Room(kind) + (IF kind = "d" THEN 2 ELSE 1) = BufferOf(kind)
    BY BuffersAssumption DEF BufferOf, Room
  <1>3. Room(kind) \in Nat
    BY <1>1
  <1>4. /\ PowersOf(kind)[0] = 1
        /\ \A k \in 0 .. Room(kind) : PowersOf(kind)[k] \in Int
        /\ \A k \in 1 .. Room(kind) : PowersOf(kind)[k] = BaseOf(kind) * PowersOf(kind)[k - 1]
    BY <1>1, <1>3, PowersAre, Zenon DEF PowersOf
  <1> QED
    BY <1>1, <1>2, <1>4

LEMMA Largest ==
  /\ \A v \in Ints : Magnitude(v) < PowersOf("d")[Room("d")]
  /\ \A v \in Ptrs : Magnitude(v) < PowersOf("p")[Room("p")]
  <1>1. "d" \in {"d", "p"} /\ "p" \in {"d", "p"}
    OBVIOUS
  <1>2. /\ PowersOf("d")[Room("d")] \in Int /\ PowersOf("p")[Room("p")] \in Int
    BY <1>1, Rooms
  <1>3. /\ PowersOf("d")[Room("d")] = Power(10, IntBuffer - 2)
        /\ PowersOf("p")[Room("p")] = Power(16, PtrBuffer - 1)
    BY BuffersAssumption, PowersAre DEF PowersOf, Room, BaseOf
  <1> QED
    BY <1>2, <1>3, BuffersAssumption, WidthAssumption DEF Magnitude, Ints, Ptrs

LEMMA DigitOf ==
  ASSUME NEW kind \in {"d", "p"}, NEW v \in Int
  PROVE  LET b == BaseOf(kind)
             q == Quotient(v, b)
             r == Remainder(v, b)
         IN  /\ q \in Int /\ r \in Int /\ b \in {10, 16}
             /\ b * Magnitude(q) <= Magnitude(v)
             /\ v >= 0 => q >= 0 /\ r \in 0 .. b - 1 /\ b * q + r = v
             /\ r \in -15 .. 15
  <1>1. CASE kind = "d"
    BY <1>1 DEF BaseOf, Quotient, Remainder, Magnitude
  <1>2. CASE kind = "p"
    BY <1>2 DEF BaseOf, Quotient, Remainder, Magnitude
  <1> QED
    BY <1>1, <1>2

LEMMA FigureTyped == \A r \in -15 .. 15 : Figure(r) \in Marks
  <1>1. \A r \in -15 .. 15 : r < 0 => Figure(r) \in Marks
    BY DEF Figure, Marks
  <1>2. ASSUME NEW r \in -15 .. 15, r >= 0 PROVE Figure(r) \in Marks
    <2>1. r + 1 \in 1 .. 16 /\ ~(r < 0)
      BY <1>2
    <2>3. Figure(r) = Figures[r + 1]
      BY <2>1, Zenon DEF Figure
    <2>2. Figures[r + 1] \in {Figures[n] : n \in 1 .. 16}
      BY <2>1
    <2> QED
      BY <2>2, <2>3 DEF Marks
  <1> QED
    BY <1>1, <1>2

LEMMA NotIdle ==
  /\ Idle \notin Numbers
  /\ \A m \in Numbers : m # Idle
  <1>1. ASSUME NEW m \in Numbers PROVE m # Idle
    BY DEF Numbers, Idle
  <1> QED
    BY <1>1

LEMMA FigureFits ==
  ASSUME number \in Numbers, Fits(number), WriteFigure
  PROVE  number' \in Numbers /\ Fits(number')
  <1> DEFINE m == number
             b == BaseOf(m.kind)
             q == Quotient(m.value, b)
             c == Figure(Remainder(m.value, b))
             L == Len(m.buffer)
             P == PowersOf(m.kind)
  <1>1. /\ m.kind \in {"d", "p"} /\ m.value \in Int /\ m.negative \in BOOLEAN
        /\ m.buffer \in Seq(Marks)
    BY DEF Numbers
  <1>2. /\ m.phase = "figures"
        /\ m' = [m EXCEPT !.buffer = Append(m.buffer, c), !.value = q,
                          !.phase = IF q = 0 THEN "sign" ELSE m.phase]
    BY <1>1 DEF WriteFigure, Store, Base, BaseOf
  <1>3. c \in Marks /\ q \in Int /\ b * Magnitude(q) <= Magnitude(m.value) /\ b \in {10, 16}
    BY <1>1, DigitOf, FigureTyped
  <1> HIDE DEF c, q, b
  <1>4. Append(m.buffer, c) \in Seq(Marks) /\ Len(Append(m.buffer, c)) = L + 1 /\ L \in Nat
    BY <1>1, <1>3
  <1>5. m' \in Numbers
    BY <1>1, <1>2, <1>3, <1>4 DEF Numbers
  <1>6. /\ m'.kind = m.kind /\ m'.negative = m.negative /\ m'.buffer = Append(m.buffer, c)
        /\ m'.value = q /\ m'.phase = IF q = 0 THEN "sign" ELSE "figures"
    BY <1>2 DEF Numbers
  <1>7. L < Room(m.kind) /\ Magnitude(m.value) < P[Room(m.kind) - L]
    BY <1>2 DEF Fits
  <1>8. /\ Room(m.kind) \in Nat /\ P[0] = 1
        /\ Room(m.kind) - L \in 1 .. Room(m.kind)
        /\ Room(m.kind) - (L + 1) \in 0 .. Room(m.kind)
        /\ P[Room(m.kind) - (L + 1)] \in Int
        /\ P[Room(m.kind) - L] = b * P[Room(m.kind) - (L + 1)]
    <2>1. Room(m.kind) \in Nat
      BY <1>1, Rooms
    <2>2. /\ Room(m.kind) - L \in 1 .. Room(m.kind)
          /\ Room(m.kind) - (L + 1) \in 0 .. Room(m.kind)
          /\ (Room(m.kind) - L) - 1 = Room(m.kind) - (L + 1)
      BY <1>4, <1>7, <2>1
    <2>3. P[Room(m.kind) - L] = b * P[(Room(m.kind) - L) - 1]
      BY <1>1, <2>2, Rooms DEF b
    <2> QED
      BY <1>1, <2>1, <2>2, <2>3, Rooms
  <1> HIDE DEF P
  <1>9. Magnitude(q) < P[Room(m.kind) - (L + 1)]
    <2>1. Magnitude(q) \in Nat /\ Magnitude(m.value) \in Nat
      BY <1>1, <1>3 DEF Magnitude
    <2> QED
      BY <1>3, <1>7, <1>8, <2>1
  <1>10. q # 0 => L + 1 < Room(m.kind)
    <2>1. q # 0 => Magnitude(q) >= 1
      BY <1>3 DEF Magnitude
    <2>2. Room(m.kind) - (L + 1) # 0 => L + 1 < Room(m.kind)
      BY <1>4, <1>8
    <2>3. Room(m.kind) - (L + 1) = 0 => Magnitude(q) < 1
      BY <1>8, <1>9
    <2>4. Magnitude(q) \in Int
      BY <1>3 DEF Magnitude
    <2> QED
      BY <2>1, <2>2, <2>3, <2>4
  <1>11. Fits(m')
    <2>1. m'.kind = "p" => m'.negative = FALSE
      BY <1>6 DEF Fits
    <2>2. m'.phase = "figures" => q # 0
      BY <1>6
    <2>3. m'.phase = "sign" => L + 1 <= Room(m.kind)
      BY <1>4, <1>7, <1>8
    <2>4. m'.phase # "end"
      BY <1>6
    <2> QED
      BY <1>4, <1>6, <1>9, <1>10, <2>1, <2>2, <2>3, <2>4 DEF Fits, P
  <1> QED
    BY <1>5, <1>11

LEMMA SignFits ==
  ASSUME number \in Numbers, Fits(number), WriteSign
  PROVE  number' \in Numbers /\ Fits(number')
  <1> DEFINE m == number
             s == IF m.negative THEN Append(m.buffer, "-") ELSE m.buffer
  <1>1. /\ m.kind \in {"d", "p"} /\ m.value \in Int /\ m.negative \in BOOLEAN
        /\ m.buffer \in Seq(Marks)
    BY DEF Numbers
  <1>2. m.phase = "sign" /\ m' = [m EXCEPT !.buffer = s, !.phase = "end"]
    BY <1>1 DEF WriteSign, Store, Numbers
  <1>3. "-" \in Marks
    BY DEF Marks
  <1>4. /\ s \in Seq(Marks) /\ Len(s) <= Len(m.buffer) + 1
        /\ m.negative = FALSE => Len(s) = Len(m.buffer)
    <2>1. CASE m.negative
      BY <1>1, <1>3, <2>1
    <2>2. CASE m.negative = FALSE
      BY <1>1, <2>2
    <2> QED
      BY <1>1, <2>1, <2>2
  <1> HIDE DEF s
  <1>5. m' \in Numbers /\ m'.kind = m.kind /\ m'.negative = m.negative /\ m'.buffer = s
        /\ m'.phase = "end"
    BY <1>1, <1>2, <1>4 DEF Numbers
  <1>6. Len(m.buffer) <= Room(m.kind) /\ (m.kind = "p" => m.negative = FALSE)
    BY <1>2 DEF Fits
  <1>7. Len(s) < BufferOf(m.kind)
    <2>1. Len(s) \in Nat /\ Len(m.buffer) \in Nat
      BY <1>1, <1>4
    <2>2. /\ Room(m.kind) \in Nat /\ BufferOf(m.kind) \in Nat
          /\ Room(m.kind) + (IF m.kind = "d" THEN 2 ELSE 1) = BufferOf(m.kind)
      BY <1>1, Rooms
    <2>3. CASE m.kind = "d"
      BY <1>4, <1>6, <2>1, <2>2, <2>3
    <2>4. CASE m.kind = "p"
      <3>1. Len(s) = Len(m.buffer)
        BY <1>4, <1>6, <2>4
      <3> QED
        BY <1>6, <2>1, <2>2, <2>4, <3>1
    <2> QED
      BY <1>1, <2>3, <2>4
  <1> QED
    BY <1>5, <1>6, <1>7 DEF Fits

LEMMA StartFits ==
  ASSUME NEW kind \in {"d", "p"}, NEW v \in Int, NEW w \in Int, Magnitude(w) = Magnitude(v),
         kind = "d" => v \in Ints, NEW negative \in BOOLEAN,
         kind = "p" => v \in Ptrs /\ negative = FALSE,
         NEW m, m = [kind |-> kind, value |-> w, negative |-> negative,
                     buffer |-> <<>>, phase |-> "figures"]
  PROVE  m \in Numbers /\ Fits(m)
  <1>1. m \in Numbers
    BY DEF Numbers
  <1>2. Len(m.buffer) = 0 /\ Room(kind) \in Nat \ {0}
    BY Rooms
  <1>3. Magnitude(v) < PowersOf(kind)[Room(kind)]
    BY Largest
  <1>4. Room(kind) - 0 = Room(kind) /\ 0 < Room(kind)
    BY <1>2
  <1> QED
    BY <1>1, <1>2, <1>3, <1>4 DEF Fits

LEMMA BuffersStep == BInv /\ [PrintfNext]_printfVars => BInv'
  <1> SUFFICES ASSUME BInv, [PrintfNext]_printfVars PROVE BInv'
    OBVIOUS
  <1>1. CASE UNCHANGED number
    BY <1>1 DEF BInv, NumberTyped, Fits
  <1>2. ASSUME NEW v \in Ints, StartInt(v) PROVE BInv'
    <2>1. PICK w \in IF v < 0 THEN Negated(v) ELSE {v} :
            number' = [kind |-> "d", value |-> w, negative |-> v < 0,
                       buffer |-> <<>>, phase |-> "figures"]
      BY <1>2 DEF StartInt
    <2>2. v \in Int /\ w \in Int /\ Magnitude(w) = Magnitude(v) /\ (v < 0) \in BOOLEAN
      BY WidthAssumption DEF Ints, Negated, Magnitude
    <2>3. number' \in Numbers /\ Fits(number')
      <3>1. "d" \in {"d", "p"} /\ "d" # "p"
        OBVIOUS
      <3> QED
        BY <2>1, <2>2, <3>1, StartFits
    <2> QED
      BY <2>3 DEF BInv, NumberTyped, Fits
  <1>3. ASSUME NEW v \in Ptrs, StartPtr(v) PROVE BInv'
    <2>1. number' = [kind |-> "p", value |-> v, negative |-> FALSE,
                     buffer |-> <<>>, phase |-> "figures"]
      BY <1>3 DEF StartPtr
    <2>2. v \in Int
      BY DEF Ptrs
    <2>3. number' \in Numbers /\ Fits(number')
      BY <2>1, <2>2, StartFits
    <2> QED
      BY <2>3 DEF BInv, NumberTyped, Fits
  <1>4. CASE WriteFigure
    <2>1. number \in Numbers /\ Fits(number)
      BY <1>4 DEF WriteFigure, BInv, NumberTyped
    <2>2. number' \in Numbers /\ Fits(number')
      BY <1>4, <2>1, FigureFits
    <2> QED
      BY <2>2 DEF BInv, NumberTyped, Fits
  <1>5. CASE WriteSign
    <2>1. number \in Numbers /\ Fits(number)
      BY <1>5 DEF WriteSign, BInv, NumberTyped
    <2>2. number' \in Numbers /\ Fits(number')
      BY <1>5, <2>1, SignFits
    <2> QED
      BY <2>2 DEF BInv, NumberTyped, Fits
  <1>6. CASE PrintNumber
    BY <1>6 DEF PrintNumber, BInv, NumberTyped, Idle
  <1> QED
    BY <1>1, <1>2, <1>3, <1>4, <1>5, <1>6
       DEF PrintfNext, Character, Return, OtherDirective, printfVars

\* Whatever is printed, the characters of a number and the NUL behind them lie in
\* the buffer on the stack, for every width of an int and every size of the buffers
\* that leaves room for the longest number.
THEOREM BuffersSuffice == PrintfSpec => []BuffersHold
  <1>1. PrintfInit => BInv
    BY DEF PrintfInit, BInv, NumberTyped
  <1>2. BInv => BuffersHold
    <2> SUFFICES ASSUME BInv, number # Idle
                 PROVE  /\ Len(number.buffer) <= BufferOf(number.kind)
                        /\ number.phase = "end" => Len(number.buffer) < BufferOf(number.kind)
      BY DEF BuffersHold, BufferOf
    <2>1. number \in Numbers /\ Fits(number)
      BY DEF BInv, NumberTyped
    <2>2. /\ number.kind \in {"d", "p"} /\ number.buffer \in Seq(Marks)
          /\ number.phase \in {"figures", "sign", "end"}
      BY <2>1 DEF Numbers
    <2>3. Len(number.buffer) \in Nat
      BY <2>2
    <2> QED
      BY <2>1, <2>2, <2>3, Rooms DEF Fits
  <1> QED
    BY <1>1, <1>2, BuffersStep, PTL DEF PrintfSpec

-----------------------------------------------------------------------------
(* What a text reads as.                                                     *)

Figs(base) == {Figures[n] : n \in 1 .. base}

LEMMA FiguresDiffer ==
  /\ DOMAIN Figures = 1 .. 16
  /\ \A n, m \in 1 .. 16 : Figures[n] = Figures[m] => n = m
  BY DEF Figures

LEMMA FigureIs ==
  ASSUME NEW base \in {10, 16}, NEW r \in 0 .. base - 1
  PROVE  Figure(r) \in Figs(base) /\ Worth(Figure(r)) = r /\ (Figure(r) = "0" => r = 0)
  <1>1. r + 1 \in 1 .. base /\ r + 1 \in 1 .. 16 /\ ~(r < 0) /\ (r + 1) - 1 = r
    OBVIOUS
  <1>2. Figure(r) = Figures[r + 1]
    BY <1>1, Zenon DEF Figure
  <1>3. Figure(r) \in Figs(base)
    BY <1>1, <1>2 DEF Figs
  <1>4. (CHOOSE n \in DOMAIN Figures : Figures[n] = Figure(r)) = r + 1
    BY <1>1, <1>2, FiguresDiffer
  <1>5. Worth(Figure(r)) = r
    BY <1>1, <1>4 DEF Worth
  <1>6. Figures[1] = "0" /\ 1 \in 1 .. 16
    BY DEF Figures
  <1>7. Figure(r) = "0" => r = 0
    <2>1. Figures[r + 1] = Figures[1] => r + 1 = 1
      BY <1>1, <1>6, FiguresDiffer
    <2>2. r + 1 = 1 => r = 0
      OBVIOUS
    <2> QED
      BY <1>2, <1>6, <2>1, <2>2
  <1> QED
    BY <1>3, <1>5, <1>7

LEMMA WorthTyped ==
  ASSUME NEW base \in {10, 16}, NEW c \in Figs(base)
  PROVE  Worth(c) \in Int
  <1>1. PICK n \in 1 .. base : c = Figures[n]
    BY DEF Figs
  <1>2. n \in DOMAIN Figures /\ n \in 1 .. 16
    BY <1>1, FiguresDiffer
  <1>3. (CHOOSE k \in DOMAIN Figures : Figures[k] = c) \in DOMAIN Figures
    BY <1>1, <1>2
  <1>4. (CHOOSE k \in DOMAIN Figures : Figures[k] = c) \in Int
    <2>1. 1 .. 16 \subseteq Int
      OBVIOUS
    <2> QED
      BY <1>3, <2>1, FiguresDiffer, Zenon
  <1> QED
    BY <1>4 DEF Worth

ReadingBody(v, text, base, R) ==
  [n \in 0 .. Len(text) |-> IF n = 0 THEN v ELSE base * R[n - 1] + Worth(text[n])]
Readings(v, text, base) == CHOOSE R : R = ReadingBody(v, text, base, R)

LEMMA ReadingsAre ==
  ASSUME NEW base \in {10, 16}, NEW v \in Int, NEW text \in Seq(Figs(base))
  PROVE  /\ Reading(v, text, base) = Readings(v, text, base)[Len(text)]
         /\ Readings(v, text, base)[0] = v
         /\ \A n \in 0 .. Len(text) : Readings(v, text, base)[n] \in Int
         /\ \A n \in 1 .. Len(text) :
              Readings(v, text, base)[n] = base * Readings(v, text, base)[n - 1] + Worth(text[n])
  <1> DEFINE m == Len(text)
             step == [w \in (1 .. m) \X Int |-> base * w[2] + Worth(text[w[1]])]
  <1>0. m \in Nat /\ base \in Int /\ \A n \in 1 .. m : Worth(text[n]) \in Int
    BY WorthTyped
  <1>1. step \in [(1 .. m) \X Int -> Int]
    BY <1>0
  <1>2. \A n \in 1 .. m, x \in Int : step[<<n, x>>] = base * x + Worth(text[n])
    OBVIOUS
  <1> HIDE DEF step
  <1>3. PICK f \in [0 .. m -> Int] : Made(f, step, v, m)
    BY <1>0, <1>1, MadeExists
  <1>4. f = ReadingBody(v, text, base, f)
    <2>1. \A n \in 1 .. m : f[n] = base * f[n - 1] + Worth(text[n])
      <3>1. \A n \in 1 .. m : n - 1 \in 0 .. m
        BY <1>0
      <3> QED
        BY <1>2, <1>3, <3>1 DEF Made
    <2>2. f[0] = v /\ \A n \in 0 .. m : n # 0 => n \in 1 .. m
      BY <1>3 DEF Made
    <2>3. \A n \in 0 .. m : f[n] = IF n = 0 THEN v ELSE base * f[n - 1] + Worth(text[n])
      BY <2>1, <2>2, Zenon
    <2>4. f = [n \in 0 .. m |-> f[n]]
      BY <1>3
    <2> QED
      BY <2>3, <2>4, Zenon DEF ReadingBody
  <1>5. Readings(v, text, base) = ReadingBody(v, text, base, Readings(v, text, base))
    BY <1>4, Zenon DEF Readings
  <1> PICK R : R = Readings(v, text, base)
    OBVIOUS
  <1>6. R[0] = v /\ \A n \in 1 .. m : R[n] = base * R[n - 1] + Worth(text[n])
    <2>1. 0 \in 0 .. m /\ \A n \in 1 .. m : n \in 0 .. m /\ n # 0
      BY <1>0
    <2>2. \A n \in 0 .. m : R[n] = IF n = 0 THEN v ELSE base * R[n - 1] + Worth(text[n])
      BY <1>5, Zenon DEF ReadingBody
    <2> QED
      BY <2>1, <2>2, Zenon
  <1>7. \A n \in 0 .. m : R[n] \in Int
    <2>1. \A n \in 1 .. m : R[n - 1] \in Int => R[n] = step[<<n, R[n - 1]>>]
      BY <1>2, <1>6
    <2>2. m \in Nat /\ R[0] = v
      BY <1>0, <1>6
    <2> HIDE DEF m
    <2> QED
      BY ONLY v \in Int, <1>1, <2>1, <2>2, MadeTyped, Zenon
  <1>8. Reading(v, text, base) = Readings(v, text, base)[m]
    BY Zenon DEF Reading, Readings, ReadingBody
  <1> QED
    BY <1>6, <1>7, <1>8

LEMMA NothingToRead ==
  ASSUME NEW base \in {10, 16}, NEW v \in Int
  PROVE  Reading(v, <<>>, base) = v
  <1>1. <<>> \in Seq(Figs(base)) /\ Len(<<>>) = 0
    OBVIOUS
  <1>2. Reading(v, <<>>, base) = Readings(v, <<>>, base)[0]
    BY <1>1, ReadingsAre
  <1>3. Readings(v, <<>>, base)[0] = v
    BY <1>1, ReadingsAre, Zenon
  <1> QED
    BY <1>2, <1>3

\* u is c and what follows in t.
Leads(u, c, t, C) ==
  /\ u \in Seq(C) /\ t \in Seq(C) /\ u # <<>> /\ Head(u) = c /\ Tail(u) = t
  /\ Len(u) = Len(t) + 1 /\ u[1] = c /\ \A n \in 1 .. Len(t) : u[n + 1] = t[n]

\* The first figure of a text is read first.
LEMMA FirstRead ==
  ASSUME NEW base \in {10, 16}, NEW v \in Int, NEW c \in Figs(base),
         NEW t \in Seq(Figs(base)), NEW u \in Seq(Figs(base)),
         Leads(u, c, t, Figs(base))
  PROVE  Reading(v, u, base) = Reading(base * v + Worth(c), t, base)
  <1> DEFINE w == base * v + Worth(c)
  <1>1. w \in Int
    BY WorthTyped
  <1>2. Len(u) = Len(t) + 1 /\ u[1] = c /\ \A n \in 1 .. Len(t) : u[n + 1] = t[n]
    BY DEF Leads
  <1> DEFINE R == Readings(v, u, base)
             Q == Readings(w, t, base)
  <1>3. /\ Reading(v, u, base) = R[Len(u)] /\ R[0] = v
        /\ \A n \in 1 .. Len(u) : R[n] = base * R[n - 1] + Worth(u[n])
    BY ReadingsAre
  <1> HIDE DEF w
  <1>4. /\ Reading(w, t, base) = Q[Len(t)] /\ Q[0] = w
        /\ \A n \in 1 .. Len(t) : Q[n] = base * Q[n - 1] + Worth(t[n])
    BY <1>1, ReadingsAre
  <1> HIDE DEF R, Q
  <1> DEFINE S == {n \in Nat : n <= Len(t) => R[n + 1] = Q[n]}
  <1>5. 0 \in S
    <2>1. 1 \in 1 .. Len(u) /\ 1 - 1 = 0
      BY <1>2
    <2> QED
      BY <1>2, <1>3, <1>4, <2>1 DEF w
  <1>6. ASSUME NEW n \in Nat, n \in S PROVE n + 1 \in S
    <2>1. SUFFICES ASSUME n + 1 <= Len(t) PROVE R[n + 2] = Q[n + 1]
      OBVIOUS
    <2>2. /\ n + 1 \in 1 .. Len(t) /\ (n + 1) - 1 = n /\ n + 2 \in 1 .. Len(u)
          /\ (n + 2) - 1 = n + 1 /\ (n + 1) + 1 = n + 2
      BY <1>2, <2>1
    <2>3. R[n + 1] = Q[n]
      BY <1>6, <2>1
    <2>4. u[n + 2] = t[n + 1]
      BY <1>2, <2>2
    <2>5. R[n + 2] = base * R[n + 1] + Worth(u[n + 2]) /\ Q[n + 1] = base * Q[n] + Worth(t[n + 1])
      BY <1>3, <1>4, <2>2
    <2> QED
      BY <2>3, <2>4, <2>5
  <1> HIDE DEF S
  <1>7. Nat \subseteq S
    BY <1>5, <1>6, NatSetInduction
  <1> QED
    BY <1>2, <1>3, <1>4, <1>7 DEF S, w

LEMMA ReverseTyped ==
  ASSUME NEW C, NEW s \in Seq(C)
  PROVE  Reverse(s) \in Seq(C) /\ Len(Reverse(s)) = Len(s)
  BY DEF Reverse

LEMMA ReverseAppend ==
  ASSUME NEW C, NEW s \in Seq(C), NEW c \in C
  PROVE  Leads(Reverse(Append(s, c)), c, Reverse(s), C)
  <1> DEFINE t == Append(s, c)
             u == Reverse(t)
  <1>1. /\ t \in Seq(C) /\ Len(t) = Len(s) + 1 /\ t[Len(s) + 1] = c /\ Len(s) \in Nat
        /\ \A n \in 1 .. Len(s) : t[n] = s[n]
    OBVIOUS
  <1> HIDE DEF t
  <1>2. u \in Seq(C) /\ Len(u) = Len(s) + 1 /\ \A n \in 1 .. Len(t) : u[n] = t[(Len(t) - n) + 1]
    BY <1>1 DEF Reverse
  <1> HIDE DEF u
  <1>3. u[1] = c
    <2>1. 1 \in 1 .. Len(t) /\ (Len(t) - 1) + 1 = Len(s) + 1
      BY <1>1
    <2> QED
      BY <1>1, <1>2, <2>1
  <1>4. ASSUME NEW n \in 1 .. Len(s) PROVE u[n + 1] = Reverse(s)[n]
    <2>1. /\ n + 1 \in 1 .. Len(t) /\ (Len(t) - (n + 1)) + 1 = (Len(s) - n) + 1
          /\ (Len(s) - n) + 1 \in 1 .. Len(s)
      BY <1>1
    <2>2. Reverse(s)[n] = s[(Len(s) - n) + 1]
      BY DEF Reverse
    <2> QED
      BY <1>1, <1>2, <2>1, <2>2
  <1>5. u # <<>> /\ Head(u) = c
    BY <1>1, <1>2, <1>3
  <1>6. Tail(u) = Reverse(s)
    <2>1. /\ Tail(u) \in Seq(C) /\ Len(Tail(u)) = Len(s)
          /\ \A n \in 1 .. Len(s) : Tail(u)[n] = u[n + 1]
      BY <1>1, <1>2, <1>5
    <2>2. Reverse(s) \in Seq(C) /\ Len(Reverse(s)) = Len(s)
      BY ReverseTyped
    <2> QED
      BY <1>4, <2>1, <2>2
  <1>7. Reverse(s) \in Seq(C) /\ Len(Reverse(s)) = Len(s)
    BY ReverseTyped
  <1> QED
    BY <1>2, <1>3, <1>4, <1>5, <1>6, <1>7 DEF u, t, Leads

-----------------------------------------------------------------------------
(* The conversion of a number.                                               *)

Least(kind, v) == kind = "d" /\ v = -IntLimit

\* The figures written, read behind what is left of the value, are the argument.
Halfway(m, v) ==
  LET base == BaseOf(m.kind)
  IN  /\ m.value >= 0 /\ m.buffer \in Seq(Figs(base))
      /\ Reading(m.value, Reverse(m.buffer), base) = Magnitude(v)
      /\ m.buffer # <<>> => m.value # 0

Converts(m, v) ==
  /\ m.kind = "d" => v \in Ints
  /\ m.kind = "p" => v \in Ptrs
  /\ m.negative <=> v < 0
  /\ ~Least(m.kind, v) =>
       /\ m.phase = "figures" => Halfway(m, v)
       /\ m.phase = "sign" =>
            /\ m.buffer \in Seq(Figs(BaseOf(m.kind)))
            /\ Reads(Reverse(m.buffer), BaseOf(m.kind), Magnitude(v))
       /\ m.phase = "end" => WrittenOut(Reverse(m.buffer), m.kind, v)

LEMMA FigureConverts ==
  ASSUME number \in Numbers, NEW v \in Int, Converts(number, v), WriteFigure
  PROVE  Converts(number', v)
  <1> DEFINE m == number
             b == BaseOf(m.kind)
             q == Quotient(m.value, b)
             r == Remainder(m.value, b)
             c == Figure(r)
             u == Reverse(Append(m.buffer, c))
  <1>1. /\ m.kind \in {"d", "p"} /\ m.value \in Int /\ m.negative \in BOOLEAN
        /\ m.buffer \in Seq(Marks)
    BY DEF Numbers
  <1>2. /\ m.phase = "figures"
        /\ m' = [m EXCEPT !.buffer = Append(m.buffer, c), !.value = q,
                          !.phase = IF q = 0 THEN "sign" ELSE m.phase]
    BY <1>1 DEF WriteFigure, Store, Base, BaseOf
  <1>3. /\ m'.kind = m.kind /\ m'.negative = m.negative /\ m'.buffer = Append(m.buffer, c)
        /\ m'.value = q /\ m'.phase = IF q = 0 THEN "sign" ELSE "figures"
    BY <1>2 DEF Numbers
  <1>4. SUFFICES ASSUME ~Least(m.kind, v)
                 PROVE  /\ m'.phase = "figures" => Halfway(m', v)
                        /\ m'.phase = "sign" =>
                             /\ m'.buffer \in Seq(Figs(b)) /\ Reads(Reverse(m'.buffer), b, Magnitude(v))
    BY <1>3 DEF Converts
  <1>5. /\ m.value >= 0 /\ m.buffer \in Seq(Figs(b))
        /\ Reading(m.value, Reverse(m.buffer), b) = Magnitude(v)
        /\ m.buffer # <<>> => m.value # 0
    BY <1>2, <1>4 DEF Converts, Halfway
  <1>6. b \in {10, 16} /\ q \in Int /\ q >= 0 /\ r \in 0 .. b - 1 /\ b * q + r = m.value
    BY <1>1, <1>5, DigitOf
  <1> HIDE DEF q, r, b
  <1>7. c \in Figs(b) /\ Worth(c) = r /\ (c = "0" => r = 0)
    BY <1>6, FigureIs
  <1> HIDE DEF c
  <1>8. /\ Leads(u, c, Reverse(m.buffer), Figs(b)) /\ u \in Seq(Figs(b)) /\ u # <<>>
        /\ u[1] = c /\ Len(u) = Len(m.buffer) + 1
        /\ Append(m.buffer, c) \in Seq(Figs(b)) /\ Append(m.buffer, c) # <<>>
    <2>1. Leads(u, c, Reverse(m.buffer), Figs(b))
      BY <1>5, <1>7, ReverseAppend
    <2>2. Len(Reverse(m.buffer)) = Len(m.buffer)
      BY <1>5, ReverseTyped
    <2>3. Append(m.buffer, c) \in Seq(Figs(b)) /\ Append(m.buffer, c) # <<>>
      BY <1>5, <1>7
    <2> HIDE DEF u
    <2> QED
      BY <2>1, <2>2, <2>3 DEF Leads
  <1> HIDE DEF u
  <1>9. Reading(q, u, b) = Magnitude(v)
    <2>1. Reverse(m.buffer) \in Seq(Figs(b)) /\ Len(Reverse(m.buffer)) = Len(m.buffer)
      BY <1>5, ReverseTyped
    <2>2. Reading(q, u, b) = Reading(b * q + Worth(c), Reverse(m.buffer), b)
      BY <1>6, <1>7, <1>8, <2>1, FirstRead
    <2> QED
      BY <1>5, <1>6, <1>7, <2>2
  <1>10. m'.phase = "figures" => Halfway(m', v)
    <2>1. SUFFICES ASSUME m'.phase = "figures" PROVE Halfway(m', v)
      OBVIOUS
    <2>2. q # 0
      BY <1>3, <2>1
    <2> QED
      BY <1>3, <1>6, <1>8, <1>9, <2>2 DEF Halfway, u, b
  <1>11. ASSUME m'.phase = "sign"
         PROVE  m'.buffer \in Seq(Figs(b)) /\ Reads(Reverse(m'.buffer), b, Magnitude(v))
    <2>1. q = 0 /\ m.value = r
      BY <1>3, <1>6, <1>11
    <2>2. Reading(0, u, b) = Magnitude(v)
      BY <1>9, <2>1
    <2>3. ASSUME u[1] = "0" PROVE Len(u) = 1
      <3>1. r = 0
        BY <1>7, <1>8, <2>3
      <3>2. m.buffer = <<>>
        BY <1>5, <2>1, <3>1
      <3> QED
        BY <1>8, <3>2
    <2>4. Range(u) \subseteq {Figures[n] : n \in 1 .. b}
      <3>1. DOMAIN u = 1 .. Len(u) /\ \A n \in 1 .. Len(u) : u[n] \in Figs(b)
        BY <1>8
      <3> QED
        BY <3>1, Zenon DEF Range, Figs
    <2> QED
      BY <1>3, <1>8, <2>2, <2>3, <2>4 DEF Reads, u
  <1> QED
    BY <1>10, <1>11

LEMMA SignConverts ==
  ASSUME number \in Numbers, NEW v \in Int, Converts(number, v), WriteSign
  PROVE  Converts(number', v)
  <1> DEFINE m == number
             b == BaseOf(m.kind)
             s == IF m.negative THEN Append(m.buffer, "-") ELSE m.buffer
  <1>1. /\ m.kind \in {"d", "p"} /\ m.value \in Int /\ m.negative \in BOOLEAN
        /\ m.buffer \in Seq(Marks)
    BY DEF Numbers
  <1>2. m.phase = "sign" /\ m' = [m EXCEPT !.buffer = s, !.phase = "end"]
    BY <1>1 DEF WriteSign, Store, Numbers
  <1> HIDE DEF s
  <1>3. m'.kind = m.kind /\ m'.negative = m.negative /\ m'.buffer = s /\ m'.phase = "end"
    BY <1>2 DEF Numbers
  <1>4. SUFFICES ASSUME ~Least(m.kind, v) PROVE WrittenOut(Reverse(s), m.kind, v)
    BY <1>3 DEF Converts
  <1>5. Reads(Reverse(m.buffer), b, Magnitude(v))
    BY <1>2, <1>4 DEF Converts
  <1>6. /\ m.negative <=> v < 0
        /\ m.kind = "d" => v \in Ints
        /\ m.kind = "p" => v \in Ptrs
    BY DEF Converts
  <1>7. CASE v >= 0
    <2>1. s = m.buffer /\ Magnitude(v) = v
      BY <1>1, <1>6, <1>7 DEF s, Magnitude
    <2>2. CASE m.kind = "d"
      BY <1>5, <1>7, <2>1, <2>2 DEF WrittenOut, BaseOf
    <2>3. CASE m.kind = "p"
      BY <1>5, <1>7, <2>1, <2>3 DEF WrittenOut, BaseOf
    <2> QED
      BY <1>1, <2>2, <2>3
  <1>8. CASE v < 0
    <2>1. s = Append(m.buffer, "-") /\ Magnitude(v) = -v
      BY <1>1, <1>6, <1>8 DEF s, Magnitude
    <2>2. m.kind = "d"
      BY <1>1, <1>6, <1>8 DEF Ptrs
    <2>3. "-" \in Marks
      BY DEF Marks
    <2>4. Reverse(s) # <<>> /\ Head(Reverse(s)) = "-" /\ Tail(Reverse(s)) = Reverse(m.buffer)
      <3>1. Leads(Reverse(Append(m.buffer, "-")), "-", Reverse(m.buffer), Marks)
        BY <1>1, <2>3, ReverseAppend
      <3> QED
        BY <2>1, <3>1, Zenon DEF Leads
    <2>5. Reads(Reverse(m.buffer), 10, -v)
      BY <1>5, <2>1, <2>2 DEF BaseOf
    <2>6. -IntLimit < v
      BY <1>4, <1>6, <2>2, WidthAssumption DEF Least, Ints
    <2> QED
      <3>1. ~(v >= 0) /\ m.kind # "p"
        BY <1>8, <2>2
      <3>2. WrittenOut(Reverse(s), m.kind, v) =
              (/\ Reverse(s) # <<>> /\ Head(Reverse(s)) = "-"
               /\ Reads(Tail(Reverse(s)), 10, -v))
        BY <1>8, <2>2, <2>6, <3>1 DEF WrittenOut
      <3> QED
        BY <2>4, <2>5, <3>2
  <1> QED
    BY <1>7, <1>8

LEMMA StartConverts ==
  ASSUME NEW kind \in {"d", "p"}, NEW v \in Int, NEW w \in Int,
         kind = "d" => v \in Ints, kind = "p" => v \in Ptrs,
         ~Least(kind, v) => w = Magnitude(v),
         NEW m, m = [kind |-> kind, value |-> w, negative |-> v < 0,
                     buffer |-> <<>>, phase |-> "figures"]
  PROVE  Converts(m, v)
  <1>1. SUFFICES ASSUME ~Least(kind, v) PROVE Halfway(m, v)
    BY DEF Converts
  <1>2. m.value = Magnitude(v) /\ m.buffer = <<>> /\ m.kind = kind
    BY <1>1
  <1>3. Magnitude(v) \in Int /\ Magnitude(v) >= 0 /\ BaseOf(kind) \in {10, 16}
    BY DEF Magnitude, BaseOf
  <1>4. Reverse(<<>>) = <<>> /\ <<>> \in Seq(Figs(BaseOf(kind)))
    BY DEF Reverse
  <1>5. Reading(Magnitude(v), <<>>, BaseOf(kind)) = Magnitude(v)
    BY <1>3, NothingToRead
  <1> QED
    BY <1>2, <1>3, <1>4, <1>5 DEF Halfway

-----------------------------------------------------------------------------
(* The format in memory.                                                     *)

Bytes == STRING \cup {"NUL"}
FreshBody(F) ==
  [n \in 0 .. Len(memory) |-> IF n = 0 THEN TRUE ELSE ~(F[n - 1] /\ memory[n] = "%")]

LEMMA BeginsIs ==
  ASSUME memory \in Seq(Bytes)
  PROVE  /\ Begins(1)
         /\ \A k \in 1 .. Len(memory) : Begins(k + 1) <=> ~(Begins(k) /\ memory[k] = "%")
  <1> DEFINE m == Len(memory)
             step == [w \in (1 .. m) \X BOOLEAN |-> ~(w[2] /\ memory[w[1]] = "%")]
  <1>0. m \in Nat
    OBVIOUS
  <1>1. step \in [(1 .. m) \X BOOLEAN -> BOOLEAN]
    BY Zenon
  <1>2. \A n \in 1 .. m, x \in BOOLEAN : step[<<n, x>>] = ~(x /\ memory[n] = "%")
    OBVIOUS
  <1> HIDE DEF step
  <1>3. PICK f \in [0 .. m -> BOOLEAN] : Made(f, step, TRUE, m)
    <2>1. TRUE \in BOOLEAN
      OBVIOUS
    <2> HIDE DEF m
    <2> QED
      BY <1>0, <1>1, <2>1, MadeExists, Zenon
  <1>4. f = FreshBody(f)
    <2>1. \A n \in 1 .. m : f[n] = ~(f[n - 1] /\ memory[n] = "%")
      <3>1. \A n \in 1 .. m : n - 1 \in 0 .. m
        BY <1>0
      <3>2. \A n \in 1 .. m : f[n - 1] \in BOOLEAN /\ f[n] = step[<<n, f[n - 1]>>]
        <4> HIDE DEF m
        <4> QED
          BY <1>3, <3>1, Zenon DEF Made
      <3> QED
        BY <1>2, <3>2, Zenon
    <2>2. f[0] = TRUE /\ \A n \in 0 .. m : n # 0 => n \in 1 .. m
      BY <1>3 DEF Made
    <2>3. \A n \in 0 .. m : f[n] = IF n = 0 THEN TRUE ELSE ~(f[n - 1] /\ memory[n] = "%")
      BY <2>1, <2>2, Zenon
    <2>4. f = [n \in 0 .. m |-> f[n]]
      BY <1>3
    <2> QED
      BY <2>3, <2>4, Zenon DEF FreshBody
  <1>5. Fresh = CHOOSE F : F = FreshBody(F)
    BY Zenon DEF Fresh, FreshBody
  <1>6. Fresh = FreshBody(Fresh)
    BY <1>4, <1>5, Zenon
  <1>7. Fresh[0] = TRUE /\ \A n \in 1 .. m : Fresh[n] = ~(Fresh[n - 1] /\ memory[n] = "%")
    <2>1. 0 \in 0 .. m /\ \A n \in 1 .. m : n \in 0 .. m /\ n # 0
      BY <1>0
    <2>2. \A n \in 0 .. m : Fresh[n] = IF n = 0 THEN TRUE ELSE ~(Fresh[n - 1] /\ memory[n] = "%")
      BY <1>6, Zenon DEF FreshBody
    <2> QED
      BY <2>1, <2>2, Zenon
  <1>8. 1 - 1 = 0 /\ \A k \in 1 .. m : (k + 1) - 1 = k
    OBVIOUS
  <1> QED
    BY <1>7, <1>8, Zenon DEF Begins

\* The format ends at its NUL.
Terminated ==
  /\ memory \in Seq(Bytes) /\ Length \in 1 .. Len(memory) /\ memory[Length] = "NUL"
  /\ \A k \in 1 .. Length - 1 : memory[k] # "NUL"

LEMMA LengthIs ==
  ASSUME memory \in Seq(Bytes), NEW n \in 1 .. Len(memory), memory[n] = "NUL",
         \A k \in 1 .. n - 1 : memory[k] # "NUL"
  PROVE  Terminated
  <1>1. DOMAIN memory = 1 .. Len(memory)
    OBVIOUS
  <1>2. /\ Length \in DOMAIN memory /\ memory[Length] = "NUL"
        /\ \A k \in 1 .. Length - 1 : memory[k] # "NUL"
    BY <1>1, Zenon DEF Length
  <1> QED
    BY <1>1, <1>2 DEF Terminated

LEMMA MemoryBegins == PrintfInit => Terminated
  <1> SUFFICES ASSUME NEW f \in Formats, memory = f \o <<"NUL">> \o Behind
               PROVE  Terminated
    BY DEF PrintfInit
  <1>1. f \in Seq(STRING) /\ "NUL" \notin Range(f) /\ Behind \in Seq(STRING)
    BY MemoryAssumption
  <1>2. f \in Seq(Bytes) /\ Behind \in Seq(Bytes) /\ <<"NUL">> \in Seq(Bytes)
    BY <1>1 DEF Bytes
  <1> DEFINE g == f \o <<"NUL">>
  <1>3. /\ g \in Seq(Bytes) /\ Len(g) = Len(f) + 1 /\ g[Len(f) + 1] = "NUL"
        /\ \A k \in 1 .. Len(f) : g[k] = f[k]
    BY <1>2
  <1> HIDE DEF g
  <1>4. memory = g \o Behind
    BY DEF g
  <1>5. memory \in Seq(Bytes) /\ Len(memory) >= Len(g) /\ \A k \in 1 .. Len(g) : memory[k] = g[k]
    BY <1>2, <1>3, <1>4
  <1>6. \A k \in 1 .. Len(f) : f[k] # "NUL"
    <2>1. DOMAIN f = 1 .. Len(f)
      BY <1>1
    <2> QED
      BY <1>1, <2>1, Zenon DEF Range
  <1>7. Len(f) \in Nat
    BY <1>1
  <1>8. Len(f) + 1 \in 1 .. Len(memory) /\ memory[Len(f) + 1] = "NUL"
    BY <1>3, <1>5, <1>7
  <1>9. \A k \in 1 .. (Len(f) + 1) - 1 : memory[k] # "NUL"
    BY <1>3, <1>5, <1>6, <1>7
  <1> QED
    BY <1>5, <1>8, <1>9, LengthIs

-----------------------------------------------------------------------------
(* What is printed up to a place, and the arguments taken.                   *)

LEMMA Counting ==
  /\ \A k \in Int : /\ IsFiniteSet(Printing(k)) /\ IsFiniteSet(Taking(k))
                    /\ Cardinality(Printing(k)) \in Nat /\ Cardinality(Taking(k)) \in Nat
  /\ Cardinality(Printing(0)) = 0 /\ Cardinality(Taking(0)) = 0
  /\ \A k \in Nat :
       /\ Cardinality(Printing(k + 1)) = Cardinality(Printing(k)) + (IF Prints(k + 1) THEN 1 ELSE 0)
       /\ Cardinality(Taking(k + 1)) = Cardinality(Taking(k)) + (IF Number(k + 1) THEN 1 ELSE 0)
  <1>1. ASSUME NEW k \in Int
        PROVE  IsFiniteSet(Printing(k)) /\ IsFiniteSet(Taking(k))
    <2>1. IsFiniteSet(1 .. k)
      BY FS_Interval
    <2>2. Printing(k) \subseteq 1 .. k /\ Taking(k) \subseteq 1 .. k
      BY DEF Printing, Taking
    <2> QED
      BY <2>1, <2>2, FS_Subset
  <1>2. \A k \in Int : Cardinality(Printing(k)) \in Nat /\ Cardinality(Taking(k)) \in Nat
    BY <1>1, FS_CardinalityType
  <1>3. Cardinality(Printing(0)) = 0 /\ Cardinality(Taking(0)) = 0
    <2>1. Printing(0) = {} /\ Taking(0) = {}
      BY DEF Printing, Taking
    <2> QED
      BY <2>1, FS_EmptySet
  <1>4. ASSUME NEW k \in Nat
        PROVE  Cardinality(Printing(k + 1)) =
                 Cardinality(Printing(k)) + (IF Prints(k + 1) THEN 1 ELSE 0)
    <2>1. 1 .. k + 1 = 1 .. k \cup {k + 1} /\ k + 1 \notin 1 .. k
      OBVIOUS
    <2>2. CASE Prints(k + 1)
      <3>1. Printing(k + 1) = Printing(k) \cup {k + 1} /\ k + 1 \notin Printing(k)
        BY <2>1, <2>2, Zenon DEF Printing
      <3>2. Cardinality(Printing(k + 1)) = Cardinality(Printing(k)) + 1
        BY <1>1, <3>1, FS_AddElement
      <3> QED
        BY <2>2, <3>2
    <2>3. CASE ~Prints(k + 1)
      <3>1. Printing(k + 1) = Printing(k)
        BY <2>1, <2>3, Zenon DEF Printing
      <3> QED
        BY <1>2, <2>3, <3>1
    <2> QED
      BY <2>2, <2>3
  <1>5. ASSUME NEW k \in Nat
        PROVE  Cardinality(Taking(k + 1)) =
                 Cardinality(Taking(k)) + (IF Number(k + 1) THEN 1 ELSE 0)
    <2>1. 1 .. k + 1 = 1 .. k \cup {k + 1} /\ k + 1 \notin 1 .. k
      OBVIOUS
    <2>2. CASE Number(k + 1)
      <3>1. Taking(k + 1) = Taking(k) \cup {k + 1} /\ k + 1 \notin Taking(k)
        BY <2>1, <2>2, Zenon DEF Taking
      <3>2. Cardinality(Taking(k + 1)) = Cardinality(Taking(k)) + 1
        BY <1>1, <3>1, FS_AddElement
      <3> QED
        BY <2>2, <3>2
    <2>3. CASE ~Number(k + 1)
      <3>1. Taking(k + 1) = Taking(k)
        BY <2>1, <2>3, Zenon DEF Taking
      <3> QED
        BY <1>2, <2>3, <3>1
    <2> QED
      BY <2>2, <2>3
  <1> QED
    BY <1>1, <1>2, <1>3, <1>4, <1>5

LEMMA Earlier ==
  ASSUME NEW k \in Int, NEW l \in 1 .. k
  PROVE  /\ Prints(l) => Cardinality(Printing(l)) \in 1 .. Cardinality(Printing(k))
         /\ Number(l) => Cardinality(Taking(l)) \in 1 .. Cardinality(Taking(k))
  <1>1. /\ Printing(l) \subseteq Printing(k) /\ Taking(l) \subseteq Taking(k)
        /\ Prints(l) => Printing(l) # {}
        /\ Number(l) => Taking(l) # {}
    BY DEF Printing, Taking
  <1>2. /\ Cardinality(Printing(l)) <= Cardinality(Printing(k))
        /\ Cardinality(Taking(l)) <= Cardinality(Taking(k))
    BY <1>1, Counting, FS_Subset
  <1>3. /\ Prints(l) => Cardinality(Printing(l)) # 0
        /\ Number(l) => Cardinality(Taking(l)) # 0
    BY <1>1, Counting, FS_EmptySet
  <1> QED
    BY <1>2, <1>3, Counting

\* The format stays as it is.
LEMMA FormatStays ==
  ASSUME memory' = memory
  PROVE  /\ \A k : (Begins(k)' <=> Begins(k)) /\ (Prints(k)' <=> Prints(k))
                   /\ (Number(k)' <=> Number(k))
                   /\ Printing(k)' = Printing(k) /\ Taking(k)' = Taking(k)
         /\ Length' = Length /\ (Dangling' <=> Dangling)
  <1>1. Fresh' = Fresh /\ Length' = Length
    BY DEF Fresh, Length
  <1>2. \A k : (Begins(k)' <=> Begins(k)) /\ (Directive(k)' <=> Directive(k))
               /\ (Prints(k)' <=> Prints(k)) /\ (Number(k)' <=> Number(k))
    BY <1>1, Zenon DEF Begins, Directive, Prints, Number
  <1>3. \A k : Printing(k)' = Printing(k) /\ Taking(k)' = Taking(k)
    BY <1>2 DEF Printing, Taking
  <1> QED
    BY <1>1, <1>2, <1>3 DEF Dangling

-----------------------------------------------------------------------------
(* What was printed.                                                         *)

Right(k) ==
  IF Number(k) THEN WrittenOut(PrintedFor(k), memory[k + 1], ArgumentOf(k))
  ELSE PrintedFor(k) = <<memory[k]>>

Texts == Seq(Bytes \cup Marks)
Taken == IF number = Idle THEN 0 ELSE 1

\* The inductive invariant: all that lies before pos is printed as it was meant,
\* and a number in the making is the argument of the directive at pos.
Meant ==
  /\ printed \in Seq(Texts) /\ args \in Seq(Int)
  /\ pos \in 1 .. Length /\ Begins(pos)
  /\ Len(printed) = Cardinality(Printing(pos - 1))
  /\ Len(args) = Cardinality(Taking(pos - 1)) + Taken
  /\ \A k \in Printing(pos - 1) : Right(k)
  /\ number # Idle =>
       /\ Number(pos) /\ memory[pos + 1] = number.kind
       /\ Converts(number, args[Len(args)])
  /\ returned => pos = Length
MInv == Terminated /\ BInv /\ (~Dangling => Meant)

\* What was printed before stays right when more is printed.
LEMMA StayRight ==
  ASSUME Meant, memory' = memory, memory \in Seq(Bytes),
         Len(printed) <= Len(printed'), Len(args) <= Len(args'),
         \A n \in 1 .. Len(printed) : printed'[n] = printed[n],
         \A n \in 1 .. Len(args) : args'[n] = args[n]
  PROVE  \A k \in Printing(pos - 1) : Right(k)'
  <1> SUFFICES ASSUME NEW k \in Printing(pos - 1) PROVE Right(k)'
    OBVIOUS
  <1>1. pos \in Int /\ Right(k) /\ k \in 1 .. pos - 1 /\ Prints(k)
    BY DEF Meant, Printing, Terminated
  <1>2. PrintedFor(k)' = PrintedFor(k)
    <2>1. Cardinality(Printing(k)) \in 1 .. Len(printed)
      BY <1>1, Earlier DEF Meant
    <2> QED
      BY <2>1, FormatStays DEF PrintedFor
  <1>3. Number(k) => ArgumentOf(k)' = ArgumentOf(k)
    <2>1. SUFFICES ASSUME Number(k) PROVE ArgumentOf(k)' = ArgumentOf(k)
      OBVIOUS
    <2>2. Cardinality(Taking(k)) \in 1 .. Cardinality(Taking(pos - 1))
      BY <1>1, <2>1, Earlier
    <2>3. Cardinality(Taking(pos - 1)) <= Len(args)
      <3>1. Cardinality(Taking(pos - 1)) \in Nat
        BY <1>1, Counting
      <3> QED
        BY <3>1 DEF Meant, Taken
    <2>4. Cardinality(Taking(k)) \in 1 .. Len(args)
      <3>1. Cardinality(Taking(pos - 1)) \in Nat /\ Len(args) \in Nat
        BY <1>1, Counting DEF Meant
      <3> QED
        BY <2>2, <2>3, <3>1
    <2> QED
      BY <2>4, FormatStays DEF ArgumentOf
  <1>4. Number(k)' <=> Number(k)
    BY FormatStays
  <1> QED
    BY <1>1, <1>2, <1>3, <1>4 DEF Right, WrittenOut

\* Where printf goes on.
LEMMA PlaceStays ==
  ASSUME memory' = memory, NEW k, pos' = k
  PROVE  /\ Begins(pos)' <=> Begins(k)
         /\ Printing(pos - 1)' = Printing(k - 1) /\ Taking(pos - 1)' = Taking(k - 1)
         /\ Length' = Length
  <1>1. \A l : (Prints(l)' <=> Prints(l)) /\ (Number(l)' <=> Number(l)) /\ Length' = Length
    BY FormatStays
  <1>2. Fresh' = Fresh
    BY DEF Fresh
  <1> QED
    BY <1>1, <1>2 DEF Begins, Printing, Taking

\* The characters at pos and behind it.
LEMMA AtPos ==
  ASSUME Terminated, Meant
  PROVE  /\ pos \in Nat \ {0} /\ Length \in Nat /\ Length <= Len(memory)
         /\ Here = "NUL" <=> pos = Length
         /\ Here # "NUL" => pos < Length /\ pos + 1 \in 1 .. Length /\ pos \in 1 .. Len(memory)
         /\ pos < Length /\ Following # "NUL" => pos + 2 \in 1 .. Length /\ pos + 1 \in 1 .. Len(memory)
  <1>1. /\ pos \in 1 .. Length /\ Length \in 1 .. Len(memory) /\ memory[Length] = "NUL"
        /\ \A k \in 1 .. Length - 1 : memory[k] # "NUL" /\ Len(memory) \in Nat
    BY DEF Terminated, Meant
  <1>2. Len(memory) \in Nat /\ Length \in Nat /\ pos \in Nat
    BY <1>1 DEF Terminated
  <1>3. Here = "NUL" <=> pos = Length
    <2>1. pos # Length => pos \in 1 .. Length - 1
      BY <1>1, <1>2
    <2> QED
      BY <1>1, <2>1 DEF Here
  <1>4. pos < Length /\ Following # "NUL" => pos + 1 # Length
    BY <1>1, <1>2 DEF Following
  <1> QED
    BY <1>1, <1>2, <1>3, <1>4

LEMMA CharacterMeant ==
  ASSUME Terminated, Meant, Character
  PROVE  Meant'
  <1>1. /\ ~returned /\ number = Idle /\ memory[pos] # "%" /\ memory[pos] # "NUL"
        /\ printed' = Append(printed, <<memory[pos]>>) /\ pos' = pos + 1
        /\ memory' = memory /\ number' = number /\ args' = args /\ returned' = returned
    BY DEF Character, Scans, Here
  <1>2. /\ pos \in Nat \ {0} /\ pos + 1 \in 1 .. Length /\ pos \in 1 .. Len(memory)
        /\ memory \in Seq(Bytes) /\ (pos + 1) - 1 = pos /\ pos - 1 \in Nat /\ (pos - 1) + 1 = pos
    BY <1>1, AtPos DEF Here, Terminated
  <1>3. Begins(pos) /\ Prints(pos) /\ ~Number(pos) /\ Begins(pos + 1)
    BY <1>1, <1>2, BeginsIs DEF Meant, Prints, Number, Directive
  <1>4. <<memory[pos]>> \in Texts
    BY <1>2 DEF Texts
  <1>5. /\ printed' \in Seq(Texts) /\ Len(printed') = Len(printed) + 1
        /\ \A n \in 1 .. Len(printed) : printed'[n] = printed[n]
        /\ printed'[Len(printed) + 1] = <<memory[pos]>>
    BY <1>1, <1>4 DEF Meant
  <1>6. /\ Cardinality(Printing(pos)) = Len(printed) + 1
        /\ Cardinality(Taking(pos)) = Len(args)
    <2>1. /\ Cardinality(Printing(pos)) = Cardinality(Printing(pos - 1)) + 1
          /\ Cardinality(Taking(pos)) = Cardinality(Taking(pos - 1)) + 0
      BY <1>2, <1>3, Counting
    <2>2. Cardinality(Taking(pos - 1)) \in Nat
      <3>1. pos - 1 \in Int
        BY <1>2
      <3> QED
        BY <3>1, Counting
    <2> QED
      BY <1>1, <2>1, <2>2 DEF Meant, Taken
  <1>7. ASSUME NEW k \in Printing(pos) PROVE Right(k)'
    <2>1. CASE k = pos
      <3>1. Printing(k)' = Printing(k) /\ ~Number(k)'
        BY <1>1, <1>3, <2>1, FormatStays
      <3>2. PrintedFor(k)' = <<memory'[k]>>
        BY <1>1, <1>5, <1>6, <2>1, <3>1 DEF PrintedFor
      <3> QED
        BY <3>1, <3>2 DEF Right
    <2>2. CASE k # pos
      <3>1. k \in Printing(pos - 1)
        BY <1>2, <2>2 DEF Printing
      <3>2. \A j \in Printing(pos - 1) : Right(j)'
        <4>1. /\ Len(printed) \in Nat /\ Len(args) <= Len(args') /\ Len(printed) <= Len(printed')
              /\ \A n \in 1 .. Len(args) : args'[n] = args[n]
          BY <1>1, <1>5 DEF Meant
        <4> QED
          BY <1>1, <1>2, <1>5, <4>1, StayRight
      <3> QED
        BY <3>1, <3>2
    <2> QED
      BY <2>1, <2>2
  <1> QED
    <2>1. Begins(pos)' /\ Printing(pos - 1)' = Printing(pos) /\ Taking(pos - 1)' = Taking(pos)
          /\ Length' = Length
      BY <1>1, <1>2, <1>3, PlaceStays
    <2>2. \A k \in Printing(pos - 1)' : Right(k)'
      BY <1>7, <2>1
    <2> QED
      BY <1>1, <1>2, <1>5, <1>6, <2>1, <2>2 DEF Meant, Taken

LEMMA OtherMeant ==
  ASSUME Terminated, ~Dangling, Meant, OtherDirective
  PROVE  Meant'
  <1>1. /\ ~returned /\ number = Idle /\ memory[pos] = "%" /\ memory[pos + 1] \notin {"d", "p"}
        /\ printed' = printed /\ pos' = pos + 2
        /\ memory' = memory /\ number' = number /\ args' = args /\ returned' = returned
    BY DEF OtherDirective, Scans, Here, Following
  <1>2. /\ pos \in Nat \ {0} /\ pos + 1 \in 1 .. Length /\ pos \in 1 .. Len(memory)
        /\ memory \in Seq(Bytes) /\ pos < Length /\ Length \in Nat
    BY <1>1, AtPos DEF Here, Terminated
  <1>3. Begins(pos) /\ Directive(pos) /\ ~Prints(pos) /\ ~Number(pos) /\ ~Begins(pos + 1)
    BY <1>1, <1>2, BeginsIs DEF Meant, Prints, Number, Directive
  <1>4. pos + 1 # Length
    <2>1. pos + 1 = Length => Length > 1 /\ Length - 1 = pos
      BY <1>2
    <2> QED
      BY <1>3, <2>1 DEF Dangling
  <1>5. pos + 2 \in 1 .. Length /\ pos + 1 \in 1 .. Len(memory)
    BY <1>2, <1>4, AtPos
  <1>6. ~Prints(pos + 1) /\ ~Number(pos + 1) /\ Begins(pos + 2)
    <2>1. (pos + 1) + 1 = pos + 2
      BY <1>2
    <2> QED
      BY <1>3, <1>2, <1>5, <2>1, BeginsIs DEF Prints, Number, Directive
  <1>7. /\ (pos + 2) - 1 = pos + 1 /\ pos - 1 \in Nat /\ (pos - 1) + 1 = pos
        /\ Cardinality(Printing(pos + 1)) = Len(printed)
        /\ Cardinality(Taking(pos + 1)) = Len(args)
    <2>1. pos - 1 \in Nat /\ (pos - 1) + 1 = pos
      BY <1>2
    <2>2. /\ Cardinality(Printing(pos)) = Cardinality(Printing(pos - 1)) + 0
          /\ Cardinality(Taking(pos)) = Cardinality(Taking(pos - 1)) + 0
          /\ Cardinality(Printing(pos + 1)) = Cardinality(Printing(pos)) + 0
          /\ Cardinality(Taking(pos + 1)) = Cardinality(Taking(pos)) + 0
      BY <1>2, <1>3, <1>6, <2>1, Counting
    <2>3. Cardinality(Taking(pos - 1)) \in Nat /\ Cardinality(Printing(pos - 1)) \in Nat
      BY <2>1, Counting
    <2> QED
      BY <1>1, <1>2, <2>1, <2>2, <2>3 DEF Meant, Taken
  <1>8. ASSUME NEW k \in Printing(pos + 1) PROVE Right(k)'
    <2>1. k \in 1 .. pos + 1 /\ Prints(k)
      BY DEF Printing
    <2>2. k # pos /\ k # pos + 1
      BY <1>3, <1>6, <2>1
    <2>3. k \in Printing(pos - 1)
      BY <1>2, <2>1, <2>2 DEF Printing
    <2>4. \A j \in Printing(pos - 1) : Right(j)'
      BY <1>1, <1>2, StayRight DEF Meant
    <2> QED
      BY <2>3, <2>4
  <1> QED
    <2>1. Begins(pos)' /\ Printing(pos - 1)' = Printing(pos + 1)
          /\ Taking(pos - 1)' = Taking(pos + 1) /\ Length' = Length
      BY <1>1, <1>6, <1>7, PlaceStays
    <2>2. \A k \in Printing(pos - 1)' : Right(k)'
      BY <1>8, <2>1
    <2> QED
      BY <1>1, <1>5, <1>7, <2>1, <2>2 DEF Meant, Taken

\* Nothing but the number changes, and it still is the argument.
LEMMA NumberMeant ==
  ASSUME Terminated, Meant, number \in Numbers, number' \in Numbers,
         number'.kind = number.kind,
         Converts(number, args[Len(args)]) => Converts(number', args[Len(args)]),
         UNCHANGED <<memory, pos, printed, args, returned>>
  PROVE  Meant'
  <1>1. /\ number # Idle /\ number' # Idle /\ memory' = memory /\ pos' = pos
        /\ printed' = printed /\ args' = args /\ returned' = returned
    BY NotIdle
  <1>2. /\ Begins(pos)' <=> Begins(pos)
        /\ Printing(pos - 1)' = Printing(pos - 1) /\ Taking(pos - 1)' = Taking(pos - 1)
        /\ Length' = Length
    BY <1>1, PlaceStays
  <1>3. \A k \in Printing(pos - 1)' : Right(k)'
    <2>1. /\ Len(args) <= Len(args') /\ Len(printed) <= Len(printed') /\ memory \in Seq(Bytes)
          /\ \A n \in 1 .. Len(args) : args'[n] = args[n]
          /\ \A n \in 1 .. Len(printed) : printed'[n] = printed[n]
      BY <1>1 DEF Meant, Terminated
    <2> QED
      BY <1>1, <1>2, <2>1, StayRight
  <1>4. Number(pos)' <=> Number(pos)
    BY <1>1, <1>2 DEF Number, Directive
  <1>5. Converts(number', args'[Len(args')])
    BY <1>1 DEF Meant
  <1>6. Converts(number, args[Len(args)])'
    BY <1>5 DEF Converts, Halfway
  <1> QED
    BY <1>1, <1>2, <1>3, <1>4, <1>6 DEF Meant, Taken

LEMMA StillMeant ==
  ASSUME Terminated, Meant, UNCHANGED <<memory, pos, number, printed, args>>,
         returned' => pos = Length
  PROVE  Meant'
  <1>1. /\ number' = number /\ memory' = memory /\ pos' = pos
        /\ printed' = printed /\ args' = args
    OBVIOUS
  <1>2. /\ Begins(pos)' <=> Begins(pos)
        /\ Printing(pos - 1)' = Printing(pos - 1) /\ Taking(pos - 1)' = Taking(pos - 1)
        /\ Length' = Length
    BY <1>1, PlaceStays
  <1>3. \A k \in Printing(pos - 1)' : Right(k)'
    <2>1. /\ Len(args) <= Len(args') /\ Len(printed) <= Len(printed') /\ memory \in Seq(Bytes)
          /\ \A n \in 1 .. Len(args) : args'[n] = args[n]
          /\ \A n \in 1 .. Len(printed) : printed'[n] = printed[n]
      BY <1>1 DEF Meant, Terminated
    <2> QED
      BY <1>1, <1>2, <2>1, StayRight
  <1>4. Number(pos)' <=> Number(pos)
    BY <1>1, <1>2 DEF Number, Directive
  <1>5. number # Idle => Converts(number, args[Len(args)])'
    BY <1>1 DEF Meant, Converts, Halfway
  <1> QED
    BY <1>1, <1>2, <1>3, <1>4, <1>5 DEF Meant, Taken

LEMMA StartMeant ==
  ASSUME Terminated, Meant, Scans, Here = "%", Following = number'.kind,
         NEW v \in Int, args' = Append(args, v), number' \in Numbers,
         Converts(number', v), UNCHANGED <<memory, pos, printed, returned>>
  PROVE  Meant'
  <1>1. /\ ~returned /\ number = Idle /\ number' # Idle /\ memory[pos] = "%"
        /\ memory[pos + 1] = number'.kind /\ memory' = memory /\ pos' = pos
        /\ printed' = printed /\ returned' = returned
    BY NotIdle DEF Scans, Here, Following
  <1>2. /\ Begins(pos)' <=> Begins(pos)
        /\ Printing(pos - 1)' = Printing(pos - 1) /\ Taking(pos - 1)' = Taking(pos - 1)
        /\ Length' = Length
    BY <1>1, PlaceStays
  <1>3. /\ args' \in Seq(Int) /\ Len(args') = Len(args) + 1 /\ args'[Len(args')] = v
        /\ \A n \in 1 .. Len(args) : args'[n] = args[n]
    BY DEF Meant
  <1>4. \A k \in Printing(pos - 1)' : Right(k)'
    <2>1. /\ Len(args) <= Len(args') /\ Len(printed) <= Len(printed') /\ memory \in Seq(Bytes)
          /\ \A n \in 1 .. Len(printed) : printed'[n] = printed[n]
      BY <1>1, <1>3 DEF Meant, Terminated
    <2> QED
      BY <1>1, <1>2, <1>3, <2>1, StayRight
  <1>5. number'.kind \in {"d", "p"}
    BY DEF Numbers
  <1>6. Number(pos)
    BY <1>1, <1>5 DEF Number, Directive, Meant
  <1>7. Number(pos)'
    BY <1>1, <1>2, <1>6 DEF Number, Directive
  <1>8. Converts(number, args[Len(args)])'
    BY <1>3 DEF Converts, Halfway
  <1>9. Len(args') = Cardinality(Taking(pos - 1)) + 1
    <2>1. Cardinality(Taking(pos - 1)) \in Nat
      <3>1. pos - 1 \in Int
        BY AtPos
      <3> QED
        BY <3>1, Counting
    <2> QED
      BY <1>1, <1>3, <2>1 DEF Meant, Taken
  <1> QED
    BY <1>1, <1>2, <1>3, <1>4, <1>7, <1>8, <1>9 DEF Meant, Taken

LEMMA PrintMeant ==
  ASSUME Terminated, Meant, number \in Numbers, PrintNumber
  PROVE  Meant'
  <1> DEFINE text == Reverse(number.buffer)
             v == args[Len(args)]
  <1>1. /\ number # Idle /\ number.phase = "end" /\ printed' = Append(printed, text)
        /\ number' = Idle /\ pos' = pos + 2
        /\ memory' = memory /\ args' = args /\ returned' = returned
    BY DEF PrintNumber
  <1>2. /\ Number(pos) /\ memory[pos + 1] = number.kind /\ Converts(number, v)
        /\ number.kind \in {"d", "p"} /\ number.buffer \in Seq(Marks)
    BY <1>1 DEF Meant, Numbers
  <1>3. memory[pos] = "%" /\ Begins(pos) /\ Prints(pos)
    BY <1>2 DEF Number, Directive, Prints
  <1>4. /\ pos \in Nat \ {0} /\ pos + 1 \in 1 .. Length /\ pos \in 1 .. Len(memory)
        /\ pos + 2 \in 1 .. Length /\ pos + 1 \in 1 .. Len(memory) /\ memory \in Seq(Bytes)
    BY <1>2, <1>3, AtPos DEF Here, Following, Terminated
  <1>5. ~Begins(pos + 1) /\ ~Prints(pos + 1) /\ ~Number(pos + 1) /\ Begins(pos + 2)
    <2>1. (pos + 1) + 1 = pos + 2
      BY <1>4
    <2>2. ~Begins(pos + 1)
      BY <1>3, <1>4, BeginsIs
    <2> QED
      BY <1>4, <2>1, <2>2, BeginsIs DEF Prints, Number, Directive
  <1>6. /\ (pos + 2) - 1 = pos + 1
        /\ Cardinality(Printing(pos)) = Len(printed) + 1
        /\ Cardinality(Taking(pos)) = Len(args)
        /\ Cardinality(Printing(pos + 1)) = Len(printed) + 1
        /\ Cardinality(Taking(pos + 1)) = Len(args)
    <2>1. pos - 1 \in Nat /\ pos - 1 \in Int /\ (pos - 1) + 1 = pos /\ (pos + 2) - 1 = pos + 1
      BY <1>4
    <2>2. /\ Cardinality(Printing(pos)) = Cardinality(Printing(pos - 1)) + 1
          /\ Cardinality(Taking(pos)) = Cardinality(Taking(pos - 1)) + 1
          /\ Cardinality(Printing(pos + 1)) = Cardinality(Printing(pos)) + 0
          /\ Cardinality(Taking(pos + 1)) = Cardinality(Taking(pos)) + 0
      BY <1>2, <1>3, <1>4, <1>5, <2>1, Counting
    <2>3. Cardinality(Taking(pos - 1)) \in Nat /\ Cardinality(Printing(pos - 1)) \in Nat
      BY <2>1, Counting
    <2> QED
      BY <1>1, <2>1, <2>2, <2>3 DEF Meant, Taken
  <1>7. text \in Texts
    <2>1. text \in Seq(Marks)
      BY <1>2, ReverseTyped
    <2> QED
      BY <2>1 DEF Texts
  <1> HIDE DEF text
  <1>8. /\ printed' \in Seq(Texts) /\ Len(printed') = Len(printed) + 1
        /\ \A n \in 1 .. Len(printed) : printed'[n] = printed[n]
        /\ printed'[Len(printed) + 1] = text
    BY <1>1, <1>7 DEF Meant
  <1>9. WrittenOut(text, number.kind, v)
    <2>1. CASE Least(number.kind, v)
      <3>1. number.kind = "d" /\ v < 0 /\ ~(v >= 0) /\ ~(-IntLimit < v)
        BY <2>1, WidthAssumption DEF Least
      <3> QED
        BY <3>1 DEF WrittenOut
    <2>2. CASE ~Least(number.kind, v)
      BY <1>1, <1>2, <2>2 DEF Converts, text
    <2> QED
      BY <2>1, <2>2
  <1>10. ASSUME NEW k \in Printing(pos + 1) PROVE Right(k)'
    <2>1. k \in 1 .. pos + 1 /\ Prints(k) /\ k # pos + 1
      BY <1>5 DEF Printing
    <2>2. CASE k = pos
      <3>1. Printing(k)' = Printing(k) /\ Taking(k)' = Taking(k) /\ Number(k)'
        BY <1>1, <1>2, <2>2, FormatStays
      <3>2. PrintedFor(k)' = text
        BY <1>1, <1>6, <1>8, <2>2, <3>1 DEF PrintedFor
      <3>3. ArgumentOf(k)' = v
        BY <1>1, <1>6, <2>2, <3>1 DEF ArgumentOf
      <3>4. memory'[k + 1] = number.kind
        BY <1>1, <1>2, <2>2
      <3>5. WrittenOut(PrintedFor(k)', memory'[k + 1], ArgumentOf(k)')
        BY <1>9, <3>2, <3>3, <3>4
      <3> QED
        BY <3>1, <3>5 DEF Right
    <2>3. CASE k # pos
      <3>1. k \in Printing(pos - 1)
        BY <1>4, <2>1, <2>3 DEF Printing
      <3>2. /\ Len(printed) \in Nat /\ Len(args) <= Len(args') /\ Len(printed) <= Len(printed')
            /\ \A n \in 1 .. Len(args) : args'[n] = args[n]
        BY <1>1, <1>8 DEF Meant
      <3>3. \A j \in Printing(pos - 1) : Right(j)'
        BY <1>1, <1>4, <1>8, <3>2, StayRight
      <3> QED
        BY <3>1, <3>3
    <2> QED
      BY <2>2, <2>3
  <1> QED
    <2>1. Begins(pos)' /\ Printing(pos - 1)' = Printing(pos + 1)
          /\ Taking(pos - 1)' = Taking(pos + 1) /\ Length' = Length
      BY <1>1, <1>5, <1>6, PlaceStays
    <2>2. \A k \in Printing(pos - 1)' : Right(k)'
      BY <1>10, <2>1
    <2>3. pos' \in 1 .. Length' /\ (returned' => FALSE)
      <3>1. returned => pos = Length
        BY DEF Meant
      <3> QED
        BY <1>1, <1>4, <2>1, <3>1, AtPos
    <2> QED
      BY <1>1, <1>6, <1>8, <2>1, <2>2, <2>3 DEF Meant, Taken

LEMMA MeantBegins == PrintfInit => MInv
  <1> SUFFICES ASSUME PrintfInit PROVE MInv
    OBVIOUS
  <1>1. Terminated
    BY MemoryBegins
  <1>2. BInv
    BY DEF PrintfInit, BInv, NumberTyped
  <1>3. Meant
    <2>1. /\ pos = 1 /\ number = Idle /\ printed = <<>> /\ args = <<>> /\ returned = FALSE
      BY DEF PrintfInit
    <2>2. Begins(1)
      BY <1>1, BeginsIs DEF Terminated
    <2>3. Printing(0) = {} /\ Taking(0) = {} /\ 1 - 1 = 0
      BY DEF Printing, Taking
    <2>4. Cardinality(Printing(0)) = 0 /\ Cardinality(Taking(0)) = 0
      BY Counting
    <2>5. 1 \in 1 .. Length
      BY <1>1 DEF Terminated
    <2>6. <<>> \in Seq(Texts) /\ <<>> \in Seq(Int) /\ Len(<<>>) = 0
      OBVIOUS
    <2> QED
      BY <2>1, <2>2, <2>3, <2>4, <2>5, <2>6 DEF Meant, Taken
  <1> QED
    BY <1>1, <1>2, <1>3 DEF MInv

LEMMA MeantStep == MInv /\ [PrintfNext]_printfVars => MInv'
  <1> SUFFICES ASSUME MInv, [PrintfNext]_printfVars PROVE MInv'
    OBVIOUS
  <1>1. memory' = memory
    BY DEF PrintfNext, printfVars, Character, Return, OtherDirective, StartInt, StartPtr,
       WriteFigure, WriteSign, PrintNumber
  <1>2. Terminated'
    <2>1. Length' = Length
      BY <1>1, FormatStays
    <2> QED
      BY <1>1, <2>1 DEF Terminated, MInv
  <1>3. BInv'
    BY BuffersStep DEF MInv
  <1>4. ASSUME ~Dangling' PROVE Meant'
    <2>1. ~Dangling /\ Meant /\ Terminated /\ BInv
      BY <1>1, <1>4, FormatStays DEF MInv
    <2>2. number # Idle => number \in Numbers
      BY <2>1 DEF BInv, NumberTyped
    <2>3. number # Idle => args[Len(args)] \in Int
      <3>1. ASSUME number # Idle PROVE Len(args) \in 1 .. Len(args)
        <4>1. Cardinality(Taking(pos - 1)) \in Nat
          <5>1. pos - 1 \in Int
            BY <2>1, AtPos
          <5> QED
            BY <5>1, Counting
        <4> QED
          BY <2>1, <3>1, <4>1 DEF Meant, Taken
      <3> QED
        BY <2>1, <3>1 DEF Meant
    <2>4. CASE UNCHANGED printfVars
      <3>1. UNCHANGED <<memory, pos, number, printed, args>> /\ (returned' => pos = Length)
        BY <2>1, <2>4 DEF printfVars, Meant
      <3> QED
        BY <2>1, <3>1, StillMeant
    <2>5. CASE Character
      BY <2>1, <2>5, CharacterMeant
    <2>6. CASE OtherDirective
      BY <2>1, <2>6, OtherMeant
    <2>7. CASE Return
      <3>1. UNCHANGED <<memory, pos, number, printed, args>> /\ Here = "NUL"
        BY <2>7 DEF Return, Scans
      <3>2. pos = Length
        BY <2>1, <3>1, AtPos
      <3> QED
        BY <2>1, <3>1, <3>2, StillMeant
    <2>8. ASSUME NEW v \in Ints, StartInt(v) PROVE Meant'
      <3>1. PICK w \in IF v < 0 THEN Negated(v) ELSE {v} :
              number' = [kind |-> "d", value |-> w, negative |-> v < 0,
                         buffer |-> <<>>, phase |-> "figures"]
        BY <2>8 DEF StartInt
      <3>2. v \in Int /\ w \in Int /\ (~Least("d", v) => w = Magnitude(v))
        BY WidthAssumption DEF Ints, Negated, Magnitude, Least
      <3>3. number' \in Numbers
        BY <3>1, <3>2 DEF Numbers
      <3>4. "d" \in {"d", "p"} /\ "d" # "p"
        OBVIOUS
      <3>5. Converts(number', v)
        BY <3>1, <3>2, <3>4, StartConverts
      <3>6. /\ Scans /\ Here = "%" /\ Following = number'.kind /\ args' = Append(args, v)
            /\ UNCHANGED <<memory, pos, printed, returned>>
        BY <2>8, <3>1 DEF StartInt
      <3> QED
        BY <2>1, <3>2, <3>3, <3>5, <3>6, StartMeant
    <2>9. ASSUME NEW v \in Ptrs, StartPtr(v) PROVE Meant'
      <3>1. number' = [kind |-> "p", value |-> v, negative |-> FALSE,
                       buffer |-> <<>>, phase |-> "figures"]
        BY <2>9 DEF StartPtr
      <3>2. v \in Int /\ ~(v < 0) /\ Magnitude(v) = v
        BY DEF Ptrs, Magnitude
      <3>3. number' \in Numbers
        BY <3>1, <3>2 DEF Numbers
      <3>4. "p" \in {"d", "p"} /\ "d" # "p" /\ (v < 0) = FALSE
        BY <3>2
      <3>5. Converts(number', v)
        BY <3>1, <3>2, <3>4, StartConverts
      <3>6. /\ Scans /\ Here = "%" /\ Following = number'.kind /\ args' = Append(args, v)
            /\ UNCHANGED <<memory, pos, printed, returned>>
        BY <2>9, <3>1 DEF StartPtr
      <3> QED
        BY <2>1, <3>2, <3>3, <3>5, <3>6, StartMeant
    <2>10. CASE WriteFigure
      <3>1. number \in Numbers /\ Fits(number)
        BY <2>1, <2>10, NotIdle DEF WriteFigure, BInv, NumberTyped
      <3>2. number' \in Numbers
        BY <2>10, <3>1, FigureFits
      <3>3. number'.kind = number.kind /\ UNCHANGED <<memory, pos, printed, args, returned>>
        BY <2>10, <3>1 DEF WriteFigure, Store, Numbers
      <3>4. Converts(number, args[Len(args)]) => Converts(number', args[Len(args)])
        BY <2>3, <2>10, <3>1, NotIdle, FigureConverts
      <3> QED
        BY <2>1, <3>1, <3>2, <3>3, <3>4, NumberMeant
    <2>11. CASE WriteSign
      <3>1. number \in Numbers /\ Fits(number)
        BY <2>1, <2>11, NotIdle DEF WriteSign, BInv, NumberTyped
      <3>2. number' \in Numbers
        BY <2>11, <3>1, SignFits
      <3>3. number'.kind = number.kind /\ UNCHANGED <<memory, pos, printed, args, returned>>
        BY <2>11, <3>1 DEF WriteSign, Store, Numbers
      <3>4. Converts(number, args[Len(args)]) => Converts(number', args[Len(args)])
        BY <2>3, <2>11, <3>1, NotIdle, SignConverts
      <3> QED
        BY <2>1, <3>1, <3>2, <3>3, <3>4, NumberMeant
    <2>12. CASE PrintNumber
      <3>1. number \in Numbers
        BY <2>2, <2>12 DEF PrintNumber
      <3> QED
        BY <2>1, <2>12, <3>1, PrintMeant
    <2> QED
      BY <2>4, <2>5, <2>6, <2>7, <2>8, <2>9, <2>10, <2>11, <2>12 DEF PrintfNext
  <1> QED
    BY <1>2, <1>3, <1>4 DEF MInv

\* printf prints the characters of its format as they are and every number as the
\* argument of its place, in full and without zeros in front, and stops at the end of
\* the format: for every format without a '%' at its end, and every int but the least.
THEOREM OutputCorrect == PrintfSpec => []PrintsAsMeant
  <1>1. MInv => PrintsAsMeant
    <2> SUFFICES ASSUME MInv, returned, ~Dangling
                 PROVE  /\ pos = Length /\ Len(printed) = Cardinality(Printing(Length - 1))
                        /\ \A k \in Printing(Length - 1) : Right(k)
      BY DEF PrintsAsMeant, Right
    <2>1. Meant
      BY DEF MInv
    <2> QED
      BY <2>1 DEF Meant
  <1> QED
    BY <1>1, MeantBegins, MeantStep, PTL DEF PrintfSpec
=================================================================================
