---------------------------- MODULE FbInitProofs ----------------------------
(***************************************************************************)
(* Machine-checked proofs about FbInit, for every set of framebuffers,     *)
(* every size of a glyph, a cell and the pool, and any number of terminals.*)
(*                                                                         *)
(* The invariants of FbInit speak of the moments between two calls.  What  *)
(* is inductive is an account that also holds while one runs: the heap is  *)
(* the disjoint union of what was lost, the blocks of the terminals and    *)
(* what the running call holds (HeapExact), and the pool is tiled by the   *)
(* blocks of its terminals up to where the running call began, and from    *)
(* there by the blocks of that call (PoolInv).                             *)
(***************************************************************************)
EXTENDS FbInit, FiniteSetTheorems, TLAPS

\* The fields of a terminal that hold a block.
Names == {"ctx", "font_bits", "font_bool", "grid", "queue", "map", "canvas"}

Memory == [at : Nat, size : Nat]
MaybeNull == Memory \cup {NULL}

\* Terminals handed out, and the calls that make and unmake one.
Handles == [fields : [Names -> Memory], framebuffer : Framebuffers, pooled : BOOLEAN]
Inits == [op : {"init"}, framebuffer : Framebuffers, pooled : BOOLEAN,
          frees : BOOLEAN, orig_bump_alloc_ptr : Nat,
          fields : [Names -> MaybeNull], next : 1 .. 7]
Frees == [op : {"free"}, fields : [Names -> MaybeNull], todo : Seq(Names)]
Calls == {None, [op |-> "fault"]} \cup Inits \cup Frees

TypeInv ==
  /\ bumpPtr \in Nat
  /\ heap \subseteq Memory /\ IsFiniteSet(heap)
  /\ \A a, b \in heap : a.at = b.at => a = b
  /\ terminals \subseteq Handles
  /\ call \in Calls

Initing == call.op = "init"
Freeing == call.op = "free"

\* No two fields lead to the same block.
Distinct(fields) ==
  \A a, b \in Names : fields[a] = fields[b] /\ fields[a] # NULL => a = b

\* The blocks before the next one are allocated, the others are not.
InOrder ==
  Initing => \A i \in 1 .. 7 : call.fields[Blocks[i]] # NULL <=> i < call.next

\* What is still to be freed, and ctx as the last of it.
Outstanding ==
  Freeing => /\ Len(call.todo) > 0 /\ call.todo[Len(call.todo)] = "ctx"
             /\ \A i, j \in 1 .. Len(call.todo) : call.todo[i] = call.todo[j] => i = j
             /\ Distinct(call.fields) /\ call.fields["ctx"] # NULL

\* The blocks of a set of terminals, and of the call that runs.
BlocksOf(T, pooled) == UNION {Owned(t.fields) : t \in {u \in T : u.pooled = pooled}}
TerminalHeap == BlocksOf(terminals, FALSE)
ToFree == {call.fields[call.todo[i]] : i \in 1 .. Len(call.todo)} \ {NULL}
CallHeap ==
  IF Initing /\ ~call.pooled THEN Owned(call.fields)
  ELSE IF Freeing THEN ToFree ELSE {}

\* Every block of the heap has one owner, and is in one field of it.
HeapExact ==
  /\ heap = abandoned \cup TerminalHeap \cup CallHeap
  /\ abandoned \cap TerminalHeap = {} /\ abandoned \cap CallHeap = {}
  /\ TerminalHeap \cap CallHeap = {}
  /\ \A t, u \in terminals :
       t # u /\ ~t.pooled /\ ~u.pooled => Owned(t.fields) \cap Owned(u.fields) = {}
  /\ \A t \in terminals : ~t.pooled => Distinct(t.fields)
  /\ Initing /\ ~call.pooled => Distinct(call.fields)

\* The blocks of B cover the bytes from lo up to hi, each byte once.
Tiles(B, lo, hi) ==
  /\ lo <= hi
  /\ UNION {Bytes(b) : b \in B} = lo .. hi - 1
  /\ \A b, c \in B : b # c => Bytes(b) \cap Bytes(c) = {}

\* Base is where the pool began when the running call did.
TerminalPool == BlocksOf(terminals, TRUE)
Pooling == Initing /\ call.pooled
Base == IF Pooling THEN call.orig_bump_alloc_ptr ELSE bumpPtr
PoolInv ==
  /\ Tiles(TerminalPool, 0, Base)
  /\ Pooling => Tiles(Owned(call.fields), Base, bumpPtr)
  /\ bumpPtr <= PoolSize

IInv == TypeInv /\ InOrder /\ Outstanding /\ HeapExact /\ PoolInv
-----------------------------------------------------------------------------
LEMMA BlocksAre ==
  /\ Len(Blocks) = 7 /\ Range(Blocks) = Names
  /\ \A i \in 1 .. 7 : Blocks[i] \in Names
  /\ \A i, j \in 1 .. 7 : Blocks[i] = Blocks[j] => i = j
  /\ \A b \in Names : \E i \in 1 .. 7 : Blocks[i] = b
  <1>1. Len(Blocks) = 7 /\ DOMAIN Blocks = 1 .. 7
    BY DEF Blocks
  <1>2. \A i \in 1 .. 7 : Blocks[i] \in Names
    BY DEF Blocks, Names
  <1>3. \A i, j \in 1 .. 7 : Blocks[i] = Blocks[j] => i = j
    BY DEF Blocks
  <1>4. /\ Blocks[1] = "ctx" /\ Blocks[2] = "font_bits" /\ Blocks[3] = "font_bool"
        /\ Blocks[4] = "grid" /\ Blocks[5] = "queue" /\ Blocks[6] = "map"
        /\ Blocks[7] = "canvas"
    BY DEF Blocks
  <1>5. \A b \in Names : \E i \in 1 .. 7 : Blocks[i] = b
    BY <1>4 DEF Names
  <1> QED
    BY <1>1, <1>2, <1>3, <1>5 DEF Range

LEMMA NullNotMemory == NULL \notin Memory
  BY DEF NULL, Memory

LEMMA DivNat ==
  ASSUME NEW a \in Nat, NEW b \in Nat \ {0}
  PROVE  a \div b \in Nat
  OBVIOUS

LEMMA TimesNat ==
  ASSUME NEW a \in Nat, NEW b \in Nat
  PROVE  a * b \in Nat
  OBVIOUS

LEMMA SizeTyped ==
  ASSUME NEW b \in Names, NEW f \in Framebuffers
  PROVE  Size(b, f) \in Nat
  <1>1. /\ f.width \in Nat /\ f.height \in Nat
        /\ f.width - 2 * f.margin \in Nat /\ f.height - 2 * f.margin \in Nat
    BY PixelsAssumption
  <1>2. ColsOf(f) \in Nat /\ RowsOf(f) \in Nat
    BY <1>1, DivNat, PixelsAssumption DEF ColsOf, RowsOf
  <1>3. CASE b \in DOMAIN FixedSize
    BY <1>3, SizesAssumption DEF Size
  <1>4. CASE b \notin DOMAIN FixedSize /\ b \in DOMAIN CellSize
    <2>1. CellSize[b] \in Nat
      BY <1>4, SizesAssumption
    <2>2. RowsOf(f) * ColsOf(f) \in Nat
      BY <1>2, TimesNat
    <2>3. RowsOf(f) * ColsOf(f) * CellSize[b] \in Nat
      BY <2>1, <2>2, TimesNat
    <2> QED
      BY <1>4, <2>3, Zenon DEF Size
  <1>5. CASE b \notin DOMAIN FixedSize /\ b \notin DOMAIN CellSize
    <2>1. f.width * f.height \in Nat
      BY <1>1, TimesNat
    <2>2. f.width * f.height * 4 \in Nat
      BY <2>1, TimesNat
    <2> QED
      BY <1>5, <2>2, Zenon DEF Size
  <1> QED
    BY <1>3, <1>4, <1>5

\* There are more names up to the number of blocks than blocks.
LEMMA NewNameNew ==
  ASSUME IsFiniteSet(heap), heap \subseteq Memory
  PROVE  NewName \in Nat /\ \A b \in heap : b.at # NewName
  <1> DEFINE n == Cardinality(heap)
  <1>1. n \in Nat
    BY FS_CardinalityType
  <1>2. IsFiniteSet(0 .. n) /\ Cardinality(0 .. n) = n + 1
    BY <1>1, FS_Interval
  <1>3. \E m \in 0 .. n : \A b \in heap : b.at # m
    <2> SUFFICES ASSUME \A m \in 0 .. n : \E b \in heap : b.at = m
                 PROVE  FALSE
      BY Zenon
    <2> DEFINE f == [m \in 0 .. n |-> CHOOSE b \in heap : b.at = m]
    <2>1. \A m \in 0 .. n : f[m] \in heap /\ f[m].at = m
      BY Zenon
    <2>2. f \in [0 .. n -> heap]
      BY <2>1, Zenon
    <2> HIDE DEF f
    <2>3. PICK names : names = 0 .. n
      OBVIOUS
    <2>4. IsFiniteSet(names) /\ Cardinality(heap) < Cardinality(names)
      BY <1>1, <1>2, <2>3
    <2>5. f \in [names -> heap]
      BY <2>2, <2>3
    <2> HIDE DEF n
    <2>6. \E x, y \in names : x # y /\ f[x] = f[y]
      BY <2>4, <2>5, FS_PigeonHole
    <2> QED
      BY <2>1, <2>3, <2>6, Zenon
  <1>4. NewName \in 0 .. n /\ \A b \in heap : b.at # NewName
    BY <1>3, Zenon DEF NewName
  <1> QED
    BY <1>1, <1>4

\* Two tilings end to end.
LEMMA TilesUnion ==
  ASSUME NEW B \in SUBSET Memory, NEW C \in SUBSET Memory,
         NEW l \in Nat, NEW m \in Nat, NEW h \in Nat,
         Tiles(B, l, m), Tiles(C, m, h)
  PROVE  Tiles(B \cup C, l, h)
  <1>1. UNION {Bytes(b) : b \in B \cup C} =
          (UNION {Bytes(b) : b \in B}) \cup (UNION {Bytes(b) : b \in C})
    BY Zenon
  <1>2. l .. h - 1 = (l .. m - 1) \cup (m .. h - 1) /\ l <= h
    BY DEF Tiles
  <1>3. \A b \in B, c \in C : Bytes(b) \cap Bytes(c) = {}
    <2>1. (l .. m - 1) \cap (m .. h - 1) = {}
      OBVIOUS
    <2>2. /\ \A b \in B : Bytes(b) \subseteq l .. m - 1
          /\ \A c \in C : Bytes(c) \subseteq m .. h - 1
      BY Zenon DEF Tiles
    <2> QED
      BY <2>1, <2>2, Zenon
  <1>4. \A b, c \in B \cup C : b # c => Bytes(b) \cap Bytes(c) = {}
    BY <1>3, Zenon DEF Tiles
  <1> QED
    BY <1>1, <1>2, <1>4 DEF Tiles

LEMMA TileOne ==
  ASSUME NEW m \in Nat, NEW n \in Nat
  PROVE  Tiles({[at |-> m, size |-> n]}, m, m + n)
  <1>1. UNION {Bytes(b) : b \in {[at |-> m, size |-> n]}} = m .. m + n - 1
    BY DEF Bytes
  <1> QED
    BY <1>1 DEF Tiles

LEMMA TileNone == \A m \in Nat : Tiles({}, m, m)
  BY DEF Tiles

LEMMA OwnedIs ==
  ASSUME NEW fields \in [Names -> MaybeNull]
  PROVE  /\ Owned(fields) = {fields[b] : b \in Names} \ {NULL}
         /\ Owned(fields) \subseteq Memory
  BY BlocksAre DEF Owned, MaybeNull

\* One more terminal, from the pool or from the heap.
LEMMA MorePooled ==
  ASSUME NEW T, NEW t, t.pooled = TRUE
  PROVE  /\ BlocksOf(T \cup {t}, TRUE) = BlocksOf(T, TRUE) \cup Owned(t.fields)
         /\ BlocksOf(T \cup {t}, FALSE) = BlocksOf(T, FALSE)
  <1>1. {u \in T \cup {t} : u.pooled = TRUE} = {u \in T : u.pooled = TRUE} \cup {t}
    OBVIOUS
  <1>2. {u \in T \cup {t} : u.pooled = FALSE} = {u \in T : u.pooled = FALSE}
    OBVIOUS
  <1>3. PICK U : U = {u \in T : u.pooled = TRUE}
    OBVIOUS
  <1>4. UNION {Owned(v.fields) : v \in U \cup {t}} =
          (UNION {Owned(v.fields) : v \in U}) \cup Owned(t.fields)
    BY Zenon
  <1> QED
    BY <1>1, <1>2, <1>3, <1>4, Zenon DEF BlocksOf

LEMMA MoreHeld ==
  ASSUME NEW T, NEW t, t.pooled = FALSE
  PROVE  /\ BlocksOf(T \cup {t}, FALSE) = BlocksOf(T, FALSE) \cup Owned(t.fields)
         /\ BlocksOf(T \cup {t}, TRUE) = BlocksOf(T, TRUE)
  <1>1. {u \in T \cup {t} : u.pooled = FALSE} = {u \in T : u.pooled = FALSE} \cup {t}
    OBVIOUS
  <1>2. {u \in T \cup {t} : u.pooled = TRUE} = {u \in T : u.pooled = TRUE}
    OBVIOUS
  <1>3. PICK U : U = {u \in T : u.pooled = FALSE}
    OBVIOUS
  <1>4. UNION {Owned(v.fields) : v \in U \cup {t}} =
          (UNION {Owned(v.fields) : v \in U}) \cup Owned(t.fields)
    BY Zenon
  <1> QED
    BY <1>1, <1>2, <1>3, <1>4, Zenon DEF BlocksOf

LEMMA TerminalBlocksTyped ==
  ASSUME NEW T \in SUBSET Handles, NEW p
  PROVE  BlocksOf(T, p) \subseteq Memory
  <1>1. \A t \in T : t.fields \in [Names -> MaybeNull]
    BY DEF Handles, MaybeNull
  <1> QED
    BY <1>1, OwnedIs, Zenon DEF BlocksOf

LEMMA CallKinds ==
  ASSUME call \in Calls
  PROVE  /\ Initing => call \in Inits
         /\ Freeing => call \in Frees
  BY DEF Calls, None, Inits, Frees, Initing, Freeing

LEMMA InitFields ==
  ASSUME call \in Inits
  PROVE  /\ call.op = "init" /\ call.framebuffer \in Framebuffers
         /\ call.pooled \in BOOLEAN /\ call.frees \in BOOLEAN
         /\ call.orig_bump_alloc_ptr \in Nat
         /\ call.fields \in [Names -> MaybeNull] /\ call.next \in 1 .. 7
  BY DEF Inits

LEMMA InitRecord ==
  ASSUME NEW f \in Framebuffers, NEW p \in BOOLEAN, NEW r \in BOOLEAN,
         NEW o \in Nat, NEW fs \in [Names -> MaybeNull], NEW n \in 1 .. 7
  PROVE  [op |-> "init", framebuffer |-> f, pooled |-> p, frees |-> r,
          orig_bump_alloc_ptr |-> o, fields |-> fs, next |-> n] \in Inits
  BY DEF Inits

\* What a call that got a block has done: set the field, and then either gone on
\* or handed the terminal out.
LEMMA GotStep ==
  ASSUME TypeInv, InOrder, Initing, NEW block \in Memory, Got(block)
  PROVE  \E fs \in [Names -> MaybeNull] :
           /\ Owned(fs) = Owned(call.fields) \cup {block}
           /\ \A i \in 1 .. 7 : fs[Blocks[i]] # NULL <=> i < call.next + 1
           /\ \A b \in Names \ {Wanted} : fs[b] = call.fields[b]
           /\ fs[Wanted] = block /\ Wanted \in Names
           /\ \/ /\ call.next < 7 /\ terminals' = terminals
                 /\ call' = [op |-> "init", framebuffer |-> call.framebuffer,
                             pooled |-> call.pooled, frees |-> call.frees,
                             orig_bump_alloc_ptr |-> call.orig_bump_alloc_ptr,
                             fields |-> fs, next |-> call.next + 1]
              \/ /\ call.next = 7 /\ call' = None /\ fs \in [Names -> Memory]
                 /\ terminals' = terminals \cup
                      {[fields |-> fs, framebuffer |-> call.framebuffer,
                        pooled |-> call.pooled]}
  <1>1. call \in Inits
    BY CallKinds DEF TypeInv
  <1>2. /\ call.fields \in [Names -> MaybeNull] /\ call.next \in 1 .. 7
        /\ Wanted \in Names
    BY <1>1, InitFields, BlocksAre DEF Wanted
  <1>3. call.fields[Wanted] = NULL
    <2>1. ~(call.next < call.next)
      BY <1>2
    <2> QED
      BY <1>2, <2>1, Zenon DEF InOrder, Wanted
  <1>4. PICK w : w = Wanted
    OBVIOUS
  <1>5. PICK fs : fs = [call.fields EXCEPT ![w] = block]
    OBVIOUS
  <1>6. /\ fs \in [Names -> MaybeNull] /\ fs[w] = block
        /\ \A b \in Names \ {w} : fs[b] = call.fields[b]
    BY <1>2, <1>4, <1>5 DEF MaybeNull
  <1>7. block # NULL
    BY NullNotMemory
  <1>8. Owned(fs) = Owned(call.fields) \cup {block}
    <2>1. Owned(fs) = {fs[b] : b \in Names} \ {NULL}
      BY <1>6, OwnedIs
    <2>2. Owned(call.fields) = {call.fields[b] : b \in Names} \ {NULL}
      BY <1>2, OwnedIs
    <2>3. \A b \in Names : fs[b] \in Owned(call.fields) \cup {block, NULL}
      BY <1>6, <2>2, Zenon
    <2>4. \A b \in Names : call.fields[b] \in Owned(fs) \cup {NULL}
      BY <1>2, <1>3, <1>4, <1>6, <2>1, Zenon
    <2>5. block \in Owned(fs)
      BY <1>2, <1>4, <1>6, <1>7, <2>1, Zenon
    <2>6. Owned(fs) \subseteq Owned(call.fields) \cup {block}
      BY <2>1, <2>3, Zenon
    <2>7. Owned(call.fields) \subseteq Owned(fs)
      BY <2>2, <2>4, Zenon
    <2> QED
      BY <2>5, <2>6, <2>7, Zenon
  <1>9. \A i \in 1 .. 7 : fs[Blocks[i]] # NULL <=> i < call.next + 1
    <2> TAKE i \in 1 .. 7
    <2>1. CASE i = call.next
      BY <1>2, <1>4, <1>6, <1>7, <2>1 DEF Wanted
    <2>2. CASE i # call.next
      <3>1. Blocks[i] # w /\ Blocks[i] \in Names
        BY <1>2, <1>4, <2>2, BlocksAre, Zenon DEF Wanted
      <3>2. fs[Blocks[i]] = call.fields[Blocks[i]]
        BY <1>6, <3>1, Zenon
      <3>3. i < call.next + 1 <=> i < call.next
        BY <1>2, <2>2
      <3> QED
        BY <3>2, <3>3, Zenon DEF InOrder
    <2> QED
      BY <2>1, <2>2
  <1>10. CASE call.next < 7
    <2>1. call' = [call EXCEPT !.fields[w] = block, !.next = @ + 1] /\ terminals' = terminals
      BY <1>4, <1>10, BlocksAre DEF Got
    <2>2. call' = [op |-> "init", framebuffer |-> call.framebuffer,
                   pooled |-> call.pooled, frees |-> call.frees,
                   orig_bump_alloc_ptr |-> call.orig_bump_alloc_ptr,
                   fields |-> fs, next |-> call.next + 1]
      BY <1>1, <1>5, <2>1 DEF Inits
    <2> QED
      BY <1>2, <1>4, <1>6, <1>8, <1>9, <1>10, <2>1, <2>2
  <1>11. CASE call.next = 7
    <2>1. /\ call' = None
          /\ terminals' = terminals \cup
               {[Handed EXCEPT !.fields =
                   [call EXCEPT !.fields[w] = block, !.next = @ + 1].fields]}
      BY <1>4, <1>11, BlocksAre, Zenon DEF Got
    <2>2. [call EXCEPT !.fields[w] = block, !.next = @ + 1].fields = fs
      BY <1>1, <1>5 DEF Inits
    <2>3. [Handed EXCEPT !.fields = fs] =
            [fields |-> fs, framebuffer |-> call.framebuffer, pooled |-> call.pooled]
      BY DEF Handed
    <2>4. \A b \in Names : fs[b] # NULL
      <3>1. \A i \in 1 .. 7 : i < call.next + 1
        BY <1>11
      <3>2. \A i \in 1 .. 7 : fs[Blocks[i]] # NULL
        BY <1>9, <3>1, Zenon
      <3> TAKE b \in Names
      <3>3. PICK i \in 1 .. 7 : Blocks[i] = b
        BY BlocksAre, Zenon
      <3> QED
        BY <3>2, <3>3, Zenon
    <2>5. fs \in [Names -> Memory]
      BY <1>6, <2>4 DEF MaybeNull
    <2> QED
      BY <1>2, <1>4, <1>6, <1>8, <1>9, <1>11, <2>1, <2>2, <2>3, <2>5, Zenon
  <1> QED
    BY <1>2, <1>10, <1>11

LEMMA FreshIs ==
  /\ Fresh \in [Names -> MaybeNull] /\ \A b \in Names : Fresh[b] = NULL
  /\ Owned(Fresh) = {}
  <1>1. Fresh \in [Names -> MaybeNull] /\ \A b \in Names : Fresh[b] = NULL
    BY BlocksAre DEF Fresh, MaybeNull
  <1>2. Owned(Fresh) = {}
    BY <1>1, OwnedIs, Zenon
  <1> QED
    BY <1>1, <1>2

LEMMA AtRest ==
  ASSUME call = None \/ call = [op |-> "fault"]
  PROVE  ~Initing /\ ~Freeing /\ call # NULL
  BY DEF None, Initing, Freeing, NULL

LEMMA Started ==
  ASSUME IInv, NEW f \in Framebuffers, NEW pooled \in BOOLEAN,
         NEW frees \in BOOLEAN, StartInit(f, pooled, frees)
  PROVE  IInv'
  <1>1. ~Initing /\ ~Freeing /\ bumpPtr \in Nat
    BY AtRest DEF StartInit, IInv, TypeInv
  <1>2. call' \in Inits
    <2>1. call' = [op |-> "init", framebuffer |-> f, pooled |-> pooled,
                   frees |-> frees, orig_bump_alloc_ptr |-> bumpPtr,
                   fields |-> Fresh, next |-> 1]
      BY Zenon DEF StartInit
    <2>2. 1 \in 1 .. 7
      OBVIOUS
    <2> QED
      BY <1>1, <2>1, <2>2, FreshIs, InitRecord, Zenon
  <1>3. /\ Initing' /\ ~Freeing' /\ call'.pooled = pooled /\ call'.fields = Fresh
        /\ call'.next = 1 /\ call'.orig_bump_alloc_ptr = bumpPtr
        /\ bumpPtr' = bumpPtr /\ heap' = heap /\ terminals' = terminals
        /\ abandoned' = abandoned
    BY DEF StartInit, Initing, Freeing
  <1>4. TypeInv'
    BY <1>2, <1>3, Zenon DEF IInv, TypeInv, Calls
  <1>5. InOrder'
    <2>1. \A i \in 1 .. 7 : ~(i < 1) /\ Fresh[Blocks[i]] = NULL
      BY FreshIs, BlocksAre
    <2> QED
      BY <1>3, <2>1, Zenon DEF InOrder
  <1>6. Outstanding'
    BY <1>3, Zenon DEF Outstanding
  <1>7. HeapExact'
    <2>1. CallHeap = {} /\ CallHeap' = {} /\ TerminalHeap' = TerminalHeap
      BY <1>1, <1>3, FreshIs, Zenon DEF CallHeap, TerminalHeap
    <2>2. Distinct(Fresh)
      BY FreshIs, Zenon DEF Distinct
    <2> QED
      BY <1>3, <2>1, <2>2, Zenon DEF IInv, HeapExact
  <1>8. PoolInv'
    <2>1. Base = bumpPtr /\ Base' = bumpPtr /\ TerminalPool' = TerminalPool
      BY <1>1, <1>3, Zenon DEF Base, Pooling, TerminalPool
    <2>2. Tiles({}, bumpPtr, bumpPtr)
      BY <1>1, TileNone
    <2> QED
      BY <1>3, <2>1, <2>2, FreshIs, Zenon DEF IInv, PoolInv
  <1> QED
    BY <1>4, <1>5, <1>6, <1>7, <1>8, Zenon DEF IInv

LEMMA PoolTyped ==
  ASSUME TypeInv
  PROVE  TerminalPool \in SUBSET Memory /\ TerminalHeap \in SUBSET Memory
  BY TerminalBlocksTyped DEF TypeInv, TerminalPool, TerminalHeap

\* One lemma per action of FbInit.
LEMMA FromPool ==
  ASSUME IInv, AllocateFromPool
  PROVE  IInv'
  <1>1. Initing /\ call.pooled /\ ~Freeing /\ call \in Inits /\ Pooling
    <2>1. Initing /\ call.pooled /\ ~Freeing
      BY DEF AllocateFromPool, Initing, Freeing
    <2> QED
      BY <2>1, CallKinds DEF IInv, TypeInv, Pooling
  <1>2. PICK n : n = WantedSize
    OBVIOUS
  <1>3. n \in Nat /\ bumpPtr \in Nat
    <2>1. Wanted \in Names
      BY <1>1, InitFields, BlocksAre DEF Wanted
    <2> QED
      BY <1>1, <1>2, <2>1, SizeTyped, InitFields DEF WantedSize, IInv, TypeInv
  <1>4. PICK block : block = [at |-> bumpPtr, size |-> n]
    OBVIOUS
  <1>5. block \in Memory
    BY <1>3, <1>4 DEF Memory
  <1>6. /\ bumpPtr + n <= PoolSize /\ bumpPtr' = bumpPtr + n /\ Got(block)
        /\ heap' = heap /\ abandoned' = abandoned
    BY <1>2, <1>4, Zenon DEF AllocateFromPool
  <1>7. PICK fs \in [Names -> MaybeNull] :
           /\ Owned(fs) = Owned(call.fields) \cup {block}
           /\ \A i \in 1 .. 7 : fs[Blocks[i]] # NULL <=> i < call.next + 1
           /\ \/ /\ call.next < 7 /\ terminals' = terminals
                 /\ call' = [op |-> "init", framebuffer |-> call.framebuffer,
                             pooled |-> call.pooled, frees |-> call.frees,
                             orig_bump_alloc_ptr |-> call.orig_bump_alloc_ptr,
                             fields |-> fs, next |-> call.next + 1]
              \/ /\ call.next = 7 /\ call' = None /\ fs \in [Names -> Memory]
                 /\ terminals' = terminals \cup
                      {[fields |-> fs, framebuffer |-> call.framebuffer,
                        pooled |-> call.pooled]}
    BY <1>1, <1>5, <1>6, GotStep, Zenon DEF IInv
  <1>8. bumpPtr' \in Nat /\ bumpPtr' <= PoolSize
    BY <1>3, <1>6
  <1>9. Tiles(Owned(fs), call.orig_bump_alloc_ptr, bumpPtr')
    <2>1. Tiles(Owned(call.fields), call.orig_bump_alloc_ptr, bumpPtr)
      BY <1>1, Zenon DEF IInv, PoolInv, Base
    <2>2. Tiles({block}, bumpPtr, bumpPtr')
      BY <1>3, <1>4, <1>6, TileOne
    <2>3. Owned(call.fields) \in SUBSET Memory /\ {block} \in SUBSET Memory
      BY <1>1, <1>5, OwnedIs, InitFields
    <2> QED
      BY <1>1, <1>3, <1>7, <1>8, <2>1, <2>2, <2>3, TilesUnion, InitFields
  <1>10. CallHeap = {}
    BY <1>1, Zenon DEF CallHeap
  <1>11. CASE call.next < 7
    <2>1. call' = [op |-> "init", framebuffer |-> call.framebuffer,
                   pooled |-> call.pooled, frees |-> call.frees,
                   orig_bump_alloc_ptr |-> call.orig_bump_alloc_ptr,
                   fields |-> fs, next |-> call.next + 1] /\ terminals' = terminals
      BY <1>7, <1>11
    <2>2. call.next + 1 \in 1 .. 7
      BY <1>1, <1>11, InitFields
    <2>3. call' \in Inits
      BY <1>1, <2>1, <2>2, InitFields, InitRecord
    <2>4. /\ Initing' /\ ~Freeing' /\ call'.pooled /\ call'.fields = fs
          /\ call'.next = call.next + 1
          /\ call'.orig_bump_alloc_ptr = call.orig_bump_alloc_ptr
      BY <1>1, <2>1 DEF Initing, Freeing
    <2>5. TypeInv'
      BY <1>6, <1>8, <2>1, <2>3, Zenon DEF IInv, TypeInv, Calls
    <2>6. InOrder' /\ Outstanding'
      BY <1>7, <2>4, Zenon DEF InOrder, Outstanding
    <2>7. HeapExact'
      <3>1. CallHeap' = {} /\ TerminalHeap' = TerminalHeap
        BY <2>1, <2>4, Zenon DEF CallHeap, TerminalHeap
      <3> QED
        BY <1>6, <1>10, <2>1, <2>4, <3>1, Zenon DEF IInv, HeapExact
    <2>8. PoolInv'
      <3>1. /\ Base = call.orig_bump_alloc_ptr /\ Base' = call.orig_bump_alloc_ptr
            /\ TerminalPool' = TerminalPool
        BY <1>1, <2>1, <2>4, Zenon DEF Base, Pooling, TerminalPool
      <3> QED
        BY <1>8, <1>9, <2>4, <3>1, Zenon DEF IInv, PoolInv
    <2> QED
      BY <2>5, <2>6, <2>7, <2>8, Zenon DEF IInv
  <1>12. CASE call.next = 7
    <2>1. PICK t : t = [fields |-> fs, framebuffer |-> call.framebuffer,
                        pooled |-> call.pooled]
      OBVIOUS
    <2>2. /\ call' = None /\ fs \in [Names -> Memory]
          /\ terminals' = terminals \cup {t}
      BY <1>7, <1>12, <2>1
    <2>3. t \in Handles /\ t.fields = fs /\ t.pooled
      BY <1>1, <2>1, <2>2, InitFields DEF Handles
    <2>4. ~Initing' /\ ~Freeing'
      BY <2>2 DEF None, Initing, Freeing
    <2>5. TypeInv'
      BY <1>6, <1>8, <2>2, <2>3, Zenon DEF IInv, TypeInv, Calls
    <2>6. InOrder' /\ Outstanding'
      BY <2>4, Zenon DEF InOrder, Outstanding
    <2>7. HeapExact'
      <3>1. CallHeap' = {} /\ TerminalHeap' = TerminalHeap
        <4>1. t.pooled = TRUE
          BY <1>1, <2>1, InitFields
        <4>2. BlocksOf(terminals \cup {t}, FALSE) = BlocksOf(terminals, FALSE)
          BY <4>1, MorePooled
        <4> QED
          BY <2>2, <2>4, <4>2, Zenon DEF CallHeap, TerminalHeap
      <3> QED
        BY <1>6, <1>10, <2>2, <2>3, <2>4, <3>1, Zenon DEF IInv, HeapExact
    <2>8. PoolInv'
      <3>1. Base = call.orig_bump_alloc_ptr /\ Base' = bumpPtr' /\ ~Pooling'
        BY <1>1, <2>4, Zenon DEF Base, Pooling
      <3>2. TerminalPool' = TerminalPool \cup Owned(fs)
        <4>1. t.pooled = TRUE
          BY <1>1, <2>1, <2>3, InitFields
        <4> QED
          BY <2>2, <2>3, <4>1, MorePooled, Zenon DEF TerminalPool
      <3>3. Tiles(TerminalPool, 0, call.orig_bump_alloc_ptr)
        BY <3>1 DEF IInv, PoolInv
      <3>4. TerminalPool \in SUBSET Memory /\ Owned(fs) \in SUBSET Memory
        BY PoolTyped, OwnedIs DEF IInv
      <3>5. Tiles(TerminalPool', 0, bumpPtr')
        BY <1>1, <1>8, <1>9, <3>2, <3>3, <3>4, TilesUnion, InitFields
      <3> QED
        BY <1>8, <3>1, <3>5 DEF PoolInv
    <2> QED
      BY <2>5, <2>6, <2>7, <2>8, Zenon DEF IInv
  <1> QED
    BY <1>1, <1>11, <1>12, InitFields

LEMMA PoolFails ==
  ASSUME IInv, PoolExhausted
  PROVE  IInv'
  <1>1. Initing /\ call.pooled /\ ~Freeing /\ call \in Inits /\ Pooling
    <2>1. Initing /\ call.pooled /\ ~Freeing
      BY DEF PoolExhausted, Initing, Freeing
    <2> QED
      BY <2>1, CallKinds DEF IInv, TypeInv, Pooling
  <1>2. /\ bumpPtr' = call.orig_bump_alloc_ptr /\ call' = None /\ heap' = heap
        /\ terminals' = terminals /\ abandoned' = abandoned
    BY DEF PoolExhausted
  <1>3. ~Initing' /\ ~Freeing' /\ bumpPtr' \in Nat
    BY <1>1, <1>2, InitFields DEF None, Initing, Freeing
  <1>4. TypeInv'
    BY <1>2, <1>3, Zenon DEF IInv, TypeInv, Calls
  <1>5. InOrder' /\ Outstanding'
    BY <1>3, Zenon DEF InOrder, Outstanding
  <1>6. HeapExact'
    <2>1. CallHeap = {} /\ CallHeap' = {} /\ TerminalHeap' = TerminalHeap
      BY <1>1, <1>2, <1>3, Zenon DEF CallHeap, TerminalHeap
    <2> QED
      BY <1>2, <1>3, <2>1, Zenon DEF IInv, HeapExact
  <1>7. PoolInv'
    <2>1. /\ Base = call.orig_bump_alloc_ptr /\ Base' = call.orig_bump_alloc_ptr
          /\ TerminalPool' = TerminalPool /\ ~Pooling'
      BY <1>1, <1>2, <1>3, Zenon DEF Base, Pooling, TerminalPool
    <2>2. bumpPtr' <= PoolSize
      <3>1. bumpPtr <= PoolSize /\ call.orig_bump_alloc_ptr <= bumpPtr
        BY <1>1, <2>1 DEF IInv, PoolInv, Tiles
      <3> QED
        BY <1>1, <1>2, <3>1, InitFields, SizesAssumption DEF IInv, TypeInv
    <2> QED
      BY <2>1, <2>2, <1>2, Zenon DEF IInv, PoolInv
  <1> QED
    BY <1>4, <1>5, <1>6, <1>7, Zenon DEF IInv

LEMMA FromHeap ==
  ASSUME IInv, AllocateFromHeap
  PROVE  IInv'
  <1>1. Initing /\ ~call.pooled /\ ~Freeing /\ call \in Inits /\ ~Pooling
    <2>1. Initing /\ ~call.pooled /\ ~Freeing
      BY DEF AllocateFromHeap, Initing, Freeing
    <2> QED
      BY <2>1, CallKinds DEF IInv, TypeInv, Pooling
  <1>2. PICK block : block = [at |-> NewName, size |-> WantedSize]
    OBVIOUS
  <1>3. block \in Memory /\ \A b \in heap : b.at # block.at
    <2>1. Wanted \in Names
      BY <1>1, InitFields, BlocksAre DEF Wanted
    <2>2. WantedSize \in Nat
      BY <1>1, <2>1, SizeTyped, InitFields DEF WantedSize
    <2>3. NewName \in Nat /\ \A b \in heap : b.at # NewName
      BY NewNameNew DEF IInv, TypeInv
    <2> QED
      BY <1>2, <2>2, <2>3 DEF Memory
  <1>4. block \notin heap
    BY <1>3, Zenon
  <1>5. /\ heap' = heap \cup {block} /\ Got(block)
        /\ bumpPtr' = bumpPtr /\ abandoned' = abandoned
    BY <1>2, Zenon DEF AllocateFromHeap
  <1>6. PICK fs \in [Names -> MaybeNull] :
           /\ Owned(fs) = Owned(call.fields) \cup {block}
           /\ \A i \in 1 .. 7 : fs[Blocks[i]] # NULL <=> i < call.next + 1
           /\ \A b \in Names \ {Wanted} : fs[b] = call.fields[b]
           /\ fs[Wanted] = block /\ Wanted \in Names
           /\ \/ /\ call.next < 7 /\ terminals' = terminals
                 /\ call' = [op |-> "init", framebuffer |-> call.framebuffer,
                             pooled |-> call.pooled, frees |-> call.frees,
                             orig_bump_alloc_ptr |-> call.orig_bump_alloc_ptr,
                             fields |-> fs, next |-> call.next + 1]
              \/ /\ call.next = 7 /\ call' = None /\ fs \in [Names -> Memory]
                 /\ terminals' = terminals \cup
                      {[fields |-> fs, framebuffer |-> call.framebuffer,
                        pooled |-> call.pooled]}
    BY <1>1, <1>3, <1>5, GotStep, Zenon DEF IInv
  <1>7. /\ heap' \subseteq Memory /\ IsFiniteSet(heap')
        /\ \A a, b \in heap' : a.at = b.at => a = b
    <2>1. IsFiniteSet(heap')
      BY <1>5, FS_AddElement DEF IInv, TypeInv
    <2>2. heap' \subseteq Memory
      BY <1>3, <1>5, Zenon DEF IInv, TypeInv
    <2>3. \A a, b \in heap' : a.at = b.at => a = b
      BY <1>3, <1>5, Zenon DEF IInv, TypeInv
    <2> QED
      BY <2>1, <2>2, <2>3
  <1>8. CallHeap = Owned(call.fields)
    BY <1>1, Zenon DEF CallHeap
  <1>9. Distinct(fs)
    <2>1. Distinct(call.fields)
      BY <1>1, Zenon DEF IInv, HeapExact
    <2>2. \A b \in Names \ {Wanted} : fs[b] = block => fs[b] = NULL
      <3>1. Owned(call.fields) = {call.fields[b] : b \in Names} \ {NULL}
        BY <1>1, InitFields, OwnedIs
      <3>2. Owned(call.fields) \subseteq heap
        BY <1>8, Zenon DEF IInv, HeapExact
      <3> QED
        BY <1>4, <1>6, <3>1, <3>2, Zenon
    <2> QED
      BY <1>6, <2>1, <2>2, Zenon DEF Distinct
  <1>10. CASE call.next < 7
    <2>1. call' = [op |-> "init", framebuffer |-> call.framebuffer,
                   pooled |-> call.pooled, frees |-> call.frees,
                   orig_bump_alloc_ptr |-> call.orig_bump_alloc_ptr,
                   fields |-> fs, next |-> call.next + 1] /\ terminals' = terminals
      BY <1>6, <1>10
    <2>2. call.next + 1 \in 1 .. 7
      BY <1>1, <1>10, InitFields
    <2>3. call' \in Inits
      BY <1>1, <2>1, <2>2, InitFields, InitRecord
    <2>4. /\ Initing' /\ ~Freeing' /\ ~call'.pooled /\ call'.fields = fs
          /\ call'.next = call.next + 1
      BY <1>1, <2>1 DEF Initing, Freeing
    <2>5. TypeInv'
      BY <1>5, <1>7, <2>1, <2>3, Zenon DEF IInv, TypeInv, Calls
    <2>6. InOrder' /\ Outstanding'
      BY <1>6, <2>4, Zenon DEF InOrder, Outstanding
    <2>7. HeapExact'
      <3>1. CallHeap' = CallHeap \cup {block} /\ TerminalHeap' = TerminalHeap
        BY <1>6, <1>8, <2>1, <2>4, Zenon DEF CallHeap, TerminalHeap
      <3>2. block \notin abandoned \cup TerminalHeap \cup CallHeap
        BY <1>4, Zenon DEF IInv, HeapExact
      <3> QED
        BY <1>5, <1>9, <2>1, <2>4, <3>1, <3>2, Zenon DEF IInv, HeapExact
    <2>8. PoolInv'
      <3>1. Base = bumpPtr /\ Base' = bumpPtr /\ TerminalPool' = TerminalPool /\ ~Pooling'
        BY <1>1, <1>5, <2>1, <2>4, Zenon DEF Base, Pooling, TerminalPool
      <3> QED
        BY <1>5, <3>1, Zenon DEF IInv, PoolInv
    <2> QED
      BY <2>5, <2>6, <2>7, <2>8, Zenon DEF IInv
  <1>11. CASE call.next = 7
    <2>1. PICK t : t = [fields |-> fs, framebuffer |-> call.framebuffer,
                        pooled |-> call.pooled]
      OBVIOUS
    <2>2. /\ call' = None /\ fs \in [Names -> Memory]
          /\ terminals' = terminals \cup {t}
      BY <1>6, <1>11, <2>1
    <2>3. t \in Handles /\ t.fields = fs /\ t.pooled = FALSE
      BY <1>1, <2>1, <2>2, InitFields DEF Handles
    <2>4. ~Initing' /\ ~Freeing'
      BY <2>2 DEF None, Initing, Freeing
    <2>5. TypeInv'
      BY <1>5, <1>7, <2>2, <2>3, Zenon DEF IInv, TypeInv, Calls
    <2>6. InOrder' /\ Outstanding'
      BY <2>4, Zenon DEF InOrder, Outstanding
    <2>7. HeapExact'
      <3>1. CallHeap' = {} /\ TerminalHeap' = TerminalHeap \cup Owned(fs)
        <4>1. BlocksOf(terminals \cup {t}, FALSE) = BlocksOf(terminals, FALSE) \cup Owned(fs)
          BY <2>3, MoreHeld, Zenon
        <4> QED
          BY <2>2, <2>4, <4>1, Zenon DEF CallHeap, TerminalHeap
      <3>2. block \notin abandoned \cup TerminalHeap \cup CallHeap
        BY <1>4, Zenon DEF IInv, HeapExact
      <3>3. /\ heap' = abandoned' \cup TerminalHeap' \cup CallHeap'
            /\ abandoned' \cap TerminalHeap' = {} /\ abandoned' \cap CallHeap' = {}
            /\ TerminalHeap' \cap CallHeap' = {}
        BY <1>5, <1>6, <1>8, <3>1, <3>2, Zenon DEF IInv, HeapExact
      <3>4. Owned(fs) \cap TerminalHeap = {}
        BY <1>6, <1>8, <3>2, Zenon DEF IInv, HeapExact
      <3>5. \A u \in terminals : ~u.pooled => Owned(u.fields) \subseteq TerminalHeap
        <4>1. \A u \in terminals : ~u.pooled => u.pooled = FALSE
          BY DEF IInv, TypeInv, Handles
        <4> QED
          BY <4>1, Zenon DEF TerminalHeap, BlocksOf
      <3>6. \A u \in terminals : ~u.pooled =>
              /\ Owned(t.fields) \cap Owned(u.fields) = {}
              /\ Owned(u.fields) \cap Owned(t.fields) = {}
        BY <2>3, <3>4, <3>5, Zenon
      <3>7. \A u, v \in terminals' : u # v /\ ~u.pooled /\ ~v.pooled =>
              Owned(u.fields) \cap Owned(v.fields) = {}
        BY <2>2, <3>6, Zenon DEF IInv, HeapExact
      <3>8. \A u \in terminals' : ~u.pooled => Distinct(u.fields)
        BY <1>9, <2>2, <2>3, Zenon DEF IInv, HeapExact
      <3> QED
        BY <2>4, <3>3, <3>7, <3>8, Zenon DEF HeapExact
    <2>8. PoolInv'
      <3>1. t.pooled = FALSE
        BY <2>3
      <3>2. Base = bumpPtr /\ Base' = bumpPtr /\ ~Pooling'
        BY <1>1, <1>5, <2>4, Zenon DEF Base, Pooling
      <3>3. TerminalPool' = TerminalPool
        BY <2>2, <3>1, MoreHeld, Zenon DEF TerminalPool
      <3> QED
        BY <1>5, <3>2, <3>3, Zenon DEF IInv, PoolInv
    <2> QED
      BY <2>5, <2>6, <2>7, <2>8, Zenon DEF IInv
  <1> QED
    BY <1>1, <1>10, <1>11, InitFields

\* Both orders of freeing name every block once, ctx last.
LEMMA OrdersAre ==
  ASSUME NEW s \in {FreedOnFailure, FreedByDeinit}
  PROVE  /\ s \in Seq(Names) /\ Len(s) = 7 /\ s[Len(s)] = "ctx"
         /\ \A i, j \in 1 .. Len(s) : s[i] = s[j] => i = j
         /\ \A i \in 1 .. Len(s) : s[i] \in Names
         /\ \A b \in Names : \E i \in 1 .. Len(s) : s[i] = b
  <1>1. CASE s = FreedOnFailure
    <2>1. s \in Seq(Names) /\ Len(s) = 7
      BY <1>1 DEF FreedOnFailure, Names
    <2>2. /\ s[1] = "canvas" /\ s[2] = "map" /\ s[3] = "queue" /\ s[4] = "grid"
          /\ s[5] = "font_bool" /\ s[6] = "font_bits" /\ s[7] = "ctx"
      BY <1>1 DEF FreedOnFailure
    <2>3. \A i, j \in 1 .. 7 : s[i] = s[j] => i = j
      BY <2>2
    <2>4. \A i \in 1 .. 7 : s[i] \in Names
      BY <2>2 DEF Names
    <2>5. \A b \in Names : \E i \in 1 .. 7 : s[i] = b
      BY <2>2 DEF Names
    <2>6. s[Len(s)] = "ctx"
      BY <2>1, <2>2
    <2> QED
      BY <2>1, <2>3, <2>4, <2>5, <2>6
  <1>2. CASE s = FreedByDeinit
    <2>1. s \in Seq(Names) /\ Len(s) = 7
      BY <1>2 DEF FreedByDeinit, Names
    <2>2. /\ s[1] = "font_bits" /\ s[2] = "font_bool" /\ s[3] = "grid"
          /\ s[4] = "queue" /\ s[5] = "map" /\ s[6] = "canvas" /\ s[7] = "ctx"
      BY <1>2 DEF FreedByDeinit
    <2>3. \A i, j \in 1 .. 7 : s[i] = s[j] => i = j
      BY <2>2
    <2>4. \A i \in 1 .. 7 : s[i] \in Names
      BY <2>2 DEF Names
    <2>5. \A b \in Names : \E i \in 1 .. 7 : s[i] = b
      BY <2>2 DEF Names
    <2>6. s[Len(s)] = "ctx"
      BY <2>1, <2>2
    <2> QED
      BY <2>1, <2>3, <2>4, <2>5, <2>6
  <1> QED
    BY <1>1, <1>2

\* A call that begins to free owes all blocks of the fields.
LEMMA FreeingBegins ==
  ASSUME NEW fields \in [Names -> MaybeNull],
         NEW s \in {FreedOnFailure, FreedByDeinit},
         Distinct(fields), fields["ctx"] # NULL,
         call' = [op |-> "free", fields |-> fields, todo |-> s]
  PROVE  /\ call' \in Calls /\ ~Initing' /\ InOrder' /\ Outstanding'
         /\ CallHeap' = Owned(fields)
  <1>1. /\ s \in Seq(Names) /\ Len(s) = 7 /\ s[Len(s)] = "ctx"
        /\ \A i, j \in 1 .. Len(s) : s[i] = s[j] => i = j
        /\ \A i \in 1 .. Len(s) : s[i] \in Names
        /\ \A b \in Names : \E i \in 1 .. Len(s) : s[i] = b
    BY OrdersAre, Zenon
  <1>2. /\ ~Initing' /\ Freeing' /\ call'.fields = fields /\ call'.todo = s
    BY DEF Initing, Freeing
  <1>3. call' \in Calls
    BY <1>1 DEF Calls, Frees
  <1>4. InOrder' /\ Outstanding'
    <2>1. Len(s) > 0
      BY <1>1
    <2> QED
      BY <1>1, <1>2, <2>1, Zenon DEF InOrder, Outstanding
  <1>5. CallHeap' = Owned(fields)
    <2>1. CallHeap' = {fields[s[i]] : i \in 1 .. Len(s)} \ {NULL}
      BY <1>2, Zenon DEF CallHeap, ToFree
    <2>2. {fields[s[i]] : i \in 1 .. Len(s)} = {fields[b] : b \in Names}
      <3>1. \A i \in 1 .. Len(s) : fields[s[i]] \in {fields[b] : b \in Names}
        BY <1>1, Zenon
      <3>2. ASSUME NEW b \in Names
            PROVE  fields[b] \in {fields[s[i]] : i \in 1 .. Len(s)}
        <4>1. PICK i \in 1 .. Len(s) : s[i] = b
          BY <1>1, Zenon
        <4>2. fields[b] = fields[s[i]]
          BY <4>1, Zenon
        <4> QED
          BY <4>2, Zenon
      <3> QED
        BY <3>1, <3>2, Zenon
    <2> QED
      BY <2>1, <2>2, OwnedIs
  <1> QED
    BY <1>2, <1>3, <1>4, <1>5

LEMMA HeapFails ==
  ASSUME IInv, HeapExhausted
  PROVE  IInv'
  <1>1. Initing /\ ~call.pooled /\ ~Freeing /\ call \in Inits /\ ~Pooling
    <2>1. Initing /\ ~call.pooled /\ ~Freeing
      BY DEF HeapExhausted, Initing, Freeing
    <2> QED
      BY <2>1, CallKinds DEF IInv, TypeInv, Pooling
  <1>2. bumpPtr' = bumpPtr /\ heap' = heap /\ terminals' = terminals
    BY DEF HeapExhausted
  <1>3. /\ CallHeap = Owned(call.fields) /\ Distinct(call.fields)
        /\ call.fields \in [Names -> MaybeNull]
    BY <1>1, InitFields, Zenon DEF CallHeap, IInv, HeapExact
  <1>4. TerminalHeap' = TerminalHeap
    BY <1>2, Zenon DEF TerminalHeap
  <1>5. ASSUME ~Initing' PROVE PoolInv'
    <2>1. Base = bumpPtr /\ Base' = bumpPtr /\ TerminalPool' = TerminalPool /\ ~Pooling'
      BY <1>1, <1>2, <1>5, Zenon DEF Base, Pooling, TerminalPool
    <2> QED
      BY <1>2, <2>1, Zenon DEF IInv, PoolInv
  <1>6. CASE ~call.frees
    <2>1. call' = None /\ abandoned' = abandoned \cup Owned(call.fields)
      BY <1>6 DEF HeapExhausted
    <2>2. ~Initing' /\ ~Freeing'
      BY <2>1 DEF None, Initing, Freeing
    <2>3. CallHeap' = {}
      BY <2>2, Zenon DEF CallHeap
    <2>4. TypeInv'
      BY <1>2, <2>1, Zenon DEF IInv, TypeInv, Calls
    <2>5. InOrder' /\ Outstanding'
      BY <2>2, Zenon DEF InOrder, Outstanding
    <2>6. HeapExact'
      BY <1>2, <1>3, <1>4, <2>1, <2>2, <2>3, Zenon DEF IInv, HeapExact
    <2> QED
      BY <1>5, <2>2, <2>4, <2>5, <2>6, Zenon DEF IInv
  <1>7. CASE call.frees /\ call.fields["ctx"] = NULL
    <2>1. call' = [op |-> "fault"] /\ abandoned' = abandoned
      BY <1>7 DEF HeapExhausted
    <2>2. ~Initing' /\ ~Freeing'
      BY <2>1 DEF Initing, Freeing
    <2>3. CallHeap' = {}
      BY <2>2, Zenon DEF CallHeap
    <2>4. Owned(call.fields) = {}
      <3>1. Blocks[1] = "ctx" /\ call.next \in 1 .. 7
        BY <1>1, InitFields DEF Blocks
      <3>2. ~(1 < call.next)
        BY <1>1, <1>7, <3>1 DEF IInv, InOrder
      <3>3. \A i \in 1 .. 7 : ~(i < call.next)
        BY <3>1, <3>2
      <3>4. \A i \in 1 .. 7 : call.fields[Blocks[i]] = NULL
        BY <1>1, <3>3, Zenon DEF IInv, InOrder
      <3>5. \A b \in Names : call.fields[b] = NULL
        BY <3>4, BlocksAre, Zenon
      <3> QED
        BY <1>3, <3>5, OwnedIs
    <2>5. TypeInv'
      BY <1>2, <2>1, Zenon DEF IInv, TypeInv, Calls
    <2>6. InOrder' /\ Outstanding'
      BY <2>2, Zenon DEF InOrder, Outstanding
    <2>7. HeapExact'
      BY <1>2, <1>3, <1>4, <2>1, <2>2, <2>3, <2>4, Zenon DEF IInv, HeapExact
    <2> QED
      BY <1>5, <2>2, <2>5, <2>6, <2>7, Zenon DEF IInv
  <1>8. CASE call.frees /\ call.fields["ctx"] # NULL
    <2>1. /\ call' = [op |-> "free", fields |-> call.fields, todo |-> FreedOnFailure]
          /\ abandoned' = abandoned
      BY <1>8 DEF HeapExhausted
    <2>2. /\ call' \in Calls /\ ~Initing' /\ InOrder' /\ Outstanding'
          /\ CallHeap' = Owned(call.fields)
      BY <1>3, <1>8, <2>1, FreeingBegins
    <2>3. TypeInv'
      BY <1>2, <2>2, Zenon DEF IInv, TypeInv
    <2>4. HeapExact'
      BY <1>2, <1>3, <1>4, <2>1, <2>2, Zenon DEF IInv, HeapExact
    <2> QED
      BY <1>5, <2>2, <2>3, <2>4, Zenon DEF IInv
  <1> QED
    BY <1>6, <1>7, <1>8

LEMMA Deinited ==
  ASSUME IInv, NEW t \in terminals, Deinit(t)
  PROVE  IInv'
  <1>1. ~Initing /\ ~Freeing
    BY AtRest DEF Deinit
  <1>2. /\ terminals' = terminals \ {t} /\ ~t.pooled
        /\ call' = [op |-> "free", fields |-> t.fields, todo |-> FreedByDeinit]
        /\ bumpPtr' = bumpPtr /\ heap' = heap /\ abandoned' = abandoned
    BY DEF Deinit
  <1>3. /\ t.fields \in [Names -> Memory] /\ t.fields \in [Names -> MaybeNull]
        /\ t.pooled = FALSE
    BY <1>2 DEF IInv, TypeInv, Handles, MaybeNull
  <1>4. t.fields["ctx"] # NULL
    BY <1>3, NullNotMemory DEF Names
  <1>5. Distinct(t.fields)
    BY <1>2, Zenon DEF IInv, HeapExact
  <1>6. /\ call' \in Calls /\ ~Initing' /\ InOrder' /\ Outstanding'
        /\ CallHeap' = Owned(t.fields)
    BY <1>2, <1>3, <1>4, <1>5, FreeingBegins
  <1>7. TypeInv'
    BY <1>2, <1>6, Zenon DEF IInv, TypeInv
  <1>8. HeapExact'
    <2>1. CallHeap = {}
      BY <1>1, Zenon DEF CallHeap
    <2>2. BlocksOf(terminals, FALSE) = BlocksOf(terminals \ {t}, FALSE) \cup Owned(t.fields)
      <3>1. (terminals \ {t}) \cup {t} = terminals
        OBVIOUS
      <3>2. BlocksOf((terminals \ {t}) \cup {t}, FALSE) =
              BlocksOf(terminals \ {t}, FALSE) \cup Owned(t.fields)
        BY <1>3, MoreHeld, Zenon
      <3> QED
        BY <3>1, <3>2, Zenon
    <2>3. BlocksOf(terminals \ {t}, FALSE) \cap Owned(t.fields) = {}
      <3>1. \A u \in terminals \ {t} : u.pooled = FALSE => Owned(u.fields) \cap Owned(t.fields) = {}
        BY <1>2, Zenon DEF IInv, HeapExact
      <3> QED
        BY <3>1, Zenon DEF BlocksOf
    <2>4. /\ TerminalHeap = TerminalHeap' \cup Owned(t.fields)
          /\ TerminalHeap' \cap Owned(t.fields) = {}
      BY <1>2, <2>2, <2>3, Zenon DEF TerminalHeap
    <2> QED
      BY <1>2, <1>6, <2>1, <2>4, Zenon DEF IInv, HeapExact
  <1>9. PoolInv'
    <2>1. TerminalPool' = TerminalPool
      <3>1. (terminals \ {t}) \cup {t} = terminals
        OBVIOUS
      <3>2. BlocksOf((terminals \ {t}) \cup {t}, TRUE) = BlocksOf(terminals \ {t}, TRUE)
        <4>1. PICK T : T = terminals \ {t}
          OBVIOUS
        <4>2. BlocksOf(T \cup {t}, TRUE) = BlocksOf(T, TRUE)
          BY <1>3, MoreHeld
        <4> QED
          BY <4>1, <4>2, Zenon
      <3> QED
        BY <1>2, <3>1, <3>2, Zenon DEF TerminalPool
    <2>2. Base = bumpPtr /\ Base' = bumpPtr /\ ~Pooling'
      BY <1>1, <1>2, <1>6, Zenon DEF Base, Pooling
    <2> QED
      BY <1>2, <2>1, <2>2, Zenon DEF IInv, PoolInv
  <1> QED
    BY <1>6, <1>7, <1>8, <1>9, Zenon DEF IInv

LEMMA FreeRecord ==
  ASSUME call \in Frees
  PROVE  /\ call.fields \in [Names -> MaybeNull] /\ call.todo \in Seq(Names)
         /\ \A s \in Seq(Names) : /\ [call EXCEPT !.todo = s] \in Frees
                                  /\ [call EXCEPT !.todo = s].todo = s
                                  /\ [call EXCEPT !.todo = s].op = "free"
                                  /\ [call EXCEPT !.todo = s].fields = call.fields
  BY DEF Frees

LEMMA Freed ==
  ASSUME IInv, Free
  PROVE  IInv'
  <1>1. Freeing /\ ~Initing /\ call \in Frees
    <2>1. Freeing /\ ~Initing
      BY DEF Free, Initing, Freeing
    <2> QED
      BY <2>1, CallKinds DEF IInv, TypeInv
  <1>2. PICK s : s = call.todo
    OBVIOUS
  <1>3. PICK fields : fields = call.fields
    OBVIOUS
  <1>4. /\ s \in Seq(Names) /\ Len(s) > 0 /\ s[Len(s)] = "ctx"
        /\ \A i, j \in 1 .. Len(s) : s[i] = s[j] => i = j
        /\ Distinct(fields) /\ fields["ctx"] # NULL
        /\ fields \in [Names -> MaybeNull]
    BY <1>1, <1>2, <1>3, FreeRecord, Zenon DEF IInv, Outstanding
  <1>5. PICK b : b = fields[s[1]]
    OBVIOUS
  <1>6. /\ heap' = heap \ {b} /\ bumpPtr' = bumpPtr /\ terminals' = terminals
        /\ abandoned' = abandoned
    <2>1. Head(call.todo) = s[1]
      BY <1>2, <1>4
    <2> QED
      BY <1>3, <1>5, <2>1, Zenon DEF Free
  <1>7. CallHeap = {fields[s[i]] : i \in 1 .. Len(s)} \ {NULL}
    BY <1>1, <1>2, <1>3, Zenon DEF CallHeap, ToFree
  <1>8. PICK k : k = Len(s)
    OBVIOUS
  <1>9. k \in Nat \ {0} /\ \A i \in 1 .. k : s[i] \in Names
    BY <1>4, <1>8
  <1>10. \A i \in 1 .. k : i # 1 /\ fields[s[i]] = b => b = NULL
    <2> SUFFICES ASSUME NEW i \in 1 .. k, i # 1, fields[s[i]] = b, b # NULL
                 PROVE  FALSE
      OBVIOUS
    <2>1. 1 \in 1 .. k
      BY <1>9
    <2>2. s[i] = s[1]
      BY <1>4, <1>5, <1>9, <2>1, Zenon DEF Distinct
    <2> QED
      BY <1>4, <1>8, <2>1, <2>2, Zenon
  <1>11. /\ call' \in Calls /\ ~Initing' /\ Outstanding'
         /\ CallHeap' = CallHeap \ {b}
    <2>1. CASE k = 1
      <3>1. call' = None
        BY <1>2, <1>8, <2>1 DEF Free
      <3>2. ~Initing' /\ ~Freeing'
        BY <3>1 DEF None, Initing, Freeing
      <3>3. CallHeap' = {}
        BY <3>2, Zenon DEF CallHeap
      <3>4. CallHeap \subseteq {b}
        <4>1. 1 .. k = {1}
          BY <2>1
        <4> QED
          BY <1>5, <1>7, <1>8, <4>1, Zenon
      <3> QED
        BY <3>1, <3>2, <3>3, <3>4, Zenon DEF Calls, Outstanding
    <2>2. CASE k # 1
      <3>1. PICK r : r = Tail(s)
        OBVIOUS
      <3>2. r \in Seq(Names) /\ Len(r) = k - 1 /\ \A i \in 1 .. k - 1 : r[i] = s[i + 1]
        BY <1>4, <1>8, <3>1
      <3>3. call' = [call EXCEPT !.todo = r]
        BY <1>2, <1>8, <2>2, <3>1, Zenon DEF Free
      <3>4. /\ call' \in Frees /\ call'.todo = r /\ call'.op = "free"
            /\ call'.fields = fields
        BY <1>1, <1>3, <3>2, <3>3, FreeRecord
      <3>5. ~Initing' /\ Freeing'
        BY <3>4 DEF Initing, Freeing
      <3>6. Len(r) > 0 /\ k - 1 \in 1 .. k - 1 /\ k - 1 + 1 = k
        BY <1>9, <2>2, <3>2
      <3>7. r[Len(r)] = "ctx"
        BY <1>4, <1>8, <3>2, <3>6, Zenon
      <3>8. \A i \in 1 .. k - 1 : i + 1 \in 1 .. k /\ i + 1 # 1
        BY <1>9
      <3>9. \A i, j \in 1 .. Len(r) : r[i] = r[j] => i = j
        <4>1. \A i, j \in 1 .. k - 1 : i + 1 = j + 1 => i = j
          BY <1>9
        <4>2. Len(r) = k - 1
          BY <3>2
        <4>3. \A i, j \in 1 .. k - 1 : r[i] = r[j] => i + 1 = j + 1
          <5> TAKE i, j \in 1 .. k - 1
          <5> HAVE r[i] = r[j]
          <5>1. s[i + 1] = s[j + 1]
            BY <3>2
          <5>2. i + 1 \in 1 .. Len(s) /\ j + 1 \in 1 .. Len(s)
            BY <1>8, <3>8
          <5> QED
            BY <1>4, <5>1, <5>2, Zenon
        <4> QED
          BY <4>1, <4>2, <4>3, Zenon
      <3>10. Outstanding'
        BY <1>4, <3>4, <3>6, <3>7, <3>9, Zenon DEF Outstanding
      <3>11. CallHeap' = {fields[r[i]] : i \in 1 .. k - 1} \ {NULL}
        BY <3>2, <3>4, <3>5, Zenon DEF CallHeap, ToFree
      <3>12. {fields[s[i]] : i \in 1 .. k} = {fields[r[i]] : i \in 1 .. k - 1} \cup {b}
        <4>1. \A i \in 1 .. k : i = 1 \/ \E j \in 1 .. k - 1 : i = j + 1
          <5> TAKE i \in 1 .. k
          <5>1. i = 1 \/ (i - 1 \in 1 .. k - 1 /\ i = (i - 1) + 1)
            BY <1>9
          <5> QED
            BY <5>1, Zenon
        <4>2. 1 \in 1 .. k
          BY <1>9
        <4>3. \A i \in 1 .. k : fields[s[i]] \in {fields[r[j]] : j \in 1 .. k - 1} \cup {b}
          BY <1>5, <3>2, <4>1, Zenon
        <4>4. \A j \in 1 .. k - 1 : fields[r[j]] \in {fields[s[i]] : i \in 1 .. k}
          BY <3>2, <3>8, Zenon
        <4> QED
          BY <1>5, <4>2, <4>3, <4>4, Zenon
      <3>13. b \notin {fields[r[i]] : i \in 1 .. k - 1} \ {NULL}
        <4> SUFFICES ASSUME NEW i \in 1 .. k - 1, b = fields[r[i]], b # NULL
                     PROVE  FALSE
          BY Zenon
        <4>1. i + 1 \in 1 .. k /\ i + 1 # 1 /\ r[i] = s[i + 1]
          BY <3>2, <3>8
        <4> QED
          BY <1>10, <4>1
      <3> QED
        BY <1>7, <1>8, <3>4, <3>5, <3>10, <3>11, <3>12, <3>13, Zenon DEF Calls
    <2> QED
      BY <2>1, <2>2
  <1>12. TypeInv'
    <2>1. IsFiniteSet(heap')
      BY <1>6, FS_RemoveElement DEF IInv, TypeInv
    <2> QED
      BY <1>6, <1>11, <2>1, Zenon DEF IInv, TypeInv
  <1>13. HeapExact'
    <2>1. TerminalHeap' = TerminalHeap
      BY <1>6, Zenon DEF TerminalHeap
    <2>2. b = NULL \/ b \in CallHeap
      <3>1. 1 \in 1 .. k
        BY <1>9
      <3> QED
        BY <1>5, <1>7, <1>8, <3>1, Zenon
    <2>3. NULL \notin heap
      BY NullNotMemory, Zenon DEF IInv, TypeInv
    <2>4. b \notin abandoned \cup TerminalHeap
      BY <2>2, <2>3, Zenon DEF IInv, HeapExact
    <2> QED
      BY <1>6, <1>11, <2>1, <2>4, Zenon DEF IInv, HeapExact
  <1>14. PoolInv'
    <2>1. Base = bumpPtr /\ Base' = bumpPtr /\ TerminalPool' = TerminalPool /\ ~Pooling'
      BY <1>1, <1>6, <1>11, Zenon DEF Base, Pooling, TerminalPool
    <2> QED
      BY <1>6, <2>1, Zenon DEF IInv, PoolInv
  <1> QED
    BY <1>11, <1>12, <1>13, <1>14, Zenon DEF IInv, InOrder

LEMMA Initially == Init => IInv
  <1> SUFFICES ASSUME Init PROVE IInv
    OBVIOUS
  <1>1. ~Initing /\ ~Freeing /\ call = None
    BY AtRest DEF Init
  <1>2. bumpPtr = 0 /\ heap = {} /\ terminals = {} /\ abandoned = {}
    BY DEF Init
  <1>3. TypeInv
    <2>1. IsFiniteSet({})
      BY FS_EmptySet
    <2>2. 0 \in Nat
      OBVIOUS
    <2> QED
      BY <1>1, <1>2, <2>1, <2>2, Zenon DEF TypeInv, Calls
  <1>4. InOrder /\ Outstanding
    BY <1>1 DEF InOrder, Outstanding
  <1>5. CallHeap = {} /\ TerminalHeap = {} /\ TerminalPool = {}
    BY <1>1, <1>2, Zenon DEF CallHeap, TerminalHeap, TerminalPool, BlocksOf
  <1>6. HeapExact
    BY <1>1, <1>2, <1>5, Zenon DEF HeapExact
  <1>7. PoolInv
    <2>1. Base = 0 /\ ~Pooling
      BY <1>1, <1>2, Zenon DEF Base, Pooling
    <2>2. Tiles({}, 0, 0)
      BY TileNone
    <2>3. 0 <= PoolSize
      BY SizesAssumption
    <2> QED
      BY <1>2, <1>5, <2>1, <2>2, <2>3, Zenon DEF PoolInv
  <1> QED
    BY <1>3, <1>4, <1>6, <1>7 DEF IInv

LEMMA Inductive == IInv /\ [Next]_vars => IInv'
  <1> SUFFICES ASSUME IInv, [Next]_vars PROVE IInv'
    OBVIOUS
  <1>1. CASE UNCHANGED vars
    <2> USE <1>1 DEF vars
    <2>1. /\ Initing' = Initing /\ Freeing' = Freeing /\ CallHeap' = CallHeap
          /\ TerminalHeap' = TerminalHeap /\ TerminalPool' = TerminalPool
          /\ Pooling' = Pooling /\ Base' = Base
      BY Zenon DEF Initing, Freeing, CallHeap, ToFree, TerminalHeap, TerminalPool,
         Pooling, Base
    <2>2. TypeInv' /\ InOrder' /\ Outstanding'
      BY <2>1, Zenon DEF IInv, TypeInv, InOrder, Outstanding
    <2>3. HeapExact' /\ PoolInv'
      BY <2>1, Zenon DEF IInv, HeapExact, PoolInv
    <2> QED
      BY <2>2, <2>3, Zenon DEF IInv
  <1>2. CASE Next
    BY <1>2, Started, FromPool, PoolFails, FromHeap, HeapFails, Deinited, Freed, Zenon
    DEF Next
  <1> QED
    BY <1>1, <1>2

LEMMA Implied == IInv => FreesExact /\ NothingLeaked /\ PoolExact
  <1> SUFFICES ASSUME IInv PROVE FreesExact /\ NothingLeaked /\ PoolExact
    OBVIOUS
  <1>1. FreesExact
    <2> SUFFICES ASSUME Freeing
                 PROVE  /\ call.fields["ctx"] \in heap
                        /\ call.fields[Head(call.todo)] \in heap \cup {NULL}
      BY Zenon DEF FreesExact, Freeing
    <2>1. call \in Frees /\ ~Initing
      BY CallKinds DEF IInv, TypeInv, Initing, Freeing
    <2>2. PICK s : s = call.todo
      OBVIOUS
    <2>3. /\ s \in Seq(Names) /\ Len(s) > 0 /\ s[Len(s)] = "ctx"
          /\ call.fields["ctx"] # NULL
      BY <2>1, <2>2, FreeRecord, Zenon DEF IInv, Outstanding
    <2>4. 1 \in 1 .. Len(s) /\ Len(s) \in 1 .. Len(s) /\ Head(s) = s[1]
      BY <2>3
    <2>5. CallHeap = {call.fields[s[i]] : i \in 1 .. Len(s)} \ {NULL}
      BY <2>1, <2>2, Zenon DEF CallHeap, ToFree
    <2>6. CallHeap \subseteq heap
      BY Zenon DEF IInv, HeapExact
    <2>7. call.fields["ctx"] \in CallHeap
      BY <2>3, <2>4, <2>5, Zenon
    <2>8. call.fields[Head(s)] \in CallHeap \cup {NULL}
      BY <2>4, <2>5, Zenon
    <2> QED
      BY <2>2, <2>6, <2>7, <2>8, Zenon
  <1>2. CASE call = None
    <2>1. ~Initing /\ ~Freeing
      BY <1>2, AtRest
    <2>2. /\ TerminalHeap = UNION {Owned(t.fields) : t \in InUse(FALSE)}
          /\ TerminalPool = UNION {Owned(t.fields) : t \in InUse(TRUE)}
      BY Zenon DEF TerminalHeap, TerminalPool, BlocksOf, InUse
    <2>3. NothingLeaked
      <3>1. CallHeap = {}
        BY <2>1, Zenon DEF CallHeap
      <3>2. heap \ abandoned = TerminalHeap
        BY <3>1, Zenon DEF IInv, HeapExact
      <3> QED
        BY <2>2, <3>2, Zenon DEF NothingLeaked
    <2>4. PoolExact
      <3>1. Base = bumpPtr
        BY <2>1, Zenon DEF Base, Pooling
      <3> QED
        BY <2>2, <3>1, Zenon DEF IInv, PoolInv, Tiles, PoolExact
    <2> QED
      BY <1>1, <2>3, <2>4
  <1>3. CASE call # None
    BY <1>1, <1>3 DEF NothingLeaked, PoolExact
  <1> QED
    BY <1>2, <1>3
-----------------------------------------------------------------------------
LEMMA Always == Spec => []IInv
  BY Initially, Inductive, PTL DEF Spec

\* Whichever allocation of flanterm_fb_init after the first fails, the label fail
\* and flanterm_fb_deinit free only blocks that are in use, and read them from a
\* context that is.  If the first fails, the label reads through NULL and the
\* behaviour ends in op "fault", before anything is freed.
THEOREM FreesCorrect == Spec => []FreesExact
  BY Always, Implied, PTL

\* Between calls of flanterm_fb_init and flanterm_fb_deinit nothing is allocated
\* but the blocks of the terminals handed out, and what a call without _free lost.
THEOREM LeaksCorrect == Spec => []NothingLeaked
  BY Always, Implied, PTL

\* Between calls the pool of bump_alloc holds the blocks of the terminals handed
\* out, end to end, and nothing else.
THEOREM PoolCorrect == Spec => []PoolExact
  BY Always, Implied, PTL
=============================================================================
