-------------------------------- MODULE FbInit --------------------------------
(***************************************************************************)
(* Making and unmaking a terminal: bump_alloc, flanterm_fb_init and        *)
(* flanterm_fb_deinit of src/kernel/flanterm/backends/fb.c.                *)
(*                                                                         *)
(* A terminal is seven blocks of memory, allocated one after the other by  *)
(* the caller's allocator or, when it gives none, as the kernel does, from *)
(* a static pool.  Every allocation may fail, and what was allocated has   *)
(* to be given back.  What the blocks are filled with is left to           *)
(* FlantermFb.                                                             *)
(*                                                                         *)
(* A block is [at, size]: an offset in the pool, or a name the caller's    *)
(* allocator may use again once the block is freed.                        *)
(***************************************************************************)
EXTENDS Integers, SequencesExt

CONSTANTS
  Framebuffers,     \* bound: [width, height, margin] in pixels
  GlyphWidth,       \* glyph_width, glyph_height
  GlyphHeight,
  FixedSize,        \* bytes of the blocks "ctx", "font_bits", "font_bool"
  CellSize,         \* bytes per cell of the blocks "grid", "queue", "map"
  PoolSize,         \* FLANTERM_FB_BUMP_ALLOC_POOL_SIZE
  MaxTerminals      \* bound: terminals at one time

ASSUME PixelsAssumption ==
  /\ GlyphWidth \in Nat \ {0} /\ GlyphHeight \in Nat \ {0}
  /\ \A f \in Framebuffers :
       /\ f.width \in Nat /\ f.height \in Nat /\ f.margin \in Nat
       /\ 2 * f.margin <= f.width /\ 2 * f.margin <= f.height
ASSUME SizesAssumption ==
  /\ FixedSize \in [{"ctx", "font_bits", "font_bool"} -> Nat \ {0}]
  /\ CellSize \in [{"grid", "queue", "map"} -> Nat \ {0}]
  /\ PoolSize \in Nat /\ MaxTerminals \in Nat

\* In the order of allocation.
Blocks == <<"ctx", "font_bits", "font_bool", "grid", "queue", "map", "canvas">>

VARIABLES
  bumpPtr,      \* bump_alloc_ptr
  heap,         \* blocks of the caller's allocator in use
  terminals,    \* terminals handed out: [fields, framebuffer, pooled]
  call,         \* the call that runs, [op |-> "none"] if none does
  abandoned     \* history: blocks a caller without _free has lost

vars == <<bumpPtr, heap, terminals, call, abandoned>>

None == [op |-> "none"]
NULL == [at |-> -1, size |-> 0]

\* The memset of a new context.
Fresh == [b \in Range(Blocks) |-> NULL]

-----------------------------------------------------------------------------
(* Sizes.                                                                   *)

ColsOf(f) == (f.width - 2 * f.margin) \div GlyphWidth
RowsOf(f) == (f.height - 2 * f.margin) \div GlyphHeight

Size(b, f) ==
  IF b \in DOMAIN FixedSize THEN FixedSize[b]
  ELSE IF b \in DOMAIN CellSize THEN RowsOf(f) * ColsOf(f) * CellSize[b]
  ELSE f.width * f.height * 4

-----------------------------------------------------------------------------
(* flanterm_fb_init.                                                        *)

Init ==
  /\ bumpPtr = 0 /\ heap = {} /\ terminals = {}
  /\ call = None /\ abandoned = {}

\* The caller gives both functions, or only _malloc, or none.  Bound: blocks
\* are lost by one call.
StartInit(f, pooled, frees) ==
  /\ call = None
  /\ Cardinality(terminals) < MaxTerminals
  /\ pooled => ~frees
  /\ pooled \/ frees \/ abandoned = {}
  /\ call' = [op |-> "init", framebuffer |-> f, pooled |-> pooled,
              frees |-> frees, orig_bump_alloc_ptr |-> bumpPtr,
              fields |-> Fresh, next |-> 1]
  /\ UNCHANGED <<bumpPtr, heap, terminals, abandoned>>

Wanted == Blocks[call.next]
WantedSize == Size(Wanted, call.framebuffer)

Handed == [fields |-> call.fields, framebuffer |-> call.framebuffer,
           pooled |-> call.pooled]

\* A block was allocated: its field is set, and after the last one the
\* terminal is handed out.
Got(block) ==
  LET now == [call EXCEPT !.fields[Wanted] = block, !.next = @ + 1]
  IN  IF call.next = Len(Blocks)
        THEN /\ call' = None
             /\ terminals' = terminals \cup
                  {[Handed EXCEPT !.fields = now.fields]}
        ELSE call' = now /\ UNCHANGED terminals

\* bump_alloc; the pool is never used again from below bump_alloc_ptr.
AllocateFromPool ==
  /\ call.op = "init" /\ call.pooled
  /\ bumpPtr + WantedSize <= PoolSize
  /\ bumpPtr' = bumpPtr + WantedSize
  /\ Got([at |-> bumpPtr, size |-> WantedSize])
  /\ UNCHANGED <<heap, abandoned>>

\* Seeded fault: the pool keeps what a failed call took from it.
PoolExhausted_KeepsPtr ==
  /\ call.op = "init" /\ call.pooled
  /\ bumpPtr + WantedSize > PoolSize
  /\ call' = None
  /\ UNCHANGED <<bumpPtr, heap, terminals, abandoned>>

\* The label fail, with bump_alloc.
PoolExhausted ==
  /\ call.op = "init" /\ call.pooled
  /\ bumpPtr + WantedSize > PoolSize
  /\ bumpPtr' = call.orig_bump_alloc_ptr
  /\ call' = None
  /\ UNCHANGED <<heap, terminals, abandoned>>

NewName == CHOOSE n \in 0 .. Cardinality(heap) : \A b \in heap : b.at # n

AllocateFromHeap ==
  /\ call.op = "init" /\ ~call.pooled
  /\ heap' = heap \cup {[at |-> NewName, size |-> WantedSize]}
  /\ Got([at |-> NewName, size |-> WantedSize])
  /\ UNCHANGED <<bumpPtr, abandoned>>

\* Seeded fault: the map is forgotten.
FreedOnFailure_NoMap == <<"canvas", "queue", "grid", "font_bool", "font_bits", "ctx">>

\* The order of the label fail.
FreedOnFailure == <<"canvas", "map", "queue", "grid", "font_bool", "font_bits", "ctx">>

Owned(fields) == {fields[b] : b \in Range(Blocks)} \ {NULL}

\* The label fail, with the caller's functions.  Without _free everything is
\* lost.  Without a context, ctx->canvas is read through a NULL pointer.
HeapExhausted ==
  /\ call.op = "init" /\ ~call.pooled
  /\ IF ~call.frees
       THEN /\ abandoned' = abandoned \cup Owned(call.fields)
            /\ call' = None
     ELSE /\ UNCHANGED abandoned
          /\ call' = IF call.fields["ctx"] = NULL THEN [op |-> "fault"]
                     ELSE [op |-> "free", fields |-> call.fields,
                           todo |-> FreedOnFailure]
  /\ UNCHANGED <<bumpPtr, heap, terminals>>

-----------------------------------------------------------------------------
(* flanterm_fb_deinit.                                                      *)

\* Seeded fault: the context is freed first.
FreedByDeinit_CtxFirst ==
  <<"ctx", "font_bits", "font_bool", "grid", "queue", "map", "canvas">>

FreedByDeinit == <<"font_bits", "font_bool", "grid", "queue", "map", "canvas", "ctx">>

\* A terminal of the pool is deinitialised with a _free of NULL, which does
\* nothing; the others with the _free that belongs to their _malloc.
Deinit(t) ==
  /\ call = None
  /\ ~t.pooled
  /\ terminals' = terminals \ {t}
  /\ call' = [op |-> "free", fields |-> t.fields, todo |-> FreedByDeinit]
  /\ UNCHANGED <<bumpPtr, heap, abandoned>>

\* _free of the next block, here and at the label fail, if it was allocated.
Free ==
  /\ call.op = "free"
  /\ heap' = heap \ {call.fields[Head(call.todo)]}
  /\ call' = IF Len(call.todo) = 1 THEN None
             ELSE [call EXCEPT !.todo = Tail(@)]
  /\ UNCHANGED <<bumpPtr, terminals, abandoned>>

Next ==
  \/ \E f \in Framebuffers, pooled, frees \in BOOLEAN : StartInit(f, pooled, frees)
  \/ AllocateFromPool \/ PoolExhausted
  \/ AllocateFromHeap \/ HeapExhausted
  \/ \E t \in terminals : Deinit(t)
  \/ Free

Spec == Init /\ [][Next]_vars
-----------------------------------------------------------------------------
InUse(pooled) == {t \in terminals : t.pooled = pooled}

\* A call that frees gives back a block that is in use, and reads its address
\* from a context that is: nothing is freed twice, or read after it was freed,
\* whichever of the six allocations after the context's failed.  When the
\* context's own fails, the label fail reads ctx->canvas through NULL (fb.c:1099)
\* before it frees anything: that behaviour ends in op "fault", and the property
\* says nothing of it.
FreesExact ==
  call.op = "free" =>
    /\ call.fields["ctx"] \in heap
    /\ call.fields[Head(call.todo)] \in heap \cup {NULL}

\* Between calls the caller's allocator holds exactly the blocks of the
\* terminals handed out: a call that failed half way leaves nothing behind,
\* unless there was no _free to give it back with.
NothingLeaked ==
  call = None =>
    heap \ abandoned = UNION {Owned(t.fields) : t \in InUse(FALSE)}

\* Between calls the pool is filled up to bump_alloc_ptr by the blocks of the
\* terminals handed out, end to end: a call that failed has given back what it
\* took, and no two blocks overlap.
Bytes(block) == block.at .. block.at + block.size - 1
PoolExact ==
  call = None =>
    LET blocks == UNION {Owned(t.fields) : t \in InUse(TRUE)}
    IN  /\ UNION {Bytes(b) : b \in blocks} = 0 .. bumpPtr - 1
        /\ \A b, c \in blocks : b # c => Bytes(b) \cap Bytes(c) = {}
        /\ bumpPtr <= PoolSize
==============================================================================
