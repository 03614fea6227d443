--------------------------------- MODULE Pmm ---------------------------------
(***************************************************************************)
(* The free-list page allocator of src/kernel/mm/pmm.c.                    *)
(*                                                                         *)
(* Addresses are page frame numbers: every address the code computes is a  *)
(* multiple of PAGE_SIZE, because the boot loader aligns usable entries.   *)
(* The array free_regions and its count num_free_regions are one sequence, *)
(* so that C's free_regions[i] is free_regions[i + 1] here.                *)
(*                                                                         *)
(* Clients stand for the callers: each owns at most one block, and returns *)
(* the block it was given with the size it asked for.                      *)
(***************************************************************************)
EXTENDS Integers, FiniteSets, SequencesExt

CONSTANTS
  Memmaps,          \* the memory maps the boot loader may hand over
  MaxFreeRegions,   \* MAX_FREE_REGIONS, 256 in the code
  Clients,          \* callers of allocate and deallocate
  RequestSizes,     \* the sizes they ask for, in pages
  FrameLimit        \* bound: frames are numbered below it, and no block is
                    \* handed out past it (a corrupt region could run there)

Regions == [start : Nat, num : Nat]
NoBlock == [start |-> 0, num |-> 0]
Entries == [usable : BOOLEAN, base : Nat, length : Nat]

End(r)  == r.start + r.num
Span(r) == r.start .. (End(r) - 1)

\* Two runs of frames have no frame in common.
Apart(r, q) ==
  r.num = 0 \/ q.num = 0 \/ End(r) <= q.start \/ End(q) <= r.start

RegionOf(e) == [start |-> e.base, num |-> e.length]

ASSUME LimitAssumption == FrameLimit \in Nat

\* What the boot loader guarantees: usable entries lie in memory and do not
\* overlap.
ASSUME MemmapAssumption ==
  \A m \in Memmaps :
    /\ m \in Seq(Entries)
    /\ \A i \in DOMAIN m : m[i].usable => End(RegionOf(m[i])) <= FrameLimit
    /\ \A i, j \in DOMAIN m :
         i # j /\ m[i].usable /\ m[j].usable
           => Apart(RegionOf(m[i]), RegionOf(m[j]))

ASSUME CapacityAssumption == MaxFreeRegions \in Nat \ {0}

\* Nobody asks for zero pages: allocate(0) would return a frame it keeps.
ASSUME RequestAssumption == RequestSizes \subseteq Nat \ {0}

\* There are finitely many callers.
ASSUME ClientsAssumption == IsFiniteSet(Clients)

VARIABLES
  memmap,         \* the boot loader's map, constant after Init
  next,           \* i of FreelistPMMInit: the entry looked at next
  free_regions,   \* free_regions[0 .. num_free_regions - 1]
  held,           \* held[c]: the block client c owns, or NoBlock
  status,         \* "init", "running", "halted", or "overrun": past the array
  misjoined       \* history: a forward merge grew a region not ending there

vars == <<memmap, next, free_regions, held, status, misjoined>>

-----------------------------------------------------------------------------
Init ==
  /\ memmap \in Memmaps
  /\ next = 1
  /\ free_regions = <<>>
  /\ held = [c \in Clients |-> NoBlock]
  /\ status = "init"
  /\ misjoined = FALSE

\* Seeded fault: no capacity check.
AddFreeRegion_Unchecked(r) ==
  /\ free_regions' = Append(free_regions, r)
  /\ next' = next + 1
  /\ UNCHANGED status

\* add_free_region: append, or print and halt when the array is full.
AddFreeRegion(r) ==
  IF Len(free_regions) >= MaxFreeRegions
    THEN status' = "halted" /\ UNCHANGED <<next, free_regions>>
    ELSE /\ free_regions' = Append(free_regions, r)
         /\ next' = next + 1
         /\ UNCHANGED status

\* One turn of the loop of FreelistPMMInit.
InitEntry ==
  /\ status = "init" /\ next <= Len(memmap)
  /\ IF memmap[next].usable
       THEN AddFreeRegion(RegionOf(memmap[next]))
       ELSE next' = next + 1 /\ UNCHANGED <<free_regions, status>>
  /\ UNCHANGED <<memmap, held, misjoined>>

FinishInit ==
  /\ status = "init" /\ next > Len(memmap)
  /\ status' = "running"
  /\ UNCHANGED <<memmap, next, free_regions, held, misjoined>>

-----------------------------------------------------------------------------
Fits(n) == {i \in DOMAIN free_regions : free_regions[i].num >= n}

\* Seeded fault: the region's start is not moved past the block.
Allocate_StartNotMoved(c, n) ==
  /\ status = "running" /\ held[c] = NoBlock
  /\ \E i \in Fits(n) :
       /\ \A j \in Fits(n) : i <= j
       /\ held' = [held EXCEPT ![c] =
                     [start |-> free_regions[i].start, num |-> n]]
       /\ free_regions' = [free_regions EXCEPT ![i].num = @ - n]
  /\ UNCHANGED <<memmap, next, status, misjoined>>

\* Seeded fault: a region used up is dropped from the list.
Allocate_DropsEmpty(c, n) ==
  /\ status = "running" /\ held[c] = NoBlock
  /\ \E i \in Fits(n) :
       /\ \A j \in Fits(n) : i <= j
       /\ held' = [held EXCEPT ![c] =
                     [start |-> free_regions[i].start, num |-> n]]
       /\ free_regions' =
            IF free_regions[i].num = n THEN RemoveAt(free_regions, i)
            ELSE [free_regions EXCEPT ![i] =
                    [start |-> @.start + n, num |-> @.num - n]]
  /\ UNCHANGED <<memmap, next, status, misjoined>>

\* allocate: the first region that is large enough gives up its front.  The
\* region stays in the list even when nothing of it is left.
Allocate(c, n) ==
  /\ status = "running" /\ held[c] = NoBlock
  /\ \E i \in Fits(n) :
       /\ \A j \in Fits(n) : i <= j
       /\ free_regions[i].start + n <= FrameLimit
       /\ held' = [held EXCEPT ![c] =
                     [start |-> free_regions[i].start, num |-> n]]
       /\ free_regions' = [free_regions EXCEPT ![i] =
                             [start |-> @.start + n, num |-> @.num - n]]
  /\ UNCHANGED <<memmap, next, status, misjoined>>

\* allocate with no region large enough prints and halts; it never returns.
AllocateHalts(c, n) ==
  /\ status = "running" /\ held[c] = NoBlock
  /\ Fits(n) = {}
  /\ status' = "halted"
  /\ UNCHANGED <<memmap, next, free_regions, held, misjoined>>

-----------------------------------------------------------------------------
\* The loop at the top of deallocate: the last region of the longest prefix of
\* regions starting below addr, or the first position when there is none.
\* (below is such a prefix: its size is its last position.)
RegionIndex(addr) ==
  LET below == {i \in DOMAIN free_regions :
                  \A j \in 1 .. i : addr > free_regions[j].start}
  IN  IF below = {} THEN 1 ELSE Cardinality(below)

\* The condition of the first branch: the block starts where the region before
\* the found one ends.
MergesBack(k, b) == k > 1 /\ b.start = End(free_regions[k - 1])

\* The condition of the second branch: the block ends where the region after
\* the found one starts.  That the found region ends at b is not tested.
MergesForward(k, b) ==
  k < Len(free_regions) /\ End(b) = free_regions[k + 1].start

GrowPrevious(k, b) ==
  /\ free_regions' = [free_regions EXCEPT ![k - 1].num = @ + b.num]
  /\ UNCHANGED <<status, misjoined>>

\* Seeded fault: the pages of the region removed are not added.
JoinNext_LosesNext(k, b) ==
  /\ free_regions' =
       RemoveAt([free_regions EXCEPT ![k].num = @ + b.num], k + 1)
  /\ misjoined' = (misjoined \/ End(free_regions[k]) # b.start)
  /\ UNCHANGED status

\* Seeded fault: the pages of the block returned are not added.
JoinNext_LosesBlock(k, b) ==
  /\ free_regions' =
       RemoveAt([free_regions EXCEPT ![k].num = @ + free_regions[k + 1].num],
                k + 1)
  /\ misjoined' = (misjoined \/ End(free_regions[k]) # b.start)
  /\ UNCHANGED status

JoinNext(k, b) ==
  /\ free_regions' =
       RemoveAt([free_regions EXCEPT
                   ![k].num = @ + b.num + free_regions[k + 1].num], k + 1)
  /\ misjoined' = (misjoined \/ End(free_regions[k]) # b.start)
  /\ UNCHANGED status

\* Seeded fault: the tail is not shifted, so a region is overwritten.
InsertRegion_NoShift(k, b) ==
  /\ UNCHANGED <<misjoined, status>>
  /\ free_regions' = [free_regions EXCEPT ![k] = b]

\* The third branch shifts the tail, inserts and counts.  It does not look at
\* MAX_FREE_REGIONS: with a full array it writes free_regions[256], and the
\* list is a region longer than the array.  What lies behind the array is lost
\* then, the count itself perhaps, so behaviours end in "overrun".
InsertRegion(k, b) ==
  /\ free_regions' = InsertAt(free_regions, k, b)
  /\ status' = IF Len(free_regions) < MaxFreeRegions THEN status ELSE "overrun"
  /\ UNCHANGED misjoined

Deallocate(c) ==
  /\ status = "running" /\ held[c] # NoBlock
  /\ LET b == held[c]
         k == RegionIndex(b.start)
     IN  \/ MergesBack(k, b) /\ GrowPrevious(k, b)
         \/ ~MergesBack(k, b) /\ MergesForward(k, b) /\ JoinNext(k, b)
         \/ ~MergesBack(k, b) /\ ~MergesForward(k, b) /\ InsertRegion(k, b)
  /\ held' = [held EXCEPT ![c] = NoBlock]
  /\ UNCHANGED <<memmap, next>>

Next ==
  \/ InitEntry
  \/ FinishInit
  \/ \E c \in Clients, n \in RequestSizes : Allocate(c, n)
  \/ \E c \in Clients, n \in RequestSizes : AllocateHalts(c, n)
  \/ \E c \in Clients : Deallocate(c)

Spec == Init /\ [][Next]_vars
-----------------------------------------------------------------------------
\* The list is longer than its array in "overrun" only, and by one region.
TypeOK ==
  /\ memmap \in Memmaps
  /\ next \in 1 .. Len(memmap) + 1
  /\ free_regions \in Seq(Regions)
  /\ Len(free_regions) <= MaxFreeRegions + 1
  /\ Len(free_regions) > MaxFreeRegions <=> status = "overrun"
  /\ held \in [Clients -> Regions]
  /\ status \in {"init", "running", "halted", "overrun"}
  /\ misjoined \in BOOLEAN

Registered == {i \in DOMAIN memmap : i < next /\ memmap[i].usable}

RegisteredPages == UNION {Span(RegionOf(memmap[i])) : i \in Registered}
FreePages       == UNION {Span(free_regions[i]) : i \in DOMAIN free_regions}
HeldPages       == UNION {Span(held[c]) : c \in Clients}

\* No frame has two owners: regions and blocks are pairwise disjoint.
Exclusive ==
  /\ \A i, j \in DOMAIN free_regions :
       i # j => Apart(free_regions[i], free_regions[j])
  /\ \A i \in DOMAIN free_regions, c \in Clients :
       Apart(free_regions[i], held[c])
  /\ \A c, d \in Clients : c # d => Apart(held[c], held[d])

\* The frames that are free or held are exactly the usable ones registered.
Complete == FreePages \cup HeldPages = RegisteredPages

\* As long as no forward merge has grown the wrong region, every usable frame
\* registered so far has exactly one owner: one region of the free list or one
\* client of allocate, through every split, merge, shift and insertion.
\* "overrun" is left out: there the last region is in memory past the array.
Partition ==
  ~misjoined /\ status # "overrun" => Exclusive /\ Complete

PagesIn(blocks) == MapThenSumSet(LAMBDA x : blocks[x].num, DOMAIN blocks)

\* allocate, deallocate and their list surgery never create or lose a page in
\* total, not even after the free list went wrong (the counts still add up,
\* which is why the corruption is hard to see).
PagesConserved ==
  status # "overrun" =>
    PagesIn(free_regions) + PagesIn(held)
      = PagesIn([i \in Registered |-> RegionOf(memmap[i])])

\* deallocate computes num_free_regions - 1 in unsigned arithmetic (pmm.c:83):
\* with an empty list it would wrap and read far past the array.  While a
\* client holds a block the list is never empty.
CountNeverWraps ==
  (\E c \in Clients : held[c] # NoBlock) => Len(free_regions) > 0

\* FreelistPMMInit takes usable entries only (pmm.c:36): whatever the list
\* offers or a client owns lies in one of them.  deallocate's forward merge
\* breaks it.
OnlyUsableMemory == FreePages \cup HeldPages \subseteq RegisteredPages

\* The allocator as its callers see it: frames only.
PA == INSTANCE PageAllocator WITH
        Frames <- 0 .. FrameLimit,
        free <- FreePages, held <- [c \in Clients |-> Span(held[c])]

\* Until the list first goes wrong every step is one the abstract allocator
\* takes: a registration, the hand-out of free consecutive frames, a return.
ImplementsAllocator ==
  PA!Init /\ [][misjoined' \/ status' = "overrun" \/ PA!Next]_(PA!vars)

\* deallocate never makes a request impossible that the block it takes back
\* could serve: after it the list has a region at least as large.
FreedBlockIsReusable ==
  [][ \A c \in Clients :
        held[c] # NoBlock /\ held'[c] = NoBlock /\ status' = "running"
          => \E i \in DOMAIN free_regions' :
               free_regions'[i].num >= held[c].num ]_vars
==============================================================================
