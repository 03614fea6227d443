--------------------------------- MODULE Vmm ---------------------------------
(***************************************************************************)
(* The four-level page tables of src/kernel/mm/vmm.c: VMMInit, VMMMapPage  *)
(* and VMMUnmapPage.                                                       *)
(*                                                                         *)
(* A page is named by its number.  A virtual address is the four indices   *)
(* the code cuts out of it, v[4] for the PML4 down to v[1] for the page    *)
(* table; Indices does the cutting.  The physical allocator is the set of  *)
(* frames it may still hand out: allocate(1) returns one of them or halts. *)
(* A frame fresh from the allocator holds whatever was there before.       *)
(*                                                                         *)
(* An entry is an address and the present bit, bit 0.  The code's own walk *)
(* follows any entry that is not null; the processor's stops at one whose  *)
(* present bit is clear.  The two see different things (Recorded and       *)
(* Translated), since only the last entry of a path gets the bit.          *)
(***************************************************************************)
EXTENDS Integers

CONSTANTS
  Entries,      \* entries per table, 512 in the code
  Usable,       \* frames of the usable entries of the memory map
  Phys,         \* frames a caller may map, usable or not
  CallPages,    \* bound: the virtual pages callers use after VMMInit
  CallFrames,   \* bound: the frames callers map after VMMInit
  Offered(_),   \* the frames allocate(1) may return when a set is free
  Junk,         \* bound: what never-cleared memory may read as
  Null          \* the address in an empty entry

Idx == 0 .. (Entries - 1)
VPages == [1 .. 4 -> Idx]

\* What an entry holds: the frame its address is in, and the present bit.
Slots == [frame : Phys \cup {Null}, present : BOOLEAN]

Pow(l) == CASE l = 1 -> 1
            [] l = 2 -> Entries
            [] l = 3 -> Entries * Entries
            [] l = 4 -> Entries * Entries * Entries

\* (vaddr >> 12) & 0x1FF, (vaddr >> 21) & 0x1FF, ... of page number f.
Indices(f) == [l \in 1 .. 4 |-> (f \div Pow(l)) % Entries]

ASSUME EntriesAssumption == Entries \in Nat \ {0}
\* Frame 0 is never usable, so no table address is a null pointer; there is
\* usable memory, or nothing would have been loaded; and the machine has fewer
\* frames than the tables can tell apart.
ASSUME FramesAssumption ==
  /\ Phys \subseteq Nat
  /\ Usable \subseteq Phys \ {0} /\ Usable # {}
  /\ \A f \in Usable : f < Entries * Pow(4)
ASSUME CallsAssumption ==
  CallPages \subseteq VPages /\ CallFrames \subseteq Phys
ASSUME ContentsAssumption == Null \notin Phys /\ Junk \subseteq Slots

ASSUME OfferedAssumption ==
  \A S \in SUBSET Usable :
    Offered(S) \subseteq S /\ (S # {} => Offered(S) # {})

VARIABLES
  free,     \* frames the allocator may still hand out
  mem,      \* mem[f][i]: entry i of frame f, read as a table
  pml4,     \* the root table, or Null before VMMInit
  level,    \* history: level[f] is the level f was allocated for, 0 if none
  phase,    \* "boot", "init" (the loop of VMMInit), "ready" or "halted"
  todo,     \* frames the loop of VMMInit has yet to map
  call      \* the running VMMMapPage: its arguments and where its walk is

vars == <<free, mem, pml4, level, phase, todo, call>>

NoCall == [l |-> 0]
Calls  == [v : VPages, p : Phys, l : 1 .. 4, table : Usable]

Empty == [frame |-> Null, present |-> FALSE]
EmptyTable == [i \in Idx |-> Empty]

\* An address allocate returned, stored as it is: a multiple of PAGE_SIZE, so
\* that its lowest bits, the present bit among them, are clear.
Link(f) == [frame |-> f, present |-> FALSE]

\* paddr | 0x03: present and writable.
Leaf(p) == [frame |-> p, present |-> TRUE]

-----------------------------------------------------------------------------
Init ==
  /\ free = Usable
  /\ \E junk \in Junk :
       mem = [f \in Usable |-> [i \in Idx |-> junk]]
  /\ pml4 = Null
  /\ level = [f \in Usable |-> 0]
  /\ phase = "boot"
  /\ todo = Usable
  /\ call = NoCall

\* Seeded fault: the new table is not cleared.
NewTable_NotCleared(f, l, m) ==
  /\ free' = free \ {f}
  /\ level' = [level EXCEPT ![f] = l]
  /\ mem' = m

\* Seeded fault: the frame stays with the allocator.
NewTable_StillFree(f, l, m) ==
  /\ level' = [level EXCEPT ![f] = l]
  /\ mem' = [m EXCEPT ![f] = EmptyTable]
  /\ UNCHANGED free

\* allocate(1) for a table of level l, and the loop that clears its entries;
\* m is the memory with the pointer to it already stored.
NewTable(f, l, m) ==
  /\ free' = free \ {f}
  /\ level' = [level EXCEPT ![f] = l]
  /\ mem' = [m EXCEPT ![f] = EmptyTable]

\* Seeded fault: the failed request is tried again.
OutOfFrames_Spins ==
  /\ free = {}
  /\ UNCHANGED vars

\* allocate(1) with nothing left prints and halts.
OutOfFrames ==
  /\ free = {}
  /\ phase' = "halted"
  /\ UNCHANGED <<free, mem, pml4, level, todo, call>>

\* The first lines of VMMInit.
InitRoot ==
  /\ phase = "boot"
  /\ \E f \in Offered(free) :
       /\ pml4' = f
       /\ NewTable(f, 4, mem)
  /\ phase' = "init"
  /\ UNCHANGED <<todo, call>>

Enter(v, p) ==
  /\ call = NoCall
  /\ call' = [v |-> v, p |-> p, l |-> 4, table |-> pml4]

\* Seeded fault: every second page only.
InitCall_Stride ==
  /\ phase = "init"
  /\ \E f \in todo :
       /\ \A g \in todo : f <= g
       /\ Enter(Indices(f), f)
       /\ todo' = todo \ {f, f + 1}
  /\ UNCHANGED <<free, mem, pml4, level, phase>>

\* Seeded fault: the loop does not advance.
InitCall_NoAdvance ==
  /\ phase = "init"
  /\ \E f \in todo :
       /\ \A g \in todo : f <= g
       /\ Enter(Indices(f), f)
  /\ UNCHANGED <<free, mem, pml4, level, phase, todo>>

\* VMMInit's loop: map the next usable page to itself.
InitCall ==
  /\ phase = "init"
  /\ \E f \in todo :
       /\ \A g \in todo : f <= g
       /\ Enter(Indices(f), f)
       /\ todo' = todo \ {f}
  /\ UNCHANGED <<free, mem, pml4, level, phase>>

InitDone ==
  /\ phase = "init" /\ todo = {} /\ call = NoCall
  /\ phase' = "ready"
  /\ UNCHANGED <<free, mem, pml4, level, todo, call>>

\* A later caller of VMMMapPage.
MapCall(v, p) ==
  /\ phase = "ready"
  /\ Enter(v, p)
  /\ UNCHANGED <<free, mem, pml4, level, phase, todo>>

Running == call # NoCall /\ phase \in {"init", "ready"}

\* The pointer the walk meets; whether it is present is not looked at.
Here == mem[call.table][call.v[call.l]].frame

\* Seeded fault: the entry of the wrong index is written.
Point_WrongIndex(e) == [mem EXCEPT ![call.table][call.v[4]] = e]

\* The entry where the walk stands is written.
Point(e) == [mem EXCEPT ![call.table][call.v[call.l]] = e]

\* Seeded fault: one level too far down.
Descend_OffByOne ==
  /\ Running /\ call.l >= 1
  /\ \/ /\ Here # Null
        /\ call' = [call EXCEPT !.l = @ - 1, !.table = Here]
        /\ UNCHANGED <<free, mem, pml4, level, phase, todo>>
     \/ Here = Null /\ OutOfFrames
     \/ /\ Here = Null
        /\ \E f \in Offered(free) :
             /\ NewTable(f, call.l - 1, Point(Link(f)))
             /\ call' = [call EXCEPT !.l = @ - 1, !.table = f]
        /\ UNCHANGED <<pml4, phase, todo>>

\* The three if blocks of VMMMapPage: one level down, through the entry there
\* is or through a new table.
Descend ==
  /\ Running /\ call.l > 1
  /\ \/ /\ Here # Null
        /\ call' = [call EXCEPT !.l = @ - 1, !.table = Here]
        /\ UNCHANGED <<free, mem, pml4, level, phase, todo>>
     \/ Here = Null /\ OutOfFrames
     \/ /\ Here = Null
        /\ \E f \in Offered(free) :
             /\ NewTable(f, call.l - 1, Point(Link(f)))
             /\ call' = [call EXCEPT !.l = @ - 1, !.table = f]
        /\ UNCHANGED <<pml4, phase, todo>>

\* The last line of VMMMapPage: whatever was mapped there is replaced.  The
\* bits ored in make the entry present, and non-null even for frame 0.
StoreLeaf ==
  /\ Running /\ call.l = 1
  /\ mem' = Point(Leaf(call.p))
  /\ call' = NoCall
  /\ UNCHANGED <<free, pml4, level, phase, todo>>

-----------------------------------------------------------------------------
\* One step of the code's walk: it follows what is not null.
Child(t, i) == IF t = Null THEN Null ELSE mem[t][i].frame

\* The table of level l on the way to v, Null where the walk returns early.
TableFor(v) == Child(Child(Child(pml4, v[4]), v[3]), v[2])

\* One step of the processor's walk: it follows what is present.
Follow(t, i) ==
  IF t # Null /\ mem[t][i].present THEN mem[t][i].frame ELSE Null

\* What VMMMapPage has recorded for v: its own walk leads to the table, and
\* the entry there, unlike those above it, is written to be read as present.
Recorded(v) == Follow(TableFor(v), v[1])

\* Where v leads with these tables in CR3.
Translated(v) == Follow(Follow(Follow(Follow(pml4, v[4]), v[3]), v[2]), v[1])

\* Seeded fault: the entry cleared is one level too high.
UnmapPage_ClearsDirectory(v) ==
  /\ phase = "ready" /\ call = NoCall
  /\ TableFor(v) # Null
  /\ mem' = [mem EXCEPT ![Child(Child(pml4, v[4]), v[3])][v[2]] = Empty]
  /\ UNCHANGED <<free, pml4, level, phase, todo, call>>

\* VMMUnmapPage: clears the last entry.  The tables stay.
UnmapPage(v) ==
  /\ phase = "ready" /\ call = NoCall
  /\ TableFor(v) # Null
  /\ mem' = [mem EXCEPT ![TableFor(v)][v[1]] = Empty]
  /\ UNCHANGED <<free, pml4, level, phase, todo, call>>

Next ==
  \/ InitRoot \/ InitCall \/ InitDone
  \/ \E v \in CallPages, p \in CallFrames : MapCall(v, p)
  \/ Descend \/ StoreLeaf
  \/ \E v \in CallPages : UnmapPage(v)

\* The processor runs what it is in the middle of: VMMInit and VMMMapPage have
\* no waiting in them.  Nobody has to call.
Fairness == WF_vars(InitRoot \/ InitCall \/ InitDone)
            /\ WF_vars(Descend \/ StoreLeaf)

Spec == Init /\ [][Next]_vars /\ Fairness
-----------------------------------------------------------------------------
TypeOK ==
  /\ free \subseteq Usable
  /\ mem \in [Usable -> [Idx -> Slots]]
  /\ pml4 \in Usable \cup {Null}
  /\ level \in [Usable -> 0 .. 4]
  /\ phase \in {"boot", "init", "ready", "halted"}
  /\ todo \subseteq Usable
  /\ call \in Calls \cup {NoCall}

Tables == {f \in Usable : level[f] # 0}

\* The tables form a tree: an entry above the last level is null or points to
\* a table one level down, and no table is entered twice, so that writing an
\* entry for one page can never show through another.
TreeShaped ==
  /\ \A t \in Tables, i \in Idx :
       level[t] > 1 =>
         \/ mem[t][i].frame = Null
         \/ /\ mem[t][i].frame \in Tables
            /\ level[mem[t][i].frame] = level[t] - 1
  /\ \A t, u \in Tables, i, j \in Idx :
       level[t] > 1 /\ level[u] > 1 /\ mem[t][i].frame # Null
         /\ mem[t][i].frame = mem[u][j].frame => t = u /\ i = j

\* No table is memory the allocator would hand out again, every frame is one
\* or the other, and the root is the only table of level 4.
TablesAllocated ==
  /\ \A f \in Usable : f \in free <=> f \notin Tables
  /\ \A f \in Tables : level[f] = 4 <=> f = pml4

\* The running walk stands on the path of its page: the table it is in is the
\* one a fresh walk from the root finds.
WalkOnPath ==
  call # NoCall =>
    LET v == call.v
    IN  call.table = CASE call.l = 4 -> pml4
                       [] call.l = 3 -> Child(pml4, v[4])
                       [] call.l = 2 -> Child(Child(pml4, v[4]), v[3])
                       [] call.l = 1 -> TableFor(v)

\* What the tables record, as the code walks them, is a plain map: a new table
\* records nothing, storing the last entry changes one page and no other, and
\* so does clearing it.  This is no statement about the processor, which stops
\* at the first entry that is not present: see NothingTranslated.
PM == INSTANCE PageMap WITH
        map <- [v \in VPages |-> Recorded(v)], Unmapped <- Null
ImplementsPageMap == PM!Init /\ [][PM!Next]_(PM!vars)

\* When VMMInit returns, the code's walk finds for every usable page an entry
\* that is present and holds that very page.
IdentityRecorded ==
  [][ phase = "init" /\ phase' = "ready" =>
        \A f \in Usable : Recorded(Indices(f)) = f ]_vars

\* The processor is never led anywhere by these tables: not by what was in the
\* memory before it became a table, and not to what VMMMapPage recorded either,
\* since the entries vmm.c:69, 76 and 83 store are not present.  The second is
\* not what VMMInit wants, which asks for every usable page to be mapped to
\* itself (vmm.c:45).
NothingTranslated == \A v \in VPages : Translated(v) = Null

\* VMMInit comes to an end, and so does every call of VMMMapPage: it returns, or
\* the allocator halts the machine.
CallsEnd ==
  /\ <>(phase \in {"ready", "halted"})
  /\ call # NoCall ~> call = NoCall \/ phase = "halted"
==============================================================================
