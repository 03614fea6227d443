---------------------------- MODULE PageAllocator ----------------------------
(***************************************************************************)
(* What the physical memory manager of DeerOS (src/kernel/mm/pmm.c)        *)
(* promises to its callers, with no free list in sight: a set of free page *)
(* frames, and for every client the frames it has been given.  A frame is  *)
(* handed out only when it is free, only to one client, and only in a run  *)
(* of consecutive frames; it is free again when the client returns it.     *)
(* Pmm implements this module until it first corrupts its free list.       *)
(***************************************************************************)
EXTENDS Integers

CONSTANTS
  Frames,        \* the page frame numbers of the machine, and run lengths
  Clients,       \* the callers, each with at most one outstanding block
  RequestSizes   \* how many pages a caller may ask for

VARIABLES
  free,          \* the frames nobody owns
  held           \* held[c] is the set of frames client c owns

vars == <<free, held>>

\* n consecutive frames from frame b on.
Run(b, n) == b .. (b + n - 1)

Init == free = {} /\ held = [c \in Clients |-> {}]

\* The boot loader's memory map contributes one more run of usable frames.
Register(b, n) ==
  /\ Run(b, n) \cap free = {}
  /\ \A c \in Clients : Run(b, n) \cap held[c] = {}
  /\ free' = free \cup Run(b, n)
  /\ UNCHANGED held

Allocate(c, b, n) ==
  /\ held[c] = {}
  /\ Run(b, n) \subseteq free
  /\ free' = free \ Run(b, n)
  /\ held' = [held EXCEPT ![c] = Run(b, n)]

Deallocate(c) ==
  /\ free' = free \cup held[c]
  /\ held' = [held EXCEPT ![c] = {}]

Next ==
  \/ \E b, n \in Frames : Register(b, n)
  \/ \E c \in Clients, n \in RequestSizes, b \in Frames : Allocate(c, b, n)
  \/ \E c \in Clients : Deallocate(c)

Spec == Init /\ [][Next]_vars
==============================================================================
