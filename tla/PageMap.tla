------------------------------- MODULE PageMap -------------------------------
(***************************************************************************)
(* What the virtual memory manager (src/kernel/mm/vmm.c) keeps: a map from *)
(* virtual pages to physical frames, changed one page at a time.  Vmm      *)
(* records it in a tree of page tables.  What a processor makes of these   *)
(* tables is not part of it.                                               *)
(***************************************************************************)
CONSTANTS
  VPages,     \* virtual page numbers
  Phys,       \* physical frame numbers
  Unmapped    \* what a page without a translation maps to

VARIABLE map

vars == <<map>>

Init == map = [v \in VPages |-> Unmapped]

Map(v, p) == map' = [map EXCEPT ![v] = p]

Unmap(v) == map' = [map EXCEPT ![v] = Unmapped]

Next == \E v \in VPages : Unmap(v) \/ \E p \in Phys : Map(v, p)

Spec == Init /\ [][Next]_vars
==============================================================================
