-------------------------------- MODULE MCVmm --------------------------------
(* Vmm with three entries per table: pages 3..8 need two page tables, and one *)
(* frame is left for a caller; the call pages share every part of a path with *)
(* another or with an identity-mapped page.                                   *)
EXTENDS Vmm

\* First fit returns the lowest free frame of a sorted list; the highest stands
\* for a list in another order.
MCOffered(S) == {f \in S : (\A g \in S : f <= g) \/ (\A g \in S : g <= f)}

MCUsable == 3 .. 8

\* Memory that was never cleared reads as a present entry for frame 4.
MCJunk == {[frame |-> 4, present |-> TRUE]}

\* Mapped by VMMInit; beside it in an existing table; in a new table of an
\* existing directory; in a new directory.
MCCallPages == {Indices(4), Indices(0), Indices(9)}
==============================================================================
