-------------------------------- MODULE MCPmm --------------------------------
(* Small memory maps for Pmm: two usable runs that touch, one apart from      *)
(* them, and a reserved entry between; a map with one run; and one with more  *)
(* usable entries than the free list has room for.                            *)
EXTENDS Pmm

CONSTANTS c1, c2, c3

Usable(b, n)   == [usable |-> TRUE, base |-> b, length |-> n]
Reserved(b, n) == [usable |-> FALSE, base |-> b, length |-> n]

MCMemmaps ==
  { << Usable(0, 2), Usable(2, 1), Reserved(3, 1), Usable(4, 2) >>,
    << Reserved(0, 1), Usable(1, 3) >>,
    [i \in 1 .. 5 |-> Usable(i, 1)] }

\* The clients are interchangeable: nothing in Pmm tells one from another.
ClientSymmetry == Permutations({c1, c2, c3})

MCClients == {c1, c2, c3}
==============================================================================
