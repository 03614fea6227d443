------------------------------- MODULE MCFbInit -------------------------------
EXTENDS FbInit

\* One cell and a margin that leaves a remainder; four cells.
MCFramebuffers == {[width |-> 5, height |-> 3, margin |-> 1],
                   [width |-> 4, height |-> 2, margin |-> 0]}
MCFixedSize == [b \in {"ctx", "font_bits", "font_bool"} |-> 2]
MCCellSize == [b \in {"grid", "queue", "map"} |-> IF b = "map" THEN 1 ELSE 2]
==============================================================================
