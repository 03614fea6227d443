------------------------------ MODULE MCTerminal ------------------------------
(* Terminal on a 3x4 screen.                                                  *)
EXTENDS Terminal

CONSTANTS blank, letter

MCPairs == {<<0, 0>>, <<1, 2>>, <<2, 3>>, <<3, 3>>, <<1, 4>>}
MCSavedAt == {[x |-> 0, y |-> 0], [x |-> 4, y |-> 3]}
==============================================================================
