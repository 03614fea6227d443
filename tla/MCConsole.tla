------------------------------ MODULE MCConsole ------------------------------
EXTENDS Console

\* The first message leaves the cursor on the last line, so that the second one scrolls.
MCMessages == << <<"a", "LF", "d", "LF">>, <<"b", "c", "LF">> >>
MCErrorAt == [x |-> 1, y |-> 0]
==============================================================================
