----------------------------- MODULE MCFlantermFb -----------------------------
(* FlantermFb with two glyphs that differ in one of two dots, and the three   *)
(* colours of a fresh terminal.                                               *)
EXTENDS FlantermFb

CONSTANTS blank, letter, canvas, black, grey

MCFont == (blank :> {}) @@ (letter :> {1})
==============================================================================
