----------------------------- MODULE MCTerminal -----------------------------
(***************************************************************************)
(* Three key presses of three kinds of key and a line of one character:     *)
(* enough for a line that is cut, two lines, and a release between any two *)
(* accesses to last_char.                                                  *)
(***************************************************************************)
EXTENDS Terminal
=============================================================================
