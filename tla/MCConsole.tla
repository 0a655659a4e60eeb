------------------------------ MODULE MCConsole ------------------------------
(***************************************************************************)
(* A screen of four rows of three cells: the prompt and a few keys wrap    *)
(* lines and scroll the screen, and the text of a panic just fits.         *)
(***************************************************************************)
EXTENDS Console

MCCopyright   == <<"c", Newline>>
MCBanner      == <<"b", "b", "b", "b", Newline>>
MCPrompt      == <<"$">>
MCNotACommand == <<"?", Newline>>
MCPanicText   == <<"!", Newline, "!", "!", Newline, "!", Newline>>
=============================================================================
