------------------------------ MODULE MCDmaPool ------------------------------
(***************************************************************************)
(* A pool of three frames behind a window of five pages.  Sizes are in     *)
(* half pages: the requests span one page (1 and 2 halves) and two pages   *)
(* (3 halves), so that rounding, exhaustion in the middle of a request and *)
(* the wrap of the cursor all happen.                                      *)
(***************************************************************************)
EXTENDS DmaPool

MCSizes == {1, 2, 3}
=============================================================================
