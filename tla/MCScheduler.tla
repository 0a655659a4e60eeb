---------------------------- MODULE MCScheduler ----------------------------
(***************************************************************************)
(* Pools of up to four tasks of every level and kind of function, and      *)
(* three rounds: lists shorter than the rounds, as long, and longer.       *)
(***************************************************************************)
EXTENDS Scheduler
=============================================================================
