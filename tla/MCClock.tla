------------------------------ MODULE MCClock ------------------------------
(***************************************************************************)
(* A minute of two seconds of four ticks, a watchdog of three interrupts   *)
(* over a boot of four stages, of which the first two read the disk and    *)
(* the second makes the font: nine interrupts take the clock through two   *)
(* minutes, the watchdog past its timeout, and a delay past INT_MAX.  Of   *)
(* the ticks asked for, one is the last int, two become negative, and two  *)
(* wrap around to ticks that have passed or will come.                     *)
(***************************************************************************)
EXTENDS Clock
=============================================================================
