---------------------------- MODULE FileContract ----------------------------
(***************************************************************************)
(* What a caller of Fat32Read (fs/vfs.c) is promised, without disks,       *)
(* clusters or buffers: a file is a sequence of units; a read of len units *)
(* from off delivers units of the file, in order, starting at off, never   *)
(* more than asked for and never past the end; it may stop early, and it   *)
(* does return.                                                            *)
(***************************************************************************)
EXTENDS Integers, Sequences

CONSTANTS Offsets, Lengths

VARIABLES file,    \* the units of the file, as the medium has them
          reading, \* a call is running
          request, \* its arguments
          out      \* the units it has written to the caller's buffer

vars == <<file, reading, request, out>>

Call(off, len) ==
  /\ ~reading
  /\ reading' = TRUE
  /\ request' = [off |-> off, len |-> len]
  /\ out' = <<>>
  /\ UNCHANGED file

Deliver ==
  /\ reading
  /\ \E last \in request.off + Len(out) + 1 .. Len(file) :
       /\ last <= request.off + request.len
       /\ out' = out \o SubSeq(file, request.off + Len(out) + 1, last)
  /\ UNCHANGED <<file, reading, request>>

Return ==
  /\ reading
  /\ reading' = FALSE
  /\ UNCHANGED <<file, request, out>>

Init ==
  /\ ~reading
  /\ request = [off |-> 0, len |-> 0]
  /\ out = <<>>

Next ==
  \/ \E off \in Offsets, len \in Lengths : Call(off, len)
  \/ Deliver
  \/ Return

Spec == Init /\ [][Next]_vars /\ WF_vars(Return)
=============================================================================
