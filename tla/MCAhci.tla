------------------------------- MODULE MCAhci -------------------------------
(***************************************************************************)
(* Two slots, so that two failed commands use them up; two blocks and two  *)
(* buffers; BSY is looked at three times before the driver gives up.       *)
(***************************************************************************)
EXTENDS Ahci

MCLbas == {0, 1}
=============================================================================
