----------------------------- MODULE MCFatWrite -----------------------------
(***************************************************************************)
(* A volume of two FAT sectors of eight entries and two copies, clusters   *)
(* of two sectors, and a directory of two slots to a sector.  The first    *)
(* free entry is in the first or in the second sector, and its number by   *)
(* the code that of a free cluster or of one in use.                       *)
(***************************************************************************)
EXTENDS FatWrite

MCInUse == {{}, {12}, {3, 4, 8}, 3 .. 7}
=============================================================================
