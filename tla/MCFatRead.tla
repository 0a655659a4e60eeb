------------------------------ MODULE MCFatRead ------------------------------
(***************************************************************************)
(* A volume of two clusters of two units with every possible FAT, a pool   *)
(* of three frames that two lookups drain, and a window that wraps.        *)
(***************************************************************************)
EXTENDS FatRead

MCFirst   == {0, 2}
MCSizes   == {5}
MCOffsets == {0, 3, 5}
MCLengths == {1, 5}
MCBufferSizes == {1, 2}
=============================================================================
