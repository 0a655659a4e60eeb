---------------------------- MODULE AddressSpace ----------------------------
(***************************************************************************)
(* What the page tables of the kernel are for: a map from virtual pages to *)
(* frames, which changes for one page at a time.                           *)
(***************************************************************************)
CONSTANTS Pages, Frames, Unmapped

VARIABLE map

Others(v) == map' = [map EXCEPT ![v] = map'[v]]

Map(v)   == map'[v] \in Frames /\ Others(v)
Unmap(v) == map'[v] = Unmapped /\ Others(v)

Init == map = [v \in Pages |-> Unmapped]
Next == \E v \in Pages : Map(v) \/ Unmap(v)
Spec == Init /\ [][Next]_map
=============================================================================
