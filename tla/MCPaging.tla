------------------------------ MODULE MCPaging ------------------------------
(***************************************************************************)
(* Tables of three entries.  Two of the kernel's pages share a page table, *)
(* the third shares only the PDPT with them; the boot maps low memory, the *)
(* user stack at the end of the first PML4 slot, a page of the user heap   *)
(* and one of the program.                                                 *)
(***************************************************************************)
EXTENDS Paging, TLC

MCIndices == 0 .. 2
MCKernelPages == {<<1, 0, 0, 0>>, <<1, 0, 0, 1>>, <<1, 1, 0, 0>>}
MCBootMaps == <<
  [kind |-> "identity", page |-> <<0, 0, 0, 0>>, frame |-> 0],
  [kind |-> "user", page |-> <<0, 2, 2, 1>>, frame |-> 201],
  [kind |-> "user", page |-> <<0, 0, 2, 0>>, frame |-> 202],
  [kind |-> "user", page |-> <<0, 0, 1, 0>>, frame |-> 203]>>

Symmetry == Permutations(KernelFrames)
=============================================================================
