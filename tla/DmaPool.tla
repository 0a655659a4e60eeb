------------------------------- MODULE DmaPool -------------------------------
(***************************************************************************)
(* The DMA buffer allocator of kernel/memory/malloc.c: palloc_aligned_DMA, *)
(* pfree_aligned_DMA and the bitmap they share with dma_alloc_page.        *)
(*                                                                         *)
(* A buffer is a run of virtual pages taken from a window by a cursor that *)
(* only moves forward and goes back to the base of the window when the     *)
(* request does not fit behind it.  Each page of the run gets the first    *)
(* frame the bitmap has free, and a page-table entry.  The loops over the  *)
(* pages of a request are steps of their own (AllocPage, FreePage); no     *)
(* interrupt handler of the kernel calls the allocator, so nothing         *)
(* interleaves with them.                                                  *)
(*                                                                         *)
(* Pages and frames are numbered from the base of the window and of the    *)
(* pool.  The client is arbitrary, but hands back only what it was given,  *)
(* once, and with the size it asked for: what every caller in fs/ and      *)
(* drivers/storage/ does when it frees at all.                             *)
(***************************************************************************)
EXTENDS Integers

CONSTANTS DMA_MAX_PAGES, \* frames in the pool (512 in memory.h)
          WINDOW_PAGES,  \* pages in the window (DMA_VIRT_SIZE / PAGE_SIZE)
          PAGE_SIZE,     \* in the unit the sizes are given in
          Sizes,         \* the sizes callers ask for
          Unmapped       \* a page-table entry without the present bit

Frames == 0 .. DMA_MAX_PAGES - 1
Pages  == 0 .. WINDOW_PAGES - 1

\* map_size / PAGE_SIZE: the request rounded up to whole pages.
MapPages(size) == (size + PAGE_SIZE - 1) \div PAGE_SIZE

ASSUME PoolAssumption     == DMA_MAX_PAGES \in Nat
ASSUME WindowAssumption   == WINDOW_PAGES \in Nat \ {0}
ASSUME SizesAssumption    == \A size \in Sizes : MapPages(size) \in 1 .. WINDOW_PAGES
ASSUME UnmappedAssumption == Unmapped \notin Frames

VARIABLES
  dma_bitmap,    \* the frames whose entry in dma_bitmap is 1
  pt,            \* the page-table entries of the window
  dma_heap_curr, \* the cursor, as a page number
  pool_pc,       \* "idle", or the loop that is running: "alloc" or "free"
  buf,           \* the buffer that loop works on
  pool_offset,   \* the page of buf it has reached
  buffers,       \* history: the buffers handed out and not yet handed back
  abandoned,     \* history: pages mapped by allocations that then returned NULL
  wrapped        \* history: the cursor has been moved back to the base

pool == <<dma_bitmap, pt, dma_heap_curr, pool_pc, buf, pool_offset,
          buffers, abandoned, wrapped>>

Buffer == [virt : Pages, pages : 1 .. WINDOW_PAGES, phys : Frames \cup {Unmapped}]

\* How far the cursor moves past a request: map_size, not size.
\* (Mutant: the size the caller gave, not rounded up.)
UnroundedAdvance(size) == size \div PAGE_SIZE
Advance(size)          == MapPages(size)

\* The test that sends the cursor back.  A request may end at the end of the
\* window.
Wraps(size) == dma_heap_curr + MapPages(size) > WINDOW_PAGES

PagesOf(b)     == b.virt .. b.virt + b.pages - 1
FramesAt(S)    == {pt[p] : p \in S} \ {Unmapped}
FreeFrames     == Frames \ dma_bitmap
\* dma_alloc_page takes the first free frame.  (Mutant: any free frame.)
IsFree(f)      == f \in FreeFrames
IsFirstFree(f) == f \in FreeFrames /\ \A g \in FreeFrames : f <= g

PoolInit ==
  /\ dma_bitmap = {}
  /\ pt = [p \in Pages |-> Unmapped]
  /\ dma_heap_curr = 0
  /\ pool_pc = "idle"
  /\ buf = [virt |-> 0, pages |-> 1, phys |-> Unmapped]
  /\ pool_offset = 0
  /\ buffers = {}
  /\ abandoned = {}
  /\ wrapped = FALSE

(***************************************************************************)
(* palloc_aligned_DMA                                                      *)
(***************************************************************************)

\* Place the request behind the cursor, or at the base of the window.
BeginAlloc(size) ==
  LET virt == IF Wraps(size) THEN 0 ELSE dma_heap_curr
  IN  /\ pool_pc = "idle"
      /\ pool_pc' = "alloc"
      /\ buf' = [virt |-> virt, pages |-> MapPages(size), phys |-> Unmapped]
      /\ pool_offset' = 0
      /\ dma_heap_curr' = virt + Advance(size)
      /\ wrapped' = (wrapped \/ Wraps(size))
      /\ UNCHANGED <<dma_bitmap, pt, buffers, abandoned>>

\* One turn of the loop: dma_alloc_page, then map_virtual, which overwrites
\* whatever entry the page had.
AllocPage ==
  /\ pool_pc = "alloc"
  /\ pool_offset < buf.pages
  /\ \E f \in FreeFrames :
       /\ IsFirstFree(f)
       /\ dma_bitmap' = dma_bitmap \cup {f}
       /\ pt' = [pt EXCEPT ![buf.virt + pool_offset] = f]
       /\ buf' = IF pool_offset = 0 THEN [buf EXCEPT !.phys = f] ELSE buf
  /\ pool_offset' = pool_offset + 1
  /\ UNCHANGED <<dma_heap_curr, pool_pc, buffers, abandoned, wrapped>>

\* No frame left: return NULL.  What the earlier turns took stays taken and
\* mapped, and the cursor stays where it is.
AllocFails ==
  /\ pool_pc = "alloc"
  /\ pool_offset < buf.pages
  /\ FreeFrames = {}
  /\ abandoned' = abandoned \cup (buf.virt .. buf.virt + pool_offset - 1)
  /\ pool_pc' = "idle"
  /\ UNCHANGED <<dma_bitmap, pt, dma_heap_curr, buf, pool_offset, buffers, wrapped>>

AllocReturns ==
  /\ pool_pc = "alloc"
  /\ pool_offset = buf.pages
  /\ buffers' = buffers \cup {buf}
  /\ pool_pc' = "idle"
  /\ UNCHANGED <<dma_bitmap, pt, dma_heap_curr, buf, pool_offset, abandoned, wrapped>>

(***************************************************************************)
(* pfree_aligned_DMA                                                       *)
(***************************************************************************)

BeginFree(b) ==
  /\ pool_pc = "idle"
  /\ b \in buffers
  /\ buffers' = buffers \ {b}
  /\ pool_pc' = "free"
  /\ buf' = b
  /\ pool_offset' = 0
  /\ UNCHANGED <<dma_bitmap, pt, dma_heap_curr, abandoned, wrapped>>

\* (Mutant: unmap_page first, so that get_physical_address answers 0 and the
\* bitmap keeps the frame.)
FreePageUnmapFirst ==
  /\ pool_pc = "free"
  /\ pool_offset < buf.pages
  /\ pt' = [pt EXCEPT ![buf.virt + pool_offset] = Unmapped]
  /\ dma_bitmap' = dma_bitmap \ {pt'[buf.virt + pool_offset]}
  /\ pool_offset' = pool_offset + 1
  /\ UNCHANGED <<dma_heap_curr, pool_pc, buf, buffers, abandoned, wrapped>>

\* (Mutant: no unmap_page at all.)
FreePageKeepsEntry ==
  /\ pool_pc = "free"
  /\ pool_offset < buf.pages
  /\ dma_bitmap' = dma_bitmap \ {pt[buf.virt + pool_offset]}
  /\ pool_offset' = pool_offset + 1
  /\ UNCHANGED <<pt, dma_heap_curr, pool_pc, buf, buffers, abandoned, wrapped>>

\* One turn of the loop.  get_physical_address is read before unmap_page; an
\* absent entry gives an index outside the bitmap, and nothing is cleared.
FreePage ==
  LET p == buf.virt + pool_offset
  IN  /\ pool_pc = "free"
      /\ pool_offset < buf.pages
      /\ dma_bitmap' = dma_bitmap \ {pt[p]}
      /\ pt' = [pt EXCEPT ![p] = Unmapped]
      /\ pool_offset' = pool_offset + 1
      /\ UNCHANGED <<dma_heap_curr, pool_pc, buf, buffers, abandoned, wrapped>>

FreeReturns ==
  /\ pool_pc = "free"
  /\ pool_offset = buf.pages
  /\ pool_pc' = "idle"
  /\ UNCHANGED <<dma_bitmap, pt, dma_heap_curr, buf, pool_offset,
                 buffers, abandoned, wrapped>>

PoolNext ==
  \/ \E size \in Sizes : BeginAlloc(size)
  \/ AllocPage
  \/ AllocFails
  \/ AllocReturns
  \/ \E b \in buffers : BeginFree(b)
  \/ FreePage
  \/ FreeReturns

PoolSpec == PoolInit /\ [][PoolNext]_pool

(***************************************************************************)
(* What the allocator promises                                             *)
(***************************************************************************)

\* Types: entries are frames or absent, the cursor is inside the window or
\* at its end, and the loop never leaves the buffer it works on.
PoolTypeOK ==
  /\ dma_bitmap \subseteq Frames
  /\ pt \in [Pages -> Frames \cup {Unmapped}]
  /\ dma_heap_curr \in 0 .. WINDOW_PAGES
  /\ pool_pc \in {"idle", "alloc", "free"}
  /\ buf \in Buffer
  /\ pool_offset \in 0 .. buf.pages
  /\ buffers \subseteq Buffer
  /\ abandoned \subseteq Pages
  /\ wrapped \in BOOLEAN
  /\ pool_pc # "idle" => buf.virt + buf.pages <= WINDOW_PAGES
  /\ \A b \in buffers : b.virt + b.pages <= WINDOW_PAGES

\* A frame is never reachable through two pages, and a frame the bitmap
\* gives out again is reachable through none: dma_alloc_page and
\* pfree_aligned_DMA keep the bitmap and the page table in step, even when
\* the cursor wraps over buffers nobody freed.
FramesExclusive ==
  \A p \in Pages : pt[p] # Unmapped =>
     /\ pt[p] \in dma_bitmap
     /\ \A q \in Pages : pt[q] = pt[p] => q = p

\* Until the cursor wraps, a buffer handed out is completely mapped, its
\* physical address is the frame of its first page, and no other buffer has
\* a page of it.
BuffersIntact ==
  ~wrapped => \A b \in buffers :
     /\ \A p \in PagesOf(b) : pt[p] # Unmapped
     /\ b.phys = pt[b.virt]
     /\ \A c \in buffers \ {b} : PagesOf(c) \cap PagesOf(b) = {}

\* Until the cursor wraps, between two calls every frame the bitmap holds is
\* owned by a buffer or was abandoned by an allocation that ran out half
\* way: a free gives back all that its allocation took.
NoFrameLost ==
  (~wrapped /\ pool_pc = "idle") =>
     dma_bitmap = FramesAt(abandoned \cup UNION {PagesOf(b) : b \in buffers})

\* Until the cursor wraps, no call changes the mapping of a buffer that is
\* handed out before and after it.
LiveMappingsKept ==
  [][~wrapped' => \A b \in buffers \cap buffers' :
        \A p \in PagesOf(b) : pt'[p] = pt[p]]_pool
=============================================================================
