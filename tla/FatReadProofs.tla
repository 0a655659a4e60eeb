--------------------------- MODULE FatReadProofs ---------------------------
(***************************************************************************)
(* Proofs about DmaPool and about FatRead, which extends it: for every     *)
(* pool, window and set of request sizes, every volume and every request.  *)
(* First the pool alone, with any client that hands back only what it was  *)
(* given.  Then the file system, which is such a client, so that what is   *)
(* proved of the pool holds while files are read.  Last, what a read       *)
(* delivers: the file as its chain of clusters has it, which is defined by *)
(* recursion and known by induction, how far a call has got along the      *)
(* chain, and the contract with the caller.                                *)
(***************************************************************************)
EXTENDS FatRead, FiniteSetTheorems, Induction

(***************************************************************************)
(* The pages that a running allocation has mapped so far are mapped, and   *)
(* the physical address it will return is the frame of its first page.     *)
(***************************************************************************)
AllocProgress ==
  pool_pc = "alloc" =>
    /\ \A p \in Pages : (buf.virt <= p /\ p < buf.virt + pool_offset) => pt[p] # Unmapped
    /\ pool_offset > 0 => buf.phys = pt[buf.virt]

(***************************************************************************)
(* Until the window wraps, nothing is mapped at or behind the cursor, nor  *)
(* in the part of the request that a running allocation has not reached.   *)
(***************************************************************************)
Unreached(p) == p >= dma_heap_curr \/ (pool_pc = "alloc" /\ p >= buf.virt + pool_offset)

FreshPages ==
  ~wrapped =>
    /\ pool_pc # "idle" => buf.virt + buf.pages <= dma_heap_curr
    /\ pool_pc = "alloc" => buf.virt + buf.pages = dma_heap_curr
    /\ \A p \in Pages : Unreached(p) => pt[p] = Unmapped

(***************************************************************************)
(* Until the window wraps, the buffers handed out lie in front of the      *)
(* cursor and apart from the one that a running call works on.             *)
(***************************************************************************)
Apart(b, c) == b.virt + b.pages <= c.virt \/ c.virt + c.pages <= b.virt

BuffersApart ==
  ~wrapped =>
    \A b \in buffers :
      /\ b.virt + b.pages <= dma_heap_curr
      /\ pool_pc # "idle" => Apart(b, buf)
      /\ \A c \in buffers : c # b => Apart(b, c)

BuffersMapped ==
  ~wrapped =>
    \A b \in buffers :
      /\ \A p \in Pages : (b.virt <= p /\ p < b.virt + b.pages) => pt[p] # Unmapped
      /\ b.phys = pt[b.virt]

PoolIInv ==
  /\ PoolTypeOK
  /\ FramesExclusive
  /\ AllocProgress
  /\ FreshPages
  /\ BuffersApart
  /\ BuffersMapped

LEMMA InitPoolIInv == PoolInit => PoolIInv
<1> SUFFICES ASSUME PoolInit PROVE PoolIInv
  OBVIOUS
<1>1. PoolTypeOK
  <2>1. 0 \in Pages /\ 1 \in 1 .. WINDOW_PAGES
    BY WindowAssumption DEF Pages
  <2>2. buf \in Buffer /\ buf.pages = 1
    BY <2>1 DEF PoolInit, Buffer
  <2>3. pt \in [Pages -> Frames \cup {Unmapped}]
    BY DEF PoolInit
  <2>4. /\ dma_heap_curr \in 0 .. WINDOW_PAGES
        /\ pool_offset \in 0 .. buf.pages
    BY <2>2, WindowAssumption DEF PoolInit
  <2> QED
    BY <2>2, <2>3, <2>4 DEF PoolInit, PoolTypeOK
<1>2. FramesExclusive /\ AllocProgress
  BY DEF PoolInit, FramesExclusive, AllocProgress
<1>3. FreshPages /\ BuffersApart /\ BuffersMapped
  BY DEF PoolInit, FreshPages, BuffersApart, BuffersMapped
<1> QED
  BY <1>1, <1>2, <1>3 DEF PoolIInv

(***************************************************************************)
(* Type correctness is kept by every step.  AllocFails needs nothing more  *)
(* than that the pages of the request are pages of the window.             *)
(***************************************************************************)
LEMMA PoolTypeStep == PoolTypeOK /\ [PoolNext]_pool => PoolTypeOK'
<1> SUFFICES ASSUME PoolTypeOK, [PoolNext]_pool PROVE PoolTypeOK'
  OBVIOUS
<1> USE DEF PoolTypeOK
<1>1. ASSUME NEW size \in Sizes, BeginAlloc(size) PROVE PoolTypeOK'
  <2>1. MapPages(size) \in 1 .. WINDOW_PAGES
    BY SizesAssumption
  <2>2. /\ (IF Wraps(size) THEN 0 ELSE dma_heap_curr) \in Pages
        /\ dma_heap_curr' \in 0 .. WINDOW_PAGES
        /\ buf'.virt + buf'.pages <= WINDOW_PAGES
    BY <1>1, <2>1, WindowAssumption DEF BeginAlloc, Wraps, Advance, Pages
  <2> QED
    BY <1>1, <2>1, <2>2 DEF BeginAlloc, Buffer, Wraps
<1>2. CASE AllocPage
  <2>1. buf.virt + pool_offset \in Pages
    BY <1>2, WindowAssumption DEF AllocPage, Buffer, Pages
  <2> QED
    BY <1>2, <2>1 DEF AllocPage, FreeFrames, Buffer
<1>3. CASE AllocFails
  <2>1. (buf.virt .. buf.virt + pool_offset - 1) \subseteq Pages
    BY <1>3, WindowAssumption DEF AllocFails, Buffer, Pages
  <2> QED
    BY <1>3, <2>1 DEF AllocFails
<1>4. CASE AllocReturns
  BY <1>4 DEF AllocReturns
<1>5. ASSUME NEW b \in buffers, BeginFree(b) PROVE PoolTypeOK'
  BY <1>5 DEF BeginFree, Buffer
<1>6. CASE FreePage
  <2>1. buf.virt + pool_offset \in Pages
    BY <1>6, WindowAssumption DEF FreePage, Buffer, Pages
  <2>2. /\ dma_bitmap' \subseteq dma_bitmap
        /\ pt' = [pt EXCEPT ![buf.virt + pool_offset] = Unmapped]
        /\ pool_offset' \in 0 .. buf.pages
    BY <1>6 DEF FreePage, Buffer
  <2> QED
    BY <1>6, <2>1, <2>2 DEF FreePage
<1>7. CASE FreeReturns
  BY <1>7 DEF FreeReturns
<1>8. CASE UNCHANGED pool
  BY <1>8 DEF pool
<1> QED
  BY <1>1, <1>2, <1>3, <1>4, <1>5, <1>6, <1>7, <1>8 DEF PoolNext

(***************************************************************************)
(* PoolTypeOK holds in every reachable state.                                  *)
(***************************************************************************)
THEOREM PoolTypeCorrect == PoolSpec => []PoolTypeOK
<1>1. PoolInit => PoolTypeOK
  BY InitPoolIInv DEF PoolIInv
<1> QED
  BY <1>1, PoolTypeStep, PTL DEF PoolSpec

(***************************************************************************)
(* The bitmap and the page table move together: a frame enters the table   *)
(* only when the bitmap had it free, so no other page can hold it, and     *)
(* leaves the bitmap only in the step that removes its one entry.          *)
(***************************************************************************)
LEMMA ExclusiveStep == PoolTypeOK /\ FramesExclusive /\ [PoolNext]_pool => FramesExclusive'
<1> SUFFICES ASSUME PoolTypeOK, FramesExclusive, [PoolNext]_pool PROVE FramesExclusive'
  OBVIOUS
<1> USE DEF PoolTypeOK, FramesExclusive
<1>1. CASE AllocPage
  <2>1. PICK f \in FreeFrames : /\ dma_bitmap' = dma_bitmap \cup {f}
                                /\ pt' = [pt EXCEPT ![buf.virt + pool_offset] = f]
    BY <1>1 DEF AllocPage
  <2>2. \A p \in Pages : pt[p] # f
    BY <2>1, UnmappedAssumption DEF FreeFrames
  <2> QED
    BY <2>1, <2>2
<1>2. CASE FreePage
  <2> DEFINE p == buf.virt + pool_offset
  <2>1. /\ p \in Pages
        /\ dma_bitmap' = dma_bitmap \ {pt[p]}
        /\ pt' = [pt EXCEPT ![p] = Unmapped]
    BY <1>2, WindowAssumption DEF FreePage, Buffer, Pages
  <2> HIDE DEF p
  <2>2. \A q \in Pages \ {p} : pt[q] # Unmapped => pt[q] \in dma_bitmap'
    BY <2>1
  <2> QED
    BY <2>1, <2>2
<1>3. CASE UNCHANGED <<dma_bitmap, pt>>
  BY <1>3
<1> QED
  BY <1>1, <1>2, <1>3
  DEF PoolNext, BeginAlloc, AllocFails, AllocReturns, BeginFree, FreeReturns, pool

(***************************************************************************)
(* No frame is ever mapped twice, and no mapped frame is given out again.  *)
(* This needs no assumption about the cursor: it survives the wrap.        *)
(***************************************************************************)
THEOREM FramesStayExclusive == PoolSpec => []FramesExclusive
<1>1. PoolInit => FramesExclusive
  BY InitPoolIInv DEF PoolIInv
<1> QED
  BY <1>1, PoolTypeStep, PoolTypeCorrect, ExclusiveStep, PTL DEF PoolSpec

(***************************************************************************)
(* What the two loop steps do, with the arithmetic of the page done once.  *)
(***************************************************************************)
LEMMA AllocPageEffect ==
  PoolTypeOK /\ AllocPage =>
    /\ pool_pc = "alloc" /\ pool_offset < buf.pages /\ pool_offset' = pool_offset + 1
    /\ buf.virt + pool_offset \in Pages
    /\ buf'.virt = buf.virt /\ buf'.pages = buf.pages
    /\ \E f \in Frames :
         /\ f # Unmapped /\ f \notin dma_bitmap
         /\ dma_bitmap' = dma_bitmap \cup {f}
         /\ pt' = [pt EXCEPT ![buf.virt + pool_offset] = f]
         /\ buf'.phys = IF pool_offset = 0 THEN f ELSE buf.phys
    /\ UNCHANGED <<dma_heap_curr, pool_pc, buffers, abandoned, wrapped>>
<1> SUFFICES ASSUME PoolTypeOK, AllocPage
    PROVE  /\ buf.virt + pool_offset \in Pages
           /\ buf'.virt = buf.virt /\ buf'.pages = buf.pages
           /\ \E f \in Frames :
                /\ f # Unmapped /\ f \notin dma_bitmap
                /\ dma_bitmap' = dma_bitmap \cup {f}
                /\ pt' = [pt EXCEPT ![buf.virt + pool_offset] = f]
                /\ buf'.phys = IF pool_offset = 0 THEN f ELSE buf.phys
  BY DEF AllocPage
<1>1. buf \in Buffer
  BY DEF PoolTypeOK
<1>2. buf.virt + pool_offset \in Pages
  BY <1>1, WindowAssumption DEF PoolTypeOK, AllocPage, Buffer, Pages
<1>3. PICK f \in FreeFrames :
        /\ dma_bitmap' = dma_bitmap \cup {f}
        /\ pt' = [pt EXCEPT ![buf.virt + pool_offset] = f]
        /\ buf' = IF pool_offset = 0 THEN [buf EXCEPT !.phys = f] ELSE buf
  BY DEF AllocPage
<1>4. f \in Frames /\ f # Unmapped /\ f \notin dma_bitmap
  BY <1>3, UnmappedAssumption DEF FreeFrames
<1>5. /\ buf'.virt = buf.virt /\ buf'.pages = buf.pages
      /\ buf'.phys = IF pool_offset = 0 THEN f ELSE buf.phys
  BY <1>1, <1>3 DEF Buffer
<1> QED
  BY <1>2, <1>3, <1>4, <1>5

LEMMA FreePageEffect ==
  PoolTypeOK /\ FreePage =>
    /\ pool_pc = "free" /\ pool_offset < buf.pages /\ pool_offset' = pool_offset + 1
    /\ buf.virt + pool_offset \in Pages
    /\ dma_bitmap' = dma_bitmap \ {pt[buf.virt + pool_offset]}
    /\ pt' = [pt EXCEPT ![buf.virt + pool_offset] = Unmapped]
    /\ UNCHANGED <<dma_heap_curr, pool_pc, buf, buffers, abandoned, wrapped>>
  BY WindowAssumption DEF PoolTypeOK, FreePage, Buffer, Pages

LEMMA BeginAllocEffect ==
  ASSUME NEW size \in Sizes
  PROVE  PoolTypeOK /\ BeginAlloc(size) =>
    /\ pool_pc = "idle" /\ pool_pc' = "alloc" /\ pool_offset' = 0
    /\ buf' \in Buffer
    /\ dma_heap_curr' = buf'.virt + buf'.pages
    /\ ~wrapped' => ~wrapped /\ buf'.virt = dma_heap_curr
    /\ UNCHANGED <<dma_bitmap, pt, buffers, abandoned>>
<1> SUFFICES ASSUME PoolTypeOK, BeginAlloc(size)
    PROVE  /\ buf' \in Buffer
           /\ dma_heap_curr' = buf'.virt + buf'.pages
           /\ ~wrapped' => ~wrapped /\ buf'.virt = dma_heap_curr
  BY DEF BeginAlloc
<1>1. MapPages(size) \in 1 .. WINDOW_PAGES
  BY SizesAssumption
<1>2. (IF Wraps(size) THEN 0 ELSE dma_heap_curr) \in Pages
  BY <1>1, WindowAssumption DEF PoolTypeOK, Wraps, Pages
<1>3. /\ buf' = [virt |-> IF Wraps(size) THEN 0 ELSE dma_heap_curr,
                 pages |-> MapPages(size), phys |-> Unmapped]
      /\ dma_heap_curr' = (IF Wraps(size) THEN 0 ELSE dma_heap_curr) + MapPages(size)
      /\ wrapped' = (wrapped \/ Wraps(size))
  BY DEF BeginAlloc, Advance
<1>4. buf' \in Buffer
  BY <1>1, <1>2, <1>3 DEF Buffer
<1> QED
  BY <1>3, <1>4

(***************************************************************************)
(* The step lemmas of the strengthening, one for each of its parts.        *)
(***************************************************************************)
LEMMA ProgressStep == PoolTypeOK /\ AllocProgress /\ [PoolNext]_pool => AllocProgress'
<1> SUFFICES ASSUME PoolTypeOK, AllocProgress, [PoolNext]_pool PROVE AllocProgress'
  OBVIOUS
<1> USE DEF AllocProgress
<1>1. ASSUME NEW size \in Sizes, BeginAlloc(size) PROVE AllocProgress'
  <2>1. pool_offset' = 0 /\ buf' \in Buffer
    BY <1>1, BeginAllocEffect
  <2> QED
    BY <2>1 DEF Buffer, Pages
<1>2. CASE AllocPage
  <2>1. PICK f \in Frames :
          /\ f # Unmapped
          /\ pt' = [pt EXCEPT ![buf.virt + pool_offset] = f]
          /\ buf'.phys = IF pool_offset = 0 THEN f ELSE buf.phys
    BY <1>2, AllocPageEffect
  <2>2. /\ pool_pc = "alloc" /\ pool_offset' = pool_offset + 1
        /\ buf.virt + pool_offset \in Pages
        /\ buf'.virt = buf.virt
        /\ pool_offset \in Nat /\ buf.virt \in Pages /\ buf.virt \in Nat
        /\ pt \in [Pages -> Frames \cup {Unmapped}]
    BY <1>2, AllocPageEffect DEF PoolTypeOK, Buffer, Pages
  <2>3. ASSUME NEW q \in Pages, buf.virt <= q, q < buf.virt + pool_offset + 1
        PROVE  pt'[q] # Unmapped
    <3>1. CASE q = buf.virt + pool_offset
      BY <3>1, <2>1, <2>2
    <3>2. CASE q # buf.virt + pool_offset
      BY <3>2, <2>1, <2>2, <2>3 DEF Pages
    <3> QED
      BY <3>1, <3>2
  <2>4. buf'.phys = pt'[buf'.virt]
    BY <2>1, <2>2
  <2> QED
    BY <2>2, <2>3, <2>4 DEF Pages
<1>3. CASE AllocFails \/ AllocReturns \/ FreeReturns
  BY <1>3 DEF AllocFails, AllocReturns, FreeReturns
<1>4. ASSUME NEW b \in buffers, BeginFree(b) PROVE AllocProgress'
  BY <1>4 DEF BeginFree
<1>5. CASE FreePage
  BY <1>5 DEF FreePage
<1>6. CASE UNCHANGED pool
  BY <1>6 DEF pool
<1> QED
  BY <1>1, <1>2, <1>3, <1>4, <1>5, <1>6 DEF PoolNext

LEMMA FreshStep ==
  PoolTypeOK /\ FreshPages /\ BuffersApart /\ [PoolNext]_pool => FreshPages'
<1> SUFFICES ASSUME PoolTypeOK, FreshPages, BuffersApart, [PoolNext]_pool, ~wrapped'
    PROVE  FreshPages'
  BY DEF FreshPages
<1> USE DEF FreshPages, Unreached
<1>1. ASSUME NEW size \in Sizes, BeginAlloc(size) PROVE FreshPages'
  <2>1. /\ pool_pc = "idle" /\ pool_offset' = 0 /\ buf' \in Buffer
        /\ dma_heap_curr' = buf'.virt + buf'.pages
        /\ ~wrapped /\ buf'.virt = dma_heap_curr
        /\ pt' = pt
    BY <1>1, BeginAllocEffect
  <2> QED
    BY <2>1 DEF Buffer, Pages
<1>2. CASE AllocPage
  <2>1. PICK f \in Frames : pt' = [pt EXCEPT ![buf.virt + pool_offset] = f]
    BY <1>2, AllocPageEffect
  <2>2. /\ pool_pc = "alloc" /\ pool_pc' = pool_pc /\ pool_offset' = pool_offset + 1 /\ pool_offset < buf.pages
        /\ dma_heap_curr' = dma_heap_curr /\ ~wrapped
        /\ buf.virt + pool_offset \in Pages
        /\ buf'.virt = buf.virt /\ buf'.pages = buf.pages
    BY <1>2, AllocPageEffect
  <2>3. buf \in Buffer /\ pool_offset \in Nat /\ dma_heap_curr \in Nat
        /\ pt \in [Pages -> Frames \cup {Unmapped}]
    BY DEF PoolTypeOK, Buffer
  <2> QED
    BY <2>1, <2>2, <2>3 DEF Buffer, Pages
<1>3. CASE AllocFails \/ AllocReturns \/ FreeReturns
  BY <1>3 DEF AllocFails, AllocReturns, FreeReturns
<1>4. ASSUME NEW b \in buffers, BeginFree(b) PROVE FreshPages'
  BY <1>4 DEF BeginFree, BuffersApart
<1>5. CASE FreePage
  BY <1>5, FreePageEffect DEF PoolTypeOK
<1>6. CASE UNCHANGED pool
  BY <1>6 DEF pool
<1> QED
  BY <1>1, <1>2, <1>3, <1>4, <1>5, <1>6 DEF PoolNext

LEMMA ApartStep ==
  PoolTypeOK /\ FreshPages /\ BuffersApart /\ [PoolNext]_pool => BuffersApart'
<1> SUFFICES ASSUME PoolTypeOK, FreshPages, BuffersApart, [PoolNext]_pool, ~wrapped'
    PROVE  BuffersApart'
  BY DEF BuffersApart
<1> USE DEF BuffersApart, Apart
<1>1. ASSUME NEW size \in Sizes, BeginAlloc(size) PROVE BuffersApart'
  <2>1. /\ buf' \in Buffer
        /\ dma_heap_curr' = buf'.virt + buf'.pages
        /\ ~wrapped /\ buf'.virt = dma_heap_curr
        /\ buffers' = buffers
    BY <1>1, BeginAllocEffect
  <2> QED
    BY <2>1 DEF PoolTypeOK, Buffer, Pages
<1>2. CASE AllocPage
  BY <1>2, AllocPageEffect
<1>3. CASE AllocReturns
  <2>1. /\ pool_pc = "alloc" /\ pool_pc' = "idle" /\ buffers' = buffers \cup {buf}
        /\ dma_heap_curr' = dma_heap_curr /\ ~wrapped
    BY <1>3 DEF AllocReturns
  <2>2. buf.virt + buf.pages <= dma_heap_curr
    BY <2>1 DEF FreshPages
  <2> QED
    BY <2>1, <2>2
<1>4. CASE AllocFails \/ FreeReturns
  BY <1>4 DEF AllocFails, FreeReturns
<1>5. ASSUME NEW b \in buffers, BeginFree(b) PROVE BuffersApart'
  BY <1>5 DEF BeginFree
<1>6. CASE FreePage
  BY <1>6 DEF FreePage
<1>7. CASE UNCHANGED pool
  BY <1>7 DEF pool
<1> QED
  BY <1>1, <1>2, <1>3, <1>4, <1>5, <1>6, <1>7 DEF PoolNext

LEMMA MappedStep ==
  PoolIInv /\ [PoolNext]_pool => BuffersMapped'
<1> SUFFICES ASSUME PoolIInv, [PoolNext]_pool, ~wrapped' PROVE BuffersMapped'
  BY DEF BuffersMapped
<1> USE DEF BuffersMapped
<1>0. PoolTypeOK /\ BuffersApart
  BY DEF PoolIInv
<1>1. ASSUME NEW size \in Sizes, BeginAlloc(size) PROVE BuffersMapped'
  BY <1>0, <1>1, BeginAllocEffect DEF PoolIInv
<1>2. CASE AllocPage
  <2>1. PICK f \in Frames : /\ f # Unmapped
                            /\ pt' = [pt EXCEPT ![buf.virt + pool_offset] = f]
    BY <1>0, <1>2, AllocPageEffect
  <2>2. /\ pool_pc = "alloc" /\ pool_offset < buf.pages /\ buf.virt + pool_offset \in Pages
        /\ buffers' = buffers /\ ~wrapped
    BY <1>0, <1>2, AllocPageEffect
  <2>3. ASSUME NEW b \in buffers
        PROVE  b.virt \in Pages /\ b.virt # buf.virt + pool_offset
    BY <1>0, <2>2 DEF PoolTypeOK, BuffersApart, Apart, Buffer, Pages
  <2>4. pt \in [Pages -> Frames \cup {Unmapped}]
    BY <1>0 DEF PoolTypeOK
  <2> QED
    BY <2>1, <2>2, <2>3, <2>4 DEF PoolIInv
<1>3. CASE AllocReturns
  <2>1. /\ pool_pc = "alloc" /\ pool_offset = buf.pages /\ ~wrapped
        /\ buffers' = buffers \cup {buf} /\ pt' = pt
    BY <1>3 DEF AllocReturns
  <2>2. buf.pages > 0
    BY <1>0 DEF PoolTypeOK, Buffer
  <2>3. /\ \A p \in Pages : (buf.virt <= p /\ p < buf.virt + buf.pages) => pt[p] # Unmapped
        /\ buf.phys = pt[buf.virt]
    BY <2>1, <2>2 DEF PoolIInv, AllocProgress
  <2> QED
    BY <2>1, <2>3 DEF PoolIInv
<1>4. CASE AllocFails \/ FreeReturns
  BY <1>4 DEF AllocFails, FreeReturns, PoolIInv
<1>5. ASSUME NEW b \in buffers, BeginFree(b) PROVE BuffersMapped'
  BY <1>5 DEF BeginFree, PoolIInv
<1>6. CASE FreePage
  <2>1. /\ pool_pc = "free" /\ pool_offset < buf.pages /\ buf.virt + pool_offset \in Pages
        /\ pt' = [pt EXCEPT ![buf.virt + pool_offset] = Unmapped]
        /\ buffers' = buffers /\ ~wrapped
    BY <1>0, <1>6, FreePageEffect
  <2>2. ASSUME NEW b \in buffers
        PROVE  /\ b.virt \in Pages /\ b.virt # buf.virt + pool_offset
               /\ ~(b.virt <= buf.virt + pool_offset /\ buf.virt + pool_offset < b.virt + b.pages)
    BY <1>0, <2>1 DEF PoolTypeOK, BuffersApart, Apart, Buffer, Pages
  <2>3. pt \in [Pages -> Frames \cup {Unmapped}]
    BY <1>0 DEF PoolTypeOK
  <2> QED
    BY <2>1, <2>2, <2>3 DEF PoolIInv
<1>7. CASE UNCHANGED pool
  BY <1>7 DEF pool, PoolIInv
<1> QED
  BY <1>1, <1>2, <1>3, <1>4, <1>5, <1>6, <1>7 DEF PoolNext

LEMMA StepPoolIInv == PoolIInv /\ [PoolNext]_pool => PoolIInv'
  BY PoolTypeStep, ExclusiveStep, ProgressStep, FreshStep, ApartStep, MappedStep DEF PoolIInv

THEOREM PoolInvariance == PoolSpec => []PoolIInv
  BY InitPoolIInv, StepPoolIInv, PTL DEF PoolSpec

LEMMA PoolIInvIntact == PoolIInv => BuffersIntact
<1> SUFFICES ASSUME PoolIInv, ~wrapped, NEW b \in buffers
    PROVE  /\ \A p \in PagesOf(b) : pt[p] # Unmapped
           /\ b.phys = pt[b.virt]
           /\ \A c \in buffers \ {b} : PagesOf(c) \cap PagesOf(b) = {}
  BY DEF BuffersIntact
<1>1. /\ b \in Buffer /\ b.virt + b.pages <= WINDOW_PAGES
      /\ b.virt \in Nat /\ b.pages \in Nat
  BY DEF PoolIInv, PoolTypeOK, Buffer, Pages
<1>2. \A p \in PagesOf(b) : p \in Pages /\ b.virt <= p /\ p < b.virt + b.pages
  BY <1>1, WindowAssumption DEF PagesOf, Pages
<1>3. ASSUME NEW c \in buffers \ {b} PROVE PagesOf(c) \cap PagesOf(b) = {}
  <2>1. c.virt \in Nat /\ c.pages \in Nat
    BY DEF PoolIInv, PoolTypeOK, Buffer, Pages
  <2>2. Apart(b, c)
    BY DEF PoolIInv, BuffersApart
  <2> QED
    BY <1>1, <2>1, <2>2 DEF Apart, PagesOf
<1> QED
  BY <1>2, <1>3 DEF PoolIInv, BuffersMapped

(***************************************************************************)
(* Until the cursor wraps, a buffer handed out is completely mapped, owns  *)
(* its pages alone, and has the physical address of its first page.        *)
(***************************************************************************)
THEOREM BuffersStayIntact == PoolSpec => []BuffersIntact
  BY PoolInvariance, PoolIInvIntact, PTL

(***************************************************************************)
(* A step that changes the mapping of a page is AllocPage or FreePage, and *)
(* neither page belongs to a buffer that is handed out.                    *)
(***************************************************************************)
LEMMA LiveStep ==
  ASSUME NEW b \in buffers \cap buffers', NEW p \in PagesOf(b)
  PROVE  PoolIInv /\ [PoolNext]_pool /\ ~wrapped' => pt'[p] = pt[p]
<1> SUFFICES ASSUME PoolIInv, [PoolNext]_pool, ~wrapped' PROVE pt'[p] = pt[p]
  OBVIOUS
<1>0. PoolTypeOK /\ BuffersApart
  BY DEF PoolIInv
<1>1. p \in Int /\ b.virt <= p /\ p < b.virt + b.pages
  BY <1>0 DEF PoolTypeOK, Buffer, Pages, PagesOf
<1>2. CASE AllocPage
  <2>1. PICK f \in Frames : pt' = [pt EXCEPT ![buf.virt + pool_offset] = f]
    BY <1>0, <1>2, AllocPageEffect
  <2>2. pool_pc = "alloc" /\ pool_offset < buf.pages /\ ~wrapped
    BY <1>0, <1>2, AllocPageEffect
  <2>3. p # buf.virt + pool_offset
    BY <1>0, <1>1, <2>2 DEF PoolTypeOK, BuffersApart, Apart, Buffer, Pages
  <2> QED
    BY <1>0, <2>1, <2>3 DEF PoolTypeOK
<1>3. CASE FreePage
  <2>1. /\ pt' = [pt EXCEPT ![buf.virt + pool_offset] = Unmapped]
        /\ pool_pc = "free" /\ pool_offset < buf.pages /\ ~wrapped
    BY <1>0, <1>3, FreePageEffect
  <2>2. p # buf.virt + pool_offset
    BY <1>0, <1>1, <2>1 DEF PoolTypeOK, BuffersApart, Apart, Buffer, Pages
  <2> QED
    BY <1>0, <2>1, <2>2 DEF PoolTypeOK
<1>4. CASE UNCHANGED pt
  BY <1>4
<1> QED
  BY <1>2, <1>3, <1>4
  DEF PoolNext, BeginAlloc, AllocFails, AllocReturns, BeginFree, FreeReturns, pool

(***************************************************************************)
(* Until the cursor wraps, no call changes the mapping of a buffer that    *)
(* stays handed out.                                                       *)
(***************************************************************************)
THEOREM LiveMappingsStay == PoolSpec => LiveMappingsKept
<1>1. PoolIInv /\ [PoolNext]_pool =>
        [~wrapped' => \A b \in buffers \cap buffers' :
            \A p \in PagesOf(b) : pt'[p] = pt[p]]_pool
  BY LiveStep
<1> QED
  BY <1>1, PoolInvariance, PTL DEF PoolSpec, LiveMappingsKept

(***************************************************************************)
(* The accounts: until the cursor wraps, every mapped page is abandoned,   *)
(* in a buffer, or in the part of a request that the running call has      *)
(* mapped or has still to unmap; and the bitmap holds the mapped frames.   *)
(***************************************************************************)
InBuf(p, b) == b.virt <= p /\ p < b.virt + b.pages

InCall(p) ==
  \/ pool_pc = "alloc" /\ buf.virt <= p /\ p < buf.virt + pool_offset
  \/ pool_pc = "free" /\ buf.virt + pool_offset <= p /\ p < buf.virt + buf.pages

Accounted(p) == p \in abandoned \/ (\E b \in buffers : InBuf(p, b)) \/ InCall(p)

Accounts ==
  ~wrapped =>
    /\ \A f \in dma_bitmap : \E p \in Pages : pt[p] = f
    /\ \A p \in Pages : pt[p] # Unmapped => Accounted(p)
    /\ \A p \in Pages : Accounted(p) => pt[p] # Unmapped
    /\ \A p \in abandoned :
         /\ p < dma_heap_curr
         /\ \A b \in buffers : ~InBuf(p, b)
         /\ pool_pc # "idle" => ~InBuf(p, buf)

LEMMA AccountsStep == PoolIInv /\ Accounts /\ [PoolNext]_pool => Accounts'
<1> SUFFICES ASSUME PoolIInv, Accounts, [PoolNext]_pool, ~wrapped' PROVE Accounts'
  BY DEF Accounts
<1> USE DEF Accounts, Accounted, InCall, InBuf
<1>0. PoolTypeOK /\ BuffersApart /\ FreshPages /\ FramesExclusive
  BY DEF PoolIInv
<1>1. ASSUME NEW size \in Sizes, BeginAlloc(size) PROVE Accounts'
  <2>1. /\ buf' \in Buffer /\ pool_pc = "idle" /\ pool_pc' = "alloc" /\ pool_offset' = 0
        /\ dma_heap_curr' = buf'.virt + buf'.pages
        /\ ~wrapped /\ buf'.virt = dma_heap_curr
        /\ UNCHANGED <<dma_bitmap, pt, buffers, abandoned>>
    BY <1>0, <1>1, BeginAllocEffect
  <2>2. abandoned \subseteq Pages
    BY <1>0 DEF PoolTypeOK
  <2> QED
    BY <2>1, <2>2 DEF Buffer, Pages
<1>2. CASE AllocPage
  <2> DEFINE q == buf.virt + pool_offset
  <2>1. PICK f \in Frames : /\ f # Unmapped
                            /\ dma_bitmap' = dma_bitmap \cup {f}
                            /\ pt' = [pt EXCEPT ![q] = f]
    BY <1>0, <1>2, AllocPageEffect
  <2>2. /\ pool_pc = "alloc" /\ pool_pc' = pool_pc /\ pool_offset < buf.pages /\ pool_offset' = pool_offset + 1
        /\ q \in Pages /\ buf'.virt = buf.virt /\ buf'.pages = buf.pages
        /\ buffers' = buffers /\ ~wrapped /\ dma_heap_curr' = dma_heap_curr
        /\ abandoned' = abandoned
    BY <1>0, <1>2, AllocPageEffect
  <2>3. pt[q] = Unmapped
    BY <1>0, <2>2 DEF FreshPages, Unreached, PoolTypeOK, Buffer, Pages
  <2>4. /\ pt \in [Pages -> Frames \cup {Unmapped}] /\ dma_bitmap \subseteq Frames
        /\ pool_offset \in Nat /\ buf.virt \in Nat
    BY <1>0 DEF PoolTypeOK, Buffer, Pages
  <2>5. \A g \in dma_bitmap' : \E p \in Pages : pt'[p] = g
    <3>1. ASSUME NEW g \in dma_bitmap PROVE \E p \in Pages : pt'[p] = g
      <4>1. PICK p \in Pages : pt[p] = g
        BY <2>2
      <4>2. p # q
        BY <4>1, <2>3, <2>4, UnmappedAssumption
      <4> QED
        BY <4>1, <4>2, <2>1, <2>4
    <3> QED
      BY <3>1, <2>1, <2>2, <2>4
  <2>6. \A p \in Pages : Accounted(p)' <=> (Accounted(p) \/ p = q)
    BY <2>2, <2>4 DEF Pages
  <2>7. \A p \in Pages : pt'[p] # Unmapped <=> (pt[p] # Unmapped \/ p = q)
    BY <2>1, <2>2, <2>4
  <2> QED
    BY <2>2, <2>5, <2>6, <2>7
<1>3. CASE AllocFails
  <2>1. /\ pool_pc = "alloc" /\ pool_pc' = "idle" /\ pool_offset < buf.pages /\ ~wrapped
        /\ abandoned' = abandoned \cup (buf.virt .. buf.virt + pool_offset - 1)
        /\ UNCHANGED <<dma_bitmap, pt, dma_heap_curr, buf, pool_offset, buffers>>
    BY <1>3 DEF AllocFails
  <2>2. /\ pool_offset \in Nat /\ buf.virt \in Nat /\ buf.pages \in Nat
        /\ \A b \in buffers : b.virt \in Nat /\ b.pages \in Nat
        /\ dma_heap_curr \in Nat
    BY <1>0 DEF PoolTypeOK, Buffer, Pages
  <2>3. buf.virt + buf.pages <= dma_heap_curr
    BY <1>0, <2>1 DEF FreshPages
  <2>4. \A b \in buffers : Apart(b, buf)
    BY <1>0, <2>1 DEF BuffersApart
  <2>5. \A p \in Pages : Accounted(p)' <=> Accounted(p)
    BY <2>1, <2>2 DEF Pages
  <2>6. \A p \in abandoned' : p < dma_heap_curr' /\ \A b \in buffers' : ~InBuf(p, b)'
    BY <2>1, <2>2, <2>3, <2>4 DEF Apart
  <2> QED
    BY <2>1, <2>5, <2>6
<1>4. CASE AllocReturns
  <2>1. /\ pool_pc = "alloc" /\ pool_pc' = "idle" /\ pool_offset = buf.pages /\ ~wrapped
        /\ buffers' = buffers \cup {buf}
        /\ UNCHANGED <<dma_bitmap, pt, dma_heap_curr, buf, pool_offset, abandoned>>
    BY <1>4 DEF AllocReturns
  <2>2. \A p \in Pages : Accounted(p)' <=> Accounted(p)
    BY <2>1
  <2> QED
    BY <2>1, <2>2
<1>5. ASSUME NEW b \in buffers, BeginFree(b) PROVE Accounts'
  <2>1. /\ pool_pc = "idle" /\ pool_pc' = "free" /\ pool_offset' = 0 /\ buf' = b /\ ~wrapped
        /\ buffers' = buffers \ {b}
        /\ UNCHANGED <<dma_bitmap, pt, dma_heap_curr, abandoned>>
    BY <1>5 DEF BeginFree
  <2>2. b.virt \in Nat /\ b.pages \in Nat
    BY <1>0 DEF PoolTypeOK, Buffer, Pages
  <2>3. \A p \in Pages : Accounted(p)' <=> Accounted(p)
    BY <2>1, <2>2
  <2> QED
    BY <2>1, <2>3
<1>6. CASE FreePage
  <2> DEFINE q == buf.virt + pool_offset
  <2>1. /\ pool_pc = "free" /\ pool_pc' = pool_pc /\ pool_offset < buf.pages /\ pool_offset' = pool_offset + 1
        /\ q \in Pages /\ dma_bitmap' = dma_bitmap \ {pt[q]}
        /\ pt' = [pt EXCEPT ![q] = Unmapped] /\ ~wrapped
        /\ UNCHANGED <<dma_heap_curr, buf, buffers, abandoned>>
    BY <1>0, <1>6, FreePageEffect
  <2>2. /\ pt \in [Pages -> Frames \cup {Unmapped}] /\ dma_bitmap \subseteq Frames
        /\ pool_offset \in Nat /\ buf.virt \in Nat /\ buf.pages \in Nat
        /\ \A b \in buffers : b.virt \in Nat /\ b.pages \in Nat
    BY <1>0 DEF PoolTypeOK, Buffer, Pages
  <2>3. InBuf(q, buf)
    BY <2>1, <2>2
  <2>4. \A b \in buffers : ~InBuf(q, b)
    BY <1>0, <2>1, <2>2, <2>3 DEF BuffersApart, Apart
  <2>5. q \notin abandoned
    BY <2>1, <2>3
  <2>6. \A p \in Pages : Accounted(p)' <=> (Accounted(p) /\ p # q)
    BY <2>1, <2>2, <2>4, <2>5 DEF Pages
  <2>7. \A p \in Pages : pt'[p] # Unmapped <=> (pt[p] # Unmapped /\ p # q)
    BY <2>1, <2>2
  <2>8. \A f \in dma_bitmap' : \E p \in Pages : pt'[p] = f
    BY <2>1, <2>2
  <2> QED
    BY <2>1, <2>6, <2>7, <2>8
<1>7. CASE FreeReturns
  <2>1. /\ pool_pc = "free" /\ pool_pc' = "idle" /\ pool_offset = buf.pages /\ ~wrapped
        /\ UNCHANGED <<dma_bitmap, pt, dma_heap_curr, buf, pool_offset, buffers, abandoned>>
    BY <1>7 DEF FreeReturns
  <2>2. \A p \in Pages : Accounted(p)' <=> Accounted(p)
    BY <1>0, <2>1 DEF PoolTypeOK, Buffer, Pages
  <2> QED
    BY <2>1, <2>2
<1>8. CASE UNCHANGED pool
  BY <1>8 DEF pool
<1> QED
  BY <1>1, <1>2, <1>3, <1>4, <1>5, <1>6, <1>7, <1>8 DEF PoolNext

LEMMA AccountsNoneLost == PoolIInv /\ Accounts => NoFrameLost
<1> SUFFICES ASSUME PoolIInv, Accounts, ~wrapped, pool_pc = "idle"
    PROVE  dma_bitmap = FramesAt(abandoned \cup UNION {PagesOf(b) : b \in buffers})
  BY DEF NoFrameLost
<1> DEFINE Owned == abandoned \cup UNION {PagesOf(b) : b \in buffers}
<1>0. PoolTypeOK /\ FramesExclusive
  BY DEF PoolIInv
<1>1. \A p \in Pages : p \in Owned <=> Accounted(p)
  BY <1>0 DEF PoolTypeOK, Buffer, Pages, PagesOf, Accounted, InCall, InBuf
<1>2. Owned \subseteq Pages
  <2>1. ASSUME NEW b \in buffers PROVE PagesOf(b) \subseteq Pages
    <3>1. b.virt \in Nat /\ b.pages \in Nat /\ b.virt + b.pages <= WINDOW_PAGES
      BY <1>0 DEF PoolTypeOK, Buffer, Pages
    <3> QED
      BY <3>1, WindowAssumption DEF PagesOf, Pages
  <2> QED
    BY <1>0, <2>1 DEF PoolTypeOK
<1>3. ASSUME NEW f \in dma_bitmap PROVE f \in FramesAt(Owned)
  <2>1. PICK p \in Pages : pt[p] = f
    BY DEF Accounts
  <2>2. f # Unmapped
    BY <1>0, UnmappedAssumption DEF PoolTypeOK
  <2>3. p \in Owned
    BY <1>1, <2>1, <2>2 DEF Accounts
  <2> QED
    BY <2>1, <2>2, <2>3 DEF FramesAt
<1>4. ASSUME NEW f \in FramesAt(Owned) PROVE f \in dma_bitmap
  BY <1>0, <1>2, <1>4 DEF FramesAt, FramesExclusive
<1> QED
  BY <1>3, <1>4

(***************************************************************************)
(* Until the cursor wraps, between two calls every frame that the bitmap   *)
(* holds is mapped by a buffer that is handed out, or was abandoned by an  *)
(* allocation that failed: nothing else is ever lost.                      *)
(***************************************************************************)
THEOREM NoFrameIsLost == PoolSpec => []NoFrameLost
<1>1. PoolInit => Accounts
  <2> SUFFICES ASSUME PoolInit PROVE Accounts
    OBVIOUS
  <2>1. \A p \in Pages : pt[p] = Unmapped
    BY DEF PoolInit
  <2>2. \A p \in Pages : ~Accounted(p)
    BY DEF PoolInit, Accounted, InCall
  <2> QED
    BY <2>1, <2>2 DEF PoolInit, Accounts
<1> QED
  BY <1>1, PoolInvariance, AccountsStep, AccountsNoneLost, PTL DEF PoolSpec

(***************************************************************************)
(* Reading a file.  The frames that the bitmap holds are always the        *)
(* lowest: calls take and return buffers like a stack, with n frames below *)
(* the buffer of the running call.  This gives the contiguous transfers,   *)
(* and tells a new buffer from a leaked one also after the window has      *)
(* wrapped.                                                                *)
(***************************************************************************)

(***************************************************************************)
(* The file system as the pool's client                                    *)
(***************************************************************************)
LEMMA PoolActions ==
  ASSUME [Next]_vars
  PROVE  [PoolNext]_pool
<1>1. ASSUME NEW size \in {ClusterBytes, SectorBytes}, NEW where, Take(size, where)
      PROVE  PoolNext
  BY <1>1, BuffersAssumption DEF Take, PoolNext
<1>2. ASSUME NEW where, Allocated, GiveBack(where)
      PROVE  PoolNext
  BY <1>2 DEF GiveBack, Allocated, PoolNext
<1>3. ASSUME PoolStep PROVE PoolNext
  BY <1>3 DEF PoolStep, PoolNext
<1>4. CASE MainTakes \/ NextTakes \/ LookupTakes
  BY <1>1, <1>4 DEF MainTakes, NextTakes, LookupTakes
<1>5. CASE DataFails \/ DataCopied \/ NextFails \/ NextReads \/ LookupFindsNothing
  BY <1>2, <1>5 DEF DataFails, DataCopied, NextFails, NextReads, LookupFindsNothing
<1>6. CASE PoolStep
  BY <1>3, <1>6
<1>7. CASE UNCHANGED pool
  BY <1>7 DEF pool, pool
<1>. QED
  BY <1>4, <1>5, <1>6, <1>7
     DEF Next, Begin, Work, vars, ReadCall, ReadPastEnd, SkipLoop, Skipped, MainStops,
         DataNoBuffer, Advanced, ReadReturns, NextRejects, NextWithoutBuffer,
         LookupFinds, LookupWithoutBuffer

\* The file system uses the pool as DmaPool has it: every call of Fat32Read
\* and Fat32Lookup asks for a size that fits and hands back only what it was
\* given, once.
THEOREM KeepsToThePool == Spec => PoolSpec
<1>1. Init => PoolInit
  BY DEF Init
<1>. QED
  BY <1>1, PoolActions, PTL DEF Spec, PoolSpec

LEMMA PoolTypes ==
  ASSUME PoolTypeOK, [Next]_vars
  PROVE  PoolTypeOK'
BY PoolActions, PoolTypeStep

\* Until the window wraps, no read and no lookup has a buffer of which a
\* page belongs to another one or is not mapped.
THEOREM ReadersBuffersIntact == Spec => []BuffersIntact
BY KeepsToThePool, BuffersStayIntact, PTL

(***************************************************************************)
(* The locals of a read between its steps                                  *)
(***************************************************************************)
Locals ==
  /\ fat \in [Clusters -> Entries] /\ node \in [first : 0 .. EOC, size : Nat]
  /\ pc \in {"ready", "skip", "skipped", "main", "data", "advanced", "next", "fat",
             "lookup", "return"}
  /\ back \in {"main", "skipped", "advanced"}
  /\ cluster \in 0 .. EOC /\ offset \in Nat /\ remaining \in Nat
  /\ chain_count \in 0 .. MAX_CLUSTERS_CHAIN
  /\ failed \in BOOLEAN /\ starved \in BOOLEAN

\* Where in a cluster the offset points: past it while clusters are skipped.
InCluster ==
  /\ pc \in {"main", "data", "advanced"} => offset < CLUSTER_UNITS
  /\ pc = "skipped" => offset >= CLUSTER_UNITS
  /\ pc = "fat" => cluster \in Clusters
  /\ pc \in {"next", "fat"} =>
       \/ back = "skipped" /\ offset >= CLUSTER_UNITS
       \/ back = "advanced" /\ offset < CLUSTER_UNITS

\* Entries are no clusters that the disk does not have.
LEMMA EntryIsCluster ==
  ASSUME NEW c, NEW raw \in Entries
  PROVE  Entry(c, raw) \in 0 .. EOC
BY VolumeAssumption DEF Entry, Entries, Clusters, BAD, EOC

LEMMA LocalsStep ==
  ASSUME Locals, InCluster, [Next]_vars
  PROVE  Locals' /\ InCluster'
<1> USE DEF Locals, InCluster
<1> EOC \in Nat /\ CLUSTER_UNITS \in Nat \ {0} /\ MAX_CLUSTERS_CHAIN \in Nat
  BY VolumeAssumption, UnitsAssumption, CallsAssumption DEF EOC
<1>1. ASSUME NEW off \in Offsets, NEW len \in Lengths, ReadCall(off, len)
      PROVE  Locals' /\ InCluster'
  <2>1. off \in Nat /\ len \in Nat /\ Remaining(off, len) \in Nat
    BY <1>1, CallsAssumption DEF Remaining, ReadCall
  <2>2. /\ cluster' = node.first /\ offset' \in Nat /\ remaining' \in Nat /\ chain_count' = 0
        /\ failed' = FALSE /\ starved' = FALSE /\ pc' = "skip" /\ UNCHANGED <<fat, node, back>>
    BY <1>1, <2>1 DEF ReadCall, disk
  <2>3. cluster' \in 0 .. EOC /\ chain_count' \in 0 .. MAX_CLUSTERS_CHAIN
    BY <2>2
  <2>4. Locals'
    BY <2>2, <2>3
  <2>. QED
    BY <2>2, <2>4
<1>2. ASSUME NEW off \in Offsets, NEW len \in Lengths, ReadPastEnd(off, len)
      PROVE  Locals' /\ InCluster'
  BY <1>2 DEF ReadPastEnd, At, disk, locals
<1>3. CASE PoolStep
  BY <1>3 DEF PoolStep, disk, locals
<1>4. CASE SkipLoop \/ Skipped
  BY <1>4 DEF SkipLoop, Skipped, At, disk, locals, io
<1>5. CASE MainStops \/ MainTakes \/ DataNoBuffer \/ DataFails \/ Advanced \/ ReadReturns
  <2>1. CASE MainStops \/ DataNoBuffer \/ ReadReturns
    BY <2>1 DEF MainStops, DataNoBuffer, ReadReturns, At, disk, locals, io
  <2>2. CASE MainTakes
    <3>1. /\ pc = "main" /\ pc' = "data" /\ chain_count' = chain_count + 1
          /\ chain_count + 1 <= MAX_CLUSTERS_CHAIN
          /\ UNCHANGED <<fat, node, back, cluster, offset, remaining, failed, starved>>
      BY <2>2 DEF MainTakes, At, Take, disk, io
    <3>. QED
      BY <3>1
  <2>3. CASE DataFails
    BY <2>3 DEF DataFails, At, GiveBack, disk, locals
  <2>4. CASE Advanced
    BY <2>4 DEF Advanced, At, disk, locals, io
  <2>. QED
    BY <1>5, <2>1, <2>2, <2>3, <2>4
<1>6. CASE DataCopied
  <2>1. ReadLen \in Nat /\ ReadLen <= remaining
    BY <1>6 DEF DataCopied, At, ReadLen
  <2>. QED
    BY <1>6, <2>1 DEF DataCopied, At, GiveBack, disk
<1>7. CASE NextRejects \/ NextTakes \/ NextFails
  <2>1. CASE NextTakes
    BY <2>1 DEF NextTakes, At, Take, disk, locals, io
  <2>2. CASE NextRejects
    BY <2>2 DEF NextRejects, At, disk, io
  <2>3. CASE NextFails
    BY <2>3 DEF NextFails, At, GiveBack, disk
  <2>. QED
    BY <1>7, <2>1, <2>2, <2>3
<1>8. CASE NextReads
  <2>1. cluster' \in 0 .. EOC
    <3>1. cluster \in Clusters
      BY <1>8 DEF NextReads, At
    <3>2. fat[cluster] \in Entries /\ cluster' = Entry(cluster, fat[cluster])
      BY <1>8, <3>1 DEF NextReads
    <3>. QED
      BY <3>2, EntryIsCluster
  <2>. QED
    BY <1>8, <2>1 DEF NextReads, At, GiveBack, disk, io
<1>9. CASE NextWithoutBuffer
  <2>1. cluster' \in 0 .. EOC
    BY <1>9, EntryIsCluster DEF NextWithoutBuffer
  <2>. QED
    BY <1>9, <2>1 DEF NextWithoutBuffer, At, disk, io
<1>10. CASE LookupTakes \/ LookupFinds \/ LookupFindsNothing \/ LookupWithoutBuffer
  BY <1>10 DEF LookupTakes, LookupFinds, LookupFindsNothing, LookupWithoutBuffer,
               At, Take, GiveBack, disk, locals, io
<1>11. CASE UNCHANGED vars
  BY <1>11 DEF vars, disk, locals, io
<1>. QED
  BY <1>1, <1>2, <1>3, <1>4, <1>5, <1>6, <1>7, <1>8, <1>9, <1>10, <1>11 DEF Next, Begin, Work

(***************************************************************************)
(* The stack of frames.  n of them lie below the running call's buffer.    *)
(***************************************************************************)
Waiting == pc \in {"data", "fat", "lookup"}

\* The pages of buf from the one at j to the one before k.
Filled(n, j, k) == \A i \in j .. k - 1 : pt[buf.virt + i] = n + i

\* There is no buffer: the call has none, or palloc_aligned_DMA gave it none.
Empty(n) ==
  /\ pool_pc = "idle" /\ buffers = leaked
  /\ dma_bitmap = 0 .. n - 1
  /\ Waiting => buf \notin leaked

Taking(n) ==
  /\ pool_pc = "alloc" /\ buffers = leaked /\ Waiting
  /\ dma_bitmap = 0 .. n + pool_offset - 1
  /\ Filled(n, 0, pool_offset)
  /\ buf.phys = IF pool_offset = 0 THEN Unmapped ELSE n

Lent(n) ==
  /\ pool_pc = "idle" /\ buffers = leaked \cup {buf} /\ buf \notin leaked /\ Waiting
  /\ dma_bitmap = 0 .. n + buf.pages - 1
  /\ Filled(n, 0, buf.pages) /\ buf.phys = n

Returning(n) ==
  /\ pool_pc = "free" /\ buffers = leaked /\ ~Waiting
  /\ dma_bitmap = (0 .. n - 1) \cup (n + pool_offset .. n + buf.pages - 1)
  /\ Filled(n, pool_offset, buf.pages)

LeakedBelow(n) == \A b \in leaked : b.phys \in 0 .. n - 1

Stack(n) ==
  /\ n \in Nat /\ LeakedBelow(n)
  /\ Empty(n) \/ Taking(n) \/ Lent(n) \/ Returning(n)

IInv == Locals /\ InCluster /\ PoolTypeOK /\ \E n \in Nat : Stack(n)

LEMMA PoolBounds ==
  ASSUME PoolTypeOK
  PROVE  /\ buf.virt \in Nat /\ buf.pages \in Nat /\ buf.pages >= 1 /\ pool_offset \in Nat
         /\ pool_offset <= buf.pages
         /\ pool_pc # "idle" => \A i \in 0 .. buf.pages - 1 : buf.virt + i \in Pages
         /\ pt \in [Pages -> Frames \cup {Unmapped}]
         /\ dma_bitmap \subseteq Frames
<1>1. WINDOW_PAGES \in Nat /\ buf \in Buffer
  BY WindowAssumption DEF PoolTypeOK
<1>2. buf.virt \in Nat /\ buf.pages \in Nat /\ buf.pages >= 1
  BY <1>1 DEF Buffer, Pages
<1>3. pool_pc # "idle" => \A i \in 0 .. buf.pages - 1 : buf.virt + i \in Pages
  BY <1>1, <1>2 DEF PoolTypeOK, Pages
<1>. QED
  BY <1>2, <1>3 DEF PoolTypeOK

\* A buffer is asked for.
LEMMA TakeStack ==
  ASSUME NEW n \in Nat, NEW size, Stack(n), Empty(n), BeginAlloc(size),
         Waiting', leaked' = leaked
  PROVE  Stack(n)'
<1>1. /\ buf'.phys = Unmapped /\ pool_offset' = 0 /\ pool_pc' = "alloc"
      /\ UNCHANGED <<dma_bitmap, buffers>>
  BY DEF BeginAlloc
<1>2. Taking(n)'
  BY <1>1 DEF Taking, Empty, Filled
<1>. QED
  BY <1>2 DEF Stack, LeakedBelow

\* A page of it gets the lowest frame that is free, which is the next one.
LEMMA AllocPageStack ==
  ASSUME NEW n \in Nat, Stack(n), Taking(n), PoolTypeOK, AllocPage,
         Waiting', leaked' = leaked
  PROVE  Stack(n)'
<1>1. PICK f \in FreeFrames :
        /\ \A g \in FreeFrames : f <= g
        /\ dma_bitmap' = dma_bitmap \cup {f}
        /\ pt' = [pt EXCEPT ![buf.virt + pool_offset] = f]
        /\ buf' = IF pool_offset = 0 THEN [buf EXCEPT !.phys = f] ELSE buf
  BY DEF AllocPage, IsFirstFree
<1>2. /\ pool_offset < buf.pages /\ pool_offset' = pool_offset + 1 /\ pool_pc' = "alloc"
      /\ UNCHANGED buffers
  BY DEF AllocPage, Taking
<1>3. f = n + pool_offset
  <2>1. f \in 0 .. DMA_MAX_PAGES - 1 /\ f \notin 0 .. n + pool_offset - 1 /\ DMA_MAX_PAGES \in Nat
    BY <1>1, PoolAssumption DEF FreeFrames, Frames, Taking
  <2>2. n + pool_offset \in FreeFrames
    BY <2>1, PoolBounds DEF FreeFrames, Frames, Taking
  <2>. QED
    BY <1>1, <2>1, <2>2, PoolBounds
<1>4. dma_bitmap' = 0 .. n + pool_offset' - 1
  <2>1. \A k \in Nat : (0 .. k - 1) \cup {k} = 0 .. (k + 1) - 1
    OBVIOUS
  <2>2. n + pool_offset \in Nat /\ n + pool_offset' = (n + pool_offset) + 1
    BY <1>2, PoolBounds
  <2>3. dma_bitmap = 0 .. (n + pool_offset) - 1
    BY PoolBounds DEF Taking
  <2>4. dma_bitmap' = dma_bitmap \cup {n + pool_offset}
    BY <1>1, <1>3
  <2>5. n + pool_offset' - 1 = ((n + pool_offset) + 1) - 1
    BY <1>2, PoolBounds
  <2>. QED
    BY <2>1, <2>2, <2>3, <2>4, <2>5
<1>5. buf'.virt = buf.virt /\ buf'.phys = n
  <2>1. buf \in Buffer
    BY DEF PoolTypeOK
  <2>. QED
    BY <1>1, <1>3, <2>1, PoolBounds DEF Taking, Buffer
<1>6. Filled(n, 0, pool_offset)'
  <2>1. buf.virt + pool_offset \in Pages /\ pt \in [Pages -> Frames \cup {Unmapped}]
    BY <1>2, PoolBounds DEF Taking
  <2>2. ASSUME NEW i \in 0 .. pool_offset' - 1
        PROVE  pt'[buf'.virt + i] = n + i
    <3>1. buf.virt + i \in Pages
      BY <1>2, PoolBounds DEF Taking
    <3>2. CASE i = pool_offset
      BY <1>1, <1>3, <1>5, <2>1, <3>2
    <3>3. CASE i # pool_offset
      <4>1. i \in 0 .. pool_offset - 1 /\ buf.virt + i # buf.virt + pool_offset
        BY <1>2, <3>3, PoolBounds
      <4>. QED
        BY <1>1, <1>5, <2>1, <3>1, <4>1 DEF Taking, Filled
    <3>. QED
      BY <3>2, <3>3
  <2>. QED
    BY <2>2 DEF Filled
<1>7. Taking(n)'
  BY <1>2, <1>4, <1>5, <1>6, PoolBounds DEF Taking
<1>. QED
  BY <1>7 DEF Stack, LeakedBelow

\* No frame is left: those that were taken stay below all that come later.
LEMMA AllocFailsStack ==
  ASSUME NEW n \in Nat, Stack(n), Taking(n), PoolTypeOK, AllocFails,
         Waiting', leaked' = leaked, NEW m, m = n + pool_offset
  PROVE  m \in Nat /\ Stack(m)'
<1>1. pool_pc' = "idle" /\ UNCHANGED <<dma_bitmap, buf, buffers>>
  BY DEF AllocFails
<1>2. m \in Nat /\ 0 .. n - 1 \subseteq 0 .. m - 1 /\ dma_bitmap = 0 .. m - 1
  BY PoolBounds DEF Taking
<1>3. LeakedBelow(m)'
  BY <1>2 DEF Stack, LeakedBelow
<1>4. buf \notin leaked
  <2>1. 0 .. n - 1 \subseteq Frames /\ Unmapped \notin Frames
    BY <1>2, PoolBounds, UnmappedAssumption
  <2>2. buf.phys \notin 0 .. n - 1
    BY <2>1 DEF Taking
  <2>. QED
    BY <2>2 DEF Stack, LeakedBelow
<1>5. Empty(m)'
  <2>1. buffers' = leaked' /\ dma_bitmap' = 0 .. m - 1 /\ buf' \notin leaked'
    BY <1>1, <1>2, <1>4 DEF Taking
  <2>. QED
    BY <1>1, <2>1 DEF Empty
<1>. QED
  BY <1>2, <1>3, <1>5 DEF Stack

\* The buffer is handed out.  Its frame tells it from those that leaked.
LEMMA AllocReturnsStack ==
  ASSUME NEW n \in Nat, Stack(n), Taking(n), PoolTypeOK, AllocReturns,
         Waiting', leaked' = leaked
  PROVE  Stack(n)'
<1>1. /\ pool_offset = buf.pages /\ buffers' = buffers \cup {buf} /\ pool_pc' = "idle"
      /\ UNCHANGED <<dma_bitmap, pt, buf>>
  BY DEF AllocReturns
<1>2. buf.phys = n
  BY <1>1, PoolBounds DEF Taking
<1>3. buf \notin leaked
  BY <1>2 DEF Stack, LeakedBelow
<1>4. Lent(n)'
  BY <1>1, <1>2, <1>3 DEF Lent, Taking, Filled
<1>. QED
  BY <1>4 DEF Stack, LeakedBelow

\* The buffer is handed back, and its pages are returned one by one.
LEMMA GiveBackStack ==
  ASSUME NEW n \in Nat, Stack(n), Lent(n), PoolTypeOK, BeginFree(buf), ~Waiting', leaked' = leaked
  PROVE  Stack(n)'
<1>1. /\ buffers' = buffers \ {buf} /\ pool_pc' = "free" /\ pool_offset' = 0
      /\ UNCHANGED <<dma_bitmap, pt>> /\ buf' = buf
  BY DEF BeginFree
<1>2. buffers' = leaked'
  BY <1>1 DEF Lent
<1>3. n + pool_offset' = n /\ n + buf.pages - 1 = n + buf'.pages - 1
  BY <1>1
<1>4. dma_bitmap' = (0 .. n - 1) \cup (n .. n + buf.pages - 1)
  <2>1. \A k \in Nat : 0 .. n + k - 1 = (0 .. n - 1) \cup (n .. n + k - 1)
    OBVIOUS
  <2>. QED
    BY <1>1, <2>1, PoolBounds DEF Lent
<1>5. Returning(n)'
  BY <1>1, <1>2, <1>3, <1>4 DEF Returning, Lent, Filled
<1>. QED
  BY <1>5 DEF Stack, LeakedBelow

LEMMA FreePageStack ==
  ASSUME NEW n \in Nat, Stack(n), Returning(n), PoolTypeOK, FreePage,
         ~Waiting', leaked' = leaked
  PROVE  Stack(n)'
<1>1. /\ pool_offset < buf.pages /\ pool_offset' = pool_offset + 1
      /\ dma_bitmap' = dma_bitmap \ {pt[buf.virt + pool_offset]}
      /\ pt' = [pt EXCEPT ![buf.virt + pool_offset] = Unmapped]
      /\ UNCHANGED <<pool_pc, buf, buffers>>
  BY DEF FreePage
<1>2. pt[buf.virt + pool_offset] = n + pool_offset
  BY <1>1, PoolBounds DEF Returning, Filled
<1>3. dma_bitmap' = (0 .. n - 1) \cup (n + pool_offset' .. n + buf.pages - 1)
  <2>1. \A j, k \in Nat : j < k =>
          ((0 .. n - 1) \cup (n + j .. n + k - 1)) \ {n + j} = (0 .. n - 1) \cup (n + (j + 1) .. n + k - 1)
    OBVIOUS
  <2>2. dma_bitmap' = ((0 .. n - 1) \cup (n + pool_offset .. n + buf.pages - 1)) \ {n + pool_offset}
    BY <1>1, <1>2 DEF Returning
  <2>. QED
    BY <1>1, <2>1, <2>2, PoolBounds
<1>4. Filled(n, pool_offset, buf.pages)'
  <2>1. ASSUME NEW i \in pool_offset' .. buf.pages - 1
        PROVE  pt'[buf.virt + i] = n + i
    <3>1. i \in pool_offset .. buf.pages - 1 /\ buf.virt + i # buf.virt + pool_offset
      BY <1>1, PoolBounds
    <3>2. buf.virt + i \in Pages
      BY <1>1, PoolBounds DEF Returning
    <3>. QED
      BY <1>1, <3>1, <3>2, PoolBounds DEF Returning, Filled
  <2>. QED
    BY <1>1, <2>1 DEF Filled
<1>5. Returning(n)'
  BY <1>1, <1>3, <1>4 DEF Returning
<1>. QED
  BY <1>5 DEF Stack, LeakedBelow

LEMMA FreeReturnsStack ==
  ASSUME NEW n \in Nat, Stack(n), Returning(n), PoolTypeOK, FreeReturns,
         ~Waiting', leaked' = leaked
  PROVE  Stack(n)'
<1>1. pool_offset = buf.pages /\ pool_pc' = "idle" /\ UNCHANGED <<dma_bitmap, buffers>>
  BY DEF FreeReturns
<1>2. dma_bitmap = 0 .. n - 1
  BY <1>1, PoolBounds DEF Returning
<1>3. Empty(n)'
  BY <1>1, <1>2 DEF Returning, Empty
<1>. QED
  BY <1>3 DEF Stack, LeakedBelow

\* A lookup succeeds: its buffer stays below all that come later.
LEMMA LookupFindsStack ==
  ASSUME NEW n \in Nat, Stack(n), Lent(n), PoolTypeOK, LookupFinds,
         NEW m, m = n + buf.pages
  PROVE  m \in Nat /\ Stack(m)'
<1>1. leaked' = leaked \cup {buf} /\ pc' = "ready" /\ UNCHANGED <<buffers, dma_bitmap, pool_pc>>
  BY DEF LookupFinds, pool
<1>2. m \in Nat /\ n \in 0 .. m - 1 /\ 0 .. n - 1 \subseteq 0 .. m - 1
  BY PoolBounds
<1>3. LeakedBelow(m)'
  BY <1>1, <1>2 DEF Stack, LeakedBelow, Lent
<1>4. Empty(m)'
  <2>1. dma_bitmap = 0 .. m - 1
    <3>1. n + (buf.pages - 1) = m - 1
      BY PoolBounds
    <3>. QED
      BY <3>1 DEF Lent
  <2>2. buffers' = leaked' /\ ~Waiting'
    BY <1>1 DEF Lent, Waiting
  <2>. QED
    BY <1>1, <2>1, <2>2 DEF Empty, Lent
<1>. QED
  BY <1>2, <1>3, <1>4 DEF Stack

(***************************************************************************)
(* Every step                                                              *)
(***************************************************************************)
\* The pool works while the call waits.
LEMMA PoolStepStack ==
  ASSUME NEW n \in Nat, Stack(n), PoolTypeOK, PoolStep
  PROVE  \E m \in Nat : Stack(m)'
<1>1. leaked' = leaked /\ (Waiting' <=> Waiting)
  BY DEF PoolStep, Waiting
<1>2. CASE Taking(n)
  <2>1. Waiting /\ pool_pc = "alloc"
    BY <1>2 DEF Taking
  <2>2. AllocPage \/ AllocFails \/ AllocReturns
    BY <2>1 DEF PoolStep, FreePage, FreeReturns
  <2>3. n + pool_offset \in Nat
    BY PoolBounds
  <2>. QED
    BY <1>1, <1>2, <2>1, <2>2, <2>3, AllocPageStack, AllocFailsStack, AllocReturnsStack
<1>3. CASE Returning(n)
  <2>1. ~Waiting /\ pool_pc = "free"
    BY <1>3 DEF Returning
  <2>2. FreePage \/ FreeReturns
    BY <2>1 DEF PoolStep, AllocPage, AllocFails, AllocReturns
  <2>. QED
    BY <1>1, <1>3, <2>1, <2>2, FreePageStack, FreeReturnsStack
<1>4. CASE Empty(n) \/ Lent(n)
  BY <1>4 DEF Empty, Lent, PoolStep, AllocPage, AllocFails, AllocReturns,
              FreePage, FreeReturns
<1>. QED
  BY <1>2, <1>3, <1>4 DEF Stack

\* A step of the call that leaves the pool alone, and comes to no place
\* where a buffer is held.
LEMMA ElseStack ==
  ASSUME NEW n \in Nat, Stack(n), UNCHANGED <<leaked, pool>>, PoolIdle,
         ~Waiting', ~Waiting \/ ~Allocated
  PROVE  Stack(n)'
<1>1. Empty(n)
  BY DEF Stack, Taking, Lent, Returning, PoolIdle, Allocated
<1>2. UNCHANGED <<pool_pc, dma_bitmap, buffers, buf>>
  BY DEF pool
<1>3. Empty(n)'
  BY <1>1, <1>2 DEF Empty
<1>. QED
  BY <1>3 DEF Stack, LeakedBelow

LEMMA SameStack ==
  ASSUME NEW n \in Nat, Stack(n), UNCHANGED <<pc, leaked, pool>>
  PROVE  Stack(n)'
BY DEF Stack, LeakedBelow, Empty, Taking, Lent, Returning, Filled, Waiting, pool

LEMMA StackStep ==
  ASSUME IInv, [Next]_vars
  PROVE  \E n \in Nat : Stack(n)'
<1>1. PICK n \in Nat : Stack(n)
  BY DEF IInv
<1>2. PoolTypeOK /\ Locals /\ InCluster
  BY DEF IInv
<1>3. CASE PoolStep
  BY <1>1, <1>2, <1>3, PoolStepStack
<1>4. CASE MainTakes \/ NextTakes \/ LookupTakes
  <2>1. /\ PoolIdle /\ ~Waiting /\ Waiting' /\ leaked' = leaked
        /\ \E size : BeginAlloc(size)
    BY <1>4 DEF MainTakes, NextTakes, LookupTakes, At, Take, Waiting
  <2>2. Empty(n)
    BY <1>1, <2>1 DEF Stack, Taking, Lent, Returning, PoolIdle
  <2>. QED
    BY <1>1, <2>1, <2>2, TakeStack
<1>5. CASE DataFails \/ DataCopied \/ NextFails \/ NextReads \/ LookupFindsNothing
  <2>1. /\ PoolIdle /\ Waiting /\ Allocated /\ ~Waiting' /\ leaked' = leaked
        /\ BeginFree(buf)
    BY <1>2, <1>5 DEF DataFails, DataCopied, NextFails, NextReads, LookupFindsNothing,
                      At, GiveBack, Waiting, Locals
  <2>2. Lent(n)
    BY <1>1, <2>1 DEF Stack, Empty, Taking, Returning, PoolIdle, Allocated
  <2>. QED
    BY <1>1, <1>2, <2>1, <2>2, GiveBackStack
<1>6. CASE LookupFinds
  <2>1. PoolIdle /\ Waiting /\ Allocated
    BY <1>6 DEF LookupFinds, At, Waiting
  <2>2. Lent(n)
    BY <1>1, <2>1 DEF Stack, Empty, Taking, Returning, PoolIdle, Allocated
  <2>3. n + buf.pages \in Nat
    BY <1>2, PoolBounds
  <2>. QED
    BY <1>1, <1>2, <1>6, <2>2, <2>3, LookupFindsStack
<1>7. CASE DataNoBuffer \/ NextWithoutBuffer \/ LookupWithoutBuffer
  <2>1. UNCHANGED <<leaked, pool>> /\ PoolIdle /\ ~Waiting' /\ ~Allocated
    BY <1>2, <1>7 DEF DataNoBuffer, NextWithoutBuffer, LookupWithoutBuffer, At, Waiting, Locals
  <2>. QED
    BY <1>1, <2>1, ElseStack
<1>8. ASSUME NEW off \in Offsets, NEW len \in Lengths, ReadCall(off, len) \/ ReadPastEnd(off, len)
      PROVE  \E m \in Nat : Stack(m)'
  <2>1. UNCHANGED <<leaked, pool>> /\ PoolIdle /\ ~Waiting /\ ~Waiting'
    BY <1>8 DEF ReadCall, ReadPastEnd, At, Waiting
  <2>. QED
    BY <1>1, <2>1, ElseStack
<1>9. CASE SkipLoop \/ Skipped \/ MainStops \/ Advanced \/ ReadReturns \/ NextRejects
  <2>1. UNCHANGED <<leaked, pool>> /\ PoolIdle /\ ~Waiting /\ ~Waiting'
    BY <1>2, <1>9 DEF SkipLoop, Skipped, MainStops, Advanced, ReadReturns, NextRejects,
                      At, Waiting, Locals
  <2>. QED
    BY <1>1, <2>1, ElseStack
<1>10. CASE UNCHANGED vars
  BY <1>1, <1>10, SameStack DEF vars
<1>. QED
  BY <1>3, <1>4, <1>5, <1>6, <1>7, <1>8, <1>9, <1>10 DEF Next, Begin, Work

LEMMA InitIInv == Init => IInv
<1> SUFFICES ASSUME Init PROVE IInv
  OBVIOUS
<1>1. Locals /\ InCluster
  <2>1. node \in [first : 0 .. EOC, size : Nat]
    BY CallsAssumption DEF Init
  <2>2. 0 \in 0 .. EOC /\ 0 \in 0 .. MAX_CLUSTERS_CHAIN
    BY CallsAssumption, VolumeAssumption DEF EOC
  <2>. QED
    BY <2>1, <2>2 DEF Init, Locals, InCluster
<1>2. PoolTypeOK
  <2>1. WINDOW_PAGES \in Nat /\ WINDOW_PAGES > 0
    BY WindowAssumption
  <2>2. 0 \in Pages /\ 1 \in 1 .. WINDOW_PAGES /\ 0 \in 0 .. WINDOW_PAGES
    BY <2>1 DEF Pages
  <2>3. buf \in Buffer /\ buf.pages = 1 /\ pool_offset = 0
    BY <2>2 DEF Init, PoolInit, Buffer
  <2>4. 0 \in 0 .. buf.pages
    BY <2>3
  <2>5. pt \in [Pages -> Frames \cup {Unmapped}]
    BY DEF Init, PoolInit
  <2>. QED
    BY <2>2, <2>3, <2>4, <2>5 DEF Init, PoolInit, PoolTypeOK
<1>3. Stack(0)
  <2>1. 0 .. 0 - 1 = {}
    OBVIOUS
  <2>. QED
    BY <2>1 DEF Init, PoolInit, Stack, LeakedBelow, Empty, Waiting
<1>. QED
  BY <1>1, <1>2, <1>3 DEF IInv

\* The invariant holds in every reachable state.
THEOREM Invariance == Spec => []IInv
<1>1. IInv /\ [Next]_vars => IInv'
  BY LocalsStep, PoolTypes, StackStep DEF IInv
<1>. QED
  BY InitIInv, <1>1, PTL DEF Spec

\* The locals of a read stay in range whatever the FAT holds: the length of
\* a copy never exceeds what remains, and the offset never goes below zero.
THEOREM TypeCorrect == Spec => []TypeOK
<1>1. ASSUME IInv PROVE TypeOK
  <2>1. leaked \subseteq buffers
    BY <1>1 DEF IInv, Stack, Empty, Taking, Lent, Returning
  <2>. QED
    BY <1>1, <2>1 DEF IInv, Locals, TypeOK
<1>. QED
  BY <1>1, Invariance, PTL

\* Every path out of a read or of an unsuccessful lookup has given back its
\* buffer, also when the window has wrapped.
THEOREM OnlyLookupsKeepBuffers == Spec => []OnlyLookupsLeak
<1>1. ASSUME IInv PROVE OnlyLookupsLeak
  BY <1>1 DEF IInv, Stack, Empty, Taking, Lent, Returning, OnlyLookupsLeak, At, PoolIdle, Waiting
<1>. QED
  BY <1>1, Invariance, PTL

\* The frames of a buffer of any size follow one another when the disk gets
\* the address of the first: one PRDT entry for a cluster is right.
THEOREM OneEntryIsEnough == Spec => []TransfersContiguous
<1>1. ASSUME IInv PROVE TransfersContiguous
  <2>1. SUFFICES ASSUME PoolIdle, pc \in {"data", "fat", "lookup"}, Allocated,
                        NEW i \in 0 .. buf.pages - 1
                 PROVE  pt[buf.virt + i] = buf.phys + i
    BY DEF TransfersContiguous
  <2>2. PICK n \in Nat : Stack(n)
    BY <1>1 DEF IInv
  <2>3. Lent(n)
    BY <2>1, <2>2 DEF Stack, Empty, Taking, Returning, PoolIdle, Allocated, Waiting
  <2>. QED
    BY <2>3 DEF Lent, Filled
<1>. QED
  BY <1>1, Invariance, PTL

(***************************************************************************)
(* Division by the size of a cluster.                                      *)
(***************************************************************************)
\* The unit that cluster k of a chain begins at.
Base(k) == k * CLUSTER_UNITS

LEMMA Division ==
  ASSUME NEW i \in Nat
  PROVE  /\ i \div CLUSTER_UNITS \in Nat
         /\ i = Base(i \div CLUSTER_UNITS) + (i % CLUSTER_UNITS)
         /\ i % CLUSTER_UNITS \in 0 .. CLUSTER_UNITS - 1
<1>. DEFINE q == i \div CLUSTER_UNITS
            r == i % CLUSTER_UNITS
<1>1. CLUSTER_UNITS \in Nat /\ CLUSTER_UNITS > 0
  BY UnitsAssumption
<1>2. r \in 0 .. CLUSTER_UNITS - 1
  BY <1>1
<1>3. q \in Int /\ i = CLUSTER_UNITS * q + r
  BY <1>1
<1>. HIDE DEF q, r
<1>4. q >= 0
  <2>1. SUFFICES ASSUME q <= -1 PROVE FALSE
    BY <1>3
  <2>2. CLUSTER_UNITS * q <= -CLUSTER_UNITS
    BY <1>1, <1>3, <2>1
  <2>. QED
    BY <1>1, <1>2, <1>3, <2>2
<1>5. CLUSTER_UNITS * q = q * CLUSTER_UNITS
  BY <1>1, <1>3
<1>6. q \in Nat /\ r \in 0 .. CLUSTER_UNITS - 1
  BY <1>2, <1>3, <1>4
<1>7. i = Base(q) + r
  BY <1>3, <1>5 DEF Base
<1>. QED
  BY <1>6, <1>7, Zenon DEF q, r

LEMMA Bases ==
  /\ Base(0) = 0
  /\ \A k \in Nat : Base(k) \in Nat /\ Base(k + 1) = Base(k) + CLUSTER_UNITS
  /\ \A j, k \in Nat : j < k => Base(j + 1) <= Base(k)
<1>1. Base(0) = 0 /\ \A k \in Nat : Base(k) \in Nat /\ Base(k + 1) = Base(k) + CLUSTER_UNITS
  BY UnitsAssumption DEF Base
<1>2. \A j, k \in Nat : j < k => Base(j + 1) <= Base(k)
  BY UnitsAssumption DEF Base
<1>. QED
  BY <1>1, <1>2

LEMMA Quotient ==
  ASSUME NEW k \in Nat, NEW j \in 0 .. CLUSTER_UNITS - 1
  PROVE  (Base(k) + j) \div CLUSTER_UNITS = k /\ (Base(k) + j) % CLUSTER_UNITS = j
BY UnitsAssumption DEF Base

LEMMA DivisionGrows ==
  ASSUME NEW i \in Nat, NEW j \in Nat, i <= j
  PROVE  i \div CLUSTER_UNITS <= j \div CLUSTER_UNITS
<1>. DEFINE a == i \div CLUSTER_UNITS
            b == j \div CLUSTER_UNITS
<1>1. a \in Nat /\ b \in Nat /\ Base(a) <= i /\ j < Base(b) + CLUSTER_UNITS
  <2>1. CLUSTER_UNITS \in Nat
    BY UnitsAssumption
  <2>2. /\ a \in Nat /\ i = Base(a) + (i % CLUSTER_UNITS) /\ i % CLUSTER_UNITS >= 0
        /\ i % CLUSTER_UNITS \in Int
    BY <2>1, Division
  <2>3. /\ b \in Nat /\ j = Base(b) + (j % CLUSTER_UNITS) /\ j % CLUSTER_UNITS < CLUSTER_UNITS
        /\ j % CLUSTER_UNITS \in Int
    BY <2>1, Division
  <2>. HIDE DEF a, b
  <2>4. Base(a) \in Nat /\ Base(b) \in Nat
    BY <2>2, <2>3, Bases
  <2>. HIDE DEF Base
  <2>5. Base(a) <= i
    BY <2>2, <2>4
  <2>6. j < Base(b) + CLUSTER_UNITS
    BY <2>1, <2>3, <2>4
  <2>. QED
    BY <2>2, <2>3, <2>5, <2>6
<1>. HIDE DEF a, b
<1>2. ~(b < a)
  <2>1. SUFFICES ASSUME b < a PROVE FALSE
    OBVIOUS
  <2>2. Base(b + 1) <= Base(a) /\ Base(b + 1) = Base(b) + CLUSTER_UNITS /\ Base(a) \in Nat
        /\ Base(b) \in Nat
    BY <1>1, <2>1, Bases
  <2>. QED
    BY <1>1, <2>2, UnitsAssumption
<1>3. a <= b
  BY <1>1, <1>2
<1>. QED
  BY <1>3 DEF a, b

(***************************************************************************)
(* The chain and the file it makes.  ChainAt as a constant operator of the *)
(* file's first cluster and the FAT.                                       *)
(***************************************************************************)
NextOnChain(f, c) == IF c \in Clusters /\ f[c] # c /\ f[c] \in Clusters THEN f[c] ELSE EOC

ChainOf(first, f) ==
  LET chain[k \in Nat] == IF k = 0 THEN first ELSE NextOnChain(f, chain[k - 1])
  IN  chain

LEMMA ChainAtIs == ChainAt = ChainOf(node.first, fat)
BY Zenon DEF ChainAt, ChainOf, NextOnChain

IsChain(chain, first, f) ==
  /\ chain \in [Nat -> 0 .. EOC] /\ chain[0] = first
  /\ \A k \in Nat : chain[k + 1] = NextOnChain(f, chain[k])

LEMMA Marks == EOC \in Nat /\ BAD \in Nat /\ EOC = BAD + 1 /\ BAD \notin Clusters /\ EOC \notin Clusters
               /\ 0 \notin Clusters /\ 1 \notin Clusters
               /\ (\A c \in 0 .. EOC : c \in Clusters <=> c >= 2 /\ c < BAD)
BY VolumeAssumption DEF EOC, BAD, Clusters

LEMMA ChainOfIs ==
  ASSUME NEW first \in 0 .. EOC, NEW f
  PROVE  IsChain(ChainOf(first, f), first, f)
<1>. DEFINE next == [p \in Nat \X (0 .. EOC) |-> NextOnChain(f, p[2])]
            Is(g) == g = [k \in Nat |-> IF k = 0 THEN first ELSE NextOnChain(f, g[k - 1])]
            chain == CHOOSE g : Is(g)
<1>1. \A c : NextOnChain(f, c) \in 0 .. EOC
  BY VolumeAssumption DEF NextOnChain, Clusters, EOC
<1>2. PICK h : Recursive(h, 0 .. EOC, first, next)
  <2>1. IsStep(next, 0 .. EOC)
    BY <1>1 DEF IsStep
  <2>. HIDE DEF next
  <2>. QED
    BY <2>1, Recursion
<1>3. Is(h)
  <2>1. ASSUME NEW k \in Nat, k # 0 PROVE h[k] = NextOnChain(f, h[k - 1])
    <3>1. k - 1 \in Nat /\ k - 1 + 1 = k
      BY <2>1
    <3>2. h[k - 1] \in 0 .. EOC /\ h[k] = next[<<k - 1, h[k - 1]>>]
      BY <1>2, <3>1 DEF Recursive
    <3>. QED
      BY <3>1, <3>2
  <2>2. h \in [Nat -> 0 .. EOC] /\ h[0] = first
    BY <1>2 DEF Recursive
  <2>3. h = [k \in Nat |-> h[k]]
    BY <2>2
  <2>. QED
    BY <2>1, <2>2, <2>3
<1>4. Is(chain)
  BY <1>3, Zenon
<1>5. ChainOf(first, f) = chain
  BY Zenon DEF ChainOf
<1>. HIDE DEF chain
<1>6. chain[0] = first /\ \A k \in Nat : chain[k + 1] = NextOnChain(f, chain[k])
  BY <1>4
<1>7. chain \in [Nat -> 0 .. EOC]
  BY <1>1, <1>4
<1>. QED
  BY <1>5, <1>6, <1>7 DEF IsChain

\* A chain that is still going has been going so far.
LEMMA ChainPrefix ==
  ASSUME NEW chain, NEW first, NEW f, IsChain(chain, first, f),
         NEW j \in Nat, NEW k \in Nat, j <= k, chain[k] \in Clusters
  PROVE  chain[j] \in Clusters
<1>. DEFINE T == {n \in Nat : j <= n /\ chain[n] \in Clusters => chain[j] \in Clusters}
<1>1. ASSUME NEW n \in Nat, n \in T PROVE n + 1 \in T
  <2>1. ASSUME j <= n + 1, chain[n + 1] \in Clusters PROVE chain[j] \in Clusters
    <3>1. CASE j = n + 1
      BY <2>1, <3>1
    <3>2. CASE j <= n
      <4>1. chain[n] \in Clusters
        BY <2>1, Marks DEF IsChain, NextOnChain
      <4>. QED
        BY <1>1, <3>2, <4>1
    <3>. QED
      BY <2>1, <3>1, <3>2
  <2>. QED
    BY <2>1
<1>2. 0 \in T
  OBVIOUS
<1>3. \A n \in Nat : n \in T
  <2>. HIDE DEF T
  <2>. QED
    BY <1>1, <1>2, Induction
<1>. QED
  BY <1>3

\* The cluster of a chain that unit i of the file is in, counting from 1.
Holder(chain, i) == chain[(i - 1) \div CLUSTER_UNITS]

\* The units on the medium are the first ones, up to some length.
LEMMA FileIsPrefix ==
  ASSUME NEW chain, NEW first, NEW f, IsChain(chain, first, f), NEW size \in Nat
  PROVE  \E end \in 0 .. size :
            \A i \in 1 .. size : Holder(chain, i) \in Clusters <=> i <= end
<1>1. ASSUME NEW i \in Nat \ {0}, NEW j \in Nat, i <= j, Holder(chain, j) \in Clusters
      PROVE  Holder(chain, i) \in Clusters
  <2>1. i - 1 \in Nat /\ j - 1 \in Nat /\ i - 1 <= j - 1
    BY <1>1
  <2>2. /\ (i - 1) \div CLUSTER_UNITS \in Nat /\ (j - 1) \div CLUSTER_UNITS \in Nat
        /\ (i - 1) \div CLUSTER_UNITS <= (j - 1) \div CLUSTER_UNITS
    BY <2>1, Division, DivisionGrows
  <2>. QED
    BY <1>1, <2>2, ChainPrefix DEF Holder
<1>. DEFINE Cut(n, end) == \A i \in 1 .. n : Holder(chain, i) \in Clusters <=> i <= end
            T == {n \in Nat : \E end \in 0 .. n : Cut(n, end)}
<1>2. 0 \in T
  <2>1. Cut(0, 0) /\ 0 \in 0 .. 0
    OBVIOUS
  <2>. QED
    BY <2>1
<1>3. ASSUME NEW n \in Nat, n \in T PROVE n + 1 \in T
  <2>1. PICK end \in 0 .. n : Cut(n, end)
    BY <1>3
  <2>2. CASE Holder(chain, n + 1) \in Clusters
    <3>1. \A i \in 1 .. n + 1 : Holder(chain, i) \in Clusters
      BY <1>1, <2>2
    <3>2. Cut(n + 1, n + 1)
      BY <3>1
    <3>3. n + 1 \in 0 .. n + 1
      OBVIOUS
    <3>. QED
      BY <3>2, <3>3
  <2>3. CASE Holder(chain, n + 1) \notin Clusters
    <3>1. end \in 0 .. n + 1 /\ ~(n + 1 <= end)
      OBVIOUS
    <3>2. Cut(n + 1, end)
      BY <2>1, <2>3, <3>1
    <3>. QED
      BY <3>1, <3>2
  <2>. QED
    BY <2>2, <2>3
<1>4. size \in T
  <2>. HIDE DEF T
  <2>. QED
    BY <1>2, <1>3, Induction
<1>. QED
  BY <1>4

\* What File is: its length, and its units.
LEMMA FileIs ==
  ASSUME NEW chain, NEW first, IsChain(chain, first, fat), chain = ChainAt, node.size \in Nat
  PROVE  /\ Len(File) \in 0 .. node.size
         /\ \A i \in 1 .. node.size : Holder(chain, i) \in Clusters <=> i <= Len(File)
         /\ \A i \in 1 .. Len(File) : File[i] = <<Holder(chain, i), (i - 1) % CLUSTER_UNITS>>
         /\ File \in Seq((0 .. EOC) \X (0 .. CLUSTER_UNITS - 1))
<1>1. PICK end \in 0 .. node.size :
        \A i \in 1 .. node.size : Holder(chain, i) \in Clusters <=> i <= end
  BY FileIsPrefix
<1>2. OnMedium = 1 .. end
  BY <1>1 DEF OnMedium, Holder
<1>3. Cardinality(OnMedium) = end
  <2>1. end \in Int /\ (end = 0 \/ 1 <= end)
    OBVIOUS
  <2>2. Cardinality(1 .. end) = IF 1 > end THEN 0 ELSE end - 1 + 1
    BY <2>1, FS_Interval
  <2>. QED
    BY <1>2, <2>1, <2>2
<1>4. File = [i \in 1 .. end |-> <<Holder(chain, i), (i - 1) % CLUSTER_UNITS>>]
  BY <1>3 DEF File, Holder
<1>5. ASSUME NEW i \in 1 .. end
      PROVE  <<Holder(chain, i), (i - 1) % CLUSTER_UNITS>> \in (0 .. EOC) \X (0 .. CLUSTER_UNITS - 1)
  <2>1. i - 1 \in Nat
    OBVIOUS
  <2>2. (i - 1) % CLUSTER_UNITS \in 0 .. CLUSTER_UNITS - 1 /\ (i - 1) \div CLUSTER_UNITS \in Nat
    BY <2>1, Division
  <2>. QED
    BY <2>2 DEF Holder, IsChain
<1>6. File \in Seq((0 .. EOC) \X (0 .. CLUSTER_UNITS - 1)) /\ Len(File) = end
  BY <1>4, <1>5
<1>. QED
  BY <1>1, <1>4, <1>6

(***************************************************************************)
(* How far a read has got.  A call that does not get a buffer finds the    *)
(* pool without a free frame, and nothing is freed before it returns: a    *)
(* cluster that fat32_next_cluster makes up is never read.                 *)
(***************************************************************************)
\* The pool has run dry under the call: no buffer is got before it returns.
Dry ==
  /\ dma_bitmap = Frames
  /\ \/ pool_pc = "idle" /\ (Waiting => ~Allocated)
     \/ pool_pc = "alloc" /\ pool_offset = 0

Starving ==
  /\ starved => Dry
  /\ PoolIdle /\ Waiting /\ ~Allocated => starved

\* The cluster in which a read begins, and what the read goes for.
Begun  == request.off \div CLUSTER_UNITS
Wanted == Remaining(request.off, request.len)

\* The local cluster is number k of the chain.  A cluster made up by
\* fat32_next_cluster need not be; an end of the chain made up by it either.
Reached(k) ==
  /\ cluster \in Clusters /\ ~starved => cluster = ChainAt[k]
  /\ ChainAt[k] \in Clusters /\ ~starved /\ ~failed => cluster = ChainAt[k]

\* k clusters in front of the first one to read have been skipped.
Skipping(k) ==
  /\ out = <<>> /\ chain_count = 0 /\ remaining = Wanted
  /\ Base(k) + offset = request.off

\* count clusters have been read, and the next one is to be read from offset.
Copying(count) ==
  /\ count = 0 => out = <<>>
  /\ count >= 1 => offset = 0
  /\ Len(out) + remaining = Wanted
  /\ request.off + Len(out) <= Base(Begun + count) + offset
  /\ remaining > 0 => request.off + Len(out) = Base(Begun + count) + offset

Delivered == out = <<>> \/ request.off + Len(out) <= Len(File)

Where ==
  \/ pc = "skip" /\ \E k \in Nat : Skipping(k) /\ Reached(k)
  \/ pc \in {"next", "fat"} /\ back = "skipped" /\ \E k \in Nat : Skipping(k) /\ Reached(k)
  \/ pc = "skipped" /\ \E k \in Nat : Skipping(k) /\ Reached(k + 1)
  \/ pc = "main" /\ Copying(chain_count) /\ Reached(Begun + chain_count)
  \/ /\ pc = "data" /\ chain_count >= 1 /\ remaining > 0
     /\ Copying(chain_count - 1) /\ Reached(Begun + chain_count - 1)
  \/ /\ pc \in {"next", "fat"} /\ back = "advanced" /\ chain_count >= 1
     /\ Copying(chain_count) /\ Reached(Begun + chain_count - 1)
  \/ /\ pc = "advanced" /\ chain_count >= 1
     /\ Copying(chain_count) /\ Reached(Begun + chain_count)
  \/ pc \in {"return", "ready", "lookup"}

\* Why a read that nothing cut short has ended: it has all it was asked for,
\* all there is, or all that MAX_CLUSTERS_CHAIN clusters hold.
Ended ==
  /\ Len(out) <= request.len
  /\ out = <<>> \/ request.off + Len(out) <= Base(Begun + MAX_CLUSTERS_CHAIN)
  /\ \/ Len(out) = request.len
     \/ Len(File) <= request.off + Len(out)
     \/ request.off + Len(out) = Base(Begun + MAX_CLUSTERS_CHAIN)

RequestType ==
  request \in [off : Nat, len : Nat] /\ out \in Seq((0 .. EOC) \X (0 .. CLUSTER_UNITS - 1))

Progress ==
  /\ RequestType
  /\ Where
  /\ pc \notin {"ready", "lookup"} => Delivered
  /\ pc \notin {"ready", "lookup", "return"} => request.off < node.size
  /\ pc = "return" /\ ~failed /\ ~starved => Ended

(***************************************************************************)
(* The file does not change while it is read.                              *)
(***************************************************************************)
LEMMA FileFacts ==
  ASSUME Locals
  PROVE  /\ IsChain(ChainAt, node.first, fat)
         /\ node.size \in Nat /\ Len(File) \in 0 .. node.size
         /\ \A i \in 1 .. node.size : Holder(ChainAt, i) \in Clusters <=> i <= Len(File)
         /\ \A i \in 1 .. Len(File) : File[i] = <<Holder(ChainAt, i), (i - 1) % CLUSTER_UNITS>>
         /\ File \in Seq((0 .. EOC) \X (0 .. CLUSTER_UNITS - 1))
<1>1. node.first \in 0 .. EOC /\ node.size \in Nat
  BY DEF Locals
<1>2. IsChain(ChainAt, node.first, fat)
  BY <1>1, ChainOfIs, ChainAtIs
<1>. QED
  BY <1>1, <1>2, FileIs

\* ChainAt and File as constant operators of the volume, to compare states.
FileOf(first, size, f) ==
  LET chain == ChainOf(first, f)
      medium == {i \in 1 .. size : chain[(i - 1) \div CLUSTER_UNITS] \in Clusters}
  IN  [i \in 1 .. Cardinality(medium) |->
         <<chain[(i - 1) \div CLUSTER_UNITS], (i - 1) % CLUSTER_UNITS>>]

LEMMA FileSame ==
  ASSUME UNCHANGED disk
  PROVE  ChainAt' = ChainAt /\ File' = File
<1>1. node' = node /\ fat' = fat
  BY DEF disk
<1>2. ChainAt' = ChainOf(node'.first, fat')
  BY Zenon DEF ChainAt, ChainOf, NextOnChain
<1>3. ChainAt' = ChainAt
  BY <1>1, <1>2, ChainAtIs
<1>4. File' = FileOf(node'.first, node'.size, fat')
  BY <1>2, Zenon DEF File, FileOf, OnMedium
<1>5. File = FileOf(node.first, node.size, fat)
  BY ChainAtIs, Zenon DEF File, FileOf, OnMedium
<1>. QED
  BY <1>1, <1>3, <1>4, <1>5

\* The file ends no later than the chain.
LEMMA EndsWithChain ==
  ASSUME Locals, NEW k \in Nat, ChainAt[k] \notin Clusters
  PROVE  Len(File) <= Base(k)
<1>1. /\ IsChain(ChainAt, node.first, fat) /\ node.size \in Nat /\ Len(File) \in 0 .. node.size
      /\ \A i \in 1 .. node.size : Holder(ChainAt, i) \in Clusters <=> i <= Len(File)
  BY FileFacts
<1>2. Base(k) \in Nat
  BY Bases
<1>. DEFINE i == Base(k) + 1
<1>3. SUFFICES ASSUME i <= Len(File) PROVE FALSE
  BY <1>1, <1>2
<1>4. i \in 1 .. node.size /\ i - 1 = Base(k) + 0
  BY <1>1, <1>2, <1>3
<1>5. (i - 1) \div CLUSTER_UNITS = k
  <2>1. 0 \in 0 .. CLUSTER_UNITS - 1
    BY UnitsAssumption
  <2>2. (Base(k) + 0) \div CLUSTER_UNITS = k
    BY <2>1, Quotient
  <2>. QED
    BY <1>4, <2>2, Zenon
<1>6. Holder(ChainAt, i) \in Clusters
  <2>. HIDE DEF i
  <2>. QED
    BY <1>1, <1>3, <1>4
<1>. QED
  BY <1>5, <1>6 DEF Holder

(***************************************************************************)
(* A pool that has run dry stays dry until the call returns.               *)
(***************************************************************************)
LEMMA FailedUnallocated ==
  ASSUME IInv, PoolStep, AllocFails
  PROVE  buf \notin buffers
<1>1. PICK n \in Nat : Stack(n)
  BY DEF IInv
<1>2. Taking(n) /\ PoolTypeOK
  BY <1>1 DEF IInv, AllocFails, Stack, Empty, Lent, Returning
<1>3. PICK m \in Nat : m = n + pool_offset
  BY <1>2, PoolBounds
<1>4. Waiting' /\ UNCHANGED <<buf, buffers, leaked>> /\ buffers = leaked /\ pool_pc' = "idle"
  BY <1>2 DEF AllocFails, Taking, PoolStep, Waiting
<1>5. Stack(m)'
  BY <1>1, <1>2, <1>3, <1>4, AllocFailsStack
<1>6. buf' \notin leaked'
  BY <1>4, <1>5 DEF Stack, Empty, Taking, Lent, Returning
<1>. QED
  BY <1>4, <1>6

LEMMA DryStep ==
  ASSUME IInv, Starving, [Next]_vars, starved'
  PROVE  Dry'
<1>1. PoolTypeOK /\ buf.pages \in Nat /\ buf.pages >= 1
  BY PoolBounds DEF IInv
<1>2. CASE PoolStep
  <2>1. UNCHANGED pc
    BY <1>2 DEF PoolStep
  <2>2. CASE starved
    <3>1. Dry
      BY <2>2 DEF Starving
    <3>2. FreeFrames = {} /\ pool_pc # "free" /\ (pool_pc = "alloc" => pool_offset = 0)
      BY <3>1 DEF Dry, FreeFrames
    <3>3. AllocFails
      BY <1>1, <1>2, <3>2 DEF PoolStep, AllocPage, AllocReturns, FreePage, FreeReturns
    <3>4. buf \notin buffers
      BY <1>2, <3>3, FailedUnallocated
    <3>. QED
      BY <3>1, <3>3, <3>4 DEF AllocFails, Dry, Allocated
  <2>3. CASE ~starved
    <3>1. AllocFails
      BY <1>2, <2>3 DEF PoolStep
    <3>2. FreeFrames = {} /\ dma_bitmap \subseteq Frames
      BY <1>1, <3>1 DEF AllocFails, PoolTypeOK
    <3>3. dma_bitmap' = Frames /\ pool_pc' = "idle" /\ UNCHANGED <<buf, buffers>>
      BY <3>1, <3>2 DEF AllocFails, FreeFrames
    <3>4. buf \notin buffers
      BY <1>2, <3>1, FailedUnallocated
    <3>. QED
      BY <3>3, <3>4 DEF Dry, Allocated
  <2>. QED
    BY <2>2, <2>3
<1>3. CASE ~PoolStep
  <2>1. starved /\ Dry
    BY <1>3 DEF Starving, Next, Begin, Work, ReadCall, ReadPastEnd, LookupTakes, SkipLoop, Skipped,
                MainStops, MainTakes, DataNoBuffer, DataFails, DataCopied, Advanced, ReadReturns,
                NextRejects, NextTakes, NextFails, NextReads, NextWithoutBuffer, LookupFinds,
                LookupFindsNothing, LookupWithoutBuffer, io, vars
  <2>2. CASE MainTakes \/ NextTakes \/ LookupTakes
    BY <2>1, <2>2 DEF MainTakes, NextTakes, LookupTakes, Take, BeginAlloc, Dry
  <2>3. ~(DataFails \/ DataCopied \/ NextFails \/ NextReads \/ LookupFinds \/ LookupFindsNothing)
    BY <2>1 DEF DataFails, DataCopied, NextFails, NextReads, LookupFinds, LookupFindsNothing,
                At, PoolIdle, Dry, Waiting
  <2>4. CASE UNCHANGED pool /\ (~Waiting' \/ UNCHANGED pc)
    BY <2>1, <2>4 DEF pool, Dry, Waiting, Allocated
  <2>5. ASSUME \E off \in Offsets, len \in Lengths : ReadCall(off, len) \/ ReadPastEnd(off, len)
        PROVE  FALSE
    BY <2>5 DEF ReadCall, ReadPastEnd
  <2>6. CASE SkipLoop \/ Skipped \/ MainStops \/ DataNoBuffer \/ Advanced \/ ReadReturns
             \/ LookupWithoutBuffer
    BY <2>4, <2>6 DEF SkipLoop, Skipped, MainStops, DataNoBuffer, Advanced, ReadReturns,
                      LookupWithoutBuffer, Waiting
  <2>7. CASE NextRejects \/ NextWithoutBuffer
    BY <2>4, <2>7 DEF NextRejects, NextWithoutBuffer, Waiting, IInv, Locals
  <2>8. CASE UNCHANGED vars
    BY <2>4, <2>8 DEF vars
  <2>. QED
    BY <1>3, <2>2, <2>3, <2>5, <2>6, <2>7, <2>8 DEF Next, Begin, Work
<1>. QED
  BY <1>2, <1>3

\* A call that waits for a buffer in vain knows that the pool ran dry.
LEMMA StarvingStep ==
  ASSUME IInv, Starving, [Next]_vars
  PROVE  Starving'
<1>1. ASSUME PoolIdle', Waiting', ~Allocated' PROVE starved'
  <2>1. CASE PoolStep
    <3>1. UNCHANGED pc
      BY <2>1 DEF PoolStep
    <3>2. CASE AllocReturns
      BY <1>1, <3>2 DEF AllocReturns, Allocated
    <3>3. CASE AllocFails
      BY <2>1, <3>3 DEF PoolStep
    <3>4. ~(AllocPage \/ FreePage)
      BY <1>1 DEF AllocPage, FreePage, PoolIdle
    <3>5. ~FreeReturns
      BY <1>1, <3>1 DEF FreeReturns, IInv, Stack, Empty, Taking, Lent, Returning, Waiting
    <3>. QED
      BY <2>1, <3>2, <3>3, <3>4, <3>5 DEF PoolStep
  <2>2. ~(MainTakes \/ NextTakes \/ LookupTakes)
    BY <1>1 DEF MainTakes, NextTakes, LookupTakes, Take, BeginAlloc, PoolIdle
  <2>3. ~(DataFails \/ DataCopied \/ NextFails \/ NextReads \/ LookupFindsNothing)
    BY <1>1 DEF DataFails, DataCopied, NextFails, NextReads, LookupFindsNothing,
                GiveBack, BeginFree, PoolIdle
  <2>4. ~(\E off \in Offsets, len \in Lengths : ReadCall(off, len) \/ ReadPastEnd(off, len))
    BY <1>1 DEF ReadCall, ReadPastEnd, Waiting
  <2>5. ~(SkipLoop \/ Skipped \/ MainStops \/ DataNoBuffer \/ Advanced \/ ReadReturns
          \/ LookupFinds \/ LookupWithoutBuffer)
    BY <1>1 DEF SkipLoop, Skipped, MainStops, DataNoBuffer, Advanced, ReadReturns,
                LookupFinds, LookupWithoutBuffer, Waiting
  <2>6. ~(NextRejects \/ NextWithoutBuffer)
    BY <1>1 DEF NextRejects, NextWithoutBuffer, Waiting, IInv, Locals
  <2>7. CASE UNCHANGED vars
    BY <1>1, <2>7 DEF vars, pool, io, Starving, PoolIdle, Waiting, Allocated
  <2>. QED
    BY <2>1, <2>2, <2>3, <2>4, <2>5, <2>6, <2>7 DEF Next, Begin, Work
<1>. QED
  BY <1>1, DryStep DEF Starving

(***************************************************************************)
(* Steps of the pool, steps that only wait for it, and stuttering.         *)
(***************************************************************************)
LEMMA CarriedOn ==
  ASSUME Where, UNCHANGED <<disk, pc, back, locals, request, out>>,
         starved => starved', failed => failed'
  PROVE  Where'
<1>1. ChainAt' = ChainAt /\ node' = node
  BY FileSame DEF disk
<1>2. Begun' = Begun /\ Wanted' = Wanted
  BY <1>1 DEF Begun, Wanted, Remaining
<1>3. UNCHANGED <<pc, back, cluster, offset, remaining, chain_count, request, out>>
  BY DEF locals
<1>4. ASSUME NEW k \in Nat PROVE Skipping(k) /\ Reached(k) => (Skipping(k) /\ Reached(k))'
  BY <1>1, <1>2, <1>3 DEF Skipping, Reached
<1>5. ASSUME NEW k \in Nat PROVE Skipping(k) /\ Reached(k + 1) => (Skipping(k) /\ Reached(k + 1))'
  BY <1>1, <1>2, <1>3 DEF Skipping, Reached
<1>6. /\ Reached(Begun + chain_count) => Reached(Begun + chain_count)'
      /\ Reached(Begun + chain_count - 1) => Reached(Begun + chain_count - 1)'
  BY <1>1, <1>2, <1>3 DEF Reached
<1>7. /\ Copying(chain_count) => Copying(chain_count)'
      /\ Copying(chain_count - 1) => Copying(chain_count - 1)'
  BY <1>2, <1>3 DEF Copying
<1>. QED
  BY <1>3, <1>4, <1>5, <1>6, <1>7 DEF Where

LEMMA CarriedProgress ==
  ASSUME Progress, UNCHANGED <<disk, pc, back, locals, request, out>>,
         starved => starved', failed => failed', failed' \in BOOLEAN, starved' \in BOOLEAN
  PROVE  Progress'
<1>1. File' = File /\ node' = node
  BY FileSame DEF disk
<1>2. Where'
  BY CarriedOn DEF Progress
<1>3. Begun' = Begun
  BY DEF Begun
<1>4. RequestType' /\ (Delivered => Delivered') /\ (Ended => Ended')
  BY <1>1, <1>3 DEF Progress, RequestType, Delivered, Ended
<1>. QED
  BY <1>1, <1>2, <1>4 DEF Progress

(***************************************************************************)
(* The steps of a read.                                                    *)
(***************************************************************************)
LEMMA EmptySequence ==
  ASSUME NEW S
  PROVE  <<>> \in Seq(S)
OBVIOUS

LEMMA Numbers ==
  /\ CLUSTER_UNITS \in Nat /\ CLUSTER_UNITS >= 1
  /\ MAX_CLUSTERS_CHAIN \in Nat /\ MAX_CLUSTERS_CHAIN >= 1
BY UnitsAssumption, CallsAssumption

LEMMA BegunBase ==
  ASSUME RequestType
  PROVE  /\ Begun \in Nat /\ request.off \in Nat /\ request.len \in Nat /\ Len(out) \in Nat
         /\ Base(Begun) <= request.off /\ request.off < Base(Begun) + CLUSTER_UNITS
<1>1. request.off \in Nat /\ request.len \in Nat /\ Len(out) \in Nat
  BY DEF RequestType
<1>2. PICK off \in Nat : off = request.off
  BY <1>1
<1>3. /\ off \div CLUSTER_UNITS \in Nat
      /\ off = Base(off \div CLUSTER_UNITS) + (off % CLUSTER_UNITS)
      /\ off % CLUSTER_UNITS \in 0 .. CLUSTER_UNITS - 1
  BY Division
<1>4. Begun = off \div CLUSTER_UNITS
  BY <1>2 DEF Begun
<1>5. PICK r \in 0 .. CLUSTER_UNITS - 1 : off = Base(Begun) + r
  BY <1>3, <1>4
<1>6. Begun \in Nat /\ Base(Begun) \in Nat
  BY <1>3, <1>4, Bases
<1>. QED
  BY <1>1, <1>2, <1>5, <1>6, Numbers

\* Nothing is left to copy, nothing is left of the file, or the count of
\* clusters is at its limit: nothing is missing.
LEMMA CopyEnds ==
  ASSUME Locals, RequestType, request.off < node.size,
         NEW count \in 0 .. MAX_CLUSTERS_CHAIN, Copying(count),
         \/ remaining = 0
         \/ ChainAt[Begun + count] \notin Clusters
         \/ count = MAX_CLUSTERS_CHAIN
  PROVE  Ended
<1>1. /\ Begun \in Nat /\ request.off \in Nat /\ request.len \in Nat /\ Len(out) \in Nat
  BY BegunBase
<1>2. /\ node.size \in Nat /\ Len(File) \in 0 .. node.size /\ remaining \in Nat /\ offset \in Nat
  BY FileFacts DEF Locals
<1>3. PICK k \in Nat : k = Begun + count
  BY <1>1, Numbers
<1>4. PICK m \in Nat : m = Begun + MAX_CLUSTERS_CHAIN
  BY <1>1, Numbers
<1>5. Base(k) \in Nat /\ Base(m) \in Nat /\ Base(k) <= Base(m)
  <2>1. k = m \/ k < m
    BY <1>1, <1>3, <1>4, Numbers
  <2>2. CASE k < m
    <3>1. Base(k) \in Nat /\ Base(m) \in Nat /\ Base(k + 1) = Base(k) + CLUSTER_UNITS
          /\ Base(k + 1) <= Base(m)
      BY <2>2, Bases
    <3>. QED
      BY <3>1, Numbers
  <2>. QED
    BY <2>1, <2>2, Bases
<1>6. /\ count = 0 => out = <<>>
      /\ count >= 1 => offset = 0
      /\ Len(out) + remaining = Wanted
      /\ request.off + Len(out) <= Base(k) + offset
      /\ remaining > 0 => request.off + Len(out) = Base(k) + offset
  BY <1>3 DEF Copying
<1>7. Wanted <= request.len /\ (Wanted = request.len \/ request.off + Wanted = node.size)
  BY <1>1, <1>2 DEF Wanted, Remaining
<1>8. Len(out) <= request.len
  BY <1>1, <1>2, <1>6, <1>7
<1>9. out = <<>> \/ request.off + Len(out) <= Base(m)
  BY <1>1, <1>2, <1>5, <1>6
<1>10. \/ Len(out) = request.len
       \/ Len(File) <= request.off + Len(out)
       \/ request.off + Len(out) = Base(m)
  <2>1. CASE remaining = 0
    BY <1>1, <1>2, <1>6, <1>7, <2>1
  <2>2. CASE ChainAt[k] \notin Clusters /\ remaining > 0
    <3>1. Len(File) <= Base(k)
      BY <2>2, EndsWithChain
    <3>. QED
      BY <1>1, <1>2, <1>5, <1>6, <2>2, <3>1
  <2>3. CASE count = MAX_CLUSTERS_CHAIN /\ remaining > 0
    <3>1. k = m /\ count >= 1
      BY <1>3, <1>4, <2>3, Numbers
    <3>. QED
      BY <1>1, <1>2, <1>5, <1>6, <2>3, <3>1
  <2>. QED
    BY <1>2, <1>3, <2>1, <2>2, <2>3
<1>. QED
  BY <1>4, <1>8, <1>9, <1>10 DEF Ended

LEMMA WantedIs ==
  ASSUME Locals, RequestType, request.off < node.size
  PROVE  Wanted \in Nat /\ Wanted <= request.len /\ request.off + Wanted <= node.size
BY BegunBase DEF Wanted, Remaining, Locals

LEMMA ReadCallStep ==
  ASSUME Locals, NEW off \in Offsets, NEW len \in Lengths, ReadCall(off, len)
  PROVE  Progress'
<1>1. off \in Nat /\ len \in Nat /\ off < node.size
  BY CallsAssumption DEF ReadCall
<1>2. /\ UNCHANGED disk /\ pc' = "skip" /\ cluster' = node.first /\ offset' = off
      /\ remaining' = Remaining(off, len) /\ chain_count' = 0 /\ out' = <<>>
      /\ request' = [off |-> off, len |-> len]
  BY DEF ReadCall
<1>3. ChainAt' = ChainAt /\ node' = node /\ ChainAt[0] = node.first
  BY <1>2, FileSame, FileFacts DEF disk, IsChain
<1>4. request'.off = off /\ request'.len = len /\ Wanted' = Remaining(off, len)
  BY <1>2, <1>3 DEF Wanted, Remaining
<1>5. Skipping(0)'
  BY <1>1, <1>2, <1>4, Bases DEF Skipping
<1>6. Reached(0)'
  BY <1>2, <1>3 DEF Reached
<1>7. out' \in Seq((0 .. EOC) \X (0 .. CLUSTER_UNITS - 1))
  BY <1>2, EmptySequence, Zenon
<1>8. RequestType'
  BY <1>1, <1>2, <1>7 DEF RequestType
<1>. QED
  BY <1>1, <1>2, <1>3, <1>4, <1>5, <1>6, <1>8 DEF Progress, Where, Delivered

LEMMA ReadPastEndStep ==
  ASSUME Locals, NEW off \in Offsets, NEW len \in Lengths, ReadPastEnd(off, len)
  PROVE  Progress'
<1>1. off \in Nat /\ len \in Nat /\ off >= node.size
  BY CallsAssumption DEF ReadPastEnd
<1>2. UNCHANGED disk /\ pc' = "return" /\ out' = <<>> /\ request' = [off |-> off, len |-> len]
  BY DEF ReadPastEnd
<1>3. File' = File /\ Len(File) \in 0 .. node.size /\ node.size \in Nat
  BY <1>2, FileSame, FileFacts
<1>4. out' \in Seq((0 .. EOC) \X (0 .. CLUSTER_UNITS - 1)) /\ Len(out') = 0
  <2>1. out' \in Seq((0 .. EOC) \X (0 .. CLUSTER_UNITS - 1))
    BY <1>2, EmptySequence, Zenon
  <2>. QED
    BY <1>2, <2>1
<1>5. request'.off = off /\ request'.len = len
  BY <1>2
<1>6. Ended'
  BY <1>1, <1>2, <1>3, <1>4, <1>5 DEF Ended
<1>. QED
  BY <1>1, <1>2, <1>4, <1>5, <1>6 DEF Progress, Where, Delivered, RequestType

\* From skipping whole clusters to the one in which the read begins.
LEMMA SkipLoopStep ==
  ASSUME Locals, Progress, SkipLoop
  PROVE  Progress'
<1>1. /\ pc = "skip" /\ UNCHANGED <<disk, locals, io>>
      /\ \/ offset >= CLUSTER_UNITS /\ pc' = "next" /\ back' = "skipped"
         \/ ~(offset >= CLUSTER_UNITS) /\ pc' = "main"
  BY DEF SkipLoop, At
<1>2. PICK k \in Nat : Skipping(k) /\ Reached(k)
  BY <1>1 DEF Progress, Where
<1>3. /\ ChainAt' = ChainAt /\ File' = File /\ UNCHANGED <<node, cluster, offset, remaining,
         chain_count, request, out, failed, starved>>
  BY <1>1, FileSame DEF disk, locals, io
<1>4. Begun' = Begun /\ Wanted' = Wanted
  BY <1>3 DEF Begun, Wanted, Remaining
<1>5. CASE offset >= CLUSTER_UNITS
  <2>1. Skipping(k)' /\ Reached(k)'
    BY <1>2, <1>3, <1>4 DEF Skipping, Reached
  <2>2. Where'
    BY <1>1, <1>5, <2>1 DEF Where
  <2>. QED
    BY <1>1, <1>3, <1>5, <2>2 DEF Progress, Delivered, RequestType
<1>6. CASE ~(offset >= CLUSTER_UNITS)
  <2>1. offset \in 0 .. CLUSTER_UNITS - 1 /\ request.off = Base(k) + offset /\ Base(k) \in Nat
    BY <1>2, <1>6, Numbers, Bases DEF Locals, Skipping
  <2>2. PICK r \in 0 .. CLUSTER_UNITS - 1 : r = offset
    BY <2>1
  <2>3. (Base(k) + r) \div CLUSTER_UNITS = k
    BY Quotient
  <2>4. Begun = k
    BY <2>1, <2>2, <2>3 DEF Begun
  <2>5. chain_count = 0 /\ out = <<>> /\ Len(out) = 0 /\ remaining = Wanted
    BY <1>2 DEF Skipping
  <2>6. /\ Begun + chain_count = k
    BY <2>4, <2>5
  <2>7. Copying(chain_count)'
    BY <1>3, <1>4, <2>1, <2>4, <2>5, <2>6 DEF Copying, Locals
  <2>8. Reached(Begun + chain_count)'
    BY <1>2, <1>3, <1>4, <2>6 DEF Reached
  <2>. QED
    BY <1>1, <1>3, <1>6, <2>7, <2>8 DEF Progress, Where, Delivered, RequestType
<1>. QED
  BY <1>5, <1>6

LEMMA SkippedStep ==
  ASSUME Locals, Progress, Skipped, offset >= CLUSTER_UNITS
  PROVE  Progress'
<1>1. /\ pc = "skipped"
      /\ UNCHANGED <<disk, cluster, remaining, chain_count, io>>
      /\ \/ cluster >= EOC /\ pc' = "return" /\ offset' = offset
         \/ pc' = "skip" /\ offset' = offset - CLUSTER_UNITS
  BY DEF Skipped, At
<1>2. PICK k \in Nat : Skipping(k) /\ Reached(k + 1)
  BY <1>1 DEF Progress, Where
<1>3. /\ ChainAt' = ChainAt /\ File' = File
      /\ UNCHANGED <<node, request, out, failed, starved>>
  BY <1>1, FileSame DEF disk, io
<1>4. Begun' = Begun /\ Wanted' = Wanted
  BY <1>3 DEF Begun, Wanted, Remaining
<1>5. /\ offset \in Nat /\ request.off = Base(k) + offset /\ out = <<>> /\ Len(out) = 0
      /\ Base(k) \in Nat /\ Base(k + 1) = Base(k) + CLUSTER_UNITS
      /\ request.off \in Nat /\ request.len \in Nat
  BY <1>2, Bases DEF Locals, Skipping, Progress, RequestType
<1>6. CASE cluster >= EOC /\ pc' = "return"
  <2>1. ASSUME ~failed, ~starved PROVE Ended
    <3>1. cluster \notin Clusters
      BY <1>6, Marks DEF Locals
    <3>2. ChainAt[k + 1] \notin Clusters /\ k + 1 \in Nat
      BY <1>2, <2>1, <3>1 DEF Reached
    <3>3. Len(File) <= Base(k + 1) /\ Len(File) \in Nat
      BY <3>2, EndsWithChain, FileFacts
    <3>. QED
      BY <1>5, <3>3, Numbers DEF Ended
  <2>2. Ended => Ended'
    BY <1>3, <1>4 DEF Ended
  <2>. QED
    BY <1>1, <1>3, <1>6, <2>1, <2>2 DEF Progress, Where, Delivered, RequestType
<1>7. CASE pc' = "skip" /\ offset' = offset - CLUSTER_UNITS
  <2>1. Skipping(k + 1)'
    BY <1>1, <1>2, <1>3, <1>4, <1>5, <1>7, Numbers DEF Skipping
  <2>2. Reached(k + 1)' /\ k + 1 \in Nat
    BY <1>1, <1>2, <1>3 DEF Reached
  <2>. QED
    BY <1>1, <1>3, <1>7, <2>1, <2>2 DEF Progress, Where, Delivered, RequestType
<1>. QED
  BY <1>1, <1>6, <1>7

\* Why the loop over the clusters stops.
LEMMA StopsEnded ==
  ASSUME Locals, Progress, NEW count \in 0 .. MAX_CLUSTERS_CHAIN, Copying(count),
         pc \notin {"ready", "lookup", "return"}, pc' = "return",
         UNCHANGED <<disk, request, out>>, failed => failed', starved => starved',
         \/ failed' \/ starved'
         \/ remaining = 0
         \/ ChainAt[Begun + count] \notin Clusters
         \/ count = MAX_CLUSTERS_CHAIN
  PROVE  Progress'
<1>1. File' = File /\ node' = node /\ Begun' = Begun
  BY FileSame DEF disk, Begun
<1>2. ~failed' /\ ~starved' => Ended
  BY CopyEnds DEF Progress
<1>3. (Ended => Ended') /\ (Delivered => Delivered') /\ RequestType'
  BY <1>1 DEF Ended, Delivered, Progress, RequestType
<1>. QED
  BY <1>2, <1>3 DEF Progress, Where

LEMMA MainStopsStep ==
  ASSUME Locals, Progress, MainStops
  PROVE  Progress'
<1>1. /\ pc = "main" /\ pc' = "return" /\ UNCHANGED <<disk, request, out, failed, starved>>
      /\ remaining = 0 \/ cluster >= EOC \/ chain_count + 1 > MAX_CLUSTERS_CHAIN
  BY DEF MainStops, At, io
<1>2. PICK count \in 0 .. MAX_CLUSTERS_CHAIN : count = chain_count
  BY DEF Locals
<1>3. Copying(count) /\ Reached(Begun + count)
  BY <1>1, <1>2 DEF Progress, Where
<1>4. CASE cluster >= EOC
  <2>1. cluster \notin Clusters
    BY <1>4, Marks DEF Locals
  <2>2. failed \/ starved \/ ChainAt[Begun + count] \notin Clusters
    BY <1>3, <2>1 DEF Reached
  <2>. QED
    BY <1>1, <1>3, <2>2, StopsEnded
<1>5. CASE chain_count + 1 > MAX_CLUSTERS_CHAIN
  <2>1. count = MAX_CLUSTERS_CHAIN
    BY <1>2, <1>5, Numbers
  <2>. QED
    BY <1>1, <1>3, <2>1, StopsEnded
<1>. QED
  BY <1>1, <1>3, <1>4, <1>5, StopsEnded

LEMMA MainTakesStep ==
  ASSUME Locals, Progress, MainTakes
  PROVE  Progress'
<1>1. /\ pc = "main" /\ pc' = "data" /\ remaining > 0 /\ chain_count' = chain_count + 1
      /\ UNCHANGED <<disk, cluster, offset, remaining, io>>
  BY DEF MainTakes, At, Take
<1>2. /\ ChainAt' = ChainAt /\ File' = File
      /\ UNCHANGED <<node, request, out, failed, starved>>
  BY <1>1, FileSame DEF disk, io
<1>3. Begun' = Begun /\ Wanted' = Wanted
  BY <1>2 DEF Begun, Wanted, Remaining
<1>4. PICK count \in 0 .. MAX_CLUSTERS_CHAIN : count = chain_count
  BY DEF Locals
<1>5. Copying(count) /\ Reached(Begun + count)
  BY <1>1, <1>4 DEF Progress, Where
<1>6. chain_count' - 1 = count /\ chain_count' >= 1 /\ Begun \in Nat
  BY <1>1, <1>4, Numbers, BegunBase DEF Progress
<1>7. Copying(chain_count - 1)'
  BY <1>1, <1>2, <1>3, <1>5, <1>6 DEF Copying
<1>8. Begun' + chain_count' - 1 = Begun + count
  BY <1>1, <1>3, <1>4, <1>6
<1>9. Reached(Begun + chain_count - 1)'
  BY <1>1, <1>2, <1>5, <1>8 DEF Reached
<1>10. Where'
  BY <1>1, <1>6, <1>7, <1>9 DEF Where
<1>. QED
  BY <1>1, <1>2, <1>10 DEF Progress, Delivered, RequestType

\* The step that reads a cluster, which is the next one of the file or one
\* that is not on the disk.
LEMMA AtData ==
  ASSUME Locals, Progress, pc = "data"
  PROVE  \E count \in 0 .. MAX_CLUSTERS_CHAIN :
           chain_count = count + 1 /\ Copying(count) /\ Reached(Begun + count)
<1>1. PICK cc \in 0 .. MAX_CLUSTERS_CHAIN : cc = chain_count
  BY DEF Locals
<1>2. cc >= 1 /\ Copying(cc - 1) /\ Reached(Begun + cc - 1)
  BY <1>1 DEF Progress, Where
<1>3. cc - 1 \in 0 .. MAX_CLUSTERS_CHAIN /\ chain_count = cc - 1 + 1
      /\ Begun + cc - 1 = Begun + (cc - 1)
  BY <1>1, <1>2, Numbers, BegunBase DEF Progress
<1>. QED
  BY <1>2, <1>3

LEMMA DataNoBufferStep ==
  ASSUME Locals, Starving, Progress, DataNoBuffer
  PROVE  Progress'
<1>1. pc = "data" /\ pc' = "return" /\ starved /\ UNCHANGED <<disk, request, out, failed, starved>>
  BY DEF DataNoBuffer, At, io, Starving, Waiting
<1>2. PICK count \in 0 .. MAX_CLUSTERS_CHAIN : Copying(count)
  BY <1>1, AtData
<1>. QED
  BY <1>1, <1>2, StopsEnded

LEMMA DataFailsStep ==
  ASSUME Locals, Progress, DataFails
  PROVE  Progress'
<1>1. /\ pc = "data" /\ pc' = "return" /\ UNCHANGED <<disk, request, out, starved>>
      /\ failed' = (failed \/ cluster \in Clusters)
  BY DEF DataFails, At, GiveBack
<1>2. PICK count \in 0 .. MAX_CLUSTERS_CHAIN : Copying(count) /\ Reached(Begun + count)
  BY <1>1, AtData
<1>3. failed' \/ starved' \/ ChainAt[Begun + count] \notin Clusters
  BY <1>1, <1>2 DEF Reached
<1>. QED
  BY <1>1, <1>2, <1>3, StopsEnded

LEMMA AdvancedStep ==
  ASSUME Locals, Progress, Advanced
  PROVE  Progress'
<1>1. /\ pc = "advanced" /\ UNCHANGED <<disk, locals, io>>
      /\ pc' = IF cluster \in 2 .. BAD THEN "main" ELSE "return"
  BY DEF Advanced, At
<1>2. /\ ChainAt' = ChainAt /\ File' = File
      /\ UNCHANGED <<node, cluster, offset, remaining, chain_count, request, out, failed, starved>>
  BY <1>1, FileSame DEF disk, locals, io
<1>3. Begun' = Begun /\ Wanted' = Wanted
  BY <1>2 DEF Begun, Wanted, Remaining
<1>4. Copying(chain_count) /\ Reached(Begun + chain_count)
  BY <1>1 DEF Progress, Where
<1>5. CASE cluster \in 2 .. BAD
  <2>1. Copying(chain_count)' /\ Reached(Begun + chain_count)'
    BY <1>2, <1>3, <1>4 DEF Copying, Reached
  <2>. QED
    BY <1>1, <1>2, <1>5, <2>1 DEF Progress, Where, Delivered, RequestType
<1>6. CASE cluster \notin 2 .. BAD
  <2>1. PICK count \in 0 .. MAX_CLUSTERS_CHAIN : count = chain_count
    BY DEF Locals
  <2>2. cluster \notin Clusters
    BY <1>6, Marks DEF Locals
  <2>3. failed \/ starved \/ ChainAt[Begun + count] \notin Clusters
    BY <1>4, <2>1, <2>2 DEF Reached
  <2>. QED
    BY <1>1, <1>2, <1>4, <1>6, <2>1, <2>3, StopsEnded
<1>. QED
  BY <1>5, <1>6

(***************************************************************************)
(* fat32_next_cluster goes on to the next cluster of the chain, unless the *)
(* disk fails or there is no buffer.                                       *)
(***************************************************************************)
LEMMA EntryIsNext ==
  ASSUME NEW f \in [Clusters -> Entries], NEW c \in Clusters
  PROVE  /\ Entry(c, f[c]) \in Clusters => Entry(c, f[c]) = NextOnChain(f, c)
         /\ NextOnChain(f, c) \in Clusters => Entry(c, f[c]) = NextOnChain(f, c)
<1>1. PICK raw \in Entries : raw = f[c]
  OBVIOUS
<1>2. c \in Nat /\ c >= 2 /\ c < BAD
  BY VolumeAssumption DEF Clusters, BAD
<1>3. CASE raw \in Clusters
  <2>1. raw >= 2 /\ raw < EOC /\ raw \in Nat
    BY <1>3, VolumeAssumption DEF Clusters, EOC
  <2>. QED
    BY <1>1, <1>3, <2>1, Marks DEF Entry, NextOnChain
<1>4. CASE raw \notin Clusters
  <2>1. raw = 0 \/ raw = BAD \/ raw = EOC
    BY <1>4 DEF Entries
  <2>2. Entry(c, f[c]) \in {BAD, EOC}
    BY <1>1, <1>2, <2>1, Marks DEF Entry
  <2>3. NextOnChain(f, c) = EOC
    BY <1>1, <1>4 DEF NextOnChain
  <2>. QED
    BY <2>2, <2>3, Marks
<1>. QED
  BY <1>3, <1>4

LEMMA ReachesNext ==
  ASSUME Locals, Starving, NEW k \in Nat, Reached(k), UNCHANGED disk,
         NextRejects \/ NextFails \/ NextReads \/ NextWithoutBuffer, InCluster
  PROVE  Reached(k + 1)'
<1>1. ChainAt' = ChainAt /\ ChainAt[k + 1] = NextOnChain(fat, ChainAt[k]) /\ k + 1 \in Nat
  <2>1. IsChain(ChainAt, node.first, fat)
    BY FileFacts
  <2>2. ChainAt' = ChainAt
    BY FileSame
  <2>3. ChainAt[k + 1] = NextOnChain(fat, ChainAt[k])
    BY <2>1 DEF IsChain
  <2>. QED
    BY <2>2, <2>3
<1>2. CASE NextRejects
  <2>1. cluster \notin Clusters /\ cluster' = EOC /\ UNCHANGED <<failed, starved>>
    BY <1>2, Marks DEF NextRejects, Locals, io
  <2>2. ChainAt[k] \in Clusters => failed \/ starved
    BY <2>1 DEF Reached
  <2>3. ChainAt[k + 1] \in Clusters => ChainAt[k] \in Clusters
    BY <1>1, Marks DEF NextOnChain
  <2>. QED
    BY <1>1, <2>1, <2>2, <2>3, Marks DEF Reached
<1>3. CASE NextFails
  BY <1>1, <1>3, Marks DEF NextFails, Reached
<1>4. CASE NextReads
  <2>1. /\ cluster \in Clusters /\ cluster' = Entry(cluster, fat[cluster])
        /\ UNCHANGED <<failed, starved>>
    BY <1>4 DEF NextReads, At, io, InCluster
  <2>2. ~starved => cluster = ChainAt[k]
    BY <2>1 DEF Reached
  <2>3. /\ cluster' \in Clusters => cluster' = NextOnChain(fat, cluster)
        /\ NextOnChain(fat, cluster) \in Clusters => cluster' = NextOnChain(fat, cluster)
    BY <2>1, EntryIsNext DEF Locals
  <2>. QED
    BY <1>1, <2>1, <2>2, <2>3 DEF Reached
<1>5. CASE NextWithoutBuffer
  <2>1. starved /\ UNCHANGED starved
    BY <1>5 DEF NextWithoutBuffer, At, Starving, Waiting, io
  <2>. QED
    BY <2>1 DEF Reached
<1>. QED
  BY <1>2, <1>3, <1>4, <1>5

LEMMA NextStep ==
  ASSUME Locals, InCluster, Starving, Progress,
         NextRejects \/ NextFails \/ NextReads \/ NextWithoutBuffer
  PROVE  Progress'
<1>1. /\ pc \in {"next", "fat"} /\ pc' = back
      /\ UNCHANGED <<disk, back, offset, remaining, chain_count, request, out>>
  BY DEF NextRejects, NextFails, NextReads, NextWithoutBuffer, At, GiveBack, io
<1>2. ChainAt' = ChainAt /\ File' = File /\ node' = node
  BY <1>1, FileSame DEF disk
<1>3. Begun' = Begun /\ Wanted' = Wanted
  BY <1>1, <1>2 DEF Begun, Wanted, Remaining
<1>4. CASE back = "skipped"
  <2>1. PICK k \in Nat : Skipping(k) /\ Reached(k)
    BY <1>1, <1>4 DEF Progress, Where
  <2>2. Skipping(k)'
    BY <1>1, <1>3, <2>1 DEF Skipping
  <2>3. Reached(k + 1)'
    BY <1>1, <2>1, ReachesNext
  <2>4. Where'
    BY <1>1, <1>4, <2>2, <2>3 DEF Where
  <2>. QED
    BY <1>1, <1>2, <1>4, <2>4 DEF Progress, Delivered, RequestType
<1>5. CASE back = "advanced"
  <2>1. chain_count >= 1 /\ Copying(chain_count) /\ Reached(Begun + chain_count - 1)
    BY <1>1, <1>5 DEF Progress, Where
  <2>2. Copying(chain_count)'
    BY <1>1, <1>3, <2>1 DEF Copying
  <2>3. PICK k \in Nat : k = Begun + chain_count - 1 /\ k + 1 = Begun + chain_count
    BY <2>1, Numbers, BegunBase DEF Progress, Locals
  <2>4. Reached(k + 1)'
    BY <1>1, <2>1, <2>3, ReachesNext
  <2>5. Begun' + chain_count' = k + 1
    BY <1>1, <1>3, <2>3
  <2>6. Reached(Begun + chain_count)'
    BY <2>4, <2>5 DEF Reached
  <2>7. Where'
    BY <1>1, <1>5, <2>1, <2>2, <2>6 DEF Where
  <2>. QED
    BY <1>1, <1>2, <1>5, <2>7 DEF Progress, Delivered, RequestType
<1>. QED
  BY <1>1, <1>4, <1>5 DEF InCluster

(***************************************************************************)
(* What is copied is the next stretch of the file.                         *)
(***************************************************************************)
\* n units have been delivered, and a cluster gives the next ones.
CopiesFile(n) ==
  /\ ReadLen \in Nat /\ ReadLen >= 1 /\ ReadLen <= remaining /\ offset + ReadLen <= CLUSTER_UNITS
  /\ ReadLen = remaining \/ offset + ReadLen = CLUSTER_UNITS
  /\ request.off + n + ReadLen <= Len(File)
  /\ request.off + n + ReadLen <= request.off + request.len
  /\ [i \in 1 .. ReadLen |-> <<cluster, offset + i - 1>>]
       = SubSeq(File, request.off + n + 1, request.off + n + ReadLen)

LEMMA CopyIsOfFile ==
  ASSUME Locals, InCluster, Progress, pc = "data", cluster \in Clusters, ~starved,
         NEW count \in 0 .. MAX_CLUSTERS_CHAIN, chain_count = count + 1,
         Copying(count), Reached(Begun + count)
  PROVE  CopiesFile(Len(out))
<1>1. /\ offset \in Nat /\ offset < CLUSTER_UNITS /\ remaining \in Nat /\ remaining > 0
  BY DEF Locals, InCluster, Progress, Where
<1>2. PICK r \in Nat : /\ r = ReadLen /\ r >= 1 /\ r <= remaining /\ offset + r <= CLUSTER_UNITS
                       /\ r = remaining \/ offset + r = CLUSTER_UNITS
  <2>1. CASE remaining < CLUSTER_UNITS - offset
    <3>1. ReadLen = remaining
      BY <2>1 DEF ReadLen
    <3>. QED
      BY <1>1, <2>1, <3>1, Numbers
  <2>2. CASE ~(remaining < CLUSTER_UNITS - offset)
    <3>1. ReadLen = CLUSTER_UNITS - offset
      BY <2>2 DEF ReadLen
    <3>. QED
      BY <1>1, <2>2, <3>1, Numbers
  <2>. QED
    BY <2>1, <2>2
<1>3. /\ Begun \in Nat /\ request.off \in Nat /\ request.len \in Nat /\ Len(out) \in Nat
  BY BegunBase DEF Progress
<1>4. PICK k \in Nat : k = Begun + count
  BY <1>3
<1>5. PICK at \in Nat : at = request.off + Len(out)
  BY <1>3
<1>6. PICK o \in Nat : o = offset /\ o < CLUSTER_UNITS
  BY <1>1
<1>7. at = Base(k) + o /\ Base(k) \in Nat
  BY <1>1, <1>4, <1>5, <1>6, Bases DEF Copying
<1>8. ChainAt[k] = cluster
  BY <1>4 DEF Reached
<1>9. /\ Wanted \in Nat /\ Wanted <= request.len /\ request.off + Wanted <= node.size
      /\ Len(out) + remaining = Wanted /\ node.size \in Nat
  BY WantedIs DEF Progress, Copying, Locals
<1>10. at + r <= node.size /\ at + r <= request.off + request.len
  <2>1. PICK w \in Nat : w = Wanted
    BY <1>9
  <2>2. PICK n \in Nat : n = Len(out)
    BY <1>3
  <2>3. r <= w - n
    BY <1>1, <1>2, <1>9, <2>1, <2>2
  <2>. QED
    <3>1. PICK off \in Nat : off = request.off
      BY <1>3
    <3>2. at + r = off + n + r
      BY <1>5, <2>2, <3>1
    <3>3. at + r <= off + w
      BY <2>1, <2>2, <2>3, <3>2
    <3>. QED
      BY <1>3, <1>9, <2>1, <3>1, <3>3
<1>11. ASSUME NEW i \in 1 .. r
       PROVE  Holder(ChainAt, at + i) = cluster /\ (at + i - 1) % CLUSTER_UNITS = o + i - 1
  <2>1. PICK j \in 0 .. CLUSTER_UNITS - 1 : j = o + i - 1
    BY <1>1, <1>2, <1>6, Numbers
  <2>2. at + i - 1 = Base(k) + j
    BY <1>7, <2>1
  <2>3. (Base(k) + j) \div CLUSTER_UNITS = k /\ (Base(k) + j) % CLUSTER_UNITS = j
    BY Quotient
  <2>. QED
    BY <1>8, <2>1, <2>2, <2>3 DEF Holder
<1>12. at + r \in 1 .. node.size /\ r \in 1 .. r
  BY <1>2, <1>10, <1>9
<1>13. Holder(ChainAt, at + r) \in Clusters
  BY <1>11, <1>12
<1>14. at + r <= Len(File) /\ Len(File) \in Nat
  BY <1>12, <1>13, FileFacts
<1>15. ASSUME NEW i \in 1 .. r PROVE File[at + i] = <<cluster, o + i - 1>>
  <2>1. at + i \in 1 .. Len(File)
    BY <1>2, <1>14
  <2>2. File[at + i] = <<Holder(ChainAt, at + i), (at + i - 1) % CLUSTER_UNITS>>
    BY <2>1, FileFacts
  <2>. QED
    BY <1>11, <2>2
<1>16. [i \in 1 .. r |-> <<cluster, o + i - 1>>] = SubSeq(File, at + 1, at + r)
  <2>1. File \in Seq((0 .. EOC) \X (0 .. CLUSTER_UNITS - 1))
    BY FileFacts
  <2>2. SubSeq(File, at + 1, at + r) = [i \in 1 .. (at + r - (at + 1) + 1) |-> File[i + (at + 1) - 1]]
    BY <2>1, <1>14 
  <2>3. at + r - (at + 1) + 1 = r /\ \A i \in 1 .. r : i + (at + 1) - 1 = at + i
    BY <1>2
  <2>4. SubSeq(File, at + 1, at + r) = [i \in 1 .. r |-> File[at + i]]
    BY <2>2, <2>3
  <2>. QED
    BY <1>15, <2>4
<1>. QED
  BY <1>1, <1>2, <1>3, <1>5, <1>6, <1>10, <1>14, <1>16 DEF CopiesFile

LEMMA Concatenation ==
  ASSUME NEW S, NEW s \in Seq(S), NEW t \in Seq(S)
  PROVE  s \o t \in Seq(S) /\ Len(s \o t) = Len(s) + Len(t)
OBVIOUS

LEMMA DataCopiedStep ==
  ASSUME IInv, Starving, Progress, DataCopied
  PROVE  Progress' /\ CopiesFile(Len(out))
<1>. Locals /\ InCluster
  BY DEF IInv
<1>1. /\ pc = "data" /\ cluster \in Clusters /\ pc' = "next" /\ back' = "advanced"
      /\ out' = out \o [i \in 1 .. ReadLen |-> <<cluster, offset + i - 1>>]
      /\ remaining' = remaining - ReadLen /\ offset' = 0
      /\ UNCHANGED <<disk, cluster, chain_count, request, failed, starved>>
  BY DEF DataCopied, At, GiveBack
<1>2. ~starved
  BY <1>1 DEF DataCopied, At, PoolIdle, Starving, Dry, Waiting
<1>3. PICK count \in 0 .. MAX_CLUSTERS_CHAIN :
        chain_count = count + 1 /\ Copying(count) /\ Reached(Begun + count)
  BY <1>1, AtData
<1>4. CopiesFile(Len(out))
  BY <1>1, <1>2, <1>3, CopyIsOfFile
<1>5. PICK r \in Nat :
        /\ r = ReadLen /\ r >= 1 /\ r <= remaining /\ offset + r <= CLUSTER_UNITS
        /\ r = remaining \/ offset + r = CLUSTER_UNITS
        /\ request.off + Len(out) + r <= Len(File)
  BY <1>4 DEF CopiesFile
<1>6. /\ ChainAt' = ChainAt /\ File' = File /\ node' = node
  BY <1>1, FileSame DEF disk
<1>7. Begun' = Begun /\ Wanted' = Wanted
  BY <1>1, <1>6 DEF Begun, Wanted, Remaining
<1>8. RequestType /\ offset \in Nat /\ remaining \in Nat /\ remaining > 0
  BY <1>1 DEF Progress, Locals, Where
<1>9. ASSUME NEW i \in 1 .. r
      PROVE  <<cluster, offset + i - 1>> \in (0 .. EOC) \X (0 .. CLUSTER_UNITS - 1)
  <2>1. cluster \in 0 .. EOC
    BY DEF Locals
  <2>2. offset + i - 1 \in 0 .. CLUSTER_UNITS - 1
    BY <1>5, <1>8, Numbers
  <2>. QED
    BY <2>1, <2>2
<1>10. /\ [i \in 1 .. r |-> <<cluster, offset + i - 1>>]
             \in Seq((0 .. EOC) \X (0 .. CLUSTER_UNITS - 1))
       /\ Len([i \in 1 .. r |-> <<cluster, offset + i - 1>>]) = r
  BY <1>9
<1>11. out' \in Seq((0 .. EOC) \X (0 .. CLUSTER_UNITS - 1)) /\ Len(out') = Len(out) + r
  <2>1. PICK s : s = [i \in 1 .. r |-> <<cluster, offset + i - 1>>]
    OBVIOUS
  <2>2. out' = out \o s /\ s \in Seq((0 .. EOC) \X (0 .. CLUSTER_UNITS - 1)) /\ Len(s) = r
    BY <1>1, <1>5, <1>10, <2>1
  <2>. QED
    <3>1. out \in Seq((0 .. EOC) \X (0 .. CLUSTER_UNITS - 1))
      BY <1>8 DEF RequestType
    <3>. QED
      BY <2>2, <3>1, Concatenation, Zenon
<1>12. out' # <<>> /\ Len(out) \in Nat
  BY <1>5, <1>8, <1>11 DEF RequestType
<1>13. /\ Begun \in Nat /\ request.off \in Nat
  BY <1>8, BegunBase
<1>14. PICK k \in Nat : k = Begun + count /\ k + 1 = Begun + chain_count
  BY <1>3, <1>13
<1>15. Base(k) \in Nat /\ Base(k + 1) = Base(k) + CLUSTER_UNITS
  BY Bases
<1>16. Len(out) + remaining = Wanted /\ request.off + Len(out) = Base(k) + offset
  BY <1>3, <1>8, <1>14 DEF Copying
<1>17. Copying(chain_count)'
  <2>1. chain_count' >= 1 /\ Begun' + chain_count' = k + 1
    BY <1>1, <1>3, <1>7, <1>14
  <2>2. Len(out') + remaining' = Wanted'
    BY <1>1, <1>5, <1>7, <1>8, <1>11, <1>12, <1>16
  <2>3. /\ request'.off + Len(out') <= Base(k + 1) + offset'
        /\ remaining' > 0 => request'.off + Len(out') = Base(k + 1) + offset'
    <3>1. PICK at \in Nat : at = request.off + Len(out)
      BY <1>12, <1>13
    <3>2. request'.off + Len(out') = at + r /\ at = Base(k) + offset
      <4>1. PICK n \in Nat : n = Len(out)
        BY <1>12
      <4>2. PICK off \in Nat : off = request.off
        BY <1>13
      <4>3. Len(out') = n + r /\ request' = request /\ at = off + n
        BY <1>1, <1>11, <3>1, <4>1, <4>2
      <4>. QED
        BY <1>16, <3>1, <4>2, <4>3
    <3>3. offset + r <= CLUSTER_UNITS /\ (remaining' > 0 => offset + r = CLUSTER_UNITS)
      BY <1>1, <1>5, <1>8
    <3>4. at + r <= Base(k + 1) /\ (remaining' > 0 => at + r = Base(k + 1))
      <4>1. PICK o \in Nat : o = offset
        BY <1>8
      <4>2. at = Base(k) + o /\ o + r <= CLUSTER_UNITS /\ (remaining' > 0 => o + r = CLUSTER_UNITS)
        BY <3>2, <3>3, <4>1
      <4>. QED
        BY <1>15, <4>2, Numbers
    <3>5. Base(k + 1) + offset' = Base(k + 1)
      BY <1>1, <1>15, Numbers
    <3>. QED
      BY <3>2, <3>4, <3>5, Zenon
  <2>4. chain_count' = 0 => out' = <<>>
    BY <2>1
  <2>. QED
    BY <1>1, <2>1, <2>2, <2>3, <2>4 DEF Copying
<1>18. Reached(Begun + chain_count - 1)'
  <2>1. Begun' + chain_count' - 1 = Begun + count
    BY <1>1, <1>3, <1>7, <1>13
  <2>. QED
    BY <1>1, <1>3, <1>6, <2>1 DEF Reached
<1>19. Where'
  BY <1>1, <1>3, <1>17, <1>18 DEF Where
<1>20. Delivered'
  BY <1>1, <1>5, <1>6, <1>11, <1>12, <1>13 DEF Delivered
<1>21. Progress'
  BY <1>1, <1>6, <1>8, <1>11, <1>19, <1>20 DEF Progress, RequestType
<1>. QED
  BY <1>4, <1>21

(***************************************************************************)
(* The invariant.                                                          *)
(***************************************************************************)
ReadInv == IInv /\ Starving /\ Progress

LEMMA InitReadInv == Init => Starving /\ Progress
<1>. SUFFICES ASSUME Init PROVE Starving /\ Progress
  OBVIOUS
<1>1. pc = "ready" /\ request = [off |-> 0, len |-> 0] /\ out = <<>> /\ starved = FALSE
  BY DEF Init
<1>2. out \in Seq((0 .. EOC) \X (0 .. CLUSTER_UNITS - 1))
  BY <1>1, EmptySequence, Zenon
<1>3. RequestType
  BY <1>1, <1>2 DEF RequestType
<1>. QED
  BY <1>1, <1>3 DEF Starving, Waiting, Progress, Where

LEMMA ProgressStays ==
  ASSUME IInv, Starving, Progress, [Next]_vars, IInv'
  PROVE  Progress'
<1>. Locals /\ InCluster /\ failed' \in BOOLEAN /\ starved' \in BOOLEAN
  BY DEF IInv, Locals
<1>1. CASE \E off \in Offsets, len \in Lengths : ReadCall(off, len) \/ ReadPastEnd(off, len)
  BY <1>1, ReadCallStep, ReadPastEndStep
<1>2. CASE SkipLoop \/ Skipped
  BY <1>2, SkipLoopStep, SkippedStep DEF Skipped, At, InCluster
<1>3. CASE MainStops \/ MainTakes
  BY <1>3, MainStopsStep, MainTakesStep
<1>4. CASE DataNoBuffer \/ DataFails \/ DataCopied \/ Advanced
  BY <1>4, DataNoBufferStep, DataFailsStep, DataCopiedStep, AdvancedStep
<1>5. CASE NextRejects \/ NextFails \/ NextReads \/ NextWithoutBuffer
  BY <1>5, NextStep
<1>6. CASE PoolStep
  <2>1. UNCHANGED <<disk, pc, back, locals, request, out>> /\ (starved => starved') /\ failed' = failed
    BY <1>6 DEF PoolStep
  <2>. QED
    BY <2>1, CarriedProgress
<1>7. CASE UNCHANGED vars
  <2>1. UNCHANGED <<disk, pc, back, locals, request, out>> /\ UNCHANGED <<starved, failed>>
    BY <1>7 DEF vars, io
  <2>. QED
    BY <2>1, CarriedProgress
<1>8. CASE NextTakes
  <2>1. /\ pc = "next" /\ pc' = "fat" /\ UNCHANGED <<disk, back, locals, request, out>>
    BY <1>8 DEF NextTakes, At, Take, io
  <2>2. ChainAt' = ChainAt /\ File' = File /\ node' = node
    BY <2>1, FileSame DEF disk
  <2>3. /\ UNCHANGED <<cluster, offset, remaining, chain_count, failed, starved>>
        /\ Begun' = Begun /\ Wanted' = Wanted
    BY <1>8, <2>1, <2>2 DEF NextTakes, locals, io, Begun, Wanted, Remaining
  <2>4. CASE back = "skipped"
    <3>1. PICK k \in Nat : Skipping(k) /\ Reached(k)
      BY <2>1, <2>4 DEF Progress, Where
    <3>2. Skipping(k)' /\ Reached(k)'
      BY <2>1, <2>2, <2>3, <3>1 DEF Skipping, Reached
    <3>. QED
      BY <2>1, <2>2, <2>4, <3>2 DEF Progress, Where, Delivered, RequestType
  <2>5. CASE back = "advanced"
    <3>1. chain_count >= 1 /\ Copying(chain_count) /\ Reached(Begun + chain_count - 1)
      BY <2>1, <2>5 DEF Progress, Where
    <3>2. Copying(chain_count)' /\ Reached(Begun + chain_count - 1)'
      BY <2>1, <2>2, <2>3, <3>1 DEF Copying, Reached
    <3>. QED
      BY <2>1, <2>2, <2>3, <2>5, <3>1, <3>2 DEF Progress, Where, Delivered, RequestType
  <2>. QED
    BY <2>1, <2>4, <2>5 DEF InCluster
<1>9. CASE ReadReturns \/ LookupTakes \/ LookupFinds \/ LookupFindsNothing \/ LookupWithoutBuffer
  <2>1. pc' \in {"ready", "lookup"} /\ UNCHANGED <<request, out>>
    BY <1>9 DEF ReadReturns, LookupTakes, LookupFinds, LookupFindsNothing, LookupWithoutBuffer,
                Take, GiveBack, io
  <2>. QED
    BY <2>1 DEF Progress, Where, RequestType
<1>. QED
  BY <1>1, <1>2, <1>3, <1>4, <1>5, <1>6, <1>7, <1>8, <1>9 DEF Next, Begin, Work

THEOREM ReadInvariance == Spec => []ReadInv
<1>1. Init => ReadInv
  BY InitIInv, InitReadInv DEF ReadInv
<1>2. ReadInv /\ [Next]_vars => ReadInv'
  <2>1. ASSUME ReadInv, [Next]_vars PROVE ReadInv'
    <3>1. IInv'
      BY <2>1, LocalsStep, PoolTypes, StackStep DEF IInv, ReadInv
    <3>. QED
      BY <2>1, <3>1, StarvingStep, ProgressStays DEF ReadInv
  <2>. QED
    BY <2>1
<1>. QED
  BY <1>1, <1>2, PTL DEF Spec

LEMMA LeastIs ==
  ASSUME NEW S \in SUBSET Int, NEW m \in S, \A y \in S : m <= y
  PROVE  Least(S) = m
<1>1. \A x \in S : (\A y \in S : x <= y) => x = m
  OBVIOUS
<1>. QED
  BY <1>1 DEF Least

LEMMA BaseSum ==
  ASSUME NEW j \in Nat, NEW k \in Nat
  PROVE  Base(j + k) = Base(j) + Base(k)
BY UnitsAssumption DEF Base

\* A read that no command failed and that the pool served is as long as the
\* request, the file and MAX_CLUSTERS_CHAIN clusters allow.
THEOREM ReadsAreComplete == Spec => []CompleteUnlessFailed
<1>1. ASSUME ReadInv PROVE CompleteUnlessFailed
  <2>. SUFFICES ASSUME pc = "return", ~failed, ~starved PROVE CompleteUnlessFailed
    BY DEF CompleteUnlessFailed
  <2>1. RequestType /\ Locals /\ Delivered /\ Ended
    BY <1>1 DEF ReadInv, IInv, Progress
  <2>2. PICK off \in Nat, len \in Nat, n \in Nat, size \in Nat :
          off = request.off /\ len = request.len /\ n = Len(out) /\ size = Len(File)
    BY <2>1, BegunBase, FileFacts
  <2>3. PICK k \in Nat : k = Begun
    BY <2>1, BegunBase
  <2>4. PICK r \in 0 .. CLUSTER_UNITS - 1 : r = off % CLUSTER_UNITS /\ off = Base(k) + r
    BY <2>2, <2>3, Division DEF Begun
  <2>5. PICK span \in Nat : span = Base(MAX_CLUSTERS_CHAIN) /\ span >= CLUSTER_UNITS
    <3>1. Base(0 + 1) <= Base(MAX_CLUSTERS_CHAIN) /\ Base(0 + 1) = Base(0) + CLUSTER_UNITS
          /\ Base(0) = 0
      BY Numbers, Bases
    <3>. QED
      BY <3>1, Numbers, Bases
  <2>6. MAX_CLUSTERS_CHAIN * CLUSTER_UNITS = span
    BY <2>5 DEF Base
  <2>7. Base(k + MAX_CLUSTERS_CHAIN) = Base(k) + span /\ Base(k) \in Nat
    BY <2>5, Numbers, BaseSum, Bases
  <2>8. PICK reach \in Nat : reach = span - r /\ reach >= 1
    BY <2>4, <2>5, Numbers
  <2>9. Base(k + MAX_CLUSTERS_CHAIN) = off + reach
    BY <2>4, <2>7, <2>8, Numbers
  <2>10. n = 0 \/ off + n <= size
    BY <2>1, <2>2 DEF Delivered
  <2>11. /\ n <= len
         /\ n = 0 \/ n <= reach
         /\ n = len \/ size <= off + n \/ n = reach
    BY <2>1, <2>2, <2>3, <2>9 DEF Ended
  <2>12. n = IF size <= off THEN 0 ELSE Least({len, size - off, reach})
    <3>1. CASE size <= off
      BY <2>10, <3>1
    <3>2. CASE ~(size <= off)
      <4>1. /\ {len, size - off, reach} \in SUBSET Int /\ n \in {len, size - off, reach}
            /\ n <= len /\ n <= size - off /\ n <= reach
        BY <2>8, <2>10, <2>11, <3>2
      <4>2. Least({len, size - off, reach}) = n
        BY <4>1, LeastIs
      <4>. QED
        BY <3>2, <4>2
    <3>. QED
      BY <3>1, <3>2
  <2>13. reach = MAX_CLUSTERS_CHAIN * CLUSTER_UNITS - (request.off % CLUSTER_UNITS)
    BY <2>2, <2>4, <2>6, <2>8
  <2>. QED
    BY <2>2, <2>12, <2>13 DEF CompleteUnlessFailed
<1>. QED
  BY <1>1, ReadInvariance, PTL

(***************************************************************************)
(* The contract, step by step.  That a call returns is left to TLC.        *)
(***************************************************************************)
LEMMA QuietStep ==
  ASSUME UNCHANGED <<disk, request, out>>,
         (pc \in {"ready", "lookup"}) <=> (pc' \in {"ready", "lookup"})
  PROVE  UNCHANGED Contract!vars
<1>1. File' = File
  BY FileSame
<1>. QED
  BY <1>1 DEF Contract!vars

LEMMA ContractStep ==
  ASSUME ReadInv, [Next]_vars
  PROVE  [Contract!Next]_(Contract!vars)
<1>. IInv /\ Locals /\ InCluster /\ Starving /\ Progress
  BY DEF ReadInv, IInv
<1>1. ASSUME NEW off \in Offsets, NEW len \in Lengths, ReadCall(off, len) \/ ReadPastEnd(off, len)
      PROVE  Contract!Next
  <2>1. /\ pc = "ready" /\ pc' \notin {"ready", "lookup"} /\ UNCHANGED disk
        /\ request' = [off |-> off, len |-> len] /\ out' = <<>>
    BY <1>1 DEF ReadCall, ReadPastEnd, At
  <2>2. File' = File
    BY <2>1, FileSame
  <2>3. Contract!Call(off, len)
    BY <2>1, <2>2 DEF Contract!Call
  <2>. QED
    BY <2>3 DEF Contract!Next
<1>2. CASE DataCopied
  <2>1. CopiesFile(Len(out))
    BY <1>2, DataCopiedStep
  <2>2. /\ pc = "data" /\ pc' = "next" /\ UNCHANGED <<disk, request>>
        /\ out' = out \o [i \in 1 .. ReadLen |-> <<cluster, offset + i - 1>>]
    BY <1>2 DEF DataCopied, At, GiveBack
  <2>3. File' = File
    BY <2>2, FileSame
  <2>4. PICK last : last = request.off + Len(out) + ReadLen
    OBVIOUS
  <2>5. /\ last \in request.off + Len(out) + 1 .. Len(File)
        /\ last <= request.off + request.len
    <3>1. PICK at \in Nat : at = request.off + Len(out)
      BY BegunBase DEF Progress
    <3>2. PICK r \in Nat : r = ReadLen /\ r >= 1 /\ at + r <= Len(File)
                           /\ at + r <= request.off + request.len
      BY <2>1, <3>1 DEF CopiesFile
    <3>. QED
      <4>1. Len(File) \in Int /\ last = at + r
        BY <2>4, <3>1, <3>2, FileFacts DEF Locals
      <4>2. at + r \in at + 1 .. Len(File)
        BY <3>2, <4>1
      <4>. QED
        BY <3>1, <3>2, <4>1, <4>2
  <2>6. out' = out \o SubSeq(File, request.off + Len(out) + 1, last)
    BY <2>1, <2>2, <2>4 DEF CopiesFile
  <2>7. Contract!Deliver
    BY <2>2, <2>3, <2>5, <2>6 DEF Contract!Deliver
  <2>. QED
    BY <2>7 DEF Contract!Next
<1>3. CASE ReadReturns
  <2>1. pc = "return" /\ pc' = "ready" /\ UNCHANGED <<disk, request, out>>
    BY <1>3 DEF ReadReturns, At, io
  <2>2. File' = File
    BY <2>1, FileSame
  <2>3. Contract!Return
    BY <2>1, <2>2 DEF Contract!Return
  <2>. QED
    BY <2>3 DEF Contract!Next
<1>4. CASE PoolStep \/ SkipLoop \/ Skipped \/ MainStops \/ MainTakes \/ DataNoBuffer
           \/ DataFails \/ Advanced \/ UNCHANGED vars
  BY <1>4, QuietStep DEF PoolStep, SkipLoop, Skipped, MainStops, MainTakes, DataNoBuffer,
                         DataFails, Advanced, At, Take, GiveBack, io, vars
<1>5. CASE NextRejects \/ NextTakes \/ NextFails \/ NextReads \/ NextWithoutBuffer
  BY <1>5, QuietStep DEF NextRejects, NextTakes, NextFails, NextReads, NextWithoutBuffer,
                         At, Take, GiveBack, io, InCluster
<1>6. CASE LookupTakes \/ LookupFinds \/ LookupFindsNothing \/ LookupWithoutBuffer
  BY <1>6, QuietStep DEF LookupTakes, LookupFinds, LookupFindsNothing, LookupWithoutBuffer,
                         At, Take, GiveBack, io
<1>. QED
  BY <1>1, <1>2, <1>3, <1>4, <1>5, <1>6 DEF Next, Begin, Work

\* Fat32Read implements the safety part of FileContract: whatever the FAT
\* holds and whatever fails, each copy delivers the next units of the file,
\* and nothing else that a caller can see ever changes.
THEOREM ReadsKeepTheContract == Spec => Contract!Init /\ [][Contract!Next]_(Contract!vars)
<1>1. Init => Contract!Init
  BY DEF Init, Contract!Init
<1>. QED
  BY <1>1, ContractStep, ReadInvariance, PTL DEF Spec
=============================================================================
