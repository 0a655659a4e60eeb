------------------------------- MODULE Loader -------------------------------
(***************************************************************************)
(* The program that the boot loads: UnGoToUserland and Elf64Load           *)
(* (fs/ext/elf.c) over the page frames and the heap of kernel/memory/      *)
(* malloc.c.  Fat32Open and Fat32Read are in DirLookup and FatRead.        *)
(*                                                                         *)
(* Abstractions.  Memory is counted in units, PAGE to a page; the unit at  *)
(* offset o of the file is the value o + 1.  All page tables that the user *)
(* mappings make are physical page 0 (see Paging), so that the user's      *)
(* pages are one table, used modulo its length.  No segment lies in a      *)
(* region that is identity mapped with large pages, nor at the physical    *)
(* address of a frame that palloc_page may give.                           *)
(***************************************************************************)
EXTENDS Integers, Sequences, FiniteSets

CONSTANTS
  NULL,
  PAGE, PT_ENTRIES,      \* units of a page, entries of a page table
  TRACKED,               \* MAX_TRACKED_PAGES
  Regions,               \* pages from base_phys_addr that are the kernel's, the disk's, the heap's
  IDENTITY,              \* the frames that are mapped at their own addresses
  HEAP_ALIGN, HEAP_SIZE,
  NodeSize,              \* of a VFSNode
  PROGRAM_PATH,          \* the length of the program's path (5)
  AHCI_IN_HEAP,          \* the units of the heap where the disk's command structures lie
  HEAP_FRAME             \* a frame that the boot mapped as the user's heap

Frames == 0 .. TRACKED - 1
JUNK   == -1

VARIABLES
  pc,
  file,                  \* what the path leads to: NULL or [type, size, elf, segments]
  nxe,                   \* whether the firmware has left page tables with a no-execute bit
  page_bitmap, last_allocated_index,
  heap_curr,
  table, no_exec, memory, \* page 0 as a page table; the frames mapped with PAGE_NX; their units
  seg, off               \* locals of Elf64Load: segment, page of it

given  == <<file, nxe>>
frames == <<page_bitmap, last_allocated_index>>
mapped == <<table, no_exec>>
locals == <<seg, off>>

InitLoader ==
  /\ page_bitmap = [k \in Frames |-> 0] /\ last_allocated_index = 0
  /\ heap_curr = 0
  /\ table = [k \in 0 .. PT_ENTRIES - 1 |-> HEAP_FRAME] /\ no_exec = {}
  /\ memory = [f \in Frames |-> [u \in 0 .. PAGE - 1 |-> JUNK]]
  /\ seg = 1 /\ off = 0

init_phys_allocator ==
  /\ pc = "frames"
  /\ page_bitmap' = [k \in Frames |-> IF k \in Regions THEN 1 ELSE 0]
  /\ pc' = "madt"
  /\ UNCHANGED <<given, last_allocated_index, heap_curr, mapped, memory, locals>>

(***************************************************************************)
(* UnGoToUserland.  Each segment of the path that is found takes a node    *)
(* from the heap.  kmalloc never fails; beyond its end the heap is not     *)
(* mapped, and before that it reaches the structures by which the disk     *)
(* finds its commands.                                                     *)
(***************************************************************************)
AlignUp(n) == ((n + HEAP_ALIGN - 1) \div HEAP_ALIGN) * HEAP_ALIGN

\* What writing to these units of the heap leads to.
Writing(units, next) ==
  CASE units \cap AHCI_IN_HEAP # {}        -> "wild"
    [] \E u \in units : u >= HEAP_SIZE     -> "reset"
    [] OTHER                               -> next

Open ==
  /\ pc = "open"
  /\ \E found \in 0 .. PROGRAM_PATH, complete \in BOOLEAN :
       LET size   == IF found = PROGRAM_PATH /\ file.type = "file" THEN file.size ELSE 0
           buffer == heap_curr + found * AlignUp(NodeSize)
       IN  /\ found = PROGRAM_PATH => file # NULL
           /\ heap_curr' = buffer + AlignUp(size)
           /\ pc' = Writing(heap_curr .. buffer + size - 1,
                            IF complete /\ size > 0 THEN "load" ELSE "reset")
  /\ UNCHANGED <<given, frames, mapped, memory, locals>>

(***************************************************************************)
(* Elf64Load; UnGoToUserland does not look at its result                   *)
(***************************************************************************)
Segment  == file.segments[seg]
FirstOf(s)  == s.vaddr \div PAGE
PagesOf(s) == (s.vaddr + s.memsz + PAGE - 1) \div PAGE - FirstOf(s)
EntryOf(page) == page % PT_ENTRIES

NoElf ==
  /\ pc = "load" /\ ~file.elf
  /\ pc' = "userland"
  /\ UNCHANGED <<given, frames, heap_curr, mapped, memory, locals>>

Loading == pc = "load" /\ file.elf /\ seg <= Len(file.segments)

SkipSegment ==
  /\ Loading /\ ~Segment.load
  /\ seg' = seg + 1
  /\ UNCHANGED <<pc, given, frames, heap_curr, mapped, memory, off>>

\* palloc_page: the next free frame, or one that came free before it.  There
\* is always one: the first that is not in IDENTITY stops the machine.
Free  == {k \in Frames : page_bitmap[k] = 0}
Next0 == {k \in Free : k >= last_allocated_index}
Lowest(S) == CHOOSE k \in S : \A l \in S : k <= l
palloc_page == Lowest(IF Next0 # {} THEN Next0 ELSE Free)

AllocatePage ==
  /\ Loading /\ Segment.load /\ off < PagesOf(Segment)
  /\ page_bitmap' = [page_bitmap EXCEPT ![palloc_page] = 1]
  /\ last_allocated_index' = palloc_page + 1

\* (Mutant: the page is mapped as it is.)
NotZeroed(f) == memory
Zeroed(f) == [memory EXCEPT ![f] = [u \in 0 .. PAGE - 1 |-> 0]]

\* A page is zeroed at its physical address, and then mapped, with PAGE_NX if
\* the segment is not for execution.
MapPage ==
  /\ AllocatePage
  /\ palloc_page \in IDENTITY
  /\ memory' = Zeroed(palloc_page)
  /\ table' = [table EXCEPT ![EntryOf(FirstOf(Segment) + off)] = palloc_page]
  /\ no_exec' = IF Segment.exec THEN no_exec ELSE no_exec \cup {palloc_page}
  /\ off' = off + 1
  /\ UNCHANGED <<pc, given, heap_curr, seg>>

\* The frames from 16 MiB on are palloc_page's, too, but nothing maps them.
ZeroingFaults ==
  /\ AllocatePage
  /\ palloc_page \notin IDENTITY
  /\ pc' = "reset"
  /\ UNCHANGED <<given, heap_curr, mapped, memory, locals>>

\* The copy goes to the beginning of the page, wherever in it the segment
\* begins, and is filesz units long.
Target(s, u) == table[EntryOf(FirstOf(s) + u \div PAGE)]

FileUnits(s) == 0 .. s.filesz - 1

Copied(s) ==
  [f \in Frames |-> [u \in 0 .. PAGE - 1 |->
     LET from == {v \in FileUnits(s) : Target(s, v) = f /\ v % PAGE = u}
     IN  IF from = {} THEN memory[f][u]
         ELSE s.offset + 1 + (CHOOSE v \in from : \A w \in from : w <= v)]]

ToCopy == Loading /\ Segment.load /\ off = PagesOf(Segment)

\* The kernel does not set EFER.NXE; without it PAGE_NX is a reserved bit, and
\* any access to the page a fault.
Faulting == {v \in FileUnits(Segment) : ~nxe /\ Target(Segment, v) \in no_exec}

CopySegment ==
  /\ ToCopy /\ Faulting = {}
  /\ memory' = Copied(Segment)
  /\ seg' = seg + 1 /\ off' = 0
  /\ UNCHANGED <<pc, given, frames, heap_curr, mapped>>

CopyFaults ==
  /\ ToCopy /\ Faulting # {}
  /\ pc' = "reset"
  /\ UNCHANGED <<given, frames, heap_curr, mapped, memory, locals>>

UnStartUserland ==
  /\ pc = "load" /\ file.elf /\ seg > Len(file.segments)
  /\ pc' = "userland"
  /\ UNCHANGED <<given, frames, heap_curr, mapped, memory, locals>>

Loader ==
  \/ init_phys_allocator
  \/ Open \/ NoElf \/ SkipSegment \/ MapPage \/ ZeroingFaults
  \/ CopySegment \/ CopyFaults \/ UnStartUserland
=============================================================================
