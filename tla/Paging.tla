------------------------------- MODULE Paging -------------------------------
(***************************************************************************)
(* The four levels of page tables (kernel/memory/paging.c) and the two     *)
(* functions of malloc.c that walk them.  Tables are frames of physical    *)
(* memory that alloc_page hands out one after another and that are never   *)
(* returned; the kernel reads and writes them at their physical address,   *)
(* so that a wrong address in an entry is a write to whatever is there.    *)
(*                                                                         *)
(* A virtual page is the sequence of its four indices.  The handlers of    *)
(* interrupts map nothing, so one turn of a mapping loop is one action.    *)
(* The kernel's own mappings (map_virtual for its heap and for DMA         *)
(* buffers, unmap_page) come in any order; what the boot maps once - the   *)
(* identity mappings, then the user stack and heap, then the pages of the  *)
(* program that Elf64Load maps - comes in the order of BootMaps.           *)
(*                                                                         *)
(* Abstractions.  Of the flags, U/S and PS are kept.  Physical page 0 is   *)
(* taken to be zero at boot.  No page lies in a region that is identity    *)
(* mapped with large pages.                                                *)
(***************************************************************************)
EXTENDS Integers, Sequences

CONSTANTS
  Indices,            \* of a table (0 .. 511)
  FIRST_TABLE,        \* the frame next_free_page starts at (4)
  TABLES_END,         \* bound: the first frame that is no table
  KernelPages,        \* where map_virtual and unmap_page are used
  KernelFrames,
  BootMaps,           \* a sequence of [kind, page, frame]
  Unmapped

BootFrames == {BootMaps[k].frame : k \in DOMAIN BootMaps}
Tables     == FIRST_TABLE .. TABLES_END - 1
Frames     == {0} \cup Tables \cup KernelFrames \cup BootFrames

ASSUME FramesAssumption ==
  /\ FIRST_TABLE \in Nat \ {0} /\ TABLES_END \in Nat /\ FIRST_TABLE < TABLES_END
  /\ (KernelFrames \cup BootFrames) \cap Tables = {}
ASSUME PagesAssumption == KernelPages \subseteq [1 .. 4 -> Indices]
\* The kernel's pages are in the upper half of the addresses, those of the
\* boot in the lower.
ASSUME BootAssumption ==
  /\ BootMaps \in Seq([kind : {"identity", "user"}, page : [1 .. 4 -> Indices], frame : BootFrames])
  /\ \A k \in DOMAIN BootMaps : \A v \in KernelPages : BootMaps[k].page[1] # v[1]
ASSUME UnmappedAssumption == Unmapped \notin Frames

VARIABLES
  mem,             \* the frames, as tables
  next_free_page,
  tlb,             \* the translations of kernel pages that the CPU holds
  boot,            \* how many of BootMaps are done
  overwritten      \* history: mapped again while mapped

vars == <<mem, next_free_page, tlb, boot, overwritten>>

NoEntry    == [present |-> FALSE, frame |-> 0, large |-> FALSE, user |-> FALSE]
EmptyTable == [i \in Indices |-> NoEntry]
Link(f, u) == [present |-> TRUE, frame |-> f, large |-> FALSE, user |-> u]
PML4       == FIRST_TABLE

Init ==
  /\ mem = [f \in Frames |-> EmptyTable]
  /\ next_free_page = FIRST_TABLE + 1
  /\ tlb = [v \in KernelPages |-> Unmapped]
  /\ boot = 0
  /\ overwritten = {}

(***************************************************************************)
(* One level down, with a new table where there is none.  The functions    *)
(* for user pages enter virt_to_phys_simple of the new table's address,    *)
(* which is 0 for every address below KERNEL_VIRT_BASE.                    *)
(***************************************************************************)
virt_to_phys_simple(f) == 0

TableAddress(f, u) == IF u THEN virt_to_phys_simple(f) ELSE f

\* (Mutant: next_free_page is not moved on.)
alloc_page_Again(w) == [w EXCEPT !.mem[w.next] = EmptyTable]
alloc_page(w) == [w EXCEPT !.mem[w.next] = EmptyTable, !.next = w.next + 1]

\* (Mutant: a table that is there is replaced.)
DownAlwaysNew(w, i, u) ==
  LET a == TableAddress(w.next, u)
  IN  [alloc_page(w) EXCEPT !.mem[w.at][i] = Link(a, u), !.at = a]

Down(w, i, u) ==
  IF w.mem[w.at][i].present
  THEN [w EXCEPT !.at = w.mem[w.at][i].frame]
  ELSE LET a == TableAddress(w.next, u)
       IN  [alloc_page(w) EXCEPT !.mem[w.at][i] = Link(a, u), !.at = a]

Root == [mem |-> mem, next |-> next_free_page, at |-> PML4]
PD(v, u) == Down(Down(Root, v[1], u), v[2], u)
PT(v, u) == Down(PD(v, u), v[3], u)

Enter(w, i, entry) ==
  /\ w.next <= TABLES_END
  /\ mem' = [w.mem EXCEPT ![w.at][i] = entry]
  /\ next_free_page' = w.next

(***************************************************************************)
(* The walk of the processor                                               *)
(***************************************************************************)
EntryAt(f, i) == mem[f][i]

Walk(v) ==
  LET e1 == EntryAt(PML4, v[1])
      e2 == EntryAt(e1.frame, v[2])
      e3 == EntryAt(e2.frame, v[3])
  IN  <<e1, e2, e3, EntryAt(e3.frame, v[4])>>

Translate(v) ==
  LET w == Walk(v)
  IN  IF (\A k \in 1 .. 4 : w[k].present) /\ ~w[3].large THEN w[4].frame ELSE Unmapped

Mapped(v) == Translate(v) # Unmapped

\* The processor may keep the translation of a page it has used.
Access(v) ==
  /\ Mapped(v)
  /\ tlb' = [tlb EXCEPT ![v] = Translate(v)]
  /\ UNCHANGED <<mem, next_free_page, boot, overwritten>>

(***************************************************************************)
(* The operations                                                          *)
(***************************************************************************)
map_virtual(v, f) ==
  /\ Enter(PT(v, FALSE), v[4], Link(f, FALSE))
  /\ overwritten' = IF Mapped(v) THEN overwritten \cup {v} ELSE overwritten
  /\ UNCHANGED <<tlb, boot>>

\* (Mutant: the page is not invalidated.)
unmap_page_NoInvlpg(v) ==
  /\ Mapped(v)
  /\ mem' = [mem EXCEPT ![Walk(v)[3].frame][v[4]] = NoEntry]
  /\ overwritten' = overwritten \ {v}
  /\ UNCHANGED <<next_free_page, boot, tlb>>

unmap_page(v) ==
  /\ Mapped(v)
  /\ mem' = [mem EXCEPT ![Walk(v)[3].frame][v[4]] = NoEntry]
  /\ tlb' = [tlb EXCEPT ![v] = Unmapped]
  /\ overwritten' = overwritten \ {v}
  /\ UNCHANGED <<next_free_page, boot>>

\* 0 stands for "not mapped"; a table at address 0 counts as missing, and
\* only the last entry's present bit is looked at.
get_physical_address(v) ==
  IF \E k \in 1 .. 3 : Walk(v)[k].frame = 0 THEN 0
  ELSE IF Walk(v)[4].present THEN Walk(v)[4].frame ELSE 0

BootStep(kind) ==
  /\ boot < Len(BootMaps)
  /\ BootMaps[boot + 1].kind = kind
  /\ boot' = boot + 1
  /\ UNCHANGED <<tlb, overwritten>>

map_identity ==
  LET m == BootMaps[boot + 1]
  IN  /\ BootStep("identity")
      /\ Enter(PD(m.page, FALSE), m.page[3], [Link(m.frame, FALSE) EXCEPT !.large = TRUE])

map_virtual_user ==
  LET m == BootMaps[boot + 1]
  IN  /\ BootStep("user")
      /\ Enter(PT(m.page, TRUE), m.page[4], Link(m.frame, TRUE))

Next ==
  \/ \E v \in KernelPages, f \in KernelFrames : map_virtual(v, f)
  \/ \E v \in KernelPages : unmap_page(v) \/ Access(v)
  \/ map_identity \/ map_virtual_user

Spec == Init /\ [][Next]_vars

(***************************************************************************)
(* What is promised                                                        *)
(***************************************************************************)
Entry == [present : BOOLEAN, frame : Frames, large : BOOLEAN, user : BOOLEAN]

\* Types; the frames alloc_page has not reached are untouched.
TypeOK ==
  /\ mem \in [Frames -> [Indices -> Entry]]
  /\ next_free_page \in FIRST_TABLE + 1 .. TABLES_END
  /\ \A f \in Tables : f >= next_free_page => mem[f] = EmptyTable
  /\ tlb \in [KernelPages -> KernelFrames \cup {Unmapped}]
  /\ boot \in 0 .. Len(BootMaps)
  /\ overwritten \subseteq KernelPages

\* No table hangs under two entries, and no page maps one: else a mapping of
\* one page would change another's, or a write to a page the tables.
OneParent ==
  /\ TypeOK
  /\ LET links == {p \in Frames \X Indices :
                     mem[p[1]][p[2]].present /\ mem[p[1]][p[2]].frame \in Tables}
     IN  \A p, q \in links : mem[p[1]][p[2]].frame = mem[q[1]][q[2]].frame => p = q

\* What pfree_aligned_DMA takes a page's frame to be, and what the processor
\* keeps of it, is what the tables say.  unmap_page invalidates the page,
\* map_virtual does not, which is right as long as no mapped page is mapped
\* again.
TranslationsAgree ==
  \A v \in KernelPages :
    /\ get_physical_address(v) = IF Mapped(v) THEN Translate(v) ELSE 0
    /\ v \notin overwritten => tlb[v] \in {Unmapped, Translate(v)}

\* However the mappings of kernel pages, the boot's identity mappings and the
\* user mappings with their tables at address 0 are interleaved, the kernel
\* pages' part of the tables is a map that changes at the page asked for.
KernelSpace == INSTANCE AddressSpace WITH
                 Pages <- KernelPages, Frames <- KernelFrames,
                 map <- [v \in KernelPages |-> Translate(v)]

ImplementsAddressSpace == KernelSpace!Spec

(***************************************************************************)
(* What a comment promises, and the code does not do                       *)
(***************************************************************************)
\* "dengan flag USER untuk akses user mode": a page that was mapped for user
\* mode can be used in user mode, and leads to its frame.
UserPagesReachable ==
  \A k \in 1 .. boot :
    LET m == BootMaps[k] IN
    m.kind = "user" =>
      /\ Translate(m.page) = m.frame
      /\ \A l \in 1 .. 4 : Walk(m.page)[l].user
=============================================================================
