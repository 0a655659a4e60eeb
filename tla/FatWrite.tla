------------------------------ MODULE FatWrite ------------------------------
(***************************************************************************)
(* Creating a file on a FAT32 volume: Fat32CreateFile with                 *)
(* Fat32FindFreeCluster and Fat32WriteFATEntry (fs/vfs.c), on a disk any   *)
(* command of which may fail, with a DMA pool that may be empty, and with  *)
(* a reset between any two commands.  The module has the code's own        *)
(* numbering of clusters and its own idea of where the FAT is.             *)
(*                                                                         *)
(* Abstractions.  A sector has SLOTS slots, whatever it is for; a FAT      *)
(* entry is FREE or EOC; a directory entry is the first cluster of its     *)
(* file, FREE for both the marks 0x00 and 0xE5.  Names, sizes and data are *)
(* left out: the data command writes JUNK, because it is given the virtual *)
(* address of its buffer for the physical one.  A failed command may have  *)
(* written or not.                                                         *)
(*                                                                         *)
(* The search reads the volume's FAT, and the end mark is written          *)
(* FIRST_LBA sectors in front of it: for a partition that does not start   *)
(* with the disk, no entry of the new cluster in any copy of the volume's  *)
(* FAT is ever written.                                                    *)
(***************************************************************************)
EXTENDS Integers, FiniteSets

CONSTANTS
  FIRST_LBA,                      \* of the partition
  RESERVED, FAT_SIZE, NUM_FATS,   \* of its boot sector
  SPC,                            \* sectors_per_cluster
  SLOTS, DIR_SLOTS,               \* per sector (128 and 16)
  InUse                           \* the sets of clusters in use at the start

FREE == 0
EOC  == 100
JUNK == 101
Root == 2
TotalClusters == FAT_SIZE * SLOTS
Clusters      == Root .. TotalClusters - 1

ASSUME LayoutAssumption ==
  /\ {FIRST_LBA, RESERVED} \subseteq Nat
  /\ {FAT_SIZE, NUM_FATS, SPC, DIR_SLOTS} \subseteq Nat \ {0}
  /\ SLOTS \in Nat /\ SLOTS >= 4 /\ DIR_SLOTS <= SLOTS
ASSUME InUseAssumption == \A U \in InUse : U \subseteq Clusters \ {Root}

VARIABLES
  disk,        \* sectors by LBA
  fat_lock,
  held,        \* the DMA buffers of the call
  pc, sector, NewCluster, copy, slot,  \* locals
  named,       \* history: the clusters for which a directory entry was written
  unsure       \* history: those whose FAT entry a command or a reset kept from being written

locals  == <<sector, NewCluster, copy, slot>>
history == <<named, unsure>>
vars    == <<disk, fat_lock, held, pc, locals, history>>

fat_start_sector  == FIRST_LBA + RESERVED
first_data_sector == fat_start_sector + NUM_FATS * FAT_SIZE
FirstSector(c)    == first_data_sector + (c - 2) * SPC
dir_sector        == FirstSector(Root)
SectorsOf(c)      == FirstSector(c) .. FirstSector(c) + SPC - 1
Lbas              == 0 .. FirstSector(TotalClusters) - 1

\* A volume as a tool formats it; one file of one cluster for each in use.
InitialSector(l, U) ==
  LET first == ((l - fat_start_sector) % FAT_SIZE) * SLOTS
  IN  [i \in 0 .. SLOTS - 1 |->
         IF l \in fat_start_sector .. first_data_sector - 1
         THEN IF first + i \in U \cup {0, 1, Root} THEN EOC ELSE FREE
         ELSE IF l = dir_sector /\ i = 0 /\ U # {} THEN CHOOSE c \in U : TRUE
         ELSE FREE]

Init ==
  /\ \E U \in InUse : disk = [l \in Lbas |-> InitialSector(l, U)]
  /\ fat_lock = FALSE /\ held = {}
  /\ pc = "ready" /\ sector = 0 /\ NewCluster = Root /\ copy = 0 /\ slot = 0
  /\ named = {} /\ unsure = {}

Goto(label) == pc' = label

\* palloc_aligned_DMA at one label: on to the next, or out of frames.
Alloc(here, buf, next) ==
  /\ pc = here
  /\ held' = held \cup {buf}
  /\ Goto(next)
  /\ UNCHANGED <<disk, fat_lock, locals, history>>

NoBuffer ==
  /\ pc \in {"find", "dir", "data"}
  /\ Goto("ready")
  /\ UNCHANGED <<disk, fat_lock, held, locals, history>>

Fat32CreateFile ==
  /\ pc = "ready"
  /\ Goto("find")
  /\ sector' = 0 /\ copy' = 0
  /\ UNCHANGED <<disk, fat_lock, held, NewCluster, slot, history>>

(***************************************************************************)
(* Fat32FindFreeCluster                                                    *)
(***************************************************************************)
\* The number of an entry is computed from its offset in bytes, not from its
\* index.
Number(s, index) == s * SLOTS + 4 * index

Candidates(s) ==
  {i \in 0 .. SLOTS - 1 : /\ Number(s, i) \in Clusters
                          /\ disk[fat_start_sector + s][i] = FREE}

FindFails ==
  /\ pc = "scan"
  /\ held' = {}
  /\ Goto("ready")
  /\ UNCHANGED <<disk, fat_lock, locals, history>>

FindFinds ==
  /\ pc = "scan"
  /\ \E i \in Candidates(sector) :
       /\ \A j \in Candidates(sector) : i <= j
       /\ NewCluster' = Number(sector, i)
  /\ held' = {}
  /\ Goto("fat")
  /\ UNCHANGED <<disk, fat_lock, sector, copy, slot, history>>

FindMovesOn ==
  /\ pc = "scan"
  /\ Candidates(sector) = {}
  /\ IF sector + 1 < FAT_SIZE
     THEN sector' = sector + 1 /\ UNCHANGED <<pc, held>>
     ELSE held' = {} /\ Goto("ready") /\ UNCHANGED sector
  /\ UNCHANGED <<disk, fat_lock, NewCluster, copy, slot, history>>

(***************************************************************************)
(* Fat32WriteFATEntry(NewCluster, FAT32_EOC).  Its result is ignored.      *)
(***************************************************************************)
\* Counted from the beginning of the disk, not of the partition.
FatSector(k, c) == RESERVED + k * FAT_SIZE + c \div SLOTS

Acquire ==
  /\ pc = "fat"
  /\ ~fat_lock
  /\ fat_lock' = TRUE
  /\ Goto("copy")
  /\ UNCHANGED <<disk, held, locals, history>>

Return ==
  /\ fat_lock' = FALSE
  /\ Goto("dir")

\* (Mutant: a copy too few.)
CopiesDoneEarly ==
  /\ pc = "copy"
  /\ copy + 1 >= NUM_FATS
  /\ Return
  /\ UNCHANGED <<disk, held, locals, history>>

CopiesDone ==
  /\ pc = "copy"
  /\ copy = NUM_FATS
  /\ Return
  /\ UNCHANGED <<disk, held, locals, history>>

CopyTakes == copy < NUM_FATS /\ Alloc("copy", "fat", "read")

CopyNoBuffer ==
  /\ pc = "copy"
  /\ copy < NUM_FATS
  /\ unsure' = unsure \cup {NewCluster}
  /\ Return
  /\ UNCHANGED <<disk, held, locals, named>>

ReadFails ==
  /\ pc = "read"
  /\ held' = {}
  /\ unsure' = unsure \cup {NewCluster}
  /\ Return
  /\ UNCHANGED <<disk, locals, named>>

ReadDone ==
  /\ pc = "read"
  /\ Goto("write")
  /\ UNCHANGED <<disk, fat_lock, held, locals, history>>

EntryWritten == disk' = [disk EXCEPT ![FatSector(copy, NewCluster)][NewCluster % SLOTS] = EOC]

WriteDone ==
  /\ pc = "write"
  /\ EntryWritten
  /\ held' = {}
  /\ copy' = copy + 1
  /\ Goto("copy")
  /\ UNCHANGED <<fat_lock, sector, NewCluster, slot, history>>

\* STATUS_TIMEOUT is -2, and !(-2) is false.
WriteTimesOut ==
  /\ pc = "write"
  /\ held' = {}
  /\ copy' = copy + 1
  /\ unsure' = unsure \cup {NewCluster}
  /\ Goto("copy")
  /\ UNCHANGED <<disk, fat_lock, sector, NewCluster, slot, named>>

\* (Mutant: the error path does not return the buffer.)
WriteFailsHolding ==
  /\ pc = "write"
  /\ EntryWritten \/ UNCHANGED disk
  /\ unsure' = unsure \cup {NewCluster}
  /\ Return
  /\ UNCHANGED <<held, locals, named>>

WriteFails ==
  /\ pc = "write"
  /\ EntryWritten \/ UNCHANGED disk
  /\ held' = {}
  /\ unsure' = unsure \cup {NewCluster}
  /\ Return
  /\ UNCHANGED <<locals, named>>

(***************************************************************************)
(* Fat32CreateFile: the directory and the data                             *)
(***************************************************************************)
\* Slots of the root's cluster, through its SPC sectors.
DirSlots == {n \in 0 .. SPC * DIR_SLOTS - 1 :
               disk[dir_sector + n \div DIR_SLOTS][n % DIR_SLOTS] = FREE}

DirRead ==
  /\ pc = "dirread"
  /\ \E n \in DirSlots : (\A m \in DirSlots : n <= m) /\ slot' = n
  /\ Goto("dirwrite")
  /\ UNCHANGED <<disk, fat_lock, held, sector, NewCluster, copy, history>>

DirFailsOrFull ==
  /\ pc = "dirread"
  /\ held' = {}
  /\ Goto("ready")
  /\ UNCHANGED <<disk, fat_lock, locals, history>>

\* One sector is written, the first, whichever the slot is in.  The result is
\* ignored.
DirWritten ==
  IF slot < DIR_SLOTS
  THEN /\ disk' = [disk EXCEPT ![dir_sector][slot] = NewCluster]
       /\ named' = named \cup {NewCluster}
  ELSE UNCHANGED <<disk, named>>

DirWrite ==
  /\ pc = "dirwrite"
  /\ DirWritten \/ UNCHANGED <<disk, named>>
  /\ held' = {}
  /\ Goto("data")
  /\ UNCHANGED <<fat_lock, locals, unsure>>

DataWritten ==
  disk' = [l \in Lbas |-> IF l \in SectorsOf(NewCluster)
                          THEN [i \in 0 .. SLOTS - 1 |-> JUNK] ELSE disk[l]]

DataWrite ==
  /\ pc = "datawrite"
  /\ DataWritten \/ UNCHANGED disk
  /\ held' = {}
  /\ Goto("ready")
  /\ UNCHANGED <<fat_lock, locals, history>>

\* The machine is reset: the disk is what remains.
Reset ==
  /\ pc # "ready"
  /\ Goto("ready")
  /\ held' = {} /\ fat_lock' = FALSE
  /\ unsure' = IF pc \in {"fat", "copy", "read", "write"} THEN unsure \cup {NewCluster} ELSE unsure
  /\ UNCHANGED <<disk, locals, named>>

Work ==
  \/ Alloc("find", "fat", "scan") \/ CopyTakes
  \/ Alloc("dir", "dir", "dirread") \/ Alloc("data", "data", "datawrite") \/ NoBuffer
  \/ FindFails \/ FindFinds \/ FindMovesOn
  \/ Acquire \/ CopiesDone \/ CopyNoBuffer \/ ReadFails \/ ReadDone
  \/ WriteDone \/ WriteTimesOut \/ WriteFails
  \/ DirRead \/ DirFailsOrFull \/ DirWrite \/ DataWrite

Next == Fat32CreateFile \/ Work \/ Reset

Spec == Init /\ [][Next]_vars

(***************************************************************************)
(* What is promised                                                        *)
(***************************************************************************)
\* Types; a cluster that is about to be used is one the FAT covers; whichever
\* step fails, a call has one buffer at a time, and it and the lock come back.
TypeOK ==
  /\ disk \in [Lbas -> [0 .. SLOTS - 1 -> {FREE, EOC, JUNK} \cup Clusters]]
  /\ fat_lock \in BOOLEAN
  /\ held \subseteq {"fat", "dir", "data"}
  /\ Cardinality(held) <= 1 /\ (pc = "ready" => held = {} /\ ~fat_lock)
  /\ sector \in 0 .. FAT_SIZE - 1 /\ copy \in 0 .. NUM_FATS
  /\ NewCluster \in Clusters
  /\ slot \in 0 .. SPC * DIR_SLOTS - 1
  /\ named \subseteq Clusters /\ unsure \subseteq Clusters

\* Where the volume has the entry of a cluster, in copy k of its FAT.
VolumeFat(k, c) == fat_start_sector + k * FAT_SIZE + c \div SLOTS

\* A directory entry gets to the disk after the end mark of its cluster got to
\* as many sectors as there are copies of the FAT, unless a command for that
\* failed or timed out: a reset never leaves an entry without them.  They are
\* not the entries of the volume's FAT but those FIRST_LBA sectors in front.
MarksFirst ==
  \A c \in named \ unsure : \A k \in 0 .. NUM_FATS - 1 :
    disk[VolumeFat(k, c) - FIRST_LBA][c % SLOTS] = EOC

\* Where the partition starts behind all the sectors so marked, the volume's
\* FAT is as it was when the volume was formatted, whatever has been created:
\* a cluster that an entry names is still free there, and no chain is cut.
FatUntouched ==
  FIRST_LBA >= RESERVED + NUM_FATS * FAT_SIZE =>
    \E U \in InUse : \A l \in fat_start_sector .. first_data_sector - 1 :
      disk[l] = InitialSector(l, U)

\* Both: what a create does to the marks, and to the FAT.
MarksBeforeDirectory == MarksFirst /\ FatUntouched

=============================================================================
