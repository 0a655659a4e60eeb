--------------------------- MODULE FatVolumeProofs ---------------------------
(***************************************************************************)
(* Proofs about the volume: FatWrite's cluster allocation first, then      *)
(* DirLookup's walk, search and listing.                                   *)
(*                                                                         *)
(* FatWrite, for volumes of any size at any place of the disk: the         *)
(* inductive invariant says how many end marks have been written at each   *)
(* point of a call, for a cluster that nothing failed for.  What is        *)
(* written later is written behind the volume's FAT, and so behind the     *)
(* marks, whose sectors are in front of that FAT if there is room.         *)
(*                                                                         *)
(* DirLookup, for directories of any size and names of any length that     *)
(* lfn_list has room for: the inductive invariant says that a directory    *)
(* consists of the runs of entries of its files, which nothing else shares *)
(* and which no fragment precedes, so that what the search or the listing  *)
(* has collected at a short entry is the name of the file that ends there, *)
(* and that the walk has come as far in the tree as on the disk.           *)
(***************************************************************************)
EXTENDS FatWrite, DirLookup, FiniteSetTheorems, SequenceTheorems, Induction

Marked(d, k, c) == d[FatSector(k, c)][c % SLOTS] = EOC

Types ==
  /\ disk \in [Lbas -> [0 .. SLOTS - 1 -> {FREE, EOC, JUNK} \cup Clusters]]
  /\ NewCluster \in Clusters /\ sector \in Nat /\ copy \in 0 .. NUM_FATS
  /\ named \subseteq Clusters

\* The copies that are marked when the call is where it is.
InOrder ==
  /\ pc \in {"find", "scan", "fat"} => copy = 0
  /\ pc \in {"copy", "read", "write"} =>
       NewCluster \in unsure \/ \A k \in 0 .. copy - 1 : Marked(disk, k, NewCluster)
  /\ pc \in {"read", "write"} => copy < NUM_FATS
  /\ pc \in {"dir", "dirread", "dirwrite"} =>
       NewCluster \in unsure \/ \A k \in 0 .. NUM_FATS - 1 : Marked(disk, k, NewCluster)

\* MarksFirst, in the code's own numbering of sectors.
Ordered == \A c \in named \ unsure : \A k \in 0 .. NUM_FATS - 1 : Marked(disk, k, c)

IInv == Types /\ InOrder /\ Ordered /\ FatUntouched

(***************************************************************************)
(* The layout                                                              *)
(***************************************************************************)
LEMMA Bounds ==
  /\ FIRST_LBA \in Nat /\ RESERVED \in Nat
  /\ FAT_SIZE \in Nat /\ FAT_SIZE >= 1 /\ NUM_FATS \in Nat /\ NUM_FATS >= 1
  /\ SPC \in Nat /\ SPC >= 1 /\ SLOTS \in Nat /\ SLOTS >= 4
BY LayoutAssumption

LEMMA Monotonic ==
  ASSUME NEW a \in Nat, NEW b \in Nat, NEW n \in Nat, a <= b
  PROVE  a * n <= b * n /\ a * n \in Nat /\ b * n \in Nat
OBVIOUS

\* A cluster's entry lies in a FAT of FAT_SIZE sectors.
LEMMA EntrySector ==
  ASSUME NEW c \in Clusters
  PROVE  c \div SLOTS \in 0 .. FAT_SIZE - 1 /\ c % SLOTS \in 0 .. SLOTS - 1
<1>1. c \in Nat /\ c < FAT_SIZE * SLOTS
  BY Bounds DEF Clusters, TotalClusters, Root
<1>2. \A s, f \in Nat : s > 0 /\ c < f * s => c \div s < f /\ c \div s \in Nat /\ c % s \in 0 .. s - 1
  <2> SUFFICES ASSUME NEW s \in Nat, NEW f \in Nat, s > 0, c < f * s
               PROVE  c \div s < f /\ c \div s \in Nat /\ c % s \in 0 .. s - 1
    OBVIOUS
  <2>1. c \div s < f
    BY <1>1
  <2>2. c \div s \in Nat
    BY <1>1
  <2>3. c % s \in 0 .. s - 1
    BY <1>1
  <2>. QED
    BY <2>1, <2>2, <2>3
<1>3. c \div SLOTS < FAT_SIZE /\ c \div SLOTS \in Nat /\ c % SLOTS \in 0 .. SLOTS - 1
  BY <1>1, <1>2, Bounds
<1>. QED
  BY <1>3, Bounds

\* What the code takes for the FAT ends before the data.
LEMMA FatInFront ==
  ASSUME NEW k \in 0 .. NUM_FATS - 1, NEW c \in Clusters
  PROVE  FatSector(k, c) \in Nat /\ FatSector(k, c) < first_data_sector
<1>1. (k + 1) * FAT_SIZE <= NUM_FATS * FAT_SIZE /\ NUM_FATS * FAT_SIZE \in Nat
  BY Monotonic, Bounds
<1>2. k * FAT_SIZE \in Nat /\ (k + 1) * FAT_SIZE = k * FAT_SIZE + FAT_SIZE
  BY Monotonic, Bounds
<1>. QED
  BY <1>1, <1>2, EntrySector, Bounds DEF FatSector, first_data_sector, fat_start_sector

LEMMA DataBehind ==
  ASSUME NEW c \in Clusters
  PROVE  FirstSector(c) \in Nat /\ FirstSector(c) >= first_data_sector
<1>1. (c - 2) \in Nat /\ (c - 2) * SPC \in Nat
  BY Monotonic, Bounds DEF Clusters, Root
<1>2. NUM_FATS * FAT_SIZE \in Nat
  BY Monotonic, Bounds
<1>. QED
  BY <1>1, <1>2, Bounds DEF FirstSector, first_data_sector, fat_start_sector

LEMMA RootIsACluster == Root \in Clusters /\ TotalClusters \in Nat /\ TotalClusters >= 4
<1>1. 1 * SLOTS <= FAT_SIZE * SLOTS /\ FAT_SIZE * SLOTS \in Nat
  BY Monotonic, Bounds
<1>. QED
  BY <1>1, Bounds DEF Root, Clusters, TotalClusters

LEMMA FatOnDisk ==
  ASSUME NEW k \in 0 .. NUM_FATS - 1, NEW c \in Clusters
  PROVE  FatSector(k, c) \in Lbas
<1>1. (TotalClusters - 2) * SPC \in Nat /\ 2 * SPC <= (TotalClusters - 2) * SPC
  BY RootIsACluster, Monotonic, Bounds
<1>2. first_data_sector \in Nat
  BY Monotonic, Bounds DEF first_data_sector, fat_start_sector
<1>3. first_data_sector <= FirstSector(TotalClusters) - 1 /\ FirstSector(TotalClusters) \in Nat
  BY <1>1, <1>2, Bounds DEF FirstSector
<1>. QED
  BY <1>2, <1>3, FatInFront DEF Lbas

\* The volume's FAT is in front of the data too.
LEMMA FatInLbas ==
  /\ fat_start_sector \in Nat /\ first_data_sector \in Nat
  /\ fat_start_sector .. first_data_sector - 1 \subseteq Lbas
<1>1. (TotalClusters - 2) * SPC \in Nat
  BY RootIsACluster, Monotonic, Bounds
<1>2. NUM_FATS * FAT_SIZE \in Nat
  BY Monotonic, Bounds
<1>3. fat_start_sector \in Nat /\ first_data_sector \in Nat
  BY <1>2, Bounds DEF first_data_sector, fat_start_sector
<1>4. first_data_sector <= FirstSector(TotalClusters) /\ FirstSector(TotalClusters) \in Nat
  BY <1>1, <1>3, Bounds DEF FirstSector
<1>. QED
  BY <1>3, <1>4 DEF Lbas

\* The end mark of a cluster misses the volume's entry by FIRST_LBA sectors.
LEMMA Misplaced ==
  ASSUME NEW k \in 0 .. NUM_FATS - 1, NEW c \in Clusters
  PROVE  /\ VolumeFat(k, c) - FIRST_LBA = FatSector(k, c)
         /\ FatSector(k, c) < RESERVED + NUM_FATS * FAT_SIZE
<1>1. (k + 1) * FAT_SIZE <= NUM_FATS * FAT_SIZE /\ NUM_FATS * FAT_SIZE \in Nat
  BY Monotonic, Bounds
<1>2. k * FAT_SIZE \in Nat /\ (k + 1) * FAT_SIZE = k * FAT_SIZE + FAT_SIZE
  BY Monotonic, Bounds
<1>3. VolumeFat(k, c) - FIRST_LBA = FatSector(k, c)
  BY <1>2, EntrySector, Bounds DEF FatSector, VolumeFat, fat_start_sector
<1>4. FatSector(k, c) < RESERVED + NUM_FATS * FAT_SIZE
  BY <1>1, <1>2, EntrySector, Bounds DEF FatSector
<1>. QED
  BY <1>3, <1>4

(***************************************************************************)
(* The steps                                                               *)
(***************************************************************************)
LEMMA InitIInv == Init => IInv
<1> SUFFICES ASSUME Init PROVE IInv
  OBVIOUS
<1>1. PICK U \in InUse : disk = [l \in Lbas |-> InitialSector(l, U)]
  BY DEF Init
<1>2. U \subseteq Clusters
  BY InUseAssumption
<1>3. ASSUME NEW l \in Lbas
      PROVE  InitialSector(l, U) \in [0 .. SLOTS - 1 -> {FREE, EOC, JUNK} \cup Clusters]
  <2>1. U # {} => (CHOOSE c \in U : TRUE) \in Clusters
    BY <1>2
  <2>. QED
    BY <2>1 DEF InitialSector
<1>4. Types
  BY <1>1, <1>3, RootIsACluster, Bounds DEF Init, Types
<1>5. InOrder /\ Ordered
  BY DEF Init, InOrder, Ordered
<1>6. FatUntouched
  BY <1>1, FatInLbas DEF FatUntouched
<1>. QED
  BY <1>4, <1>5, <1>6 DEF IInv

\* No step takes an end mark away from the FAT.
LEMMA MarksStay ==
  ASSUME Types, [Next]_vars, NEW k \in 0 .. NUM_FATS - 1, NEW c \in Clusters, Marked(disk, k, c)
  PROVE  Marked(disk', k, c)
<1>1. FatSector(k, c) \in Lbas /\ c % SLOTS \in 0 .. SLOTS - 1
  BY FatOnDisk, EntrySector
<1>2. CASE UNCHANGED disk
  BY <1>2 DEF Marked
<1>3. CASE EntryWritten
  BY <1>1, <1>3 DEF EntryWritten, Marked, Types
<1>4. CASE DirWrite
  <2>1. dir_sector # FatSector(k, c)
    BY FatInFront, DataBehind, RootIsACluster, Bounds DEF dir_sector, first_data_sector, fat_start_sector
  <2>. QED
    BY <1>1, <1>4, <2>1 DEF DirWrite, DirWritten, Marked, Types
<1>5. CASE DataWrite
  <2>1. FatSector(k, c) \notin SectorsOf(NewCluster)
    <3>1. FatSector(k, c) \in Nat /\ FatSector(k, c) < first_data_sector
      BY FatInFront
    <3>2. FirstSector(NewCluster) \in Nat /\ FirstSector(NewCluster) >= first_data_sector
      BY DataBehind DEF Types
    <3>3. first_data_sector \in Nat
      BY Monotonic, Bounds DEF first_data_sector, fat_start_sector
    <3>. QED
      BY <3>1, <3>2, <3>3, Bounds DEF SectorsOf
  <2>. QED
    BY <1>1, <1>5, <2>1 DEF DataWrite, DataWritten, Marked
<1>. QED
  BY <1>2, <1>3, <1>4, <1>5
     DEF Next, Work, Fat32CreateFile, Reset, Alloc, CopyTakes, NoBuffer, FindFails, FindFinds,
         FindMovesOn, Acquire, CopiesDone, CopyNoBuffer, ReadFails, ReadDone, WriteDone,
         WriteTimesOut, WriteFails, DirRead, DirFailsOrFull, vars

LEMMA StepTypes ==
  ASSUME IInv, [Next]_vars
  PROVE  Types'
<1>. USE DEF IInv
<1>1. disk' \in [Lbas -> [0 .. SLOTS - 1 -> {FREE, EOC, JUNK} \cup Clusters]]
  <2>1. CASE UNCHANGED disk
    BY <2>1 DEF Types
  <2>2. CASE EntryWritten
    BY <2>2 DEF EntryWritten, Types
  <2>3. CASE DirWrite
    <3>1. CASE disk' = [disk EXCEPT ![dir_sector][slot] = NewCluster]
      <4>1. [disk[dir_sector] EXCEPT ![slot] = NewCluster]
              \in [0 .. SLOTS - 1 -> {FREE, EOC, JUNK} \cup Clusters] \/ dir_sector \notin Lbas
        BY DEF Types
      <4>. QED
        BY <3>1, <4>1 DEF Types
    <3>. QED
      BY <2>3, <2>1, <3>1 DEF DirWrite, DirWritten
  <2>4. CASE DataWrite
    BY <2>4 DEF DataWrite, DataWritten, Types
  <2>. QED
    BY <2>1, <2>2, <2>3, <2>4
       DEF Next, Work, Fat32CreateFile, Reset, Alloc, CopyTakes, NoBuffer, FindFails, FindFinds,
           FindMovesOn, Acquire, CopiesDone, CopyNoBuffer, ReadFails, ReadDone, WriteDone,
           WriteTimesOut, WriteFails, DirRead, DirFailsOrFull, vars
<1>2. NewCluster' \in Clusters /\ sector' \in Nat /\ copy' \in 0 .. NUM_FATS
  <2>1. CASE FindFinds
    BY <2>1 DEF FindFinds, Candidates, Types
  <2>2. CASE WriteDone \/ WriteTimesOut
    BY <2>2, Bounds DEF WriteDone, WriteTimesOut, Types, InOrder
  <2>3. CASE FindMovesOn
    BY <2>3 DEF FindMovesOn, Types
  <2>4. CASE Fat32CreateFile
    BY <2>4, Bounds DEF Fat32CreateFile, Types
  <2>5. CASE UNCHANGED <<NewCluster, sector, copy>>
    BY <2>5 DEF Types
  <2>. QED
    BY <2>1, <2>2, <2>3, <2>4, <2>5
       DEF Next, Work, Reset, Alloc, CopyTakes, NoBuffer, FindFails, Acquire, CopiesDone,
           CopyNoBuffer, ReadFails, ReadDone, WriteFails, DirRead, DirFailsOrFull, DirWrite,
           DataWrite, vars, locals
<1>3. named' \subseteq named \cup {NewCluster}
  BY DEF Next, Work, Fat32CreateFile, Reset, Alloc, CopyTakes, NoBuffer, FindFails, FindFinds,
         FindMovesOn, Acquire, CopiesDone, CopyNoBuffer, ReadFails, ReadDone, WriteDone,
         WriteTimesOut, WriteFails, DirRead, DirFailsOrFull, DirWrite, DirWritten, DataWrite,
         vars, history
<1>. QED
  BY <1>1, <1>2, <1>3 DEF Types

\* A copy more, or a cluster more that something failed for.
LEMMA CopyMarked ==
  ASSUME IInv, [Next]_vars, WriteDone \/ WriteTimesOut
  PROVE  InOrder'
<1>1. /\ pc = "write" /\ copy \in 0 .. NUM_FATS - 1 /\ copy' = copy + 1
      /\ NewCluster' = NewCluster /\ pc' = "copy"
  BY Bounds DEF WriteDone, WriteTimesOut, Goto, IInv, Types, InOrder
<1>2. CASE WriteTimesOut
  BY <1>1, <1>2 DEF WriteTimesOut, InOrder
<1>3. CASE WriteDone
  <2>1. unsure' = unsure
    BY <1>3 DEF WriteDone, history
  <2>2. NewCluster \in Clusters
    BY DEF IInv, Types
  <2>3. Marked(disk', copy, NewCluster)
    BY <1>1, <1>3, <2>2, FatOnDisk, EntrySector DEF Marked, WriteDone, EntryWritten, IInv, Types
  <2>4. NewCluster \in unsure \/ \A k \in 0 .. copy - 1 : Marked(disk', k, NewCluster)
    <3>1. \A k \in 0 .. copy - 1 : k \in 0 .. NUM_FATS - 1
      BY <1>1, Bounds
    <3>2. NewCluster \in unsure \/ \A k \in 0 .. copy - 1 : Marked(disk, k, NewCluster)
      BY <1>1 DEF IInv, InOrder
    <3>. QED
      BY <2>2, <3>1, <3>2, MarksStay DEF IInv
  <2>5. NewCluster \in unsure \/ \A k \in 0 .. copy' - 1 : Marked(disk', k, NewCluster)
    BY <1>1, <2>3, <2>4, Bounds
  <2>. QED
    BY <1>1, <2>1, <2>5 DEF InOrder
<1>. QED
  BY <1>2, <1>3

LEMMA StepInOrder ==
  ASSUME IInv, [Next]_vars
  PROVE  InOrder'
<1>. USE DEF Goto, locals, history
\* Before the FAT is written the count is 0; behind it, pc is in neither set.
<1>1. CASE Fat32CreateFile \/ Alloc("find", "fat", "scan") \/ FindFinds \/ FindMovesOn \/ Acquire
  <2>1. copy' = 0 /\ pc' \in {"find", "scan", "fat", "copy", "ready"}
    BY <1>1 DEF Fat32CreateFile, Alloc, FindFinds, FindMovesOn, Acquire, IInv, InOrder
  <2>. QED
    BY <2>1 DEF InOrder
<1>2. CASE NoBuffer \/ FindFails \/ DirFailsOrFull \/ DirWrite \/ DataWrite \/ Reset
           \/ Alloc("data", "data", "datawrite")
  <2>1. pc' \in {"ready", "data", "datawrite"}
    BY <1>2 DEF NoBuffer, FindFails, DirFailsOrFull, DirWrite, DataWrite, Reset, Alloc
  <2>. QED
    BY <2>1 DEF InOrder
<1>3. CASE CopyNoBuffer \/ ReadFails \/ WriteFails
  <2>1. pc' = "dir" /\ NewCluster' = NewCluster /\ NewCluster \in unsure'
    BY <1>3 DEF CopyNoBuffer, ReadFails, WriteFails, Return
  <2>. QED
    BY <2>1 DEF InOrder
<1>4. CASE CopyTakes \/ ReadDone
  <2>1. /\ pc \in {"copy", "read"} /\ pc' \in {"read", "write"} /\ copy < NUM_FATS
        /\ UNCHANGED <<disk, NewCluster, copy, unsure>>
    BY <1>4 DEF CopyTakes, ReadDone, Alloc, IInv, InOrder
  <2>. QED
    BY <2>1 DEF IInv, InOrder, Marked
<1>5. CASE CopiesDone
  <2>1. /\ pc = "copy" /\ pc' = "dir" /\ copy = NUM_FATS
        /\ UNCHANGED <<disk, NewCluster, copy, unsure>>
    BY <1>5 DEF CopiesDone, Return
  <2>. QED
    BY <2>1 DEF IInv, InOrder, Marked
<1>6. CASE Alloc("dir", "dir", "dirread") \/ DirRead
  <2>1. /\ pc \in {"dir", "dirread"} /\ pc' \in {"dirread", "dirwrite"}
        /\ UNCHANGED <<disk, NewCluster, unsure>>
    BY <1>6 DEF Alloc, DirRead
  <2>. QED
    BY <2>1 DEF IInv, InOrder, Marked
<1>7. CASE WriteDone \/ WriteTimesOut
  BY <1>7, CopyMarked
<1>8. CASE UNCHANGED vars
  BY <1>8 DEF vars, IInv, InOrder, Marked
<1>. QED
  BY <1>1, <1>2, <1>3, <1>4, <1>5, <1>6, <1>7, <1>8 DEF Next, Work

LEMMA StepOrder ==
  ASSUME IInv, [Next]_vars
  PROVE  Ordered'
<1>1. unsure \subseteq unsure'
  BY DEF Next, Work, Fat32CreateFile, Reset, Alloc, CopyTakes, NoBuffer, FindFails, FindFinds,
         FindMovesOn, Acquire, CopiesDone, CopyNoBuffer, ReadFails, ReadDone, WriteDone,
         WriteTimesOut, WriteFails, DirRead, DirFailsOrFull, DirWrite, DataWrite,
         vars, history
<1>2. ASSUME NEW c \in named \ unsure, NEW k \in 0 .. NUM_FATS - 1
      PROVE  Marked(disk', k, c)
  <2>1. c \in Clusters /\ Marked(disk, k, c)
    BY DEF IInv, Types, Ordered
  <2>. QED
    BY <2>1, MarksStay DEF IInv
<1>3. ASSUME NEW c \in named' \ named, c \notin unsure, NEW k \in 0 .. NUM_FATS - 1
      PROVE  Marked(disk', k, c)
  <2>1. DirWrite /\ c = NewCluster
    BY DEF Next, Work, Fat32CreateFile, Reset, Alloc, CopyTakes, NoBuffer, FindFails, FindFinds,
           FindMovesOn, Acquire, CopiesDone, CopyNoBuffer, ReadFails, ReadDone, WriteDone,
           WriteTimesOut, WriteFails, DirRead, DirFailsOrFull, DirWrite, DirWritten, DataWrite,
           vars, history
  <2>2. c \in Clusters /\ Marked(disk, k, c)
    BY <1>3, <2>1 DEF DirWrite, IInv, Types, InOrder
  <2>. QED
    BY <2>2, MarksStay DEF IInv
<1>4. ASSUME NEW c \in named' \ unsure', NEW k \in 0 .. NUM_FATS - 1
      PROVE  Marked(disk', k, c)
  BY <1>1, <1>2, <1>3
<1>. QED
  BY <1>4 DEF Ordered

\* A mark is written in front of the volume's FAT, entries and data behind it.
LEMMA StepUntouched ==
  ASSUME IInv, [Next]_vars
  PROVE  FatUntouched'
<1> SUFFICES ASSUME FIRST_LBA >= RESERVED + NUM_FATS * FAT_SIZE
             PROVE  \E U \in InUse : \A l \in fat_start_sector .. first_data_sector - 1 :
                      disk'[l] = InitialSector(l, U)
  BY DEF FatUntouched
<1>1. PICK U \in InUse : \A l \in fat_start_sector .. first_data_sector - 1 :
                           disk[l] = InitialSector(l, U)
  BY DEF IInv, FatUntouched
<1>2. ASSUME NEW l \in fat_start_sector .. first_data_sector - 1
      PROVE  disk'[l] = disk[l]
  <2>1. l \in Lbas /\ l \in Nat /\ l >= fat_start_sector /\ l < first_data_sector
    BY FatInLbas
  <2>2. CASE UNCHANGED disk
    BY <2>2
  <2>3. CASE EntryWritten /\ pc = "write"
    <3>1. copy \in 0 .. NUM_FATS - 1 /\ NewCluster \in Clusters
      BY <2>3, Bounds DEF IInv, Types, InOrder
    <3>2. FatSector(copy, NewCluster) < RESERVED + NUM_FATS * FAT_SIZE
          /\ FatSector(copy, NewCluster) \in Nat
      BY <3>1, Misplaced, FatInFront
    <3>3. NUM_FATS * FAT_SIZE \in Nat
      BY Monotonic, Bounds
    <3>4. FatSector(copy, NewCluster) # l
      BY <2>1, <3>2, <3>3, Bounds DEF fat_start_sector
    <3>. QED
      BY <2>1, <2>3, <3>4 DEF EntryWritten, IInv, Types
  <2>4. CASE DirWrite
    <3>1. dir_sector # l
      BY <2>1, DataBehind, RootIsACluster, FatInLbas DEF dir_sector
    <3>. QED
      BY <2>1, <2>4, <3>1 DEF DirWrite, DirWritten, IInv, Types
  <2>5. CASE DataWrite
    <3>1. FirstSector(NewCluster) \in Nat /\ FirstSector(NewCluster) >= first_data_sector
      BY DataBehind DEF IInv, Types
    <3>2. l \notin SectorsOf(NewCluster)
      BY <2>1, <3>1, FatInLbas, Bounds DEF SectorsOf
    <3>. QED
      BY <2>1, <2>5, <3>2 DEF DataWrite, DataWritten
  <2>. QED
    BY <2>2, <2>3, <2>4, <2>5
       DEF Next, Work, Fat32CreateFile, Reset, Alloc, CopyTakes, NoBuffer, FindFails, FindFinds,
           FindMovesOn, Acquire, CopiesDone, CopyNoBuffer, ReadFails, ReadDone, WriteDone,
           WriteTimesOut, WriteFails, DirRead, DirFailsOrFull, vars
<1>. QED
  BY <1>1, <1>2

\* A directory entry never gets to the disk before its cluster's end marks,
\* unless a command for them failed; and the marks are not in the volume's FAT,
\* which stays as it was formatted if the partition starts behind them.
THEOREM MarkedBeforeNamed == Spec => []MarksBeforeDirectory
<1>1. IInv /\ [Next]_vars => IInv'
  BY StepTypes, StepInOrder, StepOrder, StepUntouched DEF IInv
<1>2. IInv => MarksBeforeDirectory
  <2> SUFFICES ASSUME IInv PROVE MarksBeforeDirectory
    OBVIOUS
  <2>1. ASSUME NEW c \in named \ unsure, NEW k \in 0 .. NUM_FATS - 1
        PROVE  disk[VolumeFat(k, c) - FIRST_LBA][c % SLOTS] = EOC
    <3>1. c \in Clusters /\ Marked(disk, k, c)
      BY DEF IInv, Types, Ordered
    <3>. QED
      BY <3>1, Misplaced DEF Marked
  <2>. QED
    BY <2>1 DEF IInv, MarksBeforeDirectory, MarksFirst
<1>. QED
  BY InitIInv, <1>1, <1>2, PTL DEF Spec

(***************************************************************************)
(* Buffers and the lock come back                                          *)
(***************************************************************************)
HeldAt(label) ==
  CASE label \in {"scan", "read", "write"} -> {"fat"}
    [] label \in {"dirread", "dirwrite"}   -> {"dir"}
    [] label = "datawrite"                 -> {"data"}
    [] OTHER                               -> {}

Holding ==
  /\ held = HeldAt(pc)
  /\ fat_lock \in BOOLEAN
  /\ pc \notin {"copy", "read", "write"} => fat_lock = FALSE

LEMMA HoldingStep ==
  ASSUME Holding, [Next]_vars
  PROVE  Holding'
<1>. USE DEF Holding, HeldAt, Goto, Return
<1>1. CASE Fat32CreateFile \/ NoBuffer \/ Reset
  BY <1>1 DEF Fat32CreateFile, NoBuffer, Reset
<1>2. CASE Alloc("find", "fat", "scan") \/ CopyTakes
  BY <1>2 DEF Alloc, CopyTakes
<1>3. CASE Alloc("dir", "dir", "dirread") \/ Alloc("data", "data", "datawrite")
  BY <1>3 DEF Alloc
<1>4. CASE FindFails \/ FindFinds
  BY <1>4 DEF FindFails, FindFinds
<1>5. CASE FindMovesOn
  BY <1>5 DEF FindMovesOn
<1>6. CASE Acquire \/ CopiesDone \/ CopyNoBuffer
  BY <1>6 DEF Acquire, CopiesDone, CopyNoBuffer
<1>7. CASE ReadFails \/ ReadDone
  BY <1>7 DEF ReadFails, ReadDone
<1>8. CASE WriteDone \/ WriteTimesOut \/ WriteFails
  BY <1>8 DEF WriteDone, WriteTimesOut, WriteFails
<1>9. CASE DirRead \/ DirFailsOrFull \/ DirWrite \/ DataWrite
  BY <1>9 DEF DirRead, DirFailsOrFull, DirWrite, DataWrite
<1>10. CASE UNCHANGED vars
  BY <1>10 DEF vars
<1>. QED
  BY <1>1, <1>2, <1>3, <1>4, <1>5, <1>6, <1>7, <1>8, <1>9, <1>10 DEF Next, Work

Ranges ==
  /\ sector \in 0 .. FAT_SIZE - 1
  /\ slot \in 0 .. SPC * DIR_SLOTS - 1
  /\ unsure \subseteq Clusters

LEMMA RangesStep ==
  ASSUME Ranges, IInv, [Next]_vars
  PROVE  Ranges'
<1>1. sector' \in 0 .. FAT_SIZE - 1
  <2>1. CASE Fat32CreateFile
    BY <2>1, Bounds DEF Fat32CreateFile
  <2>2. CASE FindMovesOn
    BY <2>2, Bounds DEF FindMovesOn, Ranges
  <2>3. CASE UNCHANGED sector
    BY <2>3 DEF Ranges
  <2>. QED
    BY <2>1, <2>2, <2>3
       DEF Next, Work, Reset, Alloc, CopyTakes, NoBuffer, FindFails, FindFinds, Acquire,
           CopiesDone, CopyNoBuffer, ReadFails, ReadDone, WriteDone, WriteTimesOut, WriteFails,
           DirRead, DirFailsOrFull, DirWrite, DataWrite, vars, locals
<1>2. slot' \in 0 .. SPC * DIR_SLOTS - 1
  <2>1. CASE DirRead
    BY <2>1 DEF DirRead, DirSlots
  <2>2. CASE UNCHANGED slot
    BY <2>2 DEF Ranges
  <2>. QED
    BY <2>1, <2>2
       DEF Next, Work, Fat32CreateFile, Reset, Alloc, CopyTakes, NoBuffer, FindFails, FindFinds,
           FindMovesOn, Acquire, CopiesDone, CopyNoBuffer, ReadFails, ReadDone, WriteDone,
           WriteTimesOut, WriteFails, DirFailsOrFull, DirWrite, DataWrite, vars, locals
<1>3. unsure' \subseteq unsure \cup {NewCluster}
  BY DEF Next, Work, Fat32CreateFile, Reset, Alloc, CopyTakes, NoBuffer, FindFails, FindFinds,
         FindMovesOn, Acquire, CopiesDone, CopyNoBuffer, ReadFails, ReadDone, WriteDone,
         WriteTimesOut, WriteFails, DirRead, DirFailsOrFull, DirWrite, DataWrite, vars, history
<1>4. NewCluster \in Clusters
  BY DEF IInv, Types
<1>. QED
  BY <1>1, <1>2, <1>3, <1>4 DEF Ranges

\* Whatever fails or times out, and wherever the machine is reset, a call
\* has one buffer at a time, and it and the lock come back.
THEOREM EverythingComesBack == Spec => []TypeOK
<1>1. Init => Holding /\ Ranges
  <2> SUFFICES ASSUME Init PROVE Holding /\ Ranges
    OBVIOUS
  <2>1. 0 \in 0 .. FAT_SIZE - 1
    BY Bounds
  <2>2. 0 \in 0 .. SPC * DIR_SLOTS - 1
    <3>1. DIR_SLOTS \in Nat /\ 1 <= DIR_SLOTS /\ SPC \in Nat /\ 1 <= SPC
      BY LayoutAssumption
    <3>2. 1 * DIR_SLOTS <= SPC * DIR_SLOTS /\ SPC * DIR_SLOTS \in Nat
      BY <3>1, Monotonic
    <3>. QED
      BY <3>1, <3>2
  <2>3. Holding
    BY DEF Init, Holding, HeldAt
  <2>. QED
    BY <2>1, <2>2, <2>3 DEF Init, Ranges
<1>2. IInv /\ Holding /\ Ranges /\ [Next]_vars => (IInv /\ Holding /\ Ranges)'
  BY StepTypes, StepInOrder, StepOrder, StepUntouched, HoldingStep, RangesStep DEF IInv
<1>3. ASSUME IInv, Holding, Ranges PROVE TypeOK
  <2>1. Cardinality(held) <= 1
    <3>1. held = {} \/ \E b : held = {b}
      BY <1>3 DEF Holding, HeldAt
    <3>2. CASE held = {}
      BY <3>2, FS_EmptySet
    <3>3. ASSUME NEW b, held = {b} PROVE Cardinality(held) <= 1
      <4>1. Cardinality({b}) = 1
        BY FS_Singleton, Zenon
      <4>. QED
        BY <3>3, <4>1
    <3>. QED
      BY <3>1, <3>2, <3>3
  <2>2. held \subseteq {"fat", "dir", "data"} /\ (pc = "ready" => held = {} /\ ~fat_lock)
    BY <1>3 DEF Holding, HeldAt
  <2>3. fat_lock \in BOOLEAN
    BY <1>3 DEF Holding
  <2>. QED
    BY <1>3, <2>1, <2>2, <2>3 DEF TypeOK, IInv, Types, Ranges
<1>. QED
  BY InitIInv, <1>1, <1>2, <1>3, PTL DEF Spec

(***************************************************************************)
(* DirLookup.  In a directory that tools have written a file takes Span    *)
(* entries, which end in a short one; part s of a file is s entries in     *)
(* front of that.                                                          *)
(***************************************************************************)
Span(t) == IF t.name \in ShortNames THEN 1 ELSE Len(t.name) + 1

Part(t, s) ==
  IF s = 0 THEN Short(IF t.name \in ShortNames THEN t.name ELSE Alias, t.node)
  ELSE Long(s, t.name[s])

\* In a directory that holds e, the last entry of t is number p.
Lies(e, t, p) ==
  /\ p \in Index /\ Span(t) <= p + 1
  /\ \A s \in 0 .. Span(t) - 1 : e[p - s] = Part(t, s)

Free(entry) == entry.kind \in {"end", "deleted"}

\* e holds the files and directories of here, and no other entry in use.
Holds(e, here) == \A t \in here : \E p \in Index : Lies(e, t, p)
Owned(e, here) ==
  \A k \in Index :
    Free(e[k]) \/ \E t \in here, p \in Index : Lies(e, t, p) /\ k \in p + 1 - Span(t) .. p
EndsLast(e) == \A k, l \in Index : k < l /\ e[k].kind = "end" => e[l].kind = "end"
OneEach(e) ==
  \A k, l \in Index :
    e[k].kind = "short" /\ e[l].kind = "short" /\ e[k].node = e[l].node => k = l

Written(e, here) == Holds(e, here) /\ Owned(e, here) /\ EndsLast(e) /\ OneEach(e)

\* Files and directories of one directory, no two of them the same.
Filed(here) ==
  /\ \A t \in here : t.name \in Names /\ t.node \in Nodes
  /\ \A t, u \in here : t.node = u.node \/ t.name = u.name => t = u

(***************************************************************************)
(* Entries and their files                                                 *)
(***************************************************************************)
LEMMA PartKinds ==
  ASSUME NEW t, NEW s
  PROVE  /\ s = 0 => Part(t, s).kind = "short" /\ Part(t, s).node = t.node
         /\ s # 0 => Part(t, s).kind = "long" /\ Part(t, s).seq = s /\ Part(t, s).frag = t.name[s]
         /\ ~Free(Part(t, s))
BY DEF Part, Short, Long, Free

LEMMA SpanRange ==
  ASSUME NEW t, t.name \in Names
  PROVE  /\ Span(t) \in Nat /\ 1 <= Span(t) /\ Span(t) <= MAX_LFN + 1
         /\ t.name \in ShortNames => Span(t) = 1
         /\ t.name \notin ShortNames =>
              t.name \in LongNames /\ Span(t) = Len(t.name) + 1 /\ Span(t) >= 2
BY SizesAssumption, NamesAssumption DEF Span, Names

\* A short entry is the last one of its file, and a long entry is followed
\* by the rest of its file.
LEMMA ShortOwner ==
  ASSUME NEW e, NEW here, Filed(here), Written(e, here), NEW k \in Index, e[k].kind = "short"
  PROVE  \E t \in here : Lies(e, t, k)
<1>1. PICK t \in here, p \in Index : Lies(e, t, p) /\ k \in p + 1 - Span(t) .. p
  BY DEF Written, Owned, Free
<1>2. Span(t) \in Nat
  BY SpanRange DEF Filed
<1>3. p - k \in 0 .. Span(t) - 1 /\ k = p - (p - k)
  BY <1>1, <1>2 DEF Index
<1>4. e[k] = Part(t, p - k)
  BY <1>1, <1>3 DEF Lies
<1>5. p - k = 0
  BY <1>4, PartKinds
<1>6. p = k
  BY <1>5, SizesAssumption DEF Index
<1>. QED
  BY <1>1, <1>6

LEMMA LongOwner ==
  ASSUME NEW e, NEW here, Filed(here), Written(e, here), NEW k \in Index, e[k].kind = "long"
  PROVE  \E t \in here, p \in Index, s \in Nat :
           /\ Lies(e, t, p) /\ k = p - s /\ s >= 1 /\ s <= Span(t) - 1
           /\ e[k] = Part(t, s)
<1>1. PICK t \in here, p \in Index : Lies(e, t, p) /\ k \in p + 1 - Span(t) .. p
  BY DEF Written, Owned, Free
<1>2. Span(t) \in Nat
  BY SpanRange DEF Filed
<1>3. p - k \in 0 .. Span(t) - 1 /\ k = p - (p - k) /\ p - k \in Nat
  BY <1>1, <1>2 DEF Index
<1>4. e[k] = Part(t, p - k)
  BY <1>1, <1>3 DEF Lies
<1>5. p - k # 0
  BY <1>4, PartKinds
<1>. QED
  BY <1>1, <1>2, <1>3, <1>4, <1>5

LEMMA PartAt ==
  ASSUME NEW e, NEW t, NEW p, Lies(e, t, p), NEW s \in Nat, s <= Span(t) - 1, Span(t) \in Nat
  PROVE  e[p - s] = Part(t, s) /\ p - s \in Index
BY SizesAssumption DEF Lies, Index

LEMMA OneAtAPlace ==
  ASSUME NEW e, NEW here, Filed(here), Written(e, here),
         NEW t \in here, NEW u \in here, NEW p, Lies(e, t, p), Lies(e, u, p)
  PROVE  t = u
<1>1. Span(t) \in Nat /\ Span(u) \in Nat /\ 0 <= Span(t) - 1 /\ 0 <= Span(u) - 1
  BY SpanRange DEF Filed
<1>2. e[p - 0] = Part(t, 0) /\ e[p - 0] = Part(u, 0)
  BY <1>1, PartAt
<1>3. t.node = u.node
  BY <1>2, PartKinds
<1>. QED
  BY <1>3 DEF Filed

LEMMA OnePlace ==
  ASSUME NEW e, NEW here, Filed(here), Written(e, here),
         NEW t \in here, NEW p, NEW q, Lies(e, t, p), Lies(e, t, q)
  PROVE  p = q
<1>1. Span(t) \in Nat /\ 0 <= Span(t) - 1
  BY SpanRange DEF Filed
<1>2. e[p - 0] = Part(t, 0) /\ e[q - 0] = Part(t, 0) /\ p \in Index /\ q \in Index
  BY <1>1, PartAt DEF Lies
<1>3. p - 0 = p /\ q - 0 = q
  BY <1>2, SizesAssumption DEF Index
<1>. QED
  BY <1>2, <1>3, PartKinds DEF Written, OneEach

\* Files do not share entries.
LEMMA Apart ==
  ASSUME NEW e, NEW here, Filed(here), Written(e, here),
         NEW t \in here, NEW u \in here, NEW p, NEW q, Lies(e, t, p), Lies(e, u, q),
         NEW r \in Nat, r <= Span(t) - 1, NEW s \in Nat, s <= Span(u) - 1, p - r = q - s
  PROVE  t = u
<1>1. Span(t) \in Nat /\ Span(u) \in Nat
  BY SpanRange DEF Filed
<1>2. Part(t, r) = Part(u, s)
  BY <1>1, PartAt
<1>3. r = s
  BY <1>2, PartKinds
<1>4. p = q
  BY <1>3, SizesAssumption DEF Lies, Index
<1>. QED
  BY <1>4, OneAtAPlace

\* The entry in front of a file is not a long one.
LEMMA NotLongBefore ==
  ASSUME NEW e, NEW here, Filed(here), Written(e, here),
         NEW t \in here, NEW p, Lies(e, t, p), p - Span(t) >= 0
  PROVE  e[p - Span(t)].kind # "long"
<1>1. Span(t) \in Nat /\ 1 <= Span(t) /\ p \in Index /\ p - Span(t) \in Index
  BY SpanRange, SizesAssumption DEF Filed, Lies, Index
<1>2. SUFFICES ASSUME e[p - Span(t)].kind = "long" PROVE FALSE
  OBVIOUS
<1>3. PICK u \in here, q \in Index, s \in Nat :
        /\ Lies(e, u, q) /\ p - Span(t) = q - s /\ s >= 1 /\ s <= Span(u) - 1
  BY <1>1, <1>2, LongOwner
<1>4. Span(u) \in Nat
  BY SpanRange DEF Filed
<1>5. s - 1 \in Nat /\ s - 1 <= Span(u) - 1 /\ p - (Span(t) - 1) = q - (s - 1)
      /\ Span(t) - 1 \in Nat /\ Span(t) - 1 <= Span(t) - 1
  BY <1>1, <1>3, <1>4 DEF Index
<1>6. t = u
  BY <1>3, <1>5, Apart
<1>7. p = q
  BY <1>3, <1>6, OnePlace
<1>. QED
  BY <1>1, <1>3, <1>6, <1>7 DEF Index

\* A free entry has no long one in front of it.
LEMMA NotLongBeforeFree ==
  ASSUME NEW e, NEW here, Filed(here), Written(e, here),
         NEW k \in Index, k > 0, Free(e[k])
  PROVE  e[k - 1].kind # "long"
<1>1. k - 1 \in Index /\ k \in Nat
  BY SizesAssumption DEF Index
<1>2. SUFFICES ASSUME e[k - 1].kind = "long" PROVE FALSE
  OBVIOUS
<1>3. PICK u \in here, q \in Index, s \in Nat :
        /\ Lies(e, u, q) /\ k - 1 = q - s /\ s >= 1 /\ s <= Span(u) - 1
  BY <1>1, <1>2, LongOwner
<1>4. Span(u) \in Nat
  BY SpanRange DEF Filed
<1>5. s - 1 \in Nat /\ s - 1 <= Span(u) - 1 /\ k = q - (s - 1)
  BY <1>1, <1>3, <1>4 DEF Index
<1>6. e[k] = Part(u, s - 1)
  BY <1>3, <1>4, <1>5, PartAt
<1>. QED
  BY <1>6, PartKinds

(***************************************************************************)
(* Creating and deleting                                                   *)
(***************************************************************************)
\* A directory's entries with those of t from p on, and without those up to p.
WithFile(e, t, p) == [k \in Index |-> IF k \in p .. p + Span(t) - 1 THEN Part(t, p + Span(t) - 1 - k) ELSE e[k]]
Without(e, t, p)  == [k \in Index |-> IF k \in p + 1 - Span(t) .. p THEN Deleted ELSE e[k]]

\* What a change does not touch stays where it is.
LEMMA LiesOn ==
  ASSUME NEW e, NEW f, NEW t, t.name \in Names, NEW p, Lies(e, t, p),
         \A s \in 0 .. Span(t) - 1 : f[p - s] = e[p - s]
  PROVE  Lies(f, t, p)
BY SpanRange DEF Lies

LEMMA EmptyIsWritten == Written(Empty, {})
BY DEF Written, Holds, Owned, EndsLast, OneEach, Empty, EndMark, Free

LEMMA WrittenWith ==
  ASSUME NEW e, NEW here, Filed(here), Written(e, here), NEW t, t.name \in Names,
         \A u \in here : u.node # t.node,
         NEW p \in Index, p + Span(t) <= ENTRIES,
         \A k \in p .. p + Span(t) - 1 : Free(e[k]),
         \A q \in 0 .. p - 1 : ~\A k \in q .. q + Span(t) - 1 : Free(e[k])
  PROVE  Written(WithFile(e, t, p), here \cup {t})
<1>. DEFINE f == WithFile(e, t, p)
            last == p + Span(t) - 1
<1>1. /\ Span(t) \in Nat /\ 1 <= Span(t) /\ p \in Nat /\ last \in Index /\ p <= last
      /\ \A k \in p .. last : k \in Index /\ f[k] = Part(t, last - k)
      /\ \A k \in Index : k \notin p .. last => f[k] = e[k]
  <2>1. Span(t) \in Nat /\ 1 <= Span(t) /\ ENTRIES \in Nat
    BY SpanRange, SizesAssumption
  <2>2. p \in Nat /\ last \in Index /\ p <= last /\ \A k \in p .. last : k \in Index
    BY <2>1 DEF Index
  <2>. QED
    BY <2>1, <2>2 DEF Index, WithFile
<1>2. Lies(f, t, last)
  <2>1. ASSUME NEW s \in 0 .. Span(t) - 1
        PROVE  f[last - s] = Part(t, s)
    <3>1. last - s \in p .. last /\ last - (last - s) = s
      BY <1>1
    <3>. QED
      BY <1>1, <3>1
  <2>. HIDE DEF f
  <2>. QED
    BY <1>1, <2>1 DEF Lies
<1>3. ASSUME NEW u \in here, NEW q, Lies(e, u, q)
      PROVE  Lies(f, u, q)
  <2>1. u.name \in Names /\ Span(u) \in Nat /\ q \in Index
    BY <1>3, SpanRange DEF Filed, Lies
  <2>2. ASSUME NEW s \in 0 .. Span(u) - 1
        PROVE  f[q - s] = e[q - s]
    <3>1. s \in Nat /\ s <= Span(u) - 1
      BY <2>1
    <3>2. e[q - s] = Part(u, s) /\ q - s \in Index
      BY <1>3, <2>1, <3>1, PartAt
    <3>3. ~Free(e[q - s])
      BY <3>2, PartKinds
    <3>. QED
      BY <1>1, <3>2, <3>3
  <2>. HIDE DEF f
  <2>. QED
    BY <1>3, <2>1, <2>2, LiesOn
<1>4. Holds(f, here \cup {t})
  <2>. HIDE DEF f
  <2>. QED
    BY <1>1, <1>2, <1>3 DEF Written, Holds
<1>5. Owned(f, here \cup {t})
  <2>1. ASSUME NEW k \in Index, ~Free(f[k])
        PROVE  \E u \in here \cup {t}, q \in Index : Lies(f, u, q) /\ k \in q + 1 - Span(u) .. q
    <3>. HIDE DEF f
    <3>1. CASE k \in p .. last
      <4>1. last + 1 - Span(t) = p
        BY <1>1
      <4>. HIDE DEF last
      <4>. QED
        BY <1>1, <1>2, <3>1, <4>1
    <3>2. CASE k \notin p .. last
      <4>1. ~Free(e[k])
        BY <1>1, <2>1, <3>2
      <4>2. PICK u \in here, q \in Index : Lies(e, u, q) /\ k \in q + 1 - Span(u) .. q
        BY <4>1 DEF Written, Owned
      <4>. QED
        BY <1>3, <4>2
    <3>. QED
      BY <3>1, <3>2
  <2>. HIDE DEF f
  <2>. QED
    BY <2>1 DEF Owned
<1>6. EndsLast(f)
  <2>1. ASSUME NEW k \in Index, NEW l \in Index, k < l, f[k].kind = "end", f[l].kind # "end"
        PROVE  FALSE
    <3>. HIDE DEF f
    <3>1. k \notin p .. last
      BY <1>1, <2>1, PartKinds DEF Free
    <3>2. e[k].kind = "end"
      BY <1>1, <2>1, <3>1
    <3>3. e[l].kind = "end"
      BY <2>1, <3>2 DEF Written, EndsLast
    <3>4. l \in p .. last
      BY <1>1, <2>1, <3>3
    <3>5. k < p /\ k \in 0 .. p - 1
      BY <1>1, <2>1, <3>1, <3>4, SizesAssumption DEF Index
    <3>6. ASSUME NEW j \in k .. k + Span(t) - 1
          PROVE  Free(e[j])
      <4>1. j \in Index /\ (j = k \/ k < j)
        BY <1>1, <3>5, <3>6, SizesAssumption DEF Index
      <4>. QED
        BY <3>2, <4>1 DEF Written, EndsLast, Free
    <3>. QED
      BY <3>5, <3>6
  <2>. HIDE DEF f
  <2>. QED
    BY <2>1 DEF EndsLast
<1>7. OneEach(f)
  <2>. HIDE DEF f
  <2>1. ASSUME NEW k \in Index, f[k].kind = "short", k \in p .. last
        PROVE  k = last /\ f[k].node = t.node
    <3>1. f[k] = Part(t, last - k)
      BY <1>1, <2>1
    <3>2. last - k = 0
      BY <2>1, <3>1, PartKinds
    <3>3. k \in Int /\ last \in Int
      BY <1>1, SizesAssumption DEF Index
    <3>. HIDE DEF last
    <3>4. k = last
      BY <3>2, <3>3
    <3>. QED
      BY <3>1, <3>2, <3>4, PartKinds
  <2>2. ASSUME NEW k \in Index, f[k].kind = "short", k \notin p .. last
        PROVE  f[k] = e[k] /\ e[k].kind = "short" /\ f[k].node # t.node
    <3>1. f[k] = e[k] /\ e[k].kind = "short"
      BY <1>1, <2>2
    <3>2. PICK u \in here : Lies(e, u, k)
      BY <3>1, ShortOwner
    <3>3. e[k - 0] = Part(u, 0) /\ k - 0 = k
      <4>1. Span(u) \in Nat /\ 0 <= Span(u) - 1 /\ 0 \in Nat
        BY SpanRange DEF Filed
      <4>2. k - 0 = k
        BY SizesAssumption DEF Index
      <4>. QED
        BY <3>2, <4>1, <4>2, PartAt
    <3>. QED
      BY <3>1, <3>3, PartKinds
  <2>3. ASSUME NEW k \in Index, NEW l \in Index,
               f[k].kind = "short", f[l].kind = "short", f[k].node = f[l].node
        PROVE  k = l
    <3>. HIDE DEF last
    <3>1. CASE k \in p .. last /\ l \in p .. last
      BY <2>1, <2>3, <3>1
    <3>2. CASE k \notin p .. last /\ l \notin p .. last
      BY <2>2, <2>3, <3>2 DEF Written, OneEach
    <3>. QED
      BY <2>1, <2>2, <2>3, <3>1, <3>2
  <2>. QED
    BY <2>3 DEF OneEach
<1>. QED
  BY <1>4, <1>5, <1>6, <1>7 DEF Written

LEMMA WrittenWithout ==
  ASSUME NEW e, NEW here, Filed(here), Written(e, here), NEW t \in here,
         NEW p \in Index, Lies(e, t, p)
  PROVE  Written(Without(e, t, p), here \ {t})
<1>. DEFINE f == Without(e, t, p)
            first == p + 1 - Span(t)
<1>1. /\ Span(t) \in Nat /\ 1 <= Span(t) /\ p \in Nat /\ first \in Nat /\ first <= p
      /\ \A k \in Index : k \in first .. p => f[k] = Deleted
      /\ \A k \in Index : k \notin first .. p => f[k] = e[k]
  BY SpanRange, SizesAssumption DEF Index, Without, Filed, Lies
<1>2. ASSUME NEW u \in here, u # t, NEW q, Lies(e, u, q)
      PROVE  Lies(f, u, q)
  <2>1. u.name \in Names /\ Span(u) \in Nat /\ q \in Index
    BY <1>2, SpanRange DEF Filed, Lies
  <2>2. ASSUME NEW s \in 0 .. Span(u) - 1
        PROVE  f[q - s] = e[q - s]
    <3>1. s \in Nat /\ s <= Span(u) - 1
      BY <2>1
    <3>2. q - s \in Index
      BY <1>2, <2>1, <3>1, PartAt
    <3>3. q - s \notin first .. p
      <4>1. SUFFICES ASSUME q - s \in first .. p PROVE FALSE
        OBVIOUS
      <4>2. p - (q - s) \in Nat /\ p - (q - s) <= Span(t) - 1 /\ p - (p - (q - s)) = q - s
        BY <1>1, <2>1, <3>1, <3>2, <4>1, SizesAssumption DEF Index
      <4>. QED
        BY <1>2, <3>1, <4>2, Apart
    <3>. QED
      BY <1>1, <3>2, <3>3
  <2>. HIDE DEF f
  <2>. QED
    BY <1>2, <2>1, <2>2, LiesOn
<1>3. Holds(f, here \ {t})
  <2>. HIDE DEF f
  <2>. QED
    BY <1>2 DEF Written, Holds
<1>4. Owned(f, here \ {t})
  <2>1. ASSUME NEW k \in Index, ~Free(f[k])
        PROVE  \E u \in here \ {t}, q \in Index : Lies(f, u, q) /\ k \in q + 1 - Span(u) .. q
    <3>. HIDE DEF f
    <3>1. k \notin first .. p
      BY <1>1, <2>1 DEF Free, Deleted
    <3>2. ~Free(e[k])
      BY <1>1, <2>1, <3>1
    <3>3. PICK u \in here, q \in Index : Lies(e, u, q) /\ k \in q + 1 - Span(u) .. q
      BY <3>2 DEF Written, Owned
    <3>4. u # t
      BY <3>1, <3>3, OnePlace
    <3>. QED
      BY <1>2, <3>3, <3>4
  <2>. HIDE DEF f
  <2>. QED
    BY <2>1 DEF Owned
<1>5. EndsLast(f)
  <2>1. ASSUME NEW k \in Index, NEW l \in Index, k < l, f[k].kind = "end", f[l].kind # "end"
        PROVE  FALSE
    <3>. HIDE DEF f
    <3>1. k \notin first .. p
      BY <1>1, <2>1 DEF Deleted
    <3>2. e[k].kind = "end"
      BY <1>1, <2>1, <3>1
    <3>3. e[l].kind = "end"
      BY <2>1, <3>2 DEF Written, EndsLast
    <3>4. l \in first .. p
      BY <1>1, <2>1, <3>3
    <3>5. e[p].kind = "end"
      <4>1. k < p
        BY <1>1, <2>1, <3>4, SizesAssumption DEF Index
      <4>. QED
        BY <3>2, <4>1 DEF Written, EndsLast
    <3>6. e[p - 0] = Part(t, 0) /\ p - 0 = p
      BY <1>1, PartAt
    <3>. QED
      BY <3>5, <3>6, PartKinds
  <2>. HIDE DEF f
  <2>. QED
    BY <2>1 DEF EndsLast
<1>6. OneEach(f)
  <2>1. ASSUME NEW k \in Index, f[k].kind = "short"
        PROVE  f[k] = e[k]
    <3>. HIDE DEF f
    <3>. QED
      BY <1>1, <2>1 DEF Deleted
  <2>. HIDE DEF f
  <2>. QED
    BY <2>1 DEF Written, OneEach
<1>. QED
  BY <1>3, <1>4, <1>5, <1>6 DEF Written

(***************************************************************************)
(* Sequences                                                               *)
(***************************************************************************)
LEMMA SeqLength ==
  ASSUME NEW s, IsSequence(s)
  PROVE  Len(s) \in Nat /\ (s = <<>> <=> Len(s) = 0)
BY DEF IsSequence

LEMMA AsFunction ==
  ASSUME NEW s, IsSequence(s)
  PROVE  s = [k \in 1 .. Len(s) |-> s[k]]
<1>. DEFINE S == {s[k] : k \in 1 .. Len(s)}
<1>1. s \in Seq(S)
  BY DEF IsSequence
<1>. HIDE DEF S
<1>2. s \in [1 .. Len(s) -> S]
  BY <1>1, LenProperties, Zenon
<1>. QED
  BY <1>2

LEMMA OfSome ==
  ASSUME NEW S, NEW s \in Seq(S)
  PROVE  IsSequence(s)
<1>. DEFINE T == {s[j] : j \in 1 .. Len(s)}
<1>1. Len(s) \in Nat /\ s \in [1 .. Len(s) -> S]
  BY LenProperties, Zenon
<1>2. s \in [1 .. Len(s) -> T]
  BY <1>1
<1>. HIDE DEF T
<1>3. s \in UNION {[1 .. n -> T] : n \in Nat}
  BY <1>1, <1>2, Zenon
<1>4. s \in Seq(T)
  BY <1>3, SeqDef, Zenon
<1>. QED
  BY <1>4 DEF IsSequence, T

LEMMA EmptyIsSequence == IsSequence(<<>>)
<1>1. <<>> \in Seq({})
  OBVIOUS
<1>. QED
  BY <1>1, OfSome, Zenon

LEMMA Appended ==
  ASSUME NEW s, NEW x, IsSequence(s)
  PROVE  /\ IsSequence(Append(s, x)) /\ Len(Append(s, x)) = Len(s) + 1
         /\ \A k \in 1 .. Len(s) : Append(s, x)[k] = s[k]
         /\ Append(s, x)[Len(s) + 1] = x
<1>. DEFINE S == {s[k] : k \in 1 .. Len(s)} \cup {x}
<1>1. s \in Seq(S)
  <2>1. s \in Seq({s[k] : k \in 1 .. Len(s)})
    BY DEF IsSequence
  <2>. QED
    BY <2>1
<1>2. x \in S
  OBVIOUS
<1>. HIDE DEF S
<1>3. Append(s, x) \in Seq(S)
  BY <1>1, <1>2
<1>4. IsSequence(Append(s, x))
  BY <1>3, OfSome, Zenon
<1>. QED
  BY <1>1, <1>2, <1>4

LEMMA Tailed ==
  ASSUME NEW s, IsSequence(s), s # <<>>
  PROVE  /\ IsSequence(Tail(s)) /\ Len(Tail(s)) = Len(s) - 1 /\ Len(s) >= 1
         /\ \A k \in 1 .. Len(s) - 1 : Tail(s)[k] = s[k + 1]
         /\ Head(s) = s[1]
<1>. DEFINE S == {s[k] : k \in 1 .. Len(s)}
<1>1. s \in Seq(S)
  BY DEF IsSequence
<1>2. Len(s) >= 1 /\ Len(s) \in Nat
  BY SeqLength
<1>. HIDE DEF S
<1>3. Tail(s) \in Seq(S)
  BY <1>1, <1>2
<1>4. IsSequence(Tail(s))
  BY <1>3, OfSome, Zenon
<1>. QED
  BY <1>1, <1>2, <1>4

(***************************************************************************)
(* The search.  lfn_list has the long entries just in front of entry k.    *)
(***************************************************************************)
Collected(e, k, list) ==
  /\ Len(list) <= k
  /\ \A j \in 1 .. Len(list) :
       list[j] = e[k - Len(list) + j - 1] /\ list[j].kind = "long"
  /\ Len(list) = k \/ e[k - Len(list) - 1].kind # "long"

\* In front of a file's last entry these are the file's, last fragment first.
LEMMA CollectedWhole ==
  ASSUME NEW e, NEW here, Filed(here), Written(e, here), NEW t \in here, NEW k \in Index,
         Lies(e, t, k), NEW list, IsSequence(list), Collected(e, k, list)
  PROVE  /\ Len(list) = Span(t) - 1
         /\ \A j \in 1 .. Len(list) : list[j] = Part(t, Span(t) - j)
<1>. DEFINE L == Len(list)
<1>1. /\ L \in Nat /\ Span(t) \in Nat /\ 1 <= Span(t) /\ k \in Nat /\ Span(t) <= k + 1 /\ L <= k
  BY SeqLength, SpanRange, SizesAssumption DEF Filed, Lies, Index, Collected
<1>2. \A j \in 1 .. L : list[j] = e[k - L + j - 1] /\ list[j].kind = "long"
  BY DEF Collected
<1>3. L = k \/ e[k - L - 1].kind # "long"
  BY DEF Collected
<1>. HIDE DEF L
<1>4. ASSUME L < Span(t) - 1
      PROVE  FALSE
  <2>1. L + 1 \in Nat /\ L + 1 <= Span(t) - 1 /\ L # k /\ k - (L + 1) = k - L - 1
    BY <1>1, <1>4
  <2>2. e[k - (L + 1)] = Part(t, L + 1) /\ L + 1 # 0
    BY <1>1, <2>1, PartAt
  <2>. QED
    BY <1>3, <2>1, <2>2, PartKinds
<1>5. ASSUME L > Span(t) - 1
      PROVE  FALSE
  <2>1. k - Span(t) >= 0 /\ L - Span(t) + 1 \in 1 .. L /\ k - L + (L - Span(t) + 1) - 1 = k - Span(t)
    BY <1>1, <1>5
  <2>2. e[k - Span(t)].kind = "long"
    BY <1>2, <2>1
  <2>. QED
    BY <2>1, <2>2, NotLongBefore
<1>6. L = Span(t) - 1
  BY <1>1, <1>4, <1>5
<1>7. ASSUME NEW j \in 1 .. L
      PROVE  list[j] = Part(t, Span(t) - j)
  <2>1. Span(t) - j \in Nat /\ Span(t) - j <= Span(t) - 1 /\ k - L + j - 1 = k - (Span(t) - j)
    BY <1>1, <1>6
  <2>2. e[k - (Span(t) - j)] = Part(t, Span(t) - j)
    BY <1>1, <2>1, PartAt
  <2>. QED
    BY <1>2, <2>1, <2>2
<1>. QED
  BY <1>6, <1>7 DEF L

\* There is room for every long entry: more in front of one than a name's
\* other fragments there are not.
LEMMA CollectedHasRoom ==
  ASSUME NEW e, NEW here, Filed(here), Written(e, here), NEW k \in Index, e[k].kind = "long",
         NEW list, IsSequence(list), Collected(e, k, list)
  PROVE  e[k].seq \in 1 .. MAX_LFN /\ Len(list) < MAX_LFN
<1>. DEFINE L == Len(list)
<1>1. PICK t \in here, p \in Index, s \in Nat :
        /\ Lies(e, t, p) /\ k = p - s /\ s >= 1 /\ s <= Span(t) - 1
        /\ e[k] = Part(t, s)
  BY LongOwner
<1>2. /\ L \in Nat /\ Span(t) \in Nat /\ Span(t) <= MAX_LFN + 1 /\ k \in Nat /\ p \in Nat
      /\ MAX_LFN \in Nat /\ L <= k
      /\ Span(t) <= p + 1
  BY <1>1, SeqLength, SpanRange, SizesAssumption DEF Filed, Lies, Index, Collected
<1>3. \A j \in 1 .. L : list[j] = e[k - L + j - 1] /\ list[j].kind = "long"
  BY DEF Collected
<1>. HIDE DEF L
<1>4. e[k].seq = s
  BY <1>1, PartKinds
<1>5. ASSUME L > Span(t) - 1 - s
      PROVE  FALSE
  <2>1. /\ p - Span(t) >= 0 /\ L - (Span(t) - 1 - s) \in 1 .. L
        /\ k - L + (L - (Span(t) - 1 - s)) - 1 = p - Span(t)
    BY <1>1, <1>2, <1>5
  <2>2. e[p - Span(t)].kind = "long"
    BY <1>3, <2>1
  <2>. QED
    BY <1>1, <2>1, <2>2, NotLongBefore
<1>6. s \in 1 .. MAX_LFN /\ L < MAX_LFN
  BY <1>1, <1>2, <1>5
<1>. QED
  BY <1>4, <1>6 DEF L

LEMMA CollectsLong ==
  ASSUME NEW e, NEW k \in Nat, e[k].kind = "long", NEW list, IsSequence(list), Collected(e, k, list)
  PROVE  Collected(e, k + 1, Append(list, e[k]))
<1>. DEFINE L == Len(list)
            more == Append(list, e[k])
<1>1. L \in Nat /\ Len(more) = L + 1 /\ more[L + 1] = e[k] /\ \A j \in 1 .. L : more[j] = list[j]
  BY SeqLength, Appended
<1>2. /\ L <= k
      /\ \A j \in 1 .. L : list[j] = e[k - L + j - 1] /\ list[j].kind = "long"
      /\ L = k \/ e[k - L - 1].kind # "long"
  BY DEF Collected
<1>. HIDE DEF L, more
<1>3. ASSUME NEW j \in 1 .. L + 1
      PROVE  more[j] = e[k + 1 - (L + 1) + j - 1] /\ more[j].kind = "long"
  <2>1. CASE j = L + 1
    <3>1. k + 1 - (L + 1) + j - 1 = k
      BY <1>1, <2>1
    <3>. QED
      BY <1>1, <2>1, <3>1
  <2>2. CASE j \in 1 .. L
    <3>1. k + 1 - (L + 1) + j - 1 = k - L + j - 1
      BY <1>1
    <3>. QED
      BY <1>1, <1>2, <2>2, <3>1
  <2>. QED
    BY <1>1, <2>1, <2>2
<1>4. k + 1 - (L + 1) - 1 = k - L - 1
  BY <1>1
<1>5. Collected(e, k + 1, more)
  <2>. DEFINE M == Len(more)
  <2>1. M <= k + 1 /\ (M = k + 1 \/ e[k + 1 - M - 1].kind # "long")
    BY <1>1, <1>2, <1>4
  <2>2. \A j \in 1 .. M : more[j] = e[k + 1 - M + j - 1] /\ more[j].kind = "long"
    BY <1>1, <1>3
  <2>. QED
    BY <2>1, <2>2 DEF Collected
<1>. QED
  BY <1>5 DEF more

LEMMA CollectsNothing ==
  ASSUME NEW e, NEW k \in Nat, k > 0 => e[k - 1].kind # "long"
  PROVE  Collected(e, k, <<>>)
<1>1. Len(<<>>) = 0
  OBVIOUS
<1>2. k - 0 - 1 = k - 1
  OBVIOUS
<1>. QED
  BY <1>1, <1>2 DEF Collected

LEMMA CollectedNone ==
  ASSUME NEW e, NEW k \in Nat, k > 0 => e[k - 1].kind # "long",
         NEW list, IsSequence(list), Collected(e, k, list)
  PROVE  list = <<>>
<1>1. Len(list) \in Nat /\ Len(list) <= k /\ (list = <<>> <=> Len(list) = 0)
  BY SeqLength DEF Collected
<1>2. SUFFICES ASSUME Len(list) # 0 PROVE FALSE
  BY <1>1
<1>3. Len(list) \in 1 .. Len(list) /\ k - Len(list) + Len(list) - 1 = k - 1 /\ k > 0
  BY <1>1, <1>2
<1>. QED
  BY <1>3 DEF Collected

\* The candidate for a file is its name.
LEMMA CandidateIsTheName ==
  ASSUME IsSequence(lfn_list), NEW t, t.name \in Names,
         Len(lfn_list) = Span(t) - 1,
         \A j \in 1 .. Len(lfn_list) : lfn_list[j] = Part(t, Span(t) - j),
         ent[i] = Part(t, 0)
  PROVE  Candidate = t.name
<1>1. CASE t.name \in ShortNames
  <2>1. Len(lfn_list) = 0
    BY <1>1, SpanRange
  <2>2. lfn_list = <<>>
    BY <2>1, SeqLength
  <2>3. ent[i].name = t.name
    BY <1>1 DEF Part, Short
  <2>. QED
    BY <2>2, <2>3 DEF Candidate
<1>2. CASE t.name \notin ShortNames
  <2>. DEFINE has(s)  == \E j \in 1 .. Len(lfn_list) : lfn_list[j].seq = s
              last(s) == CHOOSE j \in 1 .. Len(lfn_list) :
                           /\ lfn_list[j].seq = s
                           /\ \A k \in j + 1 .. Len(lfn_list) : lfn_list[k].seq # s
              lengths == {n \in 0 .. Len(lfn_list) : \A s \in 1 .. n : has(s)}
              length  == CHOOSE n \in lengths : \A m \in lengths : m <= n
  <2>1. PICK m \in Nat : m = Len(lfn_list)
    BY SeqLength
  <2>2. Span(t) = m + 1 /\ m >= 1 /\ m = Len(t.name) /\ t.name \in LongNames
    BY <1>2, <2>1, SpanRange, NamesAssumption
  <2>3. lfn_list # <<>>
    BY <2>1, <2>2, SeqLength
  <2>4. ASSUME NEW j \in 1 .. m
        PROVE  lfn_list[j].seq = m + 1 - j /\ lfn_list[j].frag = t.name[m + 1 - j]
    <3>1. lfn_list[j] = Part(t, m + 1 - j) /\ m + 1 - j # 0
      BY <2>1, <2>2
    <3>. QED
      BY <3>1, PartKinds
  <2>5. ASSUME NEW s \in 1 .. m
        PROVE  has(s) /\ last(s) = m + 1 - s
    <3>1. m + 1 - s \in 1 .. m /\ m + 1 - (m + 1 - s) = s
      OBVIOUS
    <3>2. lfn_list[m + 1 - s].seq = s
      BY <2>4, <3>1
    <3>3. \A j \in 1 .. m : lfn_list[j].seq = s => j = m + 1 - s
      BY <2>4
    <3>4. \A k \in m + 1 - s + 1 .. m : lfn_list[k].seq # s
      BY <2>4
    <3>. QED
      BY <2>1, <3>1, <3>2, <3>3, <3>4
  <2>. HIDE DEF has, last
  <2>6. m \in lengths /\ \A n \in lengths : n <= m /\ n \in Nat
    BY <2>1, <2>5
  <2>7. length = m
    <3>. HIDE DEF lengths
    <3>1. m \in lengths /\ \A n \in lengths : n <= m
      BY <2>6
    <3>2. \E n \in lengths : \A k \in lengths : k <= n
      BY <3>1
    <3>3. length \in lengths /\ \A n \in lengths : n <= length
      BY <3>2, Zenon
    <3>. HIDE DEF length
    <3>. QED
      BY <2>6, <3>1, <3>3
  <2>. HIDE DEF length, lengths
  <2>8. \A s \in 1 .. m : lfn_list[last(s)].frag = t.name[s]
    <3>1. ASSUME NEW s \in 1 .. m
          PROVE  lfn_list[last(s)].frag = t.name[s]
      <4>1. m + 1 - s \in 1 .. m /\ m + 1 - (m + 1 - s) = s
        OBVIOUS
      <4>. QED
        BY <2>4, <2>5, <4>1
    <3>. QED
      BY <3>1
  <2>9. t.name = [s \in 1 .. m |-> t.name[s]]
    BY <2>2, AsFunction, NamesAssumption
  <2>10. [s \in 1 .. length |-> lfn_list[last(s)].frag] = [s \in 1 .. m |-> t.name[s]]
    BY <2>7, <2>8
  <2>11. Candidate = [s \in 1 .. length |-> lfn_list[last(s)].frag]
    BY <2>3 DEF Candidate, has, last, lengths, length
  <2>. QED
    BY <2>9, <2>10, <2>11
<1>. QED
  BY <1>1, <1>2

(***************************************************************************)
(* The tools                                                               *)
(***************************************************************************)
HereIn(T, d) == {t \in T : t.dir = d}

Rooted ==
  /\ tree \subseteq [dir : DirClusters, name : Names, node : Nodes]
  /\ \A t \in tree : t.node.cluster \in DirClusters \ {RootDir} /\ t.dir \in Directories
  /\ \A t, u \in tree : t.node.cluster = u.node.cluster => t = u
  /\ \A t, u \in tree : t.dir = u.dir /\ t.name = u.name => t = u

VolumeInv ==
  /\ DOMAIN dirs = DirClusters
  /\ Rooted
  /\ \A d \in Directories : Written(dirs[d], HereIn(tree, d))

LEMMA HereFiled ==
  ASSUME Rooted, NEW d
  PROVE  Filed(HereIn(tree, d))
BY DEF Rooted, HereIn, Filed

LEMMA DirectoryClusters ==
  ASSUME Rooted
  PROVE  Directories \subseteq DirClusters /\ RootDir \in Directories
BY SizesAssumption DEF Rooted, Directories, DirClusters, RootDir

\* The entries the tools write are the parts of the file.
LEMMA EntriesAreParts ==
  ASSUME NEW t, t.name \in Names
  PROVE  /\ Len(EntriesOf(t.name, t.node)) = Span(t)
         /\ \A k \in 1 .. Span(t) : EntriesOf(t.name, t.node)[k] = Part(t, Span(t) - k)
<1>1. CASE t.name \in ShortNames
  BY <1>1 DEF EntriesOf, Span, Part
<1>2. CASE t.name \notin ShortNames
  <2>. DEFINE longs == [k \in 1 .. Len(t.name) |->
                          Long(Len(t.name) + 1 - k, t.name[Len(t.name) + 1 - k])]
              S == {longs[k] : k \in 1 .. Len(t.name)} \cup {Short(Alias, t.node)}
  <2>1. PICK m \in Nat : m = Len(t.name) /\ m + 1 = Span(t)
    BY <1>2, SpanRange, NamesAssumption, SeqLength
  <2>2. longs \in Seq(S) /\ Len(longs) = m
    BY <2>1
  <2>3. <<Short(Alias, t.node)>> \in Seq(S) /\ Len(<<Short(Alias, t.node)>>) = 1
    OBVIOUS
  <2>4. EntriesOf(t.name, t.node) = longs \o <<Short(Alias, t.node)>>
    BY <1>2 DEF EntriesOf
  <2>. HIDE DEF S
  <2>5. /\ Len(longs \o <<Short(Alias, t.node)>>) = m + 1
        /\ \A k \in 1 .. m : (longs \o <<Short(Alias, t.node)>>)[k] = longs[k]
        /\ (longs \o <<Short(Alias, t.node)>>)[m + 1] = Short(Alias, t.node)
    <3>. HIDE DEF longs
    <3>. QED
      BY <2>2, <2>3, ConcatProperties
  <2>6. ASSUME NEW k \in 1 .. m
        PROVE  longs[k] = Part(t, m + 1 - k)
    BY <2>1 DEF Part
  <2>7. Short(Alias, t.node) = Part(t, m + 1 - (m + 1))
    BY <1>2 DEF Part
  <2>. HIDE DEF longs
  <2>. QED
    BY <2>1, <2>4, <2>5, <2>6, <2>7
<1>. QED
  BY <1>1, <1>2

LEMMA CreateKeeps ==
  ASSUME VolumeInv, NEW d \in DirClusters, NEW name \in Names, NEW c \in DirClusters,
         NEW type \in {"file", "dir"}, Create(d, name, Node(c, type))
  PROVE  VolumeInv'
<1>. DEFINE n   == Node(c, type)
            t   == [dir |-> d, name |-> name, node |-> n]
            new == EntriesOf(name, n)
<1>1. /\ d \in Directories /\ c \notin Used
      /\ \A u \in tree : ~(u.dir = d /\ u.name = name)
      /\ tree' = tree \cup {t}
  BY DEF Create, Node
<1>2. n \in Nodes /\ n.cluster = c /\ n.type = type /\ t.name = name /\ t.node = n /\ t.dir = d
  BY SizesAssumption DEF Node, Nodes, DirClusters, RootDir
<1>3. Len(new) = Span(t) /\ \A k \in 1 .. Span(t) : new[k] = Part(t, Span(t) - k)
  BY <1>2, EntriesAreParts
<1>4. PICK p \in Index :
        /\ Fits(d, p, Len(new))
        /\ \A q \in 0 .. p - 1 : ~Fits(d, q, Len(new))
        /\ dirs' = [dirs EXCEPT
             ![d] = [k \in Index |-> IF k \in p .. p + Len(new) - 1 THEN new[k - p + 1] ELSE @[k]],
             ![c] = Empty]
  BY <1>2 DEF Create
<1>5. d # c /\ c # RootDir /\ \A u \in tree : u.node.cluster # c /\ u.dir # c
  BY <1>1 DEF Used, VolumeInv, Rooted, Directories
<1>. HIDE DEF new, t, n
<1>6. Span(t) \in Nat /\ 1 <= Span(t) /\ p \in Nat
  BY <1>2, SpanRange, SizesAssumption DEF Index
<1>7. dirs'[d] = WithFile(dirs[d], t, p)
  <2>1. dirs'[d] = [k \in Index |-> IF k \in p .. p + Len(new) - 1 THEN new[k - p + 1] ELSE dirs[d][k]]
    BY <1>4, <1>5 DEF VolumeInv
  <2>2. ASSUME NEW k \in p .. p + Span(t) - 1
        PROVE  new[k - p + 1] = Part(t, p + Span(t) - 1 - k)
    <3>1. k - p + 1 \in 1 .. Span(t) /\ Span(t) - (k - p + 1) = p + Span(t) - 1 - k
      BY <1>6
    <3>. QED
      BY <1>3, <3>1
  <2>. QED
    BY <1>3, <2>1, <2>2 DEF WithFile
<1>8. dirs'[c] = Empty
  BY <1>4, <1>5 DEF VolumeInv
<1>9. DOMAIN dirs' = DirClusters /\ \A x \in DirClusters : x # d /\ x # c => dirs'[x] = dirs[x]
  BY <1>4 DEF VolumeInv
<1>10. Directories' = Directories \cup (IF type = "dir" THEN {c} ELSE {})
  BY <1>1, <1>2 DEF Directories
<1>11. Rooted'
  <2>1. t \in [dir : DirClusters, name : Names, node : Nodes]
    BY <1>2 DEF t
  <2>2. tree' \subseteq [dir : DirClusters, name : Names, node : Nodes]
    BY <1>1, <2>1 DEF VolumeInv, Rooted
  <2>3. \A u \in tree' : u.node.cluster \in DirClusters \ {RootDir} /\ u.dir \in Directories'
    BY <1>1, <1>2, <1>5, <1>10 DEF VolumeInv, Rooted
  <2>4. \A u, v \in tree' : u.node.cluster = v.node.cluster => u = v
    BY <1>1, <1>2, <1>5 DEF VolumeInv, Rooted
  <2>5. \A u, v \in tree' : u.dir = v.dir /\ u.name = v.name => u = v
    BY <1>1, <1>2, <1>5 DEF VolumeInv, Rooted
  <2>. QED
    BY <2>2, <2>3, <2>4, <2>5 DEF Rooted
<1>12. ASSUME NEW x \in Directories'
       PROVE  Written(dirs'[x], HereIn(tree', x))
  <2>1. CASE x = d
    <3>1. Filed(HereIn(tree, d)) /\ Written(dirs[d], HereIn(tree, d))
      BY <1>1, HereFiled DEF VolumeInv
    <3>2. \A u \in HereIn(tree, d) : u.node # t.node
      BY <1>2, <1>5 DEF HereIn
    <3>3. p + Span(t) <= ENTRIES /\ \A k \in p .. p + Span(t) - 1 : Free(dirs[d][k])
      BY <1>3, <1>4 DEF Fits, Free
    <3>4. ASSUME NEW q \in 0 .. p - 1
          PROVE  ~\A k \in q .. q + Span(t) - 1 : Free(dirs[d][k])
      <4>1. q + Span(t) <= ENTRIES
        BY <1>6, <3>3, SizesAssumption
      <4>. QED
        BY <1>3, <1>4, <4>1 DEF Fits, Free
    <3>5. Written(WithFile(dirs[d], t, p), HereIn(tree, d) \cup {t})
      <4>. DEFINE e == dirs[d]
      <4>1. /\ Filed(HereIn(tree, d)) /\ Written(e, HereIn(tree, d))
            /\ p + Span(t) <= ENTRIES /\ \A k \in p .. p + Span(t) - 1 : Free(e[k])
            /\ \A q \in 0 .. p - 1 : ~\A k \in q .. q + Span(t) - 1 : Free(e[k])
        BY <3>1, <3>3, <3>4
      <4>. HIDE DEF e
      <4>2. Written(WithFile(e, t, p), HereIn(tree, d) \cup {t})
        BY <1>2, <3>2, <4>1, WrittenWith
      <4>. QED
        BY <4>2 DEF e
    <3>6. HereIn(tree', d) = HereIn(tree, d) \cup {t}
      BY <1>1, <1>2 DEF HereIn
    <3>. QED
      BY <1>7, <2>1, <3>5, <3>6
  <2>2. CASE x = c
    <3>1. HereIn(tree', c) = {}
      BY <1>1, <1>2, <1>5 DEF HereIn
    <3>. QED
      BY <1>8, <2>2, <3>1, EmptyIsWritten
  <2>3. CASE x # d /\ x # c
    <3>1. x \in Directories
      BY <1>10, <2>3
    <3>2. HereIn(tree', x) = HereIn(tree, x)
      BY <1>1, <1>2, <2>3 DEF HereIn
    <3>3. dirs'[x] = dirs[x]
      BY <1>9, <2>3, <3>1, DirectoryClusters DEF VolumeInv
    <3>. QED
      BY <3>1, <3>2, <3>3 DEF VolumeInv
  <2>. QED
    BY <2>1, <2>2, <2>3
<1>. QED
  BY <1>9, <1>11, <1>12 DEF VolumeInv

LEMMA DeleteKeeps ==
  ASSUME VolumeInv, NEW t \in tree, Delete(t)
  PROVE  VolumeInv'
<1>. DEFINE d == t.dir
            c == t.node.cluster
<1>1. (\A u \in tree : u.dir # c) /\ tree' = tree \ {t}
  BY DEF Delete
<1>2. /\ d \in Directories /\ d \in DirClusters /\ c \in DirClusters /\ c # RootDir /\ d # c
      /\ t.name \in Names
  BY <1>1, DirectoryClusters DEF VolumeInv, Rooted
<1>. DEFINE len == Len(EntriesOf(t.name, t.node))
<1>3. PICK p \in Index :
        /\ dirs[d][p].kind = "short" /\ dirs[d][p].node = t.node
        /\ dirs' = [dirs EXCEPT
             ![d] = [k \in Index |-> IF k \in p + 1 - len .. p THEN Deleted ELSE @[k]],
             ![c] = Empty]
  BY DEF Delete
<1>4. len = Span(t)
  BY <1>2, EntriesAreParts
<1>. HIDE DEF len
<1>5. PICK e : e = dirs[d]
  OBVIOUS
<1>6. Filed(HereIn(tree, d)) /\ Written(e, HereIn(tree, d)) /\ t \in HereIn(tree, d)
  BY <1>2, <1>5, HereFiled DEF VolumeInv, HereIn
<1>7. Lies(e, t, p)
  <2>1. PICK u \in HereIn(tree, d) : Lies(e, u, p)
    BY <1>3, <1>5, <1>6, ShortOwner
  <2>2. Span(u) \in Nat /\ 0 <= Span(u) - 1 /\ 0 \in Nat /\ p - 0 = p
    BY <1>6, SpanRange, SizesAssumption DEF Filed, Index
  <2>3. e[p] = Part(u, 0)
    BY <2>1, <2>2, PartAt
  <2>4. u.node = t.node
    BY <1>3, <1>5, <2>3, PartKinds
  <2>. QED
    BY <1>6, <2>1, <2>4 DEF Filed
<1>8. dirs'[d] = Without(e, t, p)
  BY <1>2, <1>3, <1>4, <1>5 DEF VolumeInv, Without
<1>9. DOMAIN dirs' = DirClusters /\ \A x \in DirClusters : x # d /\ x # c => dirs'[x] = dirs[x]
  BY <1>3 DEF VolumeInv
<1>10. Directories' \subseteq Directories /\ c \notin Directories'
       /\ \A x \in Directories : x # c => x \in Directories'
  BY <1>1, <1>2 DEF Directories, VolumeInv, Rooted
<1>11. Rooted'
  <2>1. \A u \in tree' : u \in tree
    BY <1>1
  <2>2. \A u \in tree' : u.dir \in Directories'
    BY <1>1, <1>10, <2>1 DEF VolumeInv, Rooted
  <2>. QED
    BY <2>1, <2>2 DEF VolumeInv, Rooted
<1>12. ASSUME NEW x \in Directories'
       PROVE  Written(dirs'[x], HereIn(tree', x))
  <2>1. CASE x = d
    <3>1. HereIn(tree', d) = HereIn(tree, d) \ {t}
      BY <1>1 DEF HereIn
    <3>2. Written(Without(e, t, p), HereIn(tree, d) \ {t})
      BY <1>6, <1>7, WrittenWithout
    <3>. QED
      BY <1>8, <2>1, <3>1, <3>2
  <2>2. CASE x # d
    <3>1. x \in Directories /\ x # c /\ x \in DirClusters
      BY <1>10, DirectoryClusters DEF VolumeInv
    <3>2. HereIn(tree', x) = HereIn(tree, x)
      BY <1>1, <2>2 DEF HereIn
    <3>. QED
      BY <1>9, <2>2, <3>1, <3>2 DEF VolumeInv
  <2>. QED
    BY <2>1, <2>2
<1>. QED
  BY <1>9, <1>11, <1>12 DEF VolumeInv

(***************************************************************************)
(* The path in the tree                                                    *)
(***************************************************************************)
ChildIn(T, n, x) ==
  LET here == {t \in T : n # NULL /\ t.dir = n.cluster /\ t.name = x}
  IN  IF here = {} THEN NULL ELSE (CHOOSE t \in here : TRUE).node

IsReference(f, T, p) ==
  f = [k \in Nat |-> IF k = 0 THEN Node(RootDir, "dir") ELSE ChildIn(T, f[k - 1], p[k])]

LEMMA RootNode ==
  Node(RootDir, "dir") \in Nodes /\ Node(RootDir, "dir").cluster = RootDir
  /\ Node(RootDir, "dir").type = "dir" /\ Node(RootDir, "dir") # NULL
BY SizesAssumption, NullAssumption DEF Node, Nodes, RootDir

LEMMA ReferenceExists ==
  ASSUME NEW T, \A t \in T : t.node \in Nodes, NEW p
  PROVE  \E f : IsReference(f, T, p)
<1>. DEFINE S    == Nodes \cup {NULL}
            base == Node(RootDir, "dir")
            next == [a \in Nat \X S |-> ChildIn(T, a[2], p[a[1] + 1])]
<1>1. base \in S
  BY RootNode
<1>2. IsStep(next, S)
  <2>1. ASSUME NEW n, NEW x
        PROVE  ChildIn(T, n, x) \in S
    BY DEF ChildIn
  <2>. QED
    BY <2>1 DEF IsStep
<1>3. \A n \in Nat, y \in S : next[<<n, y>>] = ChildIn(T, y, p[n + 1])
  OBVIOUS
<1>. HIDE DEF S, base, next
<1>4. PICK f : Recursive(f, S, base, next)
  BY <1>1, <1>2, Recursion
<1>5. ASSUME NEW k \in Nat, k # 0
      PROVE  f[k] = ChildIn(T, f[k - 1], p[k])
  <2>1. k - 1 \in Nat /\ k - 1 + 1 = k
    BY <1>5
  <2>2. f[k - 1 + 1] = next[<<k - 1, f[k - 1]>>] /\ f[k - 1] \in S
    BY <1>4, <2>1 DEF Recursive
  <2>. QED
    BY <1>3, <2>1, <2>2
<1>6. f = [k \in Nat |-> f[k]] /\ f[0] = base
  BY <1>4 DEF Recursive
<1>7. f = [k \in Nat |-> IF k = 0 THEN base ELSE ChildIn(T, f[k - 1], p[k])]
  BY <1>5, <1>6
<1>. QED
  BY <1>7 DEF IsReference, base

LEMMA Typed ==
  ASSUME Rooted
  PROVE  \A t \in tree : t.node \in Nodes /\ t.name \in Names
BY DEF Rooted

LEMMA ReferenceSteps ==
  ASSUME Rooted
  PROVE  /\ Reference[0] = Node(RootDir, "dir")
         /\ \A k \in Nat : Reference[k + 1] = Child(Reference[k], path[k + 1])
<1>1. \E f : IsReference(f, tree, path)
  BY ReferenceExists, Typed
<1>2. Reference = CHOOSE f : IsReference(f, tree, path)
  BY Zenon DEF Reference, IsReference, Child, ChildIn
<1>3. IsReference(Reference, tree, path)
  BY <1>1, <1>2, Zenon
<1>. HIDE DEF Reference
<1>4. Reference[0] = Node(RootDir, "dir")
  BY <1>3 DEF IsReference
<1>5. ASSUME NEW k \in Nat
      PROVE  Reference[k + 1] = Child(Reference[k], path[k + 1])
  <2>1. k + 1 \in Nat /\ k + 1 # 0 /\ k + 1 - 1 = k
    OBVIOUS
  <2>2. Reference[k + 1] = ChildIn(tree, Reference[k + 1 - 1], path[k + 1])
    BY <1>3, <2>1 DEF IsReference
  <2>. QED
    BY <2>1, <2>2 DEF Child, ChildIn
<1>. QED
  BY <1>4, <1>5

LEMMA ReferenceBegins == Reference'[0] = Node(RootDir, "dir") \/ ~Rooted'
<1>1. SUFFICES ASSUME Rooted' PROVE Reference'[0] = Node(RootDir, "dir")
  OBVIOUS
<1>2. \A t \in tree' : t.node \in Nodes
  BY <1>1 DEF Rooted
<1>3. \E f : IsReference(f, tree', path')
  BY <1>2, ReferenceExists
<1>4. Reference' = CHOOSE f : IsReference(f, tree', path')
  BY Zenon DEF Reference, IsReference, Child, ChildIn
<1>5. IsReference(Reference', tree', path')
  BY <1>3, <1>4, Zenon
<1>6. PICK f : f = Reference'
  OBVIOUS
<1>. QED
  BY <1>5, <1>6 DEF IsReference

LEMMA ChildFound ==
  ASSUME Rooted, NEW n, n # NULL, NEW x, NEW t \in tree, t.dir = n.cluster, t.name = x
  PROVE  Child(n, x) = t.node
<1>. DEFINE here == {u \in tree : n # NULL /\ u.dir = n.cluster /\ u.name = x}
<1>1. t \in here /\ \A u \in here : u = t
  BY DEF Rooted
<1>2. (CHOOSE u \in here : TRUE) = t
  BY <1>1
<1>. QED
  BY <1>1, <1>2 DEF Child

LEMMA ChildNone ==
  ASSUME NEW n, NEW x, n = NULL \/ \A t \in tree : ~(t.dir = n.cluster /\ t.name = x)
  PROVE  Child(n, x) = NULL
BY DEF Child

LEMMA ChildOfTree ==
  ASSUME NEW n, NEW x, Child(n, x) # NULL
  PROVE  \E t \in tree : Child(n, x) = t.node
BY DEF Child

\* Beyond a segment that names nothing there is nothing.
LEMMA ReferenceLost ==
  ASSUME Rooted, NEW k \in Nat, Reference[k] = NULL, NEW m \in Nat, k <= m
  PROVE  Reference[m] = NULL
<1>. HIDE DEF Reference
<1>. DEFINE T == {n \in Nat : Reference[k + n] = NULL}
<1>1. 0 \in T
  BY SMT
<1>2. ASSUME NEW n \in Nat, n \in T
      PROVE  n + 1 \in T
  <2>1. k + n \in Nat /\ k + (n + 1) = k + n + 1
    OBVIOUS
  <2>2. Reference[k + n + 1] = Child(Reference[k + n], path[k + n + 1])
    BY <2>1, ReferenceSteps
  <2>3. Reference[k + n + 1] = NULL
    BY <1>2, <2>2, ChildNone
  <2>. QED
    BY <2>1, <2>3
<1>3. \A n \in Nat : n \in T
  <2>. HIDE DEF T
  <2>. QED
    BY <1>1, <1>2, Induction
<1>4. m - k \in Nat /\ k + (m - k) = m
  OBVIOUS
<1>. QED
  BY <1>3, <1>4

\* How many segments of the path have been resolved.
Resolved == Len(path) - Len(rest)

Walking ==
  /\ IsSequence(path) /\ path # <<>> /\ IsSequence(rest)
  /\ Resolved \in 0 .. Len(path)
  /\ \A j \in 1 .. Len(rest) : rest[j] = path[Resolved + j]
  /\ failed => node = NULL
  /\ ~ThroughFile /\ ~failed =>
       IF node = NULL THEN Resolved < Len(path) /\ Reference[Resolved + 1] = NULL
       ELSE node = Reference[Resolved]

\* On a path that leads through directories only, they are what is searched.
LEMMA OnTheWay ==
  ASSUME Rooted, Walking, ~ThroughFile, ~failed, node # NULL, rest # <<>>
  PROVE  /\ node.cluster \in Directories
         /\ Resolved \in Nat /\ Resolved + 1 \in 1 .. Len(path)
         /\ Reference[Resolved + 1] = Child(node, Head(rest))
<1>. HIDE DEF Reference
<1>1. PICK l \in Nat, m \in Nat : l = Len(path) /\ m = Len(rest) /\ m >= 1
  BY SeqLength, Tailed DEF Walking
<1>2. PICK r \in Nat : r = Resolved /\ r = l - m /\ r + 1 <= l
  <2>1. Resolved = l - m
    BY <1>1 DEF Resolved
  <2>2. Resolved \in 0 .. Len(path)
    BY DEF Walking
  <2>. QED
    BY <1>1, <2>1, <2>2
<1>3. node = Reference[r]
  BY <1>2 DEF Walking
<1>4. Head(rest) = path[r + 1]
  BY <1>1, <1>2, Tailed DEF Walking
<1>5. node.cluster \in Directories
  <2>1. CASE r = 0
    BY <1>3, <2>1, ReferenceSteps, RootNode, DirectoryClusters
  <2>2. CASE r # 0
    <3>1. r - 1 \in Nat /\ r - 1 + 1 = r
      BY <2>2
    <3>2. Reference[r] = Child(Reference[r - 1], path[r])
      BY <3>1, ReferenceSteps
    <3>3. PICK t \in tree : node = t.node
      BY <1>3, <3>2, ChildOfTree
    <3>4. node.type # "file"
      <4>1. r \in 1 .. Len(path) - 1
        BY <1>1, <1>2, <2>2
      <4>. QED
        BY <1>3, <4>1 DEF ThroughFile
    <3>5. node.type = "dir"
      BY <3>3, <3>4, Typed DEF Nodes
    <3>. QED
      BY <3>3, <3>5 DEF Directories
  <2>. QED
    BY <2>1, <2>2
<1>6. Reference[r + 1] = Child(node, Head(rest))
  BY <1>3, <1>4, ReferenceSteps
<1>. HIDE DEF Resolved
<1>7. Resolved + 1 \in 1 .. Len(path)
  BY <1>1, <1>2
<1>. QED
  BY <1>2, <1>5, <1>6, <1>7

(***************************************************************************)
(* The search, and the invariant                                           *)
(***************************************************************************)
\* No file in front of entry k has the name.
Passed(e, here, k, name) ==
  \A t \in here, p \in 0 .. k - 1 : Lies(e, t, p) => t.name # name

Searching ==
  /\ node \in Nodes /\ rest # <<>> /\ ~failed
  /\ ent \in Contents(node.cluster)
  /\ node.cluster \in Directories =>
       /\ Collected(ent, i, lfn_list)
       /\ Passed(ent, HereIn(tree, node.cluster), i, Head(rest))

\* The listing.  If the entry in front of entry k is a fragment, lfn_buf
\* has it in its place and a NUL behind it.
Fragment(e, k) == k > 0 /\ e[k - 1].kind = "long"

Buffered(buf, active, e, k) ==
  /\ DOMAIN buf = Slots /\ buf[0] = NUL
  /\ active = Fragment(e, k)
  /\ Fragment(e, k) => buf[e[k - 1].seq] = e[k - 1].frag /\ buf[e[k - 1].seq + 1] = NUL

Line(t) == [name |-> Shown(t.name), node |-> t.node]

\* The files and directories in front of entry k have been listed.
Before(e, here, k) == {u \in here : \E p \in 0 .. k - 1 : Lies(e, u, p)}

ListedTo(list, e, here, k) ==
  /\ {list[j] : j \in 1 .. Len(list)} = {Line(t) : t \in Before(e, here, k)}
  /\ \A j, l \in 1 .. Len(list) : list[j].node = list[l].node => j = l

Listing ==
  /\ node \in Nodes /\ path = <<>>
  /\ ~failed => ent \in Contents(node.cluster)
  /\ ~failed /\ node.cluster \in Directories =>
       /\ Buffered(lfn_buf, lfn_active, ent, i)
       /\ ListedTo(listed, ent, HereIn(tree, node.cluster), i)

BothSequences == IsSequence(lfn_list) /\ IsSequence(listed)

LookupInv ==
  /\ LookupTypeOK /\ BothSequences /\ VolumeInv
  /\ call \in {"walk", "search"} => Walking
  /\ call = "search" => Searching
  /\ call = "list" => Listing
  /\ OpenResolves /\ ListsTheDirectory

(***************************************************************************)
(* What a step leaves alone                                                *)
(***************************************************************************)
LEMMA VolumeStays ==
  ASSUME VolumeInv, UNCHANGED volume
  PROVE  VolumeInv' /\ Directories' = Directories
<1>1. dirs' = dirs /\ tree' = tree
  BY DEF volume
<1>2. Directories' = Directories
  BY <1>1 DEF Directories
<1>3. Rooted'
  BY <1>1, <1>2 DEF VolumeInv, Rooted
<1>. QED
  BY <1>1, <1>2, <1>3 DEF VolumeInv

LEMMA PathStays ==
  ASSUME tree' = tree, path' = path
  PROVE  Reference' = Reference /\ (ThroughFile <=> ThroughFile')
<1>1. Reference' = Reference
  <2>1. Reference = CHOOSE f : IsReference(f, tree, path)
    BY Zenon DEF Reference, IsReference, Child, ChildIn
  <2>2. Reference' = CHOOSE f : IsReference(f, tree', path')
    BY Zenon DEF Reference, IsReference, Child, ChildIn
  <2>. QED
    BY <2>1, <2>2
<1>. HIDE DEF Reference
<1>. QED
  BY <1>1 DEF ThroughFile

LEMMA WalkingStays ==
  ASSUME Walking, tree' = tree, path' = path, rest' = rest, node' = node, failed' = failed
  PROVE  Walking'
<1>. HIDE DEF Reference, ThroughFile
<1>1. Reference' = Reference /\ (ThroughFile <=> ThroughFile')
  BY PathStays
<1>2. Resolved' = Resolved
  BY DEF Resolved
<1>. QED
  BY <1>1, <1>2 DEF Walking

\* The directory that is searched or listed is one the tools have written.
LEMMA EntIsWritten ==
  ASSUME VolumeInv, node.cluster \in Directories, ent \in Contents(node.cluster)
  PROVE  Filed(HereIn(tree, node.cluster)) /\ Written(ent, HereIn(tree, node.cluster))
BY HereFiled DEF VolumeInv, Contents

(***************************************************************************)
(* The walk                                                                *)
(***************************************************************************)
LEMMA InitLookup == LookupInit => LookupInv
<1>. SUFFICES ASSUME LookupInit PROVE LookupInv
  OBVIOUS
<1>1. VolumeInv
  <2>1. Directories = {RootDir}
    BY DEF LookupInit, Directories
  <2>2. RootDir \in DirClusters /\ HereIn(tree, RootDir) = {} /\ dirs[RootDir] = Empty
    BY SizesAssumption DEF LookupInit, HereIn, DirClusters, RootDir
  <2>. QED
    BY <2>1, <2>2, EmptyIsWritten DEF LookupInit, VolumeInv, Rooted
<1>2. LookupTypeOK /\ BothSequences
  <2>1. Len(lfn_list) = 0 /\ IsSequence(lfn_list) /\ IsSequence(listed)
    BY EmptyIsSequence DEF LookupInit
  <2>2. DOMAIN dirs = DirClusters /\ i \in 0 .. ENTRIES /\ 0 <= MAX_LFN
    BY SizesAssumption DEF LookupInit
  <2>3. call = "ready" /\ node = NULL /\ lfn_active = FALSE /\ failed = FALSE
    BY DEF LookupInit
  <2>. QED
    BY <2>1, <2>2, <2>3 DEF LookupTypeOK, BothSequences
<1>. QED
  BY <1>1, <1>2 DEF LookupInit, LookupInv, OpenResolves, ListsTheDirectory

LEMMA ToolStep ==
  ASSUME LookupInv, Tool
  PROVE  LookupInv'
<1>1. /\ call = "ready" /\ path' = <<>> /\ node' = NULL /\ failed' = FALSE /\ listed' = <<>>
      /\ UNCHANGED <<call, rest, ent, i, lfn_list, lfn_buf, lfn_active>>
  BY DEF Tool
<1>2. VolumeInv'
  BY CreateKeeps, DeleteKeeps DEF Tool, LookupInv
<1>3. LookupTypeOK'
  BY <1>1, <1>2 DEF LookupInv, LookupTypeOK, VolumeInv
<1>4. BothSequences'
  BY <1>1, EmptyIsSequence DEF LookupInv, BothSequences
<1>. QED
  BY <1>1, <1>2, <1>3, <1>4 DEF LookupInv, OpenResolves, ListsTheDirectory

LEMMA OpenStep ==
  ASSUME LookupInv, NEW p \in Paths, Fat32Open(p)
  PROVE  LookupInv'
<1>1. /\ call = "ready" /\ path' = p /\ rest' = p /\ node' = Node(RootDir, "dir")
      /\ failed' = FALSE /\ call' = "walk" /\ listed' = <<>>
      /\ UNCHANGED <<volume, ent, i, lfn_list, lfn_buf, lfn_active>>
  BY DEF Fat32Open
<1>2. VolumeInv'
  BY <1>1, VolumeStays DEF LookupInv
<1>3. LookupTypeOK'
  BY <1>1, <1>2, RootNode DEF LookupInv, LookupTypeOK, VolumeInv
<1>4. BothSequences'
  BY <1>1, EmptyIsSequence DEF LookupInv, BothSequences
<1>5. Walking'
  <2>. HIDE DEF Reference
  <2>1. IsSequence(p) /\ p # <<>> /\ Len(p) \in Nat
    BY PathsAssumption, SeqLength
  <2>2. Resolved' = 0
    BY <1>1, <2>1 DEF Resolved
  <2>3. Reference'[0] = Node(RootDir, "dir")
    BY <1>2, ReferenceBegins DEF VolumeInv
  <2>4. \A j \in 1 .. Len(p) : rest'[j] = path'[Resolved' + j]
    BY <1>1, <2>1, <2>2
  <2>5. node' = Reference'[Resolved'] /\ node' # NULL /\ Resolved' \in 0 .. Len(path')
    BY <1>1, <2>1, <2>2, <2>3, RootNode
  <2>. QED
    BY <1>1, <2>1, <2>4, <2>5 DEF Walking
<1>. QED
  BY <1>1, <1>2, <1>3, <1>4, <1>5 DEF LookupInv, OpenResolves, ListsTheDirectory

LEMMA WalkedStep ==
  ASSUME LookupInv, Walked
  PROVE  LookupInv'
<1>1. /\ call = "walk" /\ (node = NULL \/ rest = <<>>) /\ rest' = <<>> /\ call' = "ready"
      /\ UNCHANGED <<volume, path, node, ent, i, lfn_list, failed, listing>>
  BY DEF Walked
<1>2. Walking /\ VolumeInv' /\ Rooted /\ tree' = tree
  BY <1>1, VolumeStays DEF LookupInv, VolumeInv, volume
<1>3. LookupTypeOK' /\ BothSequences'
  BY <1>1, <1>2 DEF LookupInv, LookupTypeOK, VolumeInv, listing, BothSequences
<1>4. ASSUME ~ThroughFile
      PROVE  node = IF failed THEN NULL ELSE Reference[Len(path)]
  <2>. HIDE DEF Reference
  <2>1. CASE failed
    BY <1>2, <2>1 DEF Walking
  <2>2. CASE ~failed /\ node # NULL
    <3>1. rest = <<>>
      BY <1>1, <2>2
    <3>2. Len(path) \in Nat /\ Len(rest) = 0
      BY <1>2, <3>1, SeqLength DEF Walking
    <3>3. Resolved = Len(path)
      BY <3>2 DEF Resolved
    <3>. QED
      BY <1>2, <1>4, <2>2, <3>3 DEF Walking
  <2>3. CASE ~failed /\ node = NULL
    <3>1. Resolved < Len(path) /\ Reference[Resolved + 1] = NULL /\ Resolved \in 0 .. Len(path)
      BY <1>2, <1>4, <2>3 DEF Walking
    <3>2. PICK l \in Nat : l = Len(path)
      BY <1>2, SeqLength DEF Walking
    <3>3. PICK r \in Nat : r = Resolved + 1 /\ r <= l
      BY <3>1, <3>2
    <3>4. Reference[l] = NULL
      BY <1>2, <3>1, <3>3, ReferenceLost
    <3>. QED
      BY <2>3, <3>2, <3>4
  <2>. QED
    BY <2>1, <2>2, <2>3
<1>5. OpenResolves'
  <2>. HIDE DEF Reference, ThroughFile
  <2>1. Reference' = Reference /\ (ThroughFile <=> ThroughFile')
    BY <1>1, <1>2, PathStays
  <2>. QED
    BY <1>1, <1>4, <2>1 DEF OpenResolves
<1>6. ListsTheDirectory'
  BY <1>1, <1>2 DEF ListsTheDirectory, Walking
<1>. QED
  BY <1>1, <1>2, <1>3, <1>5, <1>6 DEF LookupInv

\* A segment that ends the walk with NULL.
LEMMA LostStep ==
  ASSUME LookupInv, call \in {"walk", "search"}, call' = "walk", node' = NULL, rest # <<>>,
         UNCHANGED <<volume, path, rest, listing>>,
         ~failed' => ThroughFile \/ Reference[Resolved + 1] = NULL,
         failed' \in BOOLEAN, IsSequence(lfn_list'), Len(lfn_list') <= MAX_LFN,
         i' \in 0 .. ENTRIES
  PROVE  LookupInv'
<1>. HIDE DEF Reference, ThroughFile
<1>1. Walking /\ VolumeInv' /\ tree' = tree
  BY VolumeStays DEF LookupInv, volume
<1>2. LookupTypeOK' /\ BothSequences'
  BY <1>1 DEF LookupInv, LookupTypeOK, VolumeInv, listing, BothSequences
<1>3. Reference' = Reference /\ (ThroughFile <=> ThroughFile') /\ Resolved' = Resolved
  BY <1>1, PathStays DEF Resolved
<1>4. Resolved < Len(path)
  <2>1. Len(path) \in Nat /\ Len(rest) \in Nat /\ Len(rest) >= 1
    BY <1>1, SeqLength, Tailed DEF Walking
  <2>. QED
    BY <2>1 DEF Resolved
<1>5. Walking'
  BY <1>1, <1>3, <1>4 DEF Walking
<1>. QED
  BY <1>1, <1>2, <1>5 DEF LookupInv, OpenResolves, ListsTheDirectory

LEMMA NoClusterStep ==
  ASSUME LookupInv, NoCluster
  PROVE  LookupInv'
<1>1. /\ call = "walk" /\ node # NULL /\ rest # <<>> /\ node.cluster < RootDir
      /\ node' = NULL
      /\ UNCHANGED <<volume, call, path, rest, ent, i, lfn_list, failed, listing>>
  BY DEF NoCluster, Ready
<1>2. Walking /\ Rooted
  BY <1>1 DEF LookupInv, VolumeInv
<1>3. ~failed => ThroughFile
  <2>1. SUFFICES ASSUME ~failed, ~ThroughFile PROVE FALSE
    OBVIOUS
  <2>2. node.cluster \in DirClusters
    BY <1>1, <1>2, <2>1, OnTheWay, DirectoryClusters
  <2>. QED
    BY <1>1, <2>2, SizesAssumption DEF DirClusters, RootDir
<1>. HIDE DEF Reference, ThroughFile, Resolved
<1>4. IsSequence(lfn_list') /\ Len(lfn_list') <= MAX_LFN /\ i' \in 0 .. ENTRIES /\ failed' \in BOOLEAN
  BY <1>1 DEF LookupInv, LookupTypeOK, BothSequences
<1>. QED
  BY <1>1, <1>3, <1>4, LostStep

LEMMA FailsStep ==
  ASSUME LookupInv, LookupFails
  PROVE  LookupInv'
<1>1. /\ call = "walk" /\ node # NULL /\ rest # <<>>
      /\ node' = NULL /\ failed' = TRUE
      /\ UNCHANGED <<volume, call, path, rest, ent, i, lfn_list, listing>>
  BY DEF LookupFails, Ready
<1>2. IsSequence(lfn_list') /\ Len(lfn_list') <= MAX_LFN /\ i' \in 0 .. ENTRIES
  BY <1>1 DEF LookupInv, LookupTypeOK, BothSequences
<1>. HIDE DEF Reference, ThroughFile, Resolved
<1>. QED
  BY <1>1, <1>2, LostStep

LEMMA ReadStep ==
  ASSUME LookupInv, Read
  PROVE  LookupInv'
<1>1. /\ call = "walk" /\ node # NULL /\ rest # <<>>
      /\ ent' \in Contents(node.cluster) /\ i' = 0 /\ lfn_list' = <<>> /\ call' = "search"
      /\ UNCHANGED <<volume, path, rest, node, failed, listing>>
  BY DEF Read, Ready
<1>2. Walking /\ VolumeInv' /\ tree' = tree /\ Directories' = Directories
  BY <1>1, VolumeStays DEF LookupInv, volume
<1>3. Walking'
  BY <1>1, <1>2, WalkingStays
<1>4. LookupTypeOK' /\ BothSequences'
  <2>1. Len(lfn_list') = 0 /\ IsSequence(lfn_list')
    BY <1>1, EmptyIsSequence
  <2>. QED
    BY <1>1, <1>2, <2>1, SizesAssumption DEF LookupInv, LookupTypeOK, VolumeInv, listing, BothSequences
<1>5. Searching'
  <2>1. node \in Nodes /\ ~failed
    BY <1>1, <1>2 DEF LookupInv, LookupTypeOK, Walking
  <2>2. Contents(node.cluster)' = Contents(node.cluster)
    BY <1>1, <1>2 DEF Contents, volume
  <2>3. Collected(ent', 0, <<>>)
    BY CollectsNothing
  <2>4. Passed(ent', HereIn(tree', node'.cluster), 0, Head(rest'))
    BY DEF Passed
  <2>. QED
    BY <1>1, <2>1, <2>2, <2>3, <2>4 DEF Searching
<1>. QED
  BY <1>1, <1>2, <1>3, <1>4, <1>5 DEF LookupInv, OpenResolves, ListsTheDirectory

(***************************************************************************)
(* The search of a directory                                               *)
(***************************************************************************)
\* On to the next entry.
LEMMA OnwardStep ==
  ASSUME LookupInv, call = "search", i < ENTRIES, i' = i + 1,
         UNCHANGED <<volume, call, path, rest, node, ent, failed, listing>>,
         IsSequence(lfn_list'), Len(lfn_list') <= MAX_LFN,
         node.cluster \in Directories =>
           /\ Collected(ent, i + 1, lfn_list')
           /\ \A t \in HereIn(tree, node.cluster) : Lies(ent, t, i) => t.name # Head(rest)
  PROVE  LookupInv'
<1>1. Walking /\ Searching /\ VolumeInv' /\ tree' = tree /\ Directories' = Directories
  BY VolumeStays DEF LookupInv, volume
<1>2. Walking'
  BY <1>1, WalkingStays
<1>3. i' \in 0 .. ENTRIES /\ i \in Nat
  BY SizesAssumption DEF LookupInv, LookupTypeOK
<1>4. LookupTypeOK' /\ BothSequences'
  BY <1>1, <1>3 DEF LookupInv, LookupTypeOK, VolumeInv, listing, BothSequences
<1>5. Searching'
  <2>1. Contents(node.cluster)' = Contents(node.cluster)
    BY <1>1 DEF Contents, volume
  <2>2. ASSUME node.cluster \in Directories
        PROVE  Passed(ent', HereIn(tree', node'.cluster), i', Head(rest'))
    <3>1. PICK k \in Nat : k = i
      BY <1>3
    <3>2. Passed(ent, HereIn(tree, node.cluster), k, Head(rest))
      BY <1>1, <2>2, <3>1 DEF Searching
    <3>3. \A p \in 0 .. k + 1 - 1 : p \in 0 .. k - 1 \/ p = k
      BY <3>1
    <3>4. Passed(ent, HereIn(tree, node.cluster), k + 1, Head(rest))
      BY <2>2, <3>1, <3>2, <3>3 DEF Passed
    <3>. QED
      BY <1>1, <3>1, <3>4
  <2>3. node \in Nodes /\ rest # <<>> /\ ~failed /\ ent \in Contents(node.cluster)
    BY <1>1 DEF Searching
  <2>. HIDE DEF Contents
  <2>. QED
    BY <1>1, <2>1, <2>2, <2>3 DEF Searching
<1>. QED
  BY <1>1, <1>2, <1>4, <1>5 DEF LookupInv, OpenResolves, ListsTheDirectory

\* A file ends in a short entry.
LEMMA EndsShort ==
  ASSUME NEW e, NEW t, t.name \in Names, NEW p, Lies(e, t, p)
  PROVE  e[p] = Part(t, 0) /\ e[p].kind = "short" /\ e[p].node = t.node /\ p \in Index
<1>1. Span(t) \in Nat /\ 0 <= Span(t) - 1 /\ 0 \in Nat /\ p - 0 = p
  BY SpanRange, SizesAssumption DEF Lies, Index
<1>2. e[p] = Part(t, 0)
  BY <1>1, PartAt
<1>. QED
  BY <1>2, PartKinds DEF Lies

\* What holds of a search in a directory at an entry of it.
LEMMA AtEntry ==
  ASSUME LookupInv, call = "search", i < ENTRIES
  PROVE  /\ Walking /\ Searching /\ IsSequence(lfn_list) /\ Len(lfn_list) <= MAX_LFN
         /\ i \in Index /\ i \in Nat
         /\ node.cluster \in Directories =>
              /\ Filed(HereIn(tree, node.cluster)) /\ Written(ent, HereIn(tree, node.cluster))
              /\ Collected(ent, i, lfn_list)
<1>1. /\ Walking /\ Searching /\ IsSequence(lfn_list) /\ Len(lfn_list) <= MAX_LFN
      /\ VolumeInv /\ i \in 0 .. ENTRIES
  BY DEF LookupInv, LookupTypeOK, BothSequences
<1>2. i \in Index /\ i \in Nat
  BY <1>1, SizesAssumption DEF Index
<1>. QED
  BY <1>1, <1>2, EntIsWritten DEF Searching

LEMMA NamesOfHere ==
  ASSUME NEW here, Filed(here)
  PROVE  \A t \in here : t.name \in Names /\ t.node \in Nodes
BY DEF Filed

LEMMA SkipStep ==
  ASSUME LookupInv, SkipDeleted
  PROVE  LookupInv'
<1>1. /\ call = "search" /\ i < ENTRIES /\ ent[i].kind = "deleted" /\ i' = i + 1
      /\ UNCHANGED <<volume, call, path, rest, node, ent, lfn_list, failed, listing>>
  BY DEF SkipDeleted, At, Advance
<1>2. IsSequence(lfn_list') /\ Len(lfn_list') <= MAX_LFN
  BY <1>1, AtEntry
<1>3. ASSUME node.cluster \in Directories
      PROVE  /\ Collected(ent, i + 1, lfn_list')
             /\ \A t \in HereIn(tree, node.cluster) : Lies(ent, t, i) => t.name # Head(rest)
  <2>1. PICK k \in Index : k = i /\ k \in Nat
    BY <1>1, AtEntry
  <2>2. PICK here : here = HereIn(tree, node.cluster)
    OBVIOUS
  <2>3. /\ Filed(here) /\ Written(ent, here) /\ Collected(ent, k, lfn_list)
        /\ IsSequence(lfn_list)
    BY <1>1, <1>3, <2>1, <2>2, AtEntry
  <2>4. k > 0 => ent[k - 1].kind # "long"
    BY <1>1, <2>1, <2>3, NotLongBeforeFree DEF Free
  <2>5. lfn_list = <<>>
    BY <2>1, <2>3, <2>4, CollectedNone
  <2>6. k + 1 \in Nat /\ k + 1 - 1 = k
    BY <2>1
  <2>7. Collected(ent, k + 1, <<>>)
    BY <1>1, <2>1, <2>6, CollectsNothing
  <2>8. \A t \in here : ~Lies(ent, t, k)
    BY <1>1, <2>1, <2>3, EndsShort, NamesOfHere
  <2>. QED
    BY <1>1, <2>1, <2>2, <2>5, <2>7, <2>8
<1>. QED
  BY <1>1, <1>2, <1>3, OnwardStep

LEMMA TakeStep ==
  ASSUME LookupInv, TakeLong
  PROVE  LookupInv'
<1>1. /\ call = "search" /\ i < ENTRIES /\ ent[i].kind = "long" /\ i' = i + 1
      /\ lfn_list' = IF Keeps(ent[i]) THEN Append(lfn_list, ent[i]) ELSE lfn_list
      /\ UNCHANGED <<volume, call, path, rest, node, ent, failed, listing>>
  BY DEF TakeLong, At, Advance
<1>2. IsSequence(lfn_list') /\ Len(lfn_list') <= MAX_LFN
  <2>1. IsSequence(lfn_list) /\ Len(lfn_list) <= MAX_LFN /\ Len(lfn_list) \in Nat
    BY <1>1, AtEntry, SeqLength
  <2>2. CASE Keeps(ent[i])
    <3>1. lfn_list' = Append(lfn_list, ent[i]) /\ Len(lfn_list) < MAX_LFN
      BY <1>1, <2>2 DEF Keeps
    <3>2. IsSequence(lfn_list') /\ Len(lfn_list') = Len(lfn_list) + 1
      BY <2>1, <3>1, Appended
    <3>. QED
      BY <2>1, <3>1, <3>2, SizesAssumption
  <2>3. CASE ~Keeps(ent[i])
    BY <1>1, <2>1, <2>3
  <2>. QED
    BY <2>2, <2>3
<1>3. ASSUME node.cluster \in Directories
      PROVE  /\ Collected(ent, i + 1, lfn_list')
             /\ \A t \in HereIn(tree, node.cluster) : Lies(ent, t, i) => t.name # Head(rest)
  <2>1. PICK k \in Index : k = i /\ k \in Nat
    BY <1>1, AtEntry
  <2>2. PICK here : here = HereIn(tree, node.cluster)
    OBVIOUS
  <2>3. /\ Filed(here) /\ Written(ent, here) /\ Collected(ent, k, lfn_list)
        /\ IsSequence(lfn_list)
    BY <1>1, <1>3, <2>1, <2>2, AtEntry
  <2>4. ent[k].seq \in 1 .. MAX_LFN /\ Len(lfn_list) < MAX_LFN
    BY <1>1, <2>1, <2>3, CollectedHasRoom
  <2>5. Keeps(ent[i])
    <3>1. \A s \in 1 .. MAX_LFN : s \in 1 .. 20
      BY SizesAssumption
    <3>. QED
      BY <2>1, <2>4, <3>1 DEF Keeps
  <2>6. Collected(ent, k + 1, Append(lfn_list, ent[k]))
    BY <1>1, <2>1, <2>3, CollectsLong
  <2>7. \A t \in here : ~Lies(ent, t, k)
    BY <1>1, <2>1, <2>3, EndsShort, NamesOfHere
  <2>. QED
    BY <1>1, <2>1, <2>2, <2>5, <2>6, <2>7
<1>. QED
  BY <1>1, <1>2, <1>3, OnwardStep

\* At a file's last entry the candidate is its name.
LEMMA AtFile ==
  ASSUME LookupInv, call = "search", i < ENTRIES, node.cluster \in Directories,
         NEW t \in HereIn(tree, node.cluster), Lies(ent, t, i)
  PROVE  Candidate = t.name
<1>1. PICK here : here = HereIn(tree, node.cluster)
  OBVIOUS
<1>2. PICK k \in Index : k = i
  BY AtEntry
<1>3. /\ Filed(here) /\ Written(ent, here) /\ Collected(ent, k, lfn_list)
      /\ IsSequence(lfn_list) /\ t \in here /\ t.name \in Names /\ Lies(ent, t, k)
  BY <1>1, <1>2, AtEntry DEF Filed
<1>4. /\ Len(lfn_list) = Span(t) - 1
      /\ \A j \in 1 .. Len(lfn_list) : lfn_list[j] = Part(t, Span(t) - j)
  BY <1>3, CollectedWhole
<1>5. ent[i] = Part(t, 0)
  BY <1>2, <1>3, EndsShort
<1>. QED
  BY <1>3, <1>4, <1>5, CandidateIsTheName

LEMMA NextEntryStep ==
  ASSUME LookupInv, NextEntry
  PROVE  LookupInv'
<1>1. /\ call = "search" /\ i < ENTRIES /\ ent[i].kind = "short" /\ i' = i + 1
      /\ Candidate # Head(rest) /\ lfn_list' = <<>>
      /\ UNCHANGED <<volume, call, path, rest, node, ent, failed, listing>>
  BY DEF NextEntry, Matches, At, Advance
<1>2. IsSequence(lfn_list') /\ Len(lfn_list') <= MAX_LFN
  BY <1>1, EmptyIsSequence, SeqLength, SizesAssumption
<1>3. ASSUME node.cluster \in Directories
      PROVE  /\ Collected(ent, i + 1, lfn_list')
             /\ \A t \in HereIn(tree, node.cluster) : Lies(ent, t, i) => t.name # Head(rest)
  <2>1. PICK k \in Nat : k = i
    BY <1>1, AtEntry
  <2>2. k + 1 \in Nat /\ k + 1 - 1 = k
    OBVIOUS
  <2>3. Collected(ent, k + 1, <<>>)
    BY <1>1, <2>1, <2>2, CollectsNothing
  <2>4. \A t \in HereIn(tree, node.cluster) : Lies(ent, t, i) => t.name # Head(rest)
    BY <1>1, <1>3, AtFile
  <2>. QED
    BY <1>1, <2>1, <2>3, <2>4
<1>. QED
  BY <1>1, <1>2, <1>3, OnwardStep

LEMMA NotFoundStep ==
  ASSUME LookupInv, NotFound
  PROVE  LookupInv'
<1>1. /\ call = "search" /\ (i < ENTRIES => ent[i].kind = "end")
      /\ node' = NULL /\ call' = "walk" /\ ent' = Empty /\ i' = 0 /\ lfn_list' = <<>>
      /\ UNCHANGED <<volume, path, rest, failed, listing>>
  BY DEF NotFound, LookupReturns
<1>2. Walking /\ Searching /\ VolumeInv /\ i \in 0 .. ENTRIES
  BY <1>1 DEF LookupInv, LookupTypeOK
<1>3. IsSequence(lfn_list') /\ Len(lfn_list') <= MAX_LFN /\ i' \in 0 .. ENTRIES /\ failed' \in BOOLEAN
  BY <1>1, EmptyIsSequence, SeqLength, SizesAssumption DEF LookupInv, LookupTypeOK
<1>. HIDE DEF Reference, ThroughFile, Resolved
<1>4. ASSUME ~ThroughFile
      PROVE  Reference[Resolved + 1] = NULL
  <2>1. /\ node.cluster \in Directories
        /\ Reference[Resolved + 1] = Child(node, Head(rest))
    BY <1>2, <1>4, OnTheWay, NullAssumption DEF Searching, VolumeInv
  <2>2. PICK here : here = HereIn(tree, node.cluster)
    OBVIOUS
  <2>3. PICK k \in Nat : k = i /\ k <= ENTRIES
    BY <1>2
  <2>4. Filed(here) /\ Written(ent, here) /\ Passed(ent, here, k, Head(rest))
    BY <1>2, <2>1, <2>2, <2>3, EntIsWritten DEF Searching
  <2>5. ASSUME NEW t \in here, t.name = Head(rest)
        PROVE  FALSE
    <3>1. PICK p \in Index : Lies(ent, t, p)
      BY <2>4 DEF Written, Holds
    <3>2. p \notin 0 .. k - 1
      BY <2>4, <2>5, <3>1 DEF Passed
    <3>3. k \in Index /\ (k < p \/ k = p)
      BY <2>3, <3>2, SizesAssumption DEF Index
    <3>4. ent[k].kind = "end"
      BY <1>1, <2>3, <3>3, SizesAssumption DEF Index
    <3>5. ent[p].kind = "end"
      BY <2>4, <3>3, <3>4 DEF Written, EndsLast
    <3>. QED
      BY <2>4, <3>1, <3>5, EndsShort DEF Filed
  <2>6. \A t \in tree : ~(t.dir = node.cluster /\ t.name = Head(rest))
    BY <2>2, <2>5 DEF HereIn
  <2>. QED
    BY <2>1, <2>6, ChildNone
<1>5. rest # <<>>
  BY <1>2 DEF Searching
<1>. QED
  BY <1>1, <1>3, <1>4, <1>5, LostStep

LEMMA FoundStep ==
  ASSUME LookupInv, Found
  PROVE  LookupInv'
<1>1. /\ call = "search" /\ i < ENTRIES /\ ent[i].kind = "short"
      /\ Candidate = Head(rest) /\ node' = ent[i].node /\ rest' = Tail(rest)
      /\ call' = "walk" /\ ent' = Empty /\ i' = 0 /\ lfn_list' = <<>>
      /\ UNCHANGED <<volume, path, failed, listing>>
  BY DEF Found, Matches, At, LookupReturns
<1>2. /\ Walking /\ Searching /\ VolumeInv /\ VolumeInv' /\ tree' = tree
      /\ Directories' = Directories
  BY <1>1, VolumeStays DEF LookupInv, volume
<1>3. PICK k \in Index : k = i /\ k \in Nat
  BY <1>1, AtEntry
<1>4. ASSUME node.cluster \in Directories
      PROVE  \E t \in tree : t.dir = node.cluster /\ t.name = Head(rest) /\ ent[i].node = t.node
                             /\ t.node \in Nodes
  <2>1. PICK here : here = HereIn(tree, node.cluster)
    OBVIOUS
  <2>2. Filed(here) /\ Written(ent, here)
    BY <1>1, <1>4, <2>1, AtEntry
  <2>3. PICK t \in here : Lies(ent, t, k)
    BY <1>1, <1>3, <2>2, ShortOwner
  <2>4. Candidate = t.name
    BY <1>1, <1>3, <1>4, <2>1, <2>3, AtFile
  <2>5. ent[k].node = t.node /\ t.node \in Nodes
    BY <2>2, <2>3, EndsShort, NamesOfHere
  <2>. QED
    BY <1>1, <1>3, <2>1, <2>3, <2>4, <2>5 DEF HereIn
<1>5. node' \in Nodes
  <2>1. CASE node.cluster \in Directories
    BY <1>1, <1>4, <2>1
  <2>2. CASE node.cluster \notin Directories
    <3>1. ent \in FileData
      BY <1>2, <2>2 DEF Searching, Contents
    <3>. QED
      BY <1>1, <1>3, <3>1, FileDataAssumption
  <2>. QED
    BY <2>1, <2>2
<1>6. LookupTypeOK' /\ BothSequences'
  <2>1. IsSequence(lfn_list') /\ Len(lfn_list') = 0 /\ i' \in 0 .. ENTRIES
    BY <1>1, EmptyIsSequence, SizesAssumption
  <2>. QED
    BY <1>1, <1>2, <1>5, <2>1, SizesAssumption DEF LookupInv, LookupTypeOK, VolumeInv, listing, BothSequences
<1>. HIDE DEF Reference, ThroughFile
<1>7. Reference' = Reference /\ (ThroughFile <=> ThroughFile')
  BY <1>1, <1>2, PathStays
<1>8. PICK l \in Nat, m \in Nat : l = Len(path) /\ m = Len(rest) /\ m >= 1 /\ m <= l
  <2>1. Len(path) \in Nat /\ Len(rest) \in Nat /\ Len(rest) >= 1
    BY <1>2, SeqLength, Tailed DEF Walking, Searching
  <2>2. Len(rest) <= Len(path)
    BY <1>2, <2>1 DEF Walking, Resolved
  <2>. QED
    BY <2>1, <2>2
<1>9. /\ IsSequence(rest') /\ Len(rest') = m - 1
      /\ \A j \in 1 .. m - 1 : rest'[j] = rest[j + 1]
  BY <1>1, <1>2, <1>8, Tailed DEF Walking, Searching
<1>10. Resolved = l - m /\ Resolved' = l - m + 1
  <2>1. Len(path') = l /\ l - (m - 1) = l - m + 1
    BY <1>1, <1>8
  <2>2. Resolved' = Len(path') - Len(rest')
    BY DEF Resolved
  <2>3. Resolved = Len(path) - Len(rest)
    BY DEF Resolved
  <2>. QED
    BY <1>8, <1>9, <2>1, <2>2, <2>3
<1>11. ASSUME NEW j \in 1 .. m - 1
       PROVE  rest'[j] = path[l - m + 1 + j]
  <2>1. j + 1 \in 1 .. m /\ l - m + (j + 1) = l - m + 1 + j
    BY <1>8
  <2>2. rest[j + 1] = path[l - m + (j + 1)]
    BY <1>2, <1>8, <1>10, <2>1 DEF Walking
  <2>. QED
    BY <1>9, <2>1, <2>2
<1>12. ASSUME ~ThroughFile
       PROVE  node' = Reference[l - m + 1] /\ node' # NULL
  <2>1. /\ node.cluster \in Directories
        /\ Reference[Resolved + 1] = Child(node, Head(rest)) /\ node # NULL
    BY <1>2, <1>12, OnTheWay, NullAssumption DEF Searching, VolumeInv
  <2>2. PICK t \in tree : t.dir = node.cluster /\ t.name = Head(rest) /\ node' = t.node
    BY <1>1, <1>4, <2>1
  <2>3. Child(node, Head(rest)) = t.node
    BY <1>2, <2>1, <2>2, ChildFound DEF VolumeInv
  <2>. QED
    BY <1>5, <1>10, <2>1, <2>2, <2>3, NullAssumption
<1>13. Walking'
  <2>. HIDE DEF Resolved
  <2>1. IsSequence(path') /\ path' # <<>> /\ IsSequence(rest')
    BY <1>1, <1>2, <1>9 DEF Walking
  <2>2. Resolved' \in 0 .. Len(path')
    BY <1>1, <1>8, <1>10
  <2>3. \A j \in 1 .. Len(rest') : rest'[j] = path'[Resolved' + j]
    BY <1>1, <1>9, <1>10, <1>11
  <2>4. ~failed /\ failed' = failed
    BY <1>1, <1>2 DEF Searching
  <2>5. ~ThroughFile' => node' = Reference'[Resolved'] /\ node' # NULL
    BY <1>7, <1>10, <1>12
  <2>. QED
    BY <2>1, <2>2, <2>3, <2>4, <2>5 DEF Walking
<1>. QED
  BY <1>1, <1>2, <1>6, <1>13 DEF LookupInv, OpenResolves, ListsTheDirectory

(***************************************************************************)
(* The listing of a directory                                              *)
(***************************************************************************)
LEMMA ListedNone ==
  ASSUME NEW list, NEW e, NEW here, NEW k \in Nat, ListedTo(list, e, here, k),
         \A t \in here : ~Lies(e, t, k)
  PROVE  ListedTo(list, e, here, k + 1)
<1>1. \A p \in 0 .. k + 1 - 1 : p \in 0 .. k - 1 \/ p = k
  OBVIOUS
<1>2. \A p \in 0 .. k - 1 : p \in 0 .. k + 1 - 1
  OBVIOUS
<1>3. Before(e, here, k + 1) = Before(e, here, k)
  BY <1>1, <1>2 DEF Before
<1>. QED
  BY <1>3 DEF ListedTo

LEMMA ListedOne ==
  ASSUME NEW e, NEW here, Filed(here), Written(e, here), NEW k \in Nat,
         NEW t \in here, Lies(e, t, k), NEW list, IsSequence(list), ListedTo(list, e, here, k)
  PROVE  ListedTo(Append(list, Line(t)), e, here, k + 1)
<1>. DEFINE more == Append(list, Line(t))
            before == Before(e, here, k)
            after  == Before(e, here, k + 1)
<1>1. PICK l \in Nat : l = Len(list)
  BY SeqLength
<1>2. Len(more) = l + 1 /\ (\A j \in 1 .. l : more[j] = list[j]) /\ more[l + 1] = Line(t)
  BY <1>1, Appended
<1>3. /\ {list[j] : j \in 1 .. l} = {Line(u) : u \in before}
      /\ \A j, m \in 1 .. l : list[j].node = list[m].node => j = m
  BY <1>1 DEF ListedTo
<1>4. after = before \cup {t}
  <2>1. \A p \in 0 .. k + 1 - 1 : p \in 0 .. k - 1 \/ p = k
    OBVIOUS
  <2>2. (\A p \in 0 .. k - 1 : p \in 0 .. k + 1 - 1) /\ k \in 0 .. k + 1 - 1
    OBVIOUS
  <2>3. \A u \in here : Lies(e, u, k) => u = t
    BY OneAtAPlace
  <2>. QED
    BY <2>1, <2>2, <2>3 DEF Before
<1>5. ASSUME NEW u \in before
      PROVE  u.node # t.node
  <2>1. PICK p \in 0 .. k - 1 : Lies(e, u, p)
    BY DEF Before
  <2>2. u = t => p = k
    BY <2>1, OnePlace
  <2>. QED
    BY <2>2 DEF Filed, Before
<1>6. \A u : Line(u).node = u.node
  BY DEF Line
<1>. HIDE DEF more, before, after
<1>7. {more[j] : j \in 1 .. l + 1} = {Line(u) : u \in after}
  <2>1. {more[j] : j \in 1 .. l + 1} = {list[j] : j \in 1 .. l} \cup {Line(t)}
    <3>1. \A j \in 1 .. l + 1 : j \in 1 .. l \/ j = l + 1
      OBVIOUS
    <3>2. \A j \in 1 .. l : j \in 1 .. l + 1
      OBVIOUS
    <3>. QED
      BY <1>2, <3>1, <3>2
  <2>. QED
    BY <1>3, <1>4, <2>1
<1>8. ASSUME NEW j \in 1 .. l
      PROVE  more[j].node # t.node
  <2>1. list[j] \in {Line(u) : u \in before}
    BY <1>3
  <2>2. PICK u \in before : list[j] = Line(u)
    BY <2>1
  <2>. QED
    BY <1>2, <1>5, <1>6, <2>2
<1>9. \A j, m \in 1 .. l + 1 : more[j].node = more[m].node => j = m
  <2>1. \A j \in 1 .. l + 1 : j \in 1 .. l \/ j = l + 1
    OBVIOUS
  <2>. QED
    BY <1>2, <1>3, <1>6, <1>8, <2>1
<1>10. ListedTo(more, e, here, k + 1)
  BY <1>2, <1>7, <1>9 DEF ListedTo, after
<1>. QED
  BY <1>10 DEF more

\* A fragment that a NUL follows is shown alone.
LEMMA FirstFragment ==
  ASSUME NEW buf, buf[1] # NUL, buf[2] = NUL
  PROVE  AsString(buf) = <<buf[1]>>
<1>. DEFINE lengths == {n \in 0 .. MAX_LFN : \A s \in 1 .. n : buf[s] # NUL}
            length  == CHOOSE n \in lengths : \A m \in lengths : m <= n
<1>1. 1 \in lengths /\ \A n \in lengths : n <= 1
  <2>1. 1 \in 0 .. MAX_LFN /\ \A s \in 1 .. 1 : s = 1
    BY SizesAssumption
  <2>2. \A n \in 0 .. MAX_LFN : n > 1 => 2 \in 1 .. n
    BY SizesAssumption
  <2>3. \A n \in 0 .. MAX_LFN : n > 1 \/ n <= 1
    BY SizesAssumption
  <2>. QED
    BY <2>1, <2>2, <2>3
<1>2. length = 1
  <2>. HIDE DEF lengths
  <2>1. \E n \in lengths : \A m \in lengths : m <= n
    BY <1>1
  <2>2. length \in lengths /\ \A m \in lengths : m <= length
    BY <2>1, Zenon
  <2>3. lengths \subseteq Nat
    BY SizesAssumption DEF lengths
  <2>. HIDE DEF length
  <2>. QED
    BY <1>1, <2>2, <2>3
<1>3. AsString(buf) = [s \in 1 .. length |-> buf[s]]
  BY DEF AsString
<1>. HIDE DEF length
<1>4. [s \in 1 .. 1 |-> buf[s]] = <<buf[1]>>
  OBVIOUS
<1>. QED
  BY <1>2, <1>3, <1>4

LEMMA BufferedFragment ==
  ASSUME NEW buf, NEW e, NEW k \in Nat, e[k].kind = "long", DOMAIN buf = Slots, buf[0] = NUL,
         buf[e[k].seq] = e[k].frag, buf[e[k].seq + 1] = NUL
  PROVE  Buffered(buf, TRUE, e, k + 1)
<1>1. k + 1 - 1 = k /\ k + 1 > 0
  OBVIOUS
<1>2. Fragment(e, k + 1) = TRUE
  BY <1>1 DEF Fragment
<1>. QED
  BY <1>1, <1>2 DEF Buffered

\* On to the next entry.
LEMMA ListOnStep ==
  ASSUME LookupInv, call = "list", i < ENTRIES, i' = i + 1,
         UNCHANGED <<volume, call, path, rest, node, ent, lfn_list, failed>>,
         IsSequence(listed'), lfn_active' \in BOOLEAN,
         ~failed /\ node.cluster \in Directories =>
           /\ Buffered(lfn_buf', lfn_active', ent, i + 1)
           /\ ListedTo(listed', ent, HereIn(tree, node.cluster), i + 1)
  PROVE  LookupInv'
<1>1. Listing /\ VolumeInv' /\ tree' = tree /\ Directories' = Directories
  BY VolumeStays DEF LookupInv, volume
<1>2. i' \in 0 .. ENTRIES
  BY SizesAssumption DEF LookupInv, LookupTypeOK
<1>3. ~failed /\ node.cluster \in Directories => lfn_buf'[0] = NUL
  BY DEF Buffered
<1>4. LookupTypeOK' /\ BothSequences'
  BY <1>1, <1>2, <1>3 DEF LookupInv, LookupTypeOK, VolumeInv, BothSequences
<1>5. Listing'
  <2>1. Contents(node.cluster)' = Contents(node.cluster)
    BY <1>1 DEF Contents, volume
  <2>. HIDE DEF Contents
  <2>. QED
    BY <1>1, <2>1 DEF Listing
<1>. QED
  BY <1>1, <1>4, <1>5 DEF LookupInv, OpenResolves, ListsTheDirectory

LEMMA AtListed ==
  ASSUME LookupInv, call = "list", ~failed, node.cluster \in Directories, i < ENTRIES
  PROVE  /\ Filed(HereIn(tree, node.cluster)) /\ Written(ent, HereIn(tree, node.cluster))
         /\ Buffered(lfn_buf, lfn_active, ent, i)
         /\ ListedTo(listed, ent, HereIn(tree, node.cluster), i)
         /\ i \in Index /\ i \in Nat
<1>1. Listing /\ VolumeInv /\ i \in 0 .. ENTRIES
  BY DEF LookupInv, LookupTypeOK
<1>2. i \in Index /\ i \in Nat
  BY <1>1, SizesAssumption DEF Index
<1>. QED
  BY <1>1, <1>2, EntIsWritten DEF Listing

LEMMA ListStarts ==
  ASSUME LookupInv, NEW c \in 0 .. LAST_CLUSTER, ReadDirectory(c)
  PROVE  LookupInv'
<1>1. /\ node' = Node(c, "dir") /\ path' = <<>> /\ i' = 0 /\ lfn_buf' = Blank
      /\ lfn_active' = FALSE /\ listed' = <<>> /\ call' = "list"
      /\ UNCHANGED <<volume, rest, lfn_list>>
      /\ failed' \in BOOLEAN /\ (~failed' => ent' \in Contents(c))
  BY DEF ReadDirectory, Asks
<1>2. VolumeInv' /\ tree' = tree /\ Directories' = Directories
  BY <1>1, VolumeStays DEF LookupInv, volume
<1>3. node' \in Nodes /\ node'.cluster = c
  BY <1>1, SizesAssumption DEF Node, Nodes, DirClusters, RootDir
<1>4. lfn_buf'[0] = NUL /\ DOMAIN lfn_buf' = Slots
  BY <1>1, SizesAssumption DEF Blank, Slots
<1>5. LookupTypeOK' /\ BothSequences'
  <2>1. /\ DOMAIN dirs' = DirClusters /\ call' = "list" /\ node' \in Nodes /\ i' \in 0 .. ENTRIES
        /\ lfn_buf'[0] = NUL /\ lfn_active' \in BOOLEAN /\ failed' \in BOOLEAN
    <3>1. 0 \in 0 .. ENTRIES
      BY SizesAssumption
    <3>2. DOMAIN dirs' = DirClusters
      BY <1>2 DEF VolumeInv
    <3>. QED
      BY <1>1, <1>3, <1>4, <3>1, <3>2
  <2>2. Len(lfn_list') <= MAX_LFN /\ IsSequence(lfn_list') /\ IsSequence(listed')
    BY <1>1, EmptyIsSequence DEF LookupInv, LookupTypeOK, BothSequences
  <2>. QED
    BY <2>1, <2>2 DEF LookupTypeOK, BothSequences
<1>6. Listing'
  <2>1. Contents(c)' = Contents(c)
    BY <1>1, <1>2 DEF Contents, volume
  <2>2. ent' \in Contents(c) => ent' \in Contents(node.cluster)'
    BY <1>1, <1>2, <1>3 DEF Contents, volume
  <2>3. Buffered(lfn_buf', lfn_active', ent', i')
    <3>1. Fragment(ent', 0) = FALSE
      BY DEF Fragment
    <3>. QED
      BY <1>1, <1>4, <3>1 DEF Buffered
  <2>4. ListedTo(listed', ent', HereIn(tree', node'.cluster), i')
    <3>1. ListedTo(<<>>, ent', HereIn(tree', node'.cluster), 0)
      <4>1. Len(<<>>) = 0 /\ \A j : j \notin 1 .. 0
        OBVIOUS
      <4>2. Before(ent', HereIn(tree', node'.cluster), 0) = {}
        BY DEF Before
      <4>. QED
        BY <4>1, <4>2 DEF ListedTo
    <3>. QED
      BY <1>1, <3>1
  <2>. HIDE DEF Contents
  <2>. QED
    BY <1>1, <1>3, <2>2, <2>3, <2>4 DEF Listing
<1>. QED
  BY <1>1, <1>2, <1>5, <1>6 DEF LookupInv, OpenResolves, ListsTheDirectory

\* A listing that is refused, or is not the directory's any more, or resets the
\* machine, promises nothing.
LEMMA RefusedStep ==
  ASSUME LookupInv, NEW c \in 0 .. LAST_CLUSTER, ReadDirectoryRefused(c)
  PROVE  LookupInv'
<1>1. /\ node' = Node(c, "dir") /\ path' = <<>> /\ i' = 0
      /\ lfn_active' = FALSE /\ listed' = <<>> /\ call = "ready" /\ call' = "ready"
      /\ UNCHANGED <<volume, rest, lfn_list>> /\ failed' = TRUE
  BY DEF ReadDirectoryRefused, Asks
<1>2. VolumeInv' /\ tree' = tree /\ Directories' = Directories
  BY <1>1, VolumeStays DEF LookupInv, volume
<1>3. node' \in Nodes
  BY <1>1, SizesAssumption DEF Node, Nodes, RootDir
<1>4. 0 \in 0 .. ENTRIES /\ DOMAIN dirs' = DirClusters
  BY <1>2, SizesAssumption DEF VolumeInv
<1>5. LookupTypeOK' /\ BothSequences'
  BY <1>1, <1>3, <1>4, EmptyIsSequence DEF LookupInv, LookupTypeOK, BothSequences
<1>. QED
  BY <1>1, <1>2, <1>5 DEF LookupInv, OpenResolves, ListsTheDirectory

LEMMA LeavesPageStep ==
  ASSUME LookupInv, LeavesPage
  PROVE  LookupInv'
<1>1. /\ call = "list" /\ failed' = TRUE
      /\ UNCHANGED <<volume, call, path, rest, node, i, lfn_list, listing>>
  BY DEF LeavesPage
<1>2. Listing /\ VolumeInv' /\ tree' = tree /\ Directories' = Directories
  BY <1>1, VolumeStays DEF LookupInv, volume
<1>3. DOMAIN dirs' = DirClusters
  BY <1>2 DEF VolumeInv
<1>4. LookupTypeOK' /\ BothSequences'
  BY <1>1, <1>3 DEF LookupInv, LookupTypeOK, BothSequences, listing
<1>5. Listing'
  BY <1>1, <1>2 DEF Listing
<1>. QED
  BY <1>1, <1>2, <1>4, <1>5 DEF LookupInv, OpenResolves, ListsTheDirectory

LEMMA PageFaultStep ==
  ASSUME LookupInv, PageFault
  PROVE  LookupInv'
<1>1. /\ call' = "ready" /\ path' = <<>> /\ node' = NULL /\ i' = 0 /\ lfn_list' = <<>>
      /\ lfn_active' = FALSE /\ listed' = <<>> /\ failed' = FALSE /\ UNCHANGED volume
  BY DEF PageFault
<1>2. VolumeInv' /\ tree' = tree /\ Directories' = Directories
  BY <1>1, VolumeStays DEF LookupInv, volume
<1>3. 0 \in 0 .. ENTRIES /\ DOMAIN dirs' = DirClusters /\ 0 <= MAX_LFN
  BY <1>2, SizesAssumption DEF VolumeInv
<1>4. Len(lfn_list') = 0 /\ IsSequence(lfn_list') /\ IsSequence(listed')
  BY <1>1, EmptyIsSequence
<1>5. LookupTypeOK' /\ BothSequences'
  BY <1>1, <1>3, <1>4 DEF LookupTypeOK, BothSequences
<1>. QED
  BY <1>1, <1>2, <1>5 DEF LookupInv, OpenResolves, ListsTheDirectory

\* Behind an entry that is no fragment no long name is being put together.
LEMMA NoFragment ==
  ASSUME NEW e, NEW m, m > 0 => e[m - 1].kind # "long"
  PROVE  Fragment(e, m) = FALSE
BY DEF Fragment

LEMMA ListDeletedStep ==
  ASSUME LookupInv, ListDeleted
  PROVE  LookupInv'
<1>1. /\ call = "list" /\ i < ENTRIES /\ ent[i].kind = "deleted" /\ i' = i + 1
      /\ UNCHANGED <<volume, call, path, rest, node, ent, lfn_list, failed, listing>>
  BY DEF ListDeleted, Lists, Advance
<1>2. lfn_buf' = lfn_buf /\ lfn_active' = lfn_active /\ listed' = listed
  BY <1>1 DEF listing
<1>3. IsSequence(listed') /\ lfn_active' \in BOOLEAN
  BY <1>2 DEF LookupInv, LookupTypeOK, BothSequences
<1>4. ASSUME ~failed, node.cluster \in Directories
      PROVE  /\ Buffered(lfn_buf', lfn_active', ent, i + 1)
             /\ ListedTo(listed', ent, HereIn(tree, node.cluster), i + 1)
  <2>1. PICK k \in Index : k = i /\ k \in Nat
    BY <1>1, <1>4, AtListed
  <2>2. PICK here : here = HereIn(tree, node.cluster)
    OBVIOUS
  <2>3. /\ Filed(here) /\ Written(ent, here) /\ Buffered(lfn_buf, lfn_active, ent, k)
        /\ ListedTo(listed, ent, here, k)
    BY <1>1, <1>4, <2>1, <2>2, AtListed
  <2>4. k > 0 => ent[k - 1].kind # "long"
    BY <1>1, <2>1, <2>3, NotLongBeforeFree DEF Free
  <2>5. Fragment(ent, k) = FALSE /\ Fragment(ent, k + 1) = FALSE
    <3>1. k + 1 - 1 = k
      BY <2>1
    <3>2. PICK m : m = k + 1
      OBVIOUS
    <3>3. m - 1 = k /\ ent[m - 1].kind # "long"
      BY <1>1, <2>1, <3>1, <3>2
    <3>4. Fragment(ent, m) = FALSE
      BY <3>3, NoFragment
    <3>5. Fragment(ent, k) = FALSE
      BY <2>4, NoFragment
    <3>. QED
      BY <3>2, <3>4, <3>5
  <2>6. Buffered(lfn_buf, lfn_active, ent, k + 1)
    BY <2>3, <2>5 DEF Buffered
  <2>7. \A t \in here : ~Lies(ent, t, k)
    BY <1>1, <2>1, <2>3, EndsShort, NamesOfHere
  <2>8. ListedTo(listed, ent, here, k + 1)
    BY <2>1, <2>3, <2>7, ListedNone
  <2>. QED
    BY <1>2, <2>1, <2>2, <2>6, <2>8
<1>. QED
  BY <1>1, <1>3, <1>4, ListOnStep

LEMMA ListLongStep ==
  ASSUME LookupInv, ListLong
  PROVE  LookupInv'
<1>1. /\ call = "list" /\ i < ENTRIES /\ ent[i].kind = "long" /\ i' = i + 1
      /\ lfn_buf' = [lfn_buf EXCEPT ![ent[i].seq] = ent[i].frag, ![ent[i].seq + 1] = NUL]
      /\ lfn_active' = TRUE /\ listed' = listed
      /\ UNCHANGED <<volume, call, path, rest, node, ent, lfn_list, failed>>
  BY DEF ListLong, Lists, Advance
<1>2. IsSequence(listed') /\ lfn_active' \in BOOLEAN
  BY <1>1 DEF LookupInv, BothSequences
<1>3. ASSUME ~failed, node.cluster \in Directories
      PROVE  /\ Buffered(lfn_buf', lfn_active', ent, i + 1)
             /\ ListedTo(listed', ent, HereIn(tree, node.cluster), i + 1)
  <2>1. PICK k \in Index : k = i /\ k \in Nat
    BY <1>1, <1>3, AtListed
  <2>2. PICK here : here = HereIn(tree, node.cluster)
    OBVIOUS
  <2>3. /\ Filed(here) /\ Written(ent, here) /\ Buffered(lfn_buf, lfn_active, ent, k)
        /\ ListedTo(listed, ent, here, k)
    BY <1>1, <1>3, <2>1, <2>2, AtListed
  <2>4. PICK t \in here, p \in Index, s \in Nat :
          /\ Lies(ent, t, p) /\ k = p - s /\ s >= 1 /\ s <= Span(t) - 1
          /\ ent[k] = Part(t, s)
    BY <1>1, <2>1, <2>3, LongOwner
  <2>5. s \in Slots /\ s + 1 \in Slots /\ 0 \in Slots /\ s # 0 /\ s + 1 # s /\ s + 1 # 0
    <3>1. Span(t) \in Nat /\ Span(t) <= MAX_LFN + 1
      BY <2>3, <2>4, NamesOfHere, SpanRange
    <3>. QED
      BY <2>4, <3>1, SizesAssumption DEF Slots
  <2>6. ent[k].seq = s
    BY <2>4, PartKinds
  <2>7. lfn_buf' = [lfn_buf EXCEPT ![s] = ent[k].frag, ![s + 1] = NUL]
    BY <1>1, <2>1, <2>6
  <2>8. /\ DOMAIN lfn_buf' = Slots /\ lfn_buf'[0] = NUL
        /\ lfn_buf'[s] = ent[k].frag /\ lfn_buf'[s + 1] = NUL
    BY <2>3, <2>5, <2>7 DEF Buffered
  <2>9. Buffered(lfn_buf', TRUE, ent, k + 1)
    BY <1>1, <2>1, <2>6, <2>8, BufferedFragment
  <2>10. Buffered(lfn_buf', lfn_active', ent, k + 1)
    BY <1>1, <2>9
  <2>11. \A u \in here : ~Lies(ent, u, k)
    BY <1>1, <2>1, <2>3, EndsShort, NamesOfHere
  <2>12. ListedTo(listed, ent, here, k + 1)
    BY <2>1, <2>3, <2>11, ListedNone
  <2>. QED
    BY <1>1, <2>1, <2>2, <2>10, <2>12
<1>. QED
  BY <1>1, <1>2, <1>3, ListOnStep

LEMMA ListShortStep ==
  ASSUME LookupInv, ListShort
  PROVE  LookupInv'
<1>. DEFINE line == [name |-> IF lfn_active THEN AsString(lfn_buf) ELSE ent[i].name,
                     node |-> ent[i].node]
<1>1. /\ call = "list" /\ i < ENTRIES /\ ent[i].kind = "short" /\ i' = i + 1
      /\ listed' = Append(listed, line)
      /\ lfn_buf' = (IF lfn_active THEN [lfn_buf EXCEPT ![1] = NUL] ELSE lfn_buf)
      /\ lfn_active' = FALSE
      /\ UNCHANGED <<volume, call, path, rest, node, ent, lfn_list, failed>>
  BY DEF ListShort, Lists, Advance, AfterPrint
<1>2. IsSequence(listed') /\ lfn_active' \in BOOLEAN
  <2>. HIDE DEF line
  <2>. QED
    BY <1>1, Appended DEF LookupInv, BothSequences
<1>3. ASSUME ~failed, node.cluster \in Directories
      PROVE  /\ Buffered(lfn_buf', lfn_active', ent, i + 1)
             /\ ListedTo(listed', ent, HereIn(tree, node.cluster), i + 1)
  <2>1. PICK k \in Index : k = i /\ k \in Nat
    BY <1>1, <1>3, AtListed
  <2>2. PICK here : here = HereIn(tree, node.cluster)
    OBVIOUS
  <2>3. /\ Filed(here) /\ Written(ent, here) /\ Buffered(lfn_buf, lfn_active, ent, k)
        /\ ListedTo(listed, ent, here, k) /\ IsSequence(listed)
    BY <1>1, <1>3, <2>1, <2>2, AtListed DEF LookupInv, BothSequences
  <2>4. PICK t \in here : Lies(ent, t, k)
    BY <1>1, <2>1, <2>3, ShortOwner
  <2>5. t.name \in Names /\ ent[k] = Part(t, 0) /\ ent[k].node = t.node
    BY <2>3, <2>4, NamesOfHere, EndsShort
  <2>6. line = Line(t)
    <3>1. CASE t.name \in ShortNames
      <4>1. ~Fragment(ent, k)
        <5>1. Span(t) = 1
          BY <2>5, <3>1, SpanRange
        <5>2. k - Span(t) >= 0 => ent[k - 1].kind # "long"
          BY <2>3, <2>4, <5>1, NotLongBefore
        <5>. QED
          BY <2>1, <5>1, <5>2 DEF Fragment
      <4>2. lfn_active = FALSE
        BY <2>3, <4>1 DEF Buffered, Fragment
      <4>3. ent[k].name = t.name
        BY <2>5, <3>1 DEF Part, Short
      <4>. QED
        BY <2>1, <2>5, <3>1, <4>2, <4>3 DEF Line, Shown
    <3>2. CASE t.name \notin ShortNames
      <4>1. /\ t.name \in LongNames /\ Span(t) \in Nat /\ 1 <= Span(t) - 1 /\ Span(t) <= k + 1
        BY <2>4, <2>5, <3>2, SpanRange DEF Lies
      <4>2. ent[k - 1] = Part(t, 1) /\ k > 0
        BY <2>1, <2>4, <4>1, PartAt
      <4>3. ent[k - 1].kind = "long" /\ ent[k - 1].seq = 1 /\ ent[k - 1].frag = t.name[1]
        BY <4>2, PartKinds
      <4>4. Fragment(ent, k) = TRUE
        BY <4>2, <4>3 DEF Fragment
      <4>5. lfn_active = TRUE /\ lfn_buf[1] = t.name[1] /\ lfn_buf[1 + 1] = NUL
        BY <2>3, <4>3, <4>4 DEF Buffered
      <4>6. t.name[1] # NUL
        <5>1. Len(t.name) \in Nat /\ 1 <= Len(t.name)
          BY <2>5, <3>2, <4>1, SpanRange, NamesAssumption, SeqLength
        <5>2. 1 \in 1 .. Len(t.name)
          BY <5>1
        <5>. QED
          BY <4>1, <5>2, NamesAssumption
      <4>7. lfn_buf[2] = NUL
        BY <4>5
      <4>8. AsString(lfn_buf) = <<t.name[1]>>
        BY <4>5, <4>6, <4>7, FirstFragment
      <4>. QED
        BY <2>1, <2>5, <3>2, <4>5, <4>8 DEF Line, Shown
    <3>. QED
      BY <3>1, <3>2
  <2>. HIDE DEF line
  <2>7. ListedTo(listed', ent, here, k + 1)
    BY <1>1, <2>1, <2>3, <2>4, <2>6, ListedOne
  <2>8. Fragment(ent, k + 1) = FALSE
    <3>1. k + 1 - 1 = k
      BY <2>1
    <3>. QED
      BY <1>1, <2>1, <3>1 DEF Fragment
  <2>9. DOMAIN lfn_buf' = Slots /\ lfn_buf'[0] = NUL
    BY <1>1, <2>3 DEF Buffered
  <2>10. Buffered(lfn_buf', lfn_active', ent, k + 1)
    BY <1>1, <2>8, <2>9 DEF Buffered
  <2>. QED
    BY <2>1, <2>2, <2>7, <2>10
<1>. QED
  BY <1>1, <1>2, <1>3, ListOnStep

LEMMA ListEndsStep ==
  ASSUME LookupInv, ListEnds
  PROVE  LookupInv'
<1>1. /\ call = "list" /\ (~failed => (i < ENTRIES => ent[i].kind = "end")) /\ call' = "ready"
      /\ i' = 0 /\ lfn_active' = FALSE
      /\ UNCHANGED <<volume, path, rest, node, lfn_list, failed, listed>>
  BY DEF ListEnds
<1>2. Listing /\ VolumeInv /\ VolumeInv' /\ tree' = tree /\ Directories' = Directories
  BY <1>1, VolumeStays DEF LookupInv, volume
<1>3. LookupTypeOK' /\ BothSequences'
  <2>1. /\ DOMAIN dirs' = DirClusters /\ call' = "ready" /\ node' \in Nodes /\ i' \in 0 .. ENTRIES
        /\ lfn_active' \in BOOLEAN /\ failed' \in BOOLEAN
    <3>1. 0 \in 0 .. ENTRIES
      BY SizesAssumption
    <3>2. DOMAIN dirs' = DirClusters
      BY <1>2 DEF VolumeInv
    <3>3. node \in Nodes /\ failed \in BOOLEAN
      BY <1>2 DEF Listing, LookupInv, LookupTypeOK
    <3>. QED
      BY <1>1, <3>1, <3>2, <3>3
  <2>2. Len(lfn_list') <= MAX_LFN /\ IsSequence(lfn_list') /\ IsSequence(listed')
    BY <1>1 DEF LookupInv, LookupTypeOK, BothSequences
  <2>. QED
    BY <2>1, <2>2 DEF LookupTypeOK, BothSequences
<1>4. ListsTheDirectory'
  <2>1. SUFFICES ASSUME ~failed, node.cluster \in Directories
                 PROVE  LET here == HereIn(tree, node.cluster)
                        IN  /\ {listed[k] : k \in 1 .. Len(listed)}
                                 = {[name |-> Shown(t.name), node |-> t.node] : t \in here}
                            /\ \A j, k \in 1 .. Len(listed) : listed[j].node = listed[k].node => j = k
    BY <1>1, <1>2 DEF ListsTheDirectory, HereIn
  <2>2. PICK here : here = HereIn(tree, node.cluster)
    OBVIOUS
  <2>3. PICK k \in Nat : k = i /\ k <= ENTRIES
    BY SizesAssumption DEF LookupInv, LookupTypeOK
  <2>4. Filed(here) /\ Written(ent, here) /\ ListedTo(listed, ent, here, k)
    BY <1>2, <2>1, <2>2, <2>3, EntIsWritten DEF Listing
  <2>5. ASSUME NEW t \in here
        PROVE  \E p \in 0 .. k - 1 : Lies(ent, t, p)
    <3>1. PICK p \in Index : Lies(ent, t, p)
      BY <2>4 DEF Written, Holds
    <3>2. ASSUME p \notin 0 .. k - 1
          PROVE  FALSE
      <4>1. k \in Index /\ (k < p \/ k = p)
        BY <2>3, <3>2, SizesAssumption DEF Index
      <4>2. ent[k].kind = "end"
        BY <1>1, <2>1, <2>3, <4>1, SizesAssumption DEF Index
      <4>3. ent[p].kind = "end"
        BY <2>4, <4>1, <4>2 DEF Written, EndsLast
      <4>. QED
        BY <2>4, <3>1, <4>3, EndsShort DEF Filed
    <3>. QED
      BY <3>1, <3>2
  <2>6. Before(ent, here, k) = here
    BY <2>5 DEF Before
  <2>7. /\ {listed[j] : j \in 1 .. Len(listed)} = {Line(t) : t \in here}
        /\ \A j, l \in 1 .. Len(listed) : listed[j].node = listed[l].node => j = l
    BY <2>4, <2>6 DEF ListedTo
  <2>. QED
    BY <2>2, <2>7 DEF Line
<1>5. OpenResolves'
  BY <1>1, <1>2 DEF OpenResolves, Listing
<1>. QED
  BY <1>1, <1>2, <1>3, <1>4, <1>5 DEF LookupInv

(***************************************************************************)
(* What holds always                                                       *)
(***************************************************************************)
LEMMA StepLookup == LookupInv /\ [LookupNext]_lookup_vars => LookupInv'
<1>. SUFFICES ASSUME LookupInv, [LookupNext]_lookup_vars PROVE LookupInv'
  OBVIOUS
<1>1. CASE LookupNext
  BY <1>1, ToolStep, ListStarts, ListDeletedStep, ListLongStep, ListShortStep, ListEndsStep,
     RefusedStep, LeavesPageStep, PageFaultStep,
     OpenStep, WalkedStep, NoClusterStep, ReadStep, FailsStep, NotFoundStep, SkipStep,
     TakeStep, FoundStep, NextEntryStep DEF LookupNext
<1>2. CASE UNCHANGED lookup_vars
  <2>1. /\ UNCHANGED volume /\ tree' = tree /\ dirs' = dirs
        /\ UNCHANGED <<call, path, rest, node, ent, i, lfn_list, lfn_buf, lfn_active, listed, failed>>
    BY <1>2 DEF lookup_vars, volume, call_locals, listing
  <2>2. VolumeInv' /\ Directories' = Directories
    BY <2>1, VolumeStays DEF LookupInv
  <2>. HIDE DEF Reference, ThroughFile, Directories, VolumeInv
  <2>3. Reference' = Reference /\ (ThroughFile <=> ThroughFile')
    BY <2>1, PathStays
  <2>4. call \in {"walk", "search"} => Walking'
    BY <2>1, WalkingStays DEF LookupInv
  <2>5. Contents(node.cluster)' = Contents(node.cluster)
    BY <2>1, <2>2 DEF Contents
  <2>. HIDE DEF Contents, Walking
  <2>6. LookupTypeOK' /\ BothSequences' /\ OpenResolves' /\ ListsTheDirectory'
    BY <2>1, <2>2, <2>3 DEF LookupInv, LookupTypeOK, BothSequences, OpenResolves, ListsTheDirectory
  <2>7. (call = "search" => Searching') /\ (call = "list" => Listing')
    BY <2>1, <2>2, <2>5 DEF LookupInv, Searching, Listing
  <2>. QED
    BY <2>1, <2>2, <2>4, <2>6, <2>7 DEF LookupInv
<1>. QED
  BY <1>1, <1>2

\* The directories on the disk are what the tools made of them, and the
\* search and the listing have of them what they have come past.
THEOREM LookupInvariance == LookupSpec => []LookupInv
BY InitLookup, StepLookup, PTL DEF LookupSpec

\* Also when a file's data is searched for a name, lfn_list has room for
\* what is put into it, and the listing of a directory stays in lfn_buf.
THEOREM LookupTypeCorrect == LookupSpec => []LookupTypeOK
<1>1. LookupInv => LookupTypeOK
  BY DEF LookupInv
<1>. QED
  BY <1>1, LookupInvariance, PTL

\* Fat32Open returns the file or directory that was created under the path
\* and not deleted since, and NULL if there is none or a command failed.
THEOREM OpenFindsTheFile == LookupSpec => []OpenResolves
<1>1. LookupInv => OpenResolves
  BY DEF LookupInv
<1>. QED
  BY <1>1, LookupInvariance, PTL

\* A listing that does not leave its page shows every file and directory of a
\* directory once, and nothing that was deleted.
THEOREM ListingIsTheDirectory == LookupSpec => []ListsTheDirectory
<1>1. LookupInv => ListsTheDirectory
  BY DEF LookupInv
<1>. QED
  BY <1>1, LookupInvariance, PTL
=============================================================================
