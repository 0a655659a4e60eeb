--------------------------- MODULE BootAhciProofs ---------------------------
(***************************************************************************)
(* Proofs about Boot, for any machines with any tables, disks and programs *)
(* and any sizes, and about Ahci, the driver of the disk it finds, for any *)
(* number of slots, turns of the wait, blocks and buffers.                 *)
(*                                                                         *)
(* Boot.  Its invariant has a part for each of the modules it composes.    *)
(* Of the search for the disk it says which ports were passed; of the walk *)
(* through the MADT, that the overrides found so far give every IRQ the    *)
(* GSI that the MADT gives it so far; of the DSDT, that the first \_S5_ is *)
(* what the scan took; of the program, which pages have a frame, that the  *)
(* frames are theirs alone, and that the segments behind them are there.   *)
(*                                                                         *)
(* Ahci.  The inductive invariant says that a slot's bit without an error  *)
(* is that of the command that is polled, and that it is gone once an      *)
(* error is seen; so a return never leaves a command behind that the port  *)
(* still has to execute.                                                   *)
(***************************************************************************)
EXTENDS Ahci, Boot, FiniteSetTheorems, Induction

(***************************************************************************)
(* The machine, which the boot does not change                             *)
(***************************************************************************)
Of(m) ==
  /\ pci = m.pci /\ disk = m.disk /\ madt = m.madt /\ fadt = m.fadt /\ dsdts = m.dsdts
  /\ font = m.font /\ file = m.file

OnAMachine == \E m \in Machines : Of(m)

LEMMA SequenceFacts ==
  ASSUME NEW s, IsSequence(s)
  PROVE  Len(s) \in Nat /\ DOMAIN s = 1 .. Len(s)
BY DEF IsSequence

LEMMA MachineStays ==
  ASSUME [BootNext]_boot_vars
  PROVE  UNCHANGED <<pci, disk, madt, fadt, dsdts, font, file>>
<1>1. CASE S!Storage /\ UNCHANGED <<font, firmware, loader>>
  <2>1. UNCHANGED <<madt, fadt, dsdts, font, file>>
    BY <1>1 DEF firmware, loader, program
  <2>2. UNCHANGED S!devices
    BY <1>1 DEF S!Storage, S!PciFunction, S!PciScanned, S!ProbePort, S!NoMorePorts, S!NoDisk,
                S!GPTHeader, S!GPTEntries, S!VFSMountFAT32Root
  <2>. QED
    BY <2>1, <2>2 DEF S!devices
<1>2. CASE F!Firmware /\ UNCHANGED <<font, storage, loader>>
  <2>1. UNCHANGED <<pci, disk, font, file>>
    BY <1>2 DEF storage, loader, program
  <2>2. UNCHANGED F!tables
    BY <1>2 DEF F!Firmware, F!NoMadt, F!MadtEnds, F!MadtEntry, F!NoFadt, F!FadtFaults,
                F!AcpiParseFADT, F!InitIOAPIC
  <2>. QED
    BY <2>1, <2>2 DEF F!tables
<1>3. CASE L!Loader /\ UNCHANGED <<font, storage, firmware>>
  <2>1. UNCHANGED <<pci, disk, madt, fadt, dsdts, font>>
    BY <1>3 DEF storage, firmware
  <2>2. UNCHANGED file
    BY <1>3 DEF L!Loader, L!init_phys_allocator, L!Open, L!NoElf, L!SkipSegment, L!MapPage,
                L!ZeroingFaults, L!CopySegment, L!CopyFaults, L!UnStartUserland, L!given
  <2>. QED
    BY <2>1, <2>2
<1>4. CASE PrepareFont
  BY <1>4 DEF PrepareFont, storage, firmware, program
<1>5. CASE UNCHANGED boot_vars
  BY <1>5 DEF boot_vars, storage, firmware, loader, program
<1>. QED
  BY <1>1, <1>2, <1>3, <1>4, <1>5 DEF BootNext

\* Where a file read into the heap may lead.
LEMMA OpenGoes ==
  ASSUME L!Open
  PROVE  /\ pc = "open" /\ pc' \in {"wild", "reset", "load"}
         /\ pc' = "load" => file # NULL /\ file.type = "file"
<1>1. PICK found \in 0 .. PROGRAM_PATH, complete \in BOOLEAN : \E units, size :
         /\ found = PROGRAM_PATH => file # NULL
         /\ size = IF found = PROGRAM_PATH /\ file.type = "file" THEN file.size ELSE 0
         /\ pc' = L!Writing(units, IF complete /\ size > 0 THEN "load" ELSE "reset")
  BY DEF L!Open
<1>2. PICK units, size :
         /\ size = IF found = PROGRAM_PATH /\ file.type = "file" THEN file.size ELSE 0
         /\ pc' = L!Writing(units, IF complete /\ size > 0 THEN "load" ELSE "reset")
  BY <1>1
<1>3. PICK next : next = IF complete /\ size > 0 THEN "load" ELSE "reset"
  OBVIOUS
<1>4. pc' = L!Writing(units, next)
  BY <1>2, <1>3
<1>5. pc' \in {"wild", "reset", next}
  BY <1>4 DEF L!Writing
<1>. QED
  BY <1>1, <1>2, <1>3, <1>5 DEF L!Open

\* And one read for the font.
LEMMA FontGoes ==
  ASSUME PrepareFont
  PROVE  pc = "font" /\ pc' \in {"wild", "reset", "open", "halted"}
<1>1. PICK ready, units : pc' = L!Writing(units, IF ready THEN "open" ELSE "halted")
  BY DEF PrepareFont
<1>2. PICK next : next = IF ready THEN "open" ELSE "halted"
  OBVIOUS
<1>3. pc' = L!Writing(units, next)
  BY <1>1, <1>2
<1>4. pc' \in {"wild", "reset", next}
  BY <1>3 DEF L!Writing
<1>. QED
  BY <1>2, <1>4 DEF PrepareFont

\* The least of a set of numbers.
LEMMA LeastExists ==
  ASSUME NEW T \in SUBSET Nat, T # {}
  PROVE  \E k \in T : \A l \in T : k <= l
<1>. DEFINE Below == {n \in Nat : \A k \in T : n <= k}
<1>1. SUFFICES ASSUME \A k \in T : \E l \in T : l < k PROVE FALSE
  <2>1. ASSUME NEW k \in T, ~(\A l \in T : k <= l) PROVE \E l \in T : l < k
    BY <2>1
  <2>. QED
    BY <1>1, <2>1
<1>2. 0 \in Below
  OBVIOUS
<1>3. ASSUME NEW n \in Nat, n \in Below PROVE n + 1 \in Below
  <2>1. ASSUME NEW k \in T PROVE n + 1 <= k
    <3>1. PICK l \in T : l < k
      BY <1>1
    <3>2. n <= l /\ l \in Nat /\ k \in Nat
      BY <1>3
    <3>. QED
      BY <3>1, <3>2
  <2>. QED
    BY <2>1
<1>. HIDE DEF Below
<1>4. \A n \in Nat : n \in Below
  BY <1>2, <1>3, Induction
<1>5. PICK k \in T : TRUE
  OBVIOUS
<1>6. k \in Nat /\ k + 1 \in Below
  BY <1>4
<1>. QED
  BY <1>6 DEF Below

\* Any of the choices of a least element gives the one that is.
Minimum(T) == CHOOSE k \in T : \A l \in T : k <= l

LEMMA MinimumIs ==
  ASSUME NEW T \in SUBSET Nat, NEW k \in T, \A l \in T : k <= l
  PROVE  Minimum(T) = k
<1>1. \A j \in T : (\A l \in T : j <= l) => j = k
  OBVIOUS
<1>. QED
  BY <1>1 DEF Minimum

LEMMA MinimumOf ==
  ASSUME NEW T \in SUBSET Nat, T # {}
  PROVE  Minimum(T) \in T /\ \A l \in T : Minimum(T) <= l
BY LeastExists DEF Minimum

(***************************************************************************)
(* Storage: the search for the disk                                        *)
(***************************************************************************)
IsAta(c, k) == k \in DOMAIN c.ports /\ c.ports[k] = "ata"

\* The only controller is function n.
Only(n) == n \in 1 .. Len(pci) /\ \A k \in 1 .. Len(pci) : pci[k] # NULL <=> k = n

FirstDisk(n, d) == IsAta(pci[n], d) /\ \A k : IsAta(pci[n], k) => d <= k

Searched ==
  \A n : Only(n) =>
    /\ pc = "probe" => \A k \in 0 .. i - 1 : ~IsAta(pci[n], k)
    /\ n < fn => \A d : FirstDisk(n, d) => ahci_port = <<pci[n].abar, d>>

Probing ==
  /\ fn \in 1 .. Len(pci) + 1 /\ i \in 0 .. 32
  /\ pc = "probe" => fn <= Len(pci) /\ pci[fn] # NULL /\ abar = pci[fn].abar
  /\ pc \notin {"scan", "probe"} => fn = Len(pci) + 1
  /\ \A r \in rebased : r[2] \in 0 .. 31 /\ r = <<r[1], r[2]>>

StorageInv == Probing /\ Searched

LEMMA PciFacts ==
  ASSUME OnAMachine
  PROVE  /\ Len(pci) \in Nat
         /\ \A n \in 1 .. Len(pci) : pci[n] # NULL => DOMAIN pci[n].ports \subseteq 0 .. 31
BY SequenceFacts, MachinesAssumption DEF OnAMachine, Of

LEMMA InitStorageInv == BootInit => OnAMachine /\ StorageInv
<1>. SUFFICES ASSUME BootInit PROVE OnAMachine /\ StorageInv
  OBVIOUS
<1>1. OnAMachine
  BY DEF BootInit, OnAMachine, Of
<1>2. pc = "scan" /\ fn = 1 /\ i = 0 /\ rebased = {}
  BY DEF BootInit, S!InitStorage
<1>. QED
  BY <1>1, <1>2, PciFacts DEF StorageInv, Probing, Searched, Only

\* Once the scan is over nothing is searched.
LEMMA ScanIsOver ==
  ASSUME OnAMachine, StorageInv, pc \notin {"scan", "probe"}, pc' \notin {"scan", "probe"},
         UNCHANGED <<pci, disk, fn, i, abar, ahci_port, rebased>>
  PROVE  StorageInv'
<1>1. Probing'
  BY DEF StorageInv, Probing
<1>2. Searched'
  BY DEF StorageInv, Searched, Only, FirstDisk, IsAta
<1>. QED
  BY <1>1, <1>2 DEF StorageInv

LEMMA PciFunctionStep ==
  ASSUME OnAMachine, StorageInv, S!PciFunction
  PROVE  StorageInv'
<1>1. /\ pc = "scan" /\ fn <= Len(pci) /\ fn \in Nat /\ fn >= 1 /\ Len(pci) \in Nat
      /\ UNCHANGED <<pci, ahci_port, rebased>>
  BY PciFacts DEF S!PciFunction, S!devices, StorageInv, Probing
<1>2. CASE pci[fn] = NULL
  <2>1. fn' = fn + 1 /\ UNCHANGED <<pc, i, abar>>
    BY <1>2 DEF S!PciFunction
  <2>2. Probing'
    BY <1>1, <2>1 DEF StorageInv, Probing
  <2>3. ASSUME NEW n, Only(n)' PROVE n < fn' => n < fn
    <3>1. n \in 1 .. Len(pci) /\ pci[n] # NULL
      BY <1>1, <2>3 DEF Only
    <3>2. n # fn
      BY <1>2, <3>1
    <3>. QED
      BY <1>1, <2>1, <3>1, <3>2
  <2>4. Searched'
    BY <1>1, <2>1, <2>3 DEF StorageInv, Searched, Only, FirstDisk, IsAta
  <2>. QED
    BY <2>2, <2>4 DEF StorageInv
<1>3. CASE pci[fn] # NULL
  <2>1. abar' = pci[fn].abar /\ i' = 0 /\ pc' = "probe" /\ fn' = fn
    BY <1>3 DEF S!PciFunction
  <2>2. Probing'
    BY <1>1, <1>3, <2>1 DEF StorageInv, Probing
  <2>3. Searched'
    BY <1>1, <2>1 DEF StorageInv, Searched, Only, FirstDisk, IsAta
  <2>. QED
    BY <2>2, <2>3 DEF StorageInv
<1>. QED
  BY <1>2, <1>3

LEMMA ProbePortStep ==
  ASSUME OnAMachine, StorageInv, S!ProbePort
  PROVE  StorageInv'
<1>1. /\ pc = "probe" /\ i \in 0 .. 31 /\ UNCHANGED <<pci, abar>>
      /\ fn \in 1 .. Len(pci) /\ pci[fn] # NULL /\ abar = pci[fn].abar /\ Len(pci) \in Nat
  BY PciFacts DEF S!ProbePort, S!devices, StorageInv, Probing
<1>2. \A r \in rebased' : r[2] \in 0 .. 31 /\ r = <<r[1], r[2]>>
  <2>1. rebased' = rebased \/ rebased' = rebased \cup {<<abar, i>>}
    BY DEF S!ProbePort
  <2>2. <<abar, i>>[1] = abar /\ <<abar, i>>[2] = i
    OBVIOUS
  <2>. QED
    BY <1>1, <2>1, <2>2 DEF StorageInv, Probing
<1>3. S!Device(i) = "ata" <=> IsAta(pci[fn], i)
  BY DEF S!Device, S!Ports, IsAta
<1>4. CASE S!Device(i) = "ata"
  <2>1. ahci_port' = <<abar, i>> /\ fn' = fn + 1 /\ pc' = "scan" /\ i' = i
    BY <1>4 DEF S!ProbePort, S!Returns
  <2>2. Probing'
    BY <1>1, <1>2, <2>1 DEF StorageInv, Probing
  <2>3. ASSUME NEW n, Only(n)' PROVE n = fn /\ \A d : FirstDisk(n, d)' => d = i
    <3>1. n = fn /\ Only(n)
      BY <1>1, <2>3 DEF Only
    <3>2. ASSUME NEW d, FirstDisk(n, d)' PROVE d = i
      <4>1. IsAta(pci[fn], d) /\ d <= i
        BY <1>1, <1>3, <1>4, <3>1, <3>2 DEF FirstDisk, IsAta
      <4>2. d \in 0 .. 31
        BY <1>1, <4>1, PciFacts DEF IsAta
      <4>3. \A k \in 0 .. i - 1 : ~IsAta(pci[fn], k)
        BY <1>1, <3>1 DEF StorageInv, Searched
      <4>. QED
        BY <1>1, <4>1, <4>2, <4>3
    <3>. QED
      BY <3>1, <3>2
  <2>4. Searched'
    BY <1>1, <2>1, <2>3 DEF Searched
  <2>. QED
    BY <2>2, <2>4 DEF StorageInv
<1>5. CASE S!Device(i) # "ata"
  <2>1. i' = i + 1 /\ fn' = fn /\ pc' = pc
    BY <1>5 DEF S!ProbePort, S!Returns
  <2>2. Probing'
    <3>1. pci' = pci /\ abar' = abar /\ i' \in 0 .. 32
      BY <1>1, <2>1
    <3>. QED
      BY <1>1, <1>2, <2>1, <3>1 DEF Probing
  <2>3. ASSUME NEW n, Only(n)' PROVE n = fn /\ Only(n)
    BY <1>1, <2>3 DEF Only
  <2>4. ASSUME Only(fn) PROVE \A k \in 0 .. i : ~IsAta(pci[fn], k)
    BY <1>1, <1>3, <1>5, <2>4 DEF StorageInv, Searched
  <2>5. Searched'
    BY <1>1, <2>1, <2>3, <2>4 DEF Searched, IsAta
  <2>. QED
    BY <2>2, <2>5 DEF StorageInv
<1>. QED
  BY <1>4, <1>5

LEMMA NoMorePortsStep ==
  ASSUME OnAMachine, StorageInv, S!NoMorePorts
  PROVE  StorageInv'
<1>1. /\ pc = "probe" /\ i = 32 /\ UNCHANGED <<pci, i, abar, ahci_port, rebased>>
      /\ fn' = fn + 1 /\ pc' = "scan"
      /\ fn \in 1 .. Len(pci) /\ pci[fn] # NULL /\ Len(pci) \in Nat
  BY PciFacts DEF S!NoMorePorts, S!devices, StorageInv, Probing
<1>2. Probing'
  BY <1>1 DEF StorageInv, Probing
<1>3. ASSUME NEW n, Only(n)' PROVE n = fn /\ \A d : ~FirstDisk(n, d)'
  <2>1. n = fn /\ Only(n)
    BY <1>1, <1>3 DEF Only
  <2>2. ASSUME NEW d, FirstDisk(n, d)' PROVE FALSE
    <3>1. IsAta(pci[fn], d)
      BY <1>1, <2>1, <2>2 DEF FirstDisk, IsAta
    <3>2. d \in 0 .. 31
      BY <1>1, <3>1, PciFacts DEF IsAta
    <3>3. \A k \in 0 .. i - 1 : ~IsAta(pci[fn], k)
      BY <1>1, <2>1 DEF StorageInv, Searched
    <3>4. d \in 0 .. i - 1
      BY <1>1, <3>2
    <3>. QED
      BY <3>1, <3>3, <3>4
  <2>. QED
    BY <2>1, <2>2
<1>4. Searched'
  BY <1>1, <1>3 DEF Searched
<1>. QED
  BY <1>2, <1>4 DEF StorageInv

LEMMA StorageStep ==
  ASSUME OnAMachine, StorageInv, [BootNext]_boot_vars
  PROVE  StorageInv'
<1>1. CASE S!Storage
  <2>1. CASE S!PciScanned
    <3>1. UNCHANGED <<pci, disk, fn, i, abar, ahci_port, rebased>> /\ fn > Len(pci) /\ pc' = "frames"
      BY <2>1 DEF S!PciScanned, S!devices, S!probe
    <3>2. Probing'
      BY <3>1, PciFacts DEF StorageInv, Probing
    <3>3. Searched'
      BY <3>1 DEF StorageInv, Searched, Only, FirstDisk, IsAta
    <3>. QED
      BY <3>2, <3>3 DEF StorageInv
  <2>2. CASE S!NoDisk \/ S!GPTHeader \/ S!GPTEntries \/ S!VFSMountFAT32Root
    <3>1. UNCHANGED <<pci, disk, fn, i, abar, ahci_port, rebased>>
      BY <2>2 DEF S!NoDisk, S!GPTHeader, S!GPTEntries, S!VFSMountFAT32Root, S!devices, S!probe
    <3>2. pc \notin {"scan", "probe"} /\ pc' \notin {"scan", "probe"}
      BY <2>2 DEF S!NoDisk, S!GPTHeader, S!GPTEntries, S!VFSMountFAT32Root
    <3>. QED
      BY <3>1, <3>2, ScanIsOver
  <2>. QED
    BY <1>1, <2>1, <2>2, PciFunctionStep, ProbePortStep, NoMorePortsStep DEF S!Storage
<1>2. CASE F!Firmware /\ UNCHANGED <<font, storage, loader>>
  <2>1. UNCHANGED <<pci, disk, fn, i, abar, ahci_port, rebased>>
    BY <1>2 DEF storage
  <2>2. pc \notin {"scan", "probe"} /\ pc' \notin {"scan", "probe"}
    BY <1>2 DEF F!Firmware, F!NoMadt, F!MadtEnds, F!MadtEntry, F!NoFadt, F!FadtFaults,
                F!AcpiParseFADT, F!InitIOAPIC
  <2>. QED
    BY <2>1, <2>2, ScanIsOver
<1>3. CASE L!Loader /\ UNCHANGED <<font, storage, firmware>>
  <2>1. UNCHANGED <<pci, disk, fn, i, abar, ahci_port, rebased>>
    BY <1>3 DEF storage
  <2>2. pc \notin {"scan", "probe"} /\ pc' \notin {"scan", "probe"}
    BY <1>3, OpenGoes DEF L!Loader, L!init_phys_allocator, L!NoElf, L!SkipSegment, L!MapPage, L!ZeroingFaults,
                L!CopySegment, L!CopyFaults, L!UnStartUserland, L!Loading, L!ToCopy, L!AllocatePage
  <2>. QED
    BY <2>1, <2>2, ScanIsOver
<1>4. CASE PrepareFont
  <2>1. UNCHANGED <<pci, disk, fn, i, abar, ahci_port, rebased>>
    BY <1>4 DEF PrepareFont, storage
  <2>2. pc \notin {"scan", "probe"} /\ pc' \notin {"scan", "probe"}
    BY <1>4, FontGoes
  <2>. QED
    BY <2>1, <2>2, ScanIsOver
<1>5. CASE UNCHANGED boot_vars
  <2>1. UNCHANGED <<pc, pci, fn, i, abar, ahci_port, rebased>>
    BY <1>5 DEF boot_vars, storage
  <2>2. Probing'
    BY <2>1 DEF StorageInv, Probing
  <2>3. Searched'
    BY <2>1 DEF StorageInv, Searched, Only, FirstDisk, IsAta
  <2>. QED
    BY <2>2, <2>3 DEF StorageInv
<1>. QED
  BY <1>1, <1>2, <1>3, <1>4, <1>5 DEF BootNext

(***************************************************************************)
(* The command structures of a port                                        *)
(***************************************************************************)
LEMMA UnionSize ==
  ASSUME NEW A, NEW B, IsFiniteSet(A), IsFiniteSet(B), A \cap B = {}
  PROVE  IsFiniteSet(A \cup B) /\ Cardinality(A \cup B) = Cardinality(A) + Cardinality(B)
<1>1. Cardinality(A) \in Nat /\ Cardinality(B) \in Nat /\ Cardinality(A \cap B) = 0
  BY FS_CardinalityType, FS_EmptySet
<1>2. /\ IsFiniteSet(A \cup B)
      /\ Cardinality(A \cup B) = Cardinality(A) + Cardinality(B) - Cardinality(A \cap B)
  BY FS_Union
<1>. QED
  BY <1>1, <1>2

\* TablesOf is S!CommandTables as an interval.
LEMMA TablesOf ==
  ASSUME NEW p \in 0 .. 31
  PROVE  S!CommandTables(p) = 160 + 32 * p .. 191 + 32 * p
<1>1. ASSUME NEW n \in 160 + 32 * p .. 191 + 32 * p PROVE n \in S!CommandTables(p)
  <2>1. n - (160 + 32 * p) \in 0 .. 31 /\ n = 160 + 32 * p + (n - (160 + 32 * p))
    OBVIOUS
  <2>. QED
    BY <2>1 DEF S!CommandTables
<1>2. ASSUME NEW s \in 0 .. 31 PROVE 160 + 32 * p + s \in 160 + 32 * p .. 191 + 32 * p
  OBVIOUS
<1>. QED
  BY <1>1, <1>2 DEF S!CommandTables

Mapped(structures) == structures \subseteq 0 .. 8191

LEMMA StructuresOf ==
  ASSUME NEW p \in 0 .. 31
  PROVE  Mapped(S!Structures(p)) /\ Cardinality(S!Structures(p)) = 4 + 1 + 32
<1>. DEFINE list == 4 * p .. 4 * p + 3
            fis  == {128 + p}
            tabs == 160 + 32 * p .. 191 + 32 * p
<1>1. S!Structures(p) = list \cup fis \cup tabs
  BY TablesOf DEF S!Structures, S!CommandList, S!ReceivedFIS
<1>2. IsFiniteSet(list) /\ Cardinality(list) = 4
  <2>1. 4 * p \in Int /\ 4 * p + 3 \in Int /\ ~(4 * p > 4 * p + 3) /\ 4 * p + 3 - 4 * p + 1 = 4
    OBVIOUS
  <2>. QED
    BY <2>1, FS_Interval
<1>3. IsFiniteSet(fis) /\ Cardinality(fis) = 1
  BY FS_Singleton
<1>4. IsFiniteSet(tabs) /\ Cardinality(tabs) = 32
  <2>1. /\ 160 + 32 * p \in Int /\ 191 + 32 * p \in Int /\ ~(160 + 32 * p > 191 + 32 * p)
        /\ 191 + 32 * p - (160 + 32 * p) + 1 = 32
    OBVIOUS
  <2>. QED
    BY <2>1, FS_Interval
<1>5. list \cap fis = {}
  OBVIOUS
<1>6. (list \cup fis) \cap tabs = {}
  OBVIOUS
<1>7. list \cup fis \cup tabs \subseteq 0 .. 8191
  OBVIOUS
<1>. HIDE DEF list, fis, tabs
<1>8. IsFiniteSet(list \cup fis) /\ Cardinality(list \cup fis) = 5
  BY <1>2, <1>3, <1>5, UnionSize
<1>9. Cardinality((list \cup fis) \cup tabs) = 37
  BY <1>4, <1>6, <1>8, UnionSize
<1>. QED
  BY <1>1, <1>7, <1>9 DEF Mapped

LEMMA StructuresApart ==
  ASSUME NEW p \in 0 .. 31, NEW q \in 0 .. 31, p # q
  PROVE  S!Structures(p) \cap S!Structures(q) = {}
<1>1. /\ S!Structures(p) = (4 * p .. 4 * p + 3) \cup {128 + p} \cup (160 + 32 * p .. 191 + 32 * p)
      /\ S!Structures(q) = (4 * q .. 4 * q + 3) \cup {128 + q} \cup (160 + 32 * q .. 191 + 32 * q)
  BY TablesOf DEF S!Structures, S!CommandList, S!ReceivedFIS
<1>2. (4 * p .. 4 * p + 3) \cap (4 * q .. 4 * q + 3) = {}
  OBVIOUS
<1>3. (160 + 32 * p .. 191 + 32 * p) \cap (160 + 32 * q .. 191 + 32 * q) = {}
  OBVIOUS
<1>4. {128 + p} \cap {128 + q} = {}
  OBVIOUS
<1>5. \A n \in 4 * p .. 4 * p + 3 : n < 128
  OBVIOUS
<1>6. \A n \in 4 * q .. 4 * q + 3 : n < 128
  OBVIOUS
<1>7. \A n \in 160 + 32 * p .. 191 + 32 * p : n >= 160
  OBVIOUS
<1>8. \A n \in 160 + 32 * q .. 191 + 32 * q : n >= 160
  OBVIOUS
<1>9. 128 + p \in 128 .. 159 /\ 128 + q \in 128 .. 159
  OBVIOUS
<1>. QED
  BY <1>1, <1>2, <1>3, <1>4, <1>5, <1>6, <1>7, <1>8, <1>9

LEMMA RebasedApart ==
  ASSUME StorageInv, NEW p \in rebased, NEW q \in rebased
  PROVE  Separate(p, q)
<1>1. PICK k \in 0 .. 31 : k = p[2]
  BY DEF StorageInv, Probing
<1>2. PICK l \in 0 .. 31 : l = q[2]
  BY DEF StorageInv, Probing
<1>3. p = <<p[1], k>> /\ q = <<q[1], l>>
  BY <1>1, <1>2 DEF StorageInv, Probing
<1>4. ASSUME p # q, p[1] = q[1] PROVE k # l
  BY <1>3, <1>4
<1>5. Mapped(S!Structures(k)) /\ Cardinality(S!Structures(k)) = 4 + 1 + 32
  BY StructuresOf
<1>6. k # l => S!Structures(k) \cap S!Structures(l) = {}
  BY StructuresApart
<1>. QED
  BY <1>1, <1>2, <1>4, <1>5, <1>6 DEF Mapped, Separate

LEMMA FirstDiskFound ==
  ASSUME OnAMachine, StorageInv
  PROVE  DiskFound
<1>. DEFINE controllers == {k \in 1 .. Len(pci) : pci[k] # NULL}
<1>1. SUFFICES ASSUME pc \notin {"scan", "probe"}, Cardinality(controllers) = 1,
                      NEW c, c = pci[CHOOSE k \in controllers : TRUE],
                      NEW disks, disks = {k \in DOMAIN c.ports : c.ports[k] = "ata"}, disks # {}
               PROVE  ahci_port = <<c.abar, CHOOSE k \in disks : \A l \in disks : k <= l>>
  BY DEF DiskFound
<1>2. PICK n : controllers = {n}
  <2>1. Len(pci) \in Nat /\ controllers \in SUBSET (1 .. Len(pci))
    BY PciFacts
  <2>2. IsFiniteSet(1 .. Len(pci))
    BY <2>1, FS_Interval
  <2>3. IsFiniteSet(controllers)
    BY <2>1, <2>2, FS_Subset
  <2>. QED
    BY <1>1, <2>3, FS_Singleton
<1>3. n \in 1 .. Len(pci) /\ pci[n] # NULL /\ Only(n) /\ c = pci[n] /\ Len(pci) \in Nat
  BY <1>1, <1>2, PciFacts DEF Only
<1>4. disks \in SUBSET Nat
  <2>1. DOMAIN c.ports \subseteq 0 .. 31
    BY <1>3, PciFacts
  <2>2. disks \subseteq DOMAIN c.ports
    BY <1>1
  <2>3. 0 .. 31 \subseteq Nat
    OBVIOUS
  <2>. QED
    BY <2>1, <2>2, <2>3, Zenon
<1>5. PICK d : d = Minimum(disks)
  OBVIOUS
<1>6. d \in disks /\ \A l \in disks : d <= l
  BY <1>1, <1>4, <1>5, MinimumOf
<1>7. FirstDisk(n, d)
  BY <1>1, <1>3, <1>6 DEF FirstDisk, IsAta
<1>8. n < fn
  BY <1>1, <1>3 DEF StorageInv, Probing
<1>9. ahci_port = <<c.abar, d>>
  BY <1>3, <1>7, <1>8 DEF StorageInv, Searched
<1>. QED
  BY <1>5, <1>9 DEF Minimum

(***************************************************************************)
(* Firmware: the routing of the keyboard                                   *)
(***************************************************************************)
\* The overrides among the first n entries, and those of an IRQ.
Overrides(n)    == {k \in 1 .. n : madt[k].type = "iso"}
IsOverride(k, irq) == madt[k].type = "iso" /\ madt[k].irq = irq

\* The GSI that the first n entries of the MADT give, and that g_iso gives.
GivenBy(n, irq, gsi) ==
  \E k \in 1 .. n : /\ IsOverride(k, irq) /\ madt[k].gsi = gsi
                    /\ \A l \in 1 .. k - 1 : ~IsOverride(l, irq)
FoundIn(list, irq, gsi) ==
  \E k \in 1 .. Len(list) : /\ list[k][1] = irq /\ list[k][2] = gsi
                            /\ \A l \in 1 .. k - 1 : list[l][1] # irq

Agreeing(list, n, irq) ==
  \/ /\ \A k \in 1 .. Len(list) : list[k][1] # irq
     /\ \A k \in 1 .. n : ~IsOverride(k, irq)
  \/ \E gsi : FoundIn(list, irq, gsi) /\ GivenBy(n, irq, gsi)

Pairs == {<<madt[k].irq, madt[k].gsi>> : k \in 1 .. Len(madt)}

Walked ==
  /\ entry \in 1 .. Len(madt) + 1
  /\ g_iso \in Seq(Pairs) /\ Len(g_iso) = Cardinality(Overrides(entry - 1))
  /\ \A irq : Agreeing(g_iso, entry - 1, irq)
  /\ \/ g_ioapic = NULL /\ \A k \in 1 .. entry - 1 : madt[k].type # "ioapic"
     \/ \E k \in 1 .. entry - 1 : madt[k].type = "ioapic" /\ g_ioapic = madt[k].address

Unrouted == redirection = [p \in 0 .. PINS - 1 |-> F!MASKED]

Routed ==
  {p \in DOMAIN redirection : redirection[p] = 33} = {GsiOf(F!Keyboard)} \cap DOMAIN redirection

RoutingInv ==
  InOrder =>
    /\ Walked
    /\ pc \notin {"scan", "probe", "frames", "madt"} => entry = Len(madt) + 1
    /\ pc \in {"scan", "probe", "frames", "madt", "fadt", "ioapic"} => Unrouted
    /\ pc \notin {"scan", "probe", "frames", "madt", "fadt", "ioapic", "halted"} => Routed

LEMMA MadtFacts ==
  ASSUME OnAMachine, madt # NULL
  PROVE  /\ Len(madt) \in Nat
         /\ \A k \in 1 .. Len(madt) : madt[k].type = "ioapic" => madt[k].address # NULL
BY SequenceFacts, MachinesAssumption DEF OnAMachine, Of

LEMMA OverridesOne ==
  ASSUME NEW n \in Nat
  PROVE  /\ IsFiniteSet(Overrides(n)) /\ Cardinality(Overrides(n)) \in Nat
         /\ Cardinality(Overrides(n + 1)) =
              Cardinality(Overrides(n)) + IF madt[n + 1].type = "iso" THEN 1 ELSE 0
<1>1. IsFiniteSet(Overrides(n))
  <2>1. IsFiniteSet(1 .. n) /\ Overrides(n) \in SUBSET (1 .. n)
    BY FS_Interval DEF Overrides
  <2>. QED
    BY <2>1, FS_Subset
<1>2. Cardinality(Overrides(n)) \in Nat
  BY <1>1, FS_CardinalityType
<1>3. CASE madt[n + 1].type = "iso"
  <2>1. Overrides(n + 1) = Overrides(n) \cup {n + 1} /\ n + 1 \notin Overrides(n)
    BY <1>3 DEF Overrides
  <2>. QED
    BY <1>1, <1>2, <1>3, <2>1, FS_AddElement
<1>4. CASE madt[n + 1].type # "iso"
  <2>1. Overrides(n + 1) = Overrides(n)
    BY <1>4 DEF Overrides
  <2>. QED
    BY <1>1, <1>2, <1>4, <2>1
<1>. QED
  BY <1>1, <1>2, <1>3, <1>4

\* There is room for every override of a MADT in order.
LEMMA RoomForOverrides ==
  ASSUME OnAMachine, InOrder, NEW n \in Nat, n < Len(madt), madt[n + 1].type = "iso"
  PROVE  Cardinality(Overrides(n)) < MAX_ISO_ENTRIES
<1>1. PICK m \in Nat : m = Len(madt)
  BY MadtFacts DEF InOrder
<1>2. Cardinality(Overrides(m)) <= MAX_ISO_ENTRIES
  BY <1>1 DEF InOrder, Overrides
<1>3. IsFiniteSet(Overrides(m)) /\ Cardinality(Overrides(m)) \in Nat
  BY OverridesOne
<1>4. Overrides(n + 1) \in SUBSET Overrides(m)
  BY <1>1 DEF Overrides
<1>5. Cardinality(Overrides(n + 1)) <= Cardinality(Overrides(m))
  BY <1>3, <1>4, FS_Subset
<1>6. Cardinality(Overrides(n)) \in Nat /\ Cardinality(Overrides(n + 1)) = Cardinality(Overrides(n)) + 1
  BY OverridesOne
<1>. QED
  BY <1>2, <1>3, <1>5, <1>6, SizesAssumption

LEMMA AgreeingPast ==
  ASSUME NEW list, NEW n \in Nat, NEW irq, Agreeing(list, n, irq), ~IsOverride(n + 1, irq)
  PROVE  Agreeing(list, n + 1, irq)
<1>1. \A k \in 1 .. n + 1 : k \in 1 .. n \/ k = n + 1
  OBVIOUS
<1>2. \A k \in 1 .. n : k \in 1 .. n + 1
  OBVIOUS
<1>3. \A gsi : GivenBy(n, irq, gsi) => GivenBy(n + 1, irq, gsi)
  BY <1>2, Zenon DEF GivenBy
<1>. QED
  BY <1>1, <1>3, Zenon DEF Agreeing

LEMMA AgreeingAppend ==
  ASSUME NEW list \in Seq(Pairs), NEW n \in Nat, NEW irq, Agreeing(list, n, irq),
         madt[n + 1].type = "iso", NEW x \in Pairs, x = <<madt[n + 1].irq, madt[n + 1].gsi>>
  PROVE  Agreeing(Append(list, x), n + 1, irq)
<1>. DEFINE new == Append(list, x)
<1>1. /\ Len(list) \in Nat /\ Len(new) = Len(list) + 1 /\ new[Len(list) + 1] = x
      /\ \A k \in 1 .. Len(list) : new[k] = list[k]
  OBVIOUS
<1>2. x[1] = madt[n + 1].irq /\ x[2] = madt[n + 1].gsi
  OBVIOUS
<1>. HIDE DEF new
<1>3. ASSUME NEW gsi, FoundIn(list, irq, gsi), GivenBy(n, irq, gsi) PROVE Agreeing(new, n + 1, irq)
  <2>1. FoundIn(new, irq, gsi)
    <3>1. PICK k \in 1 .. Len(list) : /\ list[k][1] = irq /\ list[k][2] = gsi
                                     /\ \A l \in 1 .. k - 1 : list[l][1] # irq
      BY <1>3 DEF FoundIn
    <3>2. k \in 1 .. Len(new) /\ new[k] = list[k] /\ \A l \in 1 .. k - 1 : new[l] = list[l]
      BY <1>1
    <3>. QED
      BY <3>1, <3>2 DEF FoundIn
  <2>2. GivenBy(n + 1, irq, gsi)
    BY <1>3 DEF GivenBy
  <2>. QED
    BY <2>1, <2>2 DEF Agreeing
<1>4. ASSUME \A k \in 1 .. Len(list) : list[k][1] # irq, \A k \in 1 .. n : ~IsOverride(k, irq)
      PROVE  Agreeing(new, n + 1, irq)
  <2>1. CASE madt[n + 1].irq = irq
    <3>1. FoundIn(new, irq, madt[n + 1].gsi)
      <4>1. Len(list) + 1 \in 1 .. Len(new) /\ \A l \in 1 .. Len(list) + 1 - 1 : new[l][1] # irq
        BY <1>1, <1>4
      <4>. QED
        BY <1>1, <1>2, <2>1, <4>1 DEF FoundIn
    <3>2. GivenBy(n + 1, irq, madt[n + 1].gsi)
      <4>1. n + 1 \in 1 .. n + 1 /\ \A l \in 1 .. n + 1 - 1 : ~IsOverride(l, irq)
        BY <1>4
      <4>2. IsOverride(n + 1, irq)
        BY <2>1 DEF IsOverride
      <4>. QED
        BY <4>1, <4>2 DEF GivenBy
    <3>. QED
      BY <3>1, <3>2 DEF Agreeing
  <2>2. CASE madt[n + 1].irq # irq
    <3>1. \A k \in 1 .. Len(new) : new[k][1] # irq
      BY <1>1, <1>2, <1>4, <2>2
    <3>2. \A k \in 1 .. n + 1 : ~IsOverride(k, irq)
      BY <1>4, <2>2 DEF IsOverride
    <3>. QED
      BY <3>1, <3>2 DEF Agreeing
  <2>. QED
    BY <2>1, <2>2
<1>. QED
  BY <1>3, <1>4 DEF Agreeing, new

\* What the first override found gives is what the MADT gives.
LEMMA GsiGiven ==
  ASSUME NEW irq, NEW gsi, OnAMachine, madt # NULL, GivenBy(Len(madt), irq, gsi)
  PROVE  GsiOf(irq) = gsi
<1>. DEFINE overrides == {k \in 1 .. Len(madt) : madt[k].type = "iso" /\ madt[k].irq = irq}
<1>1. PICK k \in 1 .. Len(madt) : /\ IsOverride(k, irq) /\ madt[k].gsi = gsi
                                 /\ \A l \in 1 .. k - 1 : ~IsOverride(l, irq)
  BY DEF GivenBy
<1>2. Len(madt) \in Nat
  BY MadtFacts
<1>3. k \in overrides /\ overrides \in SUBSET Nat /\ \A l \in overrides : k <= l
  BY <1>1, <1>2 DEF IsOverride
<1>4. GsiOf(irq) = IF overrides = {} THEN irq ELSE madt[Minimum(overrides)].gsi
  BY DEF GsiOf, Minimum
<1>. HIDE DEF overrides
<1>5. Minimum(overrides) = k
  BY <1>3, MinimumIs
<1>. QED
  BY <1>1, <1>3, <1>4, <1>5

LEMMA GsiFound ==
  ASSUME NEW irq, NEW gsi, Len(g_iso) \in Nat, FoundIn(g_iso, irq, gsi)
  PROVE  F!UEFIFindGSIForIRQ(irq) = gsi
<1>. DEFINE overrides == {k \in 1 .. Len(g_iso) : g_iso[k][1] = irq}
<1>1. PICK k \in 1 .. Len(g_iso) : /\ g_iso[k][1] = irq /\ g_iso[k][2] = gsi
                                  /\ \A l \in 1 .. k - 1 : g_iso[l][1] # irq
  BY DEF FoundIn
<1>2. k \in overrides /\ overrides \in SUBSET Nat /\ \A l \in overrides : k <= l
  BY <1>1
<1>3. F!UEFIFindGSIForIRQ(irq) = IF overrides = {} THEN irq ELSE g_iso[Minimum(overrides)][2]
  BY DEF F!UEFIFindGSIForIRQ, F!Least, Minimum
<1>. HIDE DEF overrides
<1>4. Minimum(overrides) = k
  BY <1>2, MinimumIs
<1>. QED
  BY <1>1, <1>2, <1>3, <1>4

\* After the walk both look-ups agree for every IRQ.
LEMMA GsiIs ==
  ASSUME OnAMachine, InOrder, Walked, entry = Len(madt) + 1, NEW irq
  PROVE  F!UEFIFindGSIForIRQ(irq) = GsiOf(irq)
<1>1. madt # NULL /\ Len(madt) \in Nat /\ entry - 1 = Len(madt) /\ Len(g_iso) \in Nat
  BY MadtFacts DEF InOrder, Walked
<1>2. Agreeing(g_iso, Len(madt), irq)
  BY <1>1 DEF Walked
<1>3. ASSUME NEW gsi, FoundIn(g_iso, irq, gsi), GivenBy(Len(madt), irq, gsi)
      PROVE  F!UEFIFindGSIForIRQ(irq) = GsiOf(irq)
  BY <1>1, <1>3, GsiGiven, GsiFound
<1>4. ASSUME \A k \in 1 .. Len(g_iso) : g_iso[k][1] # irq,
             \A k \in 1 .. Len(madt) : ~IsOverride(k, irq)
      PROVE  F!UEFIFindGSIForIRQ(irq) = GsiOf(irq)
  <2>1. {k \in 1 .. Len(madt) : madt[k].type = "iso" /\ madt[k].irq = irq} = {}
    BY <1>4 DEF IsOverride
  <2>2. {k \in 1 .. Len(g_iso) : g_iso[k][1] = irq} = {}
    BY <1>4
  <2>3. GsiOf(irq) = irq
    BY <2>1 DEF GsiOf
  <2>4. F!UEFIFindGSIForIRQ(irq) = irq
    BY <2>2 DEF F!UEFIFindGSIForIRQ
  <2>. QED
    BY <2>3, <2>4
<1>. QED
  BY <1>2, <1>3, <1>4 DEF Agreeing

LEMMA InitRouting == BootInit /\ OnAMachine => RoutingInv
<1>. SUFFICES ASSUME BootInit, OnAMachine, InOrder
              PROVE  /\ Walked /\ Unrouted /\ pc = "scan"
  BY DEF RoutingInv
<1>1. pc = "scan" /\ entry = 1 /\ g_ioapic = NULL /\ g_iso = <<>> /\ Unrouted
  BY DEF BootInit, F!InitFirmware, Unrouted
<1>2. Len(madt) \in Nat
  BY MadtFacts DEF InOrder
<1>3. Overrides(0) = {}
  BY DEF Overrides
<1>4. Cardinality(Overrides(entry - 1)) = 0
  BY <1>1, <1>3, FS_EmptySet
<1>5. \A irq : Agreeing(g_iso, entry - 1, irq)
  BY <1>1 DEF Agreeing
<1>. QED
  BY <1>1, <1>2, <1>4, <1>5 DEF Walked

LEMMA RoutingStays ==
  ASSUME RoutingInv, UNCHANGED <<madt, entry, g_ioapic, g_iso, redirection>>,
         \/ pc' \in {"scan", "probe", "frames"} /\ pc \in {"scan", "probe", "frames"}
         \/ pc' = "madt" /\ pc = "frames"
         \/ pc' = pc
         \/ /\ pc' \notin {"scan", "probe", "frames", "madt", "fadt", "ioapic"}
            /\ pc \notin {"scan", "probe", "frames", "madt", "fadt", "ioapic", "halted"}
  PROVE  RoutingInv'
<1>1. InOrder' <=> InOrder
  BY DEF InOrder, GsiOf
<1>2. InOrder /\ Walked => Walked'
  <2>1. Pairs' = Pairs /\ Overrides(entry - 1)' = Overrides(entry - 1)
    BY DEF Pairs, Overrides
  <2>2. \A irq : Agreeing(g_iso, entry - 1, irq)' <=> Agreeing(g_iso, entry - 1, irq)
    BY DEF Agreeing, GivenBy, IsOverride
  <2>. QED
    BY <2>1, <2>2 DEF Walked
<1>3. (Unrouted => Unrouted') /\ (Routed => Routed')
  BY DEF Unrouted, Routed, GsiOf
<1>. QED
  BY <1>1, <1>2, <1>3 DEF RoutingInv

LEMMA MadtEntryStep ==
  ASSUME OnAMachine, RoutingInv, F!MadtEntry
  PROVE  RoutingInv'
<1>1. /\ pc = "madt" /\ pc' = "madt" /\ madt # NULL /\ UNCHANGED <<madt, redirection>>
  BY DEF F!MadtEntry, F!tables
<1>2. InOrder' <=> InOrder
  BY <1>1 DEF InOrder, GsiOf
<1>3. Unrouted => Unrouted'
  BY <1>1 DEF Unrouted
<1>4. ASSUME InOrder PROVE Walked'
  <2>1. PICK n \in Nat : n = entry - 1 /\ entry = n + 1 /\ Len(madt) \in Nat /\ entry \in 1 .. Len(madt) + 1
    BY <1>4, <1>1, MadtFacts DEF RoutingInv, Walked
  <2>2. n + 1 \in 1 .. Len(madt) /\ madt[n + 1].length = "ok" /\ entry' = n + 2 /\ n + 2 - 1 = n + 1
    BY <1>1, <1>4, <2>1 DEF F!MadtEntry, F!Ends, F!Forward, InOrder
  <2>3. entry' \in 1 .. Len(madt') + 1 /\ entry' - 1 = n + 1
    BY <1>1, <2>1, <2>2
  <2>4. PICK x : x = <<madt[n + 1].irq, madt[n + 1].gsi>>
    OBVIOUS
  <2>5. x \in Pairs /\ Pairs' = Pairs
    BY <1>1, <2>2, <2>4 DEF Pairs
  <2>6. /\ g_iso \in Seq(Pairs) /\ Len(g_iso) = Cardinality(Overrides(n))
        /\ \A irq : Agreeing(g_iso, n, irq)
    BY <1>4, <2>1 DEF RoutingInv, Walked
  <2>7. Cardinality(Overrides(n + 1)) = Len(g_iso) + IF madt[n + 1].type = "iso" THEN 1 ELSE 0
    BY <2>6, OverridesOne
  <2>8. /\ g_iso' \in Seq(Pairs) /\ Len(g_iso') = Cardinality(Overrides(n + 1))
        /\ \A irq : Agreeing(g_iso', n + 1, irq)
    <3>1. CASE madt[n + 1].type = "iso"
      <4>1. Len(g_iso) < MAX_ISO_ENTRIES
        BY <1>4, <2>1, <2>2, <2>6, <3>1, RoomForOverrides
      <4>2. g_iso' = Append(g_iso, x)
        BY <2>1, <2>4, <3>1, <4>1 DEF F!MadtEntry
      <4>3. g_iso' \in Seq(Pairs) /\ Len(g_iso') = Len(g_iso) + 1
        BY <2>5, <2>6, <4>2
      <4>4. \A irq : Agreeing(g_iso', n + 1, irq)
        BY <2>4, <2>5, <2>6, <3>1, <4>2, AgreeingAppend
      <4>. QED
        BY <2>7, <3>1, <4>3, <4>4
    <3>2. CASE madt[n + 1].type # "iso"
      <4>1. g_iso' = g_iso
        BY <2>1, <3>2 DEF F!MadtEntry
      <4>2. \A irq : ~IsOverride(n + 1, irq)
        BY <3>2 DEF IsOverride
      <4>3. Len(g_iso) \in Nat
        BY <2>6
      <4>. QED
        BY <2>6, <2>7, <3>2, <4>1, <4>2, <4>3, AgreeingPast
    <3>. QED
      BY <3>1, <3>2
  <2>9. \/ g_ioapic' = NULL /\ \A k \in 1 .. n + 1 : madt[k].type # "ioapic"
        \/ \E k \in 1 .. n + 1 : madt[k].type = "ioapic" /\ g_ioapic' = madt[k].address
    <3>1. g_ioapic' = IF madt[n + 1].type = "ioapic" THEN madt[n + 1].address ELSE g_ioapic
      BY <2>1 DEF F!MadtEntry
    <3>2. \/ g_ioapic = NULL /\ \A k \in 1 .. n : madt[k].type # "ioapic"
          \/ \E k \in 1 .. n : madt[k].type = "ioapic" /\ g_ioapic = madt[k].address
      BY <1>4, <2>1 DEF RoutingInv, Walked
    <3>. QED
      BY <3>1, <3>2
  <2>10. /\ Overrides(n + 1)' = Overrides(n + 1)
         /\ \A irq : Agreeing(g_iso, n + 1, irq)' <=> Agreeing(g_iso', n + 1, irq)
    BY <1>1 DEF Overrides, Agreeing, GivenBy, IsOverride
  <2>. QED
    BY <1>1, <2>3, <2>5, <2>8, <2>9, <2>10 DEF Walked
<1>. QED
  BY <1>1, <1>2, <1>3, <1>4 DEF RoutingInv

\* An entry of the I/O APIC lies behind us if the MADT is done.
LEMMA ApicThere ==
  ASSUME OnAMachine, InOrder, Walked, entry = Len(madt) + 1
  PROVE  g_ioapic # NULL
<1>. DEFINE apics == {k \in 1 .. Len(madt) : madt[k].type = "ioapic"}
<1>1. apics # {}
  <2>1. Cardinality(apics) = 1
    BY DEF InOrder
  <2>. HIDE DEF apics
  <2>. QED
    BY <2>1, FS_EmptySet
<1>2. Len(madt) \in Nat /\ entry - 1 = Len(madt)
  BY MadtFacts DEF InOrder
<1>. QED
  BY <1>1, <1>2, MadtFacts DEF Walked, InOrder

LEMMA InitIOAPICStep ==
  ASSUME OnAMachine, RoutingInv, F!InitIOAPIC
  PROVE  RoutingInv'
<1>1. /\ pc = "ioapic" /\ UNCHANGED <<madt, entry, g_ioapic, g_iso>>
      /\ pc' = IF g_ioapic \in {NULL, LEGACY} THEN "gpt" ELSE "halted"
  BY DEF F!InitIOAPIC, F!tables
<1>2. InOrder' <=> InOrder
  BY <1>1 DEF InOrder, GsiOf
<1>3. SUFFICES ASSUME InOrder PROVE Walked' /\ entry' = Len(madt') + 1 /\ (pc' = "gpt" => Routed')
  BY <1>1, <1>2 DEF RoutingInv
<1>4. Walked /\ entry = Len(madt) + 1 /\ Unrouted
  BY <1>1, <1>3 DEF RoutingInv
<1>5. Walked'
  <2>1. Pairs' = Pairs /\ Overrides(entry - 1)' = Overrides(entry - 1)
    BY <1>1 DEF Pairs, Overrides
  <2>2. \A irq : Agreeing(g_iso, entry - 1, irq)' <=> Agreeing(g_iso, entry - 1, irq)
    BY <1>1 DEF Agreeing, GivenBy, IsOverride
  <2>. QED
    BY <1>1, <1>4, <2>1, <2>2 DEF Walked
<1>6. ASSUME pc' = "gpt" PROVE Routed'
  <2>1. g_ioapic = LEGACY
    BY <1>1, <1>3, <1>4, <1>6, ApicThere
  <2>2. /\ F!UEFIFindGSIForIRQ(F!Keyboard) = GsiOf(F!Keyboard)
        /\ F!UEFIFindGSIForIRQ(F!Mouse) = GsiOf(F!Mouse)
    BY <1>3, <1>4, GsiIs
  <2>3. GsiOf(F!Keyboard) # GsiOf(F!Mouse) /\ GsiOf(F!Keyboard)' = GsiOf(F!Keyboard)
    BY <1>1, <1>3 DEF InOrder, GsiOf
  <2>4. PICK k, m : k = GsiOf(F!Keyboard) /\ m = GsiOf(F!Mouse)
    OBVIOUS
  <2>5. DOMAIN redirection = 0 .. PINS - 1 /\ \A p \in 0 .. PINS - 1 : redirection[p] = 0
    BY <1>4 DEF Unrouted, F!MASKED
  <2>6. /\ DOMAIN redirection' = DOMAIN redirection
        /\ \A p \in DOMAIN redirection :
             redirection'[p] = IF p = m THEN 44 ELSE IF p = k THEN 33 ELSE redirection[p]
    BY <2>1, <2>2, <2>4 DEF F!InitIOAPIC, F!IOAPICRedirectIRQ
  <2>7. {p \in DOMAIN redirection' : redirection'[p] = 33} = {k} \cap DOMAIN redirection'
    BY <2>3, <2>4, <2>5, <2>6
  <2>. QED
    BY <2>3, <2>4, <2>7 DEF Routed
<1>. QED
  BY <1>1, <1>4, <1>5, <1>6

LEMMA RoutingStep ==
  ASSUME OnAMachine, RoutingInv, [BootNext]_boot_vars
  PROVE  RoutingInv'
<1>. DEFINE Early == {"scan", "probe", "frames"}
            Tables == {"scan", "probe", "frames", "madt", "fadt", "ioapic"}
<1>1. CASE S!Storage /\ UNCHANGED <<font, firmware, loader>>
  <2>1. UNCHANGED <<madt, entry, g_ioapic, g_iso, redirection>>
    BY <1>1 DEF firmware
  <2>2. \/ pc' \in Early /\ pc \in Early
        \/ pc' \notin Tables /\ pc \notin Tables \cup {"halted"}
    BY <1>1 DEF S!Storage, S!PciFunction, S!PciScanned, S!ProbePort, S!NoMorePorts, S!NoDisk,
                S!GPTHeader, S!GPTEntries, S!VFSMountFAT32Root
  <2>. QED
    BY <2>1, <2>2, RoutingStays
<1>2. CASE F!Firmware
  <2>1. CASE F!NoMadt
    BY <2>1 DEF F!NoMadt, F!tables, RoutingInv, InOrder
  <2>2. CASE F!MadtEnds
    <3>1. /\ pc = "madt" /\ pc' = "fadt" /\ UNCHANGED <<madt, entry, g_ioapic, g_iso, redirection>>
          /\ F!Ends /\ madt # NULL
      BY <2>2 DEF F!MadtEnds, F!tables, F!found
    <3>2. InOrder => entry = Len(madt) + 1
      <4>1. ASSUME InOrder, entry <= Len(madt) PROVE FALSE
        <5>1. entry \in 1 .. Len(madt)
          BY <4>1, <3>1, MadtFacts DEF RoutingInv, Walked
        <5>. QED
          BY <3>1, <4>1, <5>1 DEF InOrder, F!Ends
      <4>. QED
        BY <3>1, <4>1, MadtFacts DEF RoutingInv, Walked
    <3>3. InOrder' <=> InOrder
      BY <3>1 DEF InOrder, GsiOf
    <3>4. InOrder /\ Walked => Walked'
      <4>1. Pairs' = Pairs /\ Overrides(entry - 1)' = Overrides(entry - 1)
        BY <3>1 DEF Pairs, Overrides
      <4>2. \A irq : Agreeing(g_iso, entry - 1, irq)' <=> Agreeing(g_iso, entry - 1, irq)
        BY <3>1 DEF Agreeing, GivenBy, IsOverride
      <4>. QED
        BY <3>1, <4>1, <4>2 DEF Walked
    <3>. QED
      BY <3>1, <3>2, <3>3, <3>4 DEF RoutingInv, Unrouted
  <2>3. CASE F!NoFadt \/ F!FadtFaults \/ F!AcpiParseFADT
    <3>1. /\ pc = "fadt" /\ pc' \in {"ioapic", "halted"}
          /\ UNCHANGED <<madt, entry, g_ioapic, g_iso, redirection>>
      BY <2>3 DEF F!NoFadt, F!FadtFaults, F!AcpiParseFADT, F!tables, F!found
    <3>2. InOrder' <=> InOrder
      BY <3>1 DEF InOrder, GsiOf
    <3>3. Walked => Walked'
      <4>1. Pairs' = Pairs /\ Overrides(entry - 1)' = Overrides(entry - 1)
        BY <3>1 DEF Pairs, Overrides
      <4>2. \A irq : Agreeing(g_iso, entry - 1, irq)' <=> Agreeing(g_iso, entry - 1, irq)
        BY <3>1 DEF Agreeing, GivenBy, IsOverride
      <4>. QED
        BY <3>1, <4>1, <4>2 DEF Walked
    <3>. QED
      BY <3>1, <3>2, <3>3 DEF RoutingInv, Unrouted
  <2>. QED
    BY <1>2, <2>1, <2>2, <2>3, MadtEntryStep, InitIOAPICStep DEF F!Firmware
<1>3. CASE L!Loader /\ UNCHANGED <<font, storage, firmware>>
  <2>1. UNCHANGED <<madt, entry, g_ioapic, g_iso, redirection>>
    BY <1>3 DEF firmware
  <2>2. \/ pc' = "madt" /\ pc = "frames"
        \/ pc' \notin Tables /\ pc \notin Tables \cup {"halted"}
    BY <1>3, OpenGoes DEF L!Loader, L!init_phys_allocator, L!NoElf, L!SkipSegment, L!MapPage, L!ZeroingFaults,
                L!CopySegment, L!CopyFaults, L!UnStartUserland, L!Loading, L!ToCopy, L!AllocatePage
  <2>. QED
    BY <2>1, <2>2, RoutingStays
<1>4. CASE PrepareFont
  <2>1. UNCHANGED <<madt, entry, g_ioapic, g_iso, redirection>>
    BY <1>4 DEF PrepareFont, firmware
  <2>2. pc' \notin Tables /\ pc \notin Tables \cup {"halted"}
    BY <1>4, FontGoes DEF Tables
  <2>. QED
    BY <2>1, <2>2, RoutingStays
<1>5. CASE UNCHANGED boot_vars
  BY <1>5, RoutingStays DEF boot_vars, firmware
<1>. QED
  BY <1>1, <1>2, <1>3, <1>4, <1>5 DEF BootNext

LEMMA KeyboardIsRouted ==
  ASSUME RoutingInv
  PROVE  KeyboardRouted
BY DEF RoutingInv, KeyboardRouted, Routed

(***************************************************************************)
(* Firmware: the value that switches the machine off                       *)
(***************************************************************************)
\* The first \_S5_ of aml, at k, has the four elements as bytes.
PackageAt(aml, k, a, b) ==
  /\ k \in 1 .. Len(aml) - 11 /\ SubSeq(aml, k, k + 11) = S5Package(a, b)
  /\ \A l \in 1 .. k - 1 : aml[l] # S5_NAME

ShutdownInv ==
  /\ pc \in {"scan", "probe", "frames", "madt", "fadt"} => ~g_S5Info.Found
  /\ g_S5Info.Found => \A a, b \in 0 .. 7 :
       (\E k : PackageAt(F!Dsdt.aml, k, a, b)) => g_S5Info.SLP_TYPb = a

\* A part of a sequence, element by element.
LEMMA PartOf ==
  ASSUME NEW s, IsSequence(s), NEW k \in Nat \ {0}, NEW m \in Nat, m <= Len(s), NEW t,
         SubSeq(s, k, m) = t, NEW j \in Nat, k + j <= m
  PROVE  s[k + j] = t[j + 1]
<1>. DEFINE Elements == {s[n] : n \in 1 .. Len(s)}
<1>1. s \in Seq(Elements)
  BY DEF IsSequence
<1>. HIDE DEF Elements
<1>. QED
  BY <1>1

\* The package's length is taken for a prefix, and so is the first element's
\* prefix: the second value is the first element.
LEMMA SecondIsFirst ==
  ASSUME NEW aml, IsSequence(aml), NEW k, NEW a \in 0 .. 7, NEW b, PackageAt(aml, k, a, b)
  PROVE  F!AcpiScanForS5(aml).Found /\ F!AcpiScanForS5(aml).SLP_TYPb = a
<1>1. k \in Nat \ {0} /\ Len(aml) \in Nat /\ k + 11 <= Len(aml)
  BY SequenceFacts DEF PackageAt
<1>2. PICK t : t = S5Package(a, b)
  OBVIOUS
<1>3. t[1] = S5_NAME /\ t[2] = 18 /\ t[3] = 10 /\ t[4] = 4 /\ t[5] = 10 /\ t[6] = a
  BY <1>2 DEF S5Package
<1>4. \A j \in 0 .. 5 : aml[k + j] = t[j + 1]
  BY <1>1, <1>2, PartOf DEF PackageAt
<1>5. /\ aml[k] = S5_NAME /\ aml[k + 1] = 18 /\ aml[k + 2] = 10 /\ aml[k + 3] = 4
      /\ aml[k + 4] = 10 /\ aml[k + 5] = a
  <2>1. 0 \in 0 .. 5 /\ 1 \in 0 .. 5 /\ 2 \in 0 .. 5 /\ 3 \in 0 .. 5 /\ 4 \in 0 .. 5 /\ 5 \in 0 .. 5
    OBVIOUS
  <2>2. k + 0 = k
    BY <1>1
  <2>. QED
    BY <1>3, <1>4, <2>1, <2>2
<1>6. F!First(aml, k) = k + 2 /\ F!Prefixes(aml, k + 2) # {}
  <2>1. /\ F!Prefixes(aml, k + 2) \in SUBSET Nat /\ k + 2 \in F!Prefixes(aml, k + 2)
        /\ \A l \in F!Prefixes(aml, k + 2) : k + 2 <= l
    BY <1>1, <1>5 DEF F!Prefixes, F!BytePrefix
  <2>2. Minimum(F!Prefixes(aml, k + 2)) = k + 2
    BY <2>1, MinimumIs
  <2>. QED
    BY <2>1, <2>2 DEF F!First, F!Least, Minimum
<1>7. F!Second(aml, k) = k + 4 /\ F!Prefixes(aml, F!First(aml, k) + 2) # {}
  <2>0. F!First(aml, k) + 2 = k + 4
    BY <1>1, <1>6
  <2>1. /\ F!Prefixes(aml, k + 4) \in SUBSET Nat /\ k + 4 \in F!Prefixes(aml, k + 4)
        /\ \A l \in F!Prefixes(aml, k + 4) : k + 4 <= l
    BY <1>1, <1>5 DEF F!Prefixes, F!BytePrefix
  <2>2. Minimum(F!Prefixes(aml, k + 4)) = k + 4
    BY <2>1, MinimumIs
  <2>. QED
    BY <2>0, <2>1, <2>2 DEF F!Second, F!Least, Minimum
<1>. DEFINE names == {n \in 1 .. Len(aml) - 1 : aml[n] = S5_NAME /\ aml[n + 1] = F!PackageOp}
            good  == {n \in names : /\ F!Prefixes(aml, n + 2) # {}
                                    /\ F!Prefixes(aml, F!First(aml, n) + 2) # {}}
<1>8. k \in good /\ good \in SUBSET Nat /\ \A l \in good : k <= l
  <2>1. k \in names
    BY <1>1, <1>5 DEF F!PackageOp
  <2>2. \A l \in names : k <= l
    <3>1. ASSUME NEW l \in names PROVE k <= l
      <4>1. l \in 1 .. k - 1 \/ k <= l
        BY <1>1
      <4>. QED
        BY <4>1 DEF PackageAt
    <3>. QED
      BY <3>1
  <2>3. names \in SUBSET Nat
    OBVIOUS
  <2>. HIDE DEF names
  <2>. QED
    BY <1>6, <1>7, <2>1, <2>2, <2>3
<1>9. F!AcpiScanForS5(aml) =
        IF good = {} THEN g_S5Info
        ELSE [Found |-> TRUE, SLP_TYPa |-> aml[F!First(aml, Minimum(good)) + 1] % 128,
              SLP_TYPb |-> aml[F!Second(aml, Minimum(good)) + 1] % 128]
  BY DEF F!AcpiScanForS5, F!Least, Minimum
<1>. HIDE DEF good
<1>10. Minimum(good) = k
  BY <1>8, MinimumIs
<1>11. F!AcpiScanForS5(aml) = [Found |-> TRUE, SLP_TYPa |-> aml[F!First(aml, k) + 1] % 128,
                               SLP_TYPb |-> aml[F!Second(aml, k) + 1] % 128]
  BY <1>8, <1>9, <1>10
<1>12. F!Second(aml, k) + 1 = k + 5 /\ a % 128 = a
  BY <1>1, <1>7
<1>. QED
  BY <1>5, <1>11, <1>12

LEMMA InitShutdown == BootInit => ShutdownInv
BY DEF BootInit, F!InitFirmware, ShutdownInv

LEMMA ShutdownStays ==
  ASSUME ShutdownInv, UNCHANGED <<fadt, dsdts, g_S5Info>>,
         \/ pc' \notin {"scan", "probe", "frames", "madt", "fadt"}
         \/ pc \in {"scan", "probe", "frames", "madt", "fadt"}
  PROVE  ShutdownInv'
<1>1. F!Dsdt' = F!Dsdt
  BY DEF F!Dsdt
<1>2. PICK aml : aml = F!Dsdt.aml
  OBVIOUS
<1>3. F!Dsdt.aml' = aml
  BY <1>1, <1>2
<1>4. \A k, a, b : PackageAt(F!Dsdt.aml, k, a, b)' <=> PackageAt(F!Dsdt.aml, k, a, b)
  BY <1>1 DEF PackageAt, S5Package
<1>. QED
  BY <1>4 DEF ShutdownInv

LEMMA ParseStep ==
  ASSUME OnAMachine, ShutdownInv, F!AcpiParseFADT
  PROVE  ShutdownInv'
<1>1. pc = "fadt" /\ pc' = "ioapic" /\ fadt # NULL /\ UNCHANGED <<fadt, dsdts>> /\ ~g_S5Info.Found
  BY DEF F!AcpiParseFADT, F!tables, ShutdownInv
<1>2. IsSequence(F!Dsdt.aml)
  <2>1. /\ \A d \in DOMAIN dsdts : IsSequence(dsdts[d].aml)
        /\ fadt.dsdt \in DOMAIN dsdts /\ fadt.x_dsdt \in DOMAIN dsdts \cup {NULL}
    BY <1>1, MachinesAssumption DEF OnAMachine, Of
  <2>. QED
    BY <2>1 DEF F!Dsdt
<1>3. F!Dsdt' = F!Dsdt
  BY <1>1 DEF F!Dsdt
<1>4. PICK aml : aml = F!Dsdt.aml
  OBVIOUS
<1>5. ASSUME g_S5Info'.Found PROVE g_S5Info' = F!AcpiScanForS5(aml)
  BY <1>1, <1>4, <1>5 DEF F!AcpiParseFADT
<1>6. ASSUME g_S5Info'.Found, NEW a \in 0 .. 7, NEW b \in 0 .. 7, NEW k,
             PackageAt(F!Dsdt.aml, k, a, b)'
      PROVE  g_S5Info'.SLP_TYPb = a
  <2>1. PackageAt(aml, k, a, b)
    BY <1>3, <1>4, <1>6 DEF PackageAt, S5Package
  <2>. QED
    BY <1>2, <1>4, <1>5, <1>6, <2>1, SecondIsFirst
<1>. QED
  BY <1>1, <1>6 DEF ShutdownInv

LEMMA ShutdownStep ==
  ASSUME OnAMachine, ShutdownInv, [BootNext]_boot_vars
  PROVE  ShutdownInv'
<1>. DEFINE Early == {"scan", "probe", "frames", "madt", "fadt"}
<1>1. UNCHANGED <<fadt, dsdts>>
  BY MachineStays
<1>2. CASE S!Storage /\ UNCHANGED <<font, firmware, loader>>
  <2>1. UNCHANGED g_S5Info
    BY <1>2 DEF firmware
  <2>2. pc' \in Early => pc \in Early
    BY <1>2 DEF S!Storage, S!PciFunction, S!PciScanned, S!ProbePort, S!NoMorePorts, S!NoDisk,
                S!GPTHeader, S!GPTEntries, S!VFSMountFAT32Root
  <2>. QED
    BY <1>1, <2>1, <2>2, ShutdownStays
<1>3. CASE F!Firmware
  <2>1. CASE F!NoMadt \/ F!MadtEnds \/ F!MadtEntry \/ F!NoFadt \/ F!FadtFaults \/ F!InitIOAPIC
    <3>1. UNCHANGED g_S5Info /\ (pc' \in Early => pc \in Early)
      BY <2>1 DEF F!NoMadt, F!MadtEnds, F!MadtEntry, F!NoFadt, F!FadtFaults, F!InitIOAPIC, F!found
    <3>. QED
      BY <1>1, <3>1, ShutdownStays
  <2>. QED
    BY <1>3, <2>1, ParseStep DEF F!Firmware
<1>4. CASE L!Loader /\ UNCHANGED <<font, storage, firmware>>
  <2>1. UNCHANGED g_S5Info
    BY <1>4 DEF firmware
  <2>2. pc' \in Early => pc \in Early
    BY <1>4, OpenGoes DEF L!Loader, L!init_phys_allocator, L!NoElf, L!SkipSegment, L!MapPage, L!ZeroingFaults,
                L!CopySegment, L!CopyFaults, L!UnStartUserland, L!Loading, L!ToCopy, L!AllocatePage
  <2>. QED
    BY <1>1, <2>1, <2>2, ShutdownStays
<1>5. CASE PrepareFont
  <2>1. UNCHANGED g_S5Info /\ (pc' \in Early => pc \in Early)
    BY <1>5, FontGoes DEF PrepareFont, firmware
  <2>. QED
    BY <1>1, <2>1, ShutdownStays
<1>6. CASE UNCHANGED boot_vars
  BY <1>1, <1>6, ShutdownStays DEF boot_vars, firmware
<1>. QED
  BY <1>2, <1>3, <1>4, <1>5, <1>6 DEF BootNext

LEMMA SmallModulo == \A n \in 0 .. 7 : n % 8 = n
OBVIOUS

LEMMA ShutdownIsS5 ==
  ASSUME ShutdownInv
  PROVE  ShutdownWritesS5
<1>. SUFFICES ASSUME NEW a \in 0 .. 7, NEW b \in 0 .. 7, g_S5Info.Found, g_AcpiPowerReg[1] # 0,
                     NEW k \in 1 .. Len(F!Dsdt.aml) - 11,
                     SubSeq(F!Dsdt.aml, k, k + 11) = S5Package(a, b),
                     \A l \in 1 .. k - 1 : F!Dsdt.aml[l] # S5_NAME
              PROVE  F!AcpiShutdown[1] = a * 2 ^ 10 + F!SLP_EN
  BY DEF ShutdownWritesS5
<1>1. PackageAt(F!Dsdt.aml, k, a, b)
  BY DEF PackageAt
<1>2. g_S5Info.SLP_TYPb = a
  BY <1>1 DEF ShutdownInv
<1>3. 1 \in {w \in 1 .. 2 : g_S5Info.Found /\ g_AcpiPowerReg[w] # 0}
  <2>1. 1 \in 1 .. 2
    OBVIOUS
  <2>. QED
    BY <2>1, Zenon
<1>4. a % 8 = a
  BY SmallModulo
<1>5. F!AcpiShutdown[1] = (a % 8) * 2 ^ 10 + F!SLP_EN
  BY <1>2, <1>3, Zenon DEF F!AcpiShutdown, F!SlpTyp
<1>. QED
  BY <1>4, <1>5, Zenon

(***************************************************************************)
(* Division.                                                               *)
(***************************************************************************)
LEMMA Times ==
  ASSUME NEW n \in Nat, NEW a \in Int, NEW b \in Int, a <= b
  PROVE  n * a \in Int /\ n * a <= n * b
OBVIOUS

LEMMA DivMod ==
  ASSUME NEW a \in Nat, NEW b \in Nat \ {0}
  PROVE  /\ a \div b \in Nat /\ a % b \in 0 .. b - 1
         /\ a = b * (a \div b) + (a % b) /\ b * (a \div b) \in Nat
<1>. DEFINE q == a \div b
            r == a % b
<1>2. q \in Int /\ r \in 0 .. b - 1 /\ a = b * q + r
  OBVIOUS
<1>. HIDE DEF q, r
<1>3. q >= 0
  <2>1. SUFFICES ASSUME q <= -1 PROVE FALSE
    BY <1>2
  <2>2. b * q <= b * (-1)
    BY <1>2, <2>1, Times
  <2>. QED
    BY <1>2, <2>2
<1>4. b * q \in Nat
  BY <1>2, <1>3
<1>5. q \in Nat
  BY <1>2, <1>3
<1>. QED
  BY <1>2, <1>4, <1>5, Zenon DEF q, r

LEMMA DivModIs ==
  ASSUME NEW b \in Nat \ {0}, NEW q \in Nat, NEW r \in 0 .. b - 1
  PROVE  (b * q + r) \div b = q /\ (b * q + r) % b = r
OBVIOUS

LEMMA DivGrows ==
  ASSUME NEW a \in Nat, NEW c \in Nat, NEW b \in Nat \ {0}, a <= c
  PROVE  a \div b <= c \div b
<1>1. PICK p \in Nat, q \in Nat : p = a \div b /\ q = c \div b
  BY DivMod
<1>2. /\ b * p \in Nat /\ a % b \in 0 .. b - 1 /\ a = b * p + (a % b)
      /\ b * q \in Nat /\ c % b \in 0 .. b - 1 /\ c = b * q + (c % b)
  BY <1>1, DivMod
<1>3. SUFFICES ASSUME q + 1 <= p PROVE FALSE
  BY <1>1
<1>4. PICK x, y : x = b * p /\ y = b * q
  OBVIOUS
<1>5. y + b <= x
  <2>1. b * (q + 1) <= b * p
    BY <1>3, Times
  <2>2. b * (q + 1) = b * q + b
    OBVIOUS
  <2>. QED
    BY <1>4, <2>1, <2>2
<1>6. PICK r \in 0 .. b - 1, s \in 0 .. b - 1 : x \in Nat /\ y \in Nat /\ a = x + r /\ c = y + s
  BY <1>2, <1>4
<1>. QED
  BY <1>5, <1>6

(***************************************************************************)
(* Loader: a program, and the pages it takes                               *)
(***************************************************************************)
AllPages(segs) ==
  UNION {PagesFor(segs[s]) : s \in {t \in 1 .. Len(segs) : segs[t].load}}

Sized(s) == s.vaddr \in Nat /\ s.memsz \in Nat /\ s.filesz \in Nat /\ s.offset \in Nat

\* Loadable and Apart of the program with these segments.
Program(segs) ==
  /\ Len(segs) \in Nat
  /\ \A t \in 1 .. Len(segs) : Sized(segs[t])
  /\ \A t \in 1 .. Len(segs) :
       segs[t].load => segs[t].vaddr % PAGE = 0 /\ segs[t].filesz <= segs[t].memsz
  /\ \A s, t \in 1 .. Len(segs) :
       (s # t /\ segs[s].load /\ segs[t].load) => PagesFor(segs[s]) \cap PagesFor(segs[t]) = {}
  /\ \A p, q \in AllPages(segs) : L!EntryOf(p) = L!EntryOf(q) => p = q

LEMMA SizesOf ==
  ASSUME NEW s, Sized(s)
  PROVE  L!FirstOf(s) \in Nat /\ L!PagesOf(s) \in Int
<1>1. s.vaddr \in Nat /\ s.vaddr + s.memsz + PAGE - 1 \in Nat /\ PAGE \in Nat \ {0}
  BY SizesAssumption DEF Sized
<1>2. PICK f, g : f = s.vaddr \div PAGE /\ g = (s.vaddr + s.memsz + PAGE - 1) \div PAGE
  OBVIOUS
<1>3. f \in Nat /\ g \in Nat
  BY <1>1, <1>2, DivMod
<1>. QED
  BY <1>2, <1>3 DEF L!FirstOf, L!PagesOf

LEMMA EntriesOf ==
  ASSUME NEW p \in Nat
  PROVE  L!EntryOf(p) \in 0 .. PT_ENTRIES - 1
BY SizesAssumption, DivMod DEF L!EntryOf

LEMMA PagesAre ==
  ASSUME NEW segs, Program(segs)
  PROVE  /\ AllPages(segs) \subseteq Nat /\ IsFiniteSet(AllPages(segs))
         /\ \A t \in 1 .. Len(segs) : segs[t].load => PagesFor(segs[t]) \subseteq AllPages(segs)
<1>1. \A t \in 1 .. Len(segs) : segs[t].load => PagesFor(segs[t]) \subseteq AllPages(segs)
  BY DEF AllPages
<1>2. AllPages(segs) \subseteq Nat
  <2>1. ASSUME NEW t \in 1 .. Len(segs) PROVE PagesFor(segs[t]) \subseteq Nat
    <3>1. L!FirstOf(segs[t]) \in Nat /\ L!PagesOf(segs[t]) \in Int
      BY SizesOf DEF Program
    <3>. QED
      BY <3>1 DEF PagesFor
  <2>. QED
    BY <2>1 DEF AllPages
<1>3. IsFiniteSet(AllPages(segs))
  <2>. DEFINE pages == AllPages(segs)
              entries == 0 .. PT_ENTRIES - 1
              f == [p \in pages |-> L!EntryOf(p)]
  <2>1. \A p \in pages : L!EntryOf(p) \in entries
    BY <1>2, EntriesOf
  <2>2. f \in Injection(pages, entries)
    <3>1. \A p, q \in pages : L!EntryOf(p) = L!EntryOf(q) => p = q
      BY DEF Program
    <3>. HIDE DEF pages, entries
    <3>. QED
      BY <2>1, <3>1 DEF Injection, IsInjective
  <2>3. IsFiniteSet(entries)
    BY FS_Interval, SizesAssumption
  <2>. HIDE DEF pages, entries, f
  <2>4. IsFiniteSet(pages)
    BY <2>2, <2>3, FS_Injection
  <2>. QED
    BY <2>4 DEF pages
<1>. QED
  BY <1>1, <1>2, <1>3

\* The page of a unit of a segment that begins with a page.
LEMMA PageOfUnit ==
  ASSUME NEW s, Sized(s), s.vaddr % PAGE = 0, NEW u \in Nat
  PROVE  /\ (s.vaddr + u) \div PAGE = L!FirstOf(s) + u \div PAGE
         /\ u < s.memsz => u \div PAGE \in 0 .. L!PagesOf(s) - 1
<1>1. PAGE \in Nat \ {0} /\ s.vaddr \in Nat /\ s.memsz \in Nat
  BY SizesAssumption DEF Sized
<1>2. PICK f, q, r, v : f = s.vaddr \div PAGE /\ q = u \div PAGE /\ r = u % PAGE /\ v = s.vaddr
  OBVIOUS
<1>3. f \in Nat /\ q \in Nat /\ r \in 0 .. PAGE - 1 /\ v = PAGE * f + 0 /\ u = PAGE * q + r
  BY <1>1, <1>2, DivMod
<1>4. PICK h \in Nat : h = f + q /\ PAGE * h = PAGE * f + PAGE * q
  BY <1>1, <1>3
<1>5. (v + u) \div PAGE = h
  <2>1. v + u = PAGE * h + r
    <3>1. PAGE * f \in Int /\ PAGE * q \in Int /\ r \in Int
      BY <1>1, <1>3
    <3>2. PICK x, y : x = PAGE * f /\ y = PAGE * q
      OBVIOUS
    <3>. QED
      BY <1>3, <1>4, <3>1, <3>2
  <2>2. (PAGE * h + r) \div PAGE = h
    BY <1>1, <1>3, DivModIs
  <2>. QED
    BY <2>1, <2>2, Zenon
<1>6. ASSUME u < s.memsz PROVE q < L!PagesOf(s)
  <2>1. PICK m, g : m = s.memsz /\ g = (v + m + PAGE - 1) \div PAGE
    OBVIOUS
  <2>2. v + m + PAGE - 1 \in Nat /\ v + u + PAGE \in Nat /\ v + u + PAGE <= v + m + PAGE - 1
    <3>1. v \in Nat /\ m \in Nat /\ u < m
      BY <1>1, <1>2, <1>6, <2>1, Zenon
    <3>. QED
      BY <1>1, <3>1
  <2>3. g \in Nat /\ (v + u + PAGE) \div PAGE <= g
    BY <1>1, <2>1, <2>2, DivMod, DivGrows
  <2>4. PICK k \in Nat : k = h + 1 /\ PAGE * k = PAGE * h + PAGE
    BY <1>1, <1>4
  <2>5. (v + u + PAGE) \div PAGE = k
    <3>1. v + u + PAGE = PAGE * k + r
      <4>1. v + u = PAGE * h + r
        <5>1. PAGE * f \in Int /\ PAGE * q \in Int /\ r \in Int
          BY <1>1, <1>3
        <5>. QED
          BY <1>3, <1>4, <5>1
      <4>. QED
        BY <1>1, <1>3, <2>4, <4>1
    <3>2. (PAGE * k + r) \div PAGE = k
      BY <1>1, <1>3, DivModIs
    <3>. QED
      BY <3>1, <3>2, Zenon
  <2>6. L!PagesOf(s) = g - f
    BY <1>2, <2>1 DEF L!PagesOf, L!FirstOf
  <2>. QED
    BY <1>3, <1>4, <2>3, <2>4, <2>5, <2>6
<1>7. L!PagesOf(s) \in Int
  BY SizesOf
<1>8. u < s.memsz => q \in 0 .. L!PagesOf(s) - 1
  BY <1>3, <1>6, <1>7
<1>9. h = L!FirstOf(s) + q
  BY <1>2, <1>4, Zenon DEF L!FirstOf
<1>. QED
  BY <1>2, <1>5, <1>8, <1>9, Zenon

\* A page table at a page, and what it may hold.
EntryFor(tbl, p) == tbl[L!EntryOf(p)]
Entries0 == L!Frames \cup {HEAP_FRAME}
IsTable(tbl) == tbl \in [0 .. PT_ENTRIES - 1 -> Entries0]

\* Every page of D has a frame of its own, and only those and the kernel's
\* regions are taken.
Placed(tbl, D) ==
  /\ \A p \in D : EntryFor(tbl, p) \in L!Frames \ Regions
  /\ \A p, q \in D : p # q => EntryFor(tbl, p) # EntryFor(tbl, q)
Claimed(bm, tbl, D) ==
  \A f \in L!Frames : bm[f] = 1 <=> (f \in Regions \/ \E p \in D : f = EntryFor(tbl, p))

\* The same pages are where they were.
Alike(tbl, new, D) == \A p \in D : EntryFor(new, p) = EntryFor(tbl, p)

\* The table with a frame for page p.
With(tbl, p, f) == [tbl EXCEPT ![L!EntryOf(p)] = f]

\* The bitmap with a frame taken, and memory with the frame zeroed.
Taking(bm, f) == [bm EXCEPT ![f] = 1]
Zeroing(ram, f) == [ram EXCEPT ![f] = [u \in 0 .. PAGE - 1 |-> 0]]

LEMMA PlaceOne ==
  ASSUME NEW segs, Program(segs), NEW D \in SUBSET AllPages(segs),
         NEW p \in AllPages(segs), p \notin D,
         NEW tbl, IsTable(tbl), Placed(tbl, D), NEW bm, Claimed(bm, tbl, D),
         NEW f \in L!Frames, bm[f] # 1, NEW new, new = With(tbl, p, f)
  PROVE  Alike(tbl, new, D) /\ Placed(new, D \cup {p})
<1>1. f \notin Regions /\ \A q \in D : EntryFor(tbl, q) # f
  BY DEF Claimed
<1>2. L!EntryOf(p) \in 0 .. PT_ENTRIES - 1
  BY EntriesOf, PagesAre
<1>3. EntryFor(new, p) = f
  BY <1>2 DEF EntryFor, IsTable, With
<1>4. \A q \in D : EntryFor(new, q) = EntryFor(tbl, q)
  <2>1. ASSUME NEW q \in D PROVE EntryFor(new, q) = EntryFor(tbl, q)
    <3>1. L!EntryOf(q) # L!EntryOf(p)
      BY DEF Program
    <3>2. L!EntryOf(q) \in 0 .. PT_ENTRIES - 1
      BY EntriesOf, PagesAre
    <3>. QED
      BY <3>1, <3>2 DEF EntryFor, IsTable, With
  <2>. QED
    BY <2>1
<1>5. Placed(new, D \cup {p})
  <2>. HIDE DEF EntryFor
  <2>. QED
    BY <1>1, <1>3, <1>4 DEF Placed
<1>. QED
  BY <1>4, <1>5 DEF Alike

LEMMA ClaimOne ==
  ASSUME NEW D, NEW p, NEW tbl, NEW new, Alike(tbl, new, D), NEW bm, Claimed(bm, tbl, D),
         NEW f \in L!Frames, EntryFor(new, p) = f,
         bm \in [L!Frames -> 0 .. 1]
  PROVE  Claimed(Taking(bm, f), new, D \cup {p})
<1>1. PICK bits : bits = Taking(bm, f)
  OBVIOUS
<1>2. bits[f] = 1 /\ \A g \in L!Frames : g # f => bits[g] = bm[g]
  BY <1>1 DEF Taking
<1>3. \A g \in L!Frames : (\E q \in D \cup {p} : g = EntryFor(new, q)) <=>
                          (g = f \/ \E q \in D : g = EntryFor(tbl, q))
  BY DEF Alike
<1>4. Claimed(bits, new, D \cup {p})
  BY <1>2, <1>3 DEF Claimed
<1>. QED
  BY <1>1, <1>4

\* palloc_page gives a frame that is free, if there is one.
LEMMA FrameIsFree ==
  ASSUME NEW spare \in L!Frames, page_bitmap[spare] = 0
  PROVE  L!palloc_page \in L!Frames /\ page_bitmap[L!palloc_page] = 0
<1>1. L!Free \in SUBSET Nat /\ L!Next0 \in SUBSET L!Free /\ L!Free # {}
  BY SizesAssumption DEF L!Free, L!Frames, L!Next0
<1>2. PICK T \in SUBSET L!Free : T # {} /\ L!palloc_page = L!Lowest(T)
  BY <1>1 DEF L!palloc_page
<1>3. Minimum(T) \in T
  BY <1>1, <1>2, MinimumOf
<1>4. L!palloc_page \in L!Free
  BY <1>2, <1>3 DEF L!Lowest, Minimum
<1>. QED
  BY <1>4 DEF L!Free

\* The units of a segment as the file gives them, and a page of zeros.
Content(s, tbl, ram) ==
  \A u \in 0 .. s.memsz - 1 :
    ram[EntryFor(tbl, (s.vaddr + u) \div PAGE)][u % PAGE] =
      IF u < s.filesz THEN s.offset + u + 1 ELSE 0
Blank(tbl, ram, p) == \A u \in 0 .. PAGE - 1 : ram[EntryFor(tbl, p)][u] = 0

\* A program's segment that is loaded.
Loaded(s) == Sized(s) /\ s.vaddr % PAGE = 0 /\ s.filesz <= s.memsz

IsMemory(ram) == ram = [f \in L!Frames |-> ram[f]]

LEMMA UnitOfPage ==
  ASSUME NEW s, Loaded(s), NEW u \in 0 .. s.memsz - 1
  PROVE  (s.vaddr + u) \div PAGE \in PagesFor(s)
<1>1. u \in Nat /\ u < s.memsz
  BY DEF Loaded, Sized
<1>2. PICK q, p : q = u \div PAGE /\ p = (s.vaddr + u) \div PAGE
  OBVIOUS
<1>3. p = L!FirstOf(s) + q /\ q \in 0 .. L!PagesOf(s) - 1
  BY <1>1, <1>2, PageOfUnit DEF Loaded
<1>. QED
  BY <1>2, <1>3 DEF PagesFor

LEMMA ContentStays ==
  ASSUME NEW s, Loaded(s), NEW tbl, NEW new, Alike(tbl, new, PagesFor(s)), NEW ram, NEW ram2,
         \A p \in PagesFor(s) : \A x \in 0 .. PAGE - 1 :
           ram2[EntryFor(tbl, p)][x] = ram[EntryFor(tbl, p)][x],
         Content(s, tbl, ram)
  PROVE  Content(s, new, ram2)
<1>1. ASSUME NEW u \in 0 .. s.memsz - 1
      PROVE  ram2[EntryFor(new, (s.vaddr + u) \div PAGE)][u % PAGE] =
               ram[EntryFor(tbl, (s.vaddr + u) \div PAGE)][u % PAGE]
  <2>1. PICK p \in PagesFor(s) : p = (s.vaddr + u) \div PAGE
    BY UnitOfPage
  <2>2. u \in Nat
    BY DEF Loaded, Sized
  <2>3. PICK x \in 0 .. PAGE - 1 : x = u % PAGE
    BY <2>2, SizesAssumption, DivMod
  <2>. QED
    BY <2>1, <2>3 DEF Alike
<1>. QED
  BY <1>1, Zenon DEF Content

\* Where CopySegment puts a segment's units: unit v at the page and the place
\* in it that division gives.
LEMMA TargetOf ==
  ASSUME NEW s, Loaded(s), NEW v \in L!FileUnits(s)
  PROVE  /\ L!Target(s, v) = EntryFor(table, L!FirstOf(s) + v \div PAGE)
         /\ L!FirstOf(s) + v \div PAGE \in PagesFor(s)
<1>1. v \in Nat /\ v < s.memsz
  BY DEF L!FileUnits, Loaded, Sized
<1>2. PICK q : q = v \div PAGE
  OBVIOUS
<1>3. q \in 0 .. L!PagesOf(s) - 1
  BY <1>1, <1>2, PageOfUnit DEF Loaded
<1>. QED
  BY <1>2, <1>3 DEF PagesFor, L!Target, EntryFor

From(s, f, u) == {v \in L!FileUnits(s) : L!Target(s, v) = f /\ v % PAGE = u}

LEMMA CopiedIs ==
  ASSUME NEW s, NEW f \in L!Frames, NEW u \in 0 .. PAGE - 1
  PROVE  L!Copied(s)[f][u] = IF From(s, f, u) = {} THEN memory[f][u]
           ELSE s.offset + 1 + (CHOOSE v \in From(s, f, u) : \A w \in From(s, f, u) : w <= v)
BY DEF L!Copied, From

LEMMA CopiedElsewhere ==
  ASSUME NEW s, Loaded(s), NEW D, Placed(table, D), PagesFor(s) \subseteq D,
         NEW q \in D, q \notin PagesFor(s), NEW u \in 0 .. PAGE - 1
  PROVE  L!Copied(s)[EntryFor(table, q)][u] = memory[EntryFor(table, q)][u]
<1>1. PICK f : f = EntryFor(table, q)
  OBVIOUS
<1>2. f \in L!Frames
  BY <1>1 DEF Placed
<1>3. From(s, f, u) = {}
  <2>1. ASSUME NEW v \in L!FileUnits(s) PROVE L!Target(s, v) # f
    <3>1. PICK p : p = L!FirstOf(s) + v \div PAGE
      OBVIOUS
    <3>2. p \in PagesFor(s) /\ L!Target(s, v) = EntryFor(table, p)
      BY <3>1, TargetOf
    <3>. QED
      BY <1>1, <3>2 DEF Placed
  <2>. QED
    BY <2>1 DEF From
<1>. QED
  BY <1>1, <1>2, <1>3, CopiedIs

LEMMA CopiedHere ==
  ASSUME NEW s, Loaded(s), NEW D, Placed(table, D), PagesFor(s) \subseteq D,
         \A p \in PagesFor(s) : Blank(table, memory, p)
  PROVE  Content(s, table, L!Copied(s))
<1>. SUFFICES ASSUME NEW u \in 0 .. s.memsz - 1
              PROVE  L!Copied(s)[EntryFor(table, (s.vaddr + u) \div PAGE)][u % PAGE] =
                       IF u < s.filesz THEN s.offset + u + 1 ELSE 0
  BY DEF Content
<1>1. u \in Nat /\ u < s.memsz /\ PAGE \in Nat \ {0}
  BY SizesAssumption DEF Loaded, Sized
<1>2. PICK k, r, p : k = u \div PAGE /\ r = u % PAGE /\ p = (s.vaddr + u) \div PAGE
  OBVIOUS
<1>3. /\ k \in 0 .. L!PagesOf(s) - 1 /\ p = L!FirstOf(s) + k
      /\ k \in Nat /\ r \in 0 .. PAGE - 1 /\ u = PAGE * k + r
  BY <1>1, <1>2, PageOfUnit, DivMod DEF Loaded
<1>4. p \in PagesFor(s)
  BY <1>3 DEF PagesFor
<1>5. PICK f \in L!Frames : f = EntryFor(table, p)
  BY <1>4 DEF Placed
<1>6. ASSUME NEW v \in From(s, f, r) PROVE v = u
  <2>1. v \in L!FileUnits(s) /\ L!Target(s, v) = f /\ v % PAGE = r
    BY <1>6 DEF From
  <2>2. PICK l : l = v \div PAGE
    OBVIOUS
  <2>3. L!FirstOf(s) + l \in PagesFor(s) /\ EntryFor(table, L!FirstOf(s) + l) = f
    BY <2>1, <2>2, TargetOf
  <2>4. L!FirstOf(s) + l = p
    BY <1>4, <1>5, <2>3 DEF Placed
  <2>5. v \in Nat
    BY <2>1 DEF L!FileUnits, Loaded, Sized
  <2>6. l \in Nat /\ v = PAGE * l + r
    BY <1>1, <2>1, <2>2, <2>5, DivMod
  <2>7. l = k
    BY <1>3, <2>4, <2>6, SizesOf DEF Loaded
  <2>. QED
    BY <1>3, <2>6, <2>7
<1>7. CASE u < s.filesz
  <2>1. u \in L!FileUnits(s)
    BY <1>1, <1>7 DEF L!FileUnits, Loaded, Sized
  <2>2. L!Target(s, u) = f
    BY <1>2, <1>3, <1>5, <2>1, TargetOf
  <2>3. From(s, f, r) = {u}
    BY <1>2, <1>6, <2>1, <2>2 DEF From
  <2>4. (CHOOSE v \in {u} : \A w \in {u} : w <= v) = u
    BY <1>1
  <2>5. L!Copied(s)[f][r] = s.offset + 1 + u
    BY <1>3, <1>5, <2>3, <2>4, CopiedIs
  <2>6. s.offset + 1 + u = s.offset + u + 1
    BY <1>1 DEF Loaded, Sized
  <2>. QED
    BY <1>2, <1>5, <1>7, <2>5, <2>6
<1>8. CASE ~(u < s.filesz)
  <2>1. From(s, f, r) = {}
    BY <1>1, <1>6, <1>8 DEF From, L!FileUnits, Loaded, Sized
  <2>2. L!Copied(s)[f][r] = 0
    BY <1>3, <1>4, <1>5, <2>1, CopiedIs DEF Blank
  <2>. QED
    BY <1>2, <1>5, <1>8, <2>2
<1>. QED
  BY <1>7, <1>8

\* The pages that have a frame when Elf64Load is at page of of segment sg.
Done(segs, sg, of) ==
  {p \in AllPages(segs) : \E t \in 1 .. Len(segs) :
     /\ segs[t].load /\ p \in PagesFor(segs[t])
     /\ t < sg \/ (t = sg /\ p < L!FirstOf(segs[t]) + of)}

LEMMA DoneNone ==
  ASSUME NEW segs, Program(segs)
  PROVE  Done(segs, 1, 0) = {} /\ Done(segs, Len(segs) + 1, 0) = AllPages(segs)
<1>1. ASSUME NEW t \in 1 .. Len(segs), NEW p \in PagesFor(segs[t])
      PROVE  ~(p < L!FirstOf(segs[t]) + 0)
  <2>1. L!FirstOf(segs[t]) \in Nat /\ L!PagesOf(segs[t]) \in Int
    BY SizesOf DEF Program
  <2>. QED
    BY <2>1 DEF PagesFor
<1>2. \A t \in 1 .. Len(segs) : ~(t < 1) /\ t < Len(segs) + 1
  BY DEF Program
<1>3. Done(segs, 1, 0) = {}
  BY <1>1, <1>2, Zenon DEF Done
<1>4. \A p \in AllPages(segs) : \E t \in 1 .. Len(segs) : segs[t].load /\ p \in PagesFor(segs[t])
  BY DEF AllPages
<1>. QED
  BY <1>2, <1>3, <1>4, Zenon DEF Done

LEMMA DoneNext ==
  ASSUME NEW segs, Program(segs), NEW sg \in 1 .. Len(segs), segs[sg].load,
         NEW of \in Nat, of < L!PagesOf(segs[sg]), NEW p, p = L!FirstOf(segs[sg]) + of
  PROVE  /\ p \in PagesFor(segs[sg]) /\ p \in AllPages(segs) /\ p \notin Done(segs, sg, of)
         /\ Done(segs, sg, of + 1) = Done(segs, sg, of) \cup {p}
<1>1. PICK first : first = L!FirstOf(segs[sg])
  OBVIOUS
<1>2. first \in Nat /\ L!PagesOf(segs[sg]) \in Int
  BY <1>1, SizesOf DEF Program
<1>3. p = first + of /\ p \in PagesFor(segs[sg])
  BY <1>1, <1>2 DEF PagesFor
<1>4. p \in AllPages(segs) /\ AllPages(segs) \subseteq Nat
  BY <1>3, PagesAre
<1>5. ASSUME NEW t \in 1 .. Len(segs), segs[t].load, p \in PagesFor(segs[t]) PROVE t = sg
  BY <1>3, <1>5 DEF Program
<1>6. sg \in Nat /\ ~(sg < sg)
  BY DEF Program
<1>7. p \notin Done(segs, sg, of)
  <2>1. ~(p < first + of)
    BY <1>2, <1>3
  <2>. QED
    BY <1>1, <1>5, <1>6, <2>1 DEF Done
<1>8. \A q \in AllPages(segs) : q < first + (of + 1) <=> q < first + of \/ q = p
  BY <1>2, <1>3, <1>4
<1>9. ASSUME NEW q \in AllPages(segs)
      PROVE  q \in Done(segs, sg, of + 1) <=> q \in Done(segs, sg, of) \/ q = p
  BY <1>1, <1>3, <1>8, Zenon DEF Done
<1>. QED
  BY <1>3, <1>4, <1>7, <1>9, Zenon DEF Done

LEMMA DoneOver ==
  ASSUME NEW segs, Program(segs), NEW sg \in 1 .. Len(segs), NEW of \in Nat,
         \/ segs[sg].load /\ of = L!PagesOf(segs[sg])
         \/ ~segs[sg].load
  PROVE  Done(segs, sg + 1, 0) = Done(segs, sg, of)
<1>1. \A t \in 1 .. Len(segs) : (t < sg + 1 <=> t < sg \/ t = sg) /\ (t = sg + 1 => ~(t < sg) /\ t # sg)
  BY DEF Program
<1>2. ASSUME NEW t \in 1 .. Len(segs), NEW p \in PagesFor(segs[t])
      PROVE  ~(p < L!FirstOf(segs[t]) + 0) /\ p < L!FirstOf(segs[t]) + L!PagesOf(segs[t])
  <2>1. L!FirstOf(segs[t]) \in Nat /\ L!PagesOf(segs[t]) \in Int
    BY SizesOf DEF Program
  <2>2. PICK k \in 0 .. L!PagesOf(segs[t]) - 1 : p = L!FirstOf(segs[t]) + k
    BY DEF PagesFor
  <2>. QED
    BY <2>1, <2>2
<1>3. ASSUME NEW t \in 1 .. Len(segs), segs[t].load, NEW p \in PagesFor(segs[t])
      PROVE  (t < sg + 1 \/ (t = sg + 1 /\ p < L!FirstOf(segs[t]) + 0)) <=>
             (t < sg \/ (t = sg /\ p < L!FirstOf(segs[t]) + of))
  BY <1>1, <1>2, <1>3
<1>. QED
  BY <1>3, Zenon DEF Done

(***************************************************************************)
(* Loader: what holds while the segments are loaded                        *)
(***************************************************************************)
Loads(segs, sg) == sg <= Len(segs) /\ segs[sg].load

Progress(segs, sg, of, tbl, ram) ==
  /\ sg \in 1 .. Len(segs) + 1 /\ of \in Nat
  /\ ~Loads(segs, sg) => of = 0
  /\ Placed(tbl, Done(segs, sg, of))
  /\ \A t \in 1 .. Len(segs) : (t < sg /\ segs[t].load) => Content(segs[t], tbl, ram)
  /\ Loads(segs, sg) =>
       \A p \in PagesFor(segs[sg]) : p < L!FirstOf(segs[sg]) + of => Blank(tbl, ram, p)

LEMMA ProgramSegments ==
  ASSUME NEW segs, Program(segs)
  PROVE  \A t \in 1 .. Len(segs) : segs[t].load => Loaded(segs[t])
BY DEF Program, Loaded

LEMMA ProgressBegins ==
  ASSUME NEW segs, Program(segs), NEW tbl, NEW ram
  PROVE  Progress(segs, 1, 0, tbl, ram)
<1>1. Placed(tbl, Done(segs, 1, 0))
  BY DoneNone DEF Placed
<1>2. Loads(segs, 1) => \A p \in PagesFor(segs[1]) : ~(p < L!FirstOf(segs[1]) + 0)
  <2>1. ASSUME Loads(segs, 1), NEW p \in PagesFor(segs[1]) PROVE ~(p < L!FirstOf(segs[1]) + 0)
    <3>1. 1 \in 1 .. Len(segs)
      BY <2>1 DEF Loads, Program
    <3>2. L!FirstOf(segs[1]) \in Nat /\ L!PagesOf(segs[1]) \in Int
      BY <3>1, SizesOf DEF Program
    <3>. QED
      BY <2>1, <3>2 DEF PagesFor
  <2>. QED
    BY <2>1
<1>. QED
  BY <1>1, <1>2 DEF Progress, Program

\* MapPage, with the frame f.
LEMMA ProgressMaps ==
  ASSUME NEW segs, Program(segs), NEW sg, NEW of, NEW tbl, NEW ram, Progress(segs, sg, of, tbl, ram),
         Loads(segs, sg), of < L!PagesOf(segs[sg]), NEW p, p = L!FirstOf(segs[sg]) + of,
         IsTable(tbl), IsMemory(ram), NEW bm, Claimed(bm, tbl, Done(segs, sg, of)),
         bm \in [L!Frames -> 0 .. 1], NEW f \in L!Frames, bm[f] # 1
  PROVE  /\ Progress(segs, sg, of + 1, With(tbl, p, f), Zeroing(ram, f))
         /\ Claimed(Taking(bm, f), With(tbl, p, f), Done(segs, sg, of + 1))
<1>. DEFINE D == Done(segs, sg, of)
<1>0. sg \in 1 .. Len(segs) /\ of \in Nat /\ Len(segs) \in Nat /\ segs[sg].load
  BY DEF Progress, Loads, Program
<1>1. /\ p \in PagesFor(segs[sg]) /\ p \in AllPages(segs) /\ p \notin D
      /\ Done(segs, sg, of + 1) = D \cup {p}
  BY <1>0, DoneNext
<1>2. PICK new, ram2 : new = With(tbl, p, f) /\ ram2 = Zeroing(ram, f)
  OBVIOUS
<1>3. D \in SUBSET AllPages(segs) /\ Placed(tbl, D) /\ Claimed(bm, tbl, D)
  BY DEF Done, Progress
<1>. HIDE DEF D
<1>4. /\ EntryFor(new, p) = f /\ Alike(tbl, new, D) /\ Placed(new, D \cup {p})
      /\ \A q \in D : EntryFor(tbl, q) # f
  <2>1. Alike(tbl, new, D) /\ Placed(new, D \cup {p})
    <3>1. p \in AllPages(segs) /\ p \notin D /\ new = With(tbl, p, f)
      BY <1>1, <1>2
    <3>2. Alike(tbl, new, D)
      BY <1>3, <3>1, PlaceOne
    <3>3. Placed(new, D \cup {p})
      BY <1>3, <3>1, PlaceOne
    <3>. QED
      BY <3>2, <3>3
  <2>2. EntryFor(new, p) = f
    <3>1. L!EntryOf(p) \in 0 .. PT_ENTRIES - 1
      BY <1>1, EntriesOf, PagesAre
    <3>. QED
      BY <1>2, <3>1 DEF EntryFor, IsTable, With
  <2>3. \A q \in D : EntryFor(tbl, q) # f
    BY <1>3 DEF Claimed
  <2>. QED
    BY <2>1, <2>2, <2>3
<1>5. Claimed(Taking(bm, f), new, D \cup {p})
  BY <1>3, <1>4, ClaimOne
<1>6. ram2[f] = [u \in 0 .. PAGE - 1 |-> 0] /\ \A g \in L!Frames : g # f => ram2[g] = ram[g]
  BY <1>2 DEF IsMemory, Zeroing
<1>7. \A q \in D : ram2[EntryFor(tbl, q)] = ram[EntryFor(tbl, q)] /\ EntryFor(new, q) = EntryFor(tbl, q)
  BY <1>3, <1>4, <1>6 DEF Placed, Alike
<1>8. ASSUME NEW t \in 1 .. Len(segs), t < sg, segs[t].load PROVE Content(segs[t], new, ram2)
  <2>1. Loaded(segs[t]) /\ Content(segs[t], tbl, ram)
    BY <1>8, ProgramSegments DEF Progress
  <2>2. PagesFor(segs[t]) \subseteq D
    <3>1. PagesFor(segs[t]) \subseteq AllPages(segs)
      BY <1>8, PagesAre
    <3>. QED
      BY <1>8, <3>1 DEF D, Done
  <2>3. Alike(tbl, new, PagesFor(segs[t]))
    BY <1>7, <2>2 DEF Alike
  <2>4. \A q \in PagesFor(segs[t]) : \A x \in 0 .. PAGE - 1 :
          ram2[EntryFor(tbl, q)][x] = ram[EntryFor(tbl, q)][x]
    BY <1>7, <2>2
  <2>. QED
    BY <2>1, <2>3, <2>4, ContentStays
<1>9. ASSUME NEW q \in PagesFor(segs[sg]), q < L!FirstOf(segs[sg]) + (of + 1)
      PROVE  Blank(new, ram2, q)
  <2>1. PICK first \in Nat : first = L!FirstOf(segs[sg])
    BY <1>0, SizesOf DEF Program
  <2>2. q \in Nat /\ q \in AllPages(segs)
    BY <1>0, PagesAre
  <2>3. CASE q = p
    BY <1>4, <1>6, <2>3 DEF Blank
  <2>4. CASE q # p
    <3>1. q < L!FirstOf(segs[sg]) + of
      BY <1>0, <1>9, <2>1, <2>2, <2>4
    <3>2. Blank(tbl, ram, q)
      BY <3>1 DEF Progress
    <3>3. q \in D
      BY <1>0, <2>2, <3>1 DEF D, Done
    <3>. QED
      BY <1>7, <3>2, <3>3 DEF Blank
  <2>. QED
    BY <2>3, <2>4
<1>10. Progress(segs, sg, of + 1, new, ram2)
  <2>1. sg \in 1 .. Len(segs) + 1 /\ of + 1 \in Nat
    BY <1>0
  <2>2. Placed(new, Done(segs, sg, of + 1))
    BY <1>1, <1>4
  <2>. QED
    BY <1>8, <1>9, <2>1, <2>2 DEF Progress
<1>. QED
  BY <1>1, <1>2, <1>5, <1>10

\* The next segment, when all pages of this one are done or it has none.
LEMMA ProgressGoesOn ==
  ASSUME NEW segs, Program(segs), NEW sg \in 1 .. Len(segs), NEW of \in Nat, NEW tbl, NEW ram,
         \/ segs[sg].load /\ of = L!PagesOf(segs[sg])
         \/ ~segs[sg].load,
         Placed(tbl, Done(segs, sg, of)),
         \A t \in 1 .. Len(segs) : (t < sg + 1 /\ segs[t].load) => Content(segs[t], tbl, ram)
  PROVE  Progress(segs, sg + 1, 0, tbl, ram)
<1>1. Placed(tbl, Done(segs, sg + 1, 0))
  BY DoneOver
<1>2. Len(segs) \in Nat
  BY DEF Program
<1>3. ASSUME Loads(segs, sg + 1), NEW p \in PagesFor(segs[sg + 1])
      PROVE  ~(p < L!FirstOf(segs[sg + 1]) + 0)
  <2>1. PICK t \in 1 .. Len(segs) : t = sg + 1
    BY <1>2, <1>3 DEF Loads
  <2>2. L!FirstOf(segs[t]) \in Nat /\ L!PagesOf(segs[t]) \in Int
    BY SizesOf DEF Program
  <2>. QED
    BY <1>3, <2>1, <2>2 DEF PagesFor
<1>4. sg + 1 \in 1 .. Len(segs) + 1 /\ 0 \in Nat
  BY <1>2
<1>. QED
  BY <1>1, <1>3, <1>4 DEF Progress

\* A part of the pages is placed as all of them are.
LEMMA PagesDone ==
  ASSUME NEW segs, Program(segs), NEW sg, NEW of, NEW t \in 1 .. Len(segs), segs[t].load,
         \/ t < sg
         \/ t = sg /\ of = L!PagesOf(segs[t])
  PROVE  PagesFor(segs[t]) \subseteq Done(segs, sg, of)
<1>1. PagesFor(segs[t]) \subseteq AllPages(segs)
  BY PagesAre
<1>2. L!FirstOf(segs[t]) \in Nat /\ L!PagesOf(segs[t]) \in Int
  BY SizesOf DEF Program
<1>3. \A p \in PagesFor(segs[t]) : p < L!FirstOf(segs[t]) + L!PagesOf(segs[t])
  BY <1>2 DEF PagesFor
<1>. QED
  BY <1>1, <1>3 DEF Done

\* CopySegment.
LEMMA ProgressCopies ==
  ASSUME NEW segs, Program(segs), NEW sg, NEW of, Progress(segs, sg, of, table, memory),
         Loads(segs, sg), of = L!PagesOf(segs[sg])
  PROVE  Progress(segs, sg + 1, 0, table, L!Copied(segs[sg]))
<1>. DEFINE D == Done(segs, sg, of)
<1>1. sg \in 1 .. Len(segs) /\ of \in Nat /\ segs[sg].load /\ Loaded(segs[sg]) /\ Len(segs) \in Nat
  <2>1. Len(segs) \in Nat /\ sg \in 1 .. Len(segs) + 1 /\ sg <= Len(segs) /\ segs[sg].load /\ of \in Nat
    BY DEF Progress, Loads, Program
  <2>2. sg \in 1 .. Len(segs)
    BY <2>1
  <2>. QED
    BY <2>1, <2>2, ProgramSegments
<1>2. PagesFor(segs[sg]) \subseteq D /\ Placed(table, D)
  BY <1>1, PagesDone DEF Progress
<1>3. PICK ram : ram = L!Copied(segs[sg])
  OBVIOUS
<1>. HIDE DEF D
<1>4. Content(segs[sg], table, ram)
  <2>1. L!FirstOf(segs[sg]) \in Nat /\ L!PagesOf(segs[sg]) \in Int
    BY <1>1, SizesOf DEF Loaded
  <2>2. \A p \in PagesFor(segs[sg]) : p < L!FirstOf(segs[sg]) + of
    BY <2>1 DEF PagesFor
  <2>3. \A p \in PagesFor(segs[sg]) : Blank(table, memory, p)
    BY <2>2 DEF Progress
  <2>. QED
    BY <1>1, <1>2, <1>3, <2>3, CopiedHere
<1>5. ASSUME NEW t \in 1 .. Len(segs), t < sg, segs[t].load PROVE Content(segs[t], table, ram)
  <2>1. Loaded(segs[t]) /\ Content(segs[t], table, memory)
    BY <1>5, ProgramSegments DEF Progress
  <2>2. PagesFor(segs[t]) \subseteq D
    BY <1>5, PagesDone DEF D
  <2>3. PagesFor(segs[t]) \cap PagesFor(segs[sg]) = {}
    <3>1. t # sg
      BY <1>1, <1>5
    <3>. QED
      BY <1>1, <1>5, <3>1, Zenon DEF Program
  <2>4. \A q \in PagesFor(segs[t]) : \A x \in 0 .. PAGE - 1 :
          ram[EntryFor(table, q)][x] = memory[EntryFor(table, q)][x]
    <3>1. ASSUME NEW q \in PagesFor(segs[t]), NEW x \in 0 .. PAGE - 1
          PROVE  ram[EntryFor(table, q)][x] = memory[EntryFor(table, q)][x]
      <4>1. q \in D /\ q \notin PagesFor(segs[sg])
        BY <2>2, <2>3
      <4>. QED
        BY <1>1, <1>2, <1>3, <4>1, CopiedElsewhere
    <3>. QED
      BY <3>1
  <2>5. Alike(table, table, PagesFor(segs[t]))
    BY DEF Alike
  <2>. QED
    BY <2>1, <2>4, <2>5, ContentStays
<1>6. \A t \in 1 .. Len(segs) : (t < sg + 1 /\ segs[t].load) => Content(segs[t], table, ram)
  <2>1. \A t \in 1 .. Len(segs) : t < sg + 1 <=> t < sg \/ t = sg
    BY <1>1
  <2>. QED
    BY <1>4, <1>5, <2>1
<1>7. Progress(segs, sg + 1, 0, table, ram)
  BY <1>1, <1>2, <1>6, ProgressGoesOn DEF D
<1>. QED
  BY <1>3, <1>7

\* SkipSegment.
LEMMA ProgressSkips ==
  ASSUME NEW segs, Program(segs), NEW sg \in 1 .. Len(segs), NEW of, NEW tbl, NEW ram,
         Progress(segs, sg, of, tbl, ram), ~segs[sg].load
  PROVE  of = 0 /\ Progress(segs, sg + 1, of, tbl, ram)
<1>1. of = 0 /\ Placed(tbl, Done(segs, sg, of)) /\ of \in Nat
  BY DEF Progress, Loads
<1>2. \A t \in 1 .. Len(segs) : (t < sg + 1 /\ segs[t].load) => Content(segs[t], tbl, ram)
  <2>1. \A t \in 1 .. Len(segs) : t < sg + 1 <=> t < sg \/ t = sg
    BY DEF Program
  <2>. QED
    BY <2>1 DEF Progress
<1>. QED
  BY <1>1, <1>2, ProgressGoesOn

\* The program is there when its segments are.
LEMMA ProgressEnds ==
  ASSUME NEW segs, Program(segs), NEW sg, sg = Len(segs) + 1, NEW of, NEW tbl, NEW ram,
         Progress(segs, sg, of, tbl, ram)
  PROVE  /\ Placed(tbl, AllPages(segs))
         /\ \A t \in 1 .. Len(segs) : segs[t].load => Content(segs[t], tbl, ram)
<1>1. Len(segs) \in Nat /\ ~(sg <= Len(segs)) /\ \A t \in 1 .. Len(segs) : t < sg
  BY DEF Program
<1>2. of = 0 /\ Placed(tbl, Done(segs, sg, of))
  BY <1>1 DEF Progress, Loads
<1>. QED
  BY <1>1, <1>2, DoneNone DEF Progress

LEMMA AlignUpIs ==
  ASSUME NEW n \in Nat
  PROVE  L!AlignUp(n) \in Nat
<1>1. PICK q : q = (n + HEAP_ALIGN - 1) \div HEAP_ALIGN
  OBVIOUS
<1>2. n + HEAP_ALIGN - 1 \in Nat /\ HEAP_ALIGN \in Nat \ {0}
  BY SizesAssumption
<1>3. q \in Nat
  BY <1>1, <1>2, DivMod
<1>4. q * HEAP_ALIGN \in Nat
  BY <1>2, <1>3
<1>. QED
  BY <1>1, <1>4, Zenon DEF L!AlignUp

IsBitmap(bm) == bm \in [L!Frames -> 0 .. 1]
IsFile == file # NULL /\ file.type = "file"

\* A frame that cannot be zeroed is left until the attempt stops the machine.
Spare(bm) == \E f \in L!Frames : f \notin Regions /\ f \notin IDENTITY /\ bm[f] = 0

\* Types, and that what is loaded is a file.
LoaderTypes ==
  /\ pc \in Stages /\ heap_curr \in Nat
  /\ IsBitmap(page_bitmap) /\ IsTable(table) /\ IsMemory(memory)
  /\ pc # "reset" => Spare(page_bitmap)
  /\ seg \in Nat \ {0} /\ off \in Nat
  /\ pc \in {"load", "userland"} => IsFile

LEMMA FileFacts ==
  ASSUME OnAMachine
  PROVE  /\ font \in Nat
         /\ IsFile => /\ file.size \in Nat /\ Len(file.segments) \in Nat
                      /\ \A t \in 1 .. Len(file.segments) :
                           Sized(file.segments[t]) /\ file.segments[t].load \in BOOLEAN
<1>1. PICK m \in Machines : Of(m)
  BY DEF OnAMachine
<1>2. font \in Nat
  BY <1>1, MachinesAssumption DEF Of
<1>3. ASSUME IsFile
      PROVE  /\ file.size \in Nat /\ Len(file.segments) \in Nat
             /\ \A t \in 1 .. Len(file.segments) :
                  Sized(file.segments[t]) /\ file.segments[t].load \in BOOLEAN
  <2>1. file = m.file /\ m.file # NULL /\ m.file.type = "file"
    BY <1>1, <1>3 DEF Of, IsFile
  <2>2. /\ m.file.size \in Nat /\ IsSequence(m.file.segments)
        /\ \A k \in 1 .. Len(m.file.segments) :
             LET s == m.file.segments[k]
             IN  s.load \in BOOLEAN /\ {s.vaddr, s.memsz, s.filesz, s.offset} \subseteq Nat
    BY <2>1, MachinesAssumption
  <2>. QED
    BY <2>1, <2>2, SequenceFacts DEF Sized
<1>. QED
  BY <1>2, <1>3

LEMMA InitLoaderTypes == BootInit => LoaderTypes
<1>. SUFFICES ASSUME BootInit PROVE LoaderTypes
  OBVIOUS
<1>1. pc = "scan" /\ heap_curr = 0 /\ seg = 1 /\ off = 0
  BY DEF BootInit, L!InitLoader
<1>2. IsBitmap(page_bitmap)
  BY DEF BootInit, L!InitLoader, IsBitmap
<1>3. IsTable(table)
  BY DEF BootInit, L!InitLoader, IsTable, Entries0
<1>4. IsMemory(memory)
  BY DEF BootInit, L!InitLoader, IsMemory
<1>5. Spare(page_bitmap)
  BY IdentityAssumption DEF BootInit, L!InitLoader, Spare
<1>. QED
  BY <1>1, <1>2, <1>3, <1>4, <1>5 DEF LoaderTypes, Stages

\* What palloc_page gives while a segment is mapped, and what is left.
LEMMA PageIsFree ==
  ASSUME LoaderTypes, L!AllocatePage
  PROVE  /\ pc = "load" /\ IsFile
         /\ L!palloc_page \in L!Frames /\ page_bitmap[L!palloc_page] = 0
         /\ page_bitmap' = [page_bitmap EXCEPT ![L!palloc_page] = 1]
         /\ IsBitmap(page_bitmap)'
         /\ L!palloc_page \in IDENTITY => Spare(page_bitmap)'
<1>1. pc = "load" /\ IsFile /\ page_bitmap' = [page_bitmap EXCEPT ![L!palloc_page] = 1]
  BY DEF L!AllocatePage, L!Loading, LoaderTypes
<1>2. PICK spare \in L!Frames : spare \notin Regions /\ spare \notin IDENTITY /\ page_bitmap[spare] = 0
  BY <1>1 DEF LoaderTypes, Spare
<1>3. PICK f \in L!Frames : f = L!palloc_page /\ page_bitmap[f] = 0
  BY <1>2, FrameIsFree
<1>4. page_bitmap' = [page_bitmap EXCEPT ![f] = 1]
  BY <1>1, <1>3
<1>5. IsBitmap(page_bitmap)'
  BY <1>4 DEF LoaderTypes, IsBitmap
<1>6. f \in IDENTITY => Spare(page_bitmap)'
  <2>1. ASSUME f \in IDENTITY PROVE page_bitmap'[spare] = 0
    BY <1>2, <1>4, <2>1 DEF LoaderTypes, IsBitmap
  <2>. QED
    BY <1>2, <2>1 DEF Spare
<1>. QED
  BY <1>1, <1>3, <1>5, <1>6

\* The loop over the pages writes entries of the table only.
LEMMA MapPageTypes ==
  ASSUME OnAMachine, LoaderTypes, L!MapPage
  PROVE  LoaderTypes'
<1>1. /\ pc = "load" /\ UNCHANGED <<pc, file, heap_curr, seg>> /\ off' = off + 1 /\ IsFile
  BY DEF L!MapPage, L!AllocatePage, L!Loading, L!given, LoaderTypes
<1>2. PICK p : p = L!FirstOf(L!Segment) + off
  OBVIOUS
<1>3. L!EntryOf(p) \in 0 .. PT_ENTRIES - 1
  <2>1. Sized(L!Segment)
    <3>1. seg \in 1 .. Len(file.segments)
      BY <1>1, FileFacts DEF L!MapPage, L!AllocatePage, L!Loading, LoaderTypes
    <3>. QED
      BY <1>1, <3>1, FileFacts DEF L!Segment
  <2>2. L!FirstOf(L!Segment) \in Nat
    BY <2>1, SizesOf
  <2>3. p \in Nat
    BY <1>2, <2>2 DEF LoaderTypes
  <2>. QED
    BY <2>3, EntriesOf
<1>4. PICK f \in L!Frames : f = L!palloc_page
  BY PageIsFree DEF L!MapPage
<1>5. /\ memory' = [memory EXCEPT ![f] = [u \in 0 .. PAGE - 1 |-> 0]]
      /\ table' = [table EXCEPT ![L!EntryOf(p)] = f]
  BY <1>2, <1>4 DEF L!MapPage, L!Zeroed
<1>6. IsBitmap(page_bitmap)' /\ Spare(page_bitmap)'
  BY PageIsFree DEF L!MapPage
<1>7. IsTable(table)'
  BY <1>3, <1>5 DEF LoaderTypes, IsTable, Entries0
<1>8. IsMemory(memory)'
  BY <1>5 DEF LoaderTypes, IsMemory
<1>. QED
  BY <1>1, <1>6, <1>7, <1>8 DEF LoaderTypes, IsFile

LEMMA ZeroingFaultsTypes ==
  ASSUME LoaderTypes, L!ZeroingFaults
  PROVE  LoaderTypes'
<1>1. /\ pc' = "reset" /\ UNCHANGED <<file, heap_curr, table, memory, seg, off>>
  BY DEF L!ZeroingFaults, L!given, L!mapped, L!locals
<1>2. IsBitmap(page_bitmap)'
  BY PageIsFree DEF L!ZeroingFaults
<1>. QED
  BY <1>1, <1>2 DEF LoaderTypes, Stages, IsTable, IsMemory, Entries0

LEMMA LoaderTypesStay ==
  ASSUME LoaderTypes, UNCHANGED <<file, page_bitmap, table, memory, seg, off>>,
         heap_curr' \in Nat, pc' \in Stages, pc # "reset",
         pc' \in {"load", "userland"} => IsFile
  PROVE  LoaderTypes'
BY DEF LoaderTypes, IsFile, IsBitmap, IsTable, IsMemory, Entries0, Spare

\* The heap grows by whole buffers.
LEMMA HeapStaysNat ==
  ASSUME OnAMachine, LoaderTypes, L!Open \/ PrepareFont
  PROVE  heap_curr' \in Nat
<1>1. L!AlignUp(NodeSize) \in Nat /\ L!AlignUp(WatchdogSize) \in Nat /\ L!AlignUp(HeaderSize) \in Nat
  BY AlignUpIs, SizesAssumption
<1>2. PICK node \in Nat : node = L!AlignUp(NodeSize)
  BY <1>1
<1>3. \A n \in Nat : n * node \in Nat
  OBVIOUS
<1>4. CASE L!Open
  <2>1. PICK found, size :
          /\ found \in 0 .. PROGRAM_PATH
          /\ found = PROGRAM_PATH => file # NULL
          /\ size = IF found = PROGRAM_PATH /\ file.type = "file" THEN file.size ELSE 0
          /\ heap_curr' = heap_curr + found * node + L!AlignUp(size)
    BY <1>2, <1>4 DEF L!Open
  <2>2. size \in Nat
    BY <2>1, FileFacts DEF IsFile
  <2>3. found \in Nat
    BY <2>1, SizesAssumption
  <2>. QED
    BY <1>3, <2>1, <2>2, <2>3, AlignUpIs DEF LoaderTypes
<1>5. CASE PrepareFont
  <2>1. PICK found, size :
          /\ found \in 0 .. FONT_PATH
          /\ size = IF found = FONT_PATH THEN font ELSE 0
          /\ heap_curr' = L!AlignUp(WatchdogSize) + (1 + found) * node + L!AlignUp(size)
                            + L!AlignUp(HeaderSize)
    BY <1>2, <1>5 DEF PrepareFont
  <2>2. size \in Nat /\ 1 + found \in Nat
    BY <2>1, FileFacts, SizesAssumption
  <2>. QED
    BY <1>1, <1>3, <2>1, <2>2, AlignUpIs
<1>. QED
  BY <1>4, <1>5

LEMMA LoaderTypesStep ==
  ASSUME OnAMachine, LoaderTypes, [BootNext]_boot_vars
  PROVE  LoaderTypes'
<1>1. CASE S!Storage /\ UNCHANGED <<font, firmware, loader>>
  <2>1. UNCHANGED <<file, page_bitmap, table, memory, seg, off, heap_curr>>
    BY <1>1 DEF loader, program
  <2>2. pc # "reset" /\ pc' \in {"scan", "probe", "frames", "halted", "entries", "mount", "font"}
    BY <1>1 DEF S!Storage, S!PciFunction, S!PciScanned, S!ProbePort, S!NoMorePorts, S!NoDisk,
                S!GPTHeader, S!GPTEntries, S!VFSMountFAT32Root
  <2>3. heap_curr' \in Nat
    BY <2>1 DEF LoaderTypes
  <2>. QED
    BY <2>1, <2>2, <2>3, LoaderTypesStay DEF Stages
<1>2. CASE F!Firmware /\ UNCHANGED <<font, storage, loader>>
  <2>1. UNCHANGED <<file, page_bitmap, table, memory, seg, off, heap_curr>>
    BY <1>2 DEF loader, program
  <2>2. pc # "reset" /\ pc' \in {"madt", "fadt", "ioapic", "halted", "gpt"}
    BY <1>2 DEF F!Firmware, F!NoMadt, F!MadtEnds, F!MadtEntry, F!NoFadt, F!FadtFaults,
                F!AcpiParseFADT, F!InitIOAPIC
  <2>3. heap_curr' \in Nat
    BY <2>1 DEF LoaderTypes
  <2>. QED
    BY <2>1, <2>2, <2>3, LoaderTypesStay DEF Stages
<1>3. CASE L!Loader
  <2>1. CASE L!init_phys_allocator
    <3>1. IsBitmap(page_bitmap)'
      BY <2>1 DEF L!init_phys_allocator, IsBitmap
    <3>2. Spare(page_bitmap)'
      BY <2>1, IdentityAssumption DEF L!init_phys_allocator, Spare
    <3>3. UNCHANGED <<file, heap_curr, table, memory, seg, off>> /\ pc' = "madt"
      BY <2>1 DEF L!init_phys_allocator, L!given, L!mapped, L!locals
    <3>. QED
      BY <3>1, <3>2, <3>3 DEF LoaderTypes, IsFile, IsTable, IsMemory, Entries0, Stages
  <2>2. CASE L!Open
    <3>1. UNCHANGED <<file, page_bitmap, table, memory, seg, off>>
      BY <2>2 DEF L!Open, L!given, L!frames, L!mapped, L!locals
    <3>2. /\ pc = "open" /\ pc' \in {"wild", "reset", "load"}
          /\ pc' = "load" => IsFile
      BY <2>2, OpenGoes DEF IsFile
    <3>. QED
      BY <2>2, <3>1, <3>2, HeapStaysNat, LoaderTypesStay DEF Stages
  <2>3. CASE L!NoElf \/ L!UnStartUserland \/ L!CopyFaults
    <3>1. UNCHANGED <<file, page_bitmap, table, memory, seg, off, heap_curr>> /\ pc = "load"
      BY <2>3 DEF L!NoElf, L!UnStartUserland, L!CopyFaults, L!ToCopy, L!Loading,
                  L!given, L!frames, L!mapped, L!locals
    <3>2. pc' \in {"userland", "reset"}
      BY <2>3 DEF L!NoElf, L!UnStartUserland, L!CopyFaults
    <3>3. IsFile /\ heap_curr' \in Nat
      BY <3>1 DEF LoaderTypes
    <3>. QED
      BY <3>1, <3>2, <3>3, LoaderTypesStay DEF Stages
  <2>4. CASE L!SkipSegment
    <3>1. UNCHANGED <<pc, file, page_bitmap, table, memory, off, heap_curr>> /\ seg' = seg + 1
      BY <2>4 DEF L!SkipSegment, L!given, L!frames, L!mapped
    <3>. QED
      BY <3>1 DEF LoaderTypes, IsFile, IsBitmap, IsTable, IsMemory, Entries0, Spare
  <2>5. CASE L!CopySegment
    <3>1. UNCHANGED <<pc, file, page_bitmap, table, heap_curr>> /\ seg' = seg + 1 /\ off' = 0
      BY <2>5 DEF L!CopySegment, L!given, L!frames, L!mapped
    <3>2. IsMemory(memory)'
      BY <2>5 DEF L!CopySegment, L!Copied, IsMemory
    <3>. QED
      BY <3>1, <3>2 DEF LoaderTypes, IsFile, IsBitmap, IsTable, Entries0, Spare
  <2>. QED
    BY <1>3, <2>1, <2>2, <2>3, <2>4, <2>5, MapPageTypes, ZeroingFaultsTypes DEF L!Loader
<1>4. CASE PrepareFont
  <2>1. UNCHANGED <<file, page_bitmap, table, memory, seg, off>>
    BY <1>4 DEF PrepareFont, program
  <2>. QED
    BY <1>4, <2>1, FontGoes, HeapStaysNat, LoaderTypesStay DEF Stages
<1>5. CASE UNCHANGED boot_vars
  <2>1. UNCHANGED <<pc, file, page_bitmap, table, memory, seg, off, heap_curr>>
    BY <1>5 DEF boot_vars, loader, program
  <2>. QED
    BY <2>1 DEF LoaderTypes, IsFile, IsBitmap, IsTable, IsMemory, Entries0, Spare
<1>. QED
  BY <1>1, <1>2, <1>3, <1>4, <1>5 DEF BootNext

\* The file is a program for which ProgramLoaded promises something.
IsProgram == IsFile /\ Loadable /\ Apart

ProgramInv ==
  IsProgram =>
    /\ Progress(file.segments, seg, off, table, memory)
    /\ pc \notin {"load", "userland", "reset", "wild"} => seg = 1 /\ off = 0
    /\ pc \notin {"scan", "probe", "frames", "reset"} =>
         Claimed(page_bitmap, table, Done(file.segments, seg, off))
    /\ pc = "userland" => seg = Len(file.segments) + 1

LEMMA ProgramIs ==
  ASSUME OnAMachine, IsProgram
  PROVE  Program(file.segments) /\ file.elf
<1>1. /\ Len(file.segments) \in Nat
      /\ \A t \in 1 .. Len(file.segments) : Sized(file.segments[t])
  BY FileFacts DEF IsProgram
<1>2. /\ file.elf
      /\ \A t \in 1 .. Len(file.segments) : file.segments[t].load =>
           file.segments[t].vaddr % PAGE = 0 /\ file.segments[t].filesz <= file.segments[t].memsz
  BY DEF IsProgram, Loadable
<1>3. ProgramPages = AllPages(file.segments)
  BY DEF ProgramPages, AllPages
<1>4. Apart
  BY DEF IsProgram
<1>. QED
  BY <1>1, <1>2, <1>3, <1>4, Zenon DEF Program, Apart

LEMMA ProgramStaysOne ==
  ASSUME UNCHANGED file
  PROVE  IsProgram' <=> IsProgram
<1>1. ProgramPages' = ProgramPages
  BY DEF ProgramPages
<1>2. Apart' <=> Apart
  BY <1>1 DEF Apart
<1>. QED
  BY <1>2 DEF IsProgram, IsFile, Loadable

LEMMA InitProgram == BootInit /\ OnAMachine => ProgramInv
<1>. SUFFICES ASSUME BootInit, OnAMachine, IsProgram
              PROVE  Progress(file.segments, 1, 0, table, memory) /\ pc = "scan" /\ seg = 1 /\ off = 0
  BY DEF ProgramInv
<1>1. pc = "scan" /\ seg = 1 /\ off = 0
  BY DEF BootInit, L!InitLoader
<1>2. Program(file.segments)
  BY ProgramIs
<1>3. Progress(file.segments, 1, 0, table, memory)
  BY <1>2, ProgressBegins
<1>. QED
  BY <1>1, <1>3

\* Steps that load nothing.
LEMMA ProgramStays ==
  ASSUME ProgramInv, UNCHANGED <<file, page_bitmap, table, memory, seg, off>>,
         pc' \in {"load", "userland", "reset", "wild"} \/ pc \notin {"load", "userland", "reset", "wild"},
         \/ pc' \in {"scan", "probe", "frames", "reset"}
         \/ pc \notin {"scan", "probe", "frames", "reset"},
         pc' # "userland" \/ pc = "userland" \/ ~IsProgram \/ seg = Len(file.segments) + 1
  PROVE  ProgramInv'
<1>1. IsProgram' <=> IsProgram
  BY ProgramStaysOne
<1>2. PICK segs : segs = file.segments
  OBVIOUS
<1>3. file.segments' = segs
  BY <1>2
<1>4. SUFFICES ASSUME IsProgram
               PROVE  /\ Progress(segs, seg', off', table', memory')
                      /\ pc' \notin {"load", "userland", "reset", "wild"} => seg' = 1 /\ off' = 0
                      /\ pc' \notin {"scan", "probe", "frames", "reset"} =>
                           Claimed(page_bitmap', table', Done(segs, seg', off'))
                      /\ pc' = "userland" => seg' = Len(segs) + 1
  BY <1>1, <1>3 DEF ProgramInv
<1>. QED
  BY <1>2, <1>4 DEF ProgramInv

\* A step of the loading of a program.
LEMMA ProgramGoesOn ==
  ASSUME UNCHANGED file, IsProgram => Progress(file.segments, seg, off, table, memory)',
         IsProgram => Claimed(page_bitmap, table, Done(file.segments, seg, off))',
         pc' = "load"
  PROVE  ProgramInv'
BY ProgramStaysOne DEF ProgramInv

LEMMA MapPageStep ==
  ASSUME OnAMachine, LoaderTypes, ProgramInv, L!MapPage
  PROVE  ProgramInv'
<1>1. /\ pc = "load" /\ pc' = "load" /\ UNCHANGED <<file, seg>> /\ off' = off + 1
      /\ seg <= Len(file.segments) /\ L!Segment.load /\ off < L!PagesOf(L!Segment)
  BY DEF L!MapPage, L!AllocatePage, L!Loading, L!given
<1>2. SUFFICES ASSUME IsProgram
               PROVE  /\ Progress(file.segments, seg, off, table, memory)'
                      /\ Claimed(page_bitmap, table, Done(file.segments, seg, off))'
  BY <1>1, ProgramGoesOn
<1>3. PICK segs, p : segs = file.segments /\ p = L!FirstOf(L!Segment) + off
  OBVIOUS
<1>4. /\ Program(segs) /\ Loads(segs, seg) /\ off < L!PagesOf(segs[seg])
      /\ p = L!FirstOf(segs[seg]) + off
  BY <1>1, <1>2, <1>3, ProgramIs DEF Loads, L!Segment
<1>5. /\ Progress(segs, seg, off, table, memory)
      /\ Claimed(page_bitmap, table, Done(segs, seg, off))
  BY <1>1, <1>2, <1>3 DEF ProgramInv
<1>6. IsBitmap(page_bitmap) /\ IsTable(table) /\ IsMemory(memory)
  BY DEF LoaderTypes
<1>7. PICK f \in L!Frames : f = L!palloc_page /\ page_bitmap[f] = 0
  BY PageIsFree DEF L!MapPage
<1>8. /\ page_bitmap' = Taking(page_bitmap, f) /\ memory' = Zeroing(memory, f)
      /\ table' = With(table, p, f)
  BY <1>3, <1>7 DEF L!MapPage, L!AllocatePage, L!Zeroed, With, Taking, Zeroing
<1>9. page_bitmap[f] # 1
  BY <1>7
<1>10. /\ Progress(segs, seg, off + 1, table', memory')
       /\ Claimed(page_bitmap', table', Done(segs, seg, off + 1))
  <2>1. page_bitmap \in [L!Frames -> 0 .. 1]
    BY <1>6 DEF IsBitmap
  <2>2. /\ Progress(segs, seg, off + 1, With(table, p, f), Zeroing(memory, f))
        /\ Claimed(Taking(page_bitmap, f), With(table, p, f), Done(segs, seg, off + 1))
    BY <1>4, <1>5, <1>6, <1>9, <2>1, ProgressMaps
  <2>. QED
    BY <1>8, <2>2
<1>. QED
  BY <1>1, <1>3, <1>10

LEMMA SegmentStep ==
  ASSUME OnAMachine, LoaderTypes, ProgramInv, L!SkipSegment \/ L!CopySegment
  PROVE  ProgramInv'
<1>1. /\ pc = "load" /\ pc' = "load" /\ UNCHANGED <<file, table, page_bitmap>> /\ seg' = seg + 1
      /\ seg <= Len(file.segments)
  BY DEF L!SkipSegment, L!CopySegment, L!ToCopy, L!Loading, L!given, L!frames, L!mapped
<1>2. SUFFICES ASSUME IsProgram
               PROVE  /\ Progress(file.segments, seg, off, table, memory)'
                      /\ Claimed(page_bitmap, table, Done(file.segments, seg, off))'
  BY <1>1, ProgramGoesOn
<1>3. PICK segs : segs = file.segments
  OBVIOUS
<1>4. Program(segs) /\ seg \in 1 .. Len(segs) /\ off \in Nat
  <2>1. Program(segs) /\ seg \in Nat \ {0} /\ off \in Nat /\ seg <= Len(segs)
    BY <1>1, <1>2, <1>3, ProgramIs DEF LoaderTypes
  <2>. QED
    <3>1. Len(segs) \in Nat
      BY <2>1 DEF Program
    <3>. QED
      BY <2>1, <3>1
<1>5. /\ Progress(segs, seg, off, table, memory)
      /\ Claimed(page_bitmap, table, Done(segs, seg, off))
  BY <1>1, <1>2, <1>3 DEF ProgramInv
<1>6. CASE L!SkipSegment
  <2>1. ~segs[seg].load /\ UNCHANGED <<off, memory>>
    BY <1>3, <1>6 DEF L!SkipSegment, L!Segment
  <2>2. off = 0 /\ Progress(segs, seg + 1, off, table, memory)
    BY <1>4, <1>5, <2>1, ProgressSkips
  <2>3. Done(segs, seg + 1, 0) = Done(segs, seg, off)
    BY <1>4, <2>1, DoneOver
  <2>. QED
    BY <1>1, <1>3, <1>5, <2>1, <2>2, <2>3
<1>7. CASE L!CopySegment
  <2>1. /\ segs[seg].load /\ off = L!PagesOf(segs[seg]) /\ off' = 0
        /\ memory' = L!Copied(segs[seg])
    BY <1>3, <1>7 DEF L!CopySegment, L!ToCopy, L!Segment
  <2>2. Loads(segs, seg)
    BY <1>1, <1>3, <2>1 DEF Loads
  <2>3. Progress(segs, seg + 1, 0, table, L!Copied(segs[seg]))
    BY <1>4, <1>5, <2>1, <2>2, ProgressCopies
  <2>4. Done(segs, seg + 1, 0) = Done(segs, seg, off)
    BY <1>4, <2>1, DoneOver
  <2>5. Progress(segs, seg', off', table', memory')
    BY <1>1, <2>1, <2>3
  <2>6. Claimed(page_bitmap', table', Done(segs, seg', off'))
    BY <1>1, <1>5, <2>1, <2>4
  <2>. QED
    BY <1>1, <1>3, <2>5, <2>6
<1>. QED
  BY <1>6, <1>7

\* The faults that end the loading.
LEMMA FaultStep ==
  ASSUME OnAMachine, LoaderTypes, ProgramInv, L!ZeroingFaults \/ L!CopyFaults
  PROVE  ProgramInv'
<1>1. pc = "load" /\ pc' = "reset" /\ UNCHANGED <<file, table, memory, seg, off>>
  BY DEF L!ZeroingFaults, L!CopyFaults, L!AllocatePage, L!ToCopy, L!Loading,
         L!given, L!mapped, L!locals
<1>2. PICK segs : segs = file.segments
  OBVIOUS
<1>3. file.segments' = segs
  BY <1>1, <1>2
<1>4. SUFFICES ASSUME IsProgram PROVE Progress(segs, seg', off', table', memory')
  BY <1>1, <1>3, ProgramStaysOne DEF ProgramInv
<1>. QED
  BY <1>1, <1>2, <1>4 DEF ProgramInv

LEMMA SetupStep ==
  ASSUME OnAMachine, ProgramInv, L!init_phys_allocator
  PROVE  ProgramInv'
<1>1. /\ pc = "frames" /\ pc' = "madt" /\ UNCHANGED <<file, table, memory, seg, off>>
      /\ page_bitmap' = [k \in L!Frames |-> IF k \in Regions THEN 1 ELSE 0]
  BY DEF L!init_phys_allocator, L!given, L!mapped, L!locals
<1>2. SUFFICES ASSUME IsProgram
               PROVE  /\ Progress(file.segments, seg, off, table, memory)'
                      /\ seg' = 1 /\ off' = 0
                      /\ Claimed(page_bitmap, table, Done(file.segments, seg, off))'
  BY <1>1, ProgramStaysOne DEF ProgramInv
<1>3. PICK segs : segs = file.segments
  OBVIOUS
<1>4. Program(segs) /\ Progress(segs, seg, off, table, memory) /\ seg = 1 /\ off = 0
  BY <1>1, <1>2, <1>3, ProgramIs DEF ProgramInv
<1>5. Done(segs, 1, 0) = {}
  BY <1>4, DoneNone
<1>6. Claimed(page_bitmap', table', {})
  BY <1>1 DEF Claimed
<1>7. Claimed(page_bitmap', table', Done(segs, seg', off'))
  BY <1>1, <1>4, <1>5, <1>6
<1>8. Progress(segs, seg', off', table', memory')
  BY <1>1, <1>4
<1>. QED
  BY <1>1, <1>3, <1>4, <1>7, <1>8

LEMMA ProgramStep ==
  ASSUME OnAMachine, LoaderTypes, ProgramInv, [BootNext]_boot_vars
  PROVE  ProgramInv'
<1>1. CASE S!Storage /\ UNCHANGED <<font, firmware, loader>>
  <2>1. UNCHANGED <<file, page_bitmap, table, memory, seg, off>>
    BY <1>1 DEF loader, program
  <2>2. /\ pc \notin {"load", "userland", "reset", "wild"} /\ pc' # "userland"
        /\ pc' \in {"scan", "probe", "frames"} \/ pc \notin {"scan", "probe", "frames"}
    BY <1>1 DEF S!Storage, S!PciFunction, S!PciScanned, S!ProbePort, S!NoMorePorts, S!NoDisk,
                S!GPTHeader, S!GPTEntries, S!VFSMountFAT32Root
  <2>. QED
    BY <2>1, <2>2, ProgramStays
<1>2. CASE F!Firmware /\ UNCHANGED <<font, storage, loader>>
  <2>1. UNCHANGED <<file, page_bitmap, table, memory, seg, off>>
    BY <1>2 DEF loader, program
  <2>2. /\ pc \notin {"load", "userland", "reset", "wild"} /\ pc' # "userland"
        /\ pc \notin {"scan", "probe", "frames"}
    BY <1>2 DEF F!Firmware, F!NoMadt, F!MadtEnds, F!MadtEntry, F!NoFadt, F!FadtFaults,
                F!AcpiParseFADT, F!InitIOAPIC
  <2>. QED
    BY <2>1, <2>2, ProgramStays
<1>3. CASE L!Loader
  <2>1. CASE L!Open
    <3>1. UNCHANGED <<file, page_bitmap, table, memory, seg, off>>
      BY <2>1 DEF L!Open, L!given, L!frames, L!mapped, L!locals
    <3>2. pc = "open" /\ pc' # "userland"
      BY <2>1, OpenGoes
    <3>. QED
      BY <3>1, <3>2, ProgramStays
  <2>2. CASE L!NoElf
    <3>1. /\ UNCHANGED <<file, page_bitmap, table, memory, seg, off>>
          /\ pc = "load" /\ pc' = "userland" /\ ~file.elf
      BY <2>2 DEF L!NoElf, L!given, L!frames, L!mapped, L!locals
    <3>2. ~IsProgram
      BY <3>1, ProgramIs
    <3>. QED
      BY <3>1, <3>2, ProgramStays
  <2>3. CASE L!UnStartUserland
    <3>1. /\ UNCHANGED <<file, page_bitmap, table, memory, seg, off>>
          /\ pc = "load" /\ pc' = "userland" /\ seg > Len(file.segments)
      BY <2>3 DEF L!UnStartUserland, L!given, L!frames, L!mapped, L!locals
    <3>2. IsProgram => seg = Len(file.segments) + 1
      <4>1. ASSUME IsProgram PROVE seg = Len(file.segments) + 1
        <5>1. seg \in 1 .. Len(file.segments) + 1 /\ Len(file.segments) \in Nat
          BY <4>1, ProgramIs DEF ProgramInv, Progress, Program
        <5>. QED
          BY <3>1, <5>1
      <4>. QED
        BY <4>1
    <3>. QED
      BY <3>1, <3>2, ProgramStays
  <2>. QED
    BY <1>3, <2>1, <2>2, <2>3, SetupStep, MapPageStep, SegmentStep, FaultStep DEF L!Loader
<1>4. CASE PrepareFont
  <2>1. UNCHANGED <<file, page_bitmap, table, memory, seg, off>>
    BY <1>4 DEF PrepareFont, program
  <2>2. pc = "font" /\ pc' # "userland"
    BY <1>4, FontGoes
  <2>. QED
    BY <2>1, <2>2, ProgramStays
<1>5. CASE UNCHANGED boot_vars
  BY <1>5, ProgramStays DEF boot_vars, loader, program
<1>. QED
  BY <1>1, <1>2, <1>3, <1>4, <1>5 DEF BootNext

LEMMA ProgramIsLoaded ==
  ASSUME OnAMachine, LoaderTypes, ProgramInv
  PROVE  ProgramLoaded
<1>. SUFFICES ASSUME pc = "userland", Loadable, Apart
              PROVE  /\ \A p \in ProgramPages : FrameOf(p) \in L!Frames \ Regions
                     /\ \A p, q \in ProgramPages : p # q => FrameOf(p) # FrameOf(q)
                     /\ \A n \in 1 .. Len(file.segments) :
                          file.segments[n].load => Content(file.segments[n], table, memory)
  BY Zenon DEF ProgramLoaded, Content, EntryFor, FrameOf
<1>1. IsProgram /\ Program(file.segments)
  BY ProgramIs DEF IsProgram, LoaderTypes
<1>2. ProgramPages = AllPages(file.segments)
  BY DEF ProgramPages, AllPages
<1>3. /\ seg = Len(file.segments) + 1
      /\ Progress(file.segments, seg, off, table, memory)
  BY <1>1 DEF ProgramInv
<1>4. /\ Placed(table, AllPages(file.segments))
      /\ \A t \in 1 .. Len(file.segments) :
           file.segments[t].load => Content(file.segments[t], table, memory)
  BY <1>1, <1>3, ProgressEnds
<1>5. \A p : FrameOf(p) = EntryFor(table, p)
  BY DEF FrameOf, EntryFor
<1>. QED
  BY <1>2, <1>4, <1>5 DEF Placed

(***************************************************************************)
(* Boot: what follows                                                      *)
(***************************************************************************)
BootIInv ==
  OnAMachine /\ StorageInv /\ RoutingInv /\ ShutdownInv /\ LoaderTypes /\ ProgramInv

LEMMA MachineStep ==
  ASSUME OnAMachine, [BootNext]_boot_vars
  PROVE  OnAMachine'
BY MachineStays DEF OnAMachine, Of

\* What was passed of the devices, the tables and the program's segments is
\* found, taken and loaded as it should, whatever comes first and fails.
THEOREM BootInvariance == BootSpec => []BootIInv
<1>1. BootInit => BootIInv
  BY InitStorageInv, InitRouting, InitShutdown, InitLoaderTypes, InitProgram DEF BootIInv
<1>2. BootIInv /\ [BootNext]_boot_vars => BootIInv'
  BY MachineStep, StorageStep, RoutingStep, ShutdownStep, LoaderTypesStep, ProgramStep DEF BootIInv
<1>. QED
  BY <1>1, <1>2, PTL DEF BootSpec

\* The variables have their types; the command structures of any two ports
\* of a controller lie apart, and in the 2 MiB that are mapped for them.
THEOREM BootTypeCorrect == BootSpec => []BootTypeOK
<1>1. ASSUME BootIInv PROVE BootTypeOK
  <2>1. fn \in 1 .. Len(pci) + 1 /\ i \in 0 .. 32
    BY <1>1 DEF BootIInv, StorageInv, Probing
  <2>2. /\ pc \in Stages /\ heap_curr \in Nat /\ page_bitmap \in [L!Frames -> 0 .. 1]
        /\ table \in [0 .. PT_ENTRIES - 1 -> L!Frames \cup {HEAP_FRAME}]
    BY <1>1 DEF BootIInv, LoaderTypes, IsBitmap, IsTable, Entries0
  <2>3. \A p, q \in rebased : Separate(p, q)
    BY <1>1, RebasedApart DEF BootIInv
  <2>. QED
    BY <2>1, <2>2, <2>3 DEF BootTypeOK
<1>. QED
  BY <1>1, BootInvariance, PTL

\* Of one controller's disks the boot takes the first, whatever else answers
\* on the bus and on the ports.
THEOREM FirstDiskIsFound == BootSpec => []DiskFound
<1>1. BootIInv => DiskFound
  BY FirstDiskFound DEF BootIInv
<1>. QED
  BY <1>1, BootInvariance, PTL

\* The pin of the keyboard's GSI, and no other, has the keyboard's vector
\* after InitIOAPIC, for every MADT that is in order.
THEOREM KeyboardGetsThrough == BootSpec => []KeyboardRouted
<1>1. BootIInv => KeyboardRouted
  BY KeyboardIsRouted DEF BootIInv
<1>. QED
  BY <1>1, BootInvariance, PTL

\* SHUTDOWN writes the type that \_S5_ gives for PM1a_CNT, whatever bytes of
\* AML are around the package, if the first name \_S5_ in the DSDT is that of
\* a package of four elements with a byte's prefix each.
THEOREM ShutdownGoesToS5 == BootSpec => []ShutdownWritesS5
<1>1. BootIInv => ShutdownWritesS5
  BY ShutdownIsS5 DEF BootIInv
<1>. QED
  BY <1>1, BootInvariance, PTL

\* Elf64Load has every segment where its addresses say, on frames of its own,
\* for every program that gets to run and whose segments begin with a page and
\* share neither a page nor an entry of page 0.
THEOREM ProgramGetsLoaded == BootSpec => []ProgramLoaded
<1>1. BootIInv => ProgramLoaded
  BY ProgramIsLoaded DEF BootIInv
<1>. QED
  BY <1>1, BootInvariance, PTL

(***************************************************************************)
(* Ahci                                                                    *)
(***************************************************************************)
Polling == at \in {"poll ci", "poll is", "check"}

\* The command on its way: none but the driver's, in the slot it waits for.
OneCommand ==
  /\ at # "idle" => call \in Commands
  /\ at = "wait" => spin <= TIMEOUT
  /\ at \notin {"idle", "slot"} => cmdtbl[slot] = call
  /\ ~Polling => ci \subseteq failed
  /\ at = "check" => slot \notin ci
  /\ executing # None => executing \in ci \ failed

\* An error leaves nothing to be executed; it is of the call that runs.
ErrorsEnd ==
  /\ tfes => ci \subseteq failed
  /\ at \in {"slot", "wait", "waited"} => ~tfes

\* A bit that an error did not keep is cleared by the transfer.
Moved == (Polling /\ slot \notin ci /\ ~tfes) => mem[call.buf] = blocks[call.lba]

IInv == TypeOK /\ OneCommand /\ ErrorsEnd /\ Moved

LEMMA Bounds == SLOTS \in Nat /\ SLOTS > 0 /\ TIMEOUT \in Nat
BY SlotsAssumption

LEMMA InitIInv == Init => IInv
<1> SUFFICES ASSUME Init PROVE IInv
  OBVIOUS
<1>1. TypeOK
  <2>1. slot \in Slots /\ spin \in 0 .. TIMEOUT + 1
    BY Bounds DEF Init, Slots
  <2>2. blocks \in [Lbas -> Values] /\ mem \in [Buffers -> Values] /\ cmdtbl \in [Slots -> Commands \cup {None}]
    BY DEF Init, Values
  <2>. QED
    BY <2>1, <2>2 DEF Init, TypeOK
<1>2. OneCommand /\ ErrorsEnd /\ Moved
  BY DEF Init, OneCommand, ErrorsEnd, Moved, Polling
<1>. QED
  BY <1>1, <1>2 DEF IInv

\* The command that the port executes is the driver's call.
LEMMA ExecutesTheCall ==
  ASSUME IInv, executing # None
  PROVE  executing = slot /\ slot \in ci \ failed /\ at \in {"poll ci", "poll is"}
         /\ cmdtbl[executing] = call /\ call \in Commands /\ ~tfes
BY DEF IInv, TypeOK, OneCommand, ErrorsEnd, Polling

\* What a transfer leaves in the block and the buffer are values, and the
\* same one if it is complete.
LEMMA TransferMoves ==
  ASSUME NEW c \in Commands, NEW torn \in BOOLEAN, Transfer(c, torn),
         mem \in [Buffers -> Values], blocks \in [Lbas -> Values]
  PROVE  /\ mem' \in [Buffers -> Values] /\ blocks' \in [Lbas -> Values]
         /\ ~torn => mem'[c.buf] = blocks'[c.lba]
BY DEF Transfer, Commands, Values

LEMMA StepIInv ==
  ASSUME IInv, [Next]_vars
  PROVE  IInv'
<1>. USE Bounds DEF TypeOK, OneCommand, ErrorsEnd, Moved, Polling, port, driver
<1>. USE DEF STATUS_OK, STATUS_FAIL, STATUS_TIMEOUT, Return
<1>1. ASSUME NEW c \in Commands, Call(c) PROVE IInv'
  BY <1>1 DEF IInv, Call
<1>2. CASE NoSlot
  BY <1>2 DEF IInv, NoSlot
<1>3. CASE SetUp
  <2>1. PICK s \in Slots \ ci : slot' = s /\ cmdtbl' = [cmdtbl EXCEPT ![s] = call]
    BY <1>3 DEF SetUp, FreeSlots
  <2>. QED
    BY <1>3, <2>1 DEF IInv, SetUp
<1>4. CASE Wait
  <2>1. spin \in 0 .. TIMEOUT /\ spin' \in 0 .. TIMEOUT + 1 /\ (at' = "wait" => spin' <= TIMEOUT)
    BY <1>4 DEF IInv, Wait
  <2>. QED
    BY <1>4, <2>1 DEF IInv, Wait
<1>5. CASE TimesOut
  BY <1>5 DEF IInv, TimesOut
<1>6. CASE Issue
  BY <1>6 DEF IInv, Issue
<1>7. CASE PollCi
  BY <1>7 DEF IInv, PollCi
<1>8. CASE PollIs
  BY <1>8 DEF IInv, PollIs
<1>9. CASE Check
  BY <1>9 DEF IInv, Check
<1>10. CASE PortBecomesReady
  BY <1>10 DEF IInv, PortBecomesReady
<1>11. CASE PortStarts
  BY <1>11 DEF IInv, PortStarts
<1>12. CASE PortCompletes
  <2>1. executing = slot /\ Polling /\ call \in Commands /\ Transfer(call, FALSE)
    BY <1>12, ExecutesTheCall DEF PortCompletes
  <2>2. /\ mem' \in [Buffers -> Values] /\ blocks' \in [Lbas -> Values]
        /\ mem'[call.buf] = blocks'[call.lba]
    BY <2>1, TransferMoves DEF IInv
  <2>. QED
    BY <1>12, <2>1, <2>2 DEF IInv, PortCompletes
<1>13. CASE PortFails
  <2>1. executing = slot /\ Polling /\ call \in Commands /\ Transfer(call, TRUE)
    BY <1>13, ExecutesTheCall DEF PortFails
  <2>2. mem' \in [Buffers -> Values] /\ blocks' \in [Lbas -> Values]
    BY <2>1, TransferMoves DEF IInv
  <2>. QED
    BY <1>13, <2>1, <2>2 DEF IInv, PortFails
<1>14. CASE UNCHANGED vars
  BY <1>14 DEF IInv, vars
<1>. QED
  BY <1>1, <1>2, <1>3, <1>4, <1>5, <1>6, <1>7, <1>8, <1>9, <1>10, <1>11, <1>12, <1>13, <1>14
     DEF Next, Driver

LEMMA Inductive == Spec => []IInv
<1>1. IInv /\ [Next]_vars => IInv'
  BY StepIInv
<1>. QED
  BY InitIInv, <1>1, PTL DEF Spec

\* The registers, the slots and the driver's counters stay in range, and no
\* slot but the driver's has a command that may still be executed.
THEOREM TypeCorrect == Spec => []TypeOK
<1>1. IInv => TypeOK
  BY DEF IInv
<1>. QED
  BY Inductive, <1>1, PTL

\* The port never works on a command whose caller has returned, nor on one
\* that a slot held before.
THEOREM NothingAfterReturn == Spec => []NoTransferAfterReturn
<1>1. IInv => NoTransferAfterReturn
  BY ExecutesTheCall DEF NoTransferAfterReturn
<1>. QED
  BY Inductive, <1>1, PTL

\* A call that reports success has moved the data.
THEOREM SuccessIsTrue == Spec => SuccessMeansMoved
<1>1. IInv /\ [Next]_vars =>
        [(at # "idle" /\ at' = "idle" /\ result' = STATUS_OK) => mem[call.buf] = blocks[call.lba]]_vars
  <2> SUFFICES ASSUME IInv, [Next]_vars, at # "idle", at' = "idle", result' = STATUS_OK
               PROVE  mem[call.buf] = blocks[call.lba]
    OBVIOUS
  <2>1. NoSlot \/ TimesOut \/ PollIs \/ Check
    BY DEF Next, Driver, Call, SetUp, Wait, Issue, PollCi,
           PortBecomesReady, PortStarts, PortCompletes, PortFails, vars, driver
  <2>2. Check /\ ~tfes
    BY <2>1 DEF NoSlot, TimesOut, PollIs, Check, Return, STATUS_OK, STATUS_FAIL, STATUS_TIMEOUT
  <2>. QED
    BY <2>2 DEF IInv, OneCommand, Moved, Polling, Check
<1>. QED
  BY Inductive, <1>1, PTL DEF Spec, SuccessMeansMoved
=============================================================================
