------------------------------- MODULE Storage -------------------------------
(***************************************************************************)
(* How the boot finds its disk and its volume: pci_scan (drivers/pci/      *)
(* pci.c), ahci_init with the search and the rebasing of the ports         *)
(* (drivers/storage/ahci.c), ParseGPT (gpt.c), VFSMountFAT32Root           *)
(* (fs/vfs.c).                                                             *)
(*                                                                         *)
(* Abstractions.  Of the PCI functions those that answer are there, in the *)
(* order of the scan.  A port whose engine is told to stop stops.  Of the  *)
(* disk is said whether its GPT is one and what its first partition is.    *)
(* Command structures are counted in units of 256 bytes from AHCI_BASE.    *)
(* The registers of two controllers lie in different large pages.          *)
(***************************************************************************)
EXTENDS Integers, Sequences, FiniteSets

CONSTANTS NULL

VARIABLES
  pc,
  pci,                  \* the functions: NULL or a controller's [abar, ports]
  disk,                 \* [gpt, first]
  fn, i,                \* locals of pci_scan and ahci_probe_port
  abar, ahci_port,
  rebased,              \* the ports whose engines run, as pairs with their ABAR
  GPTGlobal,            \* NULL or the first partition's kind
  volume                \* what Fat32Info and the root node were made of

devices == <<pci, disk>>
probe   == <<fn, i, abar, ahci_port, rebased>>

InitStorage ==
  /\ fn = 1 /\ i = 0
  /\ abar = NULL /\ ahci_port = NULL /\ rebased = {}
  /\ GPTGlobal = NULL /\ volume = "none"

(***************************************************************************)
(* pci_scan                                                                *)
(***************************************************************************)
PciFunction ==
  /\ pc = "scan" /\ fn <= Len(pci)
  /\ IF pci[fn] = NULL
     THEN fn' = fn + 1 /\ UNCHANGED <<pc, i, abar>>
     ELSE abar' = pci[fn].abar /\ i' = 0 /\ pc' = "probe" /\ UNCHANGED fn
  /\ UNCHANGED <<devices, ahci_port, rebased, GPTGlobal, volume>>

\* init_paging maps the registers of the controller that was scanned last.
PciScanned ==
  /\ pc = "scan" /\ fn > Len(pci)
  /\ pc' = "frames"
  /\ UNCHANGED <<devices, probe, GPTGlobal, volume>>

(***************************************************************************)
(* ahci_probe_port                                                         *)
(***************************************************************************)
Ports     == pci[fn].ports
Device(k) == IF k \in DOMAIN Ports THEN Ports[k] ELSE "none"

\* (Mutant: the search goes on behind a disk.)
ReturnsNever(k) == FALSE
Returns(k) == Device(k) = "ata"

ProbePort ==
  /\ pc = "probe" /\ i < 32
  /\ IF Device(i) \in {"ata", "atapi", "semb", "pm"}
     THEN ahci_port' = <<abar, i>> /\ rebased' = rebased \cup {<<abar, i>>}
     ELSE UNCHANGED <<ahci_port, rebased>>
  /\ IF Returns(i) THEN fn' = fn + 1 /\ pc' = "scan" /\ UNCHANGED i
                   ELSE i' = i + 1 /\ UNCHANGED <<fn, pc>>
  /\ UNCHANGED <<devices, abar, GPTGlobal, volume>>

NoMorePorts ==
  /\ pc = "probe" /\ i = 32
  /\ fn' = fn + 1 /\ pc' = "scan"
  /\ UNCHANGED <<devices, i, abar, ahci_port, rebased, GPTGlobal, volume>>

\* ahci_port_rebase: the command list, the received FIS, the command tables.
\* (Mutant: 4 KiB of tables to a port.)
TablesTooClose(p) == {160 + 16 * p + s : s \in 0 .. 31}
CommandTables(p)  == {160 + 32 * p + s : s \in 0 .. 31}
CommandList(p)    == 4 * p .. 4 * p + 3
ReceivedFIS(p)    == {128 + p}

Structures(p) == CommandList(p) \cup ReceivedFIS(p) \cup CommandTables(p)

(***************************************************************************)
(* ParseGPT and VFSMountFAT32Root.  ahci_read returns 1 or, for an error   *)
(* or a timeout, 0, and both look at it.                                   *)
(***************************************************************************)
Outcomes == {"done", "fails"}

\* The port's registers are mapped; else the access is a page fault, and
\* without a font the machine halts.
Reachable == ahci_port # NULL /\ ahci_port[1] = abar

NoDisk ==
  /\ pc = "gpt" /\ ~Reachable
  /\ pc' = "halted"
  /\ UNCHANGED <<devices, probe, GPTGlobal, volume>>

GPTHeader ==
  /\ pc = "gpt" /\ Reachable
  /\ \E o \in Outcomes : pc' = IF o = "done" /\ disk.gpt THEN "entries" ELSE "mount"
  /\ UNCHANGED <<devices, probe, GPTGlobal, volume>>

\* GPTGlobal after the read of the entries, with its outcome.
Entry(o) == IF o = "done" THEN disk.first ELSE NULL

GPTEntries ==
  /\ pc = "entries"
  /\ \E o \in Outcomes : GPTGlobal' = Entry(o)
  /\ pc' = "mount"
  /\ UNCHANGED <<devices, probe, volume>>

\* Without an entry first_lba is read at address 0x20, in page 0, which is
\* mapped.  Nothing checks that the sector is a boot sector; if the command
\* fails the root node stays as kmalloc gave it.
VFSMountFAT32Root ==
  /\ pc = "mount"
  /\ \E o \in Outcomes :
       volume' = CASE o = "fails"          -> "none"
                   [] GPTGlobal = "fat32" -> "fat32"
                   [] OTHER               -> "garbage"
  /\ pc' = "font"
  /\ UNCHANGED <<devices, probe, GPTGlobal>>

Storage ==
  \/ PciFunction \/ PciScanned \/ ProbePort \/ NoMorePorts
  \/ NoDisk \/ GPTHeader \/ GPTEntries \/ VFSMountFAT32Root
=============================================================================
