-------------------------------- MODULE Boot --------------------------------
(***************************************************************************)
(* KernelPreSetup and KernelMain (kernel/UnOSKrnl.c) from the PCI scan to  *)
(* the first program: the disk (Storage), the frames and the program       *)
(* (Loader) and the ACPI tables (Firmware) one after another, on a machine *)
(* that Init chooses.  What the font is for is in Console, the watchdog    *)
(* in Clock.  UnGoToUserland does not return, so that init_terminal, which *)
(* KernelMain calls behind it, is not reached.                             *)
(***************************************************************************)
EXTENDS Integers, Sequences, FiniteSets

CONSTANTS
  Machines,          \* records of what Init chooses
  WatchdogSize,      \* of a WatchdogUnOS
  HeaderSize,        \* of a PSFHeader
  FONT_PATH,         \* the length of the font's path (3)
  NULL,
  PINS, MAX_ISO_ENTRIES, LEGACY, S5_NAME,
  PAGE, PT_ENTRIES, TRACKED, Regions, IDENTITY,
  HEAP_ALIGN, HEAP_SIZE, NodeSize, PROGRAM_PATH, AHCI_IN_HEAP, HEAP_FRAME

VARIABLES
  pc,
  font,              \* the size of the font's file
  pci, disk, fn, i, abar, ahci_port, rebased, GPTGlobal, volume,
  madt, fadt, dsdts, entry, g_ioapic, g_iso, redirection, g_AcpiPowerReg, g_S5Info,
  file, nxe, page_bitmap, last_allocated_index, heap_curr, table, no_exec, memory, seg, off

S == INSTANCE Storage
F == INSTANCE Firmware
L == INSTANCE Loader

IsSequence(s) == s \in Seq({s[k] : k \in 1 .. Len(s)})

ASSUME SizesAssumption ==
  /\ HEAP_ALIGN \in Nat \ {0} /\ HEAP_SIZE \in Nat
  /\ NodeSize \in Nat /\ WatchdogSize \in Nat /\ HeaderSize \in Nat
  /\ FONT_PATH \in Nat /\ PROGRAM_PATH \in Nat
  /\ PAGE \in Nat \ {0} /\ PT_ENTRIES \in Nat \ {0} /\ TRACKED \in Nat
  /\ MAX_ISO_ENTRIES \in Nat /\ PINS \in Nat
ASSUME ProgramFramesAssumption == HEAP_FRAME \notin L!Frames
\* Of the free frames only some are identity mapped.
ASSUME IdentityAssumption == \E f \in L!Frames : f \notin Regions /\ f \notin IDENTITY
\* Ports have the numbers 0 to 31, an I/O APIC has an address, and there is
\* something at the address that the FADT gives for the DSDT.
ASSUME MachinesAssumption ==
  \A m \in Machines :
    /\ IsSequence(m.pci)
    /\ \A k \in 1 .. Len(m.pci) : m.pci[k] # NULL => DOMAIN m.pci[k].ports \subseteq 0 .. 31
    /\ m.madt # NULL =>
         /\ IsSequence(m.madt)
         /\ \A k \in 1 .. Len(m.madt) : m.madt[k].type = "ioapic" => m.madt[k].address # NULL
    /\ \A d \in DOMAIN m.dsdts : IsSequence(m.dsdts[d].aml)
    /\ m.fadt # NULL =>
         m.fadt.dsdt \in DOMAIN m.dsdts /\ m.fadt.x_dsdt \in DOMAIN m.dsdts \cup {NULL}
    /\ m.font \in Nat
    /\ m.file # NULL /\ m.file.type = "file" =>
         /\ m.file.size \in Nat /\ m.file.elf \in BOOLEAN /\ IsSequence(m.file.segments)
         /\ \A k \in 1 .. Len(m.file.segments) :
              LET s == m.file.segments[k]
              IN  {s.load, s.exec} \subseteq BOOLEAN /\ {s.vaddr, s.memsz, s.filesz, s.offset} \subseteq Nat

storage   == <<pci, disk, fn, i, abar, ahci_port, rebased, GPTGlobal, volume>>
firmware  == <<madt, fadt, dsdts, entry, g_ioapic, g_iso, redirection, g_AcpiPowerReg, g_S5Info>>
program   == <<file, nxe, page_bitmap, last_allocated_index, table, no_exec, memory, seg, off>>
loader    == <<program, heap_curr>>
boot_vars == <<pc, font, storage, firmware, loader>>

BootInit ==
  /\ pc = "scan"
  /\ \E m \in Machines :
       /\ pci = m.pci /\ disk = m.disk
       /\ madt = m.madt /\ fadt = m.fadt /\ dsdts = m.dsdts
       /\ font = m.font /\ file = m.file /\ nxe = m.nxe
  /\ S!InitStorage /\ F!InitFirmware /\ L!InitLoader

\* The font, on a heap from which InitWatchdog and KernelMain, for the root
\* node, have taken before; its header is behind it.  Without a font
\* SetCursorMiddle divides by zero and halts.  A volume that is none has no
\* such file.
PrepareFont ==
  /\ pc = "font"
  /\ \E found \in 0 .. FONT_PATH, ready \in BOOLEAN :
       LET size   == IF found = FONT_PATH THEN font ELSE 0
           buffer == L!AlignUp(WatchdogSize) + (1 + found) * L!AlignUp(NodeSize)
           header == buffer + L!AlignUp(size)
       IN  /\ found = FONT_PATH => volume = "fat32"
           /\ ready => found = FONT_PATH
           /\ heap_curr' = header + L!AlignUp(HeaderSize)
           /\ pc' = L!Writing((0 .. buffer + size - 1) \cup (header .. header + HeaderSize - 1),
                              IF ready THEN "open" ELSE "halted")
  /\ UNCHANGED <<font, storage, firmware, program>>

BootNext ==
  \/ S!Storage  /\ UNCHANGED <<font, firmware, loader>>
  \/ F!Firmware /\ UNCHANGED <<font, storage, loader>>
  \/ L!Loader   /\ UNCHANGED <<font, storage, firmware>>
  \/ PrepareFont

\* Fairness: the one thread runs on, and the disk answers; that it may not,
\* and what the watchdog does then, is in Clock.
BootSpec == BootInit /\ [][BootNext]_boot_vars /\ WF_boot_vars(BootNext)

(***************************************************************************)
(* What is promised                                                        *)
(***************************************************************************)
Stages == {"scan", "probe", "frames", "madt", "fadt", "ioapic", "gpt", "entries", "mount",
           "font", "open", "load", "userland", "reset", "halted", "wild"}

\* The structures of port p are mapped, and none is one of port q.
Separate(p, q) ==
  /\ S!Structures(p[2]) \subseteq 0 .. 8191
  /\ Cardinality(S!Structures(p[2])) = 4 + 1 + 32
  /\ (p # q /\ p[1] = q[1]) => S!Structures(p[2]) \cap S!Structures(q[2]) = {}

\* Types; the command structures of all the ports and slots of a controller
\* lie apart, and in the memory that init_paging maps for them (2 MiB).
BootTypeOK ==
  /\ pc \in Stages
  /\ fn \in 1 .. Len(pci) + 1 /\ i \in 0 .. 32
  /\ heap_curr \in Nat
  /\ page_bitmap \in [L!Frames -> 0 .. 1]
  /\ table \in [0 .. PT_ENTRIES - 1 -> L!Frames \cup {HEAP_FRAME}]
  /\ \A p, q \in rebased : Separate(p, q)

\* Whatever the tables, the disks and the program are, the boot comes to an
\* end: in the program, or by halting or resetting the machine.
BootEnds == <>(pc \in {"userland", "reset", "halted", "wild"})

\* With one AHCI controller the boot takes its first disk, if there is one,
\* whatever other devices are attached in front of it and behind it.
DiskFound ==
  LET controllers == {k \in 1 .. Len(pci) : pci[k] # NULL}
  IN  (pc \notin {"scan", "probe"} /\ Cardinality(controllers) = 1) =>
        LET c     == pci[CHOOSE k \in controllers : TRUE]
            disks == {k \in DOMAIN c.ports : c.ports[k] = "ata"}
        IN  disks # {} => ahci_port = <<c.abar, CHOOSE k \in disks : \A l \in disks : k <= l>>

\* The keyboard's interrupt reaches its handler: with one I/O APIC and a MADT
\* that is in order the pin that the MADT gives it - an override, or its own
\* number - has its vector, and no other pin has.
GsiOf(irq) ==
  LET overrides == {k \in 1 .. Len(madt) : madt[k].type = "iso" /\ madt[k].irq = irq}
  IN  IF overrides = {} THEN irq
      ELSE madt[CHOOSE k \in overrides : \A l \in overrides : k <= l].gsi

InOrder ==
  /\ madt # NULL
  /\ \A k \in 1 .. Len(madt) : madt[k].length = "ok"
  /\ Cardinality({k \in 1 .. Len(madt) : madt[k].type = "ioapic"}) = 1
  /\ Cardinality({k \in 1 .. Len(madt) : madt[k].type = "iso"}) <= MAX_ISO_ENTRIES
  /\ GsiOf(F!Keyboard) # GsiOf(F!Mouse)

KeyboardRouted ==
  (pc \in {"gpt", "font", "userland"} /\ InOrder) =>
     {p \in DOMAIN redirection : redirection[p] = 33} = {GsiOf(F!Keyboard)} \cap DOMAIN redirection

\* If the DSDT gives \_S5_ the four elements it usually has, as bytes, then
\* SHUTDOWN writes the first of them to PM1a_CNT.  It does so because two
\* things make up for each other: the package's length, 10, is taken for a
\* byte's prefix, so that the elements are one place off, and the second
\* type is written where the first belongs.
S5Package(a, b) == <<S5_NAME, 18, 10, 4, 10, a, 10, b, 10, 0, 10, 0>>

ShutdownWritesS5 ==
  \A a, b \in 0 .. 7 :
    (/\ pc = "userland"
     /\ g_S5Info.Found /\ g_AcpiPowerReg[1] # 0
     /\ \E k \in 1 .. Len(F!Dsdt.aml) - 11 :
          /\ SubSeq(F!Dsdt.aml, k, k + 11) = S5Package(a, b)
          /\ \A l \in 1 .. k - 1 : F!Dsdt.aml[l] # S5_NAME)
    => F!AcpiShutdown[1] = a * 2 ^ 10 + F!SLP_EN

\* The program is in memory as its file says: every unit of a segment that
\* the file has, zeros behind them, on frames that nobody else uses.  This
\* takes segments that begin with a page, share none, and lie close enough
\* not to share an entry of page 0.  (A program for which there are not enough
\* frames at their own addresses does not get to run.)
Loadable ==
  /\ file.elf
  /\ \A s \in 1 .. Len(file.segments) :
       LET f == file.segments[s] IN f.load => f.vaddr % PAGE = 0 /\ f.filesz <= f.memsz

PagesFor(s) == {L!FirstOf(s) + k : k \in 0 .. L!PagesOf(s) - 1}
ProgramPages ==
  UNION {PagesFor(file.segments[s]) : s \in {t \in 1 .. Len(file.segments) : file.segments[t].load}}

Apart ==
  /\ \A s, t \in 1 .. Len(file.segments) :
       (s # t /\ file.segments[s].load /\ file.segments[t].load) =>
          PagesFor(file.segments[s]) \cap PagesFor(file.segments[t]) = {}
  /\ \A p, q \in ProgramPages : L!EntryOf(p) = L!EntryOf(q) => p = q

FrameOf(page) == table[L!EntryOf(page)]

ProgramLoaded ==
  (pc = "userland" /\ Loadable /\ Apart) =>
     /\ \A p \in ProgramPages : FrameOf(p) \in L!Frames \ Regions
     /\ \A p, q \in ProgramPages : p # q => FrameOf(p) # FrameOf(q)
     /\ \A n \in 1 .. Len(file.segments) :
          LET s == file.segments[n] IN
          s.load => \A u \in 0 .. s.memsz - 1 :
            memory[FrameOf((s.vaddr + u) \div PAGE)][u % PAGE] =
              IF u < s.filesz THEN s.offset + u + 1 ELSE 0
=============================================================================
