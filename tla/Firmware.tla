------------------------------ MODULE Firmware ------------------------------
(***************************************************************************)
(* What the boot takes from the ACPI tables (acpi/acpi.c, madt.c, fadt.c): *)
(* the I/O APIC and the interrupt source overrides of the MADT, by which   *)
(* it routes the keyboard's interrupt, and of the FADT and its DSDT the    *)
(* registers and the value that switch the machine off.                    *)
(*                                                                         *)
(* Abstractions.  A MADT is the sequence of its entries, of whose lengths  *)
(* is said whether they are too small, reach behind the table or neither.  *)
(* A table is signed or not and summed (its checksum is right) or not.     *)
(* AML is the sequence of its bytes, with the five of NameOp "_S5_" as     *)
(* one.  SLP_TYPa and SLP_TYPb of a scan that fails, which nobody reads,   *)
(* are left out, and so is g_cpu_cores.                                    *)
(***************************************************************************)
EXTENDS Integers, Sequences

CONSTANTS
  NULL,
  PINS,              \* of an I/O APIC
  MAX_ISO_ENTRIES,   \* (24)
  LEGACY,            \* 0xFEC00000, the I/O APIC's address that is mapped
  S5_NAME            \* a byte of AML: the name "_S5_"

PackageOp  == 18
BytePrefix == 10
SLP_EN     == 2 ^ 13
MASKED     == 0      \* a pin without a vector
Keyboard   == 1
Mouse      == 12

VARIABLES
  pc,
  madt,              \* NULL or the entries: [type, length, ...]
  fadt,              \* NULL or [mapped, signed, summed, revision, dsdt, x_dsdt, pm1a, pm1b]
  dsdts,             \* by address: [mapped, signed, summed, aml]
  entry,             \* a local of UEFIParseMADT
  g_ioapic, g_iso,   \* its address; pairs of an IRQ and its GSI
  redirection,       \* the I/O APIC: vectors by pin
  g_AcpiPowerReg, g_S5Info

tables == <<madt, fadt, dsdts>>
found  == <<entry, g_ioapic, g_iso, redirection, g_AcpiPowerReg, g_S5Info>>

InitFirmware ==
  /\ entry = 1 /\ g_ioapic = NULL /\ g_iso = <<>>
  /\ redirection = [p \in 0 .. PINS - 1 |-> MASKED]
  /\ g_AcpiPowerReg = <<0, 0>>
  /\ g_S5Info = [Found |-> FALSE, SLP_TYPa |-> 0, SLP_TYPb |-> 0]

(***************************************************************************)
(* UEFIParseMADT                                                           *)
(***************************************************************************)
NoMadt ==
  /\ pc = "madt" /\ madt = NULL
  /\ pc' = "ioapic"
  /\ UNCHANGED <<tables, found>>

\* The table ends, or an entry's length makes no sense.
\* (Mutant: an entry without a length is not refused, and not got over.)
EndsForOverrun == entry <= Len(madt) => madt[entry].length = "beyond"
Ends == entry <= Len(madt) => madt[entry].length # "ok"

MadtEnds ==
  /\ pc = "madt" /\ madt # NULL /\ Ends
  /\ pc' = "fadt"
  /\ UNCHANGED <<tables, found>>

Forward == entry' = IF madt[entry].length = "short" THEN entry ELSE entry + 1

MadtEntry ==
  /\ pc = "madt" /\ madt # NULL /\ ~Ends
  /\ LET e == madt[entry]
     IN  /\ g_ioapic' = IF e.type = "ioapic" THEN e.address ELSE g_ioapic
         /\ g_iso' = IF e.type = "iso" /\ Len(g_iso) < MAX_ISO_ENTRIES
                     THEN Append(g_iso, <<e.irq, e.gsi>>) ELSE g_iso
  /\ Forward
  /\ UNCHANGED <<pc, tables, redirection, g_AcpiPowerReg, g_S5Info>>

(***************************************************************************)
(* AcpiParseFADT                                                           *)
(***************************************************************************)
Least(S) == CHOOSE k \in S : \A l \in S : k <= l

\* In the bytes behind the PackageOp - its length and its number of elements
\* among them - the first two prefixes that are not another one's value.
Prefixes(aml, from) == {j \in from .. Len(aml) - 1 : aml[j] = BytePrefix}
First(aml, k)       == Least(Prefixes(aml, k + 2))
Second(aml, k)      == Least(Prefixes(aml, First(aml, k) + 2))

AcpiScanForS5(aml) ==
  LET names == {k \in 1 .. Len(aml) - 1 : aml[k] = S5_NAME /\ aml[k + 1] = PackageOp}
      good  == {k \in names : /\ Prefixes(aml, k + 2) # {}
                              /\ Prefixes(aml, First(aml, k) + 2) # {}}
      value(j) == aml[j + 1] % 128
  IN  IF good = {} THEN g_S5Info
      ELSE [Found |-> TRUE, SLP_TYPa |-> value(First(aml, Least(good))),
                            SLP_TYPb |-> value(Second(aml, Least(good)))]

NoFadt ==
  /\ pc = "fadt" /\ fadt = NULL
  /\ pc' = "ioapic"
  /\ UNCHANGED <<tables, found>>

Dsdt == dsdts[IF fadt.revision >= 2 /\ fadt.x_dsdt # NULL THEN fadt.x_dsdt ELSE fadt.dsdt]

\* init_paging maps neither the FADT nor the DSDT: they can be read only if
\* they share a large page with something else.  A page fault finds no font
\* yet, and halts.
FadtFaults ==
  /\ pc = "fadt" /\ fadt # NULL
  /\ \/ ~fadt.mapped /\ UNCHANGED g_AcpiPowerReg
     \/ /\ fadt.mapped /\ fadt.signed /\ fadt.summed /\ ~Dsdt.mapped
        /\ g_AcpiPowerReg' = <<fadt.pm1a, fadt.pm1b>>
  /\ pc' = "halted"
  /\ UNCHANGED <<tables, entry, g_ioapic, g_iso, redirection, g_S5Info>>

AcpiParseFADT ==
  /\ pc = "fadt" /\ fadt # NULL /\ fadt.mapped
  /\ fadt.signed /\ fadt.summed => Dsdt.mapped
  /\ g_AcpiPowerReg' = IF fadt.signed THEN <<fadt.pm1a, fadt.pm1b>> ELSE g_AcpiPowerReg
  /\ g_S5Info' = IF fadt.signed /\ fadt.summed /\ Dsdt.signed /\ Dsdt.summed
                 THEN AcpiScanForS5(Dsdt.aml) ELSE g_S5Info
  /\ pc' = "ioapic"
  /\ UNCHANGED <<tables, entry, g_ioapic, g_iso, redirection>>

\* What the command SHUTDOWN writes to PM1a_CNT and PM1b_CNT; it knows both
\* types, and gives both registers the second.
\* (Mutant: PM1a gets the first.)
SlpTypOwn(which) == IF which = 1 THEN g_S5Info.SLP_TYPa ELSE g_S5Info.SLP_TYPb
SlpTyp(which) == g_S5Info.SLP_TYPb

AcpiShutdown ==
  [which \in {w \in 1 .. 2 : g_S5Info.Found /\ g_AcpiPowerReg[w] # 0} |->
     (SlpTyp(which) % 8) * 2 ^ 10 + SLP_EN]

(***************************************************************************)
(* InitIOAPIC                                                              *)
(***************************************************************************)
\* (Mutant: an override is found, and not used.)
IRQIsGSI(irq) == irq

UEFIFindGSIForIRQ(irq) ==
  LET overrides == {k \in 1 .. Len(g_iso) : g_iso[k][1] = irq}
  IN  IF overrides = {} THEN irq ELSE g_iso[Least(overrides)][2]

\* The GSI is taken for the pin, whatever the I/O APIC's gsi_base is.
IOAPICRedirectIRQ(irq, vector, pins) ==
  [p \in DOMAIN pins |-> IF p = UEFIFindGSIForIRQ(irq) THEN vector ELSE pins[p]]

\* Without an I/O APIC the writes go to page 0; one that is not at the usual
\* address is not mapped, because init_paging runs before init_acpi.
InitIOAPIC ==
  /\ pc = "ioapic"
  /\ redirection' = IF g_ioapic = LEGACY
                    THEN IOAPICRedirectIRQ(Mouse, 44, IOAPICRedirectIRQ(Keyboard, 33, redirection))
                    ELSE redirection
  /\ pc' = IF g_ioapic \in {NULL, LEGACY} THEN "gpt" ELSE "halted"
  /\ UNCHANGED <<tables, entry, g_ioapic, g_iso, g_AcpiPowerReg, g_S5Info>>

Firmware ==
  \/ NoMadt \/ MadtEnds \/ MadtEntry
  \/ NoFadt \/ FadtFaults \/ AcpiParseFADT
  \/ InitIOAPIC
=============================================================================
