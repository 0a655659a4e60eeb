------------------------------- MODULE MCBoot -------------------------------
(***************************************************************************)
(* A machine on which everything is in order, and others that differ from  *)
(* it in one part: any devices at three ports or a second controller,      *)
(* disks without a GPT or a FAT32 volume, all MADTs of up to three entries *)
(* of nine kinds and one with too many overrides, FADTs and DSDTs that are *)
(* bad or out of reach, AML with several forms of the package \_S5_, and   *)
(* files that are no program, too large, or whose segments share a page or *)
(* an entry of page 0, with and without a no-execute bit.  A page has two  *)
(* units, page 0 four entries, and five frames are free, of which four can *)
(* be zeroed.  The paths are as long as the kernel's; the heap meets the   *)
(* disk's structures behind 38 units.                                      *)
(***************************************************************************)
EXTENDS Boot, TLC

Hba(abar_, ports_) == [abar |-> abar_, ports |-> ports_]

Attached == {"none", "ata", "atapi", "semb", "pm", "unknown"}

Pcis == {<<NULL, Hba(1, p)>> : p \in [{0, 1, 31} -> Attached]} \cup {
  <<>>,
  <<Hba(1, 0 :> "ata"), NULL, Hba(2, 0 :> "atapi")>>,
  <<Hba(1, 0 :> "ata"), Hba(2, 0 :> "none")>>}

Disks == {[gpt |-> FALSE, first |-> "other"], [gpt |-> TRUE, first |-> "other"]}

Lapic           == [type |-> "lapic", length |-> "ok"]
IoApic(a)       == [type |-> "ioapic", length |-> "ok", address |-> a]
Iso(irq_, gsi_) == [type |-> "iso", length |-> "ok", irq |-> irq_, gsi |-> gsi_]
Bad(length_)    == [type |-> "other", length |-> length_]

Entries == {Lapic, IoApic(LEGACY), IoApic("elsewhere"), Iso(0, 2), Iso(1, 3), Iso(12, 1),
            Bad("ok"), Bad("short"), Bad("beyond")}
Madts == {NULL, <<IoApic(LEGACY), Iso(0, 2), Iso(9, 9), Iso(1, 3)>>} \cup
         UNION {[1 .. n -> Entries] : n \in 0 .. 3}

Fadt(x) == [mapped |-> TRUE, signed |-> TRUE, summed |-> TRUE, revision |-> 2,
            dsdt |-> "old", x_dsdt |-> x, pm1a |-> 1, pm1b |-> 0]

Fadts == {NULL, Fadt("new"), [Fadt(NULL) EXCEPT !.revision = 1],
          [Fadt("new") EXCEPT !.revision = 1, !.pm1a = 0, !.pm1b = 2],
          [Fadt("new") EXCEPT !.mapped = FALSE], [Fadt("new") EXCEPT !.signed = FALSE],
          [Fadt("new") EXCEPT !.summed = FALSE]}

Table(aml_) == [mapped |-> TRUE, signed |-> TRUE, summed |-> TRUE, aml |-> aml_]
Junk == <<8, 10, 3, 16>>

Amls ==
  {Junk \o S5Package(a, b) \o Junk : a \in {0, 5}, b \in {0, 5, 7}} \cup
  {<<>>, Junk, Junk \o <<S5_NAME>>, <<S5_NAME, 16>> \o Junk, <<S5_NAME, 18, 3, 10>>,
   <<S5_NAME, 18, 6, 2, 10, 5, 10, 7>>, <<S5_NAME, 18, 6, 4, 0, 0, 0, 0>> \o Junk \o Junk}

Dsdts == {[Table(S5Package(5, 7)) EXCEPT !.mapped = FALSE],
          [Table(S5Package(5, 7)) EXCEPT !.signed = FALSE],
          [Table(S5Package(5, 7)) EXCEPT !.summed = FALSE]} \cup {Table(a) : a \in Amls}

Seg(vaddr_, memsz_, filesz_, offset_) ==
  [load |-> TRUE, exec |-> TRUE, vaddr |-> vaddr_, memsz |-> memsz_, filesz |-> filesz_, offset |-> offset_]
Data(s) == [s EXCEPT !.exec = FALSE]
Note == [Seg(0, 1, 1, 0) EXCEPT !.load = FALSE]
File(size_, segments_) == [type |-> "file", elf |-> TRUE, size |-> size_, segments |-> segments_]

Files == {
  NULL, [type |-> "dir"], File(0, <<>>), [File(4, <<>>) EXCEPT !.elf = FALSE],
  File(4, <<Seg(8, 3, 3, 0), Data(Seg(12, 4, 1, 3))>>),
  File(4, <<Seg(8, 3, 3, 0), Data(Seg(12, 4, 0, 3))>>),
  File(6, <<Data(Seg(12, 2, 2, 1)), Note, Seg(8, 4, 3, 3)>>),
  File(4, <<Seg(8, 1, 1, 0), Seg(9, 2, 1, 1)>>),
  File(4, <<Seg(8, 2, 2, 0), Seg(16, 2, 2, 2)>>),
  File(4, <<Seg(9, 3, 2, 1)>>),
  File(2, <<Seg(8, 10, 1, 0), Seg(2, 0, 0, 0)>>),
  File(2, <<Seg(8, 9, 1, 0), Seg(18, 1, 1, 1)>>),
  File(2, <<Seg(8, 8, 1, 0), Seg(16, 4, 1, 1)>>),
  File(2, <<Seg(8, 12, 0, 0)>>), File(2, <<Seg(8, 12, 2, 0)>>),
  File(14, <<Seg(8, 2, 2, 0)>>), File(15, <<Seg(8, 2, 2, 0)>>), File(24, <<>>)}

Nominal ==
  [pci |-> <<Hba(1, 0 :> "ata")>>, disk |-> [gpt |-> TRUE, first |-> "fat32"],
   madt |-> <<Lapic, IoApic(LEGACY), Iso(0, 2)>>,
   fadt |-> Fadt("new"),
   dsdts |-> ("old" :> Table(S5Package(1, 1))) @@ ("new" :> Table(S5Package(5, 7))),
   font |-> 2, file |-> File(4, <<Seg(8, 3, 3, 0)>>), nxe |-> TRUE]

MCMachines ==
  {[Nominal EXCEPT !.pci = p] : p \in Pcis} \cup {[Nominal EXCEPT !.disk = d] : d \in Disks} \cup
  {[Nominal EXCEPT !.madt = m] : m \in Madts} \cup {[Nominal EXCEPT !.fadt = f] : f \in Fadts} \cup
  {[Nominal EXCEPT !.dsdts["new"] = d] : d \in Dsdts} \cup
  {[Nominal EXCEPT !.file = f, !.nxe = b] : f \in Files, b \in BOOLEAN} \cup
  {[Nominal EXCEPT !.font = n] : n \in {12, 14, 18, 28, 40}}
=============================================================================
