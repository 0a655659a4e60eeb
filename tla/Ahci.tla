-------------------------------- MODULE Ahci --------------------------------
(***************************************************************************)
(* ahci_read and AHCIWriteToStorage (drivers/storage/ahci.c) against the   *)
(* port they poll.  The driver is one thread; the port is hardware, and    *)
(* its actions (Port...) are modelled from the registers the driver reads  *)
(* and writes.                                                             *)
(*                                                                         *)
(* The two functions differ in the bits of tfd they wait for and in the    *)
(* status they return, so they share the actions below.  Setting up the    *)
(* header, the table, the PRDT and the FIS of a slot is one write of the   *)
(* command into cmdtbl.  A transfer is the copy of one value between a     *)
(* block and a buffer; a failed one leaves Torn behind.                    *)
(***************************************************************************)
EXTENDS Integers, FiniteSets

CONSTANTS SLOTS,   \* 32 in find_cmdslot
          TIMEOUT, \* turns of the wait for BSY (1000000)
          Lbas, Buffers,
          None, Torn

STATUS_OK      == 1
STATUS_FAIL    == 0
STATUS_TIMEOUT == -2

Slots    == 0 .. SLOTS - 1
Commands == [op : {"read", "write"}, lba : Lbas, buf : Buffers]
Values   == Lbas \cup {Torn}

ASSUME SlotsAssumption == SLOTS \in Nat \ {0} /\ TIMEOUT \in Nat

VARIABLES
  ci, tfes, tfd,         \* port registers: command issue, the error bit of is,
                         \* and the BSY and DRQ bits of tfd
  executing, halted,     \* the slot the port works on; it stopped on an error
  halts,                 \* kind of port: a fatal error stops it (AHCI), or not
  cmdtbl,                \* what each slot's header and table say
  blocks, mem,
  at, call, slot, spin,  \* the driver
  result,
  failed                 \* history: slots of commands that ended in an error

port   == <<ci, tfes, tfd, executing, halted, failed>>
driver == <<at, call, slot, spin, result>>
vars   == <<port, halts, cmdtbl, blocks, mem, driver>>

Init ==
  /\ ci = {} /\ tfes = FALSE /\ tfd \in SUBSET {"BSY", "DRQ"}
  /\ executing = None /\ halted = FALSE /\ halts \in BOOLEAN
  /\ cmdtbl = [s \in Slots |-> None]
  /\ blocks = [l \in Lbas |-> l]
  /\ mem = [b \in Buffers |-> Torn]
  /\ at = "idle" /\ call = None /\ slot = 0 /\ spin = 0 /\ result = STATUS_OK
  /\ failed = {}

(***************************************************************************)
(* The driver                                                              *)
(***************************************************************************)
Return(status) ==
  /\ at' = "idle"
  /\ result' = status

\* The call clears the interrupt status first.
Call(c) ==
  /\ at = "idle"
  /\ call' = c
  /\ tfes' = FALSE
  /\ at' = "slot"
  /\ UNCHANGED <<ci, tfd, executing, halted, failed, halts, cmdtbl, blocks, mem, slot, spin, result>>

\* find_cmdslot: the lowest slot with neither sact nor ci (sact stays 0: the
\* driver queues nothing).
FreeSlots == Slots \ ci

NoSlot ==
  /\ at = "slot"
  /\ FreeSlots = {}
  /\ Return(STATUS_FAIL)
  /\ UNCHANGED <<port, halts, cmdtbl, blocks, mem, call, slot, spin>>

SetUp ==
  /\ at = "slot"
  /\ \E s \in FreeSlots :
       /\ \A t \in FreeSlots : s <= t
       /\ slot' = s
       /\ cmdtbl' = [cmdtbl EXCEPT ![s] = call]
  /\ spin' = 0
  /\ at' = "wait"
  /\ UNCHANGED <<port, halts, blocks, mem, call, result>>

Waited == IF call.op = "read" THEN {"BSY"} ELSE {"BSY", "DRQ"}

\* (Mutant: one turn more.)
WaitOneMore ==
  /\ at = "wait"
  /\ IF tfd \cap Waited = {}
     THEN at' = "waited" /\ UNCHANGED spin
     ELSE /\ spin' = spin + 1
          /\ at' = IF spin <= TIMEOUT THEN "wait" ELSE "waited"
  /\ UNCHANGED <<port, halts, cmdtbl, blocks, mem, call, slot, result>>

\* while ((tfd & bits) && spin++ < TIMEOUT);
Wait ==
  /\ at = "wait"
  /\ IF tfd \cap Waited = {}
     THEN at' = "waited" /\ UNCHANGED spin
     ELSE /\ spin' = spin + 1
          /\ at' = IF spin < TIMEOUT THEN "wait" ELSE "waited"
  /\ UNCHANGED <<port, halts, cmdtbl, blocks, mem, call, slot, result>>

\* spin is TIMEOUT also when the bits cleared at the last look.
TimesOut ==
  /\ at = "waited"
  /\ spin >= TIMEOUT
  /\ Return(IF call.op = "read" THEN STATUS_FAIL ELSE STATUS_TIMEOUT)
  /\ UNCHANGED <<port, halts, cmdtbl, blocks, mem, call, slot, spin>>

Issue ==
  /\ at = "waited"
  /\ spin < TIMEOUT
  /\ ci' = ci \cup {slot}
  /\ at' = "poll ci"
  /\ UNCHANGED <<tfes, tfd, executing, halted, failed, halts, cmdtbl, blocks, mem, call, slot, spin, result>>

\* (Mutant: the command is taken for done as soon as it is issued.)
PollCiOnce ==
  /\ at = "poll ci"
  /\ at' = "check"
  /\ UNCHANGED <<port, halts, cmdtbl, blocks, mem, call, slot, spin, result>>

PollCi ==
  /\ at = "poll ci"
  /\ at' = IF slot \in ci THEN "poll is" ELSE "check"
  /\ UNCHANGED <<port, halts, cmdtbl, blocks, mem, call, slot, spin, result>>

\* (Mutant: the loop waits for ci alone.)
PollIsIgnored ==
  /\ at = "poll is"
  /\ at' = "poll ci"
  /\ UNCHANGED <<port, halts, cmdtbl, blocks, mem, call, slot, spin, result>>

\* An error ends the call at once; the slot's bit in ci stays set.
PollIs ==
  /\ at = "poll is"
  /\ IF tfes THEN Return(STATUS_FAIL) ELSE at' = "poll ci" /\ UNCHANGED result
  /\ UNCHANGED <<port, halts, cmdtbl, blocks, mem, call, slot, spin>>

\* (Mutant: the error bit is not looked at again once ci is clear.)
CheckNothing ==
  /\ at = "check"
  /\ Return(STATUS_OK)
  /\ UNCHANGED <<port, halts, cmdtbl, blocks, mem, call, slot, spin>>

\* The error bit once more.  ahci_read clears is only on success, and
\* AHCIWriteToStorage only on failure.
Check ==
  /\ at = "check"
  /\ Return(IF tfes THEN STATUS_FAIL ELSE STATUS_OK)
  /\ tfes' = (tfes /\ call.op = "read")
  /\ UNCHANGED <<ci, tfd, executing, halted, failed, halts, cmdtbl, blocks, mem, call, slot, spin>>

Driver ==
  \/ NoSlot \/ SetUp \/ Wait \/ TimesOut \/ Issue \/ PollCi \/ PollIs \/ Check

(***************************************************************************)
(* The port (hardware)                                                     *)
(***************************************************************************)

\* Out of reset, and after an error, the drive may be busy for a while, or
\* for ever.
PortBecomesReady ==
  /\ executing = None
  /\ tfd # {}
  /\ tfd' = {}
  /\ UNCHANGED <<ci, tfes, executing, halted, failed, halts, cmdtbl, blocks, mem, driver>>

PortStarts ==
  /\ executing = None /\ ~halted
  /\ \E s \in ci \ failed : executing' = s
  /\ tfd' = {"BSY"}
  /\ UNCHANGED <<ci, tfes, halted, failed, halts, cmdtbl, blocks, mem, driver>>

Transfer(c, torn) ==
  IF c.op = "read"
  THEN /\ mem' = [mem EXCEPT ![c.buf] = IF torn THEN Torn ELSE blocks[c.lba]]
       /\ UNCHANGED blocks
  ELSE /\ blocks' = [blocks EXCEPT ![c.lba] = IF torn THEN Torn ELSE mem[c.buf]]
       /\ UNCHANGED mem

PortCompletes ==
  /\ executing # None
  /\ Transfer(cmdtbl[executing], FALSE)
  /\ ci' = ci \ {executing}
  /\ executing' = None
  /\ tfd' = {}
  /\ UNCHANGED <<tfes, halted, failed, halts, cmdtbl, driver>>

\* A fatal error: TFES is set.  A port that halts keeps the bit in ci and
\* executes nothing until its ST bit is toggled, which no code does after
\* ahci_port_rebase; one that does not may clear the bit or keep it.
PortFails ==
  /\ executing # None
  /\ Transfer(cmdtbl[executing], TRUE)
  /\ tfes' = TRUE
  /\ \/ /\ failed' = failed \cup {executing}
        /\ UNCHANGED ci
     \/ /\ ~halts
        /\ ci' = ci \ {executing}
        /\ UNCHANGED failed
  /\ halted' = halts
  /\ executing' = None
  /\ tfd' \in {{}, {"DRQ"}}
  /\ UNCHANGED <<halts, cmdtbl, driver>>

Next ==
  \/ \E c \in Commands : Call(c)
  \/ Driver
  \/ PortBecomesReady
  \/ PortStarts
  \/ PortCompletes
  \/ PortFails

\* Fairness: the driver runs, and a port that is not halted ends every
\* command it was given; that the drive ever becomes ready is not assumed.
Spec ==
  /\ Init /\ [][Next]_vars
  /\ WF_vars(Driver)
  /\ WF_vars(PortStarts)
  /\ WF_vars(PortCompletes \/ PortFails)

(***************************************************************************)
(* What is promised                                                        *)
(***************************************************************************)

\* Types; a slot that ended in an error keeps its bit, and the only other
\* bit is that of the command the driver waits for.
TypeOK ==
  /\ ci \subseteq Slots /\ failed \subseteq ci
  /\ tfes \in BOOLEAN /\ tfd \subseteq {"BSY", "DRQ"}
  /\ executing \in Slots \cup {None}
  /\ halted \in BOOLEAN /\ halts \in BOOLEAN
  /\ cmdtbl \in [Slots -> Commands \cup {None}]
  /\ blocks \in [Lbas -> Values] /\ mem \in [Buffers -> Values]
  /\ at \in {"idle", "slot", "wait", "waited", "poll ci", "poll is", "check"}
  /\ call \in Commands \cup {None} /\ slot \in Slots
  /\ spin \in 0 .. TIMEOUT + 1
  /\ result \in {STATUS_OK, STATUS_FAIL, STATUS_TIMEOUT}
  /\ ci \ failed \subseteq {slot}

\* A call that reports success has moved the data: the port finished this
\* command, without an error, before the return.
SuccessMeansMoved ==
  [][(at # "idle" /\ at' = "idle" /\ result' = STATUS_OK) =>
        mem[call.buf] = blocks[call.lba]]_vars

\* The port never works on a command whose caller has returned: when the
\* caller frees the buffer, no transfer into it is pending.
NoTransferAfterReturn ==
  executing # None => /\ at \in {"poll ci", "poll is", "check"}
                      /\ executing = slot
                      /\ cmdtbl[executing] = call

\* Every call returns, whatever BSY does and whatever fails, as long as no
\* error has halted the port; on a halted port the loop on ci has no end.
CallsReturn == (at # "idle") ~> (at = "idle" \/ halted)
=============================================================================
