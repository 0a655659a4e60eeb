# TLA+ models of the UnOS kernel

UnOS is a hobby kernel for x86-64: one CPU, one kernel thread, interrupt handlers, no
memory protection between its parts, built without optimisation (`-O0`). A UEFI loader hands
over a framebuffer and the ACPI tables; `KernelMain` boots, finds the first AHCI disk, mounts the
FAT32 partition on it, loads a font and an ELF program from it and jumps to the program. The
repository has no tests. This directory holds TLA+ models of the parts in which a wrong step is
hard to see in the code, checked with TLC, and theorems about them checked with TLAPS.

Run a model with `tlc -config X.cfg MX.tla`, a proof with `tlapm X.tla`.

## The system: components, state, operations

| component | state | operations | modelled by |
|---|---|---|---|
| DMA buffers (`kernel/memory/malloc.c`, `map_virtual`) | `dma_bitmap`, the page table of the window, the cursor `dma_heap_curr` | `palloc_aligned_DMA`, `pfree_aligned_DMA` | `DmaPool`, `FatReadProofs` |
| FAT32 reading (`fs/vfs.c`) | the mounted volume; locals of the call | `Fat32Read`, `fat32_next_cluster`, buffers of `Fat32Lookup` | `FatRead`, `FileContract`, `FatReadProofs` |
| FAT32 lookup and listing (`fs/vfs.c`, `drivers/storage/fat32.c`) | locals of the search (`lfn_list`, `lfn_buf`) | `Fat32Open`, `Fat32Lookup`, `ReadDirectory`, `ParseFAT32` | `DirLookup`, `FatVolumeProofs` |
| FAT32 writing (`fs/vfs.c`) | FAT copies, directory sector, data clusters | `Fat32FindFreeCluster`, `Fat32WriteFATEntry`, `Fat32CreateFile` | `FatWrite`, `FatVolumeProofs` |
| AHCI driver (`drivers/storage/ahci.c`) | the port's registers, the command tables | `ahci_read`, `AHCIWriteToStorage` | `Ahci`, `BootAhciProofs` |
| search for disk and volume (`drivers/pci/`, `ahci.c`, `gpt.c`, `vfs.c`) | `abar`, `ahci_port`, `GPTGlobal`, the volume | `pci_scan`, `ahci_probe_port`, `ahci_port_rebase`, `ParseGPT`, `VFSMountFAT32Root` | `Storage` in `Boot`, `BootAhciProofs` |
| ACPI tables, I/O APIC (`acpi/`) | `g_ioapic`, `g_iso`, `g_S5Info`, the redirection table | `UEFIParseMADT`, `AcpiParseFADT`, `AcpiScanForS5`, `InitIOAPIC`, `AcpiShutdown` | `Firmware` in `Boot`, `BootAhciProofs` |
| page frames, heap (`kernel/memory/malloc.c`) | `page_bitmap`, `heap_curr` | `init_phys_allocator`, `palloc_page`, `kmalloc` | `Loader` in `Boot`, `BootAhciProofs` |
| ELF loader, userland (`fs/ext/elf.c`) | the program's pages | `UnGoToUserland`, `Elf64Load` | `Loader` in `Boot`, `BootAhciProofs` |
| boot (`kernel/UnOSKrnl.c`) | where it is | `KernelPreSetup`, `KernelMain` | `Boot`, `BootAhciProofs`; `Clock` for the watchdog, `Console` for the screen |
| paging (`kernel/memory/paging.c`) | four levels of tables, `next_free_page`, the TLB | `map_identity`, `map_virtual`, `map_virtual_user*`, `unmap_page`, `get_physical_address` | `Paging`, `AddressSpace`, `PagingProofs` |
| keyboard and terminals (`drivers/keyboard.c`, `shell/`) | `last_char`, `charbuffer`, `index` | `keyboard_handler`, `keyboard_get_char`, `terminal_queue_word` | `Terminal`, `TerminalProofs` |
| text console and panics (`fs/ext/psf.c`, `graphics/`, `kernel/logging/panic/`) | the framebuffer, the cursor and its saved copy, `GraphicOK` | `PSFPutChar`, `DrawSimplePSFText`, `TerminalTTYScrollUp`, `PrintCentered`, `Panic`, `RaiseKernelPanicError`, the command GRAPHIC | `Console`, `Paper`, `ConsoleProofs` |
| timer, clock, watchdog (`kernel/idt/`, `drivers/watchdog/`) | `tick`, `second`, `minute`, `WatchdogUnOSKrnl` | `irq_handler_c`, `InitWatchdog`, `DisableWatchdogWhile`, `delay`, `uptime`, `waitfortick` | `Clock`, `SchedulerClockProofs` |
| scheduler (`kernel/scheduler/`) | `TaskPool`, `TaskCount` | `createtask`, `dotask` | `Scheduler`, `SchedulerClockProofs` |
| APIC timer calibration (`acpi/madt.c`) | the one local APIC timer | `CalibrateLAPICBusHz`, `Wait10ms` | not modelled |
| serial port, PIC, IDT, assembly; strings, printing, other commands | - | straight-line code | not modelled |

How they interact. The boot and the commands of the terminals call the file system; the file system
takes a DMA buffer for every cluster and FAT sector, hands its physical address to the AHCI
driver, which polls the port, and returns the buffer. DMA buffers are pages mapped by `map_virtual`
into frames of a pool of their own; the program's pages are frames of `palloc_page` mapped by
`map_virtual_user_advanced`. Nothing but the handlers runs concurrently with the thread: the
timer's (clock, watchdog), the keyboard's (`last_char`), and those of exceptions, which do not
return. The hard behaviours are therefore: the handlers between any two memory accesses of the
thread; a port that fails, halts or never becomes ready; a pool that runs out or whose window wraps
in the middle of nested calls; a reset between two writes; FATs and directories in any state;
tables of the firmware that are odd or absent; and the arithmetic of boundaries. `PROJECT.json`
lists them line by line under `hazards`, each with the properties that would show it.

## The modules

**DmaPool.** A buffer is a run of virtual pages behind a cursor, each page with the first free
frame. The loops of the two functions are steps of their own (`AllocPage`, `FreePage`), so
that a pool that runs out half way through is a state. `AllocPage` is `dma_alloc_page` and
`map_virtual`, which overwrites whatever entry was there; `FreePage` is `get_physical_address`,
`unmap_page` and the clearing of the bitmap, in this order. The client is arbitrary but returns
only what it was given, once. Pages and frames are numbers, page tables one function; the
intermediate tables are in `Paging`. `FatRead` extends the module, so that its names begin with
`Pool`. `abandoned`, `buffers` and `wrapped` are history.
A frame is never mapped twice and never given out while it is mapped (`FramesExclusive`, also after
the wrap); until the first wrap live buffers are whole and apart (`BuffersIntact`) and frames are
lost only by allocations that ran out (`NoFrameLost`). After a wrap the last two do not hold: the
cursor passes over buffers that nobody returned.

**FatRead.** `Fat32Read` with its two loops, `fat32_next_cluster` with its five exits and the
buffers of `Fat32Lookup`, with the variables of `DmaPool` as part of its own: every `Take` and
`GiveBack` runs the pool's actions until they return. The FAT is an arbitrary function, so that
cycles, self-loops, free and bad entries are all there; every command may fail. Data is counted
in units of a cluster. `FileContract` is what a caller is promised: units of the file in order
from the offset on, no more than asked for, and a return. `RefinesContract` is the refinement,
with the file computed from the FAT and the directory's size. `CompleteUnlessFailed` adds that
a read which nothing failed is as long as the request, the file and `MAX_CLUSTERS_CHAIN` allow.
`TransfersContiguous` is the unwritten condition under which one PRDT entry for a whole cluster is
right. `OnlyLookupsLeak` says that reads return every buffer; lookups that succeed do not, which is
modelled as it is. When the pool is empty, `fat32_next_cluster` does not notice
(`NextWithoutBuffer`), and goes on with whatever it read; such calls end without data, because a
pool that has no page for a FAT sector has none for the next cluster either.

**DirLookup.** `Fat32Open`'s loop over the segments of a path, `Fat32Lookup`'s over the entries of one
directory cluster - the end mark, deleted entries, fragments of long names collected in `lfn_list`,
and the short entry that closes them - and the listings of `ReadDirectory` and `ParseFAT32`, which put
long names together in another way, in a string that is filled from one end and cleared after each
name. The directories are what an external actor (`Tool`: create, delete) leaves while the kernel
does not run; `tree` is its own record of them. `OpenResolves` compares the two: what a path leads
to is what was created there. `ListsTheDirectory`: a listing names every entry once and nothing else,
with only the first thirteen characters of a long name. A file on the way of a path is searched as if
it were a directory, in arbitrary contents (`FileData`), for which only the bounds of `lfn_list` are
promised (`LookupTypeOK`); an entry found there may have cluster 0 or 1, which the next search rejects
(`NoCluster`). The search's DMA buffer has a cluster's size; a listing's has one page (`PAGE_ENTRIES`
entries), has the disk write a whole cluster to it, and goes through all the entries a cluster has. So
`ListsTheDirectory` is about listings that end within the page: with clusters above 4 KiB the walk may leave it
(`LeavesPage`, `PageFault`), and from there on nothing is promised. What the disk overwrites then are
the frames behind the page's in the DMA pool; their owners are not modelled here. Nor is a listing
for which the pool has no page: its first access is to address 0.
`MAX_LFN` stands for the 20 of `lfn_list` and may be smaller, not larger: fragments are
numbered up to 20. Left out: `.` and `..` (the latter has cluster 0 in a directory of the root, from where
every lookup fails), volume labels (which the code takes for files), directories of more than one
cluster (of which it searches the first), and tools that delete a short entry without its
fragments (which then name the next file).

**FatWrite.** `Fat32CreateFile` as the sequence of its commands: the search of the FAT, the
entry in every copy, the directory sector, the data. Each command may fail, a write may time out
(and is taken for done), the pool may be empty, and the machine may be reset between any two. It
keeps the code's number of a cluster (`Number`, from a byte offset) and the code's place of the FAT
(`FatSector`, counted from the beginning of the disk, where everything else counts from the
partition's). So the end mark goes to sectors that lie `FIRST_LBA` in front of the volume's FAT. The data command is
given a virtual address, so it writes `JUNK`. `MarksBeforeDirectory` says both things that this makes of a
create: no directory entry gets to the disk before the end mark got to as many sectors as the FAT has copies
(unless a write of one failed), which is the order that a reset must not show otherwise (`MarksFirst`); and,
where the partition begins behind all the sectors so marked, the volume's FAT is never
changed (`FatUntouched`): the cluster of the new file is still free in every copy, whatever the order.
`LayoutAssumption` allows any `FIRST_LBA`, also one for which the marks fall into the reserved sectors or into a
copy of the FAT. `TypeOK` includes that a call holds one buffer at a time, and
that buffer and `fat_lock` are back when it has ended.

**Ahci.** The driver's accesses to the port's registers one by one (slot search, wait, issue,
the two polls, the last check) against an abstract port that executes commands, completes them,
or fails them with or without halting. `failed` slots keep their bit in `ci` and are lost.
Safety: success means that the data moved; a slot is not rewritten while issued (`TypeOK`); nothing
is transferred after a return. Liveness: every call returns unless an error halted the port.

**Boot, composing Storage, Firmware and Loader.** The boot is sequential, but what it meets is not
known: `BootInit` chooses a machine, and the three modules, instantiated in `Boot` over one `pc`, work
through it. `Storage`: the PCI functions in the order of the scan (a second controller replaces
`abar`), any kind of device at each port, the search that stops at the first disk and rebases
on the way, `ParseGPT` and the mount, which give up at a read that failed or timed out (the mount then runs without a
partition entry, or the boot without a volume). `Firmware`: the MADT
entry by entry, with lengths that are too short or reach behind the table, the FADT and DSDT with
their checks, the scan for `_S5_`, the routing of keyboard and mouse, and what SHUTDOWN would write.
`Loader`: the frame allocator with its reserved regions, the bump heap with everything that was taken from it
before (the watchdog's structure, a node for each path component, the font and its header; no limit: a file that is too
large reaches the disk's command structures), the file's checks, and `Elf64Load` page by page: a frame is
zeroed at its physical address, which resets the machine for frames outside of the identity mapping
(`ZeroingFaults`), and mapped, not for execution if the segment says so, which resets it at the copy if the firmware
left the no-execute bit off (`CopyFaults`), over page tables that are all physical page 0 (see `Paging`) and so are one
table used modulo its length. Properties: the boot ends (`BootEnds`: in the program, or with the machine halted, reset
or gone astray; which of these it is, is no part of it); it takes the first
disk (`DiskFound`), with command structures apart for all ports and slots (`BootTypeOK`); the keyboard's
interrupt is routed where the MADT says and nowhere else (`KeyboardRouted`); SHUTDOWN writes the
right type if the package is of the usual form, four elements of a byte each, although the scan is one element off
(`ShutdownWritesS5`: two deviations cancel); and a program that is started is in memory as its file says
(`ProgramLoaded`), under the conditions that the code silently needs, which are `Loadable` and `Apart`.
`IdentityAssumption` is what the code does not check and the machine has: some frame that `palloc_page` may give
is not identity mapped (from 16 MiB on). `MachinesAssumption` is what the proofs need
of a machine: ports are numbered 0 to 31 (the bits of a 32-bit register), an I/O APIC has an address, there
are bytes at the address that the FADT gives for the DSDT, and sizes and offsets in a file are numbers. The
boot's definitions are `BootInit`, `BootNext` and `BootSpec`, since its proofs share a module with
`Ahci`'s.

**Paging, AddressSpace.** Tables are frames, and a wrong address in an entry is a write to
another frame; `Down` is one level of the walk that makes tables, `Walk` is the processor's. The kernel's
mappings, unmappings and accesses come in any order; those of the boot in that of `init_paging` and
`Elf64Load` (`BootMaps`), in other entries of the PML4 than the kernel's (`BootAssumption`: the
kernel maps its heap at entry 256 and the DMA window at 288, everything else lies in the lower
half). `virt_to_phys_simple` is 0 for every table, so all tables that the
user mappings make are entered as physical page 0, which is taken to be zero at first. `AddressSpace` is
one map from pages to frames that changes at one page a step; `ImplementsAddressSpace` shows that the
kernel's pages are such a map whatever the user mappings do to page 0. `OneParent` is the shape
behind it. `TranslationsAgree` relates the tables to the TLB and to `get_physical_address`.

**Terminal.** `keyboard_handler` runs between any of the three accesses of `keyboard_get_char`
to `last_char`; presses are numbered, so that a character taken twice would show. Characters are
taken at most once and in order; a user who waits for each character loses nothing; the line
stays in its buffer (`TypeOK`). Both terminals run the same loop. `run_command` is a step: the
commands are those that return.

**Console, Paper.** The framebuffer as a grid of cells of one glyph. `draw_glyph` sets pixels and
clears none, so that drawing over a character gives `OVERPRINT`. One action is one character, a
scroll, or one call that moves the cursor; the thread is the boot's output (with `PrintCentered`,
whose text goes to the serial port while the cursor is in the middle), then the graphic terminal
with its prompt, keys and answers. The two panics come at any step and run with interrupts off, so
that a scroll's `delay` never ends in them. `Paper` is what a console promises: writing on an
endless sheet of which the screen shows the end. `ShowsThePaper` is the refinement, `TypeOK` says
that whatever is drawn is drawn on the screen, and `PanicResets` that a panic's text, with
interrupts off, gets to the reset: it has to begin at the top and to fit.

**Clock.** `irq_handler_c` is one action (interrupt gates); the thread is the boot from `sti`
on, in numbered stages of which some read the disk and may hang, then `DisableWatchdogWhile`
as a test and an assignment, then the commands `uptime` (two reads), `waitfortick` (two
comparisons a turn; what was typed has been an int on the way, `AsInt`) and `delay` (the target truncated to an
int). A watchdog that fires panics:
with a font it resets the machine, without one it divides by zero and halts. `ClockConsistent`: the
three counters are one clock, and what `uptime` shows is not behind it. `OnlyASlowBootIsStopped`,
`HangIsCaught`: the watchdog stops a boot that takes too long, and no other. `WaitsEnd`: a wait
ends if its tick is one the clock can reach. A number from `INT_MAX + 1` on becomes a negative int, which
`waitfortick` extends to a tick that no clock reaches (`Never`), and waits for.

**Scheduler.** A round of `dotask` is the scan for PRIORITY tasks and then `Break`, `Continue`
or `Run`. No handler touches the pool, so a round's two halves are atomic.

The terminals' commands, and the graphic terminal, are reached through `init_terminal`, which
`KernelMain` calls behind `UnGoToUserland`; that does not return. `Terminal`, `Console` and the
commands in `Clock` and `Firmware` model this code as it is when it is called.

## The runs

| run | question | bounds |
|---|---|---|
| `dma_pool` | bitmap, page table and cursor under any order of allocations and frees | 3 frames, 5 pages, sizes below, at and above a page: exhaustion and wrap within a few calls |
| `fat_read` | does a read deliver the file, all of it, and return, with its buffers, from a pool that lookups drain? | all FATs of 2 clusters of 2 units, chains limited to 2 (cycles are longer), 3 frames and a window of 4 with 2 lookups that keep theirs: the pool runs empty and the window wraps within a read |
| `lookup` | does a path lead to what was created there, and does a listing show it? | 2 files or directories, 5 entries of which 4 lie in the page of a listing, paths of up to 3 segments, names of 1 and 2 fragments of which some begin alike: every run of free entries of a directory, names one fragment too long or too short |
| `fat_write` | a file's creation under failures and resets | 2 FAT sectors of 8 entries, 2 copies, a partition that begins just behind the sectors that are marked, 4 sets of used clusters: candidates in the first and second sector, in use or not |
| `ahci` | the driver against every behaviour of the port | 2 slots, a wait of 2 turns, 2 blocks, 2 buffers: the second slot is used after a failure, and none is left after two |
| `boot` | what the boot makes of a machine | about 1000 machines, each odd in one part: devices at ports 0, 1 and 31, all MADTs of up to 3 entries of 9 kinds and one with an override too many for the 2 places, 8 pins; pages of 2 units, 4 entries in page 0, 5 free frames of which 4 are identity mapped: files that need one frame too many, share a page, or share an entry, with and without a no-execute bit; fonts and files just below, at and above where the heap meets the disk's structures (unit 38 of 48) |
| `paging` | four levels under kernel, identity and user mappings | tables of 3 entries, 3 kernel pages that share 2 or 1 levels, 2 frames (symmetric), 4 boot mappings, 12 tables |
| `terminal` | the handler anywhere in the loop | 3 presses of 3 kinds of key, lines of 1 character |
| `console` | is the screen the end of what was written? | 4 rows of 3 columns, 4 keys: lines wrap, the prompt and an answer scroll, centered texts are shorter and longer than a row; a panic's text just fits |
| `clock` | the timer anywhere in boot, disable, uptime and waits | 9 interrupts, minutes of 2 seconds of 4 ticks, a timeout of 3 interrupts, ints up to 14 (`delay`'s target overflows), requests of `waitfortick` at 0, below, at and above 14, and at and above 29, where the int has gone once around |
| `scheduler` | every list of tasks | pool of 4, 3 rounds: lists shorter than, as long as and longer than the rounds |
| `user_pages` | can a page that is mapped for user mode be used there? | those of `paging` |

`user_pages` ends in a violation of what a comment of the repository says; `findings` quotes it:
the entries above the page's own lack the USER flag, and the tables are entered at address 0.

Disagreements that the models contain but no run is kept for:
- a file's creation marks its cluster not in the FAT but in front of it (`fs/vfs.c:467` leaves out the partition's
  first sector, which `fs/vfs.c:436` has; `FatWrite`, `FatUntouched`), so that the cluster stays free and the
  next creation takes it, too;
- a listing reads a cluster into a buffer of one page (`drivers/storage/fat32.c:117,137` and `:9,36`), so that with
  clusters above 4 KiB the disk writes over other frames and the walk leaves the page (`DirLookup`, `LeavesPage`);
- `waitfortick` with a number above 2^31 - 1 waits for ever (`shell/commands/waitfortick.c:8`, an `int` on the way;
  `Clock`, `Never`);
- frames from 16 MiB on are given to programs, but `Elf64Load` clears them at their physical address, which is not mapped
  (`fs/ext/elf.c:86`; `Loader`, `ZeroingFaults`);
- `Elf64Load` sets the no-execute bit, but nothing sets `EFER.NXE` (`fs/ext/elf.c:96`; `Loader`, `CopyFaults`);
- the cluster that `Fat32FindFreeCluster` reports is computed from a byte offset, and is another one
  than the one it found free (`fs/vfs.c:445`, `FatWrite`, `Number`);
- a key's release is not ignored, as its comment has it, but empties `last_char` (`Terminal`);
- `uptime` may show a time a minute ahead (`Clock`; `ClockConsistent` bounds it from below only);
- a panic before the font is loaded divides by zero and neither prints nor resets (`Console`, `Clock`);
- tasks behind a terminated one never run (`Scheduler`, `Continue`);
- listings cut long names after thirteen characters (`DirLookup`, `Shown`);
- FADT and DSDT are read although nothing has mapped them where the firmware put them outside of the
  identity mapping (`Firmware`, `FadtFaults`: the fault halts the machine);
- what `Elf64Load` returns is not looked at: a program that could not be loaded is started (`Loader`);
- the stack pointer that a program gets lies 32 KiB above the end of the stack that is mapped for it
  (`kernel/memory/memory.h:34`, `paging.c:306`): its first push faults; no stack is modelled;
- 252 tables after the first, `alloc_page` reaches the frames of `palloc_page` (`paging.c:21`); `Paging`
  stops at `TABLES_END`.

Every property of a passing run has a mutant in `PROJECT.json`: the operators marked "Mutant" in
the modules, each the way that line of C could plausibly be wrong, and each caught by the
property.

Deadlock checking is off where the system stops or waits for a user: `terminal` (all keys typed),
`clock` (machine reset or halted, or the bound on the clock), `console` (all keys typed, machine reset
or halted, or a scroll in a panic, which would hang), `boot` (the program runs, or the machine has stopped).

### Fairness

The thread and the handlers share one CPU, and a handler ends, so each may be taken to run on.
`FatRead`: `WF(Work)`, the steps of a call that has begun; calls themselves are not forced. `Ahci`:
the driver runs on, and a port that has not halted starts and ends the commands it was given; it
is not assumed that a busy device becomes ready. `Terminal`: the thread's loop and the delivery
of scancodes; the user is not forced. `Console`: `WF(Work)`, the thread, and the ticks that end a
`delay` while interrupts are on; neither keys nor panics are forced. `Clock`: the thread and the
periodic interrupt; neither hangs nor commands are forced. In `Clock` the bound `MaxTick` stops the
interrupts, which is why `WaitsEnd` speaks of targets within it; `Never` is not. `Boot`: `WF(BootNext)`, the one thread
and a disk that answers, if with an error; a disk that does not (a port that halts in the
middle of a command) is in `Clock`, which has the watchdog. `DmaPool`, `DirLookup`, `FatWrite`, `Paging` and `Scheduler` state no liveness.

## The proofs

TLC shows a property for the bounds above; a theorem, for every value of the constants that satisfies
the assumptions named in the module (`ASSUME`). Each proof module begins with its inductive
invariant; that it is true at first and that each action keeps it are lemmas, one step per action.

`FatReadProofs`, in three parts. *The pool*: every property of its run, and `LiveMappingsKept` (no step
touches the mapping of a buffer that stays handed out). `PoolTypeOK` and `FramesExclusive` are
inductive together. The others need to know what is behind the cursor: until the wrap every buffer,
abandoned page and the buffer being worked on lies behind the cursor and apart from the others, the
pages in front of it are unmapped, a loop has mapped (or unmapped) exactly the pages before its
offset, and (`Accounts`) each frame in the bitmap is the entry of exactly such a page.
*Its client*: the file system is one as `DmaPool` takes it (`KeepsToThePool`: `FatRead`'s
specification implies the pool's), so that these theorems hold while files are read
(`ReadersBuffersIntact`). Then `TypeOK`, `OnlyLookupsLeak` and `TransfersContiguous`, which hold after the
wrap too: calls take and return buffers like a stack, so that the frames in
the bitmap are always the lowest, `n` of them below the buffer of the running call (`Stack`). A new
buffer gets the next ones, which follow one another, and an entry that the wrap overwrites is
one that no running call has.
*What is read*: `CompleteUnlessFailed`, and that `FatRead` is a refinement of `FileContract`, initial
state and every step (`ReadsKeepTheContract`; that the read returns is fairness and stays with the
run). The invariant is `Progress`: at each `pc` the local `cluster` is the one of the chain that the
count says (`Reached`), in the skipping loop and in the copying one, and what is out and what remains
make up the request (`Copying`). Two things make it harder than that. `fat32_next_cluster` without a
buffer makes up an entry, so that `Reached` holds only while the pool has never failed; what makes
the made-up cluster harmless is `Starving`: once a sector of the FAT got no page, the pool has none
until the call ends (`Dry`). And the file is a recursive function of the FAT, which has to be shown to
exist before anything can be said of it (see below).

`FatVolumeProofs`. *Writing*: `MarksBeforeDirectory`, for any layout, also one whose partition begins with the
disk or inside the sectors that are marked (`LayoutAssumption`). The invariant says how many sectors hold the end mark at
each point of a call; later writes (directory, data) go behind the volume's FAT, and the marks go no
further than it, so that they stay. Where they do not reach it, the FAT is that of the start: every write is in
front of it or behind it. `TypeOK` from a second
one: which buffer is held, and whether the lock, at each `pc`.
*Lookup and listing*: `LookupTypeOK`, `OpenResolves` and `ListsTheDirectory` (of a listing that stays in its page), for
directories and pages of any length, names of up to `MAX_LFN` fragments, paths of any depth and any history of creations and
deletions. The invariant has one part about the volume and one about the call. Volume (`VolumeInv`): the
entries of a directory that are in use are exactly the runs of its files, each a short entry with its
fragments in front of it in falling order (`Lies`, `Written`), and behind an end mark there is
nothing else. Creating keeps this because the tool takes the first run of free entries, deleting
because it frees a whole run. Search (`Searching`): `lfn_list` has just the fragments that
lie in front of the current entry (`Collected`), and no file in front of it has the name asked for; so at
a short entry the candidate is the name of the file that ends there. That deleted entries do not
reset `lfn_list` is harmless only because a fragment is never left in front of one. Walk: the node is
the one of the tree at the segments done (`Reference`). Listing: the last fragment is in its place in
`lfn_buf` with a NUL behind it (`Buffered`), so that the first fragment of a name is what is
shown, and the files whose short entry was passed have been listed once.

`BootAhciProofs`. *Ahci*: `TypeOK`, `NoTransferAfterReturn` and `SuccessMeansMoved`, for any number of slots
and any timeout. A bit of `ci` that is not a failed slot's is that of the command which the driver
polls (`OneCommand`), an error leaves nothing to be executed (`ErrorsEnd`), and a command whose bit is gone
without an error has moved its block (`Moved`).
*Boot*: every invariant of its run, for any set of machines and any sizes. The invariant (`BootIInv`) has a
part for each thing the boot goes through.
Search for the disk (`StorageInv`): of the only controller, the ports passed so far are no disks while it is
probed, and `ahci_port` is its first disk once the scan is past it (`Searched`). That command structures are apart is arithmetic.
MADT (`RoutingInv`): the overrides found so far give an IRQ the GSI that the entries passed so far give it
(`Agreeing`), as long as there is room for them; `InitIOAPIC` then programs the pin that the property names,
with the mouse's, which is another one, after it (`Routed`).
DSDT (`ShutdownInv`), for DSDTs whose first `_S5_` is followed by a package of the usual form: the scan stops at the first `_S5_`, and of the package behind it takes the byte 10, its
length, for a prefix, so that the second element it reads is the first (`SecondIsFirst`).
Program (`LoaderTypes`, `ProgramInv`): the pages passed so far have frames, each its own (`Placed`), and
`page_bitmap` has exactly the regions and these (`Claimed`). That `palloc_page` always has a frame to give
is `Spare`: a frame outside of the identity mapping is free until it is given, and then the machine is reset
(`IdentityAssumption`); so no bound on the program's size is needed, one that is too large is not started.
The segments behind the current one are in memory (`Content`), and the current one's pages with a frame
are zero until `CopySegment` (`Blank`, `Progress`); clearing and copying a page leaves the others alone because `Apart` keeps pages and
entries of page 0 from being shared. That unit `vaddr + u` lies in the page the loop counted takes facts
about `\div` and `%` that the solver has not got for a page size that is not a number: they
are lemmas (`DivMod`, `DivModIs`, `DivGrows`).

`PagingProofs`: `OneParent`, `TranslationsAgree` and `ImplementsAddressSpace`, the refinement, for
tables of any length. The tables form a tree: no table has two entries that lead to it and the PML4
none, so that a table is on one level only, and an entry that is written lies on the way of
no page but those that go through it. `next_free_page` is behind every table, and behind it memory is
zero, so that clearing a new table changes nothing. The kernel's writes and the boot's
are apart because they begin in different entries of the PML4.

`TerminalProofs`: `TakenInOrder`, `TypeOK` and `SlowTypistServed`. The invariant follows a press on its
way: the wire, then `last_char`, then `c`, then taken, each not younger than the one before it. A second
one bounds the line: `index` at each `pc`. For the slow typist, a third: what has been
dealt with so far is `LinesOf` of the presses stored, less the one that is still in `last_char` or `c`
(`Served`), and with no more than one of those on its way the handler cannot come at a wrong moment.

`ConsoleProofs`: `TypeOK`, for any screen and any texts: wrapping and scrolling bring the cursor back
in the same call, and the column that a centered text gets, which may be negative, is replaced before
the next character. And `ShowsThePaper`, the refinement of `Paper`: each row that was written on is filled
from the left, the cursor's row up to the cursor, and those below are blank (`Tidy`), so that the
lines shown end with the cursor's. `PSFPutChar` is then the paper's `Put`, clearing its `Clear`, and
scrolling, centering and the rest leave it as it is.

`SchedulerClockProofs`. *Scheduler*: every property of the run, for any pool and any number of
rounds up to its size (`RoundsAssumption`). `CurrentTask` is never ahead
of the round and it is `NULL` only in rounds whose entry was never used (`InStep`), so that
`Break` comes before any use of it; a task which was not terminated has run at most once,
before `CurrentTask` passed it (`Counted`). *Clock*: `ClockConsistent` and `OnlyASlowBootIsStopped`, for
any scale, timeout, length of the boot and place of the font in it. Two invariants, one per subject.
`Telling`: second and minute are quotient and remainder of the tick, through `Advanced`, which adds a
scaled count one tick at a time; the two reads of `uptime` are of two times of which the first is not
the later. `Watching`: the watchdog is active only while the boot goes on or has just ended, its
counter is at most the ticks by the scale, and it has not fired before its timeout.

`Induction`: what the others need of recursive functions. The library's induction theorems take an
operator, which none of the provers here can instantiate; but well-foundedness as the library has it
(`WFMin`) speaks of sets. From it come induction for a set of numbers (`Induction`), and that a function
defined by a step over the numbers exists and is the only one (`Recursion`). With induction
`BootAhciProofs` proves that a set of numbers has a least one (`LeastExists`), which is what the
`CHOOSE` of a first disk or a first override picks. With these, what `FatRead`'s chain and file,
`Terminal`'s `LinesOf`, `Clock`'s `Advanced` and `DirLookup`'s `Reference` compute is proved for all
inputs. A definition `f[n \in Nat] == ...` is a `CHOOSE`, so nothing is known of it before a function
like that has been shown to exist, and its value in the next state is related to this one's by writing
it as a constant operator of the state it reads.

Only model-checked: liveness (`CallsReturn`, `NewlineRuns`, `PanicResets`, `HangIsCaught`, `WaitsEnd`,
`BootEnds`, and the return in `RefinesContract`), which is beyond the prover. Every other property
of a passing run is a theorem.

## Left to do

`Storage` could take its DMA buffers, which it never returns, from `DmaPool`.

## Not modelled, and why

- `CalibrateLAPICBusHz`, `Wait10ms`: one straight line with interrupts off. `Wait10ms` restarts the
  timer that its caller counts with, so that the result is a constant; reading it shows that.
- Serial port, PIC, IDT and GDT, assembly stubs, the entry of system calls and the jump to user mode:
  port I/O and registers without state that a property could relate to anything.
- Strings, formatting, drawing of pixels and images (the BGRT), commands that print: formatting and
  output.
- Functions without a caller whose module would be only them: `boot_aps`, `VFSReadFile`,
  `free_phys_page`, `pmm_free`, `palloc_aligned`, `virt_to_phys`, `dump_pte_for_vaddr`, `SetCursor`,
  `EnableWatchdogAgain`, `ResetWatchdog`, `Fat32WriteCluster`. (`createtask`, `dotask` and
  `Fat32CreateFile` have none either, and are modelled: they are the scheduler and the writing.)
