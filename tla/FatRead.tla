------------------------------- MODULE FatRead -------------------------------
(***************************************************************************)
(* Reading a FAT32 volume: Fat32Read, fat32_next_cluster and the storage   *)
(* side of Fat32Lookup (fs/vfs.c), on top of the DMA pool (DmaPool, which   *)
(* this module extends) and of a disk that may fail any command.           *)
(*                                                                         *)
(* The kernel has one thread and the interrupt handlers do not read files, *)
(* so calls do not overlap; a call is still many steps, because each of    *)
(* its buffers is taken and returned page by page.                         *)
(*                                                                         *)
(* Abstractions.  Clusters are 2 .. LAST_CLUSTER.  BAD stands for the      *)
(* entries 0x0FFFFFF0 .. 0x0FFFFFF7 and EOC for those from 0x0FFFFFF8.     *)
(* Data is counted in units, CLUSTER_UNITS to a cluster, and unit i of     *)
(* cluster c is the pair <<c, i>>.  No entry points between LAST_CLUSTER   *)
(* and BAD.  Whether a directory holds the name that is looked up is left  *)
(* open.                                                                   *)
(***************************************************************************)
EXTENDS DmaPool, Sequences, FiniteSets

CONSTANTS LAST_CLUSTER, CLUSTER_UNITS,
          MAX_CLUSTERS_CHAIN, \* 4096 in Fat32Read
          FileSizes, FirstClusters, Offsets, Lengths,
          MaxFound,           \* bound: successful lookups
          ClusterBytes, SectorBytes \* sizes of the two kinds of DMA buffer

Clusters == 2 .. LAST_CLUSTER
BAD      == LAST_CLUSTER + 1
EOC      == LAST_CLUSTER + 2
Entries  == {0} \cup Clusters \cup {BAD, EOC}

ASSUME VolumeAssumption == LAST_CLUSTER \in Nat /\ LAST_CLUSTER >= 2
ASSUME UnitsAssumption  == CLUSTER_UNITS \in Nat \ {0}
ASSUME CallsAssumption  ==
  /\ FirstClusters \subseteq 0 .. EOC /\ FileSizes \subseteq Nat
  /\ Offsets \subseteq Nat /\ Lengths \subseteq Nat
  /\ MAX_CLUSTERS_CHAIN \in Nat \ {0}
ASSUME BuffersAssumption == ClusterBytes \in Sizes /\ SectorBytes \in Sizes

VARIABLES
  fat, node,     \* the volume's FAT; the file's first cluster and size
  pc,            \* where the running call is
  back,          \* where fat32_next_cluster returns to
  cluster, offset, remaining, chain_count, \* locals of Fat32Read
  request,       \* the arguments of the call
  out,           \* the units copied to the caller's buffer
  failed,        \* history: the disk failed a command of this call
  starved,       \* history: palloc_aligned_DMA returned NULL to this call
  leaked         \* history: buffers of successful lookups

disk   == <<fat, node>>
locals == <<cluster, offset, remaining, chain_count>>
io     == <<request, out, failed, starved>>
vars   == <<disk, pc, back, locals, io, leaked, pool>>

PoolIdle  == pool_pc = "idle"
Allocated == buf \in buffers      \* palloc_aligned_DMA did not return NULL

Init ==
  /\ fat \in [Clusters -> Entries]
  /\ node \in [first : FirstClusters, size : FileSizes]
  /\ pc = "ready" /\ back = "main"
  /\ cluster = 0 /\ offset = 0 /\ remaining = 0 /\ chain_count = 0
  /\ request = [off |-> 0, len |-> 0]
  /\ out = <<>>
  /\ failed = FALSE /\ starved = FALSE
  /\ leaked = {}
  /\ PoolInit

(***************************************************************************)
(* The pool works on while a call waits for it.                            *)
(***************************************************************************)
PoolStep ==
  /\ \/ AllocPage
     \/ AllocFails
     \/ AllocReturns
     \/ FreePage
     \/ FreeReturns
  /\ starved' = (starved \/ AllocFails)
  /\ UNCHANGED <<disk, pc, back, locals, request, out, failed, leaked>>

At(label) == pc = label /\ PoolIdle

Take(size, next) ==
  /\ BeginAlloc(size)
  /\ pc' = next

GiveBack(next) ==
  /\ BeginFree(buf)
  /\ pc' = next

(***************************************************************************)
(* Fat32Read: the prologue and the loop that skips whole clusters          *)
(***************************************************************************)

\* (Mutant: the request is not cut at the end of the file.)
UncutRemaining(off, len) == len
Remaining(off, len) == IF off + len > node.size THEN node.size - off ELSE len

ReadCall(off, len) ==
  /\ At("ready")
  /\ off < node.size
  /\ cluster' = node.first
  /\ offset' = off
  /\ remaining' = Remaining(off, len)
  /\ chain_count' = 0
  /\ request' = [off |-> off, len |-> len]
  /\ out' = <<>>
  /\ failed' = FALSE /\ starved' = FALSE
  /\ pc' = "skip"
  /\ UNCHANGED <<disk, back, leaked, pool>>

\* offset >= filesize: 0, before anything is read.
ReadPastEnd(off, len) ==
  /\ At("ready")
  /\ off >= node.size
  /\ request' = [off |-> off, len |-> len]
  /\ out' = <<>>
  /\ failed' = FALSE /\ starved' = FALSE
  /\ pc' = "return"
  /\ UNCHANGED <<disk, back, locals, leaked, pool>>

SkipLoop ==
  /\ At("skip")
  /\ IF offset >= CLUSTER_UNITS
     THEN pc' = "next" /\ back' = "skipped"
     ELSE pc' = "main" /\ UNCHANGED back
  /\ UNCHANGED <<disk, locals, io, leaked, pool>>

Skipped ==
  /\ At("skipped")
  /\ IF cluster >= EOC
     THEN pc' = "return" /\ UNCHANGED offset
     ELSE pc' = "skip" /\ offset' = offset - CLUSTER_UNITS
  /\ UNCHANGED <<disk, back, cluster, remaining, chain_count, io, leaked, pool>>

(***************************************************************************)
(* Fat32Read: the loop over the clusters                                   *)
(***************************************************************************)
MainStops ==
  /\ At("main")
  /\ \/ remaining = 0
     \/ cluster >= EOC
     \/ chain_count + 1 > MAX_CLUSTERS_CHAIN
  /\ pc' = "return"
  /\ UNCHANGED <<disk, back, locals, io, leaked, pool>>

MainTakes ==
  /\ At("main")
  /\ remaining > 0
  /\ cluster < EOC
  /\ chain_count + 1 <= MAX_CLUSTERS_CHAIN
  /\ chain_count' = chain_count + 1
  /\ Take(ClusterBytes, "data")
  /\ UNCHANGED <<disk, back, cluster, offset, remaining, io, leaked>>

DataNoBuffer ==
  /\ At("data")
  /\ ~Allocated
  /\ pc' = "return"
  /\ UNCHANGED <<disk, back, locals, io, leaked, pool>>

\* ahci_read fails; it always does when the cluster is not on the disk.
DataFails ==
  /\ At("data")
  /\ Allocated
  /\ failed' = (failed \/ cluster \in Clusters)
  /\ GiveBack("return")
  /\ UNCHANGED <<disk, back, locals, request, out, starved, leaked>>

\* (Mutant: the length is not cut, and remaining underflows.)
ReadLenUncut == CLUSTER_UNITS - offset
ReadLen == IF remaining < CLUSTER_UNITS - offset THEN remaining ELSE CLUSTER_UNITS - offset

DataCopied ==
  /\ At("data")
  /\ Allocated
  /\ cluster \in Clusters
  /\ out' = out \o [i \in 1 .. ReadLen |-> <<cluster, offset + i - 1>>]
  /\ remaining' = remaining - ReadLen
  /\ offset' = 0
  /\ back' = "advanced"
  /\ GiveBack("next")
  /\ UNCHANGED <<disk, cluster, chain_count, request, failed, starved, leaked>>

\* cluster < 2 || cluster >= FAT32_EOC: break.
Advanced ==
  /\ At("advanced")
  /\ pc' = IF cluster \in 2 .. BAD THEN "main" ELSE "return"
  /\ UNCHANGED <<disk, back, locals, io, leaked, pool>>

ReadReturns ==
  /\ At("return")
  /\ pc' = "ready"
  /\ UNCHANGED <<disk, back, locals, io, leaked, pool>>

(***************************************************************************)
(* fat32_next_cluster: the result replaces cluster                         *)
(***************************************************************************)

\* What the entry of c means for the walk: a self-loop, a free entry and an
\* end mark end the chain; a bad-cluster mark is returned as it is.
\* (Mutant: a self-loop is followed.)
EntryWithSelfLoop(c, raw) == IF raw < 2 \/ raw >= EOC THEN EOC ELSE raw
Entry(c, raw) == IF raw = c \/ raw < 2 \/ raw >= EOC THEN EOC ELSE raw

NextRejects ==
  /\ At("next")
  /\ cluster < 2 \/ cluster >= BAD
  /\ cluster' = EOC
  /\ pc' = back
  /\ UNCHANGED <<disk, back, offset, remaining, chain_count, io, leaked, pool>>

NextTakes ==
  /\ At("next")
  /\ cluster \in Clusters
  /\ Take(SectorBytes, "fat")
  /\ UNCHANGED <<disk, back, locals, io, leaked>>

\* (Mutant: the error path returns without pfree_aligned_DMA.)
NextFailsWithoutFree ==
  /\ At("fat")
  /\ Allocated
  /\ cluster' = EOC
  /\ failed' = TRUE
  /\ pc' = back
  /\ UNCHANGED <<disk, back, offset, remaining, chain_count, request, out, starved, leaked, pool>>

NextFails ==
  /\ At("fat")
  /\ Allocated
  /\ cluster' = EOC
  /\ failed' = TRUE
  /\ GiveBack(back)
  /\ UNCHANGED <<disk, back, offset, remaining, chain_count, request, out, starved, leaked>>

NextReads ==
  /\ At("fat")
  /\ Allocated
  /\ cluster' = Entry(cluster, fat[cluster])
  /\ GiveBack(back)
  /\ UNCHANGED <<disk, back, offset, remaining, chain_count, io, leaked>>

\* No check for NULL: the sector goes to whatever address phys2 held, and the
\* entry is read from low memory.  Any result can come back.
NextWithoutBuffer ==
  /\ At("fat")
  /\ ~Allocated
  /\ \E raw \in Entries : cluster' = Entry(cluster, raw)
  /\ pc' = back
  /\ UNCHANGED <<disk, back, offset, remaining, chain_count, io, leaked, pool>>

(***************************************************************************)
(* Fat32Lookup: one cluster of the directory is read and searched          *)
(***************************************************************************)
LookupTakes ==
  /\ At("ready")
  /\ Cardinality(leaked) < MaxFound
  /\ Take(ClusterBytes, "lookup")
  /\ UNCHANGED <<disk, back, locals, io, leaked>>

\* The entry is there: the node is returned and the buffer is not freed.
LookupFinds ==
  /\ At("lookup")
  /\ Allocated
  /\ leaked' = leaked \cup {buf}
  /\ pc' = "ready"
  /\ UNCHANGED <<disk, back, locals, io, pool>>

\* The disk fails, or no entry matches.
LookupFindsNothing ==
  /\ At("lookup")
  /\ Allocated
  /\ GiveBack("ready")
  /\ UNCHANGED <<disk, back, locals, io, leaked>>

\* Only a message is printed, and the search runs over low memory;
\* pfree_aligned_DMA(NULL) does nothing.
LookupWithoutBuffer ==
  /\ At("lookup")
  /\ ~Allocated
  /\ pc' = "ready"
  /\ UNCHANGED <<disk, back, locals, io, leaked, pool>>

Begin ==
  \/ \E off \in Offsets, len \in Lengths : ReadCall(off, len) \/ ReadPastEnd(off, len)
  \/ LookupTakes

Work ==
  \/ PoolStep
  \/ SkipLoop \/ Skipped
  \/ MainStops \/ MainTakes
  \/ DataNoBuffer \/ DataFails \/ DataCopied \/ Advanced
  \/ ReadReturns
  \/ NextRejects \/ NextTakes \/ NextFails \/ NextReads \/ NextWithoutBuffer
  \/ LookupFinds \/ LookupFindsNothing \/ LookupWithoutBuffer

Next == Begin \/ Work

\* Fairness: the kernel runs on once a call has begun, and the disk answers
\* every command, if only with an error.
Spec == Init /\ [][Next]_vars /\ WF_vars(Work)

(***************************************************************************)
(* What is promised                                                        *)
(***************************************************************************)

\* The file as the medium has it: the clusters of its chain, up to the size
\* in its directory entry or the first entry that is not a cluster to go to.
ChainAt[k \in Nat] ==
  IF k = 0 THEN node.first
  ELSE LET c == ChainAt[k - 1]
       IN  IF c \in Clusters /\ fat[c] # c /\ fat[c] \in Clusters THEN fat[c] ELSE EOC

OnMedium == {i \in 1 .. node.size : ChainAt[(i - 1) \div CLUSTER_UNITS] \in Clusters}

File == [i \in 1 .. Cardinality(OnMedium) |->
           <<ChainAt[(i - 1) \div CLUSTER_UNITS], (i - 1) % CLUSTER_UNITS>>]

Least(S) == CHOOSE x \in S : \A y \in S : x <= y

\* Types, and the locals of a call between two of its steps.
TypeOK ==
  /\ fat \in [Clusters -> Entries]
  /\ pc \in {"ready", "skip", "skipped", "main", "data", "advanced", "next", "fat",
             "lookup", "return"}
  /\ back \in {"main", "skipped", "advanced"}
  /\ cluster \in 0 .. EOC
  /\ offset \in Nat /\ remaining \in Nat
  /\ chain_count \in 0 .. MAX_CLUSTERS_CHAIN
  /\ failed \in BOOLEAN /\ starved \in BOOLEAN
  /\ leaked \subseteq buffers
  /\ PoolTypeOK

\* A read that no command failed and that the pool served delivers all there
\* is: what was asked for, as far as the chain goes and MAX_CLUSTERS_CHAIN
\* clusters reach.
CompleteUnlessFailed ==
  (pc = "return" /\ ~failed /\ ~starved) =>
     LET reach == MAX_CLUSTERS_CHAIN * CLUSTER_UNITS - (request.off % CLUSTER_UNITS)
     IN  Len(out) = IF Len(File) <= request.off THEN 0
                    ELSE Least({request.len, Len(File) - request.off, reach})

\* Every path out of Fat32Read, fat32_next_cluster and an unsuccessful
\* Fat32Lookup gives back the buffer it took, even after the cursor of the
\* pool has wrapped over older ones.
OnlyLookupsLeak == At("ready") => buffers = leaked

\* The disk gets one physical address for a whole cluster (one PRDT entry):
\* when a command is about to run, the frames of its buffer follow one
\* another, because the kernel takes and returns buffers in nested order.
TransfersContiguous ==
  (PoolIdle /\ pc \in {"data", "fat", "lookup"} /\ Allocated) =>
     \A i \in 0 .. buf.pages - 1 : pt[buf.virt + i] = buf.phys + i

(***************************************************************************)
(* The contract that callers rely on, as a refinement.  Whatever the FAT   *)
(* holds - cycles, self-loops, bad-cluster marks - and whatever command    *)
(* fails, a call delivers units of the file from its offset on, in order,  *)
(* no more than asked for, and returns.  It does so even when lookups have *)
(* drained the pool and fat32_next_cluster makes up a cluster: a pool that *)
(* has no page for the FAT's sector has none for the made-up cluster.      *)
(***************************************************************************)
Contract == INSTANCE FileContract WITH
              file <- File, reading <- (pc \notin {"ready", "lookup"})

RefinesContract == Contract!Spec
=============================================================================
