------------------------------ MODULE DirLookup ------------------------------
(***************************************************************************)
(* Names to files: Fat32Open's walk along a path and Fat32Lookup's search  *)
(* of a directory for a long or a short name (fs/vfs.c), entry by entry,   *)
(* on volumes that a correct tool has written: files and directories were  *)
(* created and deleted, in any order, while the kernel was not running.    *)
(* What the search does with its DMA buffer is in FatRead.  The listings   *)
(* of the commands PARSEFAT32 and CD (drivers/storage/fat32.c) go over the *)
(* same entries, but put long names together in another way.               *)
(*                                                                         *)
(* Abstractions.  A long name is a sequence of fragments of thirteen       *)
(* characters, one to an entry; a short name is a name that no long name   *)
(* equals; case and the volume's label are left out.  A path is the        *)
(* sequence of its segments, without "." and "..", whose entries are left  *)
(* out.  Directories have one cluster, which is all that Fat32Lookup       *)
(* reads.  A short entry that belongs to a long name has a name nobody     *)
(* asks for.                                                               *)
(*                                                                         *)
(* The search has a buffer of a cluster; the listings have one of a page,  *)
(* have the disk write the whole cluster to it, and go through the whole   *)
(* cluster's entries.  A larger cluster gets into the frames behind the    *)
(* page, which are the DMA pool's and hold no state of this module; the    *)
(* listing leaves the page for whatever is mapped behind it, or faults.    *)
(***************************************************************************)
EXTENDS Integers, Sequences

CONSTANTS
  LAST_CLUSTER,          \* clusters 2 (the root) to LAST_CLUSTER
  ENTRIES,               \* of a cluster
  PAGE_ENTRIES,          \* of the buffer of a listing (128)
  MAX_LFN,               \* room in lfn_list (20)
  LongNames, ShortNames,
  FileData,              \* what a file's cluster may hold, as entries
  Paths,
  NULL

RootDir     == 2
DirClusters == RootDir .. LAST_CLUSTER
Index       == 0 .. ENTRIES - 1
Names       == LongNames \cup ShortNames
Nodes       == [cluster : 0 .. LAST_CLUSTER, type : {"file", "dir"}]

NUL == "NUL"

\* Sequences, of whatever they are made of.
IsSequence(s) == s \in Seq({s[k] : k \in 1 .. Len(s)})

ASSUME SizesAssumption ==
  /\ LAST_CLUSTER \in Nat /\ LAST_CLUSTER >= RootDir
  /\ ENTRIES \in Nat \ {0} /\ MAX_LFN \in 1 .. 20
  /\ PAGE_ENTRIES \in Nat \ {0}
ASSUME NamesAssumption ==
  \A n \in LongNames :
     IsSequence(n) /\ Len(n) \in 1 .. MAX_LFN /\ \A k \in 1 .. Len(n) : n[k] # NUL
ASSUME FileDataAssumption ==
  \A data \in FileData : \A k \in Index : data[k].kind = "short" => data[k].node \in Nodes
\* The path of the root is not looked up on the disk.
ASSUME PathsAssumption == \A p \in Paths : IsSequence(p) /\ p # <<>>
ASSUME NullAssumption  == NULL \notin Nodes

EndMark           == [kind |-> "end"]
Deleted           == [kind |-> "deleted"]
Long(seq, frag)   == [kind |-> "long", seq |-> seq, frag |-> frag]
Short(name, node) == [kind |-> "short", name |-> name, node |-> node]
Node(c, type)     == [cluster |-> c, type |-> type]

VARIABLES
  dirs,           \* the clusters as directories
  tree,           \* history: what the tools have created: [dir, name, node]
  call, path,     \* the call
  rest, node,     \* locals of Fat32Open
  ent, i, lfn_list,  \* locals of Fat32Lookup
  lfn_buf, lfn_active, \* locals of ReadDirectory, which has ent and i, too
  listed,         \* what ReadDirectory printed
  failed          \* history: a command failed, or a listing left its page

volume      == <<dirs, tree>>
call_locals == <<rest, node, ent, i, lfn_list>>
listing     == <<lfn_buf, lfn_active, listed>>
lookup_vars == <<volume, call, path, call_locals, listing, failed>>

Empty == [k \in Index |-> EndMark]

\* lfn_buf in slots of thirteen characters; slot 0 is what lies in front of
\* it, a string ends at the first NUL.
Slots == 0 .. MAX_LFN + 1
Blank == [s \in Slots |-> NUL]

LookupInit ==
  /\ dirs = [c \in DirClusters |-> Empty] /\ tree = {}
  /\ call = "ready" /\ path = <<>>
  /\ rest = <<>> /\ node = NULL
  /\ ent = Empty /\ i = 0 /\ lfn_list = <<>>
  /\ lfn_buf = Blank /\ lfn_active = FALSE /\ listed = <<>>
  /\ failed = FALSE

(***************************************************************************)
(* The tools                                                               *)
(***************************************************************************)
Directories == {RootDir} \cup {t.node.cluster : t \in {u \in tree : u.node.type = "dir"}}
Used        == {RootDir} \cup {t.node.cluster : t \in tree}
Alias       == <<"~">>

\* The entries of a new file, the fragments of a long name last one first.
EntriesOf(name, n) ==
  IF name \in ShortNames THEN <<Short(name, n)>>
  ELSE [k \in 1 .. Len(name) |-> Long(Len(name) + 1 - k, name[Len(name) + 1 - k])]
         \o <<Short(Alias, n)>>

Fits(d, p, len) ==
  /\ p + len <= ENTRIES
  /\ \A k \in p .. p + len - 1 : dirs[d][k].kind \in {"end", "deleted"}

Create(d, name, n) ==
  LET new == EntriesOf(name, n)
  IN  /\ d \in Directories /\ n.cluster \notin Used
      /\ \A t \in tree : ~(t.dir = d /\ t.name = name)
      /\ \E p \in Index :
           /\ Fits(d, p, Len(new))
           /\ \A q \in 0 .. p - 1 : ~Fits(d, q, Len(new))
           /\ dirs' = [dirs EXCEPT
                ![d] = [k \in Index |-> IF k \in p .. p + Len(new) - 1 THEN new[k - p + 1] ELSE @[k]],
                ![n.cluster] = Empty]
      /\ tree' = tree \cup {[dir |-> d, name |-> name, node |-> n]}

Delete(t) ==
  /\ \A u \in tree : u.dir # t.node.cluster
  /\ \E p \in Index :
       /\ dirs[t.dir][p].kind = "short" /\ dirs[t.dir][p].node = t.node
       /\ LET first == p + 1 - Len(EntriesOf(t.name, t.node))
          IN  dirs' = [dirs EXCEPT
               ![t.dir] = [k \in Index |-> IF k \in first .. p THEN Deleted ELSE @[k]],
               ![t.node.cluster] = Empty]
  /\ tree' = tree \ {t}

Tool ==
  /\ call = "ready"
  /\ \/ \E d \in DirClusters, name \in Names, c \in DirClusters, type \in {"file", "dir"} :
          Create(d, name, Node(c, type))
     \/ \E t \in tree : Delete(t)
  /\ path' = <<>> /\ node' = NULL /\ failed' = FALSE
  /\ listed' = <<>>
  /\ UNCHANGED <<call, rest, ent, i, lfn_list, lfn_buf, lfn_active>>

(***************************************************************************)
(* Fat32Open                                                               *)
(***************************************************************************)
Fat32Open(p) ==
  /\ call = "ready"
  /\ path' = p /\ rest' = p
  /\ node' = Node(RootDir, "dir")
  /\ failed' = FALSE
  /\ call' = "walk"
  /\ listed' = <<>>
  /\ UNCHANGED <<volume, ent, i, lfn_list, lfn_buf, lfn_active>>

Walked ==
  /\ call = "walk"
  /\ node = NULL \/ rest = <<>>
  /\ rest' = <<>>
  /\ call' = "ready"
  /\ UNCHANGED <<volume, path, node, ent, i, lfn_list, failed, listing>>

(***************************************************************************)
(* Fat32Lookup(node, Head(rest)).  The node's type is not looked at: what  *)
(* is searched is the cluster, and one of no directory holds a file's data *)
(* or anything else.                                                       *)
(***************************************************************************)
Ready == call = "walk" /\ node # NULL /\ rest # <<>>

Contents(c) == IF c \in Directories THEN {dirs[c]} ELSE FileData

NoCluster ==
  /\ Ready
  /\ node.cluster < RootDir
  /\ node' = NULL
  /\ UNCHANGED <<volume, call, path, rest, ent, i, lfn_list, failed, listing>>

Read ==
  /\ Ready
  /\ node.cluster >= RootDir
  /\ ent' \in Contents(node.cluster)
  /\ i' = 0 /\ lfn_list' = <<>>
  /\ call' = "search"
  /\ UNCHANGED <<volume, path, rest, node, failed, listing>>

\* The disk fails, or there is no memory for the node.
LookupFails ==
  /\ Ready
  /\ node.cluster >= RootDir
  /\ node' = NULL
  /\ failed' = TRUE
  /\ UNCHANGED <<volume, call, path, rest, ent, i, lfn_list, listing>>

Advance == i' = i + 1

\* Back to Fat32Open; the locals of Fat32Lookup are gone.
LookupReturns ==
  /\ call' = "walk"
  /\ ent' = Empty /\ i' = 0 /\ lfn_list' = <<>>

NotFound ==
  /\ call = "search"
  /\ i < ENTRIES => ent[i].kind = "end"
  /\ node' = NULL
  /\ LookupReturns
  /\ UNCHANGED <<volume, path, rest, failed, listing>>

At(kind) == call = "search" /\ i < ENTRIES /\ ent[i].kind = kind

\* A deleted entry leaves lfn_list as it is.
SkipDeleted ==
  /\ At("deleted")
  /\ Advance
  /\ UNCHANGED <<volume, call, path, rest, node, ent, lfn_list, failed, listing>>

\* (Mutant: no check of the room in lfn_list.)
KeepsAny(e)  == e.seq \in 1 .. 20
Keeps(e)     == e.seq \in 1 .. 20 /\ Len(lfn_list) < MAX_LFN

TakeLong ==
  /\ At("long")
  /\ lfn_list' = IF Keeps(ent[i]) THEN Append(lfn_list, ent[i]) ELSE lfn_list
  /\ Advance
  /\ UNCHANGED <<volume, call, path, rest, node, ent, failed, listing>>

\* lfn_buf: each fragment is put where its number says, a later one over an
\* earlier one; the name ends where the first one is missing.
Candidate ==
  LET has(s)  == \E j \in 1 .. Len(lfn_list) : lfn_list[j].seq = s
      last(s) == CHOOSE j \in 1 .. Len(lfn_list) :
                   /\ lfn_list[j].seq = s
                   /\ \A k \in j + 1 .. Len(lfn_list) : lfn_list[k].seq # s
      lengths == {n \in 0 .. Len(lfn_list) : \A s \in 1 .. n : has(s)}
      length  == CHOOSE n \in lengths : \A m \in lengths : m <= n
  IN  IF lfn_list = <<>> THEN ent[i].name
      ELSE [s \in 1 .. length |-> lfn_list[last(s)].frag]

Matches == At("short") /\ Candidate = Head(rest)

Found ==
  /\ Matches
  /\ node' = ent[i].node
  /\ rest' = Tail(rest)
  /\ LookupReturns
  /\ UNCHANGED <<volume, path, failed, listing>>

\* (Mutant: the fragments of the name that did not match are kept.)
NextEntryKeepsLong ==
  /\ At("short") /\ ~Matches
  /\ Advance
  /\ UNCHANGED <<volume, call, path, rest, node, ent, lfn_list, failed, listing>>

NextEntry ==
  /\ At("short") /\ ~Matches
  /\ Advance
  /\ lfn_list' = <<>>
  /\ UNCHANGED <<volume, call, path, rest, node, ent, failed, listing>>

(***************************************************************************)
(* ReadDirectory, and ParseFAT32 for the root: one command for the boot    *)
(* sector and one for the cluster, into a buffer nobody clears; the first  *)
(* one's sizes are used and the second one's data listed, failed or not.   *)
(* The cluster is what the user of CD types.                               *)
(***************************************************************************)
Asks(c) ==
  /\ call = "ready"
  /\ node' = Node(c, "dir") /\ path' = <<>> /\ listed' = <<>>
  /\ i' = 0 /\ lfn_buf' = Blank /\ lfn_active' = FALSE
  /\ UNCHANGED <<volume, rest, lfn_list>>

ReadDirectory(c) ==
  /\ Asks(c)
  /\ \/ failed' = FALSE /\ ent' \in Contents(c)
     \/ failed' = TRUE  /\ ent' \in FileData \cup {Empty}
  /\ call' = "list"

\* The sizes make no sense, or no sector of the disk.
ReadDirectoryRefused(c) ==
  /\ Asks(c)
  /\ failed' = TRUE
  /\ UNCHANGED <<call, ent>>

OnPage == i < PAGE_ENTRIES

Lists(kind) == call = "list" /\ i < ENTRIES /\ (failed \/ OnPage) /\ ent[i].kind = kind

\* Nothing but the length of the cluster ends the walk at the end of the page.
\* Where a page is mapped behind it, the walk goes on in another's buffer ...
LeavesPage ==
  /\ call = "list" /\ ~failed
  /\ i < ENTRIES /\ ~OnPage
  /\ ent' \in FileData \cup {Empty}
  /\ failed' = TRUE
  /\ UNCHANGED <<volume, call, path, rest, node, i, lfn_list, listing>>

\* ... and where none is, isr14_handler_c resets the machine.  A walk with the
\* wrong sizes may get there at any entry.
PageFault ==
  /\ call = "list"
  /\ failed \/ (i < ENTRIES /\ ~OnPage)
  /\ call' = "ready" /\ path' = <<>> /\ rest' = <<>> /\ node' = NULL
  /\ ent' = Empty /\ i' = 0 /\ lfn_list' = <<>>
  /\ lfn_buf' = Blank /\ lfn_active' = FALSE /\ listed' = <<>> /\ failed' = FALSE
  /\ UNCHANGED volume

ListDeleted ==
  /\ Lists("deleted")
  /\ Advance
  /\ UNCHANGED <<volume, call, path, rest, node, ent, lfn_list, failed, listing>>

\* A fragment goes to its place, and the NUL behind it over the first
\* character of the fragment that follows in the name and came before it.
ListLong ==
  /\ Lists("long")
  /\ lfn_buf' = [lfn_buf EXCEPT ![ent[i].seq] = ent[i].frag, ![ent[i].seq + 1] = NUL]
  /\ lfn_active' = TRUE
  /\ Advance
  /\ UNCHANGED <<volume, call, path, rest, node, ent, lfn_list, failed, listed>>

AsString(buf) ==
  LET lengths == {n \in 0 .. MAX_LFN : \A s \in 1 .. n : buf[s] # NUL}
      length  == CHOOSE n \in lengths : \A m \in lengths : m <= n
  IN  [s \in 1 .. length |-> buf[s]]

\* (Mutant: the long name stays for the next entry.)
AfterPrintKeep == UNCHANGED <<lfn_buf, lfn_active>>
AfterPrint ==
  /\ lfn_buf' = IF lfn_active THEN [lfn_buf EXCEPT ![1] = NUL] ELSE lfn_buf
  /\ lfn_active' = FALSE

ListShort ==
  /\ Lists("short")
  /\ listed' = Append(listed, [name |-> IF lfn_active THEN AsString(lfn_buf) ELSE ent[i].name,
                              node |-> ent[i].node])
  /\ AfterPrint
  /\ Advance
  /\ UNCHANGED <<volume, call, path, rest, node, ent, lfn_list, failed>>

ListEnds ==
  /\ call = "list"
  /\ failed \/ (i < ENTRIES => OnPage /\ ent[i].kind = "end")
  /\ call' = "ready"
  /\ ent' = Empty /\ i' = 0 /\ lfn_buf' = Blank /\ lfn_active' = FALSE
  /\ UNCHANGED <<volume, path, rest, node, lfn_list, failed, listed>>

LookupNext ==
  \/ Tool
  \/ \E c \in 0 .. LAST_CLUSTER : ReadDirectory(c) \/ ReadDirectoryRefused(c)
  \/ ListDeleted \/ ListLong \/ ListShort \/ ListEnds \/ LeavesPage \/ PageFault
  \/ \E p \in Paths : Fat32Open(p)
  \/ Walked
  \/ NoCluster \/ Read \/ LookupFails \/ NotFound \/ SkipDeleted \/ TakeLong \/ Found \/ NextEntry

LookupSpec == LookupInit /\ [][LookupNext]_lookup_vars

(***************************************************************************)
(* What is promised                                                        *)
(***************************************************************************)
\* Types; lfn_list has room for what is put into it, also when a file's data
\* is searched for a name, and the listing of a directory stays in lfn_buf
\* (that of a file's data need not).
LookupTypeOK ==
  /\ DOMAIN dirs = DirClusters
  /\ call \in {"ready", "walk", "search", "list"}
  /\ node \in Nodes \cup {NULL}
  /\ i \in 0 .. ENTRIES
  /\ Len(lfn_list) <= MAX_LFN
  /\ (call = "list" /\ ~failed /\ node.cluster \in Directories) => lfn_buf[0] = NUL
  /\ lfn_active \in BOOLEAN /\ failed \in BOOLEAN

\* The node at the end of the path's first k segments, by the tree alone.
Child(n, name) ==
  LET here == {t \in tree : n # NULL /\ t.dir = n.cluster /\ t.name = name}
  IN  IF here = {} THEN NULL ELSE (CHOOSE t \in here : TRUE).node

Reference[k \in Nat] ==
  IF k = 0 THEN Node(RootDir, "dir") ELSE Child(Reference[k - 1], path[k])

ThroughFile ==
  \E k \in 1 .. Len(path) - 1 : Reference[k] # NULL /\ Reference[k].type = "file"

\* Fat32Open returns the file or directory that was created under the path
\* and not deleted since, and NULL if there is none or a command failed:
\* fragments that deleted or other files left never make a name.  (A path
\* through a file is resolved in the file's data.)
OpenResolves ==
  (call = "ready" /\ path # <<>> /\ ~ThroughFile) =>
     node = IF failed THEN NULL ELSE Reference[Len(path)]

\* A listing that finds the end of the directory in its page names every file
\* and directory that was created there and not deleted since once, with its
\* cluster, and nothing else: deleted entries and the names before leave no
\* trace.  Of a long name it shows the first fragment only.
Shown(name) == IF name \in ShortNames THEN name ELSE <<name[1]>>

ListsTheDirectory ==
  (call = "ready" /\ path = <<>> /\ node # NULL /\ ~failed /\ node.cluster \in Directories) =>
     LET here == {t \in tree : t.dir = node.cluster}
     IN  /\ {listed[k] : k \in 1 .. Len(listed)} = {[name |-> Shown(t.name), node |-> t.node] : t \in here}
         /\ \A j, k \in 1 .. Len(listed) : listed[j].node = listed[k].node => j = k
=============================================================================
