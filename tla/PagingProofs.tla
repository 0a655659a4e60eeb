---------------------------- MODULE PagingProofs ----------------------------
(***************************************************************************)
(* Proofs about Paging, for tables of any length, any pages of the kernel  *)
(* and any mappings of the boot in other slots of PML4.  The tables hang   *)
(* in a tree: none has two entries that lead to it, PML4 none.  So a table *)
(* is on one level only, the way to it is unique, and an entry that is     *)
(* written is on the way of no page but those that go through it.          *)
(***************************************************************************)
EXTENDS Paging, TLAPS

(***************************************************************************)
(* The way of a kernel page through the frames m                           *)
(***************************************************************************)
E1(m, v) == m[PML4][v[1]]
E2(m, v) == m[E1(m, v).frame][v[2]]
E3(m, v) == m[E2(m, v).frame][v[3]]
E4(m, v) == m[E3(m, v).frame][v[4]]

Has1(m, v) == E1(m, v).present
Has2(m, v) == Has1(m, v) /\ E2(m, v).present
Has3(m, v) == Has2(m, v) /\ E3(m, v).present

T1(m, v) == E1(m, v).frame
T2(m, v) == E2(m, v).frame
T3(m, v) == E3(m, v).frame

To(m, v) == IF Has3(m, v) /\ E4(m, v).present THEN E4(m, v).frame ELSE Unmapped

\* Entry i of frame g is not on that way.
Off(m, v, g, i) ==
  /\ ~(g = PML4 /\ i = v[1])
  /\ Has1(m, v) => ~(g = T1(m, v) /\ i = v[2])
  /\ Has2(m, v) => ~(g = T2(m, v) /\ i = v[3])
  /\ Has3(m, v) => ~(g = T3(m, v) /\ i = v[4])

\* Frame g is its table of level k.
IsTable(m, v, k, g) ==
  \/ k = 1 /\ g = PML4
  \/ k = 2 /\ Has1(m, v) /\ g = T1(m, v)
  \/ k = 3 /\ Has2(m, v) /\ g = T2(m, v)
  \/ k = 4 /\ Has3(m, v) /\ g = T3(m, v)

(***************************************************************************)
(* The tree, when alloc_page has come to frame n                           *)
(***************************************************************************)
Memories == [Frames -> [Indices -> Entry]]
Written(f, n) == f \in Frames /\ (f \in Tables => f < n)

LinksTo(m, f, i, t) == m[f][i].present /\ m[f][i].frame = t

Tree(m, n) ==
  /\ m \in Memories
  /\ n \in FIRST_TABLE + 1 .. TABLES_END
  /\ \A t \in Tables : t >= n => m[t] = EmptyTable
  /\ \A f \in Frames, i \in Indices : ~m[f][i].present => m[f][i] = NoEntry
  /\ \A f \in Frames, i \in Indices, t \in Tables : LinksTo(m, f, i, t) => t < n /\ t # PML4
  /\ \A f, g \in Frames, i, j \in Indices, t \in Tables :
       LinksTo(m, f, i, t) /\ LinksTo(m, g, j, t) => f = g /\ i = j

\* The kernel's part of it is made of tables.
OfTables(m, v) ==
  /\ Has1(m, v) => T1(m, v) \in Tables
  /\ Has2(m, v) => T2(m, v) \in Tables
  /\ Has3(m, v) => T3(m, v) \in Tables /\ ~E3(m, v).large
  /\ Has3(m, v) /\ E4(m, v).present => E4(m, v).frame \in KernelFrames

KernelTree(m, n) == Tree(m, n) /\ \A v \in KernelPages : OfTables(m, v)

\* A frame that is none of the kernel's tables.
Outside(m, f) ==
  /\ f # PML4
  /\ \A v \in KernelPages : /\ Has1(m, v) => f # T1(m, v)
                            /\ Has2(m, v) => f # T2(m, v)
                            /\ Has3(m, v) => f # T3(m, v)

\* Where the boot's mappings may be on their way, at entry i of frame f.
BootAt(m, f, i) == Outside(m, f) \/ (f = PML4 /\ \A v \in KernelPages : i # v[1])

IInv ==
  /\ KernelTree(mem, next_free_page)
  /\ tlb \in [KernelPages -> KernelFrames \cup {Unmapped}]
  /\ boot \in 0 .. Len(BootMaps)
  /\ overwritten \subseteq KernelPages
  /\ \A v \in KernelPages : v \notin overwritten => tlb[v] \in {Unmapped, To(mem, v)}

(***************************************************************************)
(* Basic facts                                                             *)
(***************************************************************************)
LEMMA Bounds ==
  /\ FIRST_TABLE \in Nat /\ FIRST_TABLE > 0 /\ TABLES_END \in Nat /\ FIRST_TABLE < TABLES_END
  /\ PML4 \in Tables /\ 0 \in Frames /\ Tables \subseteq Frames /\ Tables \subseteq Nat
  /\ 0 \notin Tables /\ KernelFrames \subseteq Frames /\ BootFrames \subseteq Frames
  /\ KernelFrames \cap Tables = {} /\ BootFrames \cap Tables = {}
  /\ Unmapped \notin Frames
BY FramesAssumption, UnmappedAssumption DEF PML4, Tables, Frames

LEMMA PageIndices ==
  ASSUME NEW v \in KernelPages
  PROVE  v[1] \in Indices /\ v[2] \in Indices /\ v[3] \in Indices /\ v[4] \in Indices
BY PagesAssumption

LEMMA SamePage ==
  ASSUME NEW u \in KernelPages, NEW v \in KernelPages,
         u[1] = v[1], u[2] = v[2], u[3] = v[3], u[4] = v[4]
  PROVE  u = v
<1>1. u \in [1 .. 4 -> Indices] /\ v \in [1 .. 4 -> Indices]
  BY PagesAssumption
<1>2. \A k \in 1 .. 4 : u[k] = v[k]
  OBVIOUS
<1>. QED
  BY <1>1, <1>2

LEMMA Entries ==
  /\ NoEntry \in Entry /\ ~NoEntry.present /\ NoEntry.frame = 0
  /\ EmptyTable \in [Indices -> Entry]
  /\ \A f \in Frames, u \in BOOLEAN :
       /\ Link(f, u) \in Entry /\ Link(f, u).present /\ Link(f, u).frame = f
       /\ ~Link(f, u).large
BY Bounds DEF NoEntry, Entry, EmptyTable, Link

\* No kernel table is on two levels, and no two ways lead to one.
LEMMA Levels ==
  ASSUME NEW m, NEW n, KernelTree(m, n), NEW u \in KernelPages, NEW v \in KernelPages
  PROVE  /\ Has1(m, u) => T1(m, u) # PML4
         /\ Has2(m, u) => T2(m, u) # PML4
         /\ Has3(m, u) => T3(m, u) # PML4
         /\ Has1(m, v) /\ Has2(m, u) => T1(m, v) # T2(m, u)
         /\ Has1(m, v) /\ Has3(m, u) => T1(m, v) # T3(m, u)
         /\ Has2(m, v) /\ Has3(m, u) => T2(m, v) # T3(m, u)
         /\ Has1(m, u) /\ Has1(m, v) /\ T1(m, u) = T1(m, v) => u[1] = v[1]
         /\ Has2(m, u) /\ Has2(m, v) /\ T2(m, u) = T2(m, v) => T1(m, u) = T1(m, v) /\ u[2] = v[2]
         /\ Has3(m, u) /\ Has3(m, v) /\ T3(m, u) = T3(m, v) => T2(m, u) = T2(m, v) /\ u[3] = v[3]
<1>1. ASSUME NEW w \in KernelPages
      PROVE  /\ PML4 \in Frames /\ w[1] \in Indices /\ w[2] \in Indices /\ w[3] \in Indices
             /\ Has1(m, w) => LinksTo(m, PML4, w[1], T1(m, w)) /\ T1(m, w) \in Tables /\ T1(m, w) \in Frames
             /\ Has2(m, w) => LinksTo(m, T1(m, w), w[2], T2(m, w)) /\ T2(m, w) \in Tables /\ T2(m, w) \in Frames
             /\ Has3(m, w) => LinksTo(m, T2(m, w), w[3], T3(m, w)) /\ T3(m, w) \in Tables
  BY PageIndices, Bounds DEF KernelTree, OfTables, LinksTo, Has1, Has2, Has3, T1, T2, T3, E1, E2, E3
<1>2. \A w : /\ Has2(m, w) => Has1(m, w)
             /\ Has3(m, w) => Has2(m, w)
  BY DEF Has3, Has2
<1>3. \A f \in Frames, i \in Indices, t \in Tables : LinksTo(m, f, i, t) => t # PML4
  BY DEF KernelTree, Tree
<1>4. ASSUME NEW f \in Frames, NEW g \in Frames, NEW i \in Indices, NEW j \in Indices,
             NEW s \in Tables, NEW t \in Tables, LinksTo(m, f, i, s), LinksTo(m, g, j, t), s = t
      PROVE  f = g /\ i = j
  <2>1. \A a, b \in Frames, k, l \in Indices, r \in Tables :
          LinksTo(m, a, k, r) /\ LinksTo(m, b, l, r) => a = b /\ k = l
    BY DEF KernelTree, Tree
  <2>2. LinksTo(m, f, i, t)
    BY <1>4
  <2>. QED
    BY <1>4, <2>1, <2>2
<1>5. \A w \in KernelPages : /\ Has1(m, w) => T1(m, w) # PML4
                             /\ Has2(m, w) => T2(m, w) # PML4
                             /\ Has3(m, w) => T3(m, w) # PML4
  BY <1>1, <1>2, <1>3, Zenon
<1>6. ASSUME NEW w \in KernelPages, NEW x \in KernelPages, Has1(m, w), Has2(m, x)
      PROVE  T1(m, w) # T2(m, x)
  BY <1>1, <1>2, <1>4, <1>5, <1>6
<1>7. ASSUME NEW w \in KernelPages, NEW x \in KernelPages, Has1(m, w), Has3(m, x)
      PROVE  T1(m, w) # T3(m, x)
  BY <1>1, <1>2, <1>4, <1>5, <1>7
<1>8. ASSUME NEW w \in KernelPages, NEW x \in KernelPages, Has2(m, w), Has3(m, x)
      PROVE  T2(m, w) # T3(m, x)
  BY <1>1, <1>2, <1>4, <1>6, <1>8
<1>9. ASSUME Has1(m, u), Has1(m, v), T1(m, u) = T1(m, v)
      PROVE  u[1] = v[1]
  BY <1>1, <1>4, <1>9
<1>10. ASSUME Has2(m, u), Has2(m, v), T2(m, u) = T2(m, v)
       PROVE  T1(m, u) = T1(m, v) /\ u[2] = v[2]
  BY <1>1, <1>2, <1>4, <1>10
<1>11. ASSUME Has3(m, u), Has3(m, v), T3(m, u) = T3(m, v)
       PROVE  T2(m, u) = T2(m, v) /\ u[3] = v[3]
  BY <1>1, <1>2, <1>4, <1>11
<1>. QED
  BY <1>5, <1>6, <1>7, <1>8, <1>9, <1>10, <1>11

(***************************************************************************)
(* What a write changes                                                    *)
(***************************************************************************)
Set(m, g, i, e) == [m EXCEPT ![g][i] = e]

LEMMA Written1 ==
  ASSUME NEW m \in Memories, NEW g \in Frames, NEW i \in Indices, NEW e
  PROVE  /\ DOMAIN Set(m, g, i, e) = Frames
         /\ \A f \in Frames, j \in Indices :
              Set(m, g, i, e)[f][j] = IF f = g /\ j = i THEN e ELSE m[f][j]
         /\ \A f \in Frames : f # g => Set(m, g, i, e)[f] = m[f]
         /\ e \in Entry => Set(m, g, i, e) \in Memories
BY DEF Memories, Set

\* An entry that leads to no table, or is taken out.
LEMMA SetEntry ==
  ASSUME NEW m, NEW n, Tree(m, n), NEW g, Written(g, n), NEW i \in Indices, NEW e \in Entry,
         ~e.present => e = NoEntry, e.present => e.frame \notin Tables
  PROVE  Tree(Set(m, g, i, e), n)
<1> DEFINE s == Set(m, g, i, e)
<1>1. m \in Memories /\ g \in Frames /\ (g \in Tables => g < n) /\ n \in FIRST_TABLE + 1 .. TABLES_END
  BY DEF Tree, Written
<1>2. /\ s \in Memories
      /\ \A f \in Frames, j \in Indices : s[f][j] = IF f = g /\ j = i THEN e ELSE m[f][j]
      /\ \A f \in Frames : f # g => s[f] = m[f]
  BY <1>1, Written1
<1>3. \A t \in Tables : t >= n => s[t] = EmptyTable
  <2>1. \A t \in Tables : t >= n => t # g /\ m[t] = EmptyTable /\ t \in Frames
    BY <1>1, Bounds DEF Tree
  <2>. QED
    BY <1>2, <2>1
<1>4. \A f \in Frames, j \in Indices : ~s[f][j].present => s[f][j] = NoEntry
  BY <1>2 DEF Tree
<1>5. \A f \in Frames, j \in Indices, t \in Tables : LinksTo(s, f, j, t) => LinksTo(m, f, j, t)
  BY <1>2 DEF LinksTo
<1>6. \A f \in Frames, j \in Indices, t \in Tables : LinksTo(s, f, j, t) => t < n /\ t # PML4
  BY <1>5 DEF Tree
<1>7. \A f, h \in Frames, j, k \in Indices, t \in Tables :
        LinksTo(s, f, j, t) /\ LinksTo(s, h, k, t) => f = h /\ j = k
  BY <1>5 DEF Tree
<1> HIDE DEF s
<1>. QED
  BY <1>1, <1>2, <1>3, <1>4, <1>6, <1>7 DEF Tree, s

\* alloc_page is not called, or what it gave is lost.
LEMMA Grow ==
  ASSUME NEW m, NEW n, Tree(m, n), n < TABLES_END
  PROVE  Tree(m, n + 1)
BY Bounds DEF Tree

\* The new table is linked in.
LEMMA SetLink ==
  ASSUME NEW m, NEW n, Tree(m, n), n < TABLES_END, NEW g, Written(g, n), NEW i \in Indices,
         NEW e \in Entry, e.present, e.frame = n
  PROVE  Tree(Set(m, g, i, e), n + 1)
<1> DEFINE s == Set(m, g, i, e)
<1>1. /\ m \in Memories /\ g \in Frames /\ (g \in Tables => g < n)
      /\ n \in FIRST_TABLE + 1 .. TABLES_END /\ n + 1 \in FIRST_TABLE + 1 .. TABLES_END
      /\ n # PML4 /\ n \in Nat
  BY Bounds DEF Tree, Written, PML4
<1>2. /\ s \in Memories
      /\ \A f \in Frames, j \in Indices : s[f][j] = IF f = g /\ j = i THEN e ELSE m[f][j]
      /\ \A f \in Frames : f # g => s[f] = m[f]
  BY <1>1, Written1
<1>3. \A t \in Tables : t >= n + 1 => s[t] = EmptyTable
  <2>1. \A t \in Tables : t >= n + 1 => t # g /\ m[t] = EmptyTable /\ t \in Frames
    BY <1>1, Bounds DEF Tree
  <2>. QED
    BY <1>2, <2>1
<1>4. \A f \in Frames, j \in Indices : ~s[f][j].present => s[f][j] = NoEntry
  BY <1>2 DEF Tree
<1>5. \A f \in Frames, j \in Indices, t \in Tables :
        LinksTo(s, f, j, t) => \/ f = g /\ j = i /\ t = n
                              \/ LinksTo(m, f, j, t)
  BY <1>2 DEF LinksTo
<1>6. \A f \in Frames, j \in Indices, t \in Tables : LinksTo(m, f, j, t) => t < n /\ t # PML4 /\ t \in Nat
  BY Bounds DEF Tree
<1>7. \A f \in Frames, j \in Indices, t \in Tables : LinksTo(s, f, j, t) => t < n + 1 /\ t # PML4
  BY <1>1, <1>5, <1>6
<1>8. \A f, h \in Frames, j, k \in Indices, t \in Tables :
        LinksTo(m, f, j, t) /\ LinksTo(m, h, k, t) => f = h /\ j = k
  BY DEF Tree
<1>9. \A f, h \in Frames, j, k \in Indices, t \in Tables :
        LinksTo(s, f, j, t) /\ LinksTo(s, h, k, t) => f = h /\ j = k
  BY <1>1, <1>5, <1>6, <1>8
<1> HIDE DEF s
<1>. QED
  BY <1>1, <1>2, <1>3, <1>4, <1>7, <1>9 DEF Tree, s

\* What is not on the way of a page leaves the page as it was.
LEMMA OffPath ==
  ASSUME NEW m \in Memories, NEW v \in KernelPages, OfTables(m, v),
         NEW g \in Frames, NEW i \in Indices, NEW e, Off(m, v, g, i)
  PROVE  LET s == Set(m, g, i, e)
         IN  /\ Has1(s, v) = Has1(m, v) /\ Has2(s, v) = Has2(m, v) /\ Has3(s, v) = Has3(m, v)
             /\ Has1(m, v) => T1(s, v) = T1(m, v)
             /\ Has2(m, v) => T2(s, v) = T2(m, v)
             /\ Has3(m, v) => T3(s, v) = T3(m, v)
             /\ To(s, v) = To(m, v)
             /\ OfTables(s, v)
<1> DEFINE s == Set(m, g, i, e)
<1>1. /\ PML4 \in Frames /\ v[1] \in Indices /\ v[2] \in Indices /\ v[3] \in Indices /\ v[4] \in Indices
      /\ Has1(m, v) => T1(m, v) \in Frames
      /\ Has2(m, v) => T2(m, v) \in Frames
      /\ Has3(m, v) => T3(m, v) \in Frames
  BY Bounds, PageIndices DEF OfTables
<1>2. \A f \in Frames, j \in Indices : ~(f = g /\ j = i) => s[f][j] = m[f][j]
  BY Written1
<1> HIDE DEF s
<1>3. E1(s, v) = E1(m, v) /\ Has1(s, v) = Has1(m, v) /\ T1(s, v) = T1(m, v)
  BY <1>1, <1>2 DEF Off, E1, Has1, T1
<1>4. Has1(m, v) => E2(s, v) = E2(m, v)
  BY <1>1, <1>2, <1>3 DEF Off, E2, T1
<1>5. Has2(s, v) = Has2(m, v) /\ (Has2(m, v) => T2(s, v) = T2(m, v))
  BY <1>3, <1>4 DEF Has2, T2
<1>6. Has2(m, v) => E3(s, v) = E3(m, v)
  BY <1>1, <1>2, <1>5 DEF Off, E3, T2
<1>7. Has3(s, v) = Has3(m, v) /\ (Has3(m, v) => T3(s, v) = T3(m, v))
  BY <1>5, <1>6 DEF Has3, T3
<1>8. Has3(m, v) => E4(s, v) = E4(m, v)
  BY <1>1, <1>2, <1>7 DEF Off, E4, T3
<1>9. To(s, v) = To(m, v)
  BY <1>7, <1>8 DEF To
<1>10. Has3(m, v) => Has2(m, v)
  BY DEF Has3
<1>11. OfTables(s, v)
  BY <1>3, <1>5, <1>6, <1>7, <1>8, <1>10 DEF OfTables
<1>. QED
  BY <1>3, <1>5, <1>7, <1>9, <1>11 DEF s

\* An entry on the way of v is on the way of another page only as far as
\* their indices are the same.
LEMMA OffOthers ==
  ASSUME NEW m, NEW n, KernelTree(m, n), NEW v \in KernelPages, NEW u \in KernelPages,
         NEW k \in 1 .. 4, NEW g, IsTable(m, v, k, g)
  PROVE  \/ Off(m, u, g, v[k])
         \/ /\ IsTable(m, u, k, g) /\ u[1] = v[1]
            /\ k >= 2 => u[2] = v[2]
            /\ k >= 3 => u[3] = v[3]
            /\ k = 4 => u = v
<1>1. /\ Has2(m, u) => Has1(m, u)
      /\ Has3(m, u) => Has2(m, u)
      /\ Has2(m, v) => Has1(m, v)
      /\ Has3(m, v) => Has2(m, v)
      /\ k = 1 \/ k = 2 \/ k = 3 \/ k = 4
  BY DEF Has2, Has3
<1>2. /\ Has1(m, u) => T1(m, u) # PML4
      /\ Has2(m, u) => T2(m, u) # PML4
      /\ Has3(m, u) => T3(m, u) # PML4
      /\ Has1(m, v) => T1(m, v) # PML4
      /\ Has2(m, v) => T2(m, v) # PML4
      /\ Has3(m, v) => T3(m, v) # PML4
  BY Levels
<1>3. /\ Has1(m, v) /\ Has2(m, u) => T1(m, v) # T2(m, u)
      /\ Has1(m, v) /\ Has3(m, u) => T1(m, v) # T3(m, u)
      /\ Has2(m, v) /\ Has3(m, u) => T2(m, v) # T3(m, u)
      /\ Has1(m, u) /\ Has2(m, v) => T1(m, u) # T2(m, v)
      /\ Has1(m, u) /\ Has3(m, v) => T1(m, u) # T3(m, v)
      /\ Has2(m, u) /\ Has3(m, v) => T2(m, u) # T3(m, v)
  BY Levels
<1>4. /\ Has1(m, u) /\ Has1(m, v) /\ T1(m, u) = T1(m, v) => u[1] = v[1]
      /\ Has2(m, u) /\ Has2(m, v) /\ T2(m, u) = T2(m, v) => T1(m, u) = T1(m, v) /\ u[2] = v[2]
      /\ Has3(m, u) /\ Has3(m, v) /\ T3(m, u) = T3(m, v) => T2(m, u) = T2(m, v) /\ u[3] = v[3]
  BY Levels
<1>5. CASE k = 1
  BY <1>1, <1>2, <1>5 DEF IsTable, Off
<1>6. CASE k = 2
  BY <1>1, <1>2, <1>3, <1>4, <1>6 DEF IsTable, Off
<1>7. CASE k = 3
  BY <1>1, <1>2, <1>3, <1>4, <1>7 DEF IsTable, Off
<1>8. CASE k = 4
  BY <1>1, <1>2, <1>3, <1>4, <1>8, SamePage DEF IsTable, Off
<1>. QED
  BY <1>1, <1>5, <1>6, <1>7, <1>8

LEMMA TableFacts ==
  ASSUME NEW m, NEW n, KernelTree(m, n), NEW v \in KernelPages, NEW k \in 1 .. 4,
         NEW g, IsTable(m, v, k, g)
  PROVE  g \in Tables /\ g \in Frames /\ g # 0 /\ g < n /\ Written(g, n) /\ m \in Memories
<1>1. g \in Tables
  BY Bounds DEF IsTable, KernelTree, OfTables
<1>2. \A f \in Frames, i \in Indices, t \in Tables : LinksTo(m, f, i, t) => t < n
  BY DEF KernelTree, Tree
<1>3. /\ v[1] \in Indices /\ v[2] \in Indices /\ v[3] \in Indices /\ PML4 \in Frames
      /\ Has1(m, v) => T1(m, v) \in Frames
      /\ Has2(m, v) => Has1(m, v) /\ T2(m, v) \in Frames
      /\ Has3(m, v) => Has2(m, v)
  BY PageIndices, Bounds DEF KernelTree, OfTables, Has2, Has3
<1>4. CASE g = PML4
  BY <1>1, <1>4, Bounds DEF KernelTree, Tree, PML4, Written
<1>5. CASE Has1(m, v) /\ g = T1(m, v)
  <2>1. LinksTo(m, PML4, v[1], g)
    BY <1>5 DEF LinksTo, Has1, T1, E1
  <2>. QED
    BY <2>1, <1>1, <1>2, <1>3, Bounds DEF Written, KernelTree, Tree
<1>6. CASE Has2(m, v) /\ g = T2(m, v)
  <2>1. LinksTo(m, T1(m, v), v[2], g)
    BY <1>6 DEF LinksTo, Has2, T2, T1, E2
  <2>. QED
    BY <2>1, <1>1, <1>2, <1>3, <1>6, Bounds DEF Written, KernelTree, Tree
<1>7. CASE Has3(m, v) /\ g = T3(m, v)
  <2>1. LinksTo(m, T2(m, v), v[3], g)
    BY <1>7 DEF LinksTo, Has3, T3, T2, E3
  <2>. QED
    BY <2>1, <1>1, <1>2, <1>3, <1>7, Bounds DEF Written, KernelTree, Tree
<1>. QED
  BY <1>4, <1>5, <1>6, <1>7 DEF IsTable

\* What is written into a table of a page leaves its way to that table.
LEMMA WayAbove ==
  ASSUME NEW m, NEW n, KernelTree(m, n), NEW v \in KernelPages, NEW k \in 1 .. 4,
         NEW g, IsTable(m, v, k, g), NEW e
  PROVE  LET s == Set(m, g, v[k], e)
         IN  /\ s[g][v[k]] = e
             /\ \A f \in Frames : f # g => s[f] = m[f]
             /\ k = 1 => E1(s, v) = e
             /\ k >= 2 => E1(s, v) = E1(m, v) /\ Has1(s, v) /\ Has1(m, v)
             /\ k = 2 => E2(s, v) = e /\ T1(s, v) = g
             /\ k >= 3 => E2(s, v) = E2(m, v) /\ Has2(s, v) /\ Has2(m, v)
             /\ k = 3 => E3(s, v) = e /\ T2(s, v) = g
             /\ k = 4 => E3(s, v) = E3(m, v) /\ Has3(s, v) /\ Has3(m, v) /\ E4(s, v) = e /\ T3(s, v) = g
<1> DEFINE s == Set(m, g, v[k], e)
<1>1. /\ v[1] \in Indices /\ v[2] \in Indices /\ v[3] \in Indices /\ v[4] \in Indices
      /\ v[k] \in Indices /\ g \in Frames /\ PML4 \in Frames /\ m \in Memories
      /\ Has1(m, v) => T1(m, v) \in Frames
      /\ Has2(m, v) => Has1(m, v) /\ T2(m, v) \in Frames
      /\ Has3(m, v) => Has2(m, v)
      /\ k = 1 \/ k = 2 \/ k = 3 \/ k = 4
  <2>1. /\ v[1] \in Indices /\ v[2] \in Indices /\ v[3] \in Indices /\ v[4] \in Indices
        /\ k = 1 \/ k = 2 \/ k = 3 \/ k = 4
    BY PageIndices
  <2>2. g \in Frames /\ m \in Memories
    BY TableFacts
  <2>3. v[k] \in Indices
    BY <2>1
  <2>. QED
    BY <2>1, <2>2, <2>3, Bounds DEF KernelTree, OfTables, Has2, Has3
<1>2. /\ \A f \in Frames, j \in Indices : s[f][j] = IF f = g /\ j = v[k] THEN e ELSE m[f][j]
      /\ \A f \in Frames : f # g => s[f] = m[f]
  BY <1>1, Written1
<1>3. /\ Has1(m, v) => T1(m, v) # PML4
      /\ Has2(m, v) => T2(m, v) # PML4
      /\ Has3(m, v) => T3(m, v) # PML4
      /\ Has1(m, v) /\ Has2(m, v) => T1(m, v) # T2(m, v)
      /\ Has1(m, v) /\ Has3(m, v) => T1(m, v) # T3(m, v)
      /\ Has2(m, v) /\ Has3(m, v) => T2(m, v) # T3(m, v)
  BY Levels
<1> HIDE DEF s
<1>4. s[g][v[k]] = e
  BY <1>1, <1>2
<1>5. CASE k = 1
  BY <1>1, <1>2, <1>4, <1>5 DEF IsTable, E1, s
<1>6. CASE k = 2
  <2>1. Has1(m, v) /\ g = T1(m, v)
    BY <1>6 DEF IsTable
  <2>2. E1(s, v) = E1(m, v)
    BY <2>1, <1>1, <1>2, <1>3 DEF E1
  <2>. QED
    BY <2>1, <2>2, <1>2, <1>4, <1>6 DEF Has1, T1, E2, s
<1>7. CASE k = 3
  <2>1. Has2(m, v) /\ Has1(m, v) /\ g = T2(m, v)
    BY <1>1, <1>7 DEF IsTable
  <2>2. E1(s, v) = E1(m, v)
    BY <2>1, <1>1, <1>2, <1>3 DEF E1
  <2>3. E2(s, v) = E2(m, v)
    BY <2>1, <2>2, <1>1, <1>2, <1>3 DEF E2, T1
  <2>. QED
    BY <2>1, <2>2, <2>3, <1>2, <1>4, <1>7 DEF Has1, Has2, T2, E3, s
<1>8. CASE k = 4
  <2>1. Has3(m, v) /\ Has2(m, v) /\ Has1(m, v) /\ g = T3(m, v)
    BY <1>1, <1>8 DEF IsTable
  <2>2. E1(s, v) = E1(m, v)
    BY <2>1, <1>1, <1>2, <1>3 DEF E1
  <2>3. E2(s, v) = E2(m, v)
    BY <2>1, <2>2, <1>1, <1>2, <1>3 DEF E2, T1
  <2>4. E3(s, v) = E3(m, v)
    BY <2>1, <2>3, <1>1, <1>2, <1>3 DEF E3, T2
  <2>. QED
    BY <2>1, <2>2, <2>3, <2>4, <1>2, <1>4, <1>8 DEF Has1, Has2, Has3, T3, E4, s
<1>. QED
  BY <1>1, <1>5, <1>6, <1>7, <1>8 DEF s

(***************************************************************************)
(* A table is linked in on the way of a kernel page                        *)
(***************************************************************************)
LEMMA LinkWay ==
  ASSUME NEW m, NEW n, KernelTree(m, n), n < TABLES_END, NEW v \in KernelPages, NEW k \in 1 .. 3,
         NEW g, IsTable(m, v, k, g), ~m[g][v[k]].present
  PROVE  LET s == Set(m, g, v[k], Link(n, FALSE))
         IN  /\ IsTable(s, v, k + 1, n)
             /\ OfTables(s, v)
             /\ To(s, v) = To(m, v)
<1> DEFINE e == Link(n, FALSE)
           s == Set(m, g, v[k], e)
<1>1. n \in Tables /\ n \in Frames /\ n # g /\ n # PML4 /\ m[n] = EmptyTable
  <2>1. g < n /\ g \in Nat
    <3>1. k \in 1 .. 4
      OBVIOUS
    <3>. QED
      BY <3>1, TableFacts, Bounds
  <2>2. n \in FIRST_TABLE + 1 .. TABLES_END
    BY DEF KernelTree, Tree
  <2>3. n \in Tables /\ n \in Frames /\ n # PML4
    BY <2>2, Bounds DEF Tables, PML4
  <2>. QED
    BY <2>1, <2>2, <2>3 DEF KernelTree, Tree
<1>2. e.present /\ e.frame = n /\ ~e.large
  BY DEF Link
<1> HIDE DEF e
<1>3. /\ \A f \in Frames : f # g => s[f] = m[f]
      /\ k = 1 => E1(s, v) = e
      /\ k >= 2 => E1(s, v) = E1(m, v) /\ Has1(s, v) /\ Has1(m, v)
      /\ k = 2 => E2(s, v) = e /\ T1(s, v) = g
      /\ k >= 3 => E2(s, v) = E2(m, v) /\ Has2(s, v) /\ Has2(m, v)
      /\ k = 3 => E3(s, v) = e /\ T2(s, v) = g
  <2>1. k \in 1 .. 4
    OBVIOUS
  <2>. QED
    BY <2>1, WayAbove
<1>4. /\ Has1(m, v) => T1(m, v) \in Tables
      /\ Has2(m, v) => T2(m, v) \in Tables
  BY DEF KernelTree, OfTables
<1>5. k = 1 \/ k = 2 \/ k = 3
  OBVIOUS
<1>6. v[2] \in Indices /\ v[3] \in Indices /\ v[4] \in Indices
  BY PageIndices
<1> HIDE DEF s
<1>7. \A j \in Indices : ~s[n][j].present
  BY <1>1, <1>3, Entries DEF EmptyTable
<1>8. CASE k = 1
  <2>1. ~Has1(m, v)
    BY <1>8 DEF IsTable, Has1, E1
  <2>2. Has1(s, v) /\ T1(s, v) = n /\ ~Has2(s, v)
    BY <1>2, <1>3, <1>6, <1>7, <1>8 DEF Has1, T1, Has2, E2
  <2>3. ~Has3(s, v) /\ ~Has3(m, v)
    BY <2>1, <2>2 DEF Has3, Has2
  <2>4. IsTable(s, v, k + 1, n)
    BY <2>2, <1>8 DEF IsTable
  <2>5. OfTables(s, v)
    BY <2>2, <2>3, <1>1 DEF OfTables
  <2>6. To(s, v) = To(m, v)
    BY <2>3 DEF To
  <2>. QED
    BY <2>4, <2>5, <2>6 DEF s, e
<1>9. CASE k = 2
  <2>1. ~Has2(m, v) /\ Has1(m, v) /\ Has1(s, v) /\ T1(s, v) = T1(m, v)
    BY <1>3, <1>9 DEF IsTable, Has2, E2, T1
  <2>2. Has2(s, v) /\ T2(s, v) = n /\ ~Has3(s, v)
    BY <1>2, <1>3, <1>6, <1>7, <1>9 DEF Has2, T2, Has3, E3
  <2>3. ~Has3(m, v)
    BY <2>1 DEF Has3
  <2>4. IsTable(s, v, k + 1, n)
    BY <2>2, <1>9 DEF IsTable
  <2>5. OfTables(s, v)
    BY <2>1, <2>2, <1>1, <1>4 DEF OfTables
  <2>6. To(s, v) = To(m, v)
    BY <2>2, <2>3 DEF To
  <2>. QED
    BY <2>4, <2>5, <2>6 DEF s, e
<1>10. CASE k = 3
  <2>1. /\ ~Has3(m, v) /\ Has2(m, v) /\ Has1(m, v) /\ Has1(s, v) /\ T1(s, v) = T1(m, v)
        /\ Has2(s, v) /\ T2(s, v) = T2(m, v)
    BY <1>3, <1>10 DEF IsTable, Has3, E3, T2, T1
  <2>2. Has3(s, v) /\ T3(s, v) = n /\ ~E4(s, v).present
    BY <1>2, <1>3, <1>6, <1>7, <1>10 DEF Has3, T3, E4
  <2>3. IsTable(s, v, k + 1, n)
    BY <2>2, <1>10 DEF IsTable
  <2>4. OfTables(s, v)
    BY <2>1, <2>2, <1>1, <1>2, <1>3, <1>4, <1>10 DEF OfTables
  <2>5. To(s, v) = To(m, v)
    BY <2>1, <2>2 DEF To
  <2>. QED
    BY <2>3, <2>4, <2>5 DEF s, e
<1>. QED
  BY <1>5, <1>8, <1>9, <1>10

\* The kernel's pages are in m2 as they were in m.
Kept(m2, m, v) == OfTables(m2, v) /\ To(m2, v) = To(m, v)
Same(m2, m) == \A v \in KernelPages : To(m2, v) = To(m, v)

LEMMA LinkKeeps ==
  ASSUME NEW m, NEW n, KernelTree(m, n), n < TABLES_END, NEW u \in KernelPages,
         NEW v \in KernelPages, NEW k \in 1 .. 3, NEW g, IsTable(m, v, k, g), ~m[g][v[k]].present
  PROVE  Kept(Set(m, g, v[k], Link(n, FALSE)), m, u)
<1>1. OfTables(m, u)
  BY DEF KernelTree
<1>2. k \in 1 .. 4 /\ (k = 1 \/ k = 2 \/ k = 3)
  OBVIOUS
<1>3. g \in Frames /\ m \in Memories /\ v[k] \in Indices
  BY <1>2, TableFacts, PageIndices
<1>4. CASE Off(m, u, g, v[k])
  BY <1>1, <1>3, <1>4, OffPath DEF Kept
<1>5. CASE /\ IsTable(m, u, k, g) /\ u[1] = v[1]
           /\ k >= 2 => u[2] = v[2]
           /\ k >= 3 => u[3] = v[3]
  <2>1. u[k] = v[k]
    BY <1>2, <1>5
  <2>2. ~m[g][u[k]].present
    BY <2>1
  <2>3. /\ OfTables(Set(m, g, u[k], Link(n, FALSE)), u)
        /\ To(Set(m, g, u[k], Link(n, FALSE)), u) = To(m, u)
    BY <1>5, <2>2, LinkWay
  <2>. QED
    BY <2>1, <2>3 DEF Kept
<1>6. \/ Off(m, u, g, v[k])
      \/ /\ IsTable(m, u, k, g) /\ u[1] = v[1]
         /\ k >= 2 => u[2] = v[2]
         /\ k >= 3 => u[3] = v[3]
  BY <1>2, OffOthers
<1>. QED
  BY <1>4, <1>5, <1>6

LEMMA LinkKernel ==
  ASSUME NEW m, NEW n, KernelTree(m, n), n < TABLES_END, NEW v \in KernelPages, NEW k \in 1 .. 3,
         NEW g, IsTable(m, v, k, g), ~m[g][v[k]].present
  PROVE  LET s == Set(m, g, v[k], Link(n, FALSE))
         IN  KernelTree(s, n + 1) /\ IsTable(s, v, k + 1, n) /\ Same(s, m)
<1> DEFINE e == Link(n, FALSE)
           s == Set(m, g, v[k], e)
<1>1. n \in Frames /\ e \in Entry /\ e.present /\ e.frame = n /\ n \in Nat
  <2>1. n \in Frames /\ n \in Nat
    BY Bounds DEF KernelTree, Tree, Tables
  <2>. QED
    BY <2>1, Entries
<1>2. g \in Frames /\ Written(g, n) /\ m \in Memories /\ v[k] \in Indices
  <2>1. k = 1 \/ k = 2 \/ k = 3
    OBVIOUS
  <2>. QED
    BY <2>1, TableFacts, PageIndices
<1>3. Tree(s, n + 1)
  BY <1>1, <1>2, SetLink DEF KernelTree
<1>4. IsTable(s, v, k + 1, n)
  BY LinkWay
<1>5. ASSUME NEW u \in KernelPages PROVE Kept(s, m, u)
  BY LinkKeeps
<1> HIDE DEF s, e
<1>. QED
  BY <1>3, <1>4, <1>5 DEF KernelTree, Kept, Same, s, e

(***************************************************************************)
(* The last entry of a kernel page is written                              *)
(***************************************************************************)
LEMMA SetKernel ==
  ASSUME NEW m, NEW n, KernelTree(m, n), NEW v \in KernelPages,
         NEW g, IsTable(m, v, 4, g), NEW e \in Entry,
         ~e.present => e = NoEntry, e.present => e.frame \in KernelFrames
  PROVE  LET s == Set(m, g, v[4], e)
         IN  /\ KernelTree(s, n)
             /\ To(s, v) = IF e.present THEN e.frame ELSE Unmapped
             /\ \A u \in KernelPages : u # v => To(s, u) = To(m, u)
<1> DEFINE s == Set(m, g, v[4], e)
<1>1. g \in Frames /\ Written(g, n) /\ m \in Memories /\ v[4] \in Indices
  BY TableFacts, PageIndices
<1>2. e.present => e.frame \notin Tables
  BY Bounds
<1>3. Tree(s, n)
  BY <1>1, <1>2, SetEntry DEF KernelTree
<1>4. /\ E1(s, v) = E1(m, v) /\ E2(s, v) = E2(m, v) /\ E3(s, v) = E3(m, v)
      /\ Has1(s, v) /\ Has2(s, v) /\ Has3(s, v) /\ Has1(m, v) /\ Has2(m, v) /\ Has3(m, v)
      /\ E4(s, v) = e
  BY WayAbove
<1> HIDE DEF s
<1>5. To(s, v) = IF e.present THEN e.frame ELSE Unmapped
  BY <1>4 DEF To
<1>6. OfTables(s, v)
  BY <1>4 DEF KernelTree, OfTables, T1, T2, T3
<1>7. ASSUME NEW u \in KernelPages, u # v PROVE OfTables(s, u) /\ To(s, u) = To(m, u)
  <2>1. Off(m, u, g, v[4])
    BY <1>7, OffOthers
  <2>. QED
    BY <1>1, <2>1, OffPath DEF s, KernelTree
<1>. QED
  BY <1>3, <1>5, <1>6, <1>7 DEF KernelTree, s

(***************************************************************************)
(* The boot's mappings keep off the kernel's part                          *)
(***************************************************************************)
LEMMA BootOff ==
  ASSUME NEW m, NEW n, KernelTree(m, n), NEW g, NEW i, BootAt(m, g, i), NEW v \in KernelPages
  PROVE  Off(m, v, g, i)
BY Levels DEF BootAt, Outside, Off

LEMMA SetBoot ==
  ASSUME NEW m, NEW n, KernelTree(m, n), NEW g, NEW i \in Indices, BootAt(m, g, i),
         NEW e, NEW n2, Tree(Set(m, g, i, e), n2), g \in Frames
  PROVE  LET s == Set(m, g, i, e)
         IN  /\ KernelTree(s, n2)
             /\ Same(s, m)
             /\ \A f : Outside(m, f) => Outside(s, f)
<1> DEFINE s == Set(m, g, i, e)
<1>1. ASSUME NEW v \in KernelPages
      PROVE  /\ Has1(s, v) = Has1(m, v) /\ Has2(s, v) = Has2(m, v) /\ Has3(s, v) = Has3(m, v)
             /\ Has1(m, v) => T1(s, v) = T1(m, v)
             /\ Has2(m, v) => T2(s, v) = T2(m, v)
             /\ Has3(m, v) => T3(s, v) = T3(m, v)
             /\ To(s, v) = To(m, v)
             /\ OfTables(s, v)
  <2>1. Off(m, v, g, i)
    BY BootOff
  <2>. QED
    BY <2>1, OffPath DEF KernelTree, Tree
<1> HIDE DEF s
<1>2. \A f : Outside(m, f) => Outside(s, f)
  BY <1>1 DEF Outside
<1>. QED
  BY <1>1, <1>2 DEF KernelTree, Same, s

\* Whatever hangs under such an entry is none of the kernel's tables either;
\* and neither is a new table, nor physical page 0.
LEMMA BootBelow ==
  ASSUME NEW m, NEW n, KernelTree(m, n), NEW g \in Frames, NEW i \in Indices, BootAt(m, g, i),
         m[g][i].present
  PROVE  Outside(m, m[g][i].frame) /\ Written(m[g][i].frame, n)
<1> DEFINE f == m[g][i].frame
<1>1. f \in Frames /\ Written(f, n)
  <2>1. m[g][i] \in Entry
    BY DEF KernelTree, Tree, Memories
  <2>2. f \in Frames
    BY <2>1 DEF Entry
  <2>3. LinksTo(m, g, i, f)
    BY DEF LinksTo
  <2>4. f \in Tables => f < n
    BY <2>2, <2>3 DEF KernelTree, Tree
  <2>. QED
    BY <2>2, <2>4 DEF Written
<1>2. LinksTo(m, g, i, f)
  BY DEF LinksTo
<1>3. f # PML4
  BY <1>2, Bounds DEF KernelTree, Tree
<1>4. ASSUME NEW v \in KernelPages
      PROVE  /\ Has1(m, v) => f # T1(m, v)
             /\ Has2(m, v) => f # T2(m, v)
             /\ Has3(m, v) => f # T3(m, v)
  <2>1. /\ v[1] \in Indices /\ v[2] \in Indices /\ v[3] \in Indices /\ PML4 \in Frames
        /\ Has1(m, v) => T1(m, v) \in Tables /\ T1(m, v) \in Frames
        /\ Has2(m, v) => Has1(m, v) /\ T2(m, v) \in Tables /\ T2(m, v) \in Frames
        /\ Has3(m, v) => Has2(m, v) /\ T3(m, v) \in Tables
    BY PageIndices, Bounds DEF KernelTree, OfTables, Has2, Has3
  <2>2. \A a, b \in Frames, k, l \in Indices, t \in Tables :
          LinksTo(m, a, k, t) /\ LinksTo(m, b, l, t) => a = b /\ k = l
    BY DEF KernelTree, Tree
  <2>3. Off(m, v, g, i)
    BY BootOff
  <2>4. ASSUME Has1(m, v), f = T1(m, v) PROVE FALSE
    <3>1. LinksTo(m, PML4, v[1], f)
      BY <2>4 DEF LinksTo, Has1, T1, E1
    <3>. QED
      BY <1>2, <2>1, <2>2, <2>3, <2>4, <3>1 DEF Off
  <2>5. ASSUME Has2(m, v), f = T2(m, v) PROVE FALSE
    <3>1. LinksTo(m, T1(m, v), v[2], f)
      BY <2>5 DEF LinksTo, Has2, T2, T1, E2
    <3>. QED
      BY <1>2, <2>1, <2>2, <2>3, <2>5, <3>1 DEF Off
  <2>6. ASSUME Has3(m, v), f = T3(m, v) PROVE FALSE
    <3>1. LinksTo(m, T2(m, v), v[3], f)
      BY <2>6 DEF LinksTo, Has3, T3, T2, E3
    <3>. QED
      BY <1>2, <2>1, <2>2, <2>3, <2>6, <3>1 DEF Off
  <2>. QED
    BY <2>4, <2>5, <2>6
<1> HIDE DEF f
<1>. QED
  BY <1>1, <1>3, <1>4 DEF Outside, f

LEMMA NewOutside ==
  ASSUME NEW m, NEW n, KernelTree(m, n)
  PROVE  Outside(m, n) /\ Outside(m, 0)
<1>1. n # PML4 /\ 0 # PML4
  BY Bounds DEF KernelTree, Tree, PML4
<1>2. ASSUME NEW v \in KernelPages
      PROVE  /\ Has1(m, v) => T1(m, v) # n /\ T1(m, v) # 0
             /\ Has2(m, v) => T2(m, v) # n /\ T2(m, v) # 0
             /\ Has3(m, v) => T3(m, v) # n /\ T3(m, v) # 0
  <2>1. /\ Has1(m, v) => IsTable(m, v, 2, T1(m, v))
        /\ Has2(m, v) => IsTable(m, v, 3, T2(m, v))
        /\ Has3(m, v) => IsTable(m, v, 4, T3(m, v))
    BY DEF IsTable
  <2>2. \A g : \A k \in 1 .. 4 : IsTable(m, v, k, g) => g < n /\ g # 0 /\ g \in Nat
    BY TableFacts, Bounds
  <2>3. n \in Int
    BY DEF KernelTree, Tree
  <2>. QED
    BY <2>1, <2>2, <2>3
<1>. QED
  BY <1>1, <1>2 DEF Outside

(***************************************************************************)
(* One level down                                                          *)
(***************************************************************************)
At(m, n, g) == [mem |-> m, next |-> n, at |-> g]

Record(w) == w = At(w.mem, w.next, w.at) /\ w.next \in Int

LEMMA Allocated ==
  ASSUME NEW m, NEW n, NEW g
  PROVE  alloc_page(At(m, n, g)) = At([m EXCEPT ![n] = EmptyTable], n + 1, g)
<1> DEFINE w == At(m, n, g)
<1>1. w = [mem |-> m, next |-> n, at |-> g] /\ w.next = n
  BY DEF At
<1>2. alloc_page(w) = [w EXCEPT !.mem[w.next] = EmptyTable, !.next = w.next + 1]
  BY DEF alloc_page
<1> HIDE DEF w
<1>3. alloc_page(w) = [w EXCEPT !.mem[n] = EmptyTable, !.next = n + 1]
  BY <1>1, <1>2
<1>4. alloc_page(w) = At([m EXCEPT ![n] = EmptyTable], n + 1, g)
  BY <1>1, <1>3 DEF At
<1>. QED
  BY <1>4 DEF w

LEMMA DownRecord ==
  ASSUME NEW w, Record(w), NEW i, NEW u
  PROVE  Record(Down(w, i, u)) /\ Down(w, i, u).next >= w.next
<1> DEFINE d == Down(w, i, u)
<1>1. CASE w.mem[w.at][i].present
  <2>1. d = [w EXCEPT !.at = w.mem[w.at][i].frame]
    BY <1>1 DEF Down
  <2>. QED
    BY <2>1 DEF Record, At
<1>2. CASE ~w.mem[w.at][i].present
  <2> DEFINE a == TableAddress(w.next, u)
             p == alloc_page(w)
  <2>1. p = At([w.mem EXCEPT ![w.next] = EmptyTable], w.next + 1, w.at)
    <3>1. w = At(w.mem, w.next, w.at)
      BY DEF Record
    <3>. QED
      BY <3>1, Allocated
  <2>2. d = [p EXCEPT !.mem[w.at][i] = Link(a, u), !.at = a]
    BY <1>2 DEF Down
  <2> HIDE DEF p, a, d
  <2>3. d = At([p.mem EXCEPT ![w.at][i] = Link(a, u)], w.next + 1, a)
    BY <2>1, <2>2 DEF At
  <2>4. d.next = w.next + 1 /\ d.next \in Int
    BY <2>3 DEF Record, At
  <2>. QED
    BY <2>3, <2>4 DEF Record, At, d
<1>. QED
  BY <1>1, <1>2

\* alloc_page's clearing changes nothing: the frame is empty.
LEMMA DownNew ==
  ASSUME NEW w, Record(w), Tree(w.mem, w.next), w.next < TABLES_END,
         NEW i, NEW u \in BOOLEAN, ~w.mem[w.at][i].present
  PROVE  LET a == IF u THEN 0 ELSE w.next
         IN  Down(w, i, u) = At(Set(w.mem, w.at, i, Link(a, u)), w.next + 1, a)
<1> DEFINE a == TableAddress(w.next, u)
           p == alloc_page(w)
<1>1. a = IF u THEN 0 ELSE w.next
  BY DEF TableAddress, virt_to_phys_simple
<1>2. w.next \in Tables /\ w.mem[w.next] = EmptyTable
  BY Bounds DEF Tree, Tables
<1>3. [w.mem EXCEPT ![w.next] = EmptyTable] = w.mem
  <2>1. w.mem \in Memories
    BY DEF Tree
  <2>. QED
    BY <2>1, <1>2 DEF Memories
<1>4. p = At(w.mem, w.next + 1, w.at)
  <2>1. w = At(w.mem, w.next, w.at)
    BY DEF Record
  <2>. QED
    BY <2>1, <1>3, Allocated
<1>5. Down(w, i, u) = [p EXCEPT !.mem[w.at][i] = Link(a, u), !.at = a]
  BY DEF Down
<1> HIDE DEF p, a
<1>6. Down(w, i, u) = At([w.mem EXCEPT ![w.at][i] = Link(a, u)], w.next + 1, a)
  BY <1>4, <1>5 DEF At
<1>. QED
  BY <1>1, <1>6 DEF Set

LEMMA DownOld ==
  ASSUME NEW w, Record(w), NEW i, NEW u, w.mem[w.at][i].present
  PROVE  Down(w, i, u) = At(w.mem, w.next, w.mem[w.at][i].frame)
BY DEF Down, Record, At

\* A world that a mapping passes through: the kernel's pages are as they
\* were in m.
World(w, m) ==
  /\ Record(w)
  /\ KernelTree(w.mem, w.next)
  /\ Same(w.mem, m)

LEMMA DownKernel ==
  ASSUME NEW w, NEW m, World(w, m), NEW v \in KernelPages, NEW k \in 1 .. 3,
         IsTable(w.mem, v, k, w.at), Down(w, v[k], FALSE).next <= TABLES_END
  PROVE  /\ World(Down(w, v[k], FALSE), m)
         /\ IsTable(Down(w, v[k], FALSE).mem, v, k + 1, Down(w, v[k], FALSE).at)
<1> DEFINE d == Down(w, v[k], FALSE)
<1>1. Record(d) /\ Record(w) /\ Tree(w.mem, w.next) /\ w.next \in Int
  BY DownRecord DEF World, KernelTree, Record
<1>2. CASE w.mem[w.at][v[k]].present
  <2>1. d = At(w.mem, w.next, w.mem[w.at][v[k]].frame)
    BY <1>1, <1>2, DownOld
  <2> HIDE DEF d
  <2>2. d.mem = w.mem /\ d.next = w.next /\ d.at = w.mem[w.at][v[k]].frame
    BY <2>1 DEF At
  <2>3. k = 1 \/ k = 2 \/ k = 3
    OBVIOUS
  <2>7. World(d, m)
    BY <1>1, <2>2 DEF World
  <2>8. IsTable(d.mem, v, k + 1, d.at)
    <3>1. CASE k = 1
      BY <1>2, <2>2, <3>1 DEF IsTable, Has1, T1, E1
    <3>2. CASE k = 2
      BY <1>2, <2>2, <3>2 DEF IsTable, Has2, T2, T1, E2
    <3>3. CASE k = 3
      BY <1>2, <2>2, <3>3 DEF IsTable, Has3, T3, T2, E3
    <3>. QED
      BY <2>3, <3>1, <3>2, <3>3
  <2>. QED
    BY <2>7, <2>8 DEF d
<1>3. CASE ~w.mem[w.at][v[k]].present
  <2>2. w.next <= TABLES_END
    BY <1>1 DEF Tree
  <2>3. w.next # TABLES_END
    <3>1. SUFFICES ASSUME w.next = TABLES_END PROVE FALSE
      OBVIOUS
    <3>2. d.next = w.next + 1
      BY <1>1, <1>3 DEF Down, alloc_page, Record, At
    <3>3. d.next <= TABLES_END
      OBVIOUS
    <3> HIDE DEF d
    <3>. QED
      BY <3>1, <3>2, <3>3, Bounds
  <2>4. w.next < TABLES_END
    BY <1>1, <2>2, <2>3, Bounds
  <2>5. d = At(Set(w.mem, w.at, v[k], Link(w.next, FALSE)), w.next + 1, w.next)
    BY <1>1, <1>3, <2>4, DownNew
  <2> HIDE DEF d
  <2>6. /\ d.mem = Set(w.mem, w.at, v[k], Link(w.next, FALSE)) /\ d.next = w.next + 1
        /\ d.at = w.next
    BY <2>5 DEF At
  <2>7. /\ KernelTree(d.mem, d.next) /\ IsTable(d.mem, v, k + 1, d.at)
        /\ Same(d.mem, w.mem)
    <3>1. KernelTree(w.mem, w.next)
      BY DEF World
    <3>. QED
      BY <1>3, <2>4, <2>6, <3>1, LinkKernel
  <2>. QED
    BY <1>1, <2>7 DEF World, Same, d
<1>. QED
  BY <1>2, <1>3

LEMMA DownBoot ==
  ASSUME NEW w, NEW m, World(w, m), NEW i \in Indices, NEW u \in BOOLEAN,
         BootAt(w.mem, w.at, i), Written(w.at, w.next), Down(w, i, u).next <= TABLES_END
  PROVE  LET d == Down(w, i, u)
         IN  World(d, m) /\ Outside(d.mem, d.at) /\ Written(d.at, d.next)
<1> DEFINE d == Down(w, i, u)
<1>1. /\ Record(d) /\ Record(w) /\ Tree(w.mem, w.next) /\ w.next \in Int /\ w.at \in Frames
      /\ w.mem \in Memories /\ w.next \in FIRST_TABLE + 1 .. TABLES_END
  BY DownRecord DEF World, KernelTree, Record, Tree, Written
<1>2. CASE w.mem[w.at][i].present
  <2>1. d = At(w.mem, w.next, w.mem[w.at][i].frame)
    BY <1>1, <1>2, DownOld
  <2> HIDE DEF d
  <2>2. d.mem = w.mem /\ d.next = w.next /\ d.at = w.mem[w.at][i].frame
    BY <2>1 DEF At
  <2>3. Outside(d.mem, d.at) /\ Written(d.at, d.next)
    BY <1>1, <1>2, <2>2, BootBelow DEF World
  <2>. QED
    BY <1>1, <2>2, <2>3 DEF World, d
<1>3. CASE ~w.mem[w.at][i].present
  <2> DEFINE a == IF u THEN 0 ELSE w.next
             e == Link(a, u)
  <2>1. w.next # TABLES_END
    <3>1. SUFFICES ASSUME w.next = TABLES_END PROVE FALSE
      OBVIOUS
    <3>2. d.next = w.next + 1
      BY <1>1, <1>3 DEF Down, alloc_page, Record, At
    <3>. QED
      BY <3>1, <3>2, Bounds
  <2>2. w.next < TABLES_END /\ w.next + 1 \in FIRST_TABLE + 1 .. TABLES_END /\ w.next \in Frames
    BY <1>1, <2>1, Bounds DEF Tables, Frames
  <2>3. d = At(Set(w.mem, w.at, i, e), w.next + 1, a)
    BY <1>1, <1>3, <2>2, DownNew
  <2>4. d.mem = Set(w.mem, w.at, i, e) /\ d.next = w.next + 1 /\ d.at = a
    BY <2>3 DEF At
  <2>5. e \in Entry /\ e.present /\ e.frame = a /\ a \in Frames
    BY <2>2, Bounds, Entries
  <2> HIDE DEF d, e
  <2>6. Tree(d.mem, d.next)
    <3>1. CASE u
      <4>1. Tree(w.mem, w.next + 1)
        BY <1>1, <2>2, Grow
      <4>2. Written(w.at, w.next + 1)
        <5>1. w.at \in Tables => w.at < w.next /\ w.at \in Nat
          BY Bounds DEF Written
        <5>. QED
          BY <1>1, <5>1 DEF Written
      <4>3. e.frame \notin Tables
        BY <2>5, <3>1, Bounds
      <4>. QED
        BY <2>4, <2>5, <4>1, <4>2, <4>3, SetEntry
    <3>2. CASE ~u
      BY <1>1, <2>2, <2>4, <2>5, <3>2, SetLink
    <3>. QED
      BY <3>1, <3>2
  <2>7. /\ KernelTree(d.mem, d.next)
        /\ Same(d.mem, w.mem)
        /\ \A f : Outside(w.mem, f) => Outside(d.mem, f)
    BY <1>1, <2>4, <2>6, SetBoot DEF World
  <2>8. Outside(w.mem, a)
    BY NewOutside DEF World
  <2>9. Written(a, w.next + 1)
    BY <1>1, <2>5, Bounds DEF Written
  <2>. QED
    BY <1>1, <2>4, <2>7, <2>8, <2>9 DEF World, Same, d
<1>. QED
  BY <1>2, <1>3

(***************************************************************************)
(* What the operations do to the kernel's pages                            *)
(***************************************************************************)
LEMMA RootWorld ==
  ASSUME KernelTree(mem, next_free_page)
  PROVE  World(Root, mem) /\ Root.mem = mem /\ Root.next = next_free_page /\ Root.at = PML4
<1>1. Root = At(mem, next_free_page, PML4)
  BY DEF Root, At
<1>2. Root.mem = mem /\ Root.next = next_free_page /\ Root.at = PML4
  BY <1>1 DEF At
<1>3. next_free_page \in Int
  BY DEF KernelTree, Tree
<1>. QED
  BY <1>1, <1>2, <1>3 DEF World, Record, Same

LEMMA MapKernel ==
  ASSUME KernelTree(mem, next_free_page), NEW v \in KernelPages, NEW f \in KernelFrames,
         map_virtual(v, f)
  PROVE  /\ KernelTree(mem', next_free_page')
         /\ To(mem', v) = f
         /\ \A u \in KernelPages : u # v => To(mem', u) = To(mem, u)
<1> DEFINE d1 == Down(Root, v[1], FALSE)
           d2 == Down(d1, v[2], FALSE)
           d3 == Down(d2, v[3], FALSE)
<1>1. /\ d3.next <= TABLES_END
      /\ mem' = Set(d3.mem, d3.at, v[4], Link(f, FALSE))
      /\ next_free_page' = d3.next
  BY DEF map_virtual, Enter, PT, PD, Set
<1>2. World(Root, mem) /\ IsTable(Root.mem, v, 1, Root.at)
  BY RootWorld DEF IsTable
<1>3. /\ Record(Root) /\ Record(d1) /\ Record(d2) /\ Record(d3)
      /\ d1.next <= d2.next /\ d2.next <= d3.next
  BY <1>2, DownRecord DEF World
<1>4. d2.next <= TABLES_END /\ d1.next <= TABLES_END
  <2>1. d1.next \in Int /\ d2.next \in Int /\ d3.next \in Int
    BY <1>3 DEF Record
  <2> HIDE DEF d1, d2, d3
  <2>. QED
    BY <1>1, <1>3, <2>1, Bounds
<1>5. World(d1, mem) /\ IsTable(d1.mem, v, 2, d1.at)
  <2>1. 1 \in 1 .. 3 /\ 1 + 1 = 2
    OBVIOUS
  <2>. QED
    BY <1>2, <1>4, <2>1, DownKernel
<1>6. World(d2, mem) /\ IsTable(d2.mem, v, 3, d2.at)
  <2>1. 2 \in 1 .. 3 /\ 2 + 1 = 3
    OBVIOUS
  <2>. QED
    BY <1>4, <1>5, <2>1, DownKernel
<1>7. World(d3, mem) /\ IsTable(d3.mem, v, 4, d3.at)
  <2>1. 3 \in 1 .. 3 /\ 3 + 1 = 4
    OBVIOUS
  <2>. QED
    BY <1>1, <1>6, <2>1, DownKernel
<1>8. Link(f, FALSE) \in Entry /\ Link(f, FALSE).present /\ Link(f, FALSE).frame = f
  BY Bounds, Entries
<1> DEFINE e == Link(f, FALSE)
           s == Set(d3.mem, d3.at, v[4], e)
<1>9. KernelTree(d3.mem, d3.next)
  BY <1>7 DEF World
<1> HIDE DEF d1, d2, d3, e
<1>10. e \in Entry /\ e.present /\ e.frame = f
  BY <1>8 DEF e
<1>11. /\ KernelTree(s, d3.next)
       /\ To(s, v) = IF e.present THEN e.frame ELSE Unmapped
       /\ \A u \in KernelPages : u # v => To(s, u) = To(d3.mem, u)
  BY <1>7, <1>9, <1>10, SetKernel
<1>12. mem' = s
  BY <1>1 DEF e
<1> HIDE DEF s
<1>13. /\ KernelTree(mem', next_free_page')
       /\ To(mem', v) = f
       /\ \A u \in KernelPages : u # v => To(mem', u) = To(d3.mem, u)
  BY <1>1, <1>10, <1>11, <1>12
<1>. QED
  BY <1>7, <1>13 DEF World, Same

LEMMA WalkTo ==
  ASSUME KernelTree(mem, next_free_page), NEW v \in KernelPages
  PROVE  /\ Translate(v) = To(mem, v)
         /\ Mapped(v) => Has3(mem, v) /\ E4(mem, v).present /\ Walk(v)[3].frame = T3(mem, v)
         /\ get_physical_address(v) = IF Mapped(v) THEN Translate(v) ELSE 0
<1>1. /\ Walk(v)[1] = E1(mem, v) /\ Walk(v)[2] = E2(mem, v)
      /\ Walk(v)[3] = E3(mem, v) /\ Walk(v)[4] = E4(mem, v)
  BY DEF Walk, EntryAt, E1, E2, E3, E4
<1>2. OfTables(mem, v)
  BY DEF KernelTree
<1>3. (\A k \in 1 .. 4 : Walk(v)[k].present) <=>
        Walk(v)[1].present /\ Walk(v)[2].present /\ Walk(v)[3].present /\ Walk(v)[4].present
  OBVIOUS
<1>4. Translate(v) = To(mem, v)
  <2>1. CASE Has3(mem, v) /\ E4(mem, v).present
    BY <1>1, <1>2, <1>3, <2>1 DEF Translate, To, Has1, Has2, Has3, OfTables
  <2>2. CASE ~(Has3(mem, v) /\ E4(mem, v).present)
    <3>1. ~(\A k \in 1 .. 4 : Walk(v)[k].present)
      BY <1>1, <1>3, <2>2 DEF Has1, Has2, Has3
    <3>. QED
      BY <2>2, <3>1 DEF Translate, To
  <2>. QED
    BY <2>1, <2>2
<1>5. Mapped(v) <=> Has3(mem, v) /\ E4(mem, v).present
  BY <1>2, <1>4, Bounds DEF Mapped, To, OfTables
<1>6. (\E k \in 1 .. 3 : Walk(v)[k].frame = 0) <=>
        E1(mem, v).frame = 0 \/ E2(mem, v).frame = 0 \/ E3(mem, v).frame = 0
  BY <1>1
<1>7. (\E k \in 1 .. 3 : Walk(v)[k].frame = 0) <=> ~Has3(mem, v)
  <2>1. ASSUME Has3(mem, v) PROVE E1(mem, v).frame # 0 /\ E2(mem, v).frame # 0 /\ E3(mem, v).frame # 0
    BY <1>2, <2>1, Bounds DEF OfTables, Has3, Has2, T1, T2, T3
  <2>2. \A g \in Frames, i \in Indices : ~mem[g][i].present => mem[g][i].frame = 0
    BY Entries DEF KernelTree, Tree
  <2>3. /\ v[1] \in Indices /\ v[2] \in Indices /\ v[3] \in Indices /\ PML4 \in Frames
        /\ Has1(mem, v) => T1(mem, v) \in Frames
        /\ Has2(mem, v) => T2(mem, v) \in Frames
    BY <1>2, PageIndices, Bounds DEF OfTables
  <2>4. ~Has1(mem, v) => E1(mem, v).frame = 0
    BY <2>2, <2>3 DEF Has1, E1
  <2>5. Has1(mem, v) /\ ~Has2(mem, v) => E2(mem, v).frame = 0
    BY <2>2, <2>3 DEF Has2, E2, T1
  <2>6. Has2(mem, v) /\ ~Has3(mem, v) => E3(mem, v).frame = 0
    BY <2>2, <2>3 DEF Has3, E3, T2
  <2>. QED
    BY <1>6, <2>1, <2>4, <2>5, <2>6
<1>8. get_physical_address(v) = IF Mapped(v) THEN Translate(v) ELSE 0
  BY <1>1, <1>4, <1>5, <1>7 DEF get_physical_address, To
<1>9. Mapped(v) => Walk(v)[3].frame = T3(mem, v)
  BY <1>1 DEF T3
<1>. QED
  BY <1>4, <1>5, <1>8, <1>9

LEMMA UnmapKernel ==
  ASSUME KernelTree(mem, next_free_page), NEW v \in KernelPages, unmap_page(v)
  PROVE  /\ KernelTree(mem', next_free_page')
         /\ To(mem', v) = Unmapped
         /\ \A u \in KernelPages : u # v => To(mem', u) = To(mem, u)
<1>1. Mapped(v)
  BY DEF unmap_page
<1>2. Has3(mem, v) /\ Walk(v)[3].frame = T3(mem, v)
  BY <1>1, WalkTo
<1>3. mem' = Set(mem, T3(mem, v), v[4], NoEntry) /\ next_free_page' = next_free_page
  BY <1>2 DEF unmap_page, Set
<1>4. IsTable(mem, v, 4, T3(mem, v))
  BY <1>2 DEF IsTable
<1>5. NoEntry \in Entry /\ ~NoEntry.present
  BY Entries
<1>. QED
  BY <1>3, <1>4, <1>5, SetKernel

LEMMA BootKeeps ==
  ASSUME KernelTree(mem, next_free_page), boot \in 0 .. Len(BootMaps),
         map_identity \/ map_virtual_user
  PROVE  KernelTree(mem', next_free_page') /\ Same(mem', mem)
<1> DEFINE m == BootMaps[boot + 1]
<1>1. /\ m.page \in [1 .. 4 -> Indices] /\ m.frame \in BootFrames
      /\ \A v \in KernelPages : m.page[1] # v[1]
  <2>1. boot < Len(BootMaps)
    BY DEF map_identity, map_virtual_user, BootStep
  <2>2. boot + 1 \in DOMAIN BootMaps
    BY <2>1, BootAssumption
  <2>. QED
    <3>1. m \in [kind : {"identity", "user"}, page : [1 .. 4 -> Indices], frame : BootFrames]
      <4> DEFINE R == [kind : {"identity", "user"}, page : [1 .. 4 -> Indices], frame : BootFrames]
      <4>1. BootMaps \in Seq(R)
        BY BootAssumption
      <4> HIDE DEF R
      <4>2. BootMaps[boot + 1] \in R
        BY <2>2, <4>1
      <4>. QED
        BY <4>2 DEF R
    <3>2. \A v \in KernelPages : BootMaps[boot + 1].page[1] # v[1]
      BY <2>2, BootAssumption
    <3>. QED
      BY <3>1, <3>2
<1> HIDE DEF m
<1>2. m.page[1] \in Indices /\ m.page[2] \in Indices /\ m.page[3] \in Indices /\ m.page[4] \in Indices
  BY <1>1
<1>3. ASSUME NEW u \in BOOLEAN
      PROVE  LET d == PD(m.page, u)
             IN  /\ Record(d)
                 /\ d.next <= TABLES_END =>
                      World(d, mem) /\ Outside(d.mem, d.at) /\ Written(d.at, d.next)
  <2> DEFINE d1 == Down(Root, m.page[1], u)
             d2 == Down(d1, m.page[2], u)
  <2>1. World(Root, mem) /\ BootAt(Root.mem, Root.at, m.page[1]) /\ Written(Root.at, Root.next)
    BY <1>1, RootWorld, Bounds DEF BootAt, Written, KernelTree, Tree, PML4
  <2>2. Record(Root) /\ Record(d1) /\ Record(d2) /\ d1.next <= d2.next
    BY <2>1, DownRecord DEF World
  <2>3. ASSUME d2.next <= TABLES_END
        PROVE  World(d2, mem) /\ Outside(d2.mem, d2.at) /\ Written(d2.at, d2.next)
    <3>1. d1.next <= TABLES_END
      <4>1. d1.next \in Int /\ d2.next \in Int
        BY <2>2 DEF Record
      <4> HIDE DEF d1, d2
      <4>. QED
        BY <2>2, <2>3, <4>1, Bounds
    <3>2. World(d1, mem) /\ Outside(d1.mem, d1.at) /\ Written(d1.at, d1.next)
      BY <1>2, <2>1, <3>1, DownBoot
    <3>3. BootAt(d1.mem, d1.at, m.page[2])
      BY <3>2 DEF BootAt
    <3> HIDE DEF d1
    <3>. QED
      BY <1>2, <2>3, <3>2, <3>3, DownBoot
  <2>4. PD(m.page, u) = d2
    BY DEF PD
  <2> HIDE DEF d2
  <2>. QED
    BY <2>2, <2>3, <2>4
<1>4. ASSUME NEW w, NEW i \in Indices, NEW e \in Entry, e.present, e.frame \in BootFrames,
             World(w, mem), Outside(w.mem, w.at), Written(w.at, w.next), Enter(w, i, e)
      PROVE  KernelTree(mem', next_free_page') /\ Same(mem', mem)
  <2>1. mem' = Set(w.mem, w.at, i, e) /\ next_free_page' = w.next
    BY <1>4 DEF Enter, Set
  <2>2. KernelTree(w.mem, w.next) /\ BootAt(w.mem, w.at, i) /\ Tree(w.mem, w.next) /\ w.at \in Frames
    BY <1>4 DEF World, BootAt, KernelTree, Written
  <2>3. e.frame \notin Tables
    BY <1>4, Bounds
  <2>4. Tree(Set(w.mem, w.at, i, e), w.next)
    BY <1>4, <2>2, <2>3, SetEntry
  <2>5. KernelTree(mem', next_free_page') /\ Same(mem', w.mem)
    BY <2>1, <2>2, <2>4, SetBoot
  <2>. QED
    BY <1>4, <2>5 DEF World, Same
<1>5. m.frame \in Frames
  BY <1>1, Bounds
<1>6. CASE map_identity
  <2> DEFINE e == [Link(m.frame, FALSE) EXCEPT !.large = TRUE]
             w == PD(m.page, FALSE)
  <2>1. Enter(w, m.page[3], e)
    BY <1>6 DEF map_identity, m
  <2>2. e \in Entry /\ e.present /\ e.frame = m.frame
    BY <1>5 DEF Link, Entry
  <2>3. w.next <= TABLES_END
    BY <2>1 DEF Enter
  <2>4. World(w, mem) /\ Outside(w.mem, w.at) /\ Written(w.at, w.next)
    BY <1>3, <2>3
  <2> HIDE DEF e, w
  <2>. QED
    BY <1>1, <1>2, <1>4, <2>1, <2>2, <2>4
<1>7. CASE map_virtual_user
  <2> DEFINE e == Link(m.frame, TRUE)
             d == PD(m.page, TRUE)
             w == Down(d, m.page[3], TRUE)
  <2>1. Enter(w, m.page[4], e)
    BY <1>7 DEF map_virtual_user, PT, m
  <2>2. e \in Entry /\ e.present /\ e.frame = m.frame
    BY <1>5, Entries
  <2>3. w.next <= TABLES_END
    BY <2>1 DEF Enter
  <2>4. Record(d)
    BY <1>3
  <2>5. d.next <= TABLES_END
    <3>1. Record(w) /\ w.next >= d.next
      BY <2>4, DownRecord
    <3>2. w.next \in Int /\ d.next \in Int
      BY <2>4, <3>1 DEF Record
    <3> HIDE DEF w, d
    <3>. QED
      BY <2>3, <3>1, <3>2, Bounds
  <2>6. World(d, mem) /\ Outside(d.mem, d.at) /\ Written(d.at, d.next)
    BY <1>3, <2>5
  <2>7. BootAt(d.mem, d.at, m.page[3])
    BY <2>6 DEF BootAt
  <2> HIDE DEF e, d
  <2>8. World(w, mem) /\ Outside(w.mem, w.at) /\ Written(w.at, w.next)
    BY <1>2, <2>3, <2>6, <2>7, DownBoot
  <2> HIDE DEF w
  <2>. QED
    BY <1>1, <1>2, <1>4, <2>1, <2>2, <2>8
<1>. QED
  BY <1>6, <1>7

(***************************************************************************)
(* The invariant                                                           *)
(***************************************************************************)
LEMMA InitIInv == Init => IInv /\ \A v \in KernelPages : To(mem, v) = Unmapped
<1> SUFFICES ASSUME Init PROVE IInv /\ \A v \in KernelPages : To(mem, v) = Unmapped
  OBVIOUS
<1>1. mem = [f \in Frames |-> EmptyTable] /\ next_free_page = FIRST_TABLE + 1
  BY DEF Init
<1>2. \A f \in Frames, i \in Indices : mem[f][i] = NoEntry
  BY <1>1 DEF EmptyTable
<1>3. Tree(mem, next_free_page)
  BY <1>1, <1>2, Bounds, Entries DEF Tree, Memories, LinksTo
<1>4. \A v \in KernelPages : ~Has1(mem, v) /\ ~Has2(mem, v) /\ ~Has3(mem, v)
  BY <1>2, PageIndices, Bounds, Entries DEF Has1, Has2, Has3, E1
<1>5. KernelTree(mem, next_free_page)
  BY <1>3, <1>4 DEF KernelTree, OfTables
<1>6. \A v \in KernelPages : To(mem, v) = Unmapped
  BY <1>4 DEF To
<1>7. Len(BootMaps) \in Nat
  BY BootAssumption
<1>. QED
  BY <1>5, <1>6, <1>7 DEF Init, IInv

\* What a step does to the kernel's pages: nothing, or one is mapped or
\* unmapped.
LEMMA StepIInv ==
  ASSUME IInv, [Next]_vars
  PROVE  /\ IInv'
         /\ \/ Same(mem', mem)
            \/ \E v \in KernelPages :
                 /\ To(mem', v) \in KernelFrames \cup {Unmapped}
                 /\ \A u \in KernelPages : u # v => To(mem', u) = To(mem, u)
<1>1. /\ KernelTree(mem, next_free_page)
      /\ tlb \in [KernelPages -> KernelFrames \cup {Unmapped}]
      /\ boot \in 0 .. Len(BootMaps)
      /\ overwritten \subseteq KernelPages
      /\ \A v \in KernelPages : v \notin overwritten => tlb[v] \in {Unmapped, To(mem, v)}
  BY DEF IInv
<1>2. \A v \in KernelPages : Translate(v) = To(mem, v) /\ (Mapped(v) <=> To(mem, v) # Unmapped)
  BY <1>1, WalkTo DEF Mapped
<1>3. ASSUME NEW v \in KernelPages, NEW f \in KernelFrames, map_virtual(v, f)
      PROVE  /\ IInv'
             /\ To(mem', v) \in KernelFrames \cup {Unmapped}
             /\ \A u \in KernelPages : u # v => To(mem', u) = To(mem, u)
  <2>1. /\ KernelTree(mem', next_free_page')
        /\ To(mem', v) = f
        /\ \A u \in KernelPages : u # v => To(mem', u) = To(mem, u)
    BY <1>1, <1>3, MapKernel
  <2>2. /\ tlb' = tlb /\ boot' = boot
        /\ overwritten' = IF Mapped(v) THEN overwritten \cup {v} ELSE overwritten
    BY <1>3 DEF map_virtual
  <2>3. ASSUME NEW u \in KernelPages, u \notin overwritten'
        PROVE  tlb'[u] \in {Unmapped, To(mem', u)}
    BY <1>1, <1>2, <2>1, <2>2, <2>3
  <2>4. overwritten' \subseteq KernelPages
    BY <1>1, <2>2
  <2>. QED
    BY <1>1, <2>1, <2>2, <2>3, <2>4 DEF IInv
<1>4. ASSUME NEW v \in KernelPages, unmap_page(v)
      PROVE  /\ IInv'
             /\ To(mem', v) \in KernelFrames \cup {Unmapped}
             /\ \A u \in KernelPages : u # v => To(mem', u) = To(mem, u)
  <2>1. /\ KernelTree(mem', next_free_page')
        /\ To(mem', v) = Unmapped
        /\ \A u \in KernelPages : u # v => To(mem', u) = To(mem, u)
    BY <1>1, <1>4, UnmapKernel
  <2>2. /\ tlb' = [tlb EXCEPT ![v] = Unmapped] /\ boot' = boot
        /\ overwritten' = overwritten \ {v}
    BY <1>4 DEF unmap_page
  <2>3. ASSUME NEW u \in KernelPages, u \notin overwritten'
        PROVE  tlb'[u] \in {Unmapped, To(mem', u)}
    BY <1>1, <2>1, <2>2, <2>3
  <2>. QED
    BY <1>1, <2>1, <2>2, <2>3 DEF IInv
<1>5. ASSUME NEW v \in KernelPages, Access(v)
      PROVE  IInv' /\ Same(mem', mem)
  <2>1. mem' = mem /\ next_free_page' = next_free_page /\ boot' = boot /\ overwritten' = overwritten
    BY <1>5 DEF Access
  <2>2. tlb' = [tlb EXCEPT ![v] = To(mem, v)]
    BY <1>2, <1>5 DEF Access
  <2>3. To(mem, v) \in KernelFrames \cup {Unmapped}
    BY <1>1 DEF KernelTree, OfTables, To
  <2>. QED
    BY <1>1, <2>1, <2>2, <2>3 DEF IInv, Same
<1>6. ASSUME map_identity \/ map_virtual_user
      PROVE  IInv' /\ Same(mem', mem)
  <2>1. KernelTree(mem', next_free_page') /\ Same(mem', mem)
    BY <1>1, <1>6, BootKeeps
  <2>2. tlb' = tlb /\ boot' = boot + 1 /\ overwritten' = overwritten /\ boot < Len(BootMaps)
    BY <1>6 DEF map_identity, map_virtual_user, BootStep
  <2>3. boot' \in 0 .. Len(BootMaps)
    BY <1>1, <2>2, BootAssumption
  <2>. QED
    BY <1>1, <2>1, <2>2, <2>3 DEF IInv, Same
<1>7. ASSUME UNCHANGED vars PROVE IInv' /\ Same(mem', mem)
  BY <1>1, <1>7 DEF vars, IInv, Same
<1>. QED
  BY <1>3, <1>4, <1>5, <1>6, <1>7 DEF Next

LEMMA IInvOneParent == IInv => OneParent
<1> SUFFICES ASSUME IInv PROVE OneParent
  OBVIOUS
<1>1. Tree(mem, next_free_page)
  BY DEF IInv, KernelTree
<1>2. TypeOK
  BY <1>1 DEF IInv, Tree, Memories, TypeOK
<1> DEFINE links == {p \in Frames \X Indices :
                       mem[p[1]][p[2]].present /\ mem[p[1]][p[2]].frame \in Tables}
<1>3. ASSUME NEW p \in links, NEW q \in links, mem[p[1]][p[2]].frame = mem[q[1]][q[2]].frame
      PROVE  p = q
  <2> DEFINE t == mem[p[1]][p[2]].frame
  <2>1. /\ p[1] \in Frames /\ p[2] \in Indices /\ q[1] \in Frames /\ q[2] \in Indices
        /\ t \in Tables /\ p = <<p[1], p[2]>> /\ q = <<q[1], q[2]>>
    OBVIOUS
  <2>2. LinksTo(mem, p[1], p[2], t) /\ LinksTo(mem, q[1], q[2], t)
    BY <1>3 DEF LinksTo
  <2> HIDE DEF t, links
  <2>3. p[1] = q[1] /\ p[2] = q[2]
    BY <1>1, <2>1, <2>2 DEF Tree
  <2>. QED
    BY <2>1, <2>3
<1>. QED
  BY <1>2, <1>3 DEF OneParent

LEMMA IInvAgree == IInv => TranslationsAgree
<1> SUFFICES ASSUME IInv, NEW v \in KernelPages
             PROVE  /\ get_physical_address(v) = IF Mapped(v) THEN Translate(v) ELSE 0
                    /\ v \notin overwritten => tlb[v] \in {Unmapped, Translate(v)}
  BY DEF TranslationsAgree
<1>1. KernelTree(mem, next_free_page)
  BY DEF IInv
<1>2. Translate(v) = To(mem, v) /\ get_physical_address(v) = IF Mapped(v) THEN Translate(v) ELSE 0
  BY <1>1, WalkTo
<1>. QED
  BY <1>2 DEF IInv

(***************************************************************************)
(* The theorems                                                            *)
(***************************************************************************)
\* The invariant holds in every reachable state.
THEOREM Invariance == Spec => []IInv
<1>1. IInv /\ [Next]_vars => IInv'
  BY StepIInv
<1>. QED
  BY InitIInv, <1>1, PTL DEF Spec

\* No table hangs under two entries or is mapped by a page, however long
\* the kernel maps and unmaps and wherever the boot puts its pages.
THEOREM TablesAreATree == Spec => []OneParent
BY Invariance, IInvOneParent, PTL

\* get_physical_address is the processor's walk, and the processor keeps no
\* stale translation of a page that is not mapped twice.
THEOREM WalksAgree == Spec => []TranslationsAgree
BY Invariance, IInvAgree, PTL

\* The kernel's pages are a map: map_virtual and unmap_page change it at
\* the page they are given, the boot's mappings not at all.
THEOREM KernelPagesAreAMap == Spec => ImplementsAddressSpace
<1> DEFINE Map == [v \in KernelPages |-> Translate(v)]
<1>1. IInv => Map = [v \in KernelPages |-> To(mem, v)]
  BY WalkTo DEF IInv
<1>2. ASSUME IInv' PROVE Map' = [v \in KernelPages |-> To(mem', v)]
  <2>1. ASSUME NEW v \in KernelPages PROVE Translate(v)' = To(mem', v)
    <3>1. OfTables(mem', v)
      BY <1>2 DEF IInv, KernelTree
    <3>2. /\ Walk(v)'[1] = E1(mem', v) /\ Walk(v)'[2] = E2(mem', v)
          /\ Walk(v)'[3] = E3(mem', v) /\ Walk(v)'[4] = E4(mem', v)
      BY DEF Walk, EntryAt, E1, E2, E3, E4
    <3>3. (\A k \in 1 .. 4 : Walk(v)'[k].present) <=>
            Walk(v)'[1].present /\ Walk(v)'[2].present /\ Walk(v)'[3].present /\ Walk(v)'[4].present
      OBVIOUS
    <3>4. Translate(v)' = IF (\A k \in 1 .. 4 : Walk(v)'[k].present) /\ ~Walk(v)'[3].large
                          THEN Walk(v)'[4].frame ELSE Unmapped
      BY DEF Translate
    <3>5. CASE Has3(mem', v) /\ E4(mem', v).present
      BY <3>1, <3>2, <3>3, <3>4, <3>5 DEF To, Has1, Has2, Has3, OfTables
    <3>6. CASE ~(Has3(mem', v) /\ E4(mem', v).present)
      <4>1. ~(\A k \in 1 .. 4 : Walk(v)'[k].present)
        BY <3>2, <3>3, <3>6 DEF Has1, Has2, Has3
      <4>. QED
        BY <3>4, <3>6, <4>1 DEF To
    <3>. QED
      BY <3>5, <3>6
  <2>. QED
    BY <2>1
<1>3. Init => KernelSpace!Init
  <2>1. Init => Map = [v \in KernelPages |-> Unmapped]
    BY <1>1, InitIInv
  <2>. QED
    BY <2>1 DEF KernelSpace!Init
<1>4. ASSUME IInv, [Next]_vars PROVE [KernelSpace!Next]_Map
  <2>1. Map = [v \in KernelPages |-> To(mem, v)] /\ Map' = [v \in KernelPages |-> To(mem', v)]
    BY <1>1, <1>2, <1>4, StepIInv
  <2> HIDE DEF Map
  <2>2. CASE Same(mem', mem)
    <3>1. Map' = Map
      BY <2>1, <2>2 DEF Same
    <3>. QED
      BY <3>1
  <2>3. CASE \E v \in KernelPages :
               /\ To(mem', v) \in KernelFrames \cup {Unmapped}
               /\ \A u \in KernelPages : u # v => To(mem', u) = To(mem, u)
    <3>1. PICK v \in KernelPages :
            /\ To(mem', v) \in KernelFrames \cup {Unmapped}
            /\ \A u \in KernelPages : u # v => To(mem', u) = To(mem, u)
      BY <2>3
    <3>2. Map' = [Map EXCEPT ![v] = Map'[v]] /\ Map'[v] \in KernelFrames \cup {Unmapped}
      BY <2>1, <3>1
    <3>3. (Map'[v] \in KernelFrames /\ Map' = [Map EXCEPT ![v] = Map'[v]])
          \/ (Map'[v] = Unmapped /\ Map' = [Map EXCEPT ![v] = Map'[v]])
      BY <3>2
    <3>. QED
      BY <3>3 DEF Map, KernelSpace!Next, KernelSpace!Map, KernelSpace!Unmap, KernelSpace!Others
  <2>. QED
    BY <1>4, <2>2, <2>3, StepIInv
<1>. QED
  BY Invariance, <1>3, <1>4, PTL DEF Spec, ImplementsAddressSpace, KernelSpace!Spec
=============================================================================
