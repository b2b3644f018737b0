---------------------------- MODULE PagingProofs ----------------------------
(***************************************************************************)
(* What the operations on page tables do, for any number of directories,   *)
(* any size of tables and any layout of memory.                            *)
(***************************************************************************)
EXTENDS Paging, WellFoundedInduction, TLAPS

-----------------------------------------------------------------------------
(* Pages and their places in directory and table.                          *)

(* Quotient and remainder, as the solver needs them. *)
LEMMA DivMod ==
    ASSUME NEW N \in Int, N > 0, NEW x \in Int
    PROVE  /\ x \div N \in Int /\ x % N \in Int /\ 0 <= x % N /\ x % N < N
           /\ x = (x \div N) * N + (x % N)
<1>1. x \div N \in Int /\ x % N \in Int
  OBVIOUS
<1>2. 0 <= x % N /\ x % N < N
  OBVIOUS
<1>3. x = (x \div N) * N + (x % N)
  OBVIOUS
<1> QED
  BY <1>1, <1>2, <1>3

(* The quotient of a smaller number is not greater. *)
LEMMA DivMonotone ==
    ASSUME NEW N \in Int, N > 0, NEW x \in Int, NEW y \in Int, x <= y
    PROVE  x \div N <= y \div N
<1>1. PICK q \in Int, r \in Int : /\ q = x \div N /\ 0 <= r /\ r < N
                                  /\ x = q * N + r
  BY DivMod
<1>2. PICK k \in Int, s \in Int : /\ k = y \div N /\ 0 <= s /\ s < N
                                  /\ y = k * N + s
  BY DivMod
<1>3. ASSUME NEW d \in Int, d <= -1 PROVE d * N <= 0 - N
  BY <1>3
<1>4. (k - q) * N = k * N - q * N /\ k - q \in Int
  OBVIOUS
<1>5. ~(k - q <= -1)
  <2> SUFFICES ASSUME k - q <= -1 PROVE FALSE
    OBVIOUS
  <2>1. (k - q) * N <= 0 - N
    BY <1>3, <1>4
  <2>2. (k - q) * N \in Int /\ k * N \in Int /\ q * N \in Int
    OBVIOUS
  <2> QED
    BY <1>1, <1>2, <1>4, <2>1, <2>2
<1> QED
  BY <1>1, <1>2, <1>5

DirOf(page) == page \div TABLE_ENTRIES
SlotOf(page) == page % TABLE_ENTRIES

(* A page has its place in a directory and in a table. *)
LEMMA PageParts ==
    ASSUME NEW page \in Pages
    PROVE  DirOf(page) \in DirIndex /\ SlotOf(page) \in TableIndex
<1>1. /\ TABLE_ENTRIES \in Int /\ TABLE_ENTRIES > 0 /\ DIR_ENTRIES \in Int /\ DIR_ENTRIES > 0
      /\ page \in Int /\ 0 <= page /\ page <= DIR_ENTRIES * TABLE_ENTRIES - 1
      /\ DIR_ENTRIES * TABLE_ENTRIES \in Int
  BY PagingConstants DEF Pages
<1>2. PICK q \in Int, r \in Int : /\ q = page \div TABLE_ENTRIES /\ r = page % TABLE_ENTRIES
                                  /\ 0 <= r /\ r < TABLE_ENTRIES
                                  /\ page = q * TABLE_ENTRIES + r
  BY <1>1, DivMod
<1>3. ASSUME NEW d \in Int, d <= -1 PROVE d * TABLE_ENTRIES <= 0 - TABLE_ENTRIES
  BY <1>1, <1>3
<1>4. 0 <= q
  <2> SUFFICES ASSUME q <= -1 PROVE FALSE
    OBVIOUS
  <2>1. q * TABLE_ENTRIES <= 0 - TABLE_ENTRIES /\ q * TABLE_ENTRIES \in Int
    BY <1>1, <1>3
  <2> QED
    BY <1>1, <1>2, <2>1
<1>5. q < DIR_ENTRIES
  <2> SUFFICES ASSUME q >= DIR_ENTRIES PROVE FALSE
    BY <1>1
  <2>1. ASSUME NEW d \in Int, d >= 0 PROVE d * TABLE_ENTRIES >= 0
    BY <1>1, <2>1
  <2>2. q - DIR_ENTRIES \in Int /\ q - DIR_ENTRIES >= 0
    BY <1>1
  <2>3. (q - DIR_ENTRIES) * TABLE_ENTRIES >= 0
    BY <2>1, <2>2
  <2>4. (q - DIR_ENTRIES) * TABLE_ENTRIES = q * TABLE_ENTRIES - DIR_ENTRIES * TABLE_ENTRIES
    BY <1>1
  <2>5. q * TABLE_ENTRIES \in Int
    BY <1>1
  <2> QED
    BY <1>1, <1>2, <2>3, <2>4, <2>5
<1> QED
  BY <1>1, <1>2, <1>4, <1>5 DEF DirOf, SlotOf, DirIndex, TableIndex

(* No two pages have the same place. *)
LEMMA PageUnique ==
    ASSUME NEW a \in Pages, NEW b \in Pages, DirOf(a) = DirOf(b), SlotOf(a) = SlotOf(b)
    PROVE  a = b
<1>1. TABLE_ENTRIES \in Int /\ TABLE_ENTRIES > 0 /\ a \in Int /\ b \in Int
  BY PagingConstants DEF Pages
<1>2. a = DirOf(a) * TABLE_ENTRIES + SlotOf(a) /\ b = DirOf(b) * TABLE_ENTRIES + SlotOf(b)
  BY <1>1, DivMod DEF DirOf, SlotOf
<1> QED
  BY <1>2

-----------------------------------------------------------------------------
(* The operations, part by part.                                           *)

(* A record of directories, tables, the next free page and lost. *)
IsMem(m) == m = [dir |-> m.dir, table |-> m.table, free |-> m.free, lost |-> m.lost]

(* n is m with entry k of table t set to e. *)
IsPut(m, n, t, k, e) ==
    /\ IsMem(n) /\ n.dir = m.dir /\ n.free = m.free /\ n.lost = m.lost
    /\ n.table = [m.table EXCEPT ![t] = [m.table[t] EXCEPT ![k] = e]]

(* Put changes one entry of one table. *)
LEMMA PutParts ==
    ASSUME NEW m, IsMem(m), NEW t, NEW k, NEW frame, NEW user
    PROVE  IsPut(m, Put(m, t, k, frame, user), t, k, [address |-> frame, user |-> user])
  BY DEF IsMem, IsPut, Put

(* A translation goes through the directory, then through a table. *)
LEMMA LookupParts ==
    ASSUME NEW m, NEW d, NEW page
    PROVE  /\ m.dir[d][DirOf(page)] = NONE => Lookup(m, d, page) = NONE
           /\ m.dir[d][DirOf(page)] # NONE =>
                Lookup(m, d, page) = m.table[m.dir[d][DirOf(page)].address][SlotOf(page)]
  BY DEF Lookup, DirOf, SlotOf

(* What an access to a frame can do: nothing, a new entry, or no end. *)
LEMMA TouchedParts ==
    ASSUME NEW m, IsMem(m), NEW frame, NEW e, e = m.dir[kernel_dir][DirOf(frame)],
           NEW x, x = [address |-> frame, user |-> FALSE]
    PROVE  \/ Touched(m, frame) = m
           \/ /\ is_paging_enabled /\ e # NONE /\ Lookup(m, kernel_dir, frame) = NONE
              /\ IsPut(m, Touched(m, frame), e.address, SlotOf(frame), x)
           \/ /\ is_paging_enabled /\ Lookup(m, cr3, frame) = NONE
              /\ IsMem(Touched(m, frame)) /\ Touched(m, frame).dir = m.dir
              /\ Touched(m, frame).table = m.table /\ Touched(m, frame).free = m.free
              /\ Touched(m, frame).lost = TRUE
<1>1. CASE ~is_paging_enabled \/ Lookup(m, cr3, frame) # NONE
  BY <1>1 DEF Touched
<1>2. CASE is_paging_enabled /\ Lookup(m, cr3, frame) = NONE /\ cr3 = kernel_dir /\ e # NONE
  <2>1. Touched(m, frame) = Put(m, e.address, SlotOf(frame), frame, FALSE)
    BY <1>2 DEF Touched, DirOf, SlotOf
  <2>2. IsPut(m, Touched(m, frame), e.address, SlotOf(frame), x)
    BY <2>1, PutParts
  <2> QED
    BY <1>2, <2>2
<1>3. CASE is_paging_enabled /\ Lookup(m, cr3, frame) = NONE /\ ~(cr3 = kernel_dir /\ e # NONE)
  <2>1. Touched(m, frame) = [m EXCEPT !.lost = TRUE]
    BY <1>3 DEF Touched, DirOf, SlotOf
  <2> QED
    BY <1>3, <2>1 DEF IsMem
<1> QED
  BY <1>1, <1>2, <1>3

-----------------------------------------------------------------------------
(* What they preserve.                                                     *)
Frames(m) == FREE_FIRST .. m.free - 1

(* Nothing that was mapped is unmapped. *)
Grown(m, n) ==
    /\ n.free \in Int /\ m.free <= n.free
    /\ \A d \in Dirs, i \in DirIndex : m.dir[d][i] # NONE => n.dir[d][i] = m.dir[d][i]
    /\ \A t \in Frames(m), k \in TableIndex : m.table[t][k] # NONE => n.table[t][k] # NONE

KernelTable(m, t) == \E i \in DirIndex : /\ m.dir[kernel_dir][i] # NONE
                                         /\ m.dir[kernel_dir][i].address = t

(* No tables but the kernel's, and those in T, have changed. *)
Only(m, n, T) == \A t \in Frames(m) : n.table[t] = m.table[t] \/ KernelTable(m, t) \/ t \in T

(* The numbers of frames that are used throughout. *)
LEMMA FreeIsInt ==
    ASSUME NEW m, Sound(m)
    PROVE  /\ m.free \in Int /\ FREE_FIRST \in Int /\ FREE_LAST \in Int /\ KERNEL_FIRST \in Int
           /\ KERNEL_FIRST <= FREE_FIRST /\ FREE_FIRST <= m.free /\ 0 <= KERNEL_FIRST
           /\ m.free \in Pages /\ \A t \in Frames(m) : t \in Pages
  BY PagingConstants DEF Sound, Pages, Frames

(* An entry that is present differs from one that is not. *)
LEMMA EntryFacts ==
    ASSUME NEW frame \in Pages, NEW user \in BOOLEAN,
           NEW x, x = [address |-> frame, user |-> user]
    PROVE  x \in Entry /\ x # NONE /\ x.address = frame
  BY PagingConstants DEF Entry

(* The table of an entry is a frame alloc_page has handed out. *)
LEMMA EntryTable ==
    ASSUME NEW m, Sound(m), NEW d \in Dirs, NEW i \in DirIndex, m.dir[d][i] # NONE
    PROVE  m.dir[d][i].address \in Frames(m)
  BY DEF Sound, TablesOwned, Frames

(* An entry of a table is set. *)
PutResult(m, n, t, k, e) ==
    /\ Sound(n) /\ Grown(m, n) /\ n.table[t][k] = e
    /\ \A u \in Frames(m) : u # t => n.table[u] = m.table[u]
    /\ \A l \in TableIndex : l # k => n.table[t][l] = m.table[t][l]

(* Setting an entry keeps the tables sound and the others as they are. *)
LEMMA PutSound ==
    ASSUME NEW m, Sound(m), NEW n, NEW t \in Frames(m), NEW k \in TableIndex,
           NEW e \in Entry, e # NONE, IsPut(m, n, t, k, e)
    PROVE  PutResult(m, n, t, k, e)
<1>1. /\ n.dir = m.dir /\ n.free = m.free /\ n.lost = m.lost
      /\ n.table = [m.table EXCEPT ![t] = [m.table[t] EXCEPT ![k] = e]]
  BY DEF IsPut
<1>2. m.table \in [Frames(m) -> [TableIndex -> Entry]]
  BY DEF Sound, Frames
<1>3. m.table[t] \in [TableIndex -> Entry]
  BY <1>2
<1>4. n.table \in [Frames(m) -> [TableIndex -> Entry]]
  BY <1>1, <1>2, <1>3
<1>5. n.table[t] = [m.table[t] EXCEPT ![k] = e]
  BY <1>1, <1>2
<1>6. \A u \in Frames(m) : u # t => n.table[u] = m.table[u]
  BY <1>1, <1>2
<1>7. n.table[t][k] = e /\ \A l \in TableIndex : l # k => n.table[t][l] = m.table[t][l]
  BY <1>3, <1>5
<1>8. Sound(n)
  BY <1>1, <1>4 DEF Sound, TablesOwned, Frames
<1>9. Grown(m, n)
  <2>1. m.free \in Int
    BY FreeIsInt
  <2>2. \A u \in Frames(m), l \in TableIndex : m.table[u][l] # NONE => n.table[u][l] # NONE
    BY <1>6, <1>7
  <2> QED
    BY <1>1, <2>1, <2>2 DEF Grown
<1> QED
  BY <1>6, <1>7, <1>8, <1>9 DEF PutResult

(* A frame is touched. *)
Reach(m) == is_paging_enabled => MapsKernel(m, cr3)

(* An access changes no directory, and of the tables only the kernel's. *)
LEMMA TouchedSound ==
    ASSUME NEW m, IsMem(m), Sound(m), NEW frame \in Pages, NEW n, n = Touched(m, frame)
    PROVE  /\ IsMem(n) /\ Sound(n) /\ Grown(m, n) /\ Only(m, n, {})
           /\ n.dir = m.dir /\ n.free = m.free
           /\ frame \in KernelPages /\ Reach(m) => n.lost = m.lost
<1>1. PICK e : e = m.dir[kernel_dir][DirOf(frame)]
  OBVIOUS
<1>2. PICK x : x = [address |-> frame, user |-> FALSE]
  OBVIOUS
<1>3. DirOf(frame) \in DirIndex /\ SlotOf(frame) \in TableIndex /\ kernel_dir \in Dirs
  BY PageParts DEF Dirs
<1>4. m.free \in Int
  BY FreeIsInt
<1>5. CASE n = m
  BY <1>4, <1>5 DEF Grown, Only
<1>6. CASE /\ is_paging_enabled /\ e # NONE /\ Lookup(m, kernel_dir, frame) = NONE
           /\ IsPut(m, n, e.address, SlotOf(frame), x)
  <2>1. e.address \in Frames(m) /\ KernelTable(m, e.address)
    BY <1>1, <1>3, <1>6, EntryTable DEF KernelTable
  <2>2. x \in Entry /\ x # NONE
    BY <1>2, EntryFacts
  <2>3. /\ Sound(n) /\ Grown(m, n)
        /\ \A u \in Frames(m) : u # e.address => n.table[u] = m.table[u]
    <3>1. PutResult(m, n, e.address, SlotOf(frame), x)
      BY <1>3, <1>6, <2>1, <2>2, PutSound
    <3> QED
      BY <3>1 DEF PutResult
  <2>4. Only(m, n, {})
    BY <2>1, <2>3 DEF Only
  <2> QED
    BY <1>6, <2>3, <2>4 DEF IsPut
<1>7. CASE /\ is_paging_enabled /\ Lookup(m, cr3, frame) = NONE
           /\ IsMem(n) /\ n.dir = m.dir /\ n.table = m.table /\ n.free = m.free
           /\ n.lost = TRUE
  <2>1. Sound(n)
    <3>1. n.lost \in BOOLEAN
      BY <1>7
    <3>2. TablesOwned(n)
      BY <1>7 DEF Sound, TablesOwned
    <3> QED
      BY <1>7, <3>1, <3>2 DEF Sound
  <2>2. Grown(m, n) /\ Only(m, n, {})
    BY <1>4, <1>7 DEF Grown, Only
  <2>3. frame \in KernelPages => ~Reach(m)
    BY <1>7 DEF Reach, MapsKernel
  <2> QED
    BY <1>7, <2>1, <2>2, <2>3
<1> QED
  BY <1>1, <1>2, <1>5, <1>6, <1>7, TouchedParts

(* A frame is allocated. *)
LostLate(m, n) == n.lost => m.lost \/ n.free > FREE_LAST + 1

AllocResult(m, a) ==
    /\ IsMem(a) /\ Sound(a) /\ Grown(m, a) /\ Only(m, a, {})
    /\ a.dir = m.dir /\ a.free = m.free + 1 /\ m.free \in Frames(a)
    /\ a.table[m.free] = Empty(TableIndex)
    /\ Reach(m) => LostLate(m, a)

(* alloc_page is an access to the next frame, which becomes an empty table. *)
LEMMA AllocParts ==
    ASSUME NEW m, NEW c, c = Touched(m, m.free), IsMem(c), c.free = m.free
    PROVE  /\ IsMem(alloc_page(m)) /\ alloc_page(m).dir = c.dir /\ alloc_page(m).lost = c.lost
           /\ alloc_page(m).free = m.free + 1
           /\ alloc_page(m).table = With(c.table, m.free, Empty(TableIndex))
<1>1. PICK w : w = With(c.table, m.free, Empty(TableIndex))
  OBVIOUS
<1>2. alloc_page(m) = [c EXCEPT !.free = c.free + 1, !.table = w]
  BY <1>1 DEF alloc_page
<1>3. alloc_page(m) = [dir |-> c.dir, table |-> w, free |-> c.free + 1, lost |-> c.lost]
  BY <1>2 DEF IsMem
<1> QED
  BY <1>1, <1>3 DEF IsMem

(* The frame is new; what was mapped stays mapped. *)
LEMMA AllocSound ==
    ASSUME NEW m, IsMem(m), Sound(m), NEW a, a = alloc_page(m), a.free \in Pages
    PROVE  AllocResult(m, a)
<1>1. /\ m.free \in Int /\ FREE_FIRST \in Int /\ FREE_LAST \in Int /\ KERNEL_FIRST \in Int
      /\ KERNEL_FIRST <= FREE_FIRST /\ FREE_FIRST <= m.free /\ m.free \in Pages
  BY FreeIsInt
<1>2. PICK c : c = Touched(m, m.free)
  OBVIOUS
<1>3. /\ IsMem(c) /\ Sound(c) /\ Grown(m, c) /\ Only(m, c, {})
      /\ c.dir = m.dir /\ c.free = m.free
      /\ m.free \in KernelPages /\ Reach(m) => c.lost = m.lost
  BY <1>1, <1>2, TouchedSound
<1>4. /\ IsMem(a) /\ a.dir = m.dir /\ a.lost = c.lost /\ a.free = m.free + 1
      /\ a.table = With(c.table, m.free, Empty(TableIndex))
  BY <1>2, <1>3, AllocParts
<1>5. /\ Frames(a) = Frames(m) \cup {m.free} /\ m.free \notin Frames(m)
      /\ Frames(c) = Frames(m)
  BY <1>1, <1>3, <1>4 DEF Frames
<1>6. c.table \in [Frames(m) -> [TableIndex -> Entry]]
  BY <1>3, <1>5 DEF Sound, Frames
<1>7. a.table = [t \in Frames(a) |-> IF t = m.free THEN Empty(TableIndex) ELSE c.table[t]]
  BY <1>4, <1>5, <1>6 DEF With
<1>8. a.table[m.free] = Empty(TableIndex) /\ \A t \in Frames(m) : a.table[t] = c.table[t]
  BY <1>5, <1>7
<1>9. Empty(TableIndex) \in [TableIndex -> Entry]
  BY DEF Empty, Entry
<1>10. a.table \in [Frames(a) -> [TableIndex -> Entry]]
  BY <1>5, <1>6, <1>7, <1>9
<1>11. TablesOwned(a)
  <2>1. \A d \in Dirs, i \in DirIndex : m.dir[d][i] # NONE => m.dir[d][i].address \in Frames(a)
    BY <1>5, EntryTable
  <2> QED
    BY <1>4, <2>1 DEF Sound, TablesOwned, Frames
<1>12. Sound(a)
  BY <1>1, <1>3, <1>4, <1>10, <1>11 DEF Sound, Frames
<1>13. Grown(m, a)
  BY <1>1, <1>3, <1>4, <1>8 DEF Grown
<1>14. Only(m, a, {})
  BY <1>3, <1>8 DEF Only
<1>15. ASSUME Reach(m), a.lost, ~m.lost PROVE a.free > FREE_LAST + 1
  <2>1. m.free \notin KernelPages
    BY <1>3, <1>4, <1>15
  <2> QED
    BY <1>1, <1>4, <2>1 DEF KernelPages
<1> QED
  BY <1>4, <1>5, <1>8, <1>12, <1>13, <1>14, <1>15 DEF AllocResult, LostLate

(* What is mapped stays mapped. *)
LEMMA GrownLookup ==
    ASSUME NEW m, Sound(m), NEW n, Grown(m, n), NEW d \in Dirs, NEW page \in Pages,
           Lookup(m, d, page) # NONE
    PROVE  Lookup(n, d, page) # NONE
<1>1. DirOf(page) \in DirIndex /\ SlotOf(page) \in TableIndex
  BY PageParts
<1>2. m.dir[d][DirOf(page)] # NONE
  BY LookupParts
<1>3. n.dir[d][DirOf(page)] = m.dir[d][DirOf(page)]
  BY <1>1, <1>2 DEF Grown
<1>4. m.dir[d][DirOf(page)].address \in Frames(m)
  BY <1>1, <1>2, EntryTable
<1>5. m.table[m.dir[d][DirOf(page)].address][SlotOf(page)] # NONE
  BY <1>2, LookupParts
<1>6. n.table[m.dir[d][DirOf(page)].address][SlotOf(page)] # NONE
  BY <1>1, <1>4, <1>5 DEF Grown
<1> QED
  BY <1>2, <1>3, <1>6, LookupParts

(* The kernel's pages are pages. *)
LEMMA KernelIsPages == \A page \in KernelPages : page \in Pages
  BY PagingConstants DEF KernelPages, Pages

(* The kernel's pages stay mapped. *)
LEMMA GrownMaps ==
    ASSUME NEW m, Sound(m), NEW n, Grown(m, n), NEW d \in Dirs, MapsKernel(m, d)
    PROVE  MapsKernel(n, d)
  BY GrownLookup, KernelIsPages DEF MapsKernel

(* Call after call, what is mapped stays mapped. *)
LEMMA GrownTransitive ==
    ASSUME NEW m, Sound(m), NEW n, NEW o, Grown(m, n), Grown(n, o)
    PROVE  Grown(m, o)
<1>1. m.free \in Int /\ n.free \in Int /\ o.free \in Int /\ m.free <= n.free /\ n.free <= o.free
  BY FreeIsInt DEF Grown
<1>2. Frames(m) \subseteq Frames(n)
  BY <1>1, FreeIsInt DEF Frames
<1>3. \A d \in Dirs, i \in DirIndex : m.dir[d][i] # NONE => o.dir[d][i] = m.dir[d][i]
  BY DEF Grown
<1>4. \A t \in Frames(m), k \in TableIndex : m.table[t][k] # NONE => o.table[t][k] # NONE
  BY <1>2 DEF Grown
<1> QED
  BY <1>1, <1>3, <1>4 DEF Grown

-----------------------------------------------------------------------------
(* A page is mapped.                                                       *)

(* Entry i of directory c is not the kernel's as well. *)
Private(m, c, i) == m.dir[c][i] = NONE \/ m.dir[c][i] # m.dir[kernel_dir][i]

(* The table of a private entry is not one of the kernel's directory. *)
LEMMA PrivateTable ==
    ASSUME NEW m, Sound(m), NEW c \in Procs, NEW i \in DirIndex,
           Private(m, c, i), m.dir[c][i] # NONE
    PROVE  ~KernelTable(m, m.dir[c][i].address)
<1> SUFFICES ASSUME NEW j \in DirIndex, m.dir[kernel_dir][j] # NONE,
                    m.dir[kernel_dir][j].address = m.dir[c][i].address
             PROVE  FALSE
  BY DEF KernelTable
<1>1. c \in Dirs /\ kernel_dir \in Dirs
  BY DEF Dirs
<1>2. TablesOwned(m)
  BY DEF Sound
<1>3. i = j /\ m.dir[c][i] = m.dir[kernel_dir][j]
  BY <1>1, <1>2 DEF TablesOwned
<1> QED
  BY <1>3 DEF Private

(* A table has one place, and one owner besides the kernel. *)
LEMMA OneOwner ==
    ASSUME NEW m, Sound(m), NEW c \in Dirs, NEW d \in Dirs, NEW i \in DirIndex, NEW j \in DirIndex,
           m.dir[c][i] # NONE, m.dir[d][j] # NONE, m.dir[c][i].address = m.dir[d][j].address
    PROVE  i = j /\ m.dir[c][i] = m.dir[d][j] /\ (c = d \/ c = kernel_dir \/ d = kernel_dir)
<1>1. TablesOwned(m)
  BY DEF Sound
<1> QED
  BY <1>1 DEF TablesOwned

(* Directory d has table t in its entry i: its own, or a new one. *)
Made(m, n, d, i, t) ==
    /\ IsMem(n) /\ Sound(n) /\ Grown(m, n) /\ Only(m, n, {})
    /\ n.dir[d][i] # NONE /\ n.dir[d][i].address = t /\ t \in Frames(n)
    /\ \A c \in Dirs, j \in DirIndex : c # d \/ j # i => n.dir[c][j] = m.dir[c][j]
    /\ \A c \in Procs, j \in DirIndex : Private(m, c, j) => Private(n, c, j)
    /\ m.dir[d][i] # NONE => n = m
    /\ m.dir[d][i] = NONE => t \notin Frames(m) /\ n.table[t] = Empty(TableIndex)
    /\ Reach(m) => LostLate(m, n)

(* The table is there already. *)
LEMMA MadeBefore ==
    ASSUME NEW m, IsMem(m), Sound(m), NEW d \in Dirs, NEW i \in DirIndex, m.dir[d][i] # NONE
    PROVE  Made(m, m, d, i, m.dir[d][i].address)
<1>1. m.dir[d][i].address \in Frames(m)
  BY EntryTable
<1>2. Grown(m, m) /\ Only(m, m, {})
  BY FreeIsInt DEF Grown, Only
<1> QED
  BY <1>1, <1>2 DEF Made, LostLate

(* The new table's entry: n is a with entry i of directory d set to e. *)
Entered(a, d, i, e) == [a EXCEPT !.dir[d][i] = e]
EnteredResult(m, a, n, d, i, e) ==
    /\ IsMem(n) /\ n.table = a.table /\ n.free = a.free /\ n.lost = a.lost
    /\ n.dir \in [Dirs -> [DirIndex -> Entry]] /\ n.dir[d][i] = e
    /\ \A c \in Dirs, j \in DirIndex : c # d \/ j # i => n.dir[c][j] = m.dir[c][j]

(* Only the entry written changes. *)
LEMMA NewEntry ==
    ASSUME NEW m, Sound(m), NEW a, IsMem(a), a.dir = m.dir,
           NEW d \in Dirs, NEW i \in DirIndex, NEW e \in Entry, NEW n, n = Entered(a, d, i, e)
    PROVE  EnteredResult(m, a, n, d, i, e)
<1>1. m.dir \in [Dirs -> [DirIndex -> Entry]]
  BY DEF Sound
<1>2. n = [dir |-> [m.dir EXCEPT ![d] = [m.dir[d] EXCEPT ![i] = e]],
           table |-> a.table, free |-> a.free, lost |-> a.lost]
  BY DEF IsMem, Entered
<1>3. m.dir[d] \in [DirIndex -> Entry]
  BY <1>1
<1>4. PICK r : r = [m.dir[d] EXCEPT ![i] = e]
  OBVIOUS
<1>5. /\ r \in [DirIndex -> Entry] /\ r[i] = e
      /\ \A j \in DirIndex : j # i => r[j] = m.dir[d][j]
  BY <1>3, <1>4
<1>6. n.dir = [m.dir EXCEPT ![d] = r]
  BY <1>2, <1>4
<1>7. n.dir \in [Dirs -> [DirIndex -> Entry]]
  BY <1>1, <1>5, <1>6
<1>8. n.dir[d] = r /\ \A c \in Dirs : c # d => n.dir[c] = m.dir[c]
  BY <1>1, <1>6
<1>9. \A c \in Dirs, j \in DirIndex : c # d \/ j # i => n.dir[c][j] = m.dir[c][j]
  BY <1>5, <1>8
<1>10. IsMem(n) /\ n.table = a.table /\ n.free = a.free /\ n.lost = a.lost
  BY <1>2 DEF IsMem
<1> QED
  <2>1. n.dir[d][i] = e
    BY <1>5, <1>8
  <2> QED
    BY <1>7, <1>9, <1>10, <2>1 DEF EnteredResult

(* The table is a frame just allocated; nobody else has it. *)
LEMMA MadeNew ==
    ASSUME NEW m, IsMem(m), Sound(m), NEW a, AllocResult(m, a),
           NEW d \in Dirs, NEW i \in DirIndex, m.dir[d][i] = NONE,
           NEW e \in Entry, e # NONE, e.address = m.free,
           NEW n, n = Entered(a, d, i, e)
    PROVE  Made(m, n, d, i, m.free)
<1>1. /\ IsMem(a) /\ Sound(a) /\ Grown(m, a) /\ Only(m, a, {})
      /\ a.dir = m.dir /\ a.free = m.free + 1 /\ m.free \in Frames(a)
      /\ a.table[m.free] = Empty(TableIndex)
      /\ Reach(m) => LostLate(m, a)
  BY DEF AllocResult
<1>2. /\ IsMem(n) /\ n.table = a.table /\ n.free = a.free /\ n.lost = a.lost
      /\ n.dir \in [Dirs -> [DirIndex -> Entry]] /\ n.dir[d][i] = e
      /\ \A c \in Dirs, j \in DirIndex : c # d \/ j # i => n.dir[c][j] = m.dir[c][j]
  <2>1. EnteredResult(m, a, n, d, i, e)
    BY <1>1, NewEntry
  <2> QED
    BY <2>1 DEF EnteredResult
<1>3. m.free \notin Frames(m) /\ Frames(n) = Frames(a)
  BY <1>2, FreeIsInt DEF Frames
<1>4. \A c \in Dirs, j \in DirIndex :
        m.dir[c][j] # NONE => m.dir[c][j].address # m.free /\ m.dir[c][j].address \in Frames(n)
  <2>1. \A c \in Dirs, j \in DirIndex : m.dir[c][j] # NONE => m.dir[c][j].address \in Frames(m)
    BY EntryTable
  <2>2. Frames(m) \subseteq Frames(n)
    BY <1>1, <1>2, FreeIsInt DEF Frames
  <2> QED
    BY <1>3, <2>1, <2>2
<1>5. \A c \in Dirs, j \in DirIndex : n.dir[c][j] # NONE => n.dir[c][j].address \in Frames(n)
  BY <1>1, <1>2, <1>3, <1>4
<1>6. ASSUME NEW b \in Dirs, NEW c \in Dirs, NEW j \in DirIndex, NEW k \in DirIndex,
             n.dir[b][j] # NONE, n.dir[c][k] # NONE, n.dir[b][j].address = n.dir[c][k].address
      PROVE  j = k /\ n.dir[b][j] = n.dir[c][k] /\ (b = c \/ kernel_dir \in {b, c})
  <2>1. CASE b = d /\ j = i
    <3>1. c = d /\ k = i
      BY <1>2, <1>4, <1>6, <2>1
    <3> QED
      BY <2>1, <3>1
  <2>2. CASE c = d /\ k = i
    <3>1. b = d /\ j = i
      BY <1>2, <1>4, <1>6, <2>2
    <3> QED
      BY <2>2, <3>1
  <2>3. CASE (b # d \/ j # i) /\ (c # d \/ k # i)
    <3>1. n.dir[b][j] = m.dir[b][j] /\ n.dir[c][k] = m.dir[c][k]
      BY <1>2, <2>3
    <3>2. TablesOwned(m)
      BY DEF Sound
    <3> QED
      BY <1>6, <3>1, <3>2 DEF TablesOwned
  <2> QED
    BY <2>1, <2>2, <2>3
<1>7. TablesOwned(n)
  BY <1>5, <1>6 DEF TablesOwned, Frames
<1>8. Sound(n)
  BY <1>1, <1>2, <1>7 DEF Sound
<1>9. Grown(m, n)
  BY <1>1, <1>2 DEF Grown
<1>10. Only(m, n, {})
  BY <1>1, <1>2 DEF Only
<1>11. ASSUME NEW c \in Procs, NEW j \in DirIndex, Private(m, c, j) PROVE Private(n, c, j)
  <2>1. c \in Dirs /\ kernel_dir \in Dirs /\ c # kernel_dir
    BY PagingConstants DEF Dirs
  <2>2. CASE c = d /\ j = i
    <3>1. n.dir[kernel_dir][j] = m.dir[kernel_dir][j] /\ n.dir[c][j] = e
      BY <1>2, <2>1, <2>2
    <3>2. m.dir[kernel_dir][j] = NONE \/ m.dir[kernel_dir][j].address # e.address
      BY <1>4, <2>1
    <3> QED
      BY <3>1, <3>2 DEF Private
  <2>3. CASE kernel_dir = d /\ j = i
    <3>1. n.dir[c][j] = m.dir[c][j] /\ n.dir[kernel_dir][j] = e
      BY <1>2, <2>1, <2>3
    <3>2. m.dir[c][j] = NONE \/ m.dir[c][j].address # e.address
      BY <1>4, <2>1
    <3> QED
      BY <3>1, <3>2 DEF Private
  <2>4. CASE (c # d /\ kernel_dir # d) \/ j # i
    <3>1. n.dir[c][j] = m.dir[c][j] /\ n.dir[kernel_dir][j] = m.dir[kernel_dir][j]
      BY <1>2, <2>1, <2>4
    <3> QED
      BY <1>11, <3>1 DEF Private
  <2> QED
    BY <2>2, <2>3, <2>4
<1>12. Reach(m) => LostLate(m, n)
  BY <1>1, <1>2 DEF LostLate
<1> QED
  BY <1>1, <1>2, <1>3, <1>8, <1>9, <1>10, <1>11, <1>12 DEF Made

(* add_memory_mapping in its three steps: a table, an access to it, an entry. *)
MadeOf(m, d, i, user) ==
    IF m.dir[d][i] # NONE THEN m
    ELSE Entered(alloc_page(m), d, i, [address |-> m.free, user |-> user])

(* add_memory_mapping is these three steps. *)
LEMMA MapSteps ==
    ASSUME NEW m, NEW d, NEW page, NEW frame, NEW user,
           NEW a, a = MadeOf(m, d, DirOf(page), user), NEW t, t = a.dir[d][DirOf(page)].address
    PROVE  add_memory_mapping(m, d, page, frame, user)
             = Put(Touched(a, t), t, SlotOf(page), frame, user)
  BY DEF add_memory_mapping, MadeOf, Entered, DirOf, SlotOf

(* An access takes no frame. *)
LEMMA TouchedFree ==
    ASSUME NEW m, IsMem(m), NEW frame
    PROVE  IsMem(Touched(m, frame)) /\ Touched(m, frame).free = m.free
<1>1. PICK e : e = m.dir[kernel_dir][DirOf(frame)]
  OBVIOUS
<1>2. PICK x : x = [address |-> frame, user |-> FALSE]
  OBVIOUS
<1> QED
  BY <1>1, <1>2, TouchedParts DEF IsPut

(* alloc_page takes one frame. *)
LEMMA AllocFree ==
    ASSUME NEW m, IsMem(m)
    PROVE  IsMem(alloc_page(m)) /\ alloc_page(m).free = m.free + 1
<1>1. PICK c : c = Touched(m, m.free)
  OBVIOUS
<1>2. IsMem(c) /\ c.free = m.free
  BY <1>1, TouchedFree
<1> QED
  BY <1>1, <1>2, AllocParts

(* A table takes one frame at most. *)
LEMMA MadeFree ==
    ASSUME NEW m, IsMem(m), NEW d, NEW i, NEW user, NEW a, a = MadeOf(m, d, i, user)
    PROVE  IsMem(a) /\ a.free \in {m.free, m.free + 1}
<1>1. CASE m.dir[d][i] # NONE
  BY <1>1 DEF MadeOf
<1>2. CASE m.dir[d][i] = NONE
  <2>1. PICK b, e : b = alloc_page(m) /\ e = [address |-> m.free, user |-> user]
    OBVIOUS
  <2>2. IsMem(b) /\ b.free = m.free + 1
    BY <2>1, AllocFree
  <2>3. a = [b EXCEPT !.dir[d][i] = e]
    BY <1>2, <2>1 DEF MadeOf, Entered
  <2>4. a.free = b.free /\ IsMem(a)
    BY <2>2, <2>3 DEF IsMem
  <2> QED
    BY <2>2, <2>4
<1> QED
  BY <1>1, <1>2

(* A page is taken or not; none is given back. *)
LEMMA MapFree ==
    ASSUME NEW m, IsMem(m), NEW d, NEW page, NEW frame, NEW user,
           NEW n, n = add_memory_mapping(m, d, page, frame, user)
    PROVE  IsMem(n) /\ n.free \in {m.free, m.free + 1}
<1>1. PICK a : a = MadeOf(m, d, DirOf(page), user)
  OBVIOUS
<1>2. PICK t : t = a.dir[d][DirOf(page)].address
  OBVIOUS
<1>3. IsMem(a) /\ a.free \in {m.free, m.free + 1}
  BY <1>1, MadeFree
<1>4. PICK c : c = Touched(a, t)
  OBVIOUS
<1>5. IsMem(c) /\ c.free = a.free
  BY <1>3, <1>4, TouchedFree
<1>6. n = Put(c, t, SlotOf(page), frame, user)
  BY <1>1, <1>2, <1>4, MapSteps
<1>7. IsPut(c, n, t, SlotOf(page), [address |-> frame, user |-> user])
  BY <1>5, <1>6, PutParts
<1>8. IsMem(n) /\ n.free = c.free
  BY <1>7 DEF IsPut
<1> QED
  BY <1>3, <1>5, <1>8

(* Either way, directory d has a table of its own in entry i. *)
LEMMA MadeSound ==
    ASSUME NEW m, IsMem(m), Sound(m), NEW d \in Dirs, NEW i \in DirIndex, NEW user \in BOOLEAN,
           NEW a, a = MadeOf(m, d, i, user), a.free \in Pages
    PROVE  Made(m, a, d, i, a.dir[d][i].address)
<1>1. CASE m.dir[d][i] # NONE
  BY <1>1, MadeBefore DEF MadeOf
<1>2. CASE m.dir[d][i] = NONE
  <2>1. PICK b : b = alloc_page(m)
    OBVIOUS
  <2>2. PICK e : e = [address |-> m.free, user |-> user]
    OBVIOUS
  <2>3. IsMem(b) /\ b.free = m.free + 1
    BY <2>1, AllocFree
  <2>4. a = Entered(b, d, i, e)
    BY <1>2, <2>1, <2>2 DEF MadeOf
  <2>5. a.free = b.free
    BY <2>3, <2>4 DEF Entered, IsMem
  <2>6. AllocResult(m, b)
    BY <2>1, <2>5, AllocSound
  <2>7. e \in Entry /\ e # NONE /\ e.address = m.free
    BY <2>2, FreeIsInt, EntryFacts
  <2>8. Made(m, a, d, i, m.free)
    BY <1>2, <2>4, <2>6, <2>7, MadeNew
  <2>9. a.dir[d][i].address = m.free
    BY <2>8 DEF Made
  <2> QED
    BY <2>8, <2>9
<1> QED
  BY <1>1, <1>2

(* No page of a process is translated differently in n, other than those in*)
(* S of directory d, and those whose table the kernel's directory holds.   *)
Keeps(m, n, d, S) ==
    \A c \in Procs, q \in Pages :
      (c # d \/ q \notin S) /\ Private(m, c, DirOf(q)) => Lookup(n, c, q) = Lookup(m, c, q)

(* The pages in S are mapped in directory d, and the rest is kept. *)
MapResult(m, n, d, S) ==
    /\ IsMem(n) /\ Sound(n) /\ Grown(m, n)
    /\ \A c \in Dirs, j \in DirIndex : c # d => n.dir[c][j] = m.dir[c][j]
    /\ \A c \in Procs, j \in DirIndex : Private(m, c, j) => Private(n, c, j)
    /\ \A q \in S : Lookup(n, d, q) # NONE
    /\ Keeps(m, n, d, S)
    /\ Reach(m) => LostLate(m, n)

(* An access to a frame changes no private table. *)
LEMMA OnlyKeeps ==
    ASSUME NEW m, Sound(m), NEW n, Only(m, n, {}), NEW c \in Procs, NEW q \in Pages,
           Private(m, c, DirOf(q)), n.dir[c][DirOf(q)] = m.dir[c][DirOf(q)]
    PROVE  /\ Lookup(n, c, q) = Lookup(m, c, q)
           /\ m.dir[c][DirOf(q)] # NONE =>
                n.table[m.dir[c][DirOf(q)].address] = m.table[m.dir[c][DirOf(q)].address]
<1>1. DirOf(q) \in DirIndex /\ c \in Dirs
  BY PageParts DEF Dirs
<1>2. CASE m.dir[c][DirOf(q)] = NONE
  BY <1>2, LookupParts
<1>3. CASE m.dir[c][DirOf(q)] # NONE
  <2>1. PICK u : u = m.dir[c][DirOf(q)].address
    OBVIOUS
  <2>2. u \in Frames(m)
    BY <1>1, <1>3, <2>1, EntryTable
  <2>3. ~KernelTable(m, u)
    BY <1>1, <1>3, <2>1, PrivateTable
  <2>4. n.table[u] = m.table[u]
    BY <2>2, <2>3 DEF Only
  <2>5. Lookup(m, c, q) = m.table[u][SlotOf(q)]
    BY <1>3, <2>1, LookupParts
  <2>6. Lookup(n, c, q) = n.table[u][SlotOf(q)]
    BY <1>3, <2>1, LookupParts
  <2> QED
    BY <2>1, <2>4, <2>5, <2>6
<1> QED
  BY <1>2, <1>3

(* The new table leaves the translations of processes as they are. *)
LEMMA MadeKeeps ==
    ASSUME NEW m, Sound(m), NEW a, NEW d \in Dirs, NEW i \in DirIndex, NEW t,
           Made(m, a, d, i, t), NEW c \in Procs, NEW q \in Pages, Private(m, c, DirOf(q))
    PROVE  Lookup(a, c, q) = Lookup(m, c, q)
<1>1. DirOf(q) \in DirIndex /\ SlotOf(q) \in TableIndex /\ c \in Dirs
  BY PageParts DEF Dirs
<1>2. CASE c # d \/ DirOf(q) # i
  <2>1. a.dir[c][DirOf(q)] = m.dir[c][DirOf(q)] /\ Only(m, a, {})
    BY <1>1, <1>2 DEF Made
  <2> QED
    BY <2>1, OnlyKeeps
<1>3. CASE c = d /\ DirOf(q) = i /\ m.dir[d][i] # NONE
  BY <1>3 DEF Made
<1>4. CASE c = d /\ DirOf(q) = i /\ m.dir[d][i] = NONE
  <2>1. Lookup(m, c, q) = NONE
    BY <1>4, LookupParts
  <2>2. a.dir[d][i] # NONE /\ a.dir[d][i].address = t /\ a.table[t] = Empty(TableIndex)
    BY <1>4 DEF Made
  <2>3. Lookup(a, c, q) = Empty(TableIndex)[SlotOf(q)]
    BY <1>4, <2>2, LookupParts
  <2> QED
    BY <1>1, <2>1, <2>3 DEF Empty
<1> QED
  BY <1>2, <1>3, <1>4

(* The entry of a page of directory d is set. *)
PutAt(m, n, d, page, e) ==
    /\ n.dir = m.dir /\ m.dir[d][DirOf(page)] # NONE
    /\ PutResult(m, n, m.dir[d][DirOf(page)].address, SlotOf(page), e)

(* So does an entry, except for its own page. *)
LEMMA PutKeeps ==
    ASSUME NEW m, Sound(m), NEW d \in Dirs, NEW page \in Pages, NEW e, NEW n,
           PutAt(m, n, d, page, e),
           NEW c \in Procs, NEW q \in Pages, Private(m, c, DirOf(q)), c # d \/ q # page
    PROVE  Lookup(n, c, q) = Lookup(m, c, q)
<1>1. /\ DirOf(q) \in DirIndex /\ SlotOf(q) \in TableIndex /\ c \in Dirs
      /\ DirOf(page) \in DirIndex /\ SlotOf(page) \in TableIndex
  BY PageParts DEF Dirs
<1>2. PICK t : t = m.dir[d][DirOf(page)].address
  OBVIOUS
<1>3. /\ n.dir = m.dir /\ m.dir[d][DirOf(page)] # NONE
      /\ PutResult(m, n, t, SlotOf(page), e)
  BY <1>2 DEF PutAt
<1>4. CASE m.dir[c][DirOf(q)] = NONE
  BY <1>4, <1>3, LookupParts
<1>5. CASE m.dir[c][DirOf(q)] # NONE
  <2>1. PICK u : u = m.dir[c][DirOf(q)].address
    OBVIOUS
  <2>2. u \in Frames(m)
    BY <1>1, <1>5, <2>1, EntryTable
  <2>3. ~KernelTable(m, u)
    BY <1>1, <1>5, <2>1, PrivateTable
  <2>4. n.table[u][SlotOf(q)] = m.table[u][SlotOf(q)]
    <3>1. CASE u # t
      BY <1>3, <2>2, <3>1 DEF PutResult
    <3>2. CASE u = t
      <4>1. d # kernel_dir
        BY <1>1, <1>2, <1>3, <2>3, <3>2 DEF KernelTable
      <4>2. c # kernel_dir
        BY PagingConstants
      <4>3. m.dir[c][DirOf(q)].address = m.dir[d][DirOf(page)].address
        BY <1>2, <2>1, <3>2
      <4>4. DirOf(q) = DirOf(page) /\ c = d
        BY <1>1, <1>5, <1>3, <4>1, <4>2, <4>3, OneOwner
      <4>5. SlotOf(q) # SlotOf(page)
        BY <4>4, PageUnique
      <4> QED
        BY <1>1, <1>3, <3>2, <4>5 DEF PutResult
    <3> QED
      BY <3>1, <3>2
  <2>5. Lookup(m, c, q) = m.table[u][SlotOf(q)]
    BY <1>5, <2>1, LookupParts
  <2>6. Lookup(n, c, q) = n.table[u][SlotOf(q)]
    BY <1>5, <1>3, <2>1, LookupParts
  <2> QED
    BY <2>4, <2>5, <2>6
<1> QED
  BY <1>4, <1>5

(* add_memory_mapping maps its page and keeps the rest. *)
LEMMA MapSound ==
    ASSUME NEW m, IsMem(m), Sound(m), NEW d \in Dirs, NEW page \in Pages, NEW frame \in Pages,
           NEW user \in BOOLEAN, cr3 \in Dirs,
           NEW n, n = add_memory_mapping(m, d, page, frame, user), n.free \in Pages
    PROVE  /\ MapResult(m, n, d, {page})
           /\ Lookup(n, d, page) = [address |-> frame, user |-> user]
<1>1. DirOf(page) \in DirIndex /\ SlotOf(page) \in TableIndex
  BY PageParts
<1>2. PICK a : a = MadeOf(m, d, DirOf(page), user)
  OBVIOUS
<1>3. PICK t : t = a.dir[d][DirOf(page)].address
  OBVIOUS
<1>4. PICK c : c = Touched(a, t)
  OBVIOUS
<1>5. PICK x : x = [address |-> frame, user |-> user]
  OBVIOUS
<1>6. IsPut(c, n, t, SlotOf(page), x)
  <2>1. IsMem(a)
    BY <1>2, MadeFree
  <2>2. IsMem(c)
    BY <1>4, <2>1, TouchedFree
  <2>3. n = Put(c, t, SlotOf(page), frame, user)
    BY <1>2, <1>3, <1>4, MapSteps
  <2> QED
    BY <1>5, <2>2, <2>3, PutParts
<1>7. n.dir = c.dir /\ n.free = c.free /\ n.lost = c.lost /\ IsMem(n)
  BY <1>6 DEF IsPut
<1>8. IsMem(a) /\ a.free \in Pages
  <2>1. IsMem(a)
    BY <1>2, MadeFree
  <2>2. c.free = a.free
    BY <1>4, <2>1, TouchedFree
  <2> QED
    BY <1>7, <2>1, <2>2
<1>9. Made(m, a, d, DirOf(page), t)
  BY <1>1, <1>2, <1>3, <1>8, MadeSound
<1>10. /\ Sound(a) /\ Grown(m, a) /\ t \in Frames(a) /\ t \in Pages
       /\ a.dir[d][DirOf(page)] # NONE
  <2>1. Sound(a) /\ Grown(m, a) /\ t \in Frames(a) /\ a.dir[d][DirOf(page)] # NONE
    BY <1>9 DEF Made
  <2> QED
    BY <2>1, FreeIsInt
<1>11. /\ IsMem(c) /\ Sound(c) /\ Grown(a, c) /\ Only(a, c, {})
       /\ c.dir = a.dir /\ c.free = a.free
       /\ t \in KernelPages /\ Reach(a) => c.lost = a.lost
  BY <1>4, <1>8, <1>10, TouchedSound
<1>12. x \in Entry /\ x # NONE /\ x.address = frame
  BY <1>5, EntryFacts
<1>13. PutResult(c, n, t, SlotOf(page), x)
  <2>1. t \in Frames(c)
    BY <1>10, <1>11 DEF Frames
  <2> QED
    BY <1>1, <1>6, <1>11, <1>12, <2>1, PutSound
<1>14. Sound(n) /\ Grown(c, n)
  BY <1>13 DEF PutResult
<1>15. Grown(m, n)
  <2>1. Grown(m, c)
    BY <1>10, <1>11, GrownTransitive
  <2> QED
    BY <1>14, <2>1, GrownTransitive
<1>16. n.dir = a.dir
  BY <1>7, <1>11
<1>17. \A b \in Dirs, j \in DirIndex : b # d => n.dir[b][j] = m.dir[b][j]
  BY <1>9, <1>16 DEF Made
<1>18. \A b \in Procs, j \in DirIndex : Private(m, b, j) => Private(n, b, j)
  BY <1>9, <1>16 DEF Made, Private
<1>19. Lookup(n, d, page) = x
  <2>1. n.dir[d][DirOf(page)] # NONE /\ n.dir[d][DirOf(page)].address = t
    BY <1>3, <1>10, <1>16
  <2>2. n.table[t][SlotOf(page)] = x
    BY <1>13 DEF PutResult
  <2> QED
    BY <2>1, <2>2, LookupParts
<1>20. Keeps(m, n, d, {page})
  <2> SUFFICES ASSUME NEW b \in Procs, NEW q \in Pages, b # d \/ q # page,
                      Private(m, b, DirOf(q))
               PROVE  Lookup(n, b, q) = Lookup(m, b, q)
    BY DEF Keeps
  <2>1. DirOf(q) \in DirIndex
    BY PageParts
  <2>2. Private(a, b, DirOf(q)) /\ Private(c, b, DirOf(q))
    BY <1>9, <1>11, <2>1 DEF Made, Private
  <2>3. Lookup(a, b, q) = Lookup(m, b, q)
    BY <1>1, <1>9, MadeKeeps
  <2>4. Lookup(c, b, q) = Lookup(a, b, q)
    BY <1>10, <1>11, <2>2, OnlyKeeps
  <2>5. PutAt(c, n, d, page, x)
    BY <1>3, <1>7, <1>10, <1>11, <1>13 DEF PutAt
  <2>6. Lookup(n, b, q) = Lookup(c, b, q)
    BY <1>11, <2>2, <2>5, PutKeeps
  <2> QED
    BY <2>3, <2>4, <2>6
<1>21. Reach(m) => LostLate(m, n)
  <2> SUFFICES ASSUME Reach(m), n.lost, ~m.lost PROVE n.free > FREE_LAST + 1
    BY DEF LostLate
  <2>1. Reach(a)
    BY <1>10, GrownMaps DEF Reach
  <2>2. CASE t \in KernelPages
    <3>1. a.lost
      BY <1>7, <1>11, <2>1, <2>2
    <3>2. LostLate(m, a)
      BY <1>9 DEF Made
    <3> QED
      BY <1>7, <1>11, <3>1, <3>2 DEF LostLate
  <2>3. CASE t \notin KernelPages
    <3>1. t > FREE_LAST
      BY <1>10, <2>3, FreeIsInt DEF KernelPages, Frames
    <3> QED
      BY <1>7, <1>10, <1>11, <3>1, FreeIsInt DEF Frames
  <2> QED
    BY <2>2, <2>3
<1>22. \A q \in {page} : Lookup(n, d, q) # NONE
  BY <1>12, <1>19
<1> QED
  BY <1>5, <1>7, <1>14, <1>15, <1>17, <1>18, <1>19, <1>20, <1>21, <1>22 DEF MapResult

-----------------------------------------------------------------------------
(* The kernel's pages are mapped.                                          *)

(* Pages S have been mapped, then R are. *)
LEMMA MapMore ==
    ASSUME NEW m, Sound(m), NEW n, NEW o, NEW d \in Dirs, NEW S, S \subseteq Pages,
           NEW R, R \subseteq Pages, cr3 \in Dirs, MapResult(m, n, d, S), MapResult(n, o, d, R)
    PROVE  MapResult(m, o, d, S \cup R)
<1>1. /\ IsMem(n) /\ Sound(n) /\ Grown(m, n) /\ IsMem(o) /\ Sound(o) /\ Grown(n, o)
  BY DEF MapResult
<1>2. Grown(m, o)
  BY <1>1, GrownTransitive
<1>3. \A c \in Dirs, j \in DirIndex : c # d => o.dir[c][j] = m.dir[c][j]
  BY DEF MapResult
<1>4. \A c \in Procs, j \in DirIndex : Private(m, c, j) => Private(o, c, j)
  BY DEF MapResult
<1>5. \A q \in S \cup R : Lookup(o, d, q) # NONE
  <2>1. \A q \in S : Lookup(n, d, q) # NONE /\ q \in Pages
    BY DEF MapResult
  <2>2. \A q \in S : Lookup(o, d, q) # NONE
    BY <1>1, <2>1, GrownLookup
  <2>3. \A q \in R : Lookup(o, d, q) # NONE
    BY DEF MapResult
  <2> QED
    BY <2>2, <2>3
<1>6. Keeps(m, o, d, S \cup R)
  <2> SUFFICES ASSUME NEW c \in Procs, NEW q \in Pages, c # d \/ q \notin S \cup R,
                      Private(m, c, DirOf(q))
               PROVE  Lookup(o, c, q) = Lookup(m, c, q)
    BY DEF Keeps
  <2>1. Private(n, c, DirOf(q))
    BY PageParts DEF MapResult
  <2>2. Keeps(m, n, d, S) /\ Keeps(n, o, d, R)
    BY DEF MapResult
  <2>3. Lookup(n, c, q) = Lookup(m, c, q)
    BY <2>2 DEF Keeps
  <2>4. Lookup(o, c, q) = Lookup(n, c, q)
    BY <2>1, <2>2 DEF Keeps
  <2> QED
    BY <2>3, <2>4
<1>7. ASSUME Reach(m) PROVE LostLate(m, o)
  <2>1. Reach(n)
    BY <1>1, <1>7, GrownMaps DEF Reach
  <2>2. LostLate(m, n) /\ LostLate(n, o)
    BY <1>7, <2>1 DEF MapResult
  <2>3. /\ n.free \in Int /\ o.free \in Int /\ n.free <= o.free /\ FREE_LAST \in Int
    BY <1>1, FreeIsInt DEF Grown
  <2> QED
    BY <2>2, <2>3 DEF LostLate
<1> QED
  BY <1>1, <1>2, <1>3, <1>4, <1>5, <1>6, <1>7 DEF MapResult

(* A set of natural numbers has a least element. *)
LEMMA LeastNat ==
    ASSUME NEW T, T \subseteq Nat, T # {}
    PROVE  \E x \in T : \A y \in T : x <= y
<1>1. PICK x \in T : \A y \in T : <<y, x>> \notin OpToRel(<, Nat)
  BY NatLessThanWellFounded, WFMin
<1>2. \A y \in T : ~(y < x)
  BY <1>1 DEF OpToRel
<1>3. \A y \in T : x <= y
  BY <1>2
<1> QED
  BY <1>3

(* add_kernel_mappings goes through the pages; the function it is defined  *)
(* by has one solution at least, built up page by page.                    *)
Walk == KERNEL_FIRST - 1 .. FREE_LAST
StepOf(m, d, g, page) ==
    IF page < KERNEL_FIRST THEN m
    ELSE add_memory_mapping(g[page - 1], d, page, page, d # kernel_dir)
IsWalk(m, d, g, last) == g = [page \in KERNEL_FIRST - 1 .. last |-> StepOf(m, d, g, page)]

(* A solution for the pages up to one gives one for the next. *)
LEMMA WalkLonger ==
    ASSUME NEW m, NEW d, NEW g, NEW last \in Int, last >= KERNEL_FIRST, IsWalk(m, d, g, last - 1)
    PROVE  \E h : IsWalk(m, d, h, last)
<1>1. KERNEL_FIRST \in Int
  BY PagingConstants
<1>2. PICK s : s = StepOf(m, d, g, last)
  OBVIOUS
<1>3. PICK h : h = [page \in KERNEL_FIRST - 1 .. last |-> IF page = last THEN s ELSE g[page]]
  OBVIOUS
<1>4. h[last] = s /\ \A page \in KERNEL_FIRST - 1 .. last - 1 : h[page] = g[page]
  BY <1>1, <1>3
<1>5. \A page \in KERNEL_FIRST - 1 .. last - 1 : g[page] = StepOf(m, d, g, page)
  BY DEF IsWalk
<1>6. \A page \in KERNEL_FIRST - 1 .. last : StepOf(m, d, h, page) = StepOf(m, d, g, page)
  <2> SUFFICES ASSUME NEW page \in KERNEL_FIRST - 1 .. last, ~(page < KERNEL_FIRST)
               PROVE  h[page - 1] = g[page - 1]
    BY DEF StepOf
  <2>1. page - 1 \in KERNEL_FIRST - 1 .. last - 1
    BY <1>1
  <2> QED
    BY <1>4, <2>1
<1>7. \A page \in KERNEL_FIRST - 1 .. last : h[page] = StepOf(m, d, h, page)
  <2> SUFFICES ASSUME NEW page \in KERNEL_FIRST - 1 .. last
               PROVE  h[page] = StepOf(m, d, g, page)
    BY <1>6
  <2>1. page = last \/ page \in KERNEL_FIRST - 1 .. last - 1
    BY <1>1
  <2> QED
    BY <1>2, <1>4, <1>5, <2>1
<1>8. h = [page \in KERNEL_FIRST - 1 .. last |-> h[page]]
  BY <1>3
<1>9. IsWalk(m, d, h, last)
  BY <1>7, <1>8 DEF IsWalk
<1> QED
  BY <1>9

(* There is a solution for all of the kernel's pages. *)
LEMMA WalkExists ==
    ASSUME NEW m, NEW d
    PROVE  \E g : IsWalk(m, d, g, FREE_LAST)
<1>1. /\ KERNEL_FIRST \in Int /\ FREE_LAST \in Int /\ KERNEL_FIRST <= FREE_LAST
      /\ FREE_LAST - KERNEL_FIRST + 1 \in Nat
  BY PagingConstants DEF Pages
<1>2. PICK T : T = {x \in Nat : ~\E g : IsWalk(m, d, g, KERNEL_FIRST - 1 + x)}
  OBVIOUS
<1>3. T = {}
  <2> SUFFICES ASSUME T # {} PROVE FALSE
    OBVIOUS
  <2>1. PICK x \in T : \A y \in T : x <= y
    BY <1>2, LeastNat
  <2>2. x \in Nat /\ ~\E g : IsWalk(m, d, g, KERNEL_FIRST - 1 + x)
    BY <1>2
  <2>3. CASE x = 0
    <3>1. PICK h : h = [page \in KERNEL_FIRST - 1 .. KERNEL_FIRST - 1 |-> m]
      OBVIOUS
    <3>2. \A page \in KERNEL_FIRST - 1 .. KERNEL_FIRST - 1 : page < KERNEL_FIRST
      BY <1>1
    <3>3. \A page \in KERNEL_FIRST - 1 .. KERNEL_FIRST - 1 : StepOf(m, d, h, page) = m
      BY <3>2 DEF StepOf
    <3>4. IsWalk(m, d, h, KERNEL_FIRST - 1)
      BY <3>1, <3>3 DEF IsWalk
    <3>5. KERNEL_FIRST - 1 + x = KERNEL_FIRST - 1
      BY <1>1, <2>3
    <3> QED
      BY <2>2, <3>4, <3>5
  <2>4. CASE x # 0
    <3>1. x - 1 \in Nat /\ ~(x <= x - 1)
      BY <2>2, <2>4
    <3>2. PICK g : IsWalk(m, d, g, KERNEL_FIRST - 1 + (x - 1))
      BY <1>2, <2>1, <3>1
    <3>3. PICK last \in Int : last = KERNEL_FIRST - 1 + x
      BY <1>1, <2>2
    <3>4. last - 1 = KERNEL_FIRST - 1 + (x - 1) /\ last >= KERNEL_FIRST
      BY <1>1, <2>2, <2>4, <3>3
    <3>5. \E h : IsWalk(m, d, h, last)
      BY <3>2, <3>4, WalkLonger
    <3> QED
      BY <2>2, <3>3, <3>5
  <2> QED
    BY <2>3, <2>4
<1>4. KERNEL_FIRST - 1 + (FREE_LAST - KERNEL_FIRST + 1) = FREE_LAST
  BY <1>1
<1> QED
  BY <1>1, <1>2, <1>3, <1>4

(* add_kernel_mappings is the last value of one. *)
LEMMA KernelWalk ==
    ASSUME NEW m, NEW d
    PROVE  \E g : IsWalk(m, d, g, FREE_LAST) /\ add_kernel_mappings(m, d) = g[FREE_LAST]
<1>1. PICK g : g = (CHOOSE h : h = [page \in Walk |-> StepOf(m, d, h, page)])
  OBVIOUS
<1>2. \E h : h = [page \in Walk |-> StepOf(m, d, h, page)]
  BY WalkExists DEF IsWalk, Walk
<1>3. g = [page \in Walk |-> StepOf(m, d, g, page)]
  BY <1>1, <1>2
<1>4. add_kernel_mappings(m, d) = g[FREE_LAST]
  BY <1>1 DEF add_kernel_mappings, StepOf, Walk
<1> QED
  BY <1>3, <1>4 DEF IsWalk, Walk

(* The pages in S of a process's directory are mapped at their own frames. *)
InPlace(m, n, d, S) ==
    d \in Procs /\ (\A j \in DirIndex : Private(m, d, j)) => \A q \in S : Lookup(n, d, q).address = q

(* What holds after each page, unless the frames have run out. *)
WalkGood(m, n, d, page) ==
    /\ IsMem(n) /\ n.free \in Nat /\ m.free <= n.free
    /\ Sound(m) /\ n.free \in Pages =>
         MapResult(m, n, d, KERNEL_FIRST .. page) /\ InPlace(m, n, d, KERNEL_FIRST .. page)

(* Before the first page. *)
LEMMA WalkStart ==
    ASSUME NEW m, IsMem(m), m.free \in Nat, NEW d \in Dirs
    PROVE  WalkGood(m, m, d, KERNEL_FIRST - 1)
<1>1. KERNEL_FIRST .. KERNEL_FIRST - 1 = {} /\ m.free \in Int /\ m.free <= m.free
  BY PagingConstants
<1>2. Grown(m, m)
  BY <1>1 DEF Grown
<1>3. Sound(m) => MapResult(m, m, d, {})
  BY <1>2 DEF MapResult, Keeps, LostLate
<1>4. InPlace(m, m, d, {})
  BY DEF InPlace
<1> QED
  BY <1>1, <1>3, <1>4 DEF WalkGood

(* Mapping one more page leaves those before it in place. *)
LEMMA InPlaceMore ==
    ASSUME NEW m, NEW n, NEW o, NEW d \in Dirs, NEW S, S \subseteq Pages, NEW page \in Pages,
           page \notin S, InPlace(m, n, d, S), MapResult(m, n, d, S), MapResult(n, o, d, {page}),
           Lookup(o, d, page).address = page
    PROVE  InPlace(m, o, d, S \cup {page})
<1> SUFFICES ASSUME d \in Procs, \A j \in DirIndex : Private(m, d, j), NEW q \in S
             PROVE  Lookup(o, d, q).address = q
  BY DEF InPlace
<1>1. Lookup(n, d, q).address = q
  BY DEF InPlace
<1>2. q \in Pages /\ q # page /\ DirOf(q) \in DirIndex
  BY PageParts
<1>3. Private(n, d, DirOf(q))
  BY <1>2 DEF MapResult
<1>4. Keeps(n, o, d, {page})
  BY DEF MapResult
<1>5. Lookup(o, d, q) = Lookup(n, d, q)
  BY <1>2, <1>3, <1>4 DEF Keeps
<1> QED
  BY <1>1, <1>5

(* From one page to the next. *)
LEMMA WalkNext ==
    ASSUME NEW m, IsMem(m), m.free \in Nat, NEW d \in Dirs, cr3 \in Dirs,
           NEW page \in KernelPages,
           NEW n, WalkGood(m, n, d, page - 1),
           NEW o, o = add_memory_mapping(n, d, page, page, d # kernel_dir)
    PROVE  WalkGood(m, o, d, page)
<1>1. /\ page \in Pages /\ page \in Int /\ KERNEL_FIRST \in Int /\ KERNEL_FIRST <= page
  BY KernelIsPages, PagingConstants DEF KernelPages
<1>2. /\ KERNEL_FIRST .. page = (KERNEL_FIRST .. page - 1) \cup {page}
      /\ page \notin KERNEL_FIRST .. page - 1
  BY <1>1
<1>3. KERNEL_FIRST .. page - 1 \subseteq Pages
  BY <1>1, PagingConstants DEF Pages
<1>4. IsMem(n) /\ n.free \in Nat /\ m.free <= n.free
  BY DEF WalkGood
<1>5. IsMem(o) /\ o.free \in {n.free, n.free + 1}
  BY <1>4, MapFree
<1>6. ASSUME Sound(m), o.free \in Pages
      PROVE  /\ MapResult(m, o, d, KERNEL_FIRST .. page)
             /\ InPlace(m, o, d, KERNEL_FIRST .. page)
  <2>1. n.free \in Pages
    BY <1>4, <1>5, <1>6, PagingConstants DEF Pages
  <2>2. /\ MapResult(m, n, d, KERNEL_FIRST .. page - 1)
        /\ InPlace(m, n, d, KERNEL_FIRST .. page - 1)
    BY <1>6, <2>1 DEF WalkGood
  <2>3. Sound(n)
    BY <2>2 DEF MapResult
  <2>4. (d # kernel_dir) \in BOOLEAN
    OBVIOUS
  <2>5. PICK user \in BOOLEAN : user = (d # kernel_dir)
    BY <2>4
  <2>6. o = add_memory_mapping(n, d, page, page, user)
    BY <2>5
  <2>7. /\ MapResult(n, o, d, {page})
        /\ Lookup(o, d, page) = [address |-> page, user |-> user]
    BY <1>1, <1>4, <1>6, <2>3, <2>6, MapSound
  <2>8. Lookup(o, d, page).address = page
    BY <2>7
  <2>9. MapResult(m, o, d, (KERNEL_FIRST .. page - 1) \cup {page})
    <3>1. {page} \subseteq Pages
      BY <1>1
    <3> QED
      BY <1>3, <1>6, <2>2, <2>7, <3>1, MapMore
  <2>10. InPlace(m, o, d, (KERNEL_FIRST .. page - 1) \cup {page})
    BY <1>1, <1>2, <1>3, <2>2, <2>7, <2>8, InPlaceMore
  <2> QED
    BY <1>2, <2>9, <2>10
<1>7. o.free \in Nat /\ m.free <= o.free
  BY <1>4, <1>5
<1> QED
  BY <1>5, <1>6, <1>7 DEF WalkGood

(* add_kernel_mappings maps all of the kernel's pages in directory d. *)
LEMMA KernelMapped ==
    ASSUME NEW m, IsMem(m), m.free \in Nat, NEW d \in Dirs, cr3 \in Dirs
    PROVE  WalkGood(m, add_kernel_mappings(m, d), d, FREE_LAST)
<1>1. /\ KERNEL_FIRST \in Int /\ FREE_LAST \in Int /\ KERNEL_FIRST <= FREE_LAST
      /\ KERNEL_FIRST \in Nat
  BY PagingConstants DEF Pages
<1>2. PICK g : IsWalk(m, d, g, FREE_LAST) /\ add_kernel_mappings(m, d) = g[FREE_LAST]
  BY KernelWalk
<1>3. \A page \in Walk : g[page] = StepOf(m, d, g, page)
  BY <1>2 DEF IsWalk, Walk
<1>4. g[KERNEL_FIRST - 1] = m
  <2>1. KERNEL_FIRST - 1 \in Walk /\ KERNEL_FIRST - 1 < KERNEL_FIRST
    BY <1>1 DEF Walk
  <2> QED
    BY <1>3, <2>1 DEF StepOf
<1>5. \A page \in KernelPages :
        g[page] = add_memory_mapping(g[page - 1], d, page, page, d # kernel_dir)
  <2>1. \A page \in KernelPages : page \in Walk /\ ~(page < KERNEL_FIRST)
    BY <1>1 DEF Walk, KernelPages
  <2> QED
    BY <1>3, <2>1 DEF StepOf
<1>6. PICK T : T = {page \in KernelPages : ~WalkGood(m, g[page], d, page)}
  OBVIOUS
<1>7. T = {}
  <2> SUFFICES ASSUME T # {} PROVE FALSE
    OBVIOUS
  <2>1. T \subseteq Nat
    BY <1>1, <1>6 DEF KernelPages
  <2>2. PICK page \in T : \A y \in T : page <= y
    BY <2>1, LeastNat
  <2>3. page \in KernelPages /\ ~WalkGood(m, g[page], d, page)
    BY <1>6
  <2>4. WalkGood(m, g[page - 1], d, page - 1)
    <3>1. CASE page = KERNEL_FIRST
      BY <1>4, <3>1, WalkStart
    <3>2. CASE page # KERNEL_FIRST
      <4>1. page - 1 \in KernelPages /\ ~(page <= page - 1)
        BY <1>1, <2>3, <3>2 DEF KernelPages
      <4> QED
        BY <1>6, <2>2, <4>1
    <3> QED
      BY <3>1, <3>2
  <2>5. PICK n, o : n = g[page - 1] /\ o = g[page]
    OBVIOUS
  <2>6. o = add_memory_mapping(n, d, page, page, d # kernel_dir)
    BY <1>5, <2>3, <2>5
  <2>7. WalkGood(m, o, d, page)
    BY <2>3, <2>4, <2>5, <2>6, WalkNext
  <2> QED
    BY <2>3, <2>5, <2>7
<1>8. FREE_LAST \in KernelPages
  BY <1>1 DEF KernelPages
<1> QED
  BY <1>2, <1>6, <1>7, <1>8

(* A frame that is only allocated maps nothing. *)
LEMMA AllocMaps ==
    ASSUME NEW m, IsMem(m), Sound(m), NEW a, AllocResult(m, a), NEW d
    PROVE  MapResult(m, a, d, {})
<1>1. IsMem(a) /\ Sound(a) /\ Grown(m, a) /\ Only(m, a, {}) /\ a.dir = m.dir
  BY DEF AllocResult
<1>2. Keeps(m, a, d, {})
  BY <1>1, OnlyKeeps DEF Keeps
<1>3. \A c \in Procs, j \in DirIndex : Private(m, c, j) => Private(a, c, j)
  BY <1>1 DEF Private
<1>4. Reach(m) => LostLate(m, a)
  BY DEF AllocResult
<1> QED
  BY <1>1, <1>2, <1>3, <1>4 DEF MapResult

-----------------------------------------------------------------------------
(* The kernel's directory takes over an entry of a process's.              *)
CopyOf(c, d, i) == IF c.lost THEN c ELSE Entered(c, kernel_dir, i, c.dir[d][i])

CopyResult(m, n) ==
    /\ IsMem(n) /\ Sound(n) /\ n.free = m.free /\ LostLate(m, n)
    /\ \A d \in Procs, j \in DirIndex : n.dir[d][j] = m.dir[d][j]
    /\ MapsKernel(n, kernel_dir)
    /\ \A d \in Procs : MapsKernel(m, d) => MapsKernel(n, d)
    /\ Keeps(m, n, kernel_dir, {})

(* Each table still has one place and one owner besides the kernel. *)
LEMMA CopyOwned ==
    ASSUME NEW c, Sound(c), NEW d \in Procs, NEW i \in DirIndex, NEW n,
           EnteredResult(c, c, n, kernel_dir, i, c.dir[d][i])
    PROVE  Sound(n)
<1>1. /\ n.table = c.table /\ n.free = c.free /\ n.lost = c.lost
      /\ n.dir \in [Dirs -> [DirIndex -> Entry]] /\ n.dir[kernel_dir][i] = c.dir[d][i]
      /\ \A b \in Dirs, j \in DirIndex : b # kernel_dir \/ j # i => n.dir[b][j] = c.dir[b][j]
  BY DEF EnteredResult
<1>2. d \in Dirs /\ kernel_dir \in Dirs
  BY DEF Dirs
<1>3. \A b \in Dirs, j \in DirIndex :
        \E a \in Dirs : /\ n.dir[b][j] = c.dir[a][j]
                        /\ a = b \/ (a = d /\ b = kernel_dir /\ j = i)
  BY <1>1, <1>2
<1>4. \A b \in Dirs, j \in DirIndex : n.dir[b][j] # NONE => n.dir[b][j].address \in Frames(c)
  BY <1>3, EntryTable
<1>5. ASSUME NEW a \in Dirs, NEW b \in Dirs, NEW j \in DirIndex, NEW k \in DirIndex,
             n.dir[a][j] # NONE, n.dir[b][k] # NONE, n.dir[a][j].address = n.dir[b][k].address
      PROVE  j = k /\ n.dir[a][j] = n.dir[b][k] /\ (a = b \/ kernel_dir \in {a, b})
  <2>1. PICK x \in Dirs : /\ n.dir[a][j] = c.dir[x][j]
                          /\ x = a \/ (x = d /\ a = kernel_dir /\ j = i)
    BY <1>3
  <2>2. PICK y \in Dirs : /\ n.dir[b][k] = c.dir[y][k]
                          /\ y = b \/ (y = d /\ b = kernel_dir /\ k = i)
    BY <1>3
  <2>3. /\ j = k /\ c.dir[x][j] = c.dir[y][k]
        /\ x = y \/ x = kernel_dir \/ y = kernel_dir
    BY <1>5, <2>1, <2>2, OneOwner
  <2>4. a = b \/ a = kernel_dir \/ b = kernel_dir
    BY <2>1, <2>2, <2>3
  <2> QED
    BY <2>1, <2>2, <2>3, <2>4
<1>6. TablesOwned(n)
  BY <1>1, <1>4, <1>5 DEF TablesOwned, Frames
<1> QED
  BY <1>1, <1>6 DEF Sound

(* copy_process_mapping keeps the kernel's pages mapped everywhere. *)
LEMMA CopySound ==
    ASSUME NEW m, IsMem(m), Sound(m), NEW d \in Procs, NEW i \in DirIndex,
           NEW frame \in Frames(m), cr3 \in Dirs, Reach(m),
           MapsKernel(m, d), MapsKernel(m, kernel_dir),
           NEW c, c = Touched(m, frame), NEW n, n = CopyOf(c, d, i)
    PROVE  CopyResult(m, n)
<1>1. frame \in Pages /\ d \in Dirs /\ kernel_dir \in Dirs /\ d # kernel_dir
  BY FreeIsInt, PagingConstants DEF Dirs
<1>2. /\ IsMem(c) /\ Sound(c) /\ Grown(m, c) /\ Only(m, c, {})
      /\ c.dir = m.dir /\ c.free = m.free
      /\ frame \in KernelPages /\ Reach(m) => c.lost = m.lost
  BY <1>1, TouchedSound
<1>3. LostLate(m, c)
  <2> SUFFICES ASSUME c.lost, ~m.lost PROVE c.free > FREE_LAST + 1
    BY DEF LostLate
  <2>1. frame \notin KernelPages
    BY <1>2
  <2> QED
    BY <1>2, <2>1, FreeIsInt DEF KernelPages, Frames
<1>4. MapsKernel(c, kernel_dir) /\ \A b \in Procs : MapsKernel(m, b) => MapsKernel(c, b)
  <2>1. \A b \in Dirs : MapsKernel(m, b) => MapsKernel(c, b)
    BY <1>2, GrownMaps
  <2> QED
    BY <1>1, <2>1 DEF Dirs
<1>5. Keeps(m, c, kernel_dir, {})
  BY <1>2, OnlyKeeps DEF Keeps
<1>6. CASE c.lost
  <2>1. n = c
    BY <1>6 DEF CopyOf
  <2> QED
    BY <1>2, <1>3, <1>4, <1>5, <2>1 DEF CopyResult
<1>7. CASE ~c.lost
  <2>1. n = Entered(c, kernel_dir, i, c.dir[d][i])
    BY <1>7 DEF CopyOf
  <2>2. c.dir[d][i] \in Entry
    BY <1>1, <1>2 DEF Sound
  <2>3. EnteredResult(c, c, n, kernel_dir, i, c.dir[d][i])
    BY <1>1, <1>2, <2>1, <2>2, NewEntry
  <2>4. Sound(n)
    BY <1>2, <2>3, CopyOwned
  <2>5. /\ IsMem(n) /\ n.table = c.table /\ n.free = c.free /\ n.lost = c.lost
        /\ n.dir[kernel_dir][i] = c.dir[d][i]
        /\ \A b \in Dirs, j \in DirIndex : b # kernel_dir \/ j # i => n.dir[b][j] = c.dir[b][j]
    BY <2>3 DEF EnteredResult
  <2>6. \A b \in Procs, j \in DirIndex : n.dir[b][j] = c.dir[b][j]
    BY <2>5, PagingConstants DEF Dirs
  <2>7. \A b \in Procs, q \in Pages : Lookup(n, b, q) = Lookup(c, b, q)
    BY <2>5, <2>6, PageParts, LookupParts
  <2>8. ASSUME NEW q \in KernelPages PROVE Lookup(n, kernel_dir, q) # NONE
    <3>1. DirOf(q) \in DirIndex
      BY <2>8, KernelIsPages, PageParts
    <3>2. CASE DirOf(q) = i
      <4>1. Lookup(n, kernel_dir, q) = Lookup(c, d, q)
        BY <2>5, <3>2, LookupParts
      <4> QED
        BY <1>4, <2>8, <4>1 DEF MapsKernel
    <3>3. CASE DirOf(q) # i
      <4>1. n.dir[kernel_dir][DirOf(q)] = c.dir[kernel_dir][DirOf(q)]
        BY <1>1, <2>5, <3>1, <3>3
      <4>2. Lookup(n, kernel_dir, q) = Lookup(c, kernel_dir, q)
        BY <2>5, <4>1, LookupParts
      <4> QED
        BY <1>4, <2>8, <4>2 DEF MapsKernel
    <3> QED
      BY <3>2, <3>3
  <2>9. \A b \in Procs : MapsKernel(m, b) => MapsKernel(n, b)
    BY <1>4, <2>7, KernelIsPages DEF MapsKernel
  <2>10. Keeps(m, n, kernel_dir, {})
    BY <1>5, <2>7 DEF Keeps
  <2>11. LostLate(m, n)
    BY <1>3, <2>5 DEF LostLate
  <2> QED
    BY <1>2, <2>4, <2>5, <2>6, <2>8, <2>9, <2>10, <2>11 DEF CopyResult, MapsKernel
<1> QED
  BY <1>6, <1>7

-----------------------------------------------------------------------------
(* What the kernel's directory maps from FREE_FIRST on.                    *)

(* The numbers of these pages, tables and frames. *)
LEMMA HighPages ==
    /\ FREE_FIRST \in Int /\ FREE_LAST \in Int /\ KERNEL_FIRST \in Int
    /\ KERNEL_FIRST <= FREE_FIRST /\ FREE_FIRST <= FREE_LAST
    /\ \A page \in Pages : /\ page \in Int /\ DirOf(page) \in Int
                           /\ page >= FREE_FIRST => DirOf(page) >= FREE_FIRST \div TABLE_ENTRIES
<1>1. TABLE_ENTRIES \in Int /\ TABLE_ENTRIES > 0 /\ FREE_FIRST \in Int
  BY PagingConstants
<1>2. ASSUME NEW page \in Pages
      PROVE  /\ page \in Int /\ DirOf(page) \in Int
             /\ page >= FREE_FIRST => DirOf(page) >= FREE_FIRST \div TABLE_ENTRIES
  <2>1. page \in Int
    BY DEF Pages
  <2>2. DirOf(page) \in Int /\ FREE_FIRST \div TABLE_ENTRIES \in Int
    BY <1>1, <2>1, DivMod DEF DirOf
  <2>3. page >= FREE_FIRST => FREE_FIRST \div TABLE_ENTRIES <= DirOf(page)
    BY <1>1, <2>1, DivMonotone DEF DirOf
  <2> QED
    BY <2>1, <2>2, <2>3
<1> QED
  BY <1>2, PagingConstants DEF Pages

(* An entry is seen by those that have its table, at its page. *)
LEMMA PutSees ==
    ASSUME NEW m, Sound(m), NEW d \in Dirs, NEW page \in Pages, NEW e, NEW n,
           PutAt(m, n, d, page, e), NEW c \in Dirs, NEW q \in Pages
    PROVE  \/ Lookup(n, c, q) = Lookup(m, c, q)
           \/ /\ q = page /\ Lookup(n, c, q) = e
              /\ m.dir[c][DirOf(page)] = m.dir[d][DirOf(page)]
<1>1. /\ DirOf(q) \in DirIndex /\ SlotOf(q) \in TableIndex
      /\ DirOf(page) \in DirIndex /\ SlotOf(page) \in TableIndex
  BY PageParts
<1>2. PICK t : t = m.dir[d][DirOf(page)].address
  OBVIOUS
<1>3. /\ n.dir = m.dir /\ m.dir[d][DirOf(page)] # NONE /\ n.table[t][SlotOf(page)] = e
      /\ \A u \in Frames(m) : u # t => n.table[u] = m.table[u]
      /\ \A l \in TableIndex : l # SlotOf(page) => n.table[t][l] = m.table[t][l]
  BY <1>2 DEF PutAt, PutResult
<1>4. CASE m.dir[c][DirOf(q)] = NONE
  BY <1>3, <1>4, LookupParts
<1>5. CASE m.dir[c][DirOf(q)] # NONE
  <2>1. PICK u : u = m.dir[c][DirOf(q)].address
    OBVIOUS
  <2>2. u \in Frames(m)
    BY <1>1, <1>5, <2>1, EntryTable
  <2>3. Lookup(m, c, q) = m.table[u][SlotOf(q)] /\ Lookup(n, c, q) = n.table[u][SlotOf(q)]
    BY <1>3, <1>5, <2>1, LookupParts
  <2>4. CASE u # t
    BY <1>3, <2>2, <2>3, <2>4
  <2>5. CASE u = t
    <3>1. DirOf(q) = DirOf(page) /\ m.dir[c][DirOf(q)] = m.dir[d][DirOf(page)]
      <4>1. PICK i \in DirIndex, j \in DirIndex : i = DirOf(q) /\ j = DirOf(page)
        BY <1>1
      <4>2. /\ m.dir[c][i] # NONE /\ m.dir[d][j] # NONE
            /\ m.dir[c][i].address = m.dir[d][j].address
        BY <1>2, <1>3, <1>5, <2>1, <2>5, <4>1
      <4>3. i = j /\ m.dir[c][i] = m.dir[d][j]
        BY <4>2, OneOwner
      <4> QED
        BY <4>1, <4>3
    <3>2. SlotOf(q) = SlotOf(page) => q = page
      BY <3>1, PageUnique
    <3>3. CASE SlotOf(q) # SlotOf(page)
      <4>1. n.table[t][SlotOf(q)] = m.table[t][SlotOf(q)]
        BY <1>1, <1>3, <3>3
      <4> QED
        BY <2>3, <2>5, <4>1
    <3>4. CASE SlotOf(q) = SlotOf(page)
      <4>1. q = page
        BY <3>2, <3>4
      <4>2. Lookup(n, c, q) = e
        BY <1>3, <2>3, <2>5, <3>4
      <4> QED
        BY <3>1, <4>1, <4>2
    <3> QED
      BY <3>3, <3>4
  <2> QED
    BY <2>4, <2>5
<1> QED
  BY <1>4, <1>5

(* The kernel's directory has got pages from FREE_FIRST on, at their own   *)
(* addresses, and no other translation has changed.                        *)
Widened(m, n) ==
    \A c \in Dirs, q \in Pages :
      \/ Lookup(n, c, q) = Lookup(m, c, q)
      \/ /\ c = kernel_dir /\ q >= FREE_FIRST
         /\ Lookup(n, c, q) # NONE /\ Lookup(n, c, q).address = q

(* The kernel has what is mapped from the start. *)
Based(m) == is_paging_enabled => MapsKernel(m, kernel_dir) /\ Below(m)

(* An access to a frame maps it, for the kernel only. *)
LEMMA TouchedWidens ==
    ASSUME NEW m, IsMem(m), Sound(m), Apart(m), cr3 \in Dirs,
           NEW frame \in Pages, frame >= FREE_FIRST, NEW n, n = Touched(m, frame)
    PROVE  /\ Widened(m, n) /\ (m.lost => n.lost)
           /\ is_paging_enabled /\ ~n.lost /\ Based(m) => Lookup(n, kernel_dir, frame) # NONE
<1>1. PICK e : e = m.dir[kernel_dir][DirOf(frame)]
  OBVIOUS
<1>2. PICK x : x = [address |-> frame, user |-> FALSE]
  OBVIOUS
<1>3. DirOf(frame) \in DirIndex /\ SlotOf(frame) \in TableIndex /\ kernel_dir \in Dirs
  BY PageParts DEF Dirs
<1>4. CASE ~is_paging_enabled \/ Lookup(m, cr3, frame) # NONE
  <2>1. n = m
    BY <1>4 DEF Touched
  <2>2. ASSUME is_paging_enabled, Based(m) PROVE Lookup(n, kernel_dir, frame) # NONE
    <3>1. CASE cr3 = kernel_dir
      BY <1>4, <2>1, <2>2, <3>1
    <3>2. CASE cr3 # kernel_dir
      <4>1. ~(frame > FREE_LAST)
        BY <1>4, <2>2, <3>2 DEF Based, Below, Dirs
      <4>2. frame \in KernelPages
        BY <4>1, HighPages DEF KernelPages
      <4> QED
        BY <2>1, <2>2, <4>2 DEF Based, MapsKernel
    <3> QED
      BY <3>1, <3>2
  <2> QED
    BY <2>1, <2>2 DEF Widened
<1>5. CASE is_paging_enabled /\ Lookup(m, cr3, frame) = NONE /\ cr3 = kernel_dir /\ e # NONE
  <2>1. n = Put(m, e.address, SlotOf(frame), frame, FALSE)
    BY <1>1, <1>5 DEF Touched, DirOf, SlotOf
  <2>2. IsPut(m, n, e.address, SlotOf(frame), x)
    BY <1>2, <2>1, PutParts
  <2>3. x \in Entry /\ x # NONE /\ x.address = frame
    BY <1>2, EntryFacts
  <2>4. e.address \in Frames(m)
    BY <1>1, <1>3, <1>5, EntryTable
  <2>5. PutAt(m, n, kernel_dir, frame, x)
    <3>1. PutResult(m, n, e.address, SlotOf(frame), x)
      BY <1>3, <2>2, <2>3, <2>4, PutSound
    <3> QED
      BY <1>1, <1>5, <2>2, <3>1 DEF PutAt, IsPut
  <2>6. ASSUME NEW c \in Dirs, NEW q \in Pages, Lookup(n, c, q) # Lookup(m, c, q)
        PROVE  c = kernel_dir /\ q = frame /\ Lookup(n, c, q) = x
    <3>1. q = frame /\ Lookup(n, c, q) = x /\ m.dir[c][DirOf(frame)] = e
      BY <1>1, <1>3, <2>5, <2>6, PutSees
    <3>2. DirOf(frame) >= FREE_FIRST \div TABLE_ENTRIES
      BY HighPages
    <3>3. c \notin Procs
      BY <1>1, <1>3, <1>5, <3>1, <3>2 DEF Apart
    <3> QED
      BY <3>1, <3>3 DEF Dirs
  <2>7. Lookup(n, kernel_dir, frame) = x
    <3>1. /\ n.dir[kernel_dir][DirOf(frame)] = e
          /\ n.table[e.address][SlotOf(frame)] = x
      BY <1>1, <2>5 DEF PutAt, PutResult
    <3> QED
      BY <1>5, <3>1, LookupParts
  <2>8. n.lost = m.lost
    BY <2>2 DEF IsPut
  <2>9. Widened(m, n)
    BY <2>3, <2>6 DEF Widened
  <2> QED
    BY <2>3, <2>7, <2>8, <2>9
<1>6. CASE is_paging_enabled /\ Lookup(m, cr3, frame) = NONE /\ ~(cr3 = kernel_dir /\ e # NONE)
  <2>1. n = [m EXCEPT !.lost = TRUE]
    BY <1>1, <1>6 DEF Touched, DirOf, SlotOf
  <2>2. n.dir = m.dir /\ n.table = m.table /\ n.lost = TRUE
    BY <2>1 DEF IsMem
  <2>3. \A c \in Dirs, q \in Pages : Lookup(n, c, q) = Lookup(m, c, q)
    BY <2>2 DEF Lookup
  <2> QED
    BY <2>2, <2>3 DEF Widened
<1> QED
  BY <1>4, <1>5, <1>6

(* The pages from FREE_FIRST on are as they should be, and so are frames.  *)
Good(m) ==
    /\ IsMem(m) /\ Sound(m) /\ Own(m) /\ Apart(m) /\ Below(m) /\ Based(m)
    /\ is_paging_enabled /\ ~m.lost => Reached(m)

(* Pages added at their own addresses keep the kernel's pages in place. *)
LEMMA WidenedKeeps ==
    ASSUME NEW m, NEW n, Widened(m, n)
    PROVE  /\ Own(m) => Own(n)
           /\ Below(m) => Below(n)
           /\ \A c \in Procs, q \in Pages : Lookup(n, c, q) = Lookup(m, c, q)
<1>1. kernel_dir \in Dirs /\ kernel_dir \notin Procs /\ Procs \subseteq Dirs
  BY PagingConstants DEF Dirs
<1>2. \A c \in Procs, q \in Pages : Lookup(n, c, q) = Lookup(m, c, q)
  BY <1>1 DEF Widened
<1>3. Own(m) => Own(n)
  BY <1>1 DEF Widened, Own
<1>4. Below(m) => Below(n)
  BY <1>2 DEF Below
<1> QED
  BY <1>2, <1>3, <1>4

(* The same once more. *)
LEMMA WidenedTwice ==
    ASSUME NEW m, NEW n, NEW o, Widened(m, n), Widened(n, o)
    PROVE  Widened(m, o)
  BY DEF Widened

(* A frame is allocated, no translation depends on what it held. *)
LEMMA AllocWidens ==
    ASSUME NEW m, IsMem(m), Sound(m), Apart(m), cr3 \in Dirs,
           NEW a, a = alloc_page(m), a.free \in Pages
    PROVE  /\ Widened(m, a) /\ (m.lost => a.lost)
           /\ is_paging_enabled /\ ~a.lost /\ Based(m) => Lookup(a, kernel_dir, m.free) # NONE
<1>1. PICK c : c = Touched(m, m.free)
  OBVIOUS
<1>2. m.free \in Pages /\ m.free >= FREE_FIRST /\ kernel_dir \in Dirs
  BY FreeIsInt DEF Dirs
<1>3. /\ IsMem(c) /\ Sound(c) /\ c.dir = m.dir /\ c.free = m.free
  BY <1>1, <1>2, TouchedSound
<1>4. /\ Widened(m, c) /\ (m.lost => c.lost)
      /\ is_paging_enabled /\ ~c.lost /\ Based(m) => Lookup(c, kernel_dir, m.free) # NONE
  BY <1>1, <1>2, TouchedWidens
<1>5. /\ a.dir = c.dir /\ a.lost = c.lost
      /\ a.table = With(c.table, m.free, Empty(TableIndex))
  BY <1>1, <1>3, AllocParts
<1>6. \A t \in Frames(c) : a.table[t] = c.table[t]
  <2>1. m.free \notin Frames(c)
    BY <1>3, FreeIsInt DEF Frames
  <2>2. DOMAIN c.table = Frames(c)
    BY <1>3 DEF Sound, Frames
  <2> QED
    BY <1>5, <2>1, <2>2 DEF With
<1>7. ASSUME NEW d \in Dirs, NEW q \in Pages PROVE Lookup(a, d, q) = Lookup(c, d, q)
  <2>1. DirOf(q) \in DirIndex
    BY PageParts
  <2>2. CASE c.dir[d][DirOf(q)] = NONE
    BY <1>5, <2>2, LookupParts
  <2>3. CASE c.dir[d][DirOf(q)] # NONE
    <3>1. PICK u : u = c.dir[d][DirOf(q)].address
      OBVIOUS
    <3>2. a.table[u] = c.table[u]
      BY <1>3, <1>6, <2>1, <2>3, <3>1, EntryTable
    <3>3. Lookup(c, d, q) = c.table[u][SlotOf(q)] /\ Lookup(a, d, q) = a.table[u][SlotOf(q)]
      BY <1>5, <2>3, <3>1, LookupParts
    <3> QED
      BY <3>2, <3>3
  <2> QED
    BY <2>2, <2>3
<1>8. Widened(m, a)
  BY <1>4, <1>7 DEF Widened
<1>9. Lookup(a, kernel_dir, m.free) = Lookup(c, kernel_dir, m.free)
  BY <1>2, <1>7
<1> QED
  BY <1>4, <1>5, <1>8, <1>9

(* What is mapped stays so, and new frames are: the frames are reached. *)
LEMMA ReachedMore ==
    ASSUME NEW m, Sound(m), Reached(m), NEW n, Grown(m, n),
           \A f \in Frames(n) : f \notin Frames(m) => Lookup(n, kernel_dir, f) # NONE
    PROVE  Reached(n)
<1>1. kernel_dir \in Dirs /\ \A f \in Frames(m) : f \in Pages
  BY FreeIsInt DEF Dirs
<1>2. \A f \in Frames(m) : Lookup(n, kernel_dir, f) # NONE
  BY <1>1, GrownLookup DEF Reached, Frames
<1> QED
  BY <1>2 DEF Reached, Frames

(* What a call leaves behind is good if it widens what the kernel has. *)
LEMMA GoodStep ==
    ASSUME NEW m, Good(m), NEW n, IsMem(n), Sound(n), Grown(m, n), Widened(m, n), Apart(n),
           m.lost => n.lost,
           is_paging_enabled /\ ~n.lost =>
             \A f \in Frames(n) : f \notin Frames(m) => Lookup(n, kernel_dir, f) # NONE
    PROVE  Good(n)
<1>1. Own(n) /\ Below(n)
  BY WidenedKeeps DEF Good
<1>2. Based(n)
  <2>1. kernel_dir \in Dirs /\ Sound(m)
    BY DEF Dirs, Good
  <2>2. MapsKernel(m, kernel_dir) => MapsKernel(n, kernel_dir)
    BY <2>1, GrownMaps
  <2> QED
    BY <1>1, <2>2 DEF Good, Based
<1>3. ASSUME is_paging_enabled, ~n.lost PROVE Reached(n)
  <2>1. Sound(m) /\ Reached(m)
    BY <1>3 DEF Good
  <2> QED
    BY <1>3, <2>1, ReachedMore
<1> QED
  BY <1>1, <1>2, <1>3 DEF Good

(* An access keeps the frames in reach. *)
LEMMA TouchedGood ==
    ASSUME NEW m, Good(m), cr3 \in Dirs, NEW frame \in Frames(m), NEW n, n = Touched(m, frame)
    PROVE  /\ Good(n) /\ Widened(m, n) /\ (m.lost => n.lost)
           /\ n.dir = m.dir /\ n.free = m.free
<1>1. IsMem(m) /\ Sound(m) /\ Apart(m)
  BY DEF Good
<1>2. frame \in Pages /\ frame >= FREE_FIRST
  BY <1>1, FreeIsInt DEF Frames
<1>3. IsMem(n) /\ Sound(n) /\ Grown(m, n) /\ n.dir = m.dir /\ n.free = m.free
  BY <1>1, <1>2, TouchedSound
<1>4. Widened(m, n) /\ (m.lost => n.lost)
  BY <1>1, <1>2, TouchedWidens
<1>5. Apart(n)
  BY <1>1, <1>3 DEF Apart
<1>6. Frames(n) = Frames(m)
  BY <1>3 DEF Frames
<1>7. Good(n)
  BY <1>3, <1>4, <1>5, <1>6, GoodStep
<1> QED
  BY <1>3, <1>4, <1>7

(* So does alloc_page, the new one included. *)
LEMMA AllocGood ==
    ASSUME NEW m, Good(m), cr3 \in Dirs, NEW a, a = alloc_page(m), a.free \in Pages
    PROVE  Good(a) /\ Widened(m, a) /\ (m.lost => a.lost)
<1>1. IsMem(m) /\ Sound(m) /\ Apart(m) /\ Based(m)
  BY DEF Good
<1>2. IsMem(a) /\ Sound(a) /\ Grown(m, a) /\ a.dir = m.dir /\ a.free = m.free + 1
  BY <1>1, AllocSound DEF AllocResult
<1>3. /\ Widened(m, a) /\ (m.lost => a.lost)
      /\ is_paging_enabled /\ ~a.lost => Lookup(a, kernel_dir, m.free) # NONE
  BY <1>1, AllocWidens
<1>4. Apart(a)
  BY <1>1, <1>2 DEF Apart
<1>5. \A f \in Frames(a) : f \notin Frames(m) => f = m.free
  BY <1>1, <1>2, FreeIsInt DEF Frames
<1>6. Good(a)
  BY <1>2, <1>3, <1>4, <1>5, GoodStep
<1> QED
  BY <1>3, <1>6

(* And a new table, which is empty. *)
LEMMA MadeGood ==
    ASSUME NEW m, Good(m), cr3 \in Dirs, NEW d \in Dirs, NEW i \in DirIndex, NEW user \in BOOLEAN,
           NEW n, n = MadeOf(m, d, i, user), n.free \in Pages
    PROVE  Good(n) /\ Widened(m, n) /\ (m.lost => n.lost) /\ Made(m, n, d, i, n.dir[d][i].address)
<1>1. IsMem(m) /\ Sound(m) /\ Apart(m)
  BY DEF Good
<1>2. Made(m, n, d, i, n.dir[d][i].address)
  BY <1>1, MadeSound
<1>3. CASE m.dir[d][i] # NONE
  <2>1. n = m
    BY <1>3 DEF MadeOf
  <2> QED
    BY <1>2, <2>1 DEF Widened
<1>4. CASE m.dir[d][i] = NONE
  <2>1. PICK a : a = alloc_page(m)
    OBVIOUS
  <2>2. PICK e : e = [address |-> m.free, user |-> user]
    OBVIOUS
  <2>3. n = Entered(a, d, i, e)
    BY <1>4, <2>1, <2>2 DEF MadeOf
  <2>4. n.free = a.free /\ n.table = a.table /\ n.lost = a.lost
    BY <2>1, <2>3, <1>1, AllocFree DEF Entered, IsMem
  <2>5. Good(a) /\ Widened(m, a) /\ (m.lost => a.lost)
    BY <2>1, <2>4, AllocGood
  <2>6. a.dir = m.dir /\ a.free = m.free + 1
    BY <1>1, <2>1, <2>4, AllocSound DEF AllocResult
  <2>7. PICK t : t = n.dir[d][i].address
    OBVIOUS
  <2>8. /\ IsMem(n) /\ Sound(n) /\ Grown(m, n) /\ n.dir[d][i] # NONE
        /\ \A c \in Dirs, j \in DirIndex : c # d \/ j # i => n.dir[c][j] = m.dir[c][j]
        /\ \A c \in Procs, j \in DirIndex : Private(m, c, j) => Private(n, c, j)
        /\ n.table[t] = Empty(TableIndex)
    BY <1>2, <1>4, <2>7 DEF Made
  <2>9. ASSUME NEW c \in Dirs, NEW q \in Pages PROVE Lookup(n, c, q) = Lookup(a, c, q)
    <3>1. DirOf(q) \in DirIndex /\ SlotOf(q) \in TableIndex
      BY PageParts
    <3>2. CASE c # d \/ DirOf(q) # i
      <4>1. n.dir[c][DirOf(q)] = a.dir[c][DirOf(q)]
        BY <2>6, <2>8, <3>1, <3>2
      <4> QED
        BY <2>4, <4>1, LookupParts
    <3>3. CASE c = d /\ DirOf(q) = i
      <4>1. Lookup(a, c, q) = NONE
        BY <1>4, <2>6, <3>3, LookupParts
      <4>2. Lookup(n, c, q) = Empty(TableIndex)[SlotOf(q)]
        BY <2>7, <2>8, <3>3, LookupParts
      <4> QED
        BY <3>1, <4>1, <4>2 DEF Empty
    <3> QED
      BY <3>2, <3>3
  <2>10. Widened(m, n)
    BY <2>5, <2>9 DEF Widened
  <2>11. Apart(n)
    BY <1>1, <2>8 DEF Apart, Private
  <2>12. ASSUME is_paging_enabled, ~n.lost, NEW f \in Frames(n), f \notin Frames(m)
         PROVE  Lookup(n, kernel_dir, f) # NONE
    <3>1. Reached(a) /\ f \in Frames(a)
      BY <2>4, <2>5, <2>12 DEF Good, Frames
    <3>2. f \in Pages /\ kernel_dir \in Dirs
      BY <2>8, FreeIsInt DEF Dirs
    <3> QED
      BY <2>9, <3>1, <3>2 DEF Reached, Frames
  <2>13. Good(n)
    BY <2>4, <2>5, <2>8, <2>10, <2>11, <2>12, GoodStep
  <2> QED
    BY <1>2, <2>4, <2>5, <2>10, <2>13
<1> QED
  BY <1>3, <1>4

(* Directory c has the same table as d in entry i: the kernel's directory  *)
(* and that of a process may.                                              *)
Shares(m, c, d, i) == \/ c = kernel_dir /\ d \in Procs /\ ~Private(m, d, i)
                      \/ d = kernel_dir /\ c \in Procs /\ ~Private(m, c, i)

(* As Widened, and one page of directory d is translated by e. *)
Adds(m, n, d, page, e) ==
    \A c \in Dirs, q \in Pages :
      \/ Lookup(n, c, q) = Lookup(m, c, q)
      \/ /\ c = kernel_dir /\ q >= FREE_FIRST
         /\ Lookup(n, c, q) # NONE /\ Lookup(n, c, q).address = q
      \/ /\ q = page /\ Lookup(n, c, q) = e
         /\ c = d \/ Shares(m, c, d, DirOf(page))

(* From FREE_FIRST on the kernel shares no table. *)
LEMMA ApartShares ==
    ASSUME NEW m, Apart(m), NEW c \in Dirs, NEW d \in Dirs, NEW page \in Pages, page >= FREE_FIRST
    PROVE  ~Shares(m, c, d, DirOf(page))
<1>1. DirOf(page) \in DirIndex /\ DirOf(page) >= FREE_FIRST \div TABLE_ENTRIES
  BY PageParts, HighPages
<1> QED
  BY <1>1 DEF Apart, Shares, Private

(* Those that have a table in common. *)
LEMMA SharedBy ==
    ASSUME NEW m, Sound(m), NEW c \in Dirs, NEW d \in Dirs, NEW i \in DirIndex,
           m.dir[d][i] # NONE, m.dir[c][i] = m.dir[d][i]
    PROVE  c = d \/ Shares(m, c, d, i)
<1>1. c = d \/ c = kernel_dir \/ d = kernel_dir
  BY OneOwner
<1> QED
  BY <1>1 DEF Shares, Private, Dirs

(* A table that a directory did not have is a new frame. *)
NewTables(m, n) ==
    \A c \in Dirs, j \in DirIndex :
      n.dir[c][j] # NONE => n.dir[c][j] = m.dir[c][j] \/ n.dir[c][j].address \notin Frames(m)

(* add_memory_mapping adds its page, and keeps the frames in reach if that *)
(* is not a page from FREE_FIRST on at another address.                    *)
LEMMA MapGood ==
    ASSUME NEW m, Good(m), cr3 \in Dirs, NEW d \in Dirs, NEW page \in Pages, NEW frame \in Pages,
           NEW user \in BOOLEAN, d = kernel_dir /\ page >= FREE_FIRST => frame = page,
           d \in Procs => page <= FREE_LAST,
           NEW n, n = add_memory_mapping(m, d, page, frame, user), n.free \in Pages
    PROVE  /\ Good(n) /\ (m.lost => n.lost) /\ NewTables(m, n)
           /\ Adds(m, n, d, page, [address |-> frame, user |-> user])
<1>1. IsMem(m) /\ Sound(m) /\ Own(m) /\ Apart(m) /\ Below(m)
  BY DEF Good
<1>2. DirOf(page) \in DirIndex /\ SlotOf(page) \in TableIndex
  BY PageParts
<1>3. PICK a : a = MadeOf(m, d, DirOf(page), user)
  OBVIOUS
<1>4. PICK t : t = a.dir[d][DirOf(page)].address
  OBVIOUS
<1>5. PICK c : c = Touched(a, t)
  OBVIOUS
<1>6. PICK x : x = [address |-> frame, user |-> user]
  OBVIOUS
<1>7. IsMem(a) /\ IsMem(c) /\ c.free = a.free
  BY <1>1, <1>3, <1>5, MadeFree, TouchedFree
<1>8. IsPut(c, n, t, SlotOf(page), x)
  <2>1. n = Put(c, t, SlotOf(page), frame, user)
    BY <1>3, <1>4, <1>5, MapSteps
  <2> QED
    BY <1>6, <1>7, <2>1, PutParts
<1>9. n.dir = c.dir /\ n.free = c.free /\ n.lost = c.lost /\ IsMem(n)
  BY <1>8 DEF IsPut
<1>10. Good(a) /\ Widened(m, a) /\ (m.lost => a.lost) /\ Made(m, a, d, DirOf(page), t)
  BY <1>2, <1>3, <1>4, <1>7, <1>9, MadeGood
<1>11. t \in Frames(a) /\ a.dir[d][DirOf(page)] # NONE
  BY <1>10 DEF Made
<1>12. Good(c) /\ Widened(a, c) /\ (a.lost => c.lost) /\ c.dir = a.dir
  BY <1>5, <1>10, <1>11, TouchedGood
<1>13. Sound(c) /\ Widened(m, c)
  BY <1>10, <1>12, WidenedTwice DEF Good
<1>14. x \in Entry /\ x # NONE /\ x.address = frame
  BY <1>6, EntryFacts
<1>15. PutAt(c, n, d, page, x) /\ Sound(n) /\ Grown(c, n)
  <2>1. t \in Frames(c)
    BY <1>7, <1>11 DEF Frames
  <2>2. PutResult(c, n, t, SlotOf(page), x)
    BY <1>2, <1>8, <1>13, <1>14, <2>1, PutSound
  <2> QED
    BY <1>4, <1>9, <1>11, <1>12, <2>2 DEF PutAt, PutResult
<1>16. \A b \in Procs, j \in DirIndex : Private(m, b, j) => Private(c, b, j)
  BY <1>10, <1>12 DEF Made, Private
<1>17. Adds(m, n, d, page, x)
  <2> SUFFICES ASSUME NEW b \in Dirs, NEW q \in Pages
               PROVE  \/ Lookup(n, b, q) = Lookup(m, b, q)
                      \/ /\ b = kernel_dir /\ q >= FREE_FIRST
                         /\ Lookup(n, b, q) # NONE /\ Lookup(n, b, q).address = q
                      \/ /\ q = page /\ Lookup(n, b, q) = x
                         /\ b = d \/ Shares(m, b, d, DirOf(page))
    BY DEF Adds
  <2>1. CASE Lookup(n, b, q) = Lookup(c, b, q)
    BY <1>13, <2>1 DEF Widened
  <2>2. CASE Lookup(n, b, q) # Lookup(c, b, q)
    <3>1. /\ q = page /\ Lookup(n, b, q) = x
          /\ c.dir[b][DirOf(page)] = c.dir[d][DirOf(page)]
      BY <1>13, <1>15, <2>2, PutSees
    <3>2. b = d \/ Shares(c, b, d, DirOf(page))
      BY <1>2, <1>11, <1>12, <1>13, <3>1, SharedBy
    <3>3. b = d \/ Shares(m, b, d, DirOf(page))
      BY <1>2, <1>16, <3>2 DEF Shares
    <3> QED
      BY <3>1, <3>3
  <2> QED
    BY <2>1, <2>2
<1>18. kernel_dir \in Dirs /\ kernel_dir \notin Procs /\ Procs \subseteq Dirs
  BY PagingConstants DEF Dirs
<1>19. Own(n)
  <2> SUFFICES ASSUME NEW q \in Pages, q >= FREE_FIRST, Lookup(n, kernel_dir, q) # NONE
               PROVE  Lookup(n, kernel_dir, q).address = q
    BY DEF Own
  <2>1. q = page => ~Shares(m, kernel_dir, d, DirOf(page))
    BY <1>1, <1>18, ApartShares
  <2> QED
    BY <1>1, <1>14, <1>17, <1>18, <2>1 DEF Own, Adds
<1>20. Below(n)
  <2> SUFFICES ASSUME NEW b \in Procs, NEW q \in Pages, q > FREE_LAST
               PROVE  Lookup(n, b, q) = NONE
    BY DEF Below
  <2>1. q >= FREE_FIRST /\ q \in Int /\ FREE_LAST \in Int
    BY HighPages
  <2>2. q = page => ~Shares(m, b, d, DirOf(page))
    BY <1>1, <1>18, <2>1, ApartShares
  <2>3. Lookup(m, b, q) = NONE
    BY <1>1 DEF Below
  <2>4. b # d \/ q # page
    BY <2>1
  <2> QED
    BY <1>17, <1>18, <2>2, <2>3, <2>4 DEF Adds
<1>21. Apart(n)
  BY <1>1, <1>9, <1>16 DEF Apart, Private
<1>22. Based(n)
  <2>1. MapsKernel(c, kernel_dir) => MapsKernel(n, kernel_dir)
    BY <1>13, <1>15, <1>18, GrownMaps
  <2> QED
    BY <1>12, <1>20, <2>1 DEF Based, Good
<1>23. ASSUME is_paging_enabled, ~n.lost PROVE Reached(n)
  <2>1. Reached(c) /\ Frames(n) = Frames(c)
    BY <1>9, <1>12, <1>23 DEF Good, Frames
  <2> QED
    BY <1>13, <1>15, <2>1, ReachedMore
<1>24. Good(n)
  BY <1>9, <1>15, <1>19, <1>20, <1>21, <1>22, <1>23 DEF Good
<1>25. NewTables(m, n)
  BY <1>9, <1>10, <1>12 DEF NewTables, Made
<1> QED
  BY <1>6, <1>9, <1>10, <1>12, <1>17, <1>24, <1>25

-----------------------------------------------------------------------------
(* What the frames are used for.                                           *)

(* The pages that are a process's own. *)
OwnPages == Pages \ KernelPages

(* A page is translated to a frame. *)
LEMMA LookupFrame ==
    ASSUME NEW m, Sound(m), NEW d \in Dirs, NEW page \in Pages, Lookup(m, d, page) # NONE
    PROVE  Lookup(m, d, page).address \in Int
<1>1. DirOf(page) \in DirIndex /\ SlotOf(page) \in TableIndex
  BY PageParts
<1>2. PICK t : t = m.dir[d][DirOf(page)].address
  OBVIOUS
<1>3. t \in Frames(m) /\ Lookup(m, d, page) = m.table[t][SlotOf(page)]
  BY <1>1, <1>2, LookupParts, EntryTable
<1>4. m.table[t][SlotOf(page)] \in Entry
  BY <1>1, <1>3 DEF Sound, Frames
<1> QED
  BY <1>3, <1>4 DEF Entry, Pages

(* A table is one of before or new, and so is a directory. *)
LEMMA UsedMore ==
    ASSUME NEW m, Sound(m), NEW D, UsedOnce(m, D), NEW n, n.free \in Int, m.free <= n.free,
           NEW E, \A f \in E : f \in D \/ ~(f < m.free),
           \A d \in Dirs, i \in DirIndex :
             n.dir[d][i] # NONE => /\ n.dir[d][i].address \notin E
                                   /\ \/ \E c \in Dirs : n.dir[d][i] = m.dir[c][i]
                                      \/ ~(n.dir[d][i].address < m.free),
           \A c \in Procs, q \in OwnPages : Lookup(n, c, q) = Lookup(m, c, q)
    PROVE  UsedOnce(n, E)
<1>1. ASSUME NEW q \in Procs, NEW page \in OwnPages, Lookup(n, q, page) # NONE,
             NEW f, f = Lookup(n, q, page).address
      PROVE  /\ f < n.free
             /\ f >= FREE_FIRST =>
                  /\ f \notin E
                  /\ \A d \in Dirs, i \in DirIndex : n.dir[d][i] # NONE => n.dir[d][i].address # f
                  /\ \A r \in Procs, other \in OwnPages :
                       Lookup(n, r, other) # NONE /\ Lookup(n, r, other).address = f =>
                         r = q /\ other = page
  <2>1. Lookup(m, q, page) # NONE /\ f = Lookup(m, q, page).address
    BY <1>1
  <2>2. f < m.free /\ (f >= FREE_FIRST =>
                  /\ f \notin D
                  /\ \A d \in Dirs, i \in DirIndex : m.dir[d][i] # NONE => m.dir[d][i].address # f
                  /\ \A r \in Procs, other \in OwnPages :
                       Lookup(m, r, other) # NONE /\ Lookup(m, r, other).address = f =>
                         r = q /\ other = page)
    BY <2>1 DEF UsedOnce, OwnPages
  <2>3. f < n.free
    <3>1. q \in Dirs /\ page \in Pages /\ m.free \in Int
      BY FreeIsInt DEF Dirs, OwnPages
    <3>2. f \in Int
      BY <2>1, <3>1, LookupFrame
    <3> QED
      BY <2>2, <3>1, <3>2
  <2>4. ASSUME f >= FREE_FIRST, NEW d \in Dirs, NEW i \in DirIndex, n.dir[d][i] # NONE
        PROVE  n.dir[d][i].address # f
    BY <2>2, <2>4
  <2>5. ASSUME f >= FREE_FIRST, NEW r \in Procs, NEW other \in OwnPages,
               Lookup(n, r, other) # NONE, Lookup(n, r, other).address = f
        PROVE  r = q /\ other = page
    BY <2>2, <2>5
  <2>6. f >= FREE_FIRST => f \notin E
    BY <2>2
  <2> QED
    BY <2>3, <2>4, <2>5, <2>6
<1>2. \A d \in Dirs, i \in DirIndex : n.dir[d][i] # NONE => n.dir[d][i].address \notin E
  OBVIOUS
<1> QED
  BY <1>1, <1>2 DEF UsedOnce, OwnPages

(* A frame without a use. *)
Unused(m, D, f) ==
    /\ f \notin D
    /\ \A d \in Dirs, i \in DirIndex : m.dir[d][i] # NONE => m.dir[d][i].address # f
    /\ \A r \in Procs, other \in OwnPages :
         Lookup(m, r, other) # NONE => Lookup(m, r, other).address # f

(* The frame alloc_page is about to hand out is one. *)
LEMMA FreshUnused ==
    ASSUME NEW m, Sound(m), NEW D, D \subseteq Frames(m), UsedOnce(m, D)
    PROVE  Unused(m, D, m.free)
<1>1. m.free \in Int /\ m.free \notin Frames(m)
  BY FreeIsInt DEF Frames
<1>2. \A d \in Dirs, i \in DirIndex : m.dir[d][i] # NONE => m.dir[d][i].address # m.free
  BY <1>1, EntryTable
<1>3. \A r \in Procs, other \in OwnPages :
        Lookup(m, r, other) # NONE => Lookup(m, r, other).address < m.free
  BY DEF UsedOnce, OwnPages
<1> QED
  BY <1>1, <1>2, <1>3 DEF Unused

(* Mapping a page keeps frames to one use, if it is one of the kernel's or *)
(* only the kernel sees it, or its frame is not one of alloc_page's or is  *)
(* one without a use.                                                      *)
LEMMA MapUsed ==
    ASSUME NEW m, Sound(m), NEW D, D \subseteq Frames(m), UsedOnce(m, D),
           NEW d \in Dirs, NEW page \in Pages, NEW frame \in Pages, NEW e, e # NONE, e.address = frame,
           NEW n, Sound(n), Grown(m, n), NewTables(m, n), Adds(m, n, d, page, e),
           \/ page \in KernelPages
           \/ d = kernel_dir /\ page >= FREE_FIRST /\ Apart(m)
           \/ frame < FREE_FIRST
           \/ d \in Procs /\ frame \in Frames(m) /\ Unused(m, D, frame)
    PROVE  UsedOnce(n, D)
<1>1. /\ m.free \in Int /\ n.free \in Int /\ FREE_FIRST \in Int /\ frame \in Int
      /\ FREE_FIRST <= m.free /\ m.free <= n.free
      /\ kernel_dir \notin Procs /\ Procs \subseteq Dirs
  BY FreeIsInt, PagingConstants DEF Grown, Pages, Dirs
<1>2. \A c \in Dirs, i \in DirIndex : n.dir[c][i] # NONE => n.dir[c][i].address \notin D
  BY DEF NewTables, UsedOnce
<1>3. \A c \in Dirs, i \in DirIndex :
        n.dir[c][i] # NONE => \/ n.dir[c][i] = m.dir[c][i]
                              \/ ~(n.dir[c][i].address < m.free) /\ n.dir[c][i].address \notin Frames(m)
  <2> SUFFICES ASSUME NEW c \in Dirs, NEW i \in DirIndex, n.dir[c][i] # NONE,
                      n.dir[c][i].address \notin Frames(m)
               PROVE  ~(n.dir[c][i].address < m.free)
    BY DEF NewTables
  <2>1. n.dir[c][i].address \in Frames(n)
    BY EntryTable
  <2> QED
    BY <1>1, <2>1 DEF Frames
<1>4. ASSUME NEW c \in Procs, NEW q \in OwnPages
      PROVE  \/ Lookup(n, c, q) = Lookup(m, c, q)
             \/ /\ q = page /\ Lookup(n, c, q) = e
                /\ frame < FREE_FIRST \/ (c = d /\ frame \in Frames(m) /\ Unused(m, D, frame))
  <2>1. \/ Lookup(n, c, q) = Lookup(m, c, q)
        \/ /\ q = page /\ Lookup(n, c, q) = e
           /\ c = d \/ Shares(m, c, d, DirOf(page))
    BY <1>1 DEF Adds, OwnPages
  <2>2. d = kernel_dir /\ page >= FREE_FIRST /\ Apart(m) =>
          c # d /\ ~Shares(m, c, d, DirOf(page))
    BY <1>1, ApartShares
  <2> QED
    BY <1>1, <2>1, <2>2 DEF Shares, OwnPages
<1>5. ASSUME NEW q \in Procs, NEW own \in OwnPages, Lookup(n, q, own) # NONE,
             NEW f, f = Lookup(n, q, own).address
      PROVE  /\ f < n.free
             /\ f >= FREE_FIRST =>
                  /\ f \notin D
                  /\ \A c \in Dirs, i \in DirIndex : n.dir[c][i] # NONE => n.dir[c][i].address # f
                  /\ \A r \in Procs, other \in OwnPages :
                       Lookup(n, r, other) # NONE /\ Lookup(n, r, other).address = f =>
                         r = q /\ other = own
  <2>1. CASE Lookup(n, q, own) = Lookup(m, q, own)
    <3>1. /\ f < m.free
          /\ f >= FREE_FIRST =>
               /\ f \notin D
               /\ \A c \in Dirs, i \in DirIndex : m.dir[c][i] # NONE => m.dir[c][i].address # f
               /\ \A r \in Procs, other \in OwnPages :
                    Lookup(m, r, other) # NONE /\ Lookup(m, r, other).address = f =>
                      r = q /\ other = own
      BY <1>5, <2>1 DEF UsedOnce, OwnPages
    <3>2. f \in Int
      BY <1>1, <1>5, <2>1, LookupFrame DEF OwnPages
    <3>3. ASSUME f >= FREE_FIRST, NEW c \in Dirs, NEW i \in DirIndex, n.dir[c][i] # NONE
          PROVE  n.dir[c][i].address # f
      BY <1>3, <3>1, <3>3
    <3>4. ASSUME f >= FREE_FIRST, NEW r \in Procs, NEW other \in OwnPages,
                 Lookup(n, r, other) # NONE, Lookup(n, r, other).address = f
          PROVE  r = q /\ other = own
      <4>1. CASE Lookup(n, r, other) = Lookup(m, r, other)
        BY <3>1, <3>4, <4>1
      <4>2. CASE Lookup(n, r, other) # Lookup(m, r, other)
        <5>1. f = frame /\ Unused(m, D, frame)
          BY <1>1, <1>4, <3>2, <3>4, <4>2
        <5> QED
          BY <1>5, <2>1, <5>1 DEF Unused
      <4> QED
        BY <4>1, <4>2
    <3> QED
      BY <1>1, <3>1, <3>2, <3>3, <3>4
  <2>2. CASE Lookup(n, q, own) # Lookup(m, q, own)
    <3>1. /\ own = page /\ f = frame
          /\ frame < FREE_FIRST \/ (q = d /\ frame \in Frames(m) /\ Unused(m, D, frame))
      BY <1>4, <1>5, <2>2
    <3>2. CASE frame < FREE_FIRST
      BY <1>1, <3>1, <3>2
    <3>3. CASE ~(frame < FREE_FIRST)
      <4>1. q = d /\ frame \in Frames(m) /\ Unused(m, D, frame) /\ frame < m.free
        BY <1>1, <3>1, <3>3 DEF Frames
      <4>2. \A c \in Dirs, i \in DirIndex : n.dir[c][i] # NONE => n.dir[c][i].address # f
        BY <1>3, <3>1, <4>1 DEF Unused
      <4>3. ASSUME NEW r \in Procs, NEW other \in OwnPages,
                   Lookup(n, r, other) # NONE, Lookup(n, r, other).address = f
            PROVE  r = q /\ other = own
        <5>1. Lookup(n, r, other) # Lookup(m, r, other)
          BY <3>1, <4>1, <4>3 DEF Unused
        <5> QED
          BY <1>4, <3>1, <3>3, <4>1, <4>3, <5>1
      <4> QED
        BY <1>1, <3>1, <4>1, <4>2, <4>3 DEF Unused
    <3> QED
      BY <3>2, <3>3
  <2> QED
    BY <2>1, <2>2
<1> QED
  BY <1>2, <1>5 DEF UsedOnce, OwnPages

-----------------------------------------------------------------------------
(* add_kernel_mappings, page by page.                                      *)

(* Where there is a table, none is allocated. *)
LEMMA MapTakesNone ==
    ASSUME NEW m, IsMem(m), NEW d, NEW page, NEW frame, NEW user, m.dir[d][DirOf(page)] # NONE,
           NEW n, n = add_memory_mapping(m, d, page, frame, user)
    PROVE  n.free = m.free
<1>1. PICK t : t = m.dir[d][DirOf(page)].address
  OBVIOUS
<1>2. m = MadeOf(m, d, DirOf(page), user)
  BY DEF MadeOf
<1>3. PICK c : c = Touched(m, t)
  OBVIOUS
<1>4. IsMem(c) /\ c.free = m.free
  BY <1>3, TouchedFree
<1>5. n = Put(c, t, SlotOf(page), frame, user)
  BY <1>1, <1>2, <1>3, MapSteps
<1>6. IsPut(c, n, t, SlotOf(page), [address |-> frame, user |-> user])
  BY <1>4, <1>5, PutParts
<1> QED
  BY <1>4, <1>6 DEF IsPut

(* The tables for the kernel's pages up to page. *)
TablesTo(page) == DirOf(page) - DirOf(KERNEL_FIRST) + 1

(* What holds after each page, for directories D. *)
WalkHeld(m, n, d, page, D) ==
    /\ IsMem(n) /\ n.free \in Nat
    /\ page < KERNEL_FIRST => n = m
    /\ n.free \in Pages =>
         /\ Good(n) /\ UsedOnce(n, D) /\ m.free <= n.free
         /\ page >= KERNEL_FIRST => /\ Lookup(n, d, page) # NONE
                                    /\ n.free <= m.free + TablesTo(page)

(* The next page takes a table if it is the first in it. *)
LEMMA HeldCount ==
    ASSUME NEW m, m.free \in Nat, NEW d \in Dirs, NEW page \in KernelPages, NEW n, NEW D,
           WalkHeld(m, n, d, page - 1, D), n.free \in Pages,
           NEW user, NEW o, o = add_memory_mapping(n, d, page, page, user)
    PROVE  o.free <= m.free + TablesTo(page)
<1>1. /\ page \in Pages /\ KERNEL_FIRST \in Pages /\ page \in Int /\ KERNEL_FIRST \in Int
      /\ KERNEL_FIRST <= page
  BY KernelIsPages, PagingConstants DEF KernelPages, Pages
<1>2. DirOf(page) \in Int /\ DirOf(KERNEL_FIRST) \in Int /\ TABLE_ENTRIES \in Int /\ TABLE_ENTRIES > 0
  BY <1>1, HighPages, PagingConstants
<1>3. IsMem(n) /\ n.free \in Nat /\ o.free \in {n.free, n.free + 1}
  BY MapFree DEF WalkHeld
<1>4. CASE page = KERNEL_FIRST
  <2>1. n = m
    BY <1>1, <1>4 DEF WalkHeld
  <2>2. TablesTo(page) = 1
    BY <1>2, <1>4 DEF TablesTo
  <2> QED
    BY <1>3, <2>1, <2>2
<1>5. CASE page # KERNEL_FIRST
  <2>1. page - 1 \in Pages /\ page - 1 >= KERNEL_FIRST
    <3>1. PICK last \in Int : last = DIR_ENTRIES * TABLE_ENTRIES - 1
      BY PagingConstants
    <3>2. page <= last /\ 0 <= KERNEL_FIRST
      BY <1>1, <3>1, PagingConstants DEF Pages
    <3> QED
      BY <1>1, <1>5, <3>1, <3>2 DEF Pages
  <2>2. DirOf(page - 1) \in Int /\ DirOf(page - 1) <= DirOf(page)
    <3>1. page - 1 \in Int /\ page - 1 <= page
      BY <1>1
    <3> QED
      BY <1>1, <1>2, <2>1, <3>1, HighPages, DivMonotone DEF DirOf
  <2>3. Lookup(n, d, page - 1) # NONE /\ n.free <= m.free + TablesTo(page - 1)
    BY <2>1 DEF WalkHeld
  <2>4. CASE DirOf(page - 1) = DirOf(page)
    <3>1. n.dir[d][DirOf(page)] # NONE
      BY <2>3, <2>4, LookupParts
    <3>2. o.free = n.free
      BY <1>3, <3>1, MapTakesNone
    <3> QED
      BY <2>3, <2>4, <3>2 DEF TablesTo
  <2>5. CASE DirOf(page - 1) # DirOf(page)
    BY <1>2, <1>3, <2>2, <2>3, <2>5 DEF TablesTo
  <2> QED
    BY <2>4, <2>5
<1> QED
  BY <1>4, <1>5

(* From one page to the next. *)
LEMMA HeldNext ==
    ASSUME NEW m, m.free \in Nat, NEW d \in Dirs, cr3 \in Dirs, NEW page \in KernelPages,
           NEW D, D \subseteq Frames(m), NEW n, WalkHeld(m, n, d, page - 1, D),
           NEW o, o = add_memory_mapping(n, d, page, page, d # kernel_dir)
    PROVE  WalkHeld(m, o, d, page, D)
<1>1. /\ page \in Pages /\ page \in Int /\ KERNEL_FIRST \in Int /\ KERNEL_FIRST <= page
      /\ page <= FREE_LAST /\ FREE_FIRST \in Int
  BY KernelIsPages, PagingConstants DEF KernelPages
<1>2. IsMem(n) /\ n.free \in Nat
  BY DEF WalkHeld
<1>3. IsMem(o) /\ o.free \in {n.free, n.free + 1}
  BY <1>2, MapFree
<1>4. ASSUME o.free \in Pages
      PROVE  /\ Good(o) /\ UsedOnce(o, D) /\ m.free <= o.free
             /\ Lookup(o, d, page) # NONE /\ o.free <= m.free + TablesTo(page)
  <2>1. n.free \in Pages
    BY <1>2, <1>3, <1>4, PagingConstants DEF Pages
  <2>2. Good(n) /\ UsedOnce(n, D) /\ m.free <= n.free
    BY <2>1 DEF WalkHeld
  <2>3. (d # kernel_dir) \in BOOLEAN
    OBVIOUS
  <2>4. PICK user \in BOOLEAN : user = (d # kernel_dir)
    BY <2>3
  <2>5. PICK x : x = [address |-> page, user |-> user]
    OBVIOUS
  <2>6. o = add_memory_mapping(n, d, page, page, user)
    BY <2>4
  <2>7. Good(o) /\ NewTables(n, o) /\ Adds(n, o, d, page, x)
    BY <1>1, <1>4, <2>2, <2>5, <2>6, MapGood
  <2>8. IsMem(n) /\ Sound(n) /\ Sound(o)
    BY <2>2, <2>7 DEF Good
  <2>9. MapResult(n, o, d, {page})
    BY <1>1, <1>4, <2>6, <2>8, MapSound
  <2>10. Grown(n, o) /\ Lookup(o, d, page) # NONE
    BY <2>9 DEF MapResult
  <2>11. UsedOnce(o, D)
    <3>1. x # NONE /\ x.address = page
      BY <1>1, <2>5, EntryFacts
    <3>2. D \subseteq Frames(n)
      BY <1>1, <1>2, <2>2 DEF Frames
    <3> QED
      BY <1>1, <2>2, <2>7, <2>8, <2>10, <3>1, <3>2, MapUsed
  <2>12. o.free <= m.free + TablesTo(page)
    BY <2>1, HeldCount
  <2> QED
    BY <1>2, <1>3, <2>2, <2>7, <2>10, <2>11, <2>12
<1>5. o.free \in Nat /\ ~(page < KERNEL_FIRST)
  BY <1>1, <1>2, <1>3
<1> QED
  BY <1>3, <1>4, <1>5 DEF WalkHeld

(* add_kernel_mappings keeps frames in reach and to one use. *)
LEMMA KernelHeld ==
    ASSUME NEW m, Good(m), NEW d \in Dirs, cr3 \in Dirs, NEW D, D \subseteq Frames(m), UsedOnce(m, D),
           NEW n, n = add_kernel_mappings(m, d), n.free \in Pages
    PROVE  Good(n) /\ UsedOnce(n, D) /\ m.free <= n.free /\ n.free <= m.free + TablesTo(FREE_LAST)
<1>1. /\ KERNEL_FIRST \in Int /\ FREE_LAST \in Int /\ KERNEL_FIRST <= FREE_LAST
      /\ KERNEL_FIRST \in Nat
  BY PagingConstants DEF Pages
<1>2. IsMem(m) /\ m.free \in Nat
  BY DEF Good, Sound, Pages
<1>3. PICK g : IsWalk(m, d, g, FREE_LAST) /\ n = g[FREE_LAST]
  BY KernelWalk
<1>4. \A page \in Walk : g[page] = StepOf(m, d, g, page)
  BY <1>3 DEF IsWalk, Walk
<1>5. g[KERNEL_FIRST - 1] = m
  <2>1. KERNEL_FIRST - 1 \in Walk /\ KERNEL_FIRST - 1 < KERNEL_FIRST
    BY <1>1 DEF Walk
  <2> QED
    BY <1>4, <2>1 DEF StepOf
<1>6. \A page \in KernelPages :
        g[page] = add_memory_mapping(g[page - 1], d, page, page, d # kernel_dir)
  <2>1. \A page \in KernelPages : page \in Walk /\ ~(page < KERNEL_FIRST)
    BY <1>1 DEF Walk, KernelPages
  <2> QED
    BY <1>4, <2>1 DEF StepOf
<1>7. WalkHeld(m, g[KERNEL_FIRST - 1], d, KERNEL_FIRST - 1, D)
  BY <1>1, <1>2, <1>5 DEF WalkHeld
<1>8. PICK T : T = {page \in KernelPages : ~WalkHeld(m, g[page], d, page, D)}
  OBVIOUS
<1>9. T = {}
  <2> SUFFICES ASSUME T # {} PROVE FALSE
    OBVIOUS
  <2>1. T \subseteq Nat
    BY <1>1, <1>8 DEF KernelPages
  <2>2. PICK page \in T : \A y \in T : page <= y
    BY <2>1, LeastNat
  <2>3. page \in KernelPages /\ ~WalkHeld(m, g[page], d, page, D)
    BY <1>8
  <2>4. WalkHeld(m, g[page - 1], d, page - 1, D)
    <3>1. CASE page = KERNEL_FIRST
      BY <1>7, <3>1
    <3>2. CASE page # KERNEL_FIRST
      <4>1. page - 1 \in KernelPages /\ ~(page <= page - 1)
        BY <1>1, <2>3, <3>2 DEF KernelPages
      <4> QED
        BY <1>8, <2>2, <4>1
    <3> QED
      BY <3>1, <3>2
  <2>5. PICK b, o : b = g[page - 1] /\ o = g[page]
    OBVIOUS
  <2>6. o = add_memory_mapping(b, d, page, page, d # kernel_dir)
    BY <1>6, <2>3, <2>5
  <2>7. WalkHeld(m, o, d, page, D)
    BY <1>2, <2>3, <2>4, <2>5, <2>6, HeldNext
  <2> QED
    BY <2>3, <2>5, <2>7
<1>10. FREE_LAST \in KernelPages /\ FREE_LAST >= KERNEL_FIRST
  BY <1>1 DEF KernelPages
<1>11. WalkHeld(m, n, d, FREE_LAST, D)
  BY <1>3, <1>8, <1>9, <1>10
<1> QED
  BY <1>10, <1>11 DEF WalkHeld

-----------------------------------------------------------------------------
(* copy_process_mapping keeps the frames in reach and to one use, if the   *)
(* entry is not one of a table from FREE_FIRST on.                         *)
LEMMA CopyGood ==
    ASSUME NEW m, Good(m), cr3 \in Dirs, Reach(m), NEW d \in Procs, NEW i \in DirIndex,
           i < FREE_FIRST \div TABLE_ENTRIES, MapsKernel(m, d), MapsKernel(m, kernel_dir),
           NEW D, UsedOnce(m, D), NEW frame \in Frames(m),
           NEW c, c = Touched(m, frame), NEW n, n = CopyOf(c, d, i)
    PROVE  Good(n) /\ UsedOnce(n, D)
<1>1. IsMem(m) /\ Sound(m)
  BY DEF Good
<1>2. CopyResult(m, n)
  BY <1>1, CopySound
<1>3. /\ IsMem(n) /\ Sound(n) /\ n.free = m.free /\ MapsKernel(n, kernel_dir)
      /\ \A b \in Procs, j \in DirIndex : n.dir[b][j] = m.dir[b][j]
  BY <1>2 DEF CopyResult
<1>4. Good(c) /\ Widened(m, c) /\ c.dir = m.dir /\ c.free = m.free
  BY TouchedGood
<1>5. /\ IsMem(c) /\ Sound(c) /\ Own(c) /\ Apart(c) /\ Below(c)
      /\ is_paging_enabled /\ ~c.lost => Reached(c)
  BY <1>4 DEF Good
<1>6. d \in Dirs /\ kernel_dir \in Dirs /\ kernel_dir \notin Procs /\ Procs \subseteq Dirs
  BY PagingConstants DEF Dirs
<1>7. \/ n = c
      \/ /\ n.table = c.table /\ n.lost = c.lost /\ n.dir[kernel_dir][i] = c.dir[d][i]
         /\ \A b \in Dirs, j \in DirIndex : b # kernel_dir \/ j # i => n.dir[b][j] = c.dir[b][j]
  <2>1. CASE c.lost
    BY <2>1 DEF CopyOf
  <2>2. CASE ~c.lost
    <3>1. n = Entered(c, kernel_dir, i, c.dir[d][i])
      BY <2>2 DEF CopyOf
    <3>2. c.dir[d][i] \in Entry
      BY <1>5, <1>6 DEF Sound
    <3>3. EnteredResult(c, c, n, kernel_dir, i, c.dir[d][i])
      BY <1>5, <1>6, <3>1, <3>2, NewEntry
    <3> QED
      BY <3>3 DEF EnteredResult
  <2> QED
    BY <2>1, <2>2
<1>8. n.table = c.table /\ n.lost = c.lost
  BY <1>7
<1>9. \A b \in Dirs, j \in DirIndex : b # kernel_dir \/ j # i => n.dir[b][j] = c.dir[b][j]
  BY <1>7
<1>10. \A b \in Dirs, q \in Pages :
         b # kernel_dir \/ DirOf(q) # i => Lookup(n, b, q) = Lookup(c, b, q)
  BY <1>8, <1>9, PageParts, LookupParts
<1>11. \A q \in Pages : q >= FREE_FIRST => DirOf(q) # i
  <2> SUFFICES ASSUME NEW q \in Pages, q >= FREE_FIRST PROVE DirOf(q) # i
    OBVIOUS
  <2>1. DirOf(q) >= FREE_FIRST \div TABLE_ENTRIES /\ DirOf(q) \in Int
    BY HighPages
  <2>2. FREE_FIRST \div TABLE_ENTRIES \in Int /\ i \in Int
    BY PagingConstants, DivMod DEF DirIndex
  <2> QED
    BY <2>1, <2>2
<1>12. Own(n)
  BY <1>5, <1>6, <1>10, <1>11 DEF Own
<1>13. Below(n)
  BY <1>5, <1>6, <1>10 DEF Below
<1>14. Apart(n)
  <2> SUFFICES ASSUME NEW q \in Procs, NEW j \in DirIndex, j >= FREE_FIRST \div TABLE_ENTRIES,
                      n.dir[q][j] # NONE
               PROVE  n.dir[q][j] # n.dir[kernel_dir][j]
    BY DEF Apart
  <2>1. j # i
    BY PagingConstants, DivMod DEF DirIndex
  <2>2. n.dir[q][j] = c.dir[q][j] /\ n.dir[kernel_dir][j] = c.dir[kernel_dir][j]
    BY <1>6, <1>9, <2>1
  <2> QED
    BY <1>5, <2>2 DEF Apart
<1>15. ASSUME is_paging_enabled, ~n.lost PROVE Reached(n)
  <2>1. Reached(c) /\ Frames(n) = Frames(c)
    BY <1>3, <1>4, <1>5, <1>8, <1>15 DEF Frames
  <2>2. \A f \in Frames(n) : f \in Pages /\ f >= FREE_FIRST
    BY <1>3, FreeIsInt DEF Frames
  <2> QED
    BY <1>6, <1>10, <1>11, <2>1, <2>2 DEF Reached, Frames
<1>16. Good(n)
  BY <1>3, <1>12, <1>13, <1>14, <1>15 DEF Good, Based
<1>17. UsedOnce(n, D)
  <2>1. \A b \in Dirs, j \in DirIndex : \E a \in Dirs : n.dir[b][j] = m.dir[a][j]
    BY <1>4, <1>6, <1>7
  <2>2. \A b \in Dirs, j \in DirIndex : m.dir[b][j] # NONE => m.dir[b][j].address \notin D
    BY DEF UsedOnce
  <2>3. \A b \in Procs, q \in OwnPages : Lookup(n, b, q) = Lookup(m, b, q)
    <3>1. \A b \in Procs, q \in Pages : Lookup(c, b, q) = Lookup(m, b, q)
      BY <1>4, WidenedKeeps
    <3> QED
      BY <1>6, <1>10, <3>1 DEF OwnPages
  <2>4. n.free \in Int /\ m.free <= n.free
    BY <1>1, <1>3, FreeIsInt
  <2>5. \A b \in Dirs, j \in DirIndex :
          n.dir[b][j] # NONE => /\ n.dir[b][j].address \notin D
                                /\ \/ \E a \in Dirs : n.dir[b][j] = m.dir[a][j]
                                   \/ ~(n.dir[b][j].address < m.free)
    BY <2>1, <2>2
  <2>6. \A f \in D : f \in D \/ ~(f < m.free)
    OBVIOUS
  <2> QED
    BY <1>1, <2>3, <2>4, <2>5, <2>6, UsedMore
<1> QED
  BY <1>16, <1>17

(* alloc_page keeps frames to one use; its frame may become a directory. *)
LEMMA AllocUsed ==
    ASSUME NEW m, Good(m), cr3 \in Dirs, NEW D, D \subseteq Frames(m), UsedOnce(m, D),
           NEW a, a = alloc_page(m), a.free \in Pages, NEW E, E \subseteq D \cup {m.free}
    PROVE  UsedOnce(a, E) /\ E \subseteq Frames(a) /\ (m.free \notin E => Unused(a, E, m.free))
<1>1. IsMem(m) /\ Sound(m)
  BY DEF Good
<1>2. Widened(m, a)
  BY AllocGood
<1>3. a.dir = m.dir /\ a.free = m.free + 1
  BY <1>1, AllocSound DEF AllocResult
<1>4. /\ m.free \in Int /\ a.free \in Int /\ m.free <= a.free /\ FREE_FIRST \in Int
      /\ FREE_FIRST <= m.free
  BY <1>1, <1>3, FreeIsInt
<1>5. Unused(m, D, m.free)
  BY <1>1, FreshUnused
<1>6. \A c \in Procs, q \in OwnPages : Lookup(a, c, q) = Lookup(m, c, q)
  BY <1>2, WidenedKeeps DEF OwnPages
<1>7. \A d \in Dirs, i \in DirIndex : a.dir[d][i] # NONE => a.dir[d][i].address \notin E
  BY <1>3, <1>5 DEF Unused, UsedOnce
<1>8. \A f \in E : f \in D \/ ~(f < m.free)
  BY <1>4
<1>9. UsedOnce(a, E)
  BY <1>1, <1>3, <1>4, <1>6, <1>7, <1>8, UsedMore
<1>10. E \subseteq Frames(a)
  BY <1>3, <1>4 DEF Frames
<1>11. m.free \notin E => Unused(a, E, m.free)
  BY <1>3, <1>5, <1>6 DEF Unused
<1> QED
  BY <1>9, <1>10, <1>11
=============================================================================
