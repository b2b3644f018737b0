------------------------------- MODULE Paging -------------------------------
(***************************************************************************)
(* Page directories and page tables (paging.cpp) and the pages they are    *)
(* made of (alloc_page, stdlib.cpp).                                       *)
(*                                                                         *)
(* Linear pages and physical frames are numbered alike.  The kernel's      *)
(* pages are one range, each mapped to the frame of its own number; the    *)
(* code reaches directories and tables by their physical addresses, which  *)
(* works wherever the directory in use maps those frames so.               *)
(* alloc_page takes frames one after the other and never gets one back.    *)
(***************************************************************************)
EXTENDS Integers, Sequences, FiniteSets

CONSTANTS
    Procs, kernel_dir,     \* the owners of page directories
    DIR_ENTRIES,           \* entries of a directory and of a table, 1024
    TABLE_ENTRIES,
    KERNEL_FIRST,          \* Kernel_maps: the pages from here to FREE_LAST,
    FREE_FIRST, FREE_LAST, \*   the last of them for alloc_page
    TEST_PAGE,             \* not_used_memory_start
    NONE                   \* an entry that is not present

Dirs == Procs \cup {kernel_dir}
DirIndex == 0 .. DIR_ENTRIES - 1
TableIndex == 0 .. TABLE_ENTRIES - 1
Pages == 0 .. DIR_ENTRIES * TABLE_ENTRIES - 1
KernelPages == KERNEL_FIRST .. FREE_LAST

ASSUME PagingConstants ==
    /\ kernel_dir \notin Procs
    /\ NONE \notin Pages /\ NONE \notin [address : Pages, user : BOOLEAN]
    /\ DIR_ENTRIES \in Nat \ {0} /\ TABLE_ENTRIES \in Nat \ {0}
    /\ KERNEL_FIRST \in Nat /\ KERNEL_FIRST <= FREE_FIRST /\ FREE_FIRST <= FREE_LAST
    /\ FREE_FIRST \in Nat /\ FREE_LAST \in Pages
    /\ {TEST_PAGE, TEST_PAGE + 1} \subseteq Pages \ KernelPages

VARIABLES
    page_directory,     \* the frame of each directory
    dir,                \* dir[d][i]: entry i of the directory of d
    table,              \* table[f]: an allocated frame, read as a page table
    free_memory_page,   \* the next frame of alloc_page
    cr3,                \* the directory in use
    is_paging_enabled,
    lost                \* page faults without end, or the handler's panic

tables == <<dir, table, free_memory_page, lost>>
paging == <<page_directory, tables, cr3, is_paging_enabled>>

Entry == [address : Pages, user : BOOLEAN] \cup {NONE}
Empty(S) == [i \in S |-> NONE]
(* f, with y at x. *)
With(f, x, y) == [z \in DOMAIN f \cup {x} |-> IF z = x THEN y ELSE f[z]]
Allocated == FREE_FIRST .. free_memory_page - 1

(* The entry that translates a page. *)
Lookup(m, d, page) ==
    LET e == m.dir[d][page \div TABLE_ENTRIES]
    IN  IF e = NONE THEN NONE ELSE m.table[e.address][page % TABLE_ENTRIES]

(* What a call changes is a record, so that the next can go on from it. *)
Now == [dir |-> dir, table |-> table, free |-> free_memory_page, lost |-> lost]

Becomes(m) == /\ dir' = m.dir /\ table' = m.table
              /\ free_memory_page' = m.free /\ lost' = m.lost

Translation(d, page) == Lookup(Now, d, page)

(* Entry k of the table in frame t is written. *)
Put(m, t, k, frame, user) ==
    [m EXCEPT !.table[t][k] = [address |-> frame, user |-> user]]

-----------------------------------------------------------------------------
(* Fault: the handler forgets to map the page that faulted. *)
TouchedInVain(m, frame) == m

(* The kernel reads or writes a frame.  If the directory in use does not   *)
(* map it, the page fault handler maps it in the kernel's.  That needs a   *)
(* page table there: alloc_page for one would fault on the next frame, and *)
(* so on.  In the directory of a process the new mapping does not help and *)
(* the instruction faults again; or, inside a page, the handler panics     *)
(* over an address that is not aligned.  In the kernel's the first access  *)
(* to a frame is alloc_page's, at its start.                               *)
Touched(m, frame) ==
    LET e == m.dir[kernel_dir][frame \div TABLE_ENTRIES]
    IN  IF ~is_paging_enabled \/ Lookup(m, cr3, frame) # NONE THEN m
        ELSE IF cr3 = kernel_dir /\ e # NONE
        THEN Put(m, e.address, frame % TABLE_ENTRIES, frame, FALSE)
        ELSE [m EXCEPT !.lost = TRUE]

(* The frame handed out is m.free; it is filled with zeros. *)
alloc_page(m) ==
    LET cleared == Touched(m, m.free)
    IN  [cleared EXCEPT !.free = @ + 1, !.table = With(@, m.free, Empty(TableIndex))]

(* Fault: where the kernel has a page table, a process gets that one. *)
MappingSharesTables(m, d, page, frame, user) ==
    LET i == page \div TABLE_ENTRIES
        e == m.dir[kernel_dir][i]
        made == IF m.dir[d][i] # NONE THEN m
                ELSE IF e # NONE THEN [m EXCEPT !.dir[d][i] = e]
                ELSE [alloc_page(m) EXCEPT !.dir[d][i] = [address |-> m.free, user |-> user]]
    IN  Put(made, made.dir[d][i].address, page % TABLE_ENTRIES, frame, user)

(* One page of directory d; its page table is allocated when there is none.*)
add_memory_mapping(m, d, page, frame, user) ==
    LET i == page \div TABLE_ENTRIES
        made == IF m.dir[d][i] # NONE THEN m
                ELSE [alloc_page(m) EXCEPT !.dir[d][i] = [address |-> m.free, user |-> user]]
        t == made.dir[d][i].address
    IN  Put(Touched(made, t), t, page % TABLE_ENTRIES, frame, user)

(* Fault: the page is mapped in the directory in use. *)
MappingInCr3(m, page, frame) == add_memory_mapping(m, cr3, page, frame, FALSE)

add_kernel_memory_mapping(m, page, frame) ==
    add_memory_mapping(m, kernel_dir, page, frame, FALSE)

(* Fault: only the kernel's own directory gets the kernel's pages. *)
KernelOnlyMappings(m, d) ==
    LET m_[page \in KERNEL_FIRST - 1 .. FREE_LAST] ==
            IF page < KERNEL_FIRST \/ d # kernel_dir THEN m
            ELSE add_memory_mapping(m_[page - 1], d, page, page, FALSE)
    IN  m_[FREE_LAST]

add_kernel_mappings(m, d) ==
    LET m_[page \in KERNEL_FIRST - 1 .. FREE_LAST] ==   \* after this page
            IF page < KERNEL_FIRST THEN m
            ELSE add_memory_mapping(m_[page - 1], d, page, page, d # kernel_dir)
    IN  m_[FREE_LAST]

PagingInit ==
    /\ page_directory = [d \in Dirs |-> NONE]
    /\ dir = [d \in Dirs |-> Empty(DirIndex)] /\ table = << >>
    /\ free_memory_page = FREE_FIRST
    /\ cr3 = kernel_dir /\ is_paging_enabled = FALSE /\ lost = FALSE

(* A directory is a page of its own. *)
NewDirectory(d) == /\ page_directory' = [page_directory EXCEPT ![d] = free_memory_page]
                   /\ Becomes(alloc_page(Now))

prepare_kernel_paging ==
    /\ page_directory' = [page_directory EXCEPT ![kernel_dir] = free_memory_page]
    /\ Becomes(add_kernel_mappings(alloc_page(Now), kernel_dir))
    /\ UNCHANGED <<cr3, is_paging_enabled>>

(* A page of the test area is mapped to the frame after its own; what was  *)
(* written to that frame is then read through it.                          *)
ksetup_kernel_paging ==
    /\ Becomes(add_kernel_memory_mapping(Now, TEST_PAGE, TEST_PAGE + 1))
    /\ cr3' = kernel_dir /\ is_paging_enabled' = TRUE
    /\ UNCHANGED page_directory

(* The entry of the page table start lies in, and no other. *)
copy_process_mapping(p, start) ==
    LET m == Touched(Now, page_directory[p])
        i == start \div TABLE_ENTRIES
    IN  Becomes(IF m.lost THEN m ELSE [m EXCEPT !.dir[kernel_dir][i] = m.dir[p][i]])

PagingTypeOK ==
    /\ page_directory \in [Dirs -> Pages \cup {NONE}]
    /\ dir \in [Dirs -> [DirIndex -> Entry]]
    /\ table \in [Allocated -> [TableIndex -> Entry]]
    /\ free_memory_page \in Pages
    /\ cr3 \in Dirs /\ is_paging_enabled \in BOOLEAN /\ lost \in BOOLEAN

-----------------------------------------------------------------------------
(* The inductive invariant: a page table is an allocated frame, used at    *)
(* one place of one directory, or of a process's and the kernel's.         *)
TablesOwned(m) ==
    /\ \A d \in Dirs, i \in DirIndex :
         m.dir[d][i] # NONE => m.dir[d][i].address \in FREE_FIRST .. m.free - 1
    /\ \A c, d \in Dirs, i, j \in DirIndex :
         m.dir[c][i] # NONE /\ m.dir[d][j] # NONE
            /\ m.dir[c][i].address = m.dir[d][j].address =>
              /\ i = j /\ m.dir[c][i] = m.dir[d][j]
              /\ c = d \/ kernel_dir \in {c, d}

Sound(m) ==
    /\ m.free \in Pages /\ FREE_FIRST <= m.free /\ m.lost \in BOOLEAN
    /\ m.dir \in [Dirs -> [DirIndex -> Entry]]
    /\ m.table \in [FREE_FIRST .. m.free - 1 -> [TableIndex -> Entry]]
    /\ TablesOwned(m)

NotShared(m) == \A d \in Procs, i \in DirIndex :
                   m.dir[d][i] # NONE => m.dir[d][i] # m.dir[kernel_dir][i]

MapsKernel(m, d) == \A page \in KernelPages : Lookup(m, d, page) # NONE

(* From FREE_FIRST on, the kernel has pages at their own addresses and     *)
(* tables to itself, and a process has nothing after the mapped region.    *)
Own(m) == \A page \in Pages :
            page >= FREE_FIRST /\ Lookup(m, kernel_dir, page) # NONE =>
              Lookup(m, kernel_dir, page).address = page
Apart(m) == \A q \in Procs, i \in DirIndex :
              i >= FREE_FIRST \div TABLE_ENTRIES /\ m.dir[q][i] # NONE =>
                m.dir[q][i] # m.dir[kernel_dir][i]
Below(m) == \A q \in Procs, page \in Pages : page > FREE_LAST => Lookup(m, q, page) = NONE

(* The kernel's directory maps every frame handed out. *)
Reached(m) == \A f \in FREE_FIRST .. m.free - 1 : Lookup(m, kernel_dir, f) # NONE

(* A frame that is a page of a process is nothing else, no directory, of   *)
(* those in D, no table, and no other page; and a table is no directory.   *)
UsedOnce(m, D) ==
    /\ \A d \in Dirs, i \in DirIndex : m.dir[d][i] # NONE => m.dir[d][i].address \notin D
    /\ \A q \in Procs, page \in Pages \ KernelPages : Lookup(m, q, page) # NONE =>
         LET f == Lookup(m, q, page).address
         IN  /\ f < m.free
             /\ f >= FREE_FIRST =>
                  /\ f \notin D
                  /\ \A d \in Dirs, i \in DirIndex : m.dir[d][i] # NONE => m.dir[d][i].address # f
                  /\ \A r \in Procs, other \in Pages \ KernelPages :
                       Lookup(m, r, other) # NONE /\ Lookup(m, r, other).address = f =>
                         r = q /\ other = page
=============================================================================
