---------------------------- MODULE LoaderProofs ----------------------------
(***************************************************************************)
(* Kernel start, program loading and the page tables of running processes, *)
(* for any number of processes, any programs and any layout of memory that *)
(* keeps programs below the kernel.                                        *)
(*                                                                         *)
(* alloc_page does not check whether there is a frame left, so everything  *)
(* here is about runs in which the frames do not run out.                  *)
(***************************************************************************)
EXTENDS Loader, PagingProofs, FiniteSetTheorems

-----------------------------------------------------------------------------
(* What an action does to the page tables.                                 *)

(* A call's result becomes the state. *)
LEMMA BecomesNow ==
    ASSUME NEW n, IsMem(n), Becomes(n)
    PROVE  Now' = n
  BY DEF IsMem, Becomes, Now

(* The fields of the state before a step. *)
LEMMA NowParts ==
    /\ IsMem(Now) /\ Now.dir = dir /\ Now.table = table
    /\ Now.free = free_memory_page /\ Now.lost = lost
  BY DEF IsMem, Now

(* The fields of the state after it. *)
LEMMA NextParts ==
    /\ IsMem(Now') /\ Now'.dir = dir' /\ Now'.table = table'
    /\ Now'.free = free_memory_page' /\ Now'.lost = lost'
  BY DEF IsMem, Now

(* What the invariant says of the state a call starts from. *)
Standing == /\ Sound(Now) /\ cr3 \in Dirs /\ Reach(Now) /\ Ready \subseteq Procs
            /\ kernel_dir \in Dirs /\ Procs \subseteq Dirs /\ free_memory_page \in Nat

(* The directory in use maps the kernel, or paging is off. *)
LEMMA InvStanding ==
    ASSUME LoaderInv
    PROVE  Standing
<1>1. /\ Sound(Now) /\ cr3 \in Ready \cup {kernel_dir}
      /\ \A q \in Ready : MapsKernel(Now, q)
      /\ pc = "prepare_kernel_paging" => ~is_paging_enabled
      /\ pc # "prepare_kernel_paging" => MapsKernel(Now, kernel_dir)
      /\ pc # "schedular" => cr3 = kernel_dir
  BY DEF LoaderInv, DirectoryInv
<1>2. Ready \subseteq Procs /\ free_memory_page \in Nat
  BY PagingConstants DEF LoaderInv, TypeOK, PagingTypeOK, Pages
<1>3. is_paging_enabled => MapsKernel(Now, cr3)
  BY <1>1
<1> QED
  BY <1>1, <1>2, <1>3 DEF Standing, Dirs, Reach

(* prepare_kernel_paging maps the kernel's pages in its directory. *)
LEMMA PrepareMaps ==
    ASSUME Standing, prepare_kernel_paging, free_memory_page' \in Pages
    PROVE  MapResult(Now, Now', kernel_dir, KernelPages)
<1>1. PICK a : a = alloc_page(Now)
  OBVIOUS
<1>2. PICK n : n = add_kernel_mappings(a, kernel_dir)
  OBVIOUS
<1>3. IsMem(a) /\ a.free = free_memory_page + 1 /\ a.free \in Nat
  BY <1>1, NowParts, AllocFree DEF Standing
<1>4. WalkGood(a, n, kernel_dir, FREE_LAST)
  BY <1>2, <1>3, KernelMapped DEF Standing
<1>5. IsMem(n) /\ n.free \in Nat /\ a.free <= n.free
  BY <1>4 DEF WalkGood
<1>6. Now' = n
  BY <1>1, <1>2, <1>5, BecomesNow DEF prepare_kernel_paging
<1>7. n.free \in Pages /\ a.free \in Pages
  <2>1. n.free \in Pages
    BY <1>6, NextParts
  <2> QED
    BY <1>3, <1>5, <2>1, PagingConstants DEF Pages
<1>8. AllocResult(Now, a)
  BY <1>1, <1>7, NowParts, AllocSound DEF Standing
<1>9. MapResult(Now, a, kernel_dir, {})
  BY <1>8, NowParts, AllocMaps DEF Standing
<1>10. Sound(a)
  BY <1>8 DEF AllocResult
<1>11. MapResult(a, n, kernel_dir, KernelPages)
  BY <1>4, <1>7, <1>10 DEF WalkGood, KernelPages
<1>12. MapResult(Now, n, kernel_dir, {} \cup KernelPages)
  <2>1. {} \subseteq Pages /\ KernelPages \subseteq Pages
    BY KernelIsPages
  <2> QED
    BY <1>9, <1>11, <2>1, MapMore DEF Standing
<1>13. {} \cup KernelPages = KernelPages
  OBVIOUS
<1> QED
  BY <1>6, <1>12, <1>13

(* One call of add_memory_mapping. *)
LEMMA MappingMaps ==
    ASSUME Standing, NEW d \in Dirs, NEW page \in Pages, NEW frame \in Pages, NEW user \in BOOLEAN,
           Becomes(add_memory_mapping(Now, d, page, frame, user)), free_memory_page' \in Pages
    PROVE  MapResult(Now, Now', d, {page})
<1>1. PICK n : n = add_memory_mapping(Now, d, page, frame, user)
  OBVIOUS
<1>2. IsMem(n)
  BY <1>1, NowParts, MapFree
<1>3. Now' = n
  BY <1>1, <1>2, BecomesNow
<1>4. n.free \in Pages
  BY <1>3, NextParts
<1> QED
  BY <1>1, <1>3, <1>4, NowParts, MapSound DEF Standing

(* One call of alloc_page. *)
LEMMA AllocationMaps ==
    ASSUME Standing, Becomes(alloc_page(Now)), free_memory_page' \in Pages, NEW d
    PROVE  MapResult(Now, Now', d, {}) /\ free_memory_page' = free_memory_page + 1
<1>1. PICK n : n = alloc_page(Now)
  OBVIOUS
<1>2. IsMem(n) /\ n.free = free_memory_page + 1
  BY <1>1, NowParts, AllocFree
<1>3. Now' = n
  BY <1>1, <1>2, BecomesNow
<1>4. n.free \in Pages
  BY <1>3, NextParts
<1>5. AllocResult(Now, n)
  BY <1>1, <1>4, NowParts, AllocSound DEF Standing
<1>6. MapResult(Now, n, d, {})
  BY <1>5, NowParts, AllocMaps DEF Standing
<1> QED
  BY <1>2, <1>3, <1>6, NextParts

(* A new page of process d. *)
LEMMA FillMaps ==
    ASSUME Standing, NEW d \in Procs, NEW page \in Pages, free_memory_page' \in Pages,
           Becomes(add_memory_mapping(alloc_page(Now), d, page, free_memory_page, TRUE))
    PROVE  /\ MapResult(Now, Now', d, {page})
           /\ Lookup(Now', d, page).address = free_memory_page /\ Lookup(Now', d, page).user
           /\ free_memory_page' > free_memory_page
<1>1. PICK a : a = alloc_page(Now)
  OBVIOUS
<1>2. PICK n : n = add_memory_mapping(a, d, page, free_memory_page, TRUE)
  OBVIOUS
<1>3. IsMem(a) /\ a.free = free_memory_page + 1 /\ a.free \in Nat
  BY <1>1, NowParts, AllocFree DEF Standing
<1>4. IsMem(n) /\ n.free \in {a.free, a.free + 1}
  BY <1>2, <1>3, MapFree
<1>5. Now' = n
  BY <1>1, <1>2, <1>4, BecomesNow
<1>6. n.free \in Pages /\ a.free \in Pages
  <2>1. n.free \in Pages
    BY <1>5, NextParts
  <2> QED
    BY <1>3, <1>4, <2>1, PagingConstants DEF Pages
<1>7. AllocResult(Now, a)
  BY <1>1, <1>6, NowParts, AllocSound DEF Standing
<1>8. MapResult(Now, a, d, {}) /\ Sound(a)
  BY <1>7, NowParts, AllocMaps DEF Standing, AllocResult
<1>9. d \in Dirs /\ free_memory_page \in Pages /\ TRUE \in BOOLEAN /\ cr3 \in Dirs
  BY NowParts, FreeIsInt DEF Standing
<1>10. /\ MapResult(a, n, d, {page})
       /\ Lookup(n, d, page) = [address |-> free_memory_page, user |-> TRUE]
  <2>1. PICK user \in BOOLEAN : user = TRUE
    OBVIOUS
  <2>2. PICK f \in Pages : f = free_memory_page
    BY <1>9
  <2>3. n = add_memory_mapping(a, d, page, f, user)
    BY <1>2, <2>1, <2>2
  <2>4. MapResult(a, n, d, {page}) /\ Lookup(n, d, page) = [address |-> f, user |-> user]
    <3>1. IsMem(a) /\ Sound(a) /\ d \in Dirs /\ cr3 \in Dirs /\ n.free \in Pages
      BY <1>3, <1>6, <1>8, <1>9
    <3> QED
      BY ONLY <2>3, <3>1, MapSound
  <2> QED
    BY <2>1, <2>2, <2>4
<1>11. MapResult(Now, n, d, {} \cup {page})
  <2>1. {} \subseteq Pages /\ {page} \subseteq Pages
    OBVIOUS
  <2> QED
    BY <1>8, <1>9, <1>10, <2>1, MapMore DEF Standing
<1>12. {} \cup {page} = {page}
  OBVIOUS
<1>13. n.free > free_memory_page
  BY <1>3, <1>4 DEF Standing
<1>14. Lookup(n, d, page).address = free_memory_page /\ Lookup(n, d, page).user
  BY <1>10
<1> QED
  BY <1>5, <1>11, <1>12, <1>13, <1>14, NextParts

(* The kernel's pages in the directory of process d. *)
LEMMA KernelMaps ==
    ASSUME Standing, NEW d \in Procs, Becomes(add_kernel_mappings(Now, d)),
           free_memory_page' \in Pages
    PROVE  MapResult(Now, Now', d, KernelPages) /\ InPlace(Now, Now', d, KernelPages)
<1>1. PICK n : n = add_kernel_mappings(Now, d)
  OBVIOUS
<1>2. Now.free \in Nat /\ d \in Dirs
  BY NowParts DEF Standing
<1>3. WalkGood(Now, n, d, FREE_LAST)
  BY <1>1, <1>2, NowParts, KernelMapped DEF Standing
<1>4. IsMem(n)
  BY <1>3 DEF WalkGood
<1>5. Now' = n
  BY <1>1, <1>4, BecomesNow
<1>6. n.free \in Pages
  BY <1>5, NextParts
<1> QED
  BY <1>3, <1>5, <1>6 DEF WalkGood, KernelPages, Standing

(* One call of copy_process_mapping. *)
LEMMA CopyMaps ==
    ASSUME Standing, NEW d \in Procs, NEW start \in Pages, copy_process_mapping(d, start),
           page_directory[d] \in Allocated, MapsKernel(Now, d), MapsKernel(Now, kernel_dir)
    PROVE  CopyResult(Now, Now')
<1>1. PICK c : c = Touched(Now, page_directory[d])
  OBVIOUS
<1>2. PICK n : n = CopyOf(c, d, DirOf(start))
  OBVIOUS
<1>3. page_directory[d] \in Frames(Now)
  BY NowParts DEF Allocated, Frames
<1>4. DirOf(start) \in DirIndex
  BY PageParts
<1>5. CopyResult(Now, n)
  BY <1>1, <1>2, <1>3, <1>4, NowParts, CopySound DEF Standing
<1>6. Becomes(n)
  BY <1>1, <1>2 DEF copy_process_mapping, CopyOf, Entered, DirOf
<1>7. Now' = n
  BY <1>5, <1>6, BecomesNow DEF CopyResult
<1> QED
  BY <1>5, <1>7

-----------------------------------------------------------------------------
(* What the actions do to everything else.                                 *)

(* A segment is being copied. *)
BytesLeft == bytes_to_copy > 0 => /\ p \in Procs /\ segment \in DOMAIN program[p].segments
                                  /\ phentry.memsz > 0

Control ==
    /\ pc \in {"prepare_kernel_paging", "ksetup_kernel_paging", "kernel_main",
               "segments", "add_to_GDT", "schedular"}
    /\ allocated_process_id \in 1 .. Cardinality(Procs) + 1
    /\ program \in Seq(Programs) /\ Len(program) = allocated_process_id - 1
    /\ segment \in Nat /\ segment >= 1 /\ bytes_to_copy \in Nat /\ src_addr \in Nat
    /\ GDT_INDEX \in 4 .. GDT_SIZE /\ ready_queue \in Seq(Procs)
    /\ BytesLeft

(* Where execv is when it loads the process p. *)
Loading == p \in Procs /\ program[p] \in Programs

(* Process identifiers are the first numbers. *)
LEMMA ProcsAreNumbers ==
    /\ Cardinality(Procs) \in Nat /\ Procs = 1 .. Cardinality(Procs)
    /\ PAGE_SIZE \in Nat /\ PAGE_SIZE > 0 /\ GDT_SIZE \in Nat
  BY LoaderConstants, FS_CardinalityType

(* The invariant types the variables of kernel_main and execv. *)
LEMMA InvControl ==
    ASSUME LoaderInv
    PROVE  Control /\ (pc \in {"segments", "add_to_GDT"} => Loading)
<1>1. Control
  BY DEF LoaderInv, TypeOK, LoadInv, Control, BytesLeft
<1>2. ASSUME pc \in {"segments", "add_to_GDT"} PROVE Loading
  <2>1. p \in Procs
    BY <1>2 DEF LoaderInv, LoadInv
  <2>2. p \in 1 .. Len(program) /\ program \in Seq(Programs)
    BY <1>1, <2>1, ProcsAreNumbers DEF Control, p
  <2> QED
    BY <2>1, <2>2 DEF Loading
<1> QED
  BY <1>1, <1>2

(* The program header at hand. *)
LEMMA Header ==
    ASSUME Loading, segment \in DOMAIN program[p].segments
    PROVE  /\ phentry.vaddr \in Nat /\ phentry.offset \in Nat
           /\ phentry.filesz \in Nat /\ phentry.memsz \in Nat
<1>1. program[p].segments \in Seq(Segment)
  BY LoaderConstants DEF Loading
<1>2. phentry \in Segment
  BY <1>1 DEF phentry
<1> QED
  BY <1>2 DEF Segment

(* The first page of a segment and the next are the program's. *)
LEMMA HeaderPages ==
    ASSUME Loading, segment \in DOMAIN program[p].segments, phentry.memsz > 0
    PROVE  \A page \in {phentry.vaddr \div PAGE_SIZE, phentry.vaddr \div PAGE_SIZE + 1} :
             page \in Pages /\ page \notin KernelPages /\ page \notin STACK_PAGES
<1>1. phentry.vaddr \in Nat /\ phentry.memsz \in Nat
  BY Header
<1>2. PICK first \in Int, last \in Int :
        /\ first = phentry.vaddr \div PAGE_SIZE
        /\ last = (phentry.vaddr + phentry.memsz - 1) \div PAGE_SIZE
  BY <1>1, ProcsAreNumbers, DivMod
<1>3. first <= last
  <2>1. PICK x \in Int, y \in Int : x = phentry.vaddr /\ y = phentry.vaddr + phentry.memsz - 1
    BY <1>1
  <2>2. x <= y /\ PAGE_SIZE \in Int /\ PAGE_SIZE > 0
    BY <1>1, <2>1, ProcsAreNumbers
  <2>3. x \div PAGE_SIZE <= y \div PAGE_SIZE
    BY <2>2, DivMonotone
  <2> QED
    BY <1>2, <2>1, <2>3
<1>4. first .. last + 1 \subseteq Pages \ (KernelPages \cup STACK_PAGES)
  <2>1. PICK g, e : g = program[p] /\ e = phentry
    OBVIOUS
  <2>2. g \in Programs /\ segment \in DOMAIN g.segments /\ e = g.segments[segment] /\ e.memsz > 0
    BY <2>1 DEF Loading, phentry
  <2>3. e.vaddr \div PAGE_SIZE .. (e.vaddr + e.memsz - 1) \div PAGE_SIZE + 1
          \subseteq Pages \ (KernelPages \cup STACK_PAGES)
    BY <2>2, LoaderConstants, Zenon
  <2> QED
    BY <1>2, <2>1, <2>3
<1>5. first \in first .. last + 1 /\ first + 1 \in first .. last + 1
  BY <1>3
<1> QED
  BY <1>2, <1>4, <1>5

(* The part of a segment in its first page is part of the segment. *)
LEMMA FirstIsPart ==
    ASSUME Loading, segment \in DOMAIN program[p].segments
    PROVE  /\ FirstBytes(phentry).n \in Nat /\ FirstBytes(phentry).n <= phentry.memsz
<1>1. phentry.vaddr \in Nat /\ phentry.memsz \in Nat
  BY Header
<1>2. PICK o \in Int : o = phentry.vaddr % PAGE_SIZE /\ 0 <= o /\ o < PAGE_SIZE
  BY <1>1, ProcsAreNumbers, DivMod
<1>3. FirstBytes(phentry).n = IF phentry.memsz + o < PAGE_SIZE THEN phentry.memsz
                              ELSE PAGE_SIZE - o
  BY <1>2 DEF FirstBytes
<1> QED
  BY <1>1, <1>2, <1>3, ProcsAreNumbers

(* A step that leaves the processes and the segment alone. *)
LEMMA ControlKept ==
    ASSUME Control, pc' \in {"prepare_kernel_paging", "ksetup_kernel_paging", "kernel_main",
                             "segments", "add_to_GDT", "schedular"},
           UNCHANGED <<allocated_process_id, loading>>, GDT_INDEX' \in 4 .. GDT_SIZE,
           ready_queue' \in Seq(Procs)
    PROVE  Control'
<1>1. UNCHANGED <<allocated_process_id, program, segment, bytes_to_copy, src_addr>>
  BY DEF loading
<1>2. BytesLeft'
  BY <1>1 DEF Control, BytesLeft, p, phentry
<1> QED
  BY <1>1, <1>2 DEF Control

(* execv starts with the first segment of the new process. *)
LEMMA ControlExecv ==
    ASSUME LoaderInv, NEW g \in Programs, Execv(g)
    PROVE  Control'
<1>1. Control
  BY InvControl
<1>2. /\ allocated_process_id \in Procs /\ allocated_process_id' = allocated_process_id + 1
      /\ program' = Append(program, g) /\ segment' = 1 /\ bytes_to_copy' = 0
      /\ pc' = "segments" /\ UNCHANGED <<src_addr, GDT_INDEX, ready_queue>>
  BY DEF Execv
<1>3. allocated_process_id' \in 1 .. Cardinality(Procs) + 1
  BY <1>1, <1>2, ProcsAreNumbers DEF Control
<1>4. program' \in Seq(Programs) /\ Len(program') = allocated_process_id' - 1
  BY <1>1, <1>2, ProcsAreNumbers DEF Control
<1>5. BytesLeft'
  BY <1>2 DEF BytesLeft
<1> QED
  BY <1>1, <1>2, <1>3, <1>4, <1>5 DEF Control

(* A page of the segment has been copied; the next one is due, or the next *)
(* segment.                                                                *)
LEMMA ControlCopied ==
    ASSUME Control, Loading, segment \in DOMAIN program[p].segments, phentry.memsz > 0,
           bytes_to_copy' \in Nat, src_addr' \in Nat,
           segment' = IF bytes_to_copy' = 0 THEN segment + 1 ELSE segment,
           UNCHANGED <<pc, allocated_process_id, program, ready_queue, GDT_INDEX>>
    PROVE  Control'
<1>1. segment' \in Nat /\ segment' >= 1
  BY DEF Control
<1>2. BytesLeft'
  <2> SUFFICES ASSUME bytes_to_copy' > 0
               PROVE  /\ p' \in Procs /\ segment' \in DOMAIN program'[p'].segments
                      /\ phentry'.memsz > 0
    BY DEF BytesLeft
  <2>1. p' = p /\ segment' = segment /\ program' = program
    BY DEF p
  <2> QED
    BY <2>1 DEF Loading, phentry
<1> QED
  BY <1>1, <1>2 DEF Control

(* There is a segment to load. *)
LEMMA InSegments ==
    ASSUME LoaderInv, At("segments"), bytes_to_copy = 0, segment <= Len(program[p].segments)
    PROVE  Loading /\ segment \in DOMAIN program[p].segments
<1>1. Loading /\ segment \in Nat /\ segment >= 1
  BY InvControl DEF At, Control
<1>2. program[p].segments \in Seq(Segment)
  BY <1>1, LoaderConstants DEF Loading
<1> QED
  BY <1>1, <1>2

-----------------------------------------------------------------------------
(* The parts of the invariant that depend on the page tables.              *)

(* Who is ready depends on the queue only. *)
LEMMA ReadyKept ==
    ASSUME ready_queue' = ready_queue
    PROVE  Ready' = Ready
  BY DEF Ready

(* TypeOK, from the tables' soundness and the rest. *)
LEMMA TypeStep ==
    ASSUME Control', Sound(Now'), page_directory' \in [Dirs -> Pages \cup {NONE}], cr3' \in Dirs,
           is_paging_enabled' \in BOOLEAN, DOMAIN memory' \subseteq Allocated'
    PROVE  TypeOK'
<1>1. /\ dir' \in [Dirs -> [DirIndex -> Entry]] /\ free_memory_page' \in Pages
      /\ table' \in [FREE_FIRST .. free_memory_page' - 1 -> [TableIndex -> Entry]]
      /\ lost' \in BOOLEAN
  BY NextParts DEF Sound
<1>2. PagingTypeOK'
  BY <1>1 DEF PagingTypeOK, Allocated
<1>3. Ready' \subseteq Procs
  BY DEF Control, Ready
<1> QED
  BY <1>2, <1>3 DEF TypeOK, Control

(* Nothing is shared with the kernel, seen from each entry. *)
LEMMA PrivateAll ==
    ASSUME NEW m
    PROVE  NotShared(m) <=> \A c \in Procs, j \in DirIndex : Private(m, c, j)
  BY DEF NotShared, Private

(* A longer interval contains a shorter one. *)
LEMMA IntervalGrows ==
    ASSUME NEW a \in Int, NEW b \in Int, NEW c \in Int, b <= c
    PROVE  a .. b - 1 \subseteq a .. c - 1
  OBVIOUS

(* The end of one interval lies in a longer one. *)
LEMMA IntervalEnd ==
    ASSUME NEW a \in Int, NEW b \in Int, NEW c \in Int, a <= b, b < c
    PROVE  b \notin a .. b - 1 /\ b \in a .. c - 1
  OBVIOUS

(* alloc_page takes nothing back. *)
LEMMA AllocatedGrows ==
    ASSUME Standing, free_memory_page' \in Nat, free_memory_page <= free_memory_page'
    PROVE  Allocated \subseteq Allocated'
<1>1. PICK a \in Int, b \in Int, c \in Int :
        /\ a = FREE_FIRST /\ b = free_memory_page /\ c = free_memory_page' /\ b <= c
  BY PagingConstants DEF Standing
<1>2. a .. b - 1 \subseteq a .. c - 1
  BY <1>1, IntervalGrows
<1> QED
  BY <1>1, <1>2, Zenon DEF Allocated

(* Mapping pages in one directory preserves DirectoryInv. *)
LEMMA DirectoryStep ==
    ASSUME LoaderInv, ~lost, NEW d, NEW S, MapResult(Now, Now', d, S),
           ready_queue' = ready_queue, cr3' \in {cr3, kernel_dir},
           \A q \in Ready : page_directory'[q] = page_directory[q],
           allocated_process_id' \in Int, allocated_process_id <= allocated_process_id',
           \A q \in Procs : q >= allocated_process_id' => q # d,
           pc' = "schedular" <=> pc = "schedular", pc' # "prepare_kernel_paging",
           pc = "prepare_kernel_paging" => MapsKernel(Now', kernel_dir)
    PROVE  DirectoryInv' /\ Allocated \subseteq Allocated'
<1>1. Standing
  BY InvStanding
<1>2. /\ cr3 \in Ready \cup {kernel_dir} /\ \A q \in Ready : page_directory[q] \in Allocated
      /\ \A q \in Ready : MapsKernel(Now, q) /\ q < allocated_process_id
      /\ \A q \in Procs : q >= allocated_process_id => dir[q] = Empty(DirIndex)
      /\ pc # "schedular" => cr3 = kernel_dir /\ NotShared(Now)
      /\ pc # "prepare_kernel_paging" => MapsKernel(Now, kernel_dir)
  BY DEF LoaderInv, DirectoryInv
<1>3. /\ Sound(Now') /\ Grown(Now, Now') /\ LostLate(Now, Now')
      /\ \A c \in Dirs, j \in DirIndex : c # d => Now'.dir[c][j] = Now.dir[c][j]
      /\ \A c \in Procs, j \in DirIndex : Private(Now, c, j) => Private(Now', c, j)
  BY <1>1 DEF MapResult, Standing
<1>4. Ready' = Ready /\ Ready \subseteq Procs
  BY <1>1, ReadyKept DEF Standing
<1>5. LostOnlyBeyondRegion'
  BY <1>3, NowParts, NextParts DEF LostLate, LostOnlyBeyondRegion
<1>6. Allocated \subseteq Allocated'
  <2>1. free_memory_page' \in Nat /\ free_memory_page <= free_memory_page'
    BY <1>3, NowParts, NextParts, PagingConstants DEF Grown, Sound, Pages
  <2> QED
    BY <1>1, <2>1, AllocatedGrows
<1>7. \A c \in Dirs : MapsKernel(Now, c) => MapsKernel(Now', c)
  BY <1>1, <1>3, GrownMaps DEF Standing
<1>8. \A q \in Ready' : MapsKernel(Now', q) /\ q < allocated_process_id'
  <2>1. \A q \in Ready : q \in Int /\ allocated_process_id \in Int
    BY <1>4, ProcsAreNumbers, InvControl DEF Control
  <2>2. \A q \in Ready : q < allocated_process_id'
    BY <1>2, <2>1
  <2> QED
    BY <1>1, <1>2, <1>4, <1>7, <2>2 DEF Standing
<1>9. ASSUME NEW q \in Procs, q >= allocated_process_id' PROVE dir'[q] = Empty(DirIndex)
  <2>1. q >= allocated_process_id /\ q # d /\ q \in Dirs
    BY <1>1, <1>9, ProcsAreNumbers, InvControl DEF Control, Standing
  <2>2. dir[q] = Empty(DirIndex)
    BY <1>2, <2>1
  <2>3. \A j \in DirIndex : dir'[q][j] = NONE
    BY <1>3, <2>1, <2>2, NowParts, NextParts DEF Empty
  <2>4. dir' \in [Dirs -> [DirIndex -> Entry]]
    BY <1>3, NextParts DEF Sound
  <2>5. dir'[q] \in [DirIndex -> Entry]
    BY <2>1, <2>4
  <2> QED
    BY <2>3, <2>5 DEF Empty
<1>10. pc' # "schedular" => cr3' = kernel_dir /\ NotShared(Now')
  BY <1>2, <1>3, PrivateAll
<1>11. MapsKernel(Now', kernel_dir)
  BY <1>1, <1>2, <1>7 DEF Standing
<1>12. \A q \in Ready' : page_directory'[q] \in Allocated'
  BY <1>2, <1>4, <1>6
<1>13. cr3' \in Ready' \cup {kernel_dir}
  BY <1>2, <1>4
<1> QED
  BY <1>3, <1>5, <1>6, <1>8, <1>9, <1>10, <1>11, <1>12, <1>13 DEF DirectoryInv

(* The stack and the kernel's pages of a process while others are mapped. *)
MemoryKept == \A f \in DOMAIN memory : f \in DOMAIN memory' /\ memory'[f] = memory[f]

(* The stack's pages are not the kernel's. *)
LEMMA StackPagesArePages == STACK_PAGES \subseteq Pages /\ STACK_PAGES \cap KernelPages = {}
  BY LoaderConstants

(* Another mapping leaves a process's stack and kernel pages in place. *)
LEMMA StackStep ==
    ASSUME LoaderInv, pc # "schedular", NEW d, NEW S, MapResult(Now, Now', d, S),
           NEW q \in Procs, MemoryKept
    PROVE  /\ (q # d \/ S \cap STACK_PAGES = {}) /\ StackEmpty(q) => StackEmpty(q)'
           /\ StackMapped(q) => StackMapped(q)'
           /\ (q # d \/ S \cap KernelPages = {}) /\ KernelInPlace(q) => KernelInPlace(q)'
<1>1. Sound(Now) /\ NotShared(Now) /\ q \in Dirs
  BY DEF LoaderInv, DirectoryInv, Dirs
<1>2. ASSUME NEW page \in Pages, q # d \/ page \notin S
      PROVE  Lookup(Now', q, page) = Lookup(Now, q, page)
  <2>1. Private(Now, q, DirOf(page))
    BY <1>1, PrivateAll, PageParts
  <2>2. Keeps(Now, Now', d, S)
    BY DEF MapResult
  <2> QED
    BY <1>2, <2>1, <2>2 DEF Keeps
<1>3. ASSUME q # d \/ S \cap STACK_PAGES = {}, StackEmpty(q) PROVE StackEmpty(q)'
  <2>1. \A page \in STACK_PAGES : Lookup(Now', q, page) = Lookup(Now, q, page)
    BY <1>2, <1>3, StackPagesArePages
  <2>2. \A page \in STACK_PAGES :
          Lookup(Now, q, page) # NONE => /\ Lookup(Now, q, page).address \in DOMAIN memory
                                         /\ memory[Lookup(Now, q, page).address] = Zeros
    BY <1>3 DEF StackEmpty, Translation
  <2>3. \A page \in STACK_PAGES :
          Lookup(Now', q, page) # NONE => /\ Lookup(Now', q, page).address \in DOMAIN memory'
                                          /\ memory'[Lookup(Now', q, page).address] = Zeros
    BY <2>1, <2>2 DEF MemoryKept
  <2> QED
    BY <2>3 DEF StackEmpty, Translation
<1>4. ASSUME StackMapped(q) PROVE StackMapped(q)'
  <2>1. \A page \in STACK_PAGES : Lookup(Now, q, page) # NONE /\ page \in Pages
    BY <1>4, StackPagesArePages DEF StackMapped, Translation
  <2>2. Grown(Now, Now')
    BY DEF MapResult
  <2>3. \A page \in STACK_PAGES : Lookup(Now', q, page) # NONE
    BY <1>1, <2>1, <2>2, GrownLookup
  <2> QED
    BY <2>3 DEF StackMapped, Translation
<1>5. ASSUME q # d \/ S \cap KernelPages = {}, KernelInPlace(q) PROVE KernelInPlace(q)'
  <2>1. \A page \in KernelPages : Lookup(Now', q, page) = Lookup(Now, q, page)
    BY <1>2, <1>5, KernelIsPages
  <2> QED
    BY <1>5, <2>1 DEF KernelInPlace, Translation
<1> QED
  BY <1>3, <1>4, <1>5

(* Mapping pages for a process that is not ready preserves LoadInv. *)
LEMMA LoadStep ==
    ASSUME LoaderInv, Control', pc # "schedular", pc' # "schedular", NEW d, NEW S,
           MapResult(Now, Now', d, S), MemoryKept, ready_queue' = ready_queue, d \notin Ready,
           pc' \in {"segments", "add_to_GDT"} =>
             p' \in Procs /\ p' \notin Ready /\ page_directory'[p'] \in Allocated' /\ StackEmpty(p)',
           pc' = "add_to_GDT" => StackMapped(p)' /\ KernelInPlace(p)'
    PROVE  LoadInv'
<1>1. Ready' = Ready /\ Ready \subseteq Procs
  BY ReadyKept, InvStanding DEF Standing
<1>2. \A q \in Ready : StackEmpty(q) /\ StackMapped(q) /\ KernelInPlace(q)
  BY DEF LoaderInv, LoadInv
<1>3. \A q \in Ready : q \in Procs /\ q # d
  BY <1>1
<1>4. \A q \in Ready : StackEmpty(q)' /\ StackMapped(q)' /\ KernelInPlace(q)'
  BY <1>2, <1>3, StackStep
<1> QED
  BY <1>1, <1>4 DEF LoadInv, Control, BytesLeft

-----------------------------------------------------------------------------
(* The steps of kernel_main and execv.                                     *)

(* The directories in use while pages are mapped. *)
LEMMA InvParts ==
    ASSUME LoaderInv
    PROVE  /\ page_directory \in [Dirs -> Pages \cup {NONE}] /\ is_paging_enabled \in BOOLEAN
           /\ DOMAIN memory \subseteq Allocated /\ cr3 \in Dirs /\ allocated_process_id \in Int
           /\ \A q \in Ready : q < allocated_process_id /\ q \in Procs /\ q \in Int
           /\ \A q \in Procs : q \in Int /\ q # kernel_dir
<1>1. TypeOK /\ DirectoryInv
  BY DEF LoaderInv
<1>2. \A q \in Procs : q \in Int /\ q # kernel_dir
  BY ProcsAreNumbers, PagingConstants
<1> QED
  BY <1>1, <1>2 DEF TypeOK, PagingTypeOK, DirectoryInv

(* The kernel's pages are mapped. *)
LEMMA PrepareStep ==
    ASSUME LoaderInv, PreparePaging, free_memory_page' \in Pages
    PROVE  LoaderInv'
<1>1. /\ ~lost /\ pc = "prepare_kernel_paging" /\ pc' = "ksetup_kernel_paging"
      /\ prepare_kernel_paging /\ UNCHANGED <<cr3, is_paging_enabled>>
      /\ page_directory' = [page_directory EXCEPT ![kernel_dir] = free_memory_page]
      /\ UNCHANGED <<allocated_process_id, loading, memory, GDT_INDEX, ready_queue>>
  BY DEF PreparePaging, At, prepare_kernel_paging
<1>2. Standing
  BY InvStanding
<1>3. MapResult(Now, Now', kernel_dir, KernelPages)
  BY <1>1, <1>2, PrepareMaps
<1>4. Control'
  BY <1>1, InvControl, ControlKept DEF Control
<1>5. MapsKernel(Now', kernel_dir)
  BY <1>3 DEF MapResult, MapsKernel
<1>6. DirectoryInv' /\ Allocated \subseteq Allocated'
  <2>1. \A q \in Ready : page_directory'[q] = page_directory[q]
    BY <1>1, InvParts DEF Dirs
  <2> QED
    BY <1>1, <1>3, <1>5, <2>1, InvParts, DirectoryStep
<1>7. LoadInv'
  BY <1>1, <1>3, <1>4, InvParts, LoadStep DEF MemoryKept
<1>8. TypeOK'
  <2>1. free_memory_page \in Pages
    BY <1>2, NowParts, FreeIsInt DEF Standing
  <2>2. page_directory' \in [Dirs -> Pages \cup {NONE}]
    BY <1>1, <2>1, InvParts
  <2> QED
    BY <1>1, <1>3, <1>4, <1>6, <2>2, InvParts, TypeStep DEF MapResult
<1> QED
  BY <1>6, <1>7, <1>8 DEF LoaderInv

(* The test page is mapped and paging enabled. *)
LEMMA EnableStep ==
    ASSUME LoaderInv, EnablePaging, free_memory_page' \in Pages
    PROVE  LoaderInv'
<1>1. /\ ~lost /\ pc = "ksetup_kernel_paging" /\ pc' = "kernel_main"
      /\ Becomes(add_memory_mapping(Now, kernel_dir, TEST_PAGE, TEST_PAGE + 1, FALSE))
      /\ cr3' = kernel_dir /\ is_paging_enabled' = TRUE /\ UNCHANGED page_directory
      /\ UNCHANGED <<allocated_process_id, loading, memory, GDT_INDEX, ready_queue>>
  BY DEF EnablePaging, At, ksetup_kernel_paging, add_kernel_memory_mapping
<1>2. Standing
  BY InvStanding
<1>3. MapResult(Now, Now', kernel_dir, {TEST_PAGE})
  <2>1. PICK page \in Pages, frame \in Pages, user \in BOOLEAN :
          page = TEST_PAGE /\ frame = TEST_PAGE + 1 /\ user = FALSE
    BY PagingConstants
  <2>2. Becomes(add_memory_mapping(Now, kernel_dir, page, frame, user)) /\ kernel_dir \in Dirs
    BY <1>1, <2>1 DEF Dirs
  <2>3. MapResult(Now, Now', kernel_dir, {page})
    BY <1>2, <2>2, MappingMaps
  <2> QED
    BY <2>1, <2>3
<1>4. Control'
  BY <1>1, InvControl, ControlKept DEF Control
<1>5. DirectoryInv' /\ Allocated \subseteq Allocated'
  BY <1>1, <1>3, InvParts, DirectoryStep
<1>6. LoadInv'
  BY <1>1, <1>3, <1>4, InvParts, LoadStep DEF MemoryKept
<1>7. TypeOK'
  <2>1. cr3' \in Dirs /\ is_paging_enabled' \in BOOLEAN
    BY <1>1 DEF Dirs
  <2> QED
    BY <1>1, <1>3, <1>4, <1>5, <2>1, InvParts, TypeStep DEF MapResult
<1> QED
  BY <1>5, <1>6, <1>7 DEF LoaderInv

(* A new process has no pages. *)
LEMMA ExecvStep ==
    ASSUME LoaderInv, NEW g \in Programs, Execv(g), free_memory_page' \in Pages
    PROVE  LoaderInv'
<1>1. /\ ~lost /\ pc = "kernel_main" /\ pc' = "segments" /\ allocated_process_id \in Procs
      /\ page_directory' = [page_directory EXCEPT ![allocated_process_id] = free_memory_page]
      /\ Becomes(alloc_page(Now)) /\ allocated_process_id' = allocated_process_id + 1
      /\ UNCHANGED <<memory, GDT_INDEX, ready_queue, cr3, is_paging_enabled>>
  BY DEF Execv, At, NewDirectory
<1>2. Standing
  BY InvStanding
<1>3. PICK d : d = allocated_process_id
  OBVIOUS
<1>4. MapResult(Now, Now', d, {}) /\ free_memory_page' = free_memory_page + 1
  BY <1>1, <1>2, AllocationMaps
<1>5. Control'
  BY ControlExecv
<1>6. p' = d /\ d \in Procs /\ d \in Int /\ d \notin Ready
  BY <1>1, <1>3, InvParts DEF p
<1>7. DirectoryInv' /\ Allocated \subseteq Allocated'
  <2>1. \A q \in Ready : page_directory'[q] = page_directory[q]
    BY <1>1, <1>3, <1>6, InvParts DEF Dirs
  <2>2. /\ allocated_process_id' \in Int /\ allocated_process_id <= allocated_process_id'
        /\ \A q \in Procs : q >= allocated_process_id' => q # d
    BY <1>1, <1>3, <1>6, InvParts
  <2> QED
    BY <1>1, <1>4, <2>1, <2>2, DirectoryStep
<1>8. free_memory_page \in Allocated' /\ free_memory_page \in Pages
  <2>1. free_memory_page \in Pages /\ FREE_FIRST <= free_memory_page /\ FREE_FIRST \in Int
    BY <1>2, NowParts, FreeIsInt DEF Standing
  <2> QED
    BY <1>2, <1>4, <2>1 DEF Allocated, Standing
<1>9. page_directory'[p'] \in Allocated' /\ page_directory' \in [Dirs -> Pages \cup {NONE}]
  BY <1>1, <1>3, <1>6, <1>8, InvParts DEF Dirs
<1>10. StackEmpty(p)'
  <2>1. dir[d] = Empty(DirIndex)
    BY <1>3, <1>6 DEF LoaderInv, DirectoryInv
  <2>2. \A page \in Pages : Lookup(Now, d, page) = NONE
    BY <2>1, NowParts, PageParts, LookupParts DEF Empty
  <2>3. StackEmpty(d)
    BY <2>2, StackPagesArePages DEF StackEmpty, Translation
  <2>4. StackEmpty(d)'
    BY <1>1, <1>4, <1>6, <2>3, StackStep DEF MemoryKept
  <2> QED
    BY <1>6, <2>4 DEF StackEmpty, Translation
<1>11. LoadInv'
  BY <1>1, <1>4, <1>5, <1>6, <1>9, <1>10, LoadStep DEF MemoryKept
<1>12. TypeOK'
  BY <1>1, <1>4, <1>5, <1>7, <1>9, InvParts, TypeStep DEF MapResult
<1> QED
  BY <1>7, <1>11, <1>12 DEF LoaderInv

(* Steps that leave the page tables alone. *)
TablesSame == UNCHANGED <<page_directory, dir, table, free_memory_page, lost,
                          is_paging_enabled, memory, allocated_process_id>>

(* Then so are the operators that read them. *)
LEMMA SameTables ==
    ASSUME TablesSame
    PROVE  Now' = Now /\ Allocated' = Allocated /\ p' = p /\ memory' = memory
  BY DEF TablesSame, Now, Allocated, p

(* LoadInv, with the state as parameters. *)
StackIn(m, mem, q) ==
    \A page \in STACK_PAGES :
      Lookup(m, q, page) # NONE => /\ Lookup(m, q, page).address \in DOMAIN mem
                                   /\ mem[Lookup(m, q, page).address] = Zeros
ReadyIn(m, q) == /\ \A page \in STACK_PAGES : Lookup(m, q, page) # NONE
                 /\ \A page \in KernelPages : /\ Lookup(m, q, page) # NONE
                                              /\ Lookup(m, q, page).address = page
LoadPart(s, q, R, d, A, m, mem) ==
    /\ s \in {"segments", "add_to_GDT"} =>
         q \in Procs /\ q \notin R /\ d[q] \in A /\ StackIn(m, mem, q)
    /\ s = "add_to_GDT" => ReadyIn(m, q)
    /\ s # "schedular" => \A r \in R : StackIn(m, mem, r) /\ ReadyIn(m, r)

(* LoadInv before a step. *)
LEMMA LoadForm ==
    LoadInv <=> /\ ready_queue \in Seq(Procs) /\ segment >= 1 /\ BytesLeft
                /\ LoadPart(pc, p, Ready, page_directory, Allocated, Now, memory)
  BY DEF LoadInv, BytesLeft, LoadPart, StackIn, ReadyIn, StackEmpty, StackMapped, KernelInPlace,
         Translation

(* LoadInv after it. *)
LEMMA LoadFormNext ==
    LoadInv' <=> /\ ready_queue' \in Seq(Procs) /\ segment' >= 1 /\ BytesLeft'
                 /\ LoadPart(pc', p', Ready', page_directory', Allocated', Now', memory')
  BY DEF LoadInv, BytesLeft, LoadPart, StackIn, ReadyIn, StackEmpty, StackMapped, KernelInPlace,
         Translation

(* The types are kept. *)
LEMMA SameType ==
    ASSUME LoaderInv, TablesSame, Control', cr3' \in Dirs
    PROVE  TypeOK'
<1>1. Sound(Now') /\ Allocated' = Allocated
  BY SameTables DEF LoaderInv, DirectoryInv
<1>2. UNCHANGED <<page_directory, is_paging_enabled, memory>>
  BY DEF TablesSame
<1> QED
  BY <1>1, <1>2, InvParts, TypeStep

(* The place in kernel_main, and who is ready, are as they were. *)
LEMMA SameStep ==
    ASSUME LoaderInv, TablesSame, Control', UNCHANGED <<pc, cr3, ready_queue>>
    PROVE  LoaderInv'
<1>1. TypeOK'
  BY InvParts, SameType
<1>2. Ready' = Ready
  BY ReadyKept
<1>3. /\ Now' = Now /\ Allocated' = Allocated /\ p' = p /\ memory' = memory
      /\ UNCHANGED <<page_directory, dir, lost, free_memory_page, is_paging_enabled,
                     allocated_process_id>>
  BY SameTables DEF TablesSame
<1>4. DirectoryInv'
  <2>1. DirectoryInv
    BY DEF LoaderInv
  <2>2. LostOnlyBeyondRegion'
    BY <1>3, <2>1 DEF DirectoryInv, LostOnlyBeyondRegion
  <2> QED
    BY <1>2, <1>3, <2>1, <2>2 DEF DirectoryInv
<1>5. LoadInv'
  <2>1. LoadPart(pc, p, Ready, page_directory, Allocated, Now, memory)
    BY LoadForm DEF LoaderInv
  <2>2. LoadPart(pc', p', Ready', page_directory', Allocated', Now', memory')
    BY <1>2, <1>3, <2>1
  <2>3. BytesLeft' /\ ready_queue' \in Seq(Procs) /\ segment' >= 1
    BY DEF Control
  <2> QED
    BY <2>2, <2>3, LoadFormNext
<1> QED
  BY <1>1, <1>4, <1>5 DEF LoaderInv

(* A fatal, or no step at all. *)
LEMMA FatalStep ==
    ASSUME LoaderInv, UNCHANGED <<paging, pc, allocated_process_id, loading, memory, GDT_INDEX,
                                  ready_queue>>
    PROVE  LoaderInv'
<1>1. TablesSame /\ UNCHANGED <<pc, cr3, ready_queue>>
  BY DEF TablesSame, paging, tables
<1>2. Control'
  BY InvControl, ControlKept DEF Control
<1> QED
  BY <1>1, <1>2, SameStep

(* An empty segment is skipped. *)
LEMMA SkipStep ==
    ASSUME LoaderInv, SkipSegment
    PROVE  LoaderInv'
<1>1. TablesSame /\ UNCHANGED <<pc, cr3, ready_queue>>
  BY DEF SkipSegment, KeepLoading, TablesSame, tables
<1>2. /\ bytes_to_copy = 0 /\ segment' = segment + 1
      /\ UNCHANGED <<pc, allocated_process_id, program, bytes_to_copy, src_addr, GDT_INDEX,
                     ready_queue>>
  BY DEF SkipSegment, KeepLoading
<1>3. Control
  BY InvControl
<1>4. segment' \in Nat /\ segment' >= 1
  BY <1>2, <1>3 DEF Control
<1>5. BytesLeft'
  BY <1>2 DEF BytesLeft
<1>6. Control'
  BY <1>2, <1>3, <1>4, <1>5 DEF Control
<1> QED
  BY <1>1, <1>6, SameStep

(* kernel_main enters the scheduler. *)
LEMMA EnterStep ==
    ASSUME LoaderInv, EnterSchedular
    PROVE  LoaderInv'
<1>1. TablesSame /\ UNCHANGED <<cr3, ready_queue>> /\ pc' = "schedular" /\ pc = "kernel_main"
  BY DEF EnterSchedular, Keep, TablesSame, tables, At
<1>2. Control'
  BY <1>1, InvControl, ControlKept DEF EnterSchedular, Keep, Control
<1>3. TypeOK'
  BY <1>1, <1>2, InvParts, SameType
<1>4. Ready' = Ready
  BY <1>1, ReadyKept
<1>5. /\ Now' = Now /\ Allocated' = Allocated
      /\ UNCHANGED <<page_directory, dir, lost, free_memory_page, allocated_process_id>>
  BY <1>1, SameTables DEF TablesSame
<1>6. DirectoryInv'
  <2>1. DirectoryInv
    BY DEF LoaderInv
  <2>2. LostOnlyBeyondRegion'
    BY <1>5, <2>1 DEF DirectoryInv, LostOnlyBeyondRegion
  <2> QED
    BY <1>1, <1>4, <1>5, <2>1, <2>2 DEF DirectoryInv
<1>7. LoadInv'
  BY <1>1, <1>2 DEF LoadInv, Control, BytesLeft
<1> QED
  BY <1>3, <1>6, <1>7 DEF LoaderInv

(* The scheduler changes the directory to one that maps the kernel. *)
LEMMA SwitchStep ==
    ASSUME LoaderInv, NEW d \in Ready \cup {kernel_dir}, Switch(d)
    PROVE  LoaderInv'
<1>1. /\ TablesSame /\ UNCHANGED ready_queue /\ pc' = "schedular" /\ pc = "schedular"
      /\ cr3' = d
  BY DEF Switch, Keep, TablesSame, tables, At
<1>2. Control'
  BY <1>1, InvControl, ControlKept DEF Switch, Keep, Control
<1>3. TypeOK'
  <2>1. d \in Dirs
    BY InvParts DEF Dirs
  <2> QED
    BY <1>1, <1>2, <2>1, SameType
<1>4. Ready' = Ready
  BY <1>1, ReadyKept
<1>5. /\ Now' = Now /\ Allocated' = Allocated
      /\ UNCHANGED <<page_directory, dir, lost, free_memory_page, allocated_process_id>>
  BY <1>1, SameTables DEF TablesSame
<1>6. DirectoryInv'
  <2>1. DirectoryInv
    BY DEF LoaderInv
  <2>2. LostOnlyBeyondRegion'
    BY <1>5, <2>1 DEF DirectoryInv, LostOnlyBeyondRegion
  <2> QED
    BY <1>1, <1>4, <1>5, <2>1, <2>2 DEF DirectoryInv
<1>7. LoadInv'
  BY <1>1, <1>2 DEF LoadInv, Control, BytesLeft
<1> QED
  BY <1>3, <1>6, <1>7 DEF LoaderInv

(* The process that has been loaded becomes ready. *)
LEMMA ReadyStep ==
    ASSUME LoaderInv, AddToGDT
    PROVE  LoaderInv'
<1>1. /\ TablesSame /\ cr3' = cr3 /\ pc = "add_to_GDT" /\ UNCHANGED <<allocated_process_id, loading>>
      /\ GDT_INDEX' = IF GDT_INDEX + 2 <= GDT_SIZE THEN GDT_INDEX + 2 ELSE GDT_SIZE
  BY DEF AddToGDT, TablesSame, paging, tables, At
<1>2. Control /\ Loading
  BY <1>1, InvControl
<1>3. GDT_INDEX' \in 4 .. GDT_SIZE
  BY <1>1, <1>2, ProcsAreNumbers DEF Control
<1>4. CASE ~(GDT_INDEX + 2 <= GDT_SIZE)
  <2>1. UNCHANGED <<ready_queue, pc>>
    BY <1>4 DEF AddToGDT
  <2>2. Control'
    BY <1>1, <1>2, <1>3, <2>1, ControlKept DEF Control
  <2> QED
    BY <1>1, <2>1, <2>2, SameStep
<1>5. CASE GDT_INDEX + 2 <= GDT_SIZE
  <2>1. ready_queue' = Append(ready_queue, p) /\ pc' = "kernel_main"
    BY <1>5 DEF AddToGDT
  <2>2. ready_queue' \in Seq(Procs)
    BY <1>2, <2>1 DEF Control, Loading
  <2>3. Control'
    BY <1>1, <1>2, <1>3, <2>1, <2>2, ControlKept
  <2>4. TypeOK'
    BY <1>1, <2>3, InvParts, SameType
  <2>5. Ready' = Ready \cup {p}
    <3>1. PICK n \in Nat : n = Len(ready_queue) /\ DOMAIN ready_queue = 1 .. n
      BY <1>2 DEF Control
    <3>2. /\ DOMAIN ready_queue' = 1 .. n + 1 /\ ready_queue'[n + 1] = p
          /\ \A i \in 1 .. n : ready_queue'[i] = ready_queue[i]
      BY <1>2, <2>1, <3>1 DEF Control
    <3>3. \A i : i \in 1 .. n + 1 <=> i \in 1 .. n \/ i = n + 1
      BY <3>1
    <3>4. \A q : (\E i \in 1 .. n + 1 : q = ready_queue'[i]) <=> (\E i \in 1 .. n : q = ready_queue[i]) \/ q = p
      BY <3>2, <3>3
    <3> QED
      BY <3>1, <3>2, <3>4 DEF Ready
  <2>6. /\ Now' = Now /\ Allocated' = Allocated /\ memory' = memory
        /\ UNCHANGED <<page_directory, dir, lost, free_memory_page, allocated_process_id>>
    BY <1>1, SameTables DEF TablesSame
  <2>7. /\ page_directory[p] \in Allocated /\ StackIn(Now, memory, p) /\ ReadyIn(Now, p)
        /\ \A q \in Ready : StackIn(Now, memory, q) /\ ReadyIn(Now, q)
    <3>1. LoadPart(pc, p, Ready, page_directory, Allocated, Now, memory)
      BY LoadForm DEF LoaderInv
    <3> QED
      BY <1>1, <3>1 DEF LoadPart
  <2>8. MapsKernel(Now, p)
    BY <2>7 DEF ReadyIn, MapsKernel
  <2>9. p < allocated_process_id
    BY InvParts DEF p
  <2>10. DirectoryInv'
    <3>1. DirectoryInv
      BY DEF LoaderInv
    <3>2. LostOnlyBeyondRegion'
      BY <2>6, <3>1 DEF DirectoryInv, LostOnlyBeyondRegion
    <3> QED
      BY <1>1, <2>1, <2>5, <2>6, <2>7, <2>8, <2>9, <3>1, <3>2 DEF DirectoryInv
  <2>11. LoadInv'
    <3>1. \A q \in Ready' : StackIn(Now', memory', q) /\ ReadyIn(Now', q)
      BY <2>5, <2>6, <2>7
    <3>2. LoadPart(pc', p', Ready', page_directory', Allocated', Now', memory')
      BY <2>1, <3>1 DEF LoadPart
    <3> QED
      BY <2>3, <3>2, LoadFormNext DEF Control
  <2> QED
    BY <2>4, <2>10, <2>11 DEF LoaderInv
<1> QED
  BY <1>4, <1>5

-----------------------------------------------------------------------------
(* Pages of a process.                                                     *)

(* The state of process p, as execv maps its pages. *)
LEMMA LoadingParts ==
    ASSUME LoaderInv, pc \in {"segments", "add_to_GDT"}
    PROVE  /\ p \in Procs /\ p \notin Ready /\ page_directory[p] \in Allocated /\ StackEmpty(p)
           /\ \A q \in Procs : q >= allocated_process_id => q # p
<1>1. /\ p \in Procs /\ p \notin Ready /\ page_directory[p] \in Allocated /\ StackEmpty(p)
  BY DEF LoaderInv, LoadInv
<1>2. \A q \in Procs : q >= allocated_process_id => q # p
  BY InvParts DEF p
<1> QED
  BY <1>1, <1>2

(* The new page's frame was not in use. *)
LEMMA FillMemory ==
    ASSUME LoaderInv, NEW content, memory' = With(memory, free_memory_page, content),
           free_memory_page' \in Pages, free_memory_page' > free_memory_page
    PROVE  /\ MemoryKept /\ DOMAIN memory' \subseteq Allocated'
           /\ free_memory_page \in DOMAIN memory' /\ memory'[free_memory_page] = content
<1>1. Standing /\ DOMAIN memory \subseteq Allocated
  BY InvStanding, InvParts
<1>2. /\ free_memory_page \in Int /\ FREE_FIRST \in Int /\ FREE_FIRST <= free_memory_page
      /\ free_memory_page' \in Int /\ free_memory_page' \in Nat
  BY <1>1, NowParts, FreeIsInt, PagingConstants DEF Standing, Pages
<1>3. free_memory_page \notin Allocated /\ free_memory_page \in Allocated'
  <2>1. PICK a \in Int, b \in Int, c \in Int :
          /\ a = FREE_FIRST /\ b = free_memory_page /\ c = free_memory_page' /\ a <= b /\ b < c
    BY <1>2
  <2>2. b \notin a .. b - 1 /\ b \in a .. c - 1
    BY <2>1, IntervalEnd
  <2> QED
    BY <2>1, <2>2, Zenon DEF Allocated
<1>4. Allocated \subseteq Allocated'
  BY <1>1, <1>2, AllocatedGrows
<1>5. DOMAIN memory' = DOMAIN memory \cup {free_memory_page}
  BY DEF With
<1>6. \A f \in DOMAIN memory' :
        memory'[f] = IF f = free_memory_page THEN content ELSE memory[f]
  BY DEF With
<1>7. MemoryKept
  BY <1>1, <1>3, <1>5, <1>6 DEF MemoryKept
<1> QED
  BY <1>1, <1>3, <1>4, <1>5, <1>6, <1>7

(* execv gives its process a page that is not the stack's, or is empty. *)
LEMMA FillStep ==
    ASSUME LoaderInv, pc = "segments", ~lost, NEW page \in Pages, NEW content,
           FillPage(page, content), free_memory_page' \in Pages,
           page \notin STACK_PAGES \/ content = Zeros, Control',
           UNCHANGED <<page_directory, pc, allocated_process_id, ready_queue, cr3, is_paging_enabled>>
    PROVE  LoaderInv'
<1>1. Standing
  BY InvStanding
<1>2. /\ p \in Procs /\ p \notin Ready /\ page_directory[p] \in Allocated /\ StackEmpty(p)
      /\ \A q \in Procs : q >= allocated_process_id => q # p
  BY LoadingParts
<1>3. PICK d : d = p
  OBVIOUS
<1>4. /\ MapResult(Now, Now', d, {page}) /\ Lookup(Now', d, page).address = free_memory_page
      /\ free_memory_page' > free_memory_page
  <2>1. Becomes(add_memory_mapping(alloc_page(Now), d, page, free_memory_page, TRUE))
    BY <1>3 DEF FillPage
  <2>2. d \in Procs
    BY <1>2, <1>3
  <2> QED
    BY <1>1, <2>1, <2>2, FillMaps
<1>5. /\ MemoryKept /\ DOMAIN memory' \subseteq Allocated'
      /\ free_memory_page \in DOMAIN memory' /\ memory'[free_memory_page] = content
  BY <1>4, FillMemory DEF FillPage
<1>6. DirectoryInv' /\ Allocated \subseteq Allocated'
  BY <1>2, <1>3, <1>4, InvParts, DirectoryStep
<1>7. p' = d /\ d \in Procs /\ d \notin Ready
  BY <1>2, <1>3 DEF p
<1>8. StackIn(Now', memory', d)
  <2> SUFFICES ASSUME NEW q \in STACK_PAGES, Lookup(Now', d, q) # NONE
               PROVE  /\ Lookup(Now', d, q).address \in DOMAIN memory'
                      /\ memory'[Lookup(Now', d, q).address] = Zeros
    BY DEF StackIn
  <2>1. CASE q = page
    BY <1>4, <1>5, <2>1
  <2>2. CASE q # page
    <3>1. q \in Pages /\ DirOf(q) \in DirIndex
      BY StackPagesArePages, PageParts
    <3>2. Private(Now, d, DirOf(q))
      BY <1>7, <3>1, PrivateAll DEF LoaderInv, DirectoryInv
    <3>3. Keeps(Now, Now', d, {page})
      BY <1>4 DEF MapResult
    <3>4. Lookup(Now', d, q) = Lookup(Now, d, q)
      BY <1>7, <2>2, <3>1, <3>2, <3>3 DEF Keeps
    <3>5. /\ Lookup(Now, d, q).address \in DOMAIN memory
          /\ memory[Lookup(Now, d, q).address] = Zeros
      BY <1>2, <1>3, <3>4 DEF StackEmpty, Translation
    <3> QED
      BY <1>5, <3>4, <3>5 DEF MemoryKept
  <2> QED
    BY <2>1, <2>2
<1>9. StackEmpty(p)'
  BY <1>7, <1>8 DEF StackEmpty, Translation, StackIn
<1>10. LoadInv'
  <2>1. page_directory'[p'] \in Allocated'
    BY <1>2, <1>3, <1>6, <1>7
  <2> QED
    BY <1>4, <1>5, <1>7, <1>9, <2>1, LoadStep
<1>11. TypeOK'
  BY <1>4, <1>5, InvParts, TypeStep DEF MapResult
<1> QED
  BY <1>6, <1>10, <1>11 DEF LoaderInv

(* The first page of a segment. *)
LEMMA FirstPageStep ==
    ASSUME LoaderInv, FirstPage, free_memory_page' \in Pages
    PROVE  LoaderInv'
<1>1. PICK first : first = FirstBytes(phentry)
  OBVIOUS
<1>2. PICK page : page = phentry.vaddr \div PAGE_SIZE
  OBVIOUS
<1>3. PICK content : content = Copied(first.at, phentry.offset, first.n)
  OBVIOUS
<1>4. /\ At("segments") /\ bytes_to_copy = 0 /\ segment <= Len(program[p].segments)
      /\ phentry.memsz # 0 /\ FillPage(page, content) /\ bytes_to_copy' = phentry.memsz - first.n
      /\ segment' = IF bytes_to_copy' = 0 THEN segment + 1 ELSE segment
      /\ src_addr' = PAGE_SIZE
      /\ UNCHANGED <<page_directory, pc, allocated_process_id, program, ready_queue, cr3,
                     is_paging_enabled, GDT_INDEX>>
  BY <1>1, <1>2, <1>3 DEF FirstPage, KeepLoading
<1>5. Loading /\ segment \in DOMAIN program[p].segments
  BY <1>4, InSegments
<1>6. phentry.memsz \in Nat /\ phentry.memsz > 0
  BY <1>4, <1>5, Header
<1>7. page \in Pages /\ page \notin STACK_PAGES
  BY <1>2, <1>5, <1>6, HeaderPages
<1>8. bytes_to_copy' \in Nat /\ src_addr' \in Nat
  BY <1>1, <1>4, <1>5, <1>6, FirstIsPart, ProcsAreNumbers
<1>9. Control'
  BY <1>4, <1>5, <1>6, <1>8, InvControl, ControlCopied
<1> QED
  BY <1>4, <1>7, <1>9, FillStep DEF At

(* The pages after it. *)
LEMMA FollowingPageStep ==
    ASSUME LoaderInv, FollowingPage, free_memory_page' \in Pages
    PROVE  LoaderInv'
<1>1. PICK n : n = IF bytes_to_copy >= PAGE_SIZE THEN PAGE_SIZE ELSE bytes_to_copy
  OBVIOUS
<1>2. PICK page : page = phentry.vaddr \div PAGE_SIZE + 1
  OBVIOUS
<1>3. PICK content : content = Copied(0, src_addr, n)
  OBVIOUS
<1>4. /\ At("segments") /\ bytes_to_copy > 0 /\ FillPage(page, content)
      /\ bytes_to_copy' = bytes_to_copy - n
      /\ segment' = IF bytes_to_copy' = 0 THEN segment + 1 ELSE segment
      /\ src_addr' = src_addr + PAGE_SIZE
      /\ UNCHANGED <<page_directory, pc, allocated_process_id, program, ready_queue, cr3,
                     is_paging_enabled, GDT_INDEX>>
  BY <1>1, <1>2, <1>3 DEF FollowingPage, KeepLoading
<1>5. Control /\ Loading
  BY <1>4, InvControl DEF At
<1>6. segment \in DOMAIN program[p].segments /\ phentry.memsz > 0
  BY <1>4, <1>5 DEF Control, BytesLeft
<1>7. page \in Pages /\ page \notin STACK_PAGES
  BY <1>2, <1>5, <1>6, HeaderPages
<1>8. bytes_to_copy' \in Nat /\ src_addr' \in Nat
  BY <1>1, <1>4, <1>5, ProcsAreNumbers DEF Control
<1>9. Control'
  BY <1>4, <1>5, <1>6, <1>8, ControlCopied
<1> QED
  BY <1>4, <1>7, <1>9, FillStep DEF At

(* A page of the stack. *)
LEMMA StackPageStep ==
    ASSUME LoaderInv, StackPage, free_memory_page' \in Pages
    PROVE  LoaderInv'
<1>1. PICK page \in STACK_PAGES : FillPage(page, Zeros)
  BY DEF StackPage
<1>2. /\ At("segments")
      /\ UNCHANGED <<page_directory, pc, allocated_process_id, program, ready_queue, cr3,
                     is_paging_enabled, segment, bytes_to_copy, src_addr, GDT_INDEX>>
  BY DEF StackPage, KeepLoading
<1>3. Control'
  BY <1>2, InvControl, ControlKept DEF Control, loading
<1>4. page \in Pages
  BY StackPagesArePages
<1>5. PICK content : content = Zeros
  OBVIOUS
<1>6. FillPage(page, content)
  BY <1>1, <1>5
<1> QED
  BY <1>2, <1>3, <1>4, <1>5, <1>6, FillStep DEF At

(* The kernel's pages, once the stack is complete. *)
LEMMA KernelMappingsStep ==
    ASSUME LoaderInv, KernelMappings, free_memory_page' \in Pages
    PROVE  LoaderInv'
<1>1. /\ pc = "segments" /\ ~lost /\ pc' = "add_to_GDT" /\ Becomes(add_kernel_mappings(Now, p))
      /\ \A page \in STACK_PAGES : Translation(p, page) # NONE
      /\ UNCHANGED <<page_directory, allocated_process_id, program, ready_queue, cr3,
                     is_paging_enabled, segment, bytes_to_copy, src_addr, memory, GDT_INDEX>>
  BY DEF KernelMappings, KeepLoading, At
<1>2. Standing
  BY InvStanding
<1>3. /\ p \in Procs /\ p \notin Ready /\ page_directory[p] \in Allocated /\ StackEmpty(p)
      /\ \A q \in Procs : q >= allocated_process_id => q # p
  BY <1>1, LoadingParts
<1>4. PICK d \in Procs : d = p
  BY <1>3
<1>5. MapResult(Now, Now', d, KernelPages) /\ InPlace(Now, Now', d, KernelPages)
  BY <1>1, <1>2, <1>4, KernelMaps
<1>6. MemoryKept
  BY <1>1 DEF MemoryKept
<1>7. Control'
  BY <1>1, InvControl, ControlKept DEF Control, loading
<1>8. DirectoryInv' /\ Allocated \subseteq Allocated'
  BY <1>1, <1>3, <1>4, <1>5, InvParts, DirectoryStep
<1>9. p' = d /\ d \notin Ready /\ page_directory'[p'] \in Allocated'
  BY <1>1, <1>3, <1>4, <1>8 DEF p
<1>10. StackEmpty(d)' /\ StackMapped(d)'
  <2>1. StackEmpty(d) /\ StackMapped(d) /\ KernelPages \cap STACK_PAGES = {}
    BY <1>1, <1>3, <1>4, StackPagesArePages DEF StackMapped
  <2> QED
    BY <1>1, <1>5, <1>6, <2>1, StackStep
<1>11. \A page \in KernelPages : /\ Lookup(Now', d, page) # NONE
                                 /\ Lookup(Now', d, page).address = page
  <2>1. \A j \in DirIndex : Private(Now, d, j)
    BY <1>1, PrivateAll DEF LoaderInv, DirectoryInv
  <2> QED
    BY <1>5, <2>1 DEF InPlace, MapResult
<1>12. StackEmpty(p)' /\ StackMapped(p)' /\ KernelInPlace(p)'
  BY <1>9, <1>10, <1>11 DEF StackEmpty, StackMapped, KernelInPlace, Translation
<1>13. LoadInv'
  BY <1>1, <1>4, <1>5, <1>6, <1>7, <1>9, <1>12, LoadStep
<1>14. TypeOK'
  BY <1>1, <1>5, <1>7, <1>8, InvParts, TypeStep DEF MapResult
<1> QED
  BY <1>8, <1>13, <1>14 DEF LoaderInv

-----------------------------------------------------------------------------
(* Processes run.                                                          *)

(* The mapping a system call copies. *)
LEMMA CallCopies ==
    ASSUME LoaderInv, NEW start \in CopyStarts, NEW too_large, SystemCall(start, too_large)
    PROVE  CopyResult(Now, Now') /\ cr3 \in Ready
<1>1. pc = "schedular" /\ cr3 \in Procs /\ copy_process_mapping(cr3, start)
  BY DEF SystemCall, At
<1>2. PICK d \in Procs : d = cr3
  BY <1>1
<1>3. DirectoryInv
  BY DEF LoaderInv
<1>4. d \in Ready
  BY <1>2, <1>3, PagingConstants DEF DirectoryInv
<1>5. /\ page_directory[d] \in Allocated /\ MapsKernel(Now, d) /\ MapsKernel(Now, kernel_dir)
  BY <1>1, <1>3, <1>4 DEF DirectoryInv
<1>6. start \in Pages
  BY LoaderConstants
<1>7. copy_process_mapping(d, start)
  BY <1>1, <1>2
<1> QED
  BY <1>2, <1>4, <1>5, <1>6, <1>7, InvStanding, CopyMaps

(* A system call. *)
LEMMA SystemCallStep ==
    ASSUME LoaderInv, NEW start \in CopyStarts, NEW too_large, SystemCall(start, too_large)
    PROVE  LoaderInv'
<1>1. /\ pc = "schedular" /\ pc' = "schedular" /\ ~lost
      /\ UNCHANGED <<page_directory, is_paging_enabled, allocated_process_id, loading, memory,
                     GDT_INDEX, ready_queue, cr3>>
  BY DEF SystemCall, At, Keep
<1>2. CopyResult(Now, Now')
  BY CallCopies
<1>3. /\ Sound(Now') /\ free_memory_page' = free_memory_page /\ LostLate(Now, Now')
      /\ \A d \in Procs, j \in DirIndex : dir'[d][j] = dir[d][j]
      /\ MapsKernel(Now', kernel_dir)
      /\ \A d \in Procs : MapsKernel(Now, d) => MapsKernel(Now', d)
  BY <1>2, NowParts, NextParts DEF CopyResult
<1>4. Control'
  BY <1>1, InvControl, ControlKept DEF Control
<1>5. Allocated' = Allocated /\ Ready' = Ready /\ Ready \subseteq Procs
  BY <1>1, <1>3, ReadyKept, InvParts DEF Allocated
<1>6. TypeOK'
  BY <1>1, <1>3, <1>4, <1>5, InvParts, TypeStep
<1>7. DirectoryInv
  BY DEF LoaderInv
<1>8. LostOnlyBeyondRegion'
  BY <1>1, <1>3, NowParts, NextParts DEF LostLate, LostOnlyBeyondRegion
<1>9. ASSUME NEW q \in Procs, q >= allocated_process_id PROVE dir'[q] = Empty(DirIndex)
  <2>1. dir[q] = Empty(DirIndex) /\ q \in Dirs
    BY <1>7, <1>9 DEF DirectoryInv, Dirs
  <2>2. \A j \in DirIndex : dir'[q][j] = NONE
    BY <1>3, <2>1 DEF Empty
  <2>3. dir' \in [Dirs -> [DirIndex -> Entry]]
    BY <1>3, NextParts DEF Sound
  <2>4. dir'[q] \in [DirIndex -> Entry]
    BY <2>1, <2>3
  <2> QED
    BY <2>2, <2>4 DEF Empty
<1>10. DirectoryInv'
  <2>1. \A q \in Ready : MapsKernel(Now', q) /\ q < allocated_process_id
    BY <1>3, <1>5, <1>7 DEF DirectoryInv
  <2>2. cr3 \in Ready \cup {kernel_dir} /\ \A q \in Ready : page_directory[q] \in Allocated
    BY <1>7 DEF DirectoryInv
  <2> QED
    BY <1>1, <1>3, <1>5, <1>8, <1>9, <2>1, <2>2 DEF DirectoryInv
<1>11. LoadInv'
  BY <1>1, <1>4 DEF LoadInv, Control, BytesLeft
<1> QED
  BY <1>6, <1>10, <1>11 DEF LoaderInv

(* A page fault maps a page of the kernel's directory. *)
LEMMA FaultMaps ==
    ASSUME LoaderInv, NEW page \in FaultPages, PageFault(page, TRUE), free_memory_page' \in Pages
    PROVE  MapResult(Now, Now', kernel_dir, {page})
<1>1. Becomes(add_memory_mapping(Now, kernel_dir, page, page, FALSE))
  BY DEF PageFault, add_kernel_memory_mapping
<1>2. PICK user \in BOOLEAN : user = FALSE
  OBVIOUS
<1>3. Becomes(add_memory_mapping(Now, kernel_dir, page, page, user))
  BY <1>1, <1>2
<1>4. page \in Pages /\ kernel_dir \in Dirs
  BY LoaderConstants DEF Dirs
<1> QED
  BY <1>3, <1>4, InvStanding, MappingMaps

(* A page fault, handled or fatal. *)
LEMMA PageFaultStep ==
    ASSUME LoaderInv, NEW page \in FaultPages, NEW aligned \in BOOLEAN, PageFault(page, aligned),
           free_memory_page' \in Pages
    PROVE  LoaderInv'
<1>1. /\ pc = "schedular" /\ pc' = "schedular" /\ ~lost
      /\ UNCHANGED <<page_directory, is_paging_enabled, allocated_process_id, loading, memory,
                     GDT_INDEX, ready_queue, cr3>>
  BY DEF PageFault, At, Keep
<1>2. Control'
  BY <1>1, InvControl, ControlKept DEF Control
<1>3. CASE aligned = TRUE
  <2>1. MapResult(Now, Now', kernel_dir, {page})
    BY <1>3, FaultMaps
  <2>2. DirectoryInv' /\ Allocated \subseteq Allocated'
    BY <1>1, <2>1, InvParts, DirectoryStep
  <2>3. TypeOK'
    BY <1>1, <1>2, <2>1, <2>2, InvParts, TypeStep DEF MapResult
  <2>4. LoadInv'
    BY <1>1, <1>2 DEF LoadInv, Control, BytesLeft
  <2> QED
    BY <2>2, <2>3, <2>4 DEF LoaderInv
<1>4. CASE aligned = FALSE
  <2>1. TablesSame
    BY <1>1, <1>4 DEF PageFault, TablesSame, tables
  <2> QED
    BY <1>1, <1>2, <2>1, SameStep
<1> QED
  BY <1>3, <1>4

-----------------------------------------------------------------------------
(* The invariant holds when kernel_main starts. *)
LEMMA LoaderInvInit == Init => LoaderInv
<1> SUFFICES ASSUME Init PROVE LoaderInv
  OBVIOUS
<1>1. /\ page_directory = [d \in Dirs |-> NONE]
      /\ dir = [d \in Dirs |-> Empty(DirIndex)] /\ table = << >>
      /\ free_memory_page = FREE_FIRST
      /\ cr3 = kernel_dir /\ is_paging_enabled = FALSE /\ lost = FALSE
      /\ pc = "prepare_kernel_paging" /\ allocated_process_id = 1
      /\ program = << >> /\ segment = 1 /\ bytes_to_copy = 0 /\ src_addr = 0
      /\ memory = << >> /\ GDT_INDEX = 4 /\ ready_queue = << >>
  BY DEF Init, PagingInit
<1>2. FREE_FIRST \in Pages /\ FREE_FIRST \in Int /\ kernel_dir \in Dirs
  BY PagingConstants DEF Pages, Dirs
<1>3. FREE_FIRST .. FREE_FIRST - 1 = {}
  BY <1>2
<1>4. Ready = {}
  BY <1>1 DEF Ready
<1>5. dir \in [Dirs -> [DirIndex -> Entry]] /\ \A d \in Dirs, i \in DirIndex : dir[d][i] = NONE
  BY <1>1 DEF Empty, Entry
<1>6. table \in [FREE_FIRST .. free_memory_page - 1 -> [TableIndex -> Entry]]
  <2>1. \A S : << >> \in [{} -> S]
    OBVIOUS
  <2> QED
    BY <1>1, <1>3, <2>1
<1>7. Sound(Now)
  <2>1. TablesOwned(Now)
    BY <1>5, NowParts DEF TablesOwned
  <2>2. PICK m : m = Now
    OBVIOUS
  <2>3. m.free \in Pages /\ FREE_FIRST <= m.free /\ m.lost \in BOOLEAN
    <3>1. m.free = FREE_FIRST
      BY <1>1, <2>2, NowParts
    <3>2. m.lost = FALSE
      BY <1>1, <2>2, NowParts
    <3>3. m.lost \in BOOLEAN
      BY <3>2
    <3>4. FREE_FIRST <= FREE_FIRST
      BY <1>2
    <3> QED
      BY <1>2, <3>1, <3>3, <3>4, Zenon
  <2>4. m.dir \in [Dirs -> [DirIndex -> Entry]]
    BY <1>5, <2>2, NowParts
  <2>5. m.table \in [FREE_FIRST .. m.free - 1 -> [TableIndex -> Entry]]
    BY <1>6, <2>2, NowParts
  <2> QED
    BY <2>1, <2>2, <2>3, <2>4, <2>5 DEF Sound
<1>8. NotShared(Now)
  BY <1>5, NowParts DEF NotShared, Dirs
<1>9. \A q \in Procs : dir[q] = Empty(DirIndex)
  BY <1>1 DEF Dirs
<1>10. DirectoryInv
  BY <1>1, <1>4, <1>7, <1>8, <1>9 DEF DirectoryInv, LostOnlyBeyondRegion
<1>11. LoadInv
  BY <1>1, <1>4 DEF LoadInv
<1>12. PagingTypeOK
  BY <1>1, <1>2, <1>5, <1>6 DEF PagingTypeOK, Allocated
<1>13. TypeOK
  <2>1. GDT_INDEX \in 4 .. GDT_SIZE
    BY <1>1, LoaderConstants
  <2>2. allocated_process_id \in 1 .. Cardinality(Procs) + 1
    BY <1>1, ProcsAreNumbers
  <2> QED
    BY <1>1, <1>4, <1>12, <2>1, <2>2 DEF TypeOK
<1> QED
  BY <1>10, <1>11, <1>13 DEF LoaderInv

(* LoaderInv is inductive while there are frames left. *)
LEMMA LoaderInvNext ==
    ASSUME LoaderInv, [Next]_vars, free_memory_page' \in Pages
    PROVE  LoaderInv'
<1>1. CASE PreparePaging
  BY <1>1, PrepareStep
<1>2. CASE EnablePaging
  BY <1>2, EnableStep
<1>3. CASE EnterSchedular
  BY <1>3, EnterStep
<1>4. CASE \E g \in Programs : Execv(g)
  BY <1>4, ExecvStep
<1>5. CASE UnsupportedSegment
  <2>1. UNCHANGED <<paging, pc, allocated_process_id, loading, memory, GDT_INDEX, ready_queue>>
    BY <1>5 DEF UnsupportedSegment, Fatal
  <2> QED
    BY <2>1, FatalStep
<1>6. CASE SkipSegment
  BY <1>6, SkipStep
<1>7. CASE FirstPage
  BY <1>7, FirstPageStep
<1>8. CASE FollowingPage
  BY <1>8, FollowingPageStep
<1>9. CASE StackPage
  BY <1>9, StackPageStep
<1>10. CASE KernelMappings
  BY <1>10, KernelMappingsStep
<1>11. CASE AddToGDT
  BY <1>11, ReadyStep
<1>12. CASE \E d \in Ready \cup {kernel_dir} : Switch(d)
  BY <1>12, SwitchStep
<1>13. CASE \E start \in CopyStarts, too_large \in BOOLEAN : SystemCall(start, too_large)
  BY <1>13, SystemCallStep
<1>14. CASE \E page \in FaultPages, aligned \in BOOLEAN : PageFault(page, aligned)
  BY <1>14, PageFaultStep
<1>15. CASE UNCHANGED vars
  <2>1. UNCHANGED <<paging, pc, allocated_process_id, loading, memory, GDT_INDEX, ready_queue>>
    BY <1>15 DEF vars
  <2> QED
    BY <2>1, FatalStep
<1> QED
  BY <1>1, <1>2, <1>3, <1>4, <1>5, <1>6, <1>7, <1>8, <1>9, <1>10, <1>11, <1>12, <1>13, <1>14,
     <1>15 DEF Next, Boot, Load, Run, Stopped

(* The invariant holds while there are frames left. *)
LEMMA LoaderInvariant ==
    Spec /\ [](free_memory_page \in Pages) => []LoaderInv
<1>1. LoaderInv /\ [Next]_vars /\ (free_memory_page \in Pages)' => LoaderInv'
  BY LoaderInvNext
<1> QED
  BY <1>1, LoaderInvInit, PTL DEF Spec

(* The page tables, the processes being loaded and the GDT keep their types*)
(* through kernel start, execv, system calls and page faults.              *)
THEOREM LoaderTypes == Spec /\ [](free_memory_page \in Pages) => []TypeOK
<1>1. LoaderInv => TypeOK
  BY DEF LoaderInv
<1> QED
  BY <1>1, LoaderInvariant, PTL

(* A process execv has made ready has an empty stack and all of the        *)
(* kernel's pages in place, whatever programs were loaded before and after.*)
THEOREM ReadyIsRunnable == Spec /\ [](free_memory_page \in Pages) => []Runnable
<1>1. LoaderInv => Runnable
  BY DEF LoaderInv, LoadInv, Runnable, StackEmpty, StackMapped, KernelInPlace
<1> QED
  BY <1>1, LoaderInvariant, PTL

(* The page fault handler faults without end, or panics over a fault of    *)
(* the kernel's, only when alloc_page has handed out frames after those    *)
(* mapped from the start, whatever pointers processes pass.                *)
THEOREM FaultsEnd == Spec /\ [](free_memory_page \in Pages) => []LostOnlyBeyondRegion
<1>1. LoaderInv => LostOnlyBeyondRegion
  BY DEF LoaderInv, DirectoryInv
<1> QED
  BY <1>1, LoaderInvariant, PTL

(* A step of the scheduler's: which translations of a process it changes. *)
RunStep == pc = "schedular" =>
             \A q \in Ready : \A page \in Pages :
               Translation(q, page)' # Translation(q, page) =>
                 dir[q][page \div TABLE_ENTRIES] = dir[kernel_dir][page \div TABLE_ENTRIES]

(* What was private has kept its translation. *)
LEMMA RunKeeps ==
    ASSUME LoaderInv, Keeps(Now, Now', kernel_dir, {}) \/ Now' = Now
    PROVE  RunStep
<1> SUFFICES ASSUME NEW q \in Ready, NEW page \in Pages,
                    Lookup(Now', q, page) # Lookup(Now, q, page)
             PROVE  dir[q][page \div TABLE_ENTRIES] = dir[kernel_dir][page \div TABLE_ENTRIES]
  BY DEF RunStep, Translation
<1>1. Keeps(Now, Now', kernel_dir, {}) /\ q \in Procs /\ q # kernel_dir
  BY InvParts
<1>2. ~Private(Now, q, DirOf(page))
  BY <1>1 DEF Keeps
<1> QED
  BY <1>2, NowParts DEF Private, DirOf

(* Every step of the running system is of this kind. *)
LEMMA RunSteps ==
    ASSUME LoaderInv, [Next]_vars, free_memory_page' \in Pages
    PROVE  RunStep
<1> SUFFICES ASSUME pc = "schedular" PROVE Keeps(Now, Now', kernel_dir, {}) \/ Now' = Now
  BY RunKeeps DEF RunStep
<1>1. CASE \E d \in Ready \cup {kernel_dir} : Switch(d)
  BY <1>1 DEF Switch, tables, Now
<1>2. CASE \E start \in CopyStarts, too_large \in BOOLEAN : SystemCall(start, too_large)
  BY <1>2, CallCopies DEF CopyResult
<1>3. CASE \E page \in FaultPages, aligned \in BOOLEAN : PageFault(page, aligned)
  <2>1. PICK page \in FaultPages, aligned \in BOOLEAN : PageFault(page, aligned)
    BY <1>3
  <2>2. CASE aligned = TRUE
    <3>1. Keeps(Now, Now', kernel_dir, {page})
      BY <2>1, <2>2, FaultMaps DEF MapResult
    <3> QED
      BY <3>1, PagingConstants DEF Keeps
  <2>3. CASE aligned = FALSE
    BY <2>1, <2>3 DEF PageFault, tables, Now
  <2> QED
    BY <2>2, <2>3
<1>4. CASE UNCHANGED vars
  BY <1>4 DEF vars, paging, tables, Now
<1>5. ~Boot /\ ~Load
  BY DEF Boot, Load, At, PreparePaging, EnablePaging, EnterSchedular, Execv, UnsupportedSegment,
         SkipSegment, FirstPage, FollowingPage, StackPage, KernelMappings, AddToGDT
<1> QED
  BY <1>1, <1>2, <1>3, <1>4, <1>5 DEF Next, Run, Stopped

(* Once processes run, system calls and page faults of any of them change  *)
(* what a process's pages translate to only where the kernel's directory   *)
(* holds the process's page table.                                         *)
THEOREM ChangesAreShared == Spec /\ [](free_memory_page \in Pages) => OnlySharedTablesChange
<1>1. LoaderInv /\ [Next]_vars /\ (free_memory_page \in Pages)' => [RunStep]_vars
  BY RunSteps
<1>2. Spec /\ [](free_memory_page \in Pages) => [][RunStep]_vars
  BY <1>1, LoaderInvariant, PTL DEF Spec
<1> QED
  BY <1>2 DEF OnlySharedTablesChange, RunStep

-----------------------------------------------------------------------------
(* The frames: where the kernel finds them and what they are used for.     *)

(* The two parts of the invariant, with the state as parameters. *)
LEMMA GoodNow ==
    ASSUME LoaderInv, FramesInv
    PROVE  Good(Now)
<1>1. /\ Sound(Now) /\ (pc # "prepare_kernel_paging" => MapsKernel(Now, kernel_dir))
  BY DEF LoaderInv, DirectoryInv
<1>2. /\ Own(Now) /\ Apart(Now) /\ Below(Now)
      /\ is_paging_enabled => pc # "prepare_kernel_paging"
      /\ is_paging_enabled /\ ~lost => Reached(Now)
  BY DEF FramesInv
<1> QED
  BY <1>1, <1>2, NowParts DEF Good, Based

(* The directories are frames alloc_page has handed out. *)
LEMMA UseNow ==
    ASSUME UseInv
    PROVE  Directories \subseteq Frames(Now) /\ UsedOnce(Now, Directories)
  BY NowParts DEF UseInv, Frames, Allocated

(* Whether paging is enabled changes only in ksetup_kernel_paging. *)
LEMMA FramesStep ==
    ASSUME FramesInv, UNCHANGED is_paging_enabled, Good(Now'),
           pc' \in {"prepare_kernel_paging", "ksetup_kernel_paging"}
             <=> pc \in {"prepare_kernel_paging", "ksetup_kernel_paging"},
           pc' = "prepare_kernel_paging" => free_memory_page' = FREE_FIRST,
           pc' = "ksetup_kernel_paging" => free_memory_page' <= FREE_LAST
    PROVE  FramesInv'
<1>1. /\ Own(Now') /\ Apart(Now') /\ Below(Now')
      /\ is_paging_enabled /\ ~lost' => Reached(Now')
  BY NextParts DEF Good
<1>2. is_paging_enabled <=> pc \notin {"prepare_kernel_paging", "ksetup_kernel_paging"}
  BY DEF FramesInv
<1>3. is_paging_enabled' <=> pc' \notin {"prepare_kernel_paging", "ksetup_kernel_paging"}
  BY <1>2
<1>4. is_paging_enabled' /\ ~lost' => Reached(Now')
  BY <1>1
<1>5. /\ pc' = "prepare_kernel_paging" => free_memory_page' = FREE_FIRST
      /\ pc' = "ksetup_kernel_paging" => free_memory_page' <= FREE_LAST
  OBVIOUS
<1> QED
  BY ONLY <1>1, <1>3, <1>4, <1>5 DEF FramesInv

(* The directories stay where they are. *)
LEMMA UseStep ==
    ASSUME UseInv, Standing, UNCHANGED page_directory, free_memory_page' \in Nat,
           free_memory_page <= free_memory_page', UsedOnce(Now', Directories)
    PROVE  UseInv'
<1>1. Directories' = Directories
  BY DEF Directories
<1>2. Allocated \subseteq Allocated'
  BY AllocatedGrows
<1>3. UsedOnce(Now', Directories')
  BY <1>1
<1>4. Directories' \subseteq Allocated'
  BY <1>1, <1>2 DEF UseInv
<1>5. \A c, d \in Dirs :
        page_directory'[c] = page_directory'[d] => c = d \/ page_directory'[c] = NONE
  BY DEF UseInv
<1> QED
  BY ONLY <1>3, <1>4, <1>5 DEF UseInv

(* A directory is a frame just allocated. *)
LEMMA DirectoryUsed ==
    ASSUME UseInv, Standing, NEW d \in Dirs, page_directory \in [Dirs -> Pages \cup {NONE}],
           page_directory' = [page_directory EXCEPT ![d] = free_memory_page],
           free_memory_page' \in Nat, free_memory_page < free_memory_page',
           UsedOnce(Now', Directories')
    PROVE  UseInv'
<1>1. /\ page_directory'[d] = free_memory_page
      /\ \A c \in Dirs : c # d => page_directory'[c] = page_directory[c]
  OBVIOUS
<1>2. free_memory_page \in Pages /\ free_memory_page # NONE
  BY NowParts, FreeIsInt, PagingConstants DEF Standing
<1>3. /\ Allocated \subseteq Allocated' /\ free_memory_page \in Allocated'
      /\ free_memory_page \notin Allocated
  <2>1. PICK a \in Int, b \in Int, c \in Int :
          /\ a = FREE_FIRST /\ b = free_memory_page /\ c = free_memory_page' /\ a <= b /\ b < c
    BY NowParts, FreeIsInt DEF Standing
  <2>2. b \notin a .. b - 1 /\ b \in a .. c - 1
    BY <2>1, IntervalEnd
  <2>3. free_memory_page <= free_memory_page'
    BY DEF Standing
  <2>4. Allocated \subseteq Allocated'
    BY <2>3, AllocatedGrows
  <2> QED
    BY <2>1, <2>2, <2>4, Zenon DEF Allocated
<1>4. \A c \in Dirs : page_directory[c] # NONE => page_directory[c] \in Allocated
  BY DEF UseInv, Directories
<1>5. \A c \in Dirs : page_directory'[c] # NONE => page_directory'[c] \in Allocated'
  BY <1>1, <1>3, <1>4
<1>6. ASSUME NEW b \in Dirs, NEW c \in Dirs, page_directory'[b] = page_directory'[c]
      PROVE  b = c \/ page_directory'[b] = NONE
  <2>1. CASE b = d \/ c = d
    BY <1>1, <1>3, <1>4, <1>6, <2>1
  <2>2. CASE b # d /\ c # d
    BY <1>1, <1>6, <2>2 DEF UseInv
  <2> QED
    BY <2>1, <2>2
<1>7. Directories' \subseteq Allocated'
  BY <1>5 DEF Directories
<1> QED
  BY <1>6, <1>7 DEF UseInv

(* The directories after alloc_page made one. *)
LEMMA MoreDirectories ==
    ASSUME NEW d \in Dirs, page_directory \in [Dirs -> Pages \cup {NONE}],
           page_directory' = [page_directory EXCEPT ![d] = free_memory_page]
    PROVE  Directories' \subseteq Directories \cup {free_memory_page}
  BY DEF Directories

FramesHold == LoaderInv /\ FramesInv /\ UseInv

(* What the invariants give a step to start from. *)
LEMMA HoldNow ==
    ASSUME FramesHold
    PROVE  /\ Standing /\ Good(Now) /\ Directories \subseteq Frames(Now)
           /\ UsedOnce(Now, Directories) /\ Now.free = free_memory_page
           /\ free_memory_page \in Int /\ FREE_FIRST <= free_memory_page
  BY InvStanding, GoodNow, UseNow, NowParts, FreeIsInt DEF FramesHold, Standing

(* Nothing happens to the page tables. *)
LEMMA SameFrames ==
    ASSUME FramesHold, UNCHANGED <<page_directory, tables, is_paging_enabled>>,
           pc' \in {"prepare_kernel_paging", "ksetup_kernel_paging"}
             <=> pc \in {"prepare_kernel_paging", "ksetup_kernel_paging"},
           pc' = "prepare_kernel_paging" => pc = "prepare_kernel_paging",
           pc' = "ksetup_kernel_paging" => pc = "ksetup_kernel_paging"
    PROVE  FramesInv' /\ UseInv'
<1>1. Now' = Now /\ free_memory_page' = free_memory_page /\ UNCHANGED page_directory
  BY DEF tables, Now
<1>2. /\ Standing /\ Good(Now) /\ UsedOnce(Now, Directories) /\ free_memory_page \in Nat
      /\ free_memory_page \in Int
  BY HoldNow DEF Standing
<1>3. /\ pc' = "prepare_kernel_paging" => free_memory_page' = FREE_FIRST
      /\ pc' = "ksetup_kernel_paging" => free_memory_page' <= FREE_LAST
  BY <1>1 DEF FramesHold, FramesInv
<1>4. FramesInv'
  BY <1>1, <1>2, <1>3, FramesStep DEF FramesHold
<1>5. UseInv'
  BY <1>1, <1>2, UseStep DEF FramesHold
<1> QED
  BY <1>4, <1>5

(* A new page of process d, which is not after the mapped region. *)
LEMMA FillFrames ==
    ASSUME FramesHold, pc = "segments", pc' = "segments",
           UNCHANGED <<page_directory, is_paging_enabled>>, free_memory_page' \in Pages,
           NEW d \in Procs, NEW page \in Pages, page <= FREE_LAST,
           Becomes(add_memory_mapping(alloc_page(Now), d, page, free_memory_page, TRUE))
    PROVE  FramesInv' /\ UseInv'
<1>1. /\ Standing /\ Good(Now) /\ Directories \subseteq Frames(Now)
      /\ UsedOnce(Now, Directories) /\ Now.free = free_memory_page /\ free_memory_page \in Int
      /\ FREE_FIRST <= free_memory_page
  BY HoldNow
<1>2. PICK a, D, f, user, x :
        /\ a = alloc_page(Now) /\ D = Directories /\ f = free_memory_page /\ user = TRUE
        /\ x = [address |-> f, user |-> user]
  OBVIOUS
<1>3. PICK n : n = add_memory_mapping(a, d, page, f, user)
  OBVIOUS
<1>4. IsMem(a) /\ a.free = f + 1
  BY <1>1, <1>2, NowParts, AllocFree
<1>5. IsMem(n) /\ n.free \in {a.free, a.free + 1}
  BY <1>3, <1>4, MapFree
<1>6. Now' = n
  BY <1>2, <1>3, <1>5, BecomesNow
<1>7. n.free \in Pages /\ a.free \in Pages /\ f \in Pages /\ f \in Int
  <2>1. n.free \in Pages
    BY <1>6, NextParts
  <2> QED
    BY <1>1, <1>2, <1>4, <1>5, <2>1, PagingConstants DEF Pages
<1>8. /\ d \in Dirs /\ cr3 \in Dirs /\ user \in BOOLEAN /\ d # kernel_dir
  BY <1>1, <1>2, PagingConstants DEF Standing
<1>9. Good(a)
  BY <1>1, <1>2, <1>7, <1>8, AllocGood
<1>10. UsedOnce(a, D) /\ D \subseteq Frames(a) /\ Unused(a, D, f)
  <2>1. f \notin D /\ D \subseteq D \cup {Now.free}
    BY <1>1, <1>2 DEF Frames
  <2> QED
    BY <1>1, <1>2, <1>7, <1>8, <2>1, AllocUsed
<1>11. Good(n) /\ NewTables(a, n) /\ Adds(a, n, d, page, x)
  BY <1>2, <1>3, <1>7, <1>8, <1>9, MapGood
<1>12. IsMem(a) /\ Sound(a) /\ Sound(n)
  BY <1>9, <1>11 DEF Good
<1>13. Grown(a, n)
  BY <1>3, <1>7, <1>8, <1>12, MapSound DEF MapResult
<1>14. UsedOnce(n, D)
  <2>1. x # NONE /\ x.address = f
    BY <1>2, <1>7, <1>8, EntryFacts
  <2>2. f \in Frames(a)
    BY <1>1, <1>2, <1>4, PagingConstants DEF Frames
  <2> QED
    BY <1>7, <1>8, <1>10, <1>11, <1>12, <1>13, <2>1, <2>2, MapUsed
<1>15. FramesInv'
  BY <1>6, <1>11, FramesStep DEF FramesHold
<1>16. free_memory_page' \in Nat /\ free_memory_page <= free_memory_page'
  BY <1>2, <1>4, <1>5, <1>6, <1>7, NextParts, PagingConstants DEF Pages
<1>17. UseInv'
  BY <1>1, <1>2, <1>6, <1>14, <1>16, UseStep DEF FramesHold
<1> QED
  BY <1>15, <1>17

(* A page of the kernel's directory, at a frame below the kernel if it is  *)
(* below the kernel, and else at its own address.                          *)
LEMMA MapFrames ==
    ASSUME FramesHold, UNCHANGED page_directory, free_memory_page' \in Pages,
           NEW page \in Pages, NEW frame \in Pages,
           (page < FREE_FIRST /\ frame < FREE_FIRST) \/ (page >= FREE_FIRST /\ frame = page),
           Becomes(add_kernel_memory_mapping(Now, page, frame))
    PROVE  Good(Now') /\ UseInv' /\ free_memory_page' \in {free_memory_page, free_memory_page + 1}
<1>1. /\ Standing /\ Good(Now) /\ Directories \subseteq Frames(Now)
      /\ UsedOnce(Now, Directories) /\ Now.free = free_memory_page /\ free_memory_page \in Int
  BY HoldNow
<1>2. PICK user, x : user = FALSE /\ x = [address |-> frame, user |-> user]
  OBVIOUS
<1>3. PICK m, n, D : /\ m = Now /\ n = add_memory_mapping(m, kernel_dir, page, frame, user)
                     /\ D = Directories
  OBVIOUS
<1>4. IsMem(m) /\ IsMem(n) /\ n.free \in {m.free, m.free + 1}
  BY <1>3, NowParts, MapFree
<1>5. Now' = n /\ n.free \in Pages
  <2>1. Becomes(n)
    BY <1>2, <1>3 DEF add_kernel_memory_mapping
  <2>2. Now' = n
    BY <1>4, <2>1, BecomesNow
  <2> QED
    BY <2>2, NextParts
<1>6. /\ kernel_dir \in Dirs /\ cr3 \in Dirs /\ user \in BOOLEAN /\ kernel_dir \notin Procs
      /\ page \in Int /\ FREE_FIRST \in Int
  BY <1>1, <1>2, HighPages, PagingConstants DEF Standing
<1>7. Good(n) /\ NewTables(m, n) /\ Adds(m, n, kernel_dir, page, x)
  <2>1. page >= FREE_FIRST => frame = page
    BY <1>6
  <2> QED
    BY <1>1, <1>2, <1>3, <1>5, <1>6, <2>1, MapGood
<1>8. Sound(m) /\ Sound(n)
  BY <1>1, <1>3, <1>7 DEF Good
<1>9. Grown(m, n)
  BY <1>3, <1>4, <1>5, <1>6, <1>8, MapSound DEF MapResult
<1>10. UsedOnce(n, D)
  <2>1. x # NONE /\ x.address = frame
    BY <1>2, <1>6, EntryFacts
  <2> QED
    BY <1>1, <1>3, <1>6, <1>7, <1>8, <1>9, <2>1, MapUsed DEF Good
<1>11. /\ free_memory_page' \in {free_memory_page, free_memory_page + 1}
       /\ free_memory_page' \in Nat /\ free_memory_page <= free_memory_page'
  BY <1>1, <1>3, <1>4, <1>5, NextParts, PagingConstants DEF Pages
<1>12. UseInv'
  BY <1>1, <1>3, <1>5, <1>10, <1>11, UseStep DEF FramesHold
<1> QED
  BY <1>5, <1>7, <1>11, <1>12

(* The kernel's tables fit into the region. *)
LEMMA PrepareFrames ==
    ASSUME FramesHold, PreparePaging, free_memory_page' \in Pages
    PROVE  FramesInv' /\ UseInv'
<1>1. /\ pc = "prepare_kernel_paging" /\ pc' = "ksetup_kernel_paging"
      /\ UNCHANGED is_paging_enabled
      /\ page_directory' = [page_directory EXCEPT ![kernel_dir] = free_memory_page]
      /\ Becomes(add_kernel_mappings(alloc_page(Now), kernel_dir))
  BY DEF PreparePaging, At, prepare_kernel_paging
<1>2. /\ Standing /\ Good(Now) /\ Directories \subseteq Frames(Now)
      /\ UsedOnce(Now, Directories) /\ Now.free = free_memory_page /\ free_memory_page \in Int
      /\ cr3 \in Dirs /\ kernel_dir \in Dirs
      /\ page_directory \in [Dirs -> Pages \cup {NONE}]
  BY HoldNow, InvParts DEF Standing, FramesHold
<1>3. PICK a, n, D, E : /\ a = alloc_page(Now) /\ n = add_kernel_mappings(a, kernel_dir)
                        /\ D = Directories /\ E = Directories'
  OBVIOUS
<1>4. IsMem(a) /\ a.free = free_memory_page + 1 /\ a.free \in Nat
  BY <1>2, <1>3, NowParts, AllocFree DEF Standing
<1>5. IsMem(n) /\ n.free \in Nat /\ a.free <= n.free
  BY <1>2, <1>3, <1>4, KernelMapped DEF WalkGood
<1>6. Now' = n
  BY <1>1, <1>3, <1>5, BecomesNow
<1>7. n.free \in Pages /\ a.free \in Pages
  <2>1. n.free \in Pages
    BY <1>6, NextParts
  <2> QED
    BY <1>4, <1>5, <2>1, PagingConstants DEF Pages
<1>8. Good(a)
  BY <1>2, <1>3, <1>7, AllocGood
<1>9. UsedOnce(a, E) /\ E \subseteq Frames(a)
  <2>1. E \subseteq D \cup {Now.free}
    BY <1>1, <1>2, <1>3, MoreDirectories
  <2> QED
    BY <1>2, <1>3, <1>7, <2>1, AllocUsed
<1>10. Good(n) /\ UsedOnce(n, E) /\ n.free <= a.free + TablesTo(FREE_LAST)
  BY <1>2, <1>3, <1>7, <1>8, <1>9, KernelHeld
<1>11. free_memory_page' <= FREE_LAST
  <2>1. free_memory_page = FREE_FIRST
    BY <1>1 DEF FramesHold, FramesInv
  <2>2. TablesTo(FREE_LAST) \in Int /\ TablesTo(FREE_LAST) + 2 <= FREE_LAST - FREE_FIRST + 1
    <3>1. /\ FREE_LAST \in Pages /\ KERNEL_FIRST \in Pages
      BY PagingConstants DEF Pages
    <3>2. DirOf(FREE_LAST) \in Int /\ DirOf(KERNEL_FIRST) \in Int /\ FREE_LAST \in Int
          /\ FREE_FIRST \in Int
      BY <3>1, HighPages
    <3> QED
      BY <3>2, LoaderLayout DEF TablesTo, DirOf
  <2>3. FREE_LAST \in Int /\ FREE_FIRST \in Int
    BY HighPages
  <2> QED
    BY <1>4, <1>5, <1>6, <1>10, <2>1, <2>2, <2>3, NextParts
<1>12. FramesInv'
  BY <1>1, <1>6, <1>10, <1>11, FramesStep DEF FramesHold
<1>13. UseInv'
  <2>1. free_memory_page' \in Nat /\ free_memory_page < free_memory_page'
    BY <1>2, <1>4, <1>5, <1>6, NextParts
  <2> QED
    BY <1>1, <1>2, <1>3, <1>6, <1>10, <2>1, DirectoryUsed DEF FramesHold
<1> QED
  BY <1>12, <1>13

(* An interval within another. *)
LEMMA IntervalWithin ==
    ASSUME NEW k \in Int, NEW l \in Int, NEW a \in Int, NEW b \in Int, k <= a, b <= l + 1
    PROVE  a .. b - 1 \subseteq k .. l
  OBVIOUS

(* When paging is enabled all frames are within the region. *)
LEMMA EnableFrames ==
    ASSUME FramesHold, EnablePaging, free_memory_page' \in Pages, LoaderInv'
    PROVE  FramesInv' /\ UseInv'
<1>1. /\ pc = "ksetup_kernel_paging" /\ pc' = "kernel_main" /\ is_paging_enabled' = TRUE
      /\ UNCHANGED page_directory
      /\ Becomes(add_kernel_memory_mapping(Now, TEST_PAGE, TEST_PAGE + 1))
  BY DEF EnablePaging, At, ksetup_kernel_paging
<1>2. PICK page \in Pages, frame \in Pages : page = TEST_PAGE /\ frame = TEST_PAGE + 1
  BY PagingConstants
<1>3. page < FREE_FIRST /\ frame < FREE_FIRST
  <2>1. page < KERNEL_FIRST /\ frame \notin KernelPages /\ frame = page + 1
    BY <1>2, PagingConstants, LoaderLayout
  <2>2. page \in Int /\ frame \in Int
    BY HighPages
  <2> QED
    BY <2>1, <2>2, HighPages DEF KernelPages
<1>4. /\ Good(Now') /\ UseInv'
      /\ free_memory_page' \in {free_memory_page, free_memory_page + 1}
  BY <1>1, <1>2, <1>3, MapFrames
<1>5. free_memory_page \in Int /\ free_memory_page <= FREE_LAST /\ FREE_LAST \in Int
  BY <1>1, HoldNow, HighPages DEF FramesHold, FramesInv
<1>6. Reached(Now')
  <2>1. MapsKernel(Now', kernel_dir)
    BY <1>1 DEF LoaderInv, DirectoryInv
  <2>2. PICK k \in Int, a \in Int, l \in Int, b \in Int :
          /\ k = KERNEL_FIRST /\ a = FREE_FIRST /\ l = FREE_LAST /\ b = free_memory_page'
          /\ k <= a /\ b <= l + 1
    BY <1>4, <1>5, HighPages
  <2>3. a .. b - 1 \subseteq k .. l
    BY <2>2, IntervalWithin
  <2>4. FREE_FIRST .. free_memory_page' - 1 \subseteq KernelPages
    BY <2>2, <2>3, Zenon DEF KernelPages
  <2> QED
    BY <2>1, <2>4, NextParts DEF Reached, MapsKernel
<1>7. Own(Now') /\ Apart(Now') /\ Below(Now')
  BY <1>4 DEF Good
<1>8. FramesInv'
  BY <1>1, <1>6, <1>7 DEF FramesInv
<1> QED
  BY <1>4, <1>8

(* A process's directory is a frame of its own. *)
LEMMA ExecvFrames ==
    ASSUME FramesHold, NEW g \in Programs, Execv(g), free_memory_page' \in Pages
    PROVE  FramesInv' /\ UseInv'
<1>1. /\ pc = "kernel_main" /\ pc' = "segments" /\ allocated_process_id \in Procs
      /\ page_directory' = [page_directory EXCEPT ![allocated_process_id] = free_memory_page]
      /\ Becomes(alloc_page(Now)) /\ UNCHANGED is_paging_enabled
  BY DEF Execv, At, NewDirectory
<1>2. /\ Standing /\ Good(Now) /\ Directories \subseteq Frames(Now)
      /\ UsedOnce(Now, Directories) /\ Now.free = free_memory_page /\ free_memory_page \in Int
      /\ cr3 \in Dirs /\ page_directory \in [Dirs -> Pages \cup {NONE}]
  BY HoldNow, InvParts DEF Standing, FramesHold
<1>3. PICK d \in Dirs : d = allocated_process_id
  BY <1>1 DEF Dirs
<1>4. PICK a, D, E : a = alloc_page(Now) /\ D = Directories /\ E = Directories'
  OBVIOUS
<1>5. IsMem(a) /\ a.free = free_memory_page + 1
  BY <1>2, <1>4, NowParts, AllocFree
<1>6. Now' = a /\ a.free \in Pages
  BY <1>1, <1>4, <1>5, BecomesNow, NextParts
<1>7. Good(a)
  BY <1>2, <1>4, <1>6, AllocGood
<1>8. UsedOnce(a, E)
  <2>1. E \subseteq D \cup {Now.free}
    BY <1>1, <1>2, <1>3, <1>4, MoreDirectories
  <2> QED
    BY <1>2, <1>4, <1>6, <2>1, AllocUsed
<1>9. FramesInv'
  BY <1>1, <1>6, <1>7, FramesStep DEF FramesHold
<1>10. UseInv'
  <2>1. free_memory_page' \in Nat /\ free_memory_page < free_memory_page'
    BY <1>2, <1>5, <1>6, NextParts, PagingConstants DEF Standing
  <2>2. page_directory' = [page_directory EXCEPT ![d] = free_memory_page]
    BY <1>1, <1>3
  <2> QED
    BY <1>2, <1>4, <1>6, <1>8, <2>1, <2>2, DirectoryUsed DEF FramesHold
<1> QED
  BY <1>9, <1>10

(* The pages of a segment are below the kernel. *)
LEMMA HeaderBelow ==
    ASSUME Loading, segment \in DOMAIN program[p].segments, phentry.memsz > 0
    PROVE  \A page \in {phentry.vaddr \div PAGE_SIZE, phentry.vaddr \div PAGE_SIZE + 1} :
             page \in Pages /\ page <= FREE_LAST
<1>1. phentry.vaddr \in Nat /\ phentry.memsz \in Nat
  BY Header
<1>2. PICK first \in Int, last \in Int :
        /\ first = phentry.vaddr \div PAGE_SIZE
        /\ last = (phentry.vaddr + phentry.memsz - 1) \div PAGE_SIZE
  BY <1>1, ProcsAreNumbers, DivMod
<1>3. first <= last
  <2>1. PICK x \in Int, y \in Int : x = phentry.vaddr /\ y = phentry.vaddr + phentry.memsz - 1
    BY <1>1
  <2>2. x <= y /\ PAGE_SIZE \in Int /\ PAGE_SIZE > 0
    BY <1>1, <2>1, ProcsAreNumbers
  <2>3. x \div PAGE_SIZE <= y \div PAGE_SIZE
    BY <2>2, DivMonotone
  <2> QED
    BY <1>2, <2>1, <2>3
<1>4. first .. last + 1 \subseteq 0 .. KERNEL_FIRST - 1
  <2>1. PICK g, e : g = program[p] /\ e = phentry
    OBVIOUS
  <2>2. g \in Programs /\ segment \in DOMAIN g.segments /\ e = g.segments[segment] /\ e.memsz > 0
    BY <2>1 DEF Loading, phentry
  <2>3. e.vaddr \div PAGE_SIZE .. (e.vaddr + e.memsz - 1) \div PAGE_SIZE + 1
          \subseteq 0 .. KERNEL_FIRST - 1
    BY <2>2, LoaderLayout, Zenon
  <2> QED
    BY <1>2, <2>1, <2>3
<1>5. first \in first .. last + 1 /\ first + 1 \in first .. last + 1
  BY <1>3
<1>6. \A page \in 0 .. KERNEL_FIRST - 1 : page <= FREE_LAST
  BY HighPages
<1> QED
  BY <1>2, <1>4, <1>5, <1>6, HeaderPages

(* execv fills a page below the kernel. *)
LEMMA FillPageFrames ==
    ASSUME FramesHold, At("segments"), UNCHANGED <<pc, page_directory, is_paging_enabled>>,
           free_memory_page' \in Pages, NEW page \in Pages, page <= FREE_LAST,
           NEW content, FillPage(page, content)
    PROVE  FramesInv' /\ UseInv'
<1>1. PICK d \in Procs : d = p
  BY LoadingParts DEF FramesHold, At
<1>2. Becomes(add_memory_mapping(alloc_page(Now), d, page, free_memory_page, TRUE))
  BY <1>1 DEF FillPage
<1> QED
  BY <1>2, FillFrames DEF At

(* The pages of a segment. *)
LEMMA SegmentFrames ==
    ASSUME FramesHold, FirstPage \/ FollowingPage, free_memory_page' \in Pages
    PROVE  FramesInv' /\ UseInv'
<1>1. /\ At("segments") /\ UNCHANGED <<pc, page_directory, is_paging_enabled>>
      /\ LoaderInv
  BY DEF FirstPage, FollowingPage, KeepLoading, FramesHold
<1>2. ASSUME FirstPage
      PROVE  /\ segment \in DOMAIN program[p].segments /\ Loading /\ phentry.memsz > 0
             /\ \E content : FillPage(phentry.vaddr \div PAGE_SIZE, content)
  <2>1. Loading /\ segment \in DOMAIN program[p].segments
    BY <1>1, <1>2, InSegments DEF FirstPage
  <2>2. phentry.memsz > 0
    BY <1>2, <2>1, Header DEF FirstPage
  <2> QED
    BY <1>2, <2>1, <2>2 DEF FirstPage
<1>3. ASSUME FollowingPage
      PROVE  /\ segment \in DOMAIN program[p].segments /\ Loading /\ phentry.memsz > 0
             /\ \E content : FillPage(phentry.vaddr \div PAGE_SIZE + 1, content)
  <2>1. Control /\ Loading /\ bytes_to_copy > 0
    BY <1>1, <1>3, InvControl DEF At, FollowingPage
  <2> QED
    BY <1>3, <2>1 DEF FollowingPage, Control, BytesLeft
<1>4. PICK page, content :
        /\ page \in {phentry.vaddr \div PAGE_SIZE, phentry.vaddr \div PAGE_SIZE + 1}
        /\ FillPage(page, content)
        /\ segment \in DOMAIN program[p].segments /\ Loading /\ phentry.memsz > 0
  BY <1>2, <1>3
<1>5. page \in Pages /\ page <= FREE_LAST
  BY <1>4, HeaderBelow
<1> QED
  BY <1>1, <1>4, <1>5, FillPageFrames

(* A page of the stack. *)
LEMMA StackFrames ==
    ASSUME FramesHold, StackPage, free_memory_page' \in Pages
    PROVE  FramesInv' /\ UseInv'
<1>1. PICK page \in STACK_PAGES : FillPage(page, Zeros)
  BY DEF StackPage
<1>2. /\ At("segments") /\ UNCHANGED <<pc, page_directory, is_paging_enabled>>
  BY DEF StackPage, KeepLoading
<1>3. page \in Pages /\ page < KERNEL_FIRST
  BY StackPagesArePages, LoaderLayout
<1>4. page <= FREE_LAST
  BY <1>3, HighPages
<1>5. PICK content : content = Zeros
  OBVIOUS
<1> QED
  BY <1>1, <1>2, <1>3, <1>4, <1>5, FillPageFrames

(* The kernel's pages in the directory of a process. *)
LEMMA KernelFrames ==
    ASSUME FramesHold, KernelMappings, free_memory_page' \in Pages
    PROVE  FramesInv' /\ UseInv'
<1>1. /\ pc = "segments" /\ pc' = "add_to_GDT" /\ Becomes(add_kernel_mappings(Now, p))
      /\ UNCHANGED <<page_directory, is_paging_enabled>>
  BY DEF KernelMappings, KeepLoading, At
<1>2. /\ Standing /\ Good(Now) /\ Directories \subseteq Frames(Now)
      /\ UsedOnce(Now, Directories) /\ Now.free = free_memory_page /\ free_memory_page \in Int
      /\ cr3 \in Dirs
  BY HoldNow DEF Standing
<1>3. PICK d \in Procs : d = p
  BY <1>1, LoadingParts DEF FramesHold
<1>4. PICK n, D : n = add_kernel_mappings(Now, d) /\ D = Directories
  OBVIOUS
<1>5. IsMem(n) /\ d \in Dirs
  <2>1. Now.free \in Nat /\ d \in Dirs
    BY <1>2, NowParts DEF Standing
  <2>2. WalkGood(Now, n, d, FREE_LAST)
    BY <1>2, <1>4, <2>1, NowParts, KernelMapped DEF Standing
  <2> QED
    BY <2>1, <2>2 DEF WalkGood
<1>6. Now' = n /\ n.free \in Pages
  BY <1>1, <1>3, <1>4, <1>5, BecomesNow, NextParts
<1>7. Good(n) /\ UsedOnce(n, D) /\ Now.free <= n.free
  BY <1>2, <1>4, <1>5, <1>6, KernelHeld
<1>8. FramesInv'
  BY <1>1, <1>6, <1>7, FramesStep DEF FramesHold
<1>9. free_memory_page' \in Nat /\ free_memory_page <= free_memory_page'
  BY <1>2, <1>6, <1>7, NextParts, PagingConstants DEF Pages
<1>10. UseInv'
  BY <1>1, <1>2, <1>4, <1>6, <1>7, <1>9, UseStep DEF FramesHold
<1> QED
  BY <1>8, <1>10

(* A system call gives the kernel a table of the process's, which maps     *)
(* nothing of alloc_page's region.                                         *)
LEMMA CallFrames ==
    ASSUME CopiesApart, FramesHold,
           NEW start \in CopyStarts, NEW too_large, SystemCall(start, too_large)
    PROVE  FramesInv' /\ UseInv'
<1>1. /\ pc = "schedular" /\ pc' = "schedular" /\ cr3 \in Procs
      /\ copy_process_mapping(cr3, start) /\ UNCHANGED <<page_directory, is_paging_enabled>>
      /\ LoaderInv
  BY DEF SystemCall, At, Keep, FramesHold
<1>2. /\ Standing /\ Good(Now) /\ UsedOnce(Now, Directories)
      /\ Now.free = free_memory_page /\ free_memory_page \in Int /\ cr3 \in Dirs /\ Reach(Now)
  BY HoldNow DEF Standing
<1>3. PICK d \in Procs : d = cr3
  BY <1>1
<1>4. PICK frame, D : frame = page_directory[d] /\ D = Directories
  OBVIOUS
<1>5. /\ frame \in Frames(Now) /\ MapsKernel(Now, d) /\ MapsKernel(Now, kernel_dir)
  <2>1. DirectoryInv
    BY <1>1 DEF LoaderInv
  <2>2. d \in Ready
    BY <1>3, <2>1, PagingConstants DEF DirectoryInv
  <2> QED
    BY <1>1, <1>4, <2>1, <2>2, NowParts DEF DirectoryInv, Allocated, Frames
<1>6. PICK c : c = Touched(Now, frame)
  OBVIOUS
<1>7. PICK n : n = CopyOf(c, d, DirOf(start))
  OBVIOUS
<1>8. DirOf(start) \in DirIndex /\ DirOf(start) < FREE_FIRST \div TABLE_ENTRIES
  BY LoaderConstants, PageParts DEF DirOf, CopiesApart
<1>9. Good(n) /\ UsedOnce(n, D)
  BY <1>2, <1>4, <1>5, <1>6, <1>7, <1>8, CopyGood
<1>10. Becomes(n)
  BY <1>1, <1>3, <1>4, <1>6, <1>7 DEF copy_process_mapping, CopyOf, Entered, DirOf
<1>11. Now' = n
  BY <1>9, <1>10, BecomesNow DEF Good
<1>12. free_memory_page' = free_memory_page
  BY <1>1, CallCopies, NowParts, NextParts DEF CopyResult
<1>13. FramesInv'
  BY <1>1, <1>9, <1>11, FramesStep DEF FramesHold
<1>14. UseInv'
  <2>1. free_memory_page' \in Nat /\ free_memory_page <= free_memory_page'
    BY <1>2, <1>12 DEF Standing
  <2> QED
    BY <1>1, <1>2, <1>4, <1>9, <1>11, <2>1, UseStep DEF FramesHold
<1> QED
  BY <1>13, <1>14

(* A page fault, wherever the page is. *)
LEMMA FaultFrames ==
    ASSUME FramesHold, NEW page \in FaultPages, NEW aligned \in BOOLEAN, PageFault(page, aligned),
           free_memory_page' \in Pages
    PROVE  FramesInv' /\ UseInv'
<1>1. /\ pc = "schedular" /\ pc' = "schedular" /\ UNCHANGED <<page_directory, is_paging_enabled>>
  BY DEF PageFault, At, Keep
<1>2. CASE aligned = TRUE
  <2>1. page \in Pages /\ page \in Int /\ FREE_FIRST \in Int
    BY LoaderConstants, HighPages
  <2>2. page < FREE_FIRST \/ page >= FREE_FIRST
    BY <2>1
  <2>3. Becomes(add_kernel_memory_mapping(Now, page, page))
    BY <1>2 DEF PageFault
  <2>4. Good(Now') /\ UseInv'
    BY <1>1, <2>1, <2>2, <2>3, MapFrames
  <2>5. FramesInv'
    BY <1>1, <2>4, FramesStep DEF FramesHold
  <2> QED
    BY <2>4, <2>5
<1>3. CASE aligned = FALSE
  <2>1. UNCHANGED tables
    BY <1>3 DEF PageFault
  <2> QED
    BY <1>1, <2>1, SameFrames
<1> QED
  BY <1>2, <1>3

(* The steps that leave the page tables as they are. *)
LEMMA OtherFrames ==
    ASSUME FramesHold,
           \/ UnsupportedSegment \/ SkipSegment \/ AddToGDT \/ EnterSchedular \/ UNCHANGED vars
           \/ \E d \in Ready \cup {kernel_dir} : Switch(d)
    PROVE  FramesInv' /\ UseInv'
<1>1. UNCHANGED <<page_directory, tables, is_paging_enabled>>
  BY DEF UnsupportedSegment, SkipSegment, AddToGDT, EnterSchedular, Switch, vars, paging, Fatal,
         KeepLoading, Keep, tables
<1>2. \/ pc' = pc
      \/ pc = "add_to_GDT" /\ pc' = "kernel_main"
      \/ pc = "kernel_main" /\ pc' = "schedular"
  BY DEF UnsupportedSegment, SkipSegment, AddToGDT, EnterSchedular, Switch, vars, Fatal, At
<1> QED
  BY <1>1, <1>2, SameFrames

(* The whole invariant is inductive while there are frames left. *)
LEMMA FramesHoldNext ==
    ASSUME CopiesApart, FramesHold, [Next]_vars, free_memory_page' \in Pages
    PROVE  FramesHold'
<1>1. LoaderInv'
  BY LoaderInvNext DEF FramesHold
<1>2. CASE PreparePaging
  BY <1>1, <1>2, PrepareFrames DEF FramesHold
<1>3. CASE EnablePaging
  BY <1>1, <1>3, EnableFrames DEF FramesHold
<1>4. CASE \E g \in Programs : Execv(g)
  BY <1>1, <1>4, ExecvFrames DEF FramesHold
<1>5. CASE FirstPage \/ FollowingPage
  BY <1>1, <1>5, SegmentFrames DEF FramesHold
<1>6. CASE StackPage
  BY <1>1, <1>6, StackFrames DEF FramesHold
<1>7. CASE KernelMappings
  BY <1>1, <1>7, KernelFrames DEF FramesHold
<1>8. CASE \E start \in CopyStarts, too_large \in BOOLEAN : SystemCall(start, too_large)
  BY <1>1, <1>8, CallFrames DEF FramesHold
<1>9. CASE \E page \in FaultPages, aligned \in BOOLEAN : PageFault(page, aligned)
  BY <1>1, <1>9, FaultFrames DEF FramesHold
<1>10. CASE \/ UnsupportedSegment \/ SkipSegment \/ AddToGDT \/ EnterSchedular \/ UNCHANGED vars
            \/ \E d \in Ready \cup {kernel_dir} : Switch(d)
  BY <1>1, <1>10, OtherFrames DEF FramesHold
<1> QED
  BY <1>2, <1>3, <1>4, <1>5, <1>6, <1>7, <1>8, <1>9, <1>10 DEF Next, Boot, Load, Run, Stopped

(* At the start there are no frames. *)
LEMMA FramesHoldInit == Init => FramesHold
<1> SUFFICES ASSUME Init PROVE FramesHold
  OBVIOUS
<1>1. /\ page_directory = [d \in Dirs |-> NONE]
      /\ dir = [d \in Dirs |-> Empty(DirIndex)]
      /\ free_memory_page = FREE_FIRST /\ is_paging_enabled = FALSE
      /\ pc = "prepare_kernel_paging"
  BY DEF Init, PagingInit
<1>2. kernel_dir \in Dirs /\ Procs \subseteq Dirs
  BY DEF Dirs
<1>3. \A d \in Dirs, i \in DirIndex : Now.dir[d][i] = NONE
  BY <1>1, NowParts DEF Empty
<1>4. \A d \in Dirs, page \in Pages : Lookup(Now, d, page) = NONE
  BY <1>3, PageParts DEF Lookup, DirOf
<1>5. Own(Now) /\ Apart(Now) /\ Below(Now)
  BY <1>2, <1>3, <1>4 DEF Own, Apart, Below
<1>6. FramesInv
  BY <1>1, <1>5 DEF FramesInv
<1>7. Directories = {}
  BY <1>1 DEF Directories
<1>8. UsedOnce(Now, Directories)
  BY <1>2, <1>3, <1>4 DEF UsedOnce
<1>9. UseInv
  BY <1>1, <1>7, <1>8 DEF UseInv
<1> QED
  BY <1>6, <1>9, LoaderInvInit DEF FramesHold

(* The invariant holds while there are frames left and processes pass      *)
(* pointers to their own memory.                                           *)
LEMMA FramesInvariant ==
    ASSUME CopiesApart
    PROVE  Spec /\ [](free_memory_page \in Pages) => []FramesHold
<1>1. FramesHold /\ [Next]_vars /\ (free_memory_page \in Pages)' => FramesHold'
  BY FramesHoldNext
<1> QED
  BY <1>1, FramesHoldInit, PTL DEF Spec

(* If the pointers processes pass to system calls lie in page tables apart *)
(* from alloc_page's region, which the kernel does not check, then with    *)
(* paging on, and unless it faults without end, the kernel finds every     *)
(* page alloc_page has handed out at the page's own address, whether       *)
(* prepare_kernel_paging mapped it or the page fault handler.              *)
THEOREM FramesAreReached ==
    ASSUME CopiesApart
    PROVE  Spec /\ [](free_memory_page \in Pages) => []AllocatedMapped
<1>1. FramesHold => AllocatedMapped
  <2> SUFFICES ASSUME FramesHold, is_paging_enabled, ~lost, NEW f \in Allocated
               PROVE  Translation(kernel_dir, f) # NONE /\ Translation(kernel_dir, f).address = f
    BY DEF AllocatedMapped
  <2>1. Own(Now) /\ Reached(Now)
    BY DEF FramesHold, FramesInv
  <2>2. f \in Frames(Now)
    BY NowParts DEF Allocated, Frames
  <2>3. f \in Pages /\ f >= FREE_FIRST
    BY <2>2, HoldNow, FreeIsInt DEF Frames, Good
  <2> QED
    BY <2>1, <2>2, <2>3 DEF Own, Reached, Frames, Translation
<1> QED
  BY <1>1, FramesInvariant, PTL

-----------------------------------------------------------------------------
(* One use of every frame.                                                 *)

(* A set without two elements. *)
LEMMA AtMostOne ==
    ASSUME NEW S, \A x, y \in S : x = y
    PROVE  Cardinality(S) = IF S = {} THEN 0 ELSE 1
<1>1. CASE S = {}
  BY <1>1, FS_EmptySet
<1>2. CASE S # {}
  <2>1. PICK x : x \in S
    BY <1>2
  <2>2. S = {x}
    BY <2>1
  <2>3. Cardinality({x}) = 1
    BY FS_Singleton
  <2> QED
    BY <1>2, <2>2, <2>3
<1> QED
  BY <1>1, <1>2

(* A frame is one directory at most. *)
LEMMA OneDirectory ==
    ASSUME UseInv, NEW f, f # NONE
    PROVE  /\ \A c, d \in {d \in Dirs : page_directory[d] = f} : c = d
           /\ f \notin Directories => {d \in Dirs : page_directory[d] = f} = {}
  BY DEF UseInv, Directories

(* It is one table at most: the kernel's directory and a process's both    *)
(* hold it only where the kernel's is not counted.                         *)
LEMMA OneTable ==
    ASSUME Sound(Now), UseInv, NEW f
    PROVE  /\ \A t, u \in Tables(f) : t = u
           /\ Tables(f) # {} => f \notin Directories
<1>1. \A t \in Tables(f) :
        /\ t[1] \in Dirs /\ t[2] \in DirIndex /\ t = <<t[1], t[2]>>
        /\ Now.dir[t[1]][t[2]] # NONE /\ Now.dir[t[1]][t[2]].address = f
        /\ t[1] = kernel_dir => \A q \in Procs : Now.dir[q][t[2]] # Now.dir[kernel_dir][t[2]]
  BY NowParts DEF Tables
<1>2. ASSUME NEW t \in Tables(f), NEW u \in Tables(f) PROVE t = u
  <2>1. PICK c \in Dirs, i \in DirIndex : c = t[1] /\ i = t[2] /\ t = <<c, i>>
    BY <1>1
  <2>2. PICK d \in Dirs, j \in DirIndex : d = u[1] /\ j = u[2] /\ u = <<d, j>>
    BY <1>1
  <2>3. /\ i = j /\ Now.dir[c][i] = Now.dir[d][j] /\ (c = d \/ kernel_dir \in {c, d})
    <3>1. /\ Now.dir[c][i] # NONE /\ Now.dir[d][j] # NONE
          /\ Now.dir[c][i].address = Now.dir[d][j].address
      BY <1>1, <2>1, <2>2
    <3> QED
      BY <3>1, OneOwner
  <2>4. c = d
    BY <1>1, <2>1, <2>2, <2>3 DEF Dirs
  <2> QED
    BY <2>1, <2>2, <2>3, <2>4
<1>3. ASSUME NEW t \in Tables(f) PROVE f \notin Directories
  <2>1. UsedOnce(Now, Directories)
    BY DEF UseInv
  <2> QED
    BY <1>1, <2>1 DEF UsedOnce
<1> QED
  BY <1>2, <1>3

(* It is one page of one process at most, and then nothing else. *)
LEMMA OnePage ==
    ASSUME UseInv, NEW f, f >= FREE_FIRST
    PROVE  /\ \A t, u \in Mapped(f) : t = u
           /\ Mapped(f) # {} => f \notin Directories /\ Tables(f) = {}
<1>1. \A t \in Mapped(f) :
        /\ t[1] \in Procs /\ t[2] \in Pages \ KernelPages /\ t = <<t[1], t[2]>>
        /\ Lookup(Now, t[1], t[2]) # NONE /\ Lookup(Now, t[1], t[2]).address = f
  BY DEF Mapped, Translation
<1>2. UsedOnce(Now, Directories)
  BY DEF UseInv
<1>3. ASSUME NEW q \in Procs, NEW page \in Pages \ KernelPages,
             Lookup(Now, q, page) # NONE, Lookup(Now, q, page).address = f
      PROVE  /\ f \notin Directories
             /\ \A d \in Dirs, i \in DirIndex : Now.dir[d][i] # NONE => Now.dir[d][i].address # f
             /\ \A r \in Procs, other \in Pages \ KernelPages :
                  Lookup(Now, r, other) # NONE /\ Lookup(Now, r, other).address = f =>
                    r = q /\ other = page
  BY <1>2, <1>3 DEF UsedOnce
<1>4. ASSUME NEW t \in Mapped(f), NEW u \in Mapped(f) PROVE t = u
  <2>1. PICK q \in Procs, page \in Pages \ KernelPages : q = t[1] /\ page = t[2] /\ t = <<q, page>>
    BY <1>1
  <2>2. PICK r \in Procs, other \in Pages \ KernelPages : r = u[1] /\ other = u[2] /\ u = <<r, other>>
    BY <1>1
  <2>3. /\ Lookup(Now, q, page) # NONE /\ Lookup(Now, q, page).address = f
        /\ Lookup(Now, r, other) # NONE /\ Lookup(Now, r, other).address = f
    BY <1>1, <2>1, <2>2
  <2>4. r = q /\ other = page
    BY <1>3, <2>3
  <2> QED
    BY <2>1, <2>2, <2>4
<1>5. ASSUME NEW t \in Mapped(f) PROVE f \notin Directories /\ Tables(f) = {}
  <2>1. PICK q \in Procs, page \in Pages \ KernelPages :
          Lookup(Now, q, page) # NONE /\ Lookup(Now, q, page).address = f
    BY <1>1
  <2>2. \A d \in Dirs, i \in DirIndex : dir[d][i] # NONE => dir[d][i].address # f
    BY <1>3, <2>1, NowParts
  <2>3. Tables(f) = {}
    BY <2>2 DEF Tables
  <2> QED
    BY <1>3, <2>1, <2>3
<1> QED
  BY <1>4, <1>5

(* Whatever is loaded and wherever running processes fault, a page of      *)
(* alloc_page's serves one purpose, under the same condition on pointers:  *)
(* execv never puts a program's bytes into a page table, and no two        *)
(* processes get the same page.                                            *)
THEOREM OneUseEach ==
    ASSUME CopiesApart
    PROVE  Spec /\ [](free_memory_page \in Pages) => []PagesHaveOneUse
<1>1. FramesHold => PagesHaveOneUse
  <2> SUFFICES ASSUME FramesHold, NEW f \in Allocated
               PROVE  Cardinality({d \in Dirs : page_directory[d] = f})
                        + Cardinality(Tables(f)) + Cardinality(Mapped(f)) <= 1
    BY DEF PagesHaveOneUse
  <2>1. UseInv /\ Sound(Now)
    BY HoldNow DEF FramesHold, Good
  <2>2. f \in Pages /\ f >= FREE_FIRST /\ f # NONE
    BY <2>1, NowParts, FreeIsInt, PagingConstants DEF Allocated, Frames
  <2>3. PICK A, B, C :
          A = {d \in Dirs : page_directory[d] = f} /\ B = Tables(f) /\ C = Mapped(f)
    OBVIOUS
  <2>4. (\A x, y \in A : x = y) /\ (\A x, y \in B : x = y) /\ (\A x, y \in C : x = y)
    BY <2>1, <2>2, <2>3, OneDirectory, OneTable, OnePage
  <2>5. (B # {} => A = {}) /\ (C # {} => A = {} /\ B = {})
    BY <2>1, <2>2, <2>3, OneDirectory, OneTable, OnePage
  <2>6. /\ Cardinality(A) = IF A = {} THEN 0 ELSE 1
        /\ Cardinality(B) = IF B = {} THEN 0 ELSE 1
        /\ Cardinality(C) = IF C = {} THEN 0 ELSE 1
    BY <2>4, AtMostOne
  <2>7. Cardinality(A) + Cardinality(B) + Cardinality(C) <= 1
    BY <2>5, <2>6
  <2> QED
    BY <2>3, <2>7
<1> QED
  BY <1>1, FramesInvariant, PTL

-----------------------------------------------------------------------------
(* The bytes of the segments.                                              *)

(* Quotient and remainder are determined by what they are for. *)
LEMMA DivUnique ==
    ASSUME NEW N \in Int, N > 0, NEW a \in Int, NEW r \in Int, 0 <= r, r < N,
           NEW x \in Int, x = a * N + r
    PROVE  x \div N = a /\ x % N = r
<1>1. PICK q \in Int, t \in Int :
        q = x \div N /\ t = x % N /\ 0 <= t /\ t < N /\ x = q * N + t
  BY DivMod
<1>2. PICK d \in Int : d = q - a
  OBVIOUS
<1>3. d * N = q * N - a * N
  BY <1>2
<1>4. d * N = r - t
  BY <1>1, <1>3
<1>5. ASSUME d >= 1 PROVE d * N >= N
  BY <1>5
<1>6. ASSUME d <= -1 PROVE d * N <= 0 - N
  BY <1>6
<1>7. d = 0
  BY <1>1, <1>4, <1>5, <1>6
<1> QED
  BY <1>1, <1>2, <1>4, <1>7

(* How many pages size bytes take, the first of them at place at of page f. *)
LEMMA Span ==
    ASSUME NEW N \in Int, N > 0, NEW f \in Int, NEW at \in Int, 0 <= at, at < N,
           NEW size \in Int, size > 0, NEW x \in Int, x = f * N + at + size - 1,
           NEW d, d = x \div N - f
    PROVE  /\ d \in Int /\ d >= 0
           /\ d = 0 <=> at + size <= N
           /\ d = 1 <=> N < at + size /\ at + size <= 2 * N
<1>1. PICK l \in Int, r \in Int : l = x \div N /\ 0 <= r /\ r < N /\ x = l * N + r
  BY DivMod
<1>2. PICK e \in Int, t \in Int : e = l - f /\ t = at + size - 1
  OBVIOUS
<1>3. PICK fN \in Int, lN \in Int, eN \in Int : fN = f * N /\ lN = l * N /\ eN = e * N
  OBVIOUS
<1>4. eN = lN - fN
  BY <1>2, <1>3
<1>5. eN = t - r
  BY <1>1, <1>2, <1>3, <1>4
<1>6. (e = 0 => eN = 0) /\ (e = 1 => eN = N) /\ (e >= 2 => eN >= 2 * N) /\ (e <= -1 => eN <= 0 - N)
  <2>1. ASSUME e >= 2 PROVE e * N >= 2 * N
    BY <2>1
  <2>2. ASSUME e <= -1 PROVE e * N <= 0 - N
    BY <2>2
  <2> QED
    BY <1>3, <2>1, <2>2
<1>7. e >= 0 /\ (e = 0 <=> t < N) /\ (e = 1 <=> N <= t /\ t < 2 * N)
  BY <1>1, <1>2, <1>5, <1>6
<1> QED
  BY <1>1, <1>2, <1>7

(* Where the byte at place at is. *)
LEMMA Place ==
    ASSUME NEW N \in Int, N > 0, NEW f \in Int, NEW at \in Int, 0 <= at,
           NEW x \in Int, x = f * N + at
    PROVE  /\ at < N => x \div N = f /\ x % N = at
           /\ at >= N /\ at < 2 * N => x \div N = f + 1 /\ x % N = at - N
           /\ at = 2 * N => x \div N = f + 2
<1>1. PICK g \in Int, h \in Int, r \in Int : g = f + 1 /\ h = f + 2 /\ r = at - N
  OBVIOUS
<1>2. g * N = f * N + N /\ h * N = f * N + 2 * N
  BY <1>1
<1>3. ASSUME at >= N, at < 2 * N PROVE x \div N = g /\ x % N = r
  <2>1. 0 <= r /\ r < N /\ x = g * N + r
    BY <1>1, <1>2, <1>3
  <2> QED
    BY <2>1, DivUnique
<1>4. ASSUME at = 2 * N PROVE x \div N = h
  <2>1. PICK z \in Int : z = 0
    OBVIOUS
  <2>2. x = h * N + z /\ 0 <= z /\ z < N
    BY <1>2, <1>4, <2>1
  <2> QED
    BY <2>2, DivUnique
<1>5. ASSUME at < N PROVE x \div N = f /\ x % N = at
  BY <1>5, DivUnique
<1> QED
  BY <1>1, <1>3, <1>4, <1>5

(* The numbers of a segment. *)
IsSegment(s) == /\ s.vaddr \in Nat /\ s.offset \in Nat /\ s.memsz \in Nat
                /\ s.vaddr % PAGE_SIZE = s.offset % PAGE_SIZE
FirstPageOf(s) == s.vaddr \div PAGE_SIZE
OffsetInPage(s) == s.vaddr % PAGE_SIZE

(* Its first page and where it begins there. *)
LEMMA SegmentStart ==
    ASSUME NEW s, IsSegment(s)
    PROVE  /\ FirstPageOf(s) \in Int /\ OffsetInPage(s) \in Int
           /\ 0 <= OffsetInPage(s) /\ OffsetInPage(s) < PAGE_SIZE
           /\ s.vaddr = FirstPageOf(s) * PAGE_SIZE + OffsetInPage(s)
           /\ PAGE_SIZE \in Int /\ PAGE_SIZE > 0
<1>1. PICK N \in Int, v \in Int : N = PAGE_SIZE /\ v = s.vaddr /\ N > 0
  BY ProcsAreNumbers DEF IsSegment
<1>2. /\ v \div N \in Int /\ v % N \in Int /\ 0 <= v % N /\ v % N < N
      /\ v = (v \div N) * N + (v % N)
  BY <1>1, DivMod
<1>3. FirstPageOf(s) = v \div N /\ OffsetInPage(s) = v % N
  BY <1>1 DEF FirstPageOf, OffsetInPage
<1> QED
  BY <1>1, <1>2, <1>3

(* How many pages it has. *)
LEMMA SegmentSize ==
    ASSUME NEW s, IsSegment(s), s.memsz > 0
    PROVE  /\ PagesOf(s) \in Int /\ PagesOf(s) >= 1
           /\ PagesOf(s) = 1 <=> OffsetInPage(s) + s.memsz <= PAGE_SIZE
           /\ PagesOf(s) = 2 <=> /\ PAGE_SIZE < OffsetInPage(s) + s.memsz
                                 /\ OffsetInPage(s) + s.memsz <= 2 * PAGE_SIZE
           /\ SegmentPages(s) = FirstPageOf(s) .. FirstPageOf(s) + PagesOf(s) - 1
<1>1. PICK N \in Int, f \in Int, at \in Int :
        /\ N = PAGE_SIZE /\ f = FirstPageOf(s) /\ at = OffsetInPage(s)
        /\ N > 0 /\ 0 <= at /\ at < N /\ s.vaddr = f * N + at
  BY SegmentStart
<1>2. PICK x \in Int, size \in Int :
        /\ x = s.vaddr + s.memsz - 1 /\ size = s.memsz /\ size > 0 /\ x = f * N + at + size - 1
  BY <1>1 DEF IsSegment
<1>3. PICK d : d = x \div N - f
  OBVIOUS
<1>4. /\ d \in Int /\ d >= 0
      /\ d = 0 <=> at + size <= N
      /\ d = 1 <=> N < at + size /\ at + size <= 2 * N
  <2>1. /\ N \in Int /\ N > 0 /\ f \in Int /\ at \in Int /\ 0 <= at /\ at < N
        /\ size \in Int /\ size > 0 /\ x \in Int /\ x = f * N + at + size - 1
    BY <1>1, <1>2
  <2> QED
    BY ONLY <1>3, <2>1, Span
<1>5. x \div N \in Int
  BY <1>1, DivMod
<1>6. PagesOf(s) = x \div N - f + 1 /\ SegmentPages(s) = f .. x \div N
  BY <1>1, <1>2 DEF PagesOf, SegmentPages, FirstPageOf
<1>7. PagesOf(s) = d + 1 /\ x \div N = f + PagesOf(s) - 1
  BY <1>3, <1>5, <1>6
<1>8. SegmentPages(s) = f .. f + PagesOf(s) - 1
  BY <1>6, <1>7
<1>9. /\ d + 1 = 1 <=> at + size <= N
      /\ d + 1 = 2 <=> N < at + size /\ at + size <= 2 * N
      /\ d + 1 \in Int /\ d + 1 >= 1
  BY <1>4
<1> QED
  BY <1>1, <1>2, <1>7, <1>8, <1>9

(* Where a byte of it is, in the first two pages and at the third. *)
LEMMA ByteAt ==
    ASSUME NEW s, IsSegment(s), NEW k \in Int, k >= 0, NEW at, at = OffsetInPage(s) + k
    PROVE  /\ at < PAGE_SIZE => /\ (s.vaddr + k) \div PAGE_SIZE = FirstPageOf(s)
                                /\ (s.vaddr + k) % PAGE_SIZE = at
           /\ at >= PAGE_SIZE /\ at < 2 * PAGE_SIZE =>
                /\ (s.vaddr + k) \div PAGE_SIZE = FirstPageOf(s) + 1
                /\ (s.vaddr + k) % PAGE_SIZE = at - PAGE_SIZE
           /\ at = 2 * PAGE_SIZE => (s.vaddr + k) \div PAGE_SIZE = FirstPageOf(s) + 2
<1>1. PICK N \in Int, f \in Int, a \in Int :
        /\ N = PAGE_SIZE /\ f = FirstPageOf(s) /\ a = OffsetInPage(s)
        /\ N > 0 /\ 0 <= a /\ s.vaddr = f * N + a
  BY SegmentStart
<1>2. PICK x \in Int, b \in Int : x = s.vaddr + k /\ b = at /\ 0 <= b /\ x = f * N + b
  <2>1. s.vaddr + k = f * N + (a + k) /\ s.vaddr + k \in Int
    BY <1>1 DEF IsSegment
  <2> QED
    BY <1>1, <2>1
<1>3. /\ b < N => x \div N = f /\ x % N = b
      /\ b >= N /\ b < 2 * N => x \div N = f + 1 /\ x % N = b - N
      /\ b = 2 * N => x \div N = f + 2
  <2>1. N \in Int /\ N > 0 /\ f \in Int /\ b \in Int /\ 0 <= b /\ x \in Int /\ x = f * N + b
    BY <1>1, <1>2
  <2> QED
    BY ONLY <2>1, Place
<1> QED
  BY <1>1, <1>2, <1>3

(* The part of it in its first page, and what is left. *)
LEMMA FirstPart ==
    ASSUME NEW s, IsSegment(s), NEW n, n = FirstBytes(s).n
    PROVE  /\ FirstBytes(s).at = OffsetInPage(s) /\ n \in Int /\ 0 <= n /\ n <= s.memsz
           /\ OffsetInPage(s) + n <= PAGE_SIZE
           /\ s.memsz > 0 => /\ s.memsz - n > 0 <=> PagesOf(s) > 1
                             /\ s.memsz - n > 0 => OffsetInPage(s) + n = PAGE_SIZE
                             /\ PagesOf(s) = 2 => s.memsz - n <= PAGE_SIZE
<1>1. PICK N \in Int, at \in Int, size \in Int :
        /\ N = PAGE_SIZE /\ at = OffsetInPage(s) /\ size = s.memsz
        /\ N > 0 /\ 0 <= at /\ at < N /\ size >= 0
  BY SegmentStart DEF IsSegment
<1>2. FirstBytes(s).at = at /\ n = IF size + at < N THEN size ELSE N - at
  BY <1>1 DEF FirstBytes, OffsetInPage
<1>3. ASSUME size > 0
      PROVE  /\ PagesOf(s) \in Int /\ PagesOf(s) >= 1
             /\ PagesOf(s) = 1 <=> at + size <= N
             /\ PagesOf(s) = 2 <=> N < at + size /\ at + size <= 2 * N
  BY <1>1, <1>3, SegmentSize
<1> QED
  BY <1>1, <1>2, <1>3

(* The pages execv fills of a segment. *)
LEMMA FilledPages ==
    ASSUME NEW s, IsSegment(s), s.memsz > 0
    PROVE  /\ FirstPageOf(s) \in Filled(s) /\ FirstPageOf(s) \in Int
           /\ PagesOf(s) > 1 => FirstPageOf(s) + 1 \in Filled(s)
           /\ PagesOf(s) > 2 => /\ FirstPageOf(s) + 2 \in SegmentPages(s)
                                /\ FirstPageOf(s) + 2 \notin Filled(s)
           /\ Filled(s) \subseteq SegmentPages(s)
<1>1. PICK f \in Int, n \in Int :
        f = FirstPageOf(s) /\ n = PagesOf(s) /\ n >= 1 /\ SegmentPages(s) = f .. f + n - 1
  BY SegmentStart, SegmentSize
<1>2. Filled(s) = {page \in f .. f + n - 1 : page <= f + 1}
  BY <1>1 DEF Filled, FirstPageOf
<1> QED
  BY <1>1, <1>2

(* The segments of a program. *)
LEMMA ProgramSegment ==
    ASSUME NEW g \in Programs, NEW i \in DOMAIN g.segments, NEW s, s = g.segments[i]
    PROVE  /\ IsSegment(s)
           /\ s.memsz > 0 => /\ SegmentPages(s) \subseteq Pages
                             /\ SegmentPages(s) \cap (KernelPages \cup STACK_PAGES) = {}
<1>1. s \in Segment /\ s.vaddr % PAGE_SIZE = s.offset % PAGE_SIZE
  BY LoaderConstants
<1>2. IsSegment(s)
  BY <1>1 DEF IsSegment, Segment
<1>3. ASSUME s.memsz > 0
      PROVE  SegmentPages(s) \subseteq Pages \ (KernelPages \cup STACK_PAGES)
  <2>1. s.vaddr \div PAGE_SIZE .. (s.vaddr + s.memsz - 1) \div PAGE_SIZE + 1
          \subseteq Pages \ (KernelPages \cup STACK_PAGES)
    BY <1>3, LoaderConstants, Zenon
  <2>2. PICK a \in Int, b \in Int :
          a = s.vaddr \div PAGE_SIZE /\ b = (s.vaddr + s.memsz - 1) \div PAGE_SIZE
    <3>1. PICK N \in Int, x \in Int, y \in Int :
            N = PAGE_SIZE /\ N > 0 /\ x = s.vaddr /\ y = s.vaddr + s.memsz - 1
      BY <1>2, ProcsAreNumbers DEF IsSegment
    <3>2. x \div N \in Int /\ y \div N \in Int
      BY <3>1, DivMod
    <3> QED
      BY <3>1, <3>2
  <2>3. a .. b \subseteq a .. b + 1
    BY <2>2
  <2> QED
    BY <2>1, <2>2, <2>3 DEF SegmentPages
<1> QED
  BY <1>2, <1>3

-----------------------------------------------------------------------------
(* What is in memory while other pages are mapped.                         *)
MemKept(mem, new) == \A f \in DOMAIN mem : f \in DOMAIN new /\ new[f] = mem[f]

(* A page that keeps its translation keeps its content. *)
LEMMA HoldsKept ==
    ASSUME NEW m, NEW mem, NEW q, NEW page, NEW content, Holds(m, mem, q, page, content),
           NEW n, NEW new, Lookup(n, q, page) = Lookup(m, q, page), MemKept(mem, new)
    PROVE  Holds(n, new, q, page, content)
  BY DEF Holds, MemKept

(* So does a segment. *)
LEMMA SegmentKept ==
    ASSUME NEW s, IsSegment(s), NEW m, NEW mem, NEW q, SegmentIn(m, mem, q, s), NEW n, NEW new,
           s.memsz > 0 => \A page \in Filled(s) : Lookup(n, q, page) = Lookup(m, q, page),
           MemKept(mem, new)
    PROVE  SegmentIn(n, new, q, s)
<1> SUFFICES ASSUME s.memsz > 0
             PROVE  FirstIn(n, new, q, s) /\ (PagesOf(s) = 2 => SecondIn(n, new, q, s))
  BY DEF SegmentIn
<1>1. FirstIn(m, mem, q, s) /\ (PagesOf(s) = 2 => SecondIn(m, mem, q, s))
  BY DEF SegmentIn
<1>2. /\ FirstPageOf(s) \in Filled(s)
      /\ PagesOf(s) = 2 => FirstPageOf(s) + 1 \in Filled(s)
  BY FilledPages
<1>3. FirstIn(n, new, q, s)
  BY <1>1, <1>2, HoldsKept DEF FirstIn, FirstPageOf
<1>4. ASSUME PagesOf(s) = 2 PROVE SecondIn(n, new, q, s)
  BY <1>1, <1>2, <1>4, HoldsKept DEF SecondIn, FirstPageOf
<1> QED
  BY <1>3, <1>4

(* And what was loaded of a process, while pages of the kernel or the      *)
(* stack are mapped.                                                       *)
LEMMA ProcessKept ==
    ASSUME NEW g \in Programs, NEW m, NEW mem, NEW q, NEW count, ProcessIn(m, mem, q, g, count),
           NEW n, NEW new, MemKept(mem, new), NEW S, S \subseteq KernelPages \cup STACK_PAGES,
           \A page \in Pages : page \notin S => Lookup(n, q, page) = Lookup(m, q, page)
    PROVE  ProcessIn(n, new, q, g, count)
<1>1. ASSUME NEW page \in Pages \ (KernelPages \cup STACK_PAGES), Lookup(n, q, page) # NONE
      PROVE  \E i \in DOMAIN g.segments : page \in Filled(g.segments[i])
  BY <1>1 DEF ProcessIn
<1>2. ASSUME NEW i \in DOMAIN g.segments, i < count
      PROVE  SegmentIn(n, new, q, g.segments[i])
  <2>1. PICK s : s = g.segments[i]
    OBVIOUS
  <2>2. SegmentIn(m, mem, q, s)
    BY <1>2, <2>1 DEF ProcessIn
  <2>3. IsSegment(s) /\ (s.memsz > 0 => /\ SegmentPages(s) \subseteq Pages
                                        /\ SegmentPages(s) \cap (KernelPages \cup STACK_PAGES) = {})
    BY <2>1, ProgramSegment
  <2>4. s.memsz > 0 => \A page \in Filled(s) : Lookup(n, q, page) = Lookup(m, q, page)
    BY <2>3, FilledPages
  <2> QED
    BY <2>1, <2>2, <2>3, <2>4, SegmentKept
<1> QED
  BY <1>1, <1>2 DEF ProcessIn

(* And while a page of another of its segments is filled. *)
LEMMA ProcessFills ==
    ASSUME NEW g \in Programs, NEW m, NEW mem, NEW q, NEW i \in DOMAIN g.segments,
           ProcessIn(m, mem, q, g, i), g.segments[i].memsz > 0, NEW page \in Filled(g.segments[i]),
           NEW n, NEW new, MemKept(mem, new),
           \A other \in Pages : other # page => Lookup(n, q, other) = Lookup(m, q, other)
    PROVE  ProcessIn(n, new, q, g, i)
<1>1. ASSUME NEW other \in Pages \ (KernelPages \cup STACK_PAGES), Lookup(n, q, other) # NONE
      PROVE  \E j \in DOMAIN g.segments : other \in Filled(g.segments[j])
  BY <1>1 DEF ProcessIn
<1>2. page \in SegmentPages(g.segments[i])
  BY ProgramSegment, FilledPages
<1>3. ASSUME NEW j \in DOMAIN g.segments, j < i
      PROVE  SegmentIn(n, new, q, g.segments[j])
  <2>1. PICK s : s = g.segments[j]
    OBVIOUS
  <2>2. SegmentIn(m, mem, q, s)
    BY <1>3, <2>1 DEF ProcessIn
  <2>3. IsSegment(s) /\ (s.memsz > 0 => SegmentPages(s) \subseteq Pages)
    BY <2>1, ProgramSegment
  <2>4. j # i
    <3>1. i \in Int /\ j \in Int
      BY LoaderConstants
    <3> QED
      BY <1>3, <3>1
  <2>5. s.memsz > 0 => page \notin SegmentPages(s)
    BY <1>2, <2>1, <2>4, SegmentsApart
  <2>6. s.memsz > 0 => \A other \in Filled(s) : Lookup(n, q, other) = Lookup(m, q, other)
    BY <2>3, <2>5, FilledPages
  <2> QED
    BY <2>1, <2>2, <2>3, <2>6, SegmentKept
<1> QED
  BY <1>1, <1>3 DEF ProcessIn

(* One more segment is in memory. *)
LEMMA ProcessMore ==
    ASSUME NEW g \in Programs, NEW m, NEW mem, NEW q, NEW i \in DOMAIN g.segments,
           ProcessIn(m, mem, q, g, i), SegmentIn(m, mem, q, g.segments[i])
    PROVE  ProcessIn(m, mem, q, g, i + 1)
<1>1. \A j \in DOMAIN g.segments : j \in Int
  BY LoaderConstants
<1>2. \A j \in DOMAIN g.segments : j < i + 1 => j < i \/ j = i
  BY <1>1
<1> QED
  BY <1>2 DEF ProcessIn

(* Who is ready executes a program. *)
LEMMA ReadyProgram ==
    ASSUME LoaderInv, NEW q \in Ready
    PROVE  q \in Procs /\ q \in 1 .. Len(program) /\ program \in Seq(Programs) /\ program[q] \in Programs
<1>1. q < allocated_process_id /\ q \in Procs /\ q \in Int /\ allocated_process_id \in Int
  BY InvParts
<1>2. program \in Seq(Programs) /\ Len(program) = allocated_process_id - 1
  BY InvControl DEF Control
<1>3. q >= 1
  BY <1>1, ProcsAreNumbers
<1>4. q \in 1 .. Len(program)
  BY <1>1, <1>2, <1>3
<1> QED
  BY <1>1, <1>2, <1>4

(* Before processes run, mapping pages in one directory keeps the          *)
(* translations of the others.                                             *)
LEMMA LookupKept ==
    ASSUME LoaderInv, pc # "schedular", NEW d, NEW S, MapResult(Now, Now', d, S),
           NEW q \in Procs, NEW page \in Pages, q # d \/ page \notin S
    PROVE  Lookup(Now', q, page) = Lookup(Now, q, page)
<1>1. NotShared(Now)
  BY DEF LoaderInv, DirectoryInv
<1>2. Private(Now, q, DirOf(page))
  BY <1>1, PrivateAll, PageParts
<1>3. Keeps(Now, Now', d, S)
  BY DEF MapResult
<1> QED
  BY <1>2, <1>3 DEF Keeps

(* The processes that are ready, while another is loaded. *)
LEMMA ReadyContent ==
    ASSUME LoaderInv, ReadyLoaded, pc # "schedular", NEW d, NEW S, MapResult(Now, Now', d, S),
           d \notin Ready, MemoryKept, UNCHANGED ready_queue,
           \A q \in Ready : program'[q] = program[q]
    PROVE  ReadyLoaded'
<1>1. Ready' = Ready
  BY ReadyKept
<1>2. ASSUME NEW q \in Ready
      PROVE  ProcessIn(Now', memory', q, program[q], Len(program[q].segments) + 1)
  <2>1. PICK g, count :
          g \in Programs /\ g = program[q] /\ count = Len(program[q].segments) + 1
    BY ReadyProgram
  <2>2. q \in Procs /\ ProcessIn(Now, memory, q, g, count) /\ q # d
    BY <2>1, ReadyProgram DEF ReadyLoaded
  <2>3. \A page \in Pages : Lookup(Now', q, page) = Lookup(Now, q, page)
    BY <2>2, LookupKept
  <2>4. MemKept(memory, memory')
    BY DEF MemKept, MemoryKept
  <2>5. ProcessIn(Now', memory', q, g, count)
    <3>1. {} \subseteq KernelPages \cup STACK_PAGES
      OBVIOUS
    <3> QED
      BY <2>1, <2>2, <2>3, <2>4, <3>1, ProcessKept
  <2> QED
    BY <2>1, <2>5
<1> QED
  BY <1>1, <1>2 DEF ReadyLoaded

ContentHold == LoaderInv /\ ContentInv

(* Between two segments nothing is left to copy. *)
LEMMA NothingLeft ==
    ASSUME ContentHold, pc # "segments"
    PROVE  bytes_to_copy = 0
<1>1. bytes_to_copy \in Nat /\ ~(bytes_to_copy > 0)
  BY InvControl DEF ContentHold, ContentInv, LoadedSoFar, Control
<1> QED
  BY <1>1

(* execv is not at work. *)
LEMMA NotLoading ==
    ASSUME pc' \notin {"segments", "add_to_GDT"}, bytes_to_copy' = 0
    PROVE  LoadedSoFar'
  BY DEF LoadedSoFar

(* The kernel's own mappings at start. *)
LEMMA StartContent ==
    ASSUME ContentHold, PreparePaging \/ EnablePaging, free_memory_page' \in Pages
    PROVE  ContentInv'
<1>1. /\ pc \in {"prepare_kernel_paging", "ksetup_kernel_paging"}
      /\ pc' \notin {"segments", "add_to_GDT"} /\ pc # "schedular"
      /\ UNCHANGED <<program, bytes_to_copy, memory, ready_queue>>
  BY DEF PreparePaging, EnablePaging, At, loading
<1>2. LoaderInv /\ ReadyLoaded /\ Standing
  BY InvStanding DEF ContentHold, ContentInv
<1>3. PICK S : MapResult(Now, Now', kernel_dir, S)
  <2>1. CASE PreparePaging
    BY <1>2, <2>1, PrepareMaps DEF PreparePaging
  <2>2. CASE EnablePaging
    <3>1. PICK page \in Pages, frame \in Pages, user \in BOOLEAN :
            page = TEST_PAGE /\ frame = TEST_PAGE + 1 /\ user = FALSE
      BY PagingConstants
    <3>2. Becomes(add_memory_mapping(Now, kernel_dir, page, frame, user))
      BY <2>2, <3>1 DEF EnablePaging, ksetup_kernel_paging, add_kernel_memory_mapping
    <3> QED
      BY <1>2, <3>2, MappingMaps DEF Standing
  <2> QED
    BY <2>1, <2>2
<1>4. MemoryKept /\ kernel_dir \notin Ready
  BY <1>1, <1>2, InvParts DEF MemoryKept
<1>5. ReadyLoaded'
  BY <1>1, <1>2, <1>3, <1>4, ReadyContent
<1>6. bytes_to_copy' = 0
  BY <1>1, NothingLeft
<1> QED
  BY <1>1, <1>5, <1>6, NotLoading DEF ContentInv

(* A process begins with an empty directory. *)
LEMMA ExecvContent ==
    ASSUME ContentHold, NEW g \in Programs, Execv(g), free_memory_page' \in Pages
    PROVE  ContentInv'
<1>1. /\ pc = "kernel_main" /\ pc' = "segments" /\ allocated_process_id \in Procs
      /\ Becomes(alloc_page(Now)) /\ allocated_process_id' = allocated_process_id + 1
      /\ program' = Append(program, g) /\ segment' = 1 /\ bytes_to_copy' = 0
      /\ UNCHANGED <<memory, ready_queue>>
  BY DEF Execv, At, NewDirectory
<1>2. LoaderInv /\ ReadyLoaded /\ Standing
  BY InvStanding DEF ContentHold, ContentInv
<1>3. MapResult(Now, Now', kernel_dir, {})
  BY <1>1, <1>2, AllocationMaps
<1>4. MemoryKept /\ kernel_dir \notin Ready
  BY <1>1, <1>2, InvParts DEF MemoryKept
<1>5. /\ program \in Seq(Programs) /\ Len(program) = allocated_process_id - 1
      /\ allocated_process_id \in Int /\ allocated_process_id >= 1
  BY <1>1, <1>2, InvControl, ProcsAreNumbers DEF Control
<1>6. \A q \in Ready : program'[q] = program[q]
  BY <1>1, <1>2, <1>5, ReadyProgram
<1>7. ReadyLoaded'
  BY <1>1, <1>2, <1>3, <1>4, <1>6, ReadyContent
<1>8. PICK d \in Procs : d = allocated_process_id /\ p' = d
  BY <1>1, <1>5 DEF p
<1>9. program'[d] = g
  BY <1>1, <1>5, <1>8
<1>10. \A page \in Pages : Lookup(Now', d, page) = NONE
  <2>1. dir[d] = Empty(DirIndex) /\ d \in Dirs
    BY <1>2, <1>5, <1>8 DEF LoaderInv, DirectoryInv, Dirs
  <2>2. \A page \in Pages : Lookup(Now, d, page) = NONE
    BY <2>1, NowParts, PageParts, LookupParts DEF Empty
  <2> QED
    BY <1>1, <1>2, <1>3, <2>2, LookupKept
<1>11. \A i \in DOMAIN g.segments : ~(i < 1)
  BY LoaderConstants
<1>12. ProcessIn(Now', memory', d, g, 1)
  BY <1>10, <1>11 DEF ProcessIn
<1>13. LoadedSoFar'
  BY <1>1, <1>8, <1>9, <1>12 DEF LoadedSoFar
<1> QED
  BY <1>7, <1>13 DEF ContentInv

(* Nothing that was loaded changes. *)
LEMMA SameContent ==
    ASSUME ContentHold, UNCHANGED <<tables, memory, program, allocated_process_id>>
    PROVE  /\ UNCHANGED <<pc, loading, ready_queue>> => ContentInv'
           /\ pc' # "schedular" /\ pc # "schedular" /\ UNCHANGED ready_queue => ReadyLoaded'
<1>1. Now' = Now /\ p' = p
  BY DEF Now, tables, p
<1>2. ready_queue' = ready_queue => Ready' = Ready
  BY ReadyKept
<1>3. ContentInv
  BY DEF ContentHold
<1>4. ASSUME UNCHANGED <<pc, loading, ready_queue>> PROVE ContentInv'
  <2>1. phentry' = phentry /\ UNCHANGED <<segment, bytes_to_copy, src_addr>>
    BY <1>1, <1>4 DEF phentry, loading
  <2> QED
    BY <1>1, <1>2, <1>3, <1>4, <2>1 DEF ContentInv, ReadyLoaded, LoadedSoFar
<1>5. ASSUME pc' # "schedular", pc # "schedular", UNCHANGED ready_queue PROVE ReadyLoaded'
  BY <1>1, <1>2, <1>3, <1>5 DEF ContentInv, ReadyLoaded
<1> QED
  BY <1>4, <1>5

(* An empty segment. *)
LEMMA SkipContent ==
    ASSUME ContentHold, SkipSegment
    PROVE  ContentInv'
<1>1. /\ At("segments") /\ bytes_to_copy = 0 /\ segment <= Len(program[p].segments)
      /\ phentry.memsz = 0 /\ segment' = segment + 1
      /\ UNCHANGED <<tables, memory, program, allocated_process_id, ready_queue, pc, bytes_to_copy>>
  BY DEF SkipSegment, KeepLoading
<1>2. LoaderInv /\ pc = "segments"
  BY <1>1 DEF ContentHold, At
<1>3. Loading /\ segment \in DOMAIN program[p].segments
  BY <1>1, <1>2, InSegments
<1>4. PICK g, d, i : g \in Programs /\ g = program[p] /\ d = p /\ i = segment
  BY <1>3 DEF Loading
<1>5. ProcessIn(Now, memory, d, g, i) /\ i \in DOMAIN g.segments
  BY <1>2, <1>3, <1>4 DEF ContentHold, ContentInv, LoadedSoFar
<1>6. SegmentIn(Now, memory, d, g.segments[i])
  BY <1>1, <1>4 DEF SegmentIn, phentry
<1>7. ProcessIn(Now, memory, d, g, i + 1)
  BY <1>4, <1>5, <1>6, ProcessMore
<1>8. Now' = Now /\ p' = p
  BY <1>1 DEF Now, tables, p
<1>9. LoadedSoFar'
  BY <1>1, <1>2, <1>4, <1>7, <1>8 DEF LoadedSoFar
<1>10. ReadyLoaded'
  BY <1>1, <1>2, SameContent
<1> QED
  BY <1>9, <1>10 DEF ContentInv

(* A page of the process being loaded is filled. *)
LEMMA FillContent ==
    ASSUME ContentHold, pc = "segments", NEW page \in Pages, NEW content, FillPage(page, content),
           free_memory_page' \in Pages, UNCHANGED <<program, allocated_process_id, ready_queue>>,
           NEW d, d = p
    PROVE  /\ ReadyLoaded' /\ p' = d /\ MemKept(memory, memory')
           /\ \A other \in Pages : other # page => Lookup(Now', d, other) = Lookup(Now, d, other)
           /\ Holds(Now', memory', d, page, content)
<1>1. LoaderInv /\ ReadyLoaded /\ Standing /\ pc # "schedular"
  BY InvStanding DEF ContentHold, ContentInv
<1>2. d \in Procs /\ d \notin Ready
  BY <1>1, LoadingParts
<1>3. /\ MapResult(Now, Now', d, {page}) /\ Lookup(Now', d, page).address = free_memory_page
      /\ Lookup(Now', d, page).user /\ free_memory_page' > free_memory_page
  BY <1>1, <1>2, FillMaps DEF FillPage
<1>4. /\ MemoryKept /\ free_memory_page \in DOMAIN memory'
      /\ memory'[free_memory_page] = content
  BY <1>1, <1>3, FillMemory DEF FillPage
<1>5. ReadyLoaded'
  BY <1>1, <1>2, <1>3, <1>4, ReadyContent
<1>6. MemKept(memory, memory') /\ p' = d
  BY <1>4 DEF MemKept, MemoryKept, p
<1>7. \A other \in Pages : other # page => Lookup(Now', d, other) = Lookup(Now, d, other)
  BY <1>1, <1>2, <1>3, LookupKept
<1>8. Holds(Now', memory', d, page, content)
  BY <1>3, <1>4 DEF Holds, MapResult
<1> QED
  BY <1>5, <1>6, <1>7, <1>8

(* What execv copies for process p. *)
LEMMA CopiedBytes ==
    ASSUME NEW at, NEW src, NEW n
    PROVE  Copied(at, src, n) = FileBytes(p, at, src, n)
  BY DEF Copied, FileBytes

(* The first page of a segment. *)
LEMMA FirstContent ==
    ASSUME ContentHold, FirstPage, free_memory_page' \in Pages
    PROVE  ContentInv'
<1>1. PICK d, g, i, s, n :
        d = p /\ g = program[p] /\ i = segment /\ s = phentry /\ n = FirstBytes(s).n
  OBVIOUS
<1>2. /\ At("segments") /\ bytes_to_copy = 0 /\ segment <= Len(program[p].segments)
      /\ s.memsz # 0 /\ FillPage(FirstPageOf(s), Copied(FirstBytes(s).at, s.offset, n))
      /\ bytes_to_copy' = s.memsz - n
      /\ segment' = IF bytes_to_copy' = 0 THEN i + 1 ELSE i
      /\ src_addr' = PAGE_SIZE
      /\ UNCHANGED <<pc, allocated_process_id, program, ready_queue>>
  BY <1>1 DEF FirstPage, KeepLoading, FirstPageOf
<1>3. LoaderInv /\ pc = "segments"
  BY <1>2 DEF ContentHold, At
<1>4. Loading /\ segment \in DOMAIN program[p].segments
  BY <1>2, <1>3, InSegments
<1>5. g \in Programs /\ i \in DOMAIN g.segments /\ s = g.segments[i] /\ d \in Procs
  BY <1>1, <1>4 DEF Loading, phentry
<1>6. /\ IsSegment(s) /\ s.memsz \in Nat /\ s.memsz > 0 /\ SegmentPages(s) \subseteq Pages
  BY <1>2, <1>5, ProgramSegment DEF IsSegment
<1>7. FirstPageOf(s) \in Filled(s) /\ FirstPageOf(s) \in Pages
  BY <1>6, FilledPages
<1>8. PICK page, content :
        /\ page \in Pages /\ page = FirstPageOf(s)
        /\ content = Copied(FirstBytes(s).at, s.offset, n)
  BY <1>7
<1>9. /\ ReadyLoaded' /\ p' = d /\ MemKept(memory, memory')
      /\ \A other \in Pages : other # page => Lookup(Now', d, other) = Lookup(Now, d, other)
      /\ Holds(Now', memory', d, page, content)
  BY <1>1, <1>2, <1>3, <1>8, FillContent
<1>10. ProcessIn(Now', memory', d, g, i)
  <2>1. ProcessIn(Now, memory, d, g, i)
    BY <1>1, <1>3 DEF ContentHold, ContentInv, LoadedSoFar
  <2>2. page \in Filled(g.segments[i])
    BY <1>5, <1>7, <1>8
  <2> QED
    BY <1>5, <1>6, <1>9, <2>1, <2>2, ProcessFills
<1>11. FirstIn(Now', memory', d, s)
  <2>1. content = FileBytes(d, FirstBytes(s).at, s.offset, FirstBytes(s).n)
    BY <1>1, <1>8, CopiedBytes
  <2> QED
    BY <1>8, <1>9, <2>1 DEF FirstIn, FirstPageOf
<1>12. /\ n \in Int /\ n <= s.memsz /\ (s.memsz - n > 0 <=> PagesOf(s) > 1)
       /\ PagesOf(s) \in Int
  BY <1>1, <1>6, FirstPart, SegmentSize
<1>13. CASE s.memsz - n = 0
  <2>1. PagesOf(s) # 2
    BY <1>6, <1>12, <1>13
  <2>2. SegmentIn(Now', memory', d, s)
    BY <1>11, <2>1 DEF SegmentIn
  <2>3. ProcessIn(Now', memory', d, g, i + 1)
    BY <1>5, <1>10, <2>2, ProcessMore
  <2>4. LoadedSoFar'
    BY <1>1, <1>2, <1>3, <1>9, <1>13, <2>3 DEF LoadedSoFar
  <2> QED
    BY <1>9, <2>4 DEF ContentInv
<1>14. CASE s.memsz - n # 0
  <2>1. segment' = i /\ phentry' = s /\ s.memsz - n > 0 /\ PagesOf(s) > 1
    BY <1>1, <1>2, <1>5, <1>6, <1>9, <1>12, <1>14 DEF phentry
  <2>2. LoadedSoFar'
    BY <1>1, <1>2, <1>3, <1>9, <1>10, <1>11, <2>1 DEF LoadedSoFar
  <2> QED
    BY <1>9, <2>2 DEF ContentInv
<1> QED
  BY <1>13, <1>14

(* The page after it. *)
LEMMA FollowingContent ==
    ASSUME ContentHold, FollowingPage, free_memory_page' \in Pages
    PROVE  ContentInv'
<1>1. PICK d, g, i, s, n :
        /\ d = p /\ g = program[p] /\ i = segment /\ s = phentry
        /\ n = IF bytes_to_copy >= PAGE_SIZE THEN PAGE_SIZE ELSE bytes_to_copy
  OBVIOUS
<1>2. /\ At("segments") /\ bytes_to_copy > 0
      /\ FillPage(FirstPageOf(s) + 1, Copied(0, src_addr, n))
      /\ bytes_to_copy' = bytes_to_copy - n
      /\ segment' = IF bytes_to_copy' = 0 THEN i + 1 ELSE i
      /\ UNCHANGED <<pc, allocated_process_id, program, ready_queue>>
  BY <1>1 DEF FollowingPage, KeepLoading, FirstPageOf
<1>3. LoaderInv /\ pc = "segments" /\ Control /\ Loading
  BY <1>2, InvControl DEF ContentHold, At
<1>4. segment \in DOMAIN program[p].segments /\ phentry.memsz > 0 /\ bytes_to_copy \in Nat
  BY <1>2, <1>3 DEF Control, BytesLeft
<1>5. g \in Programs /\ i \in DOMAIN g.segments /\ s = g.segments[i] /\ d \in Procs
  BY <1>1, <1>3, <1>4 DEF Loading, phentry
<1>6. IsSegment(s) /\ s.memsz \in Nat /\ s.memsz > 0 /\ SegmentPages(s) \subseteq Pages
  BY <1>1, <1>4, <1>5, ProgramSegment DEF IsSegment
<1>7. /\ ProcessIn(Now, memory, d, g, i) /\ PagesOf(s) > 1 /\ FirstIn(Now, memory, d, s)
      /\ PagesOf(s) = 2 => src_addr = PAGE_SIZE /\ bytes_to_copy = s.memsz - FirstBytes(s).n
  BY <1>1, <1>2, <1>3 DEF ContentHold, ContentInv, LoadedSoFar
<1>8. /\ FirstPageOf(s) \in Pages /\ FirstPageOf(s) \in Int
      /\ FirstPageOf(s) + 1 \in Filled(s) /\ FirstPageOf(s) + 1 \in Pages
  BY <1>6, <1>7, FilledPages
<1>9. PICK page, content :
        page \in Pages /\ page = FirstPageOf(s) + 1 /\ content = Copied(0, src_addr, n)
  BY <1>8
<1>10. /\ ReadyLoaded' /\ p' = d /\ MemKept(memory, memory')
       /\ \A other \in Pages : other # page => Lookup(Now', d, other) = Lookup(Now, d, other)
       /\ Holds(Now', memory', d, page, content)
  BY <1>1, <1>2, <1>3, <1>9, FillContent
<1>11. ProcessIn(Now', memory', d, g, i)
  <2>1. page \in Filled(g.segments[i])
    BY <1>5, <1>8, <1>9
  <2> QED
    BY <1>5, <1>6, <1>7, <1>10, <2>1, ProcessFills
<1>12. FirstIn(Now', memory', d, s)
  <2>1. FirstPageOf(s) # page
    BY <1>8, <1>9
  <2>2. Lookup(Now', d, FirstPageOf(s)) = Lookup(Now, d, FirstPageOf(s))
    BY <1>8, <1>10, <2>1
  <2> QED
    BY <1>7, <1>10, <2>2, HoldsKept DEF FirstIn, FirstPageOf
<1>13. ASSUME PagesOf(s) = 2
       PROVE  bytes_to_copy' = 0 /\ SecondIn(Now', memory', d, s)
  <2>1. s.memsz - FirstBytes(s).n <= PAGE_SIZE
    BY <1>6, <1>13, FirstPart
  <2>2. n = bytes_to_copy /\ n = s.memsz - FirstBytes(s).n
    BY <1>1, <1>4, <1>7, <1>13, <2>1, ProcsAreNumbers
  <2>3. content = FileBytes(d, 0, PAGE_SIZE, s.memsz - FirstBytes(s).n)
    BY <1>1, <1>7, <1>9, <1>13, <2>2, CopiedBytes
  <2>4. bytes_to_copy' = 0
    BY <1>2, <1>4, <2>2
  <2> QED
    BY <1>9, <1>10, <2>3, <2>4 DEF SecondIn, FirstPageOf
<1>14. CASE bytes_to_copy' = 0
  <2>1. SegmentIn(Now', memory', d, s)
    BY <1>12, <1>13 DEF SegmentIn
  <2>2. ProcessIn(Now', memory', d, g, i + 1)
    BY <1>5, <1>11, <2>1, ProcessMore
  <2>3. LoadedSoFar'
    BY <1>1, <1>2, <1>3, <1>10, <1>14, <2>2 DEF LoadedSoFar
  <2> QED
    BY <1>10, <2>3 DEF ContentInv
<1>15. CASE bytes_to_copy' # 0
  <2>1. segment' = i /\ phentry' = s
    BY <1>1, <1>2, <1>10, <1>15 DEF phentry
  <2>2. PagesOf(s) # 2
    BY <1>13, <1>15
  <2>3. LoadedSoFar'
    BY <1>1, <1>2, <1>3, <1>7, <1>10, <1>11, <1>12, <2>1, <2>2 DEF LoadedSoFar
  <2> QED
    BY <1>10, <2>3 DEF ContentInv
<1> QED
  BY <1>14, <1>15

(* Pages of the stack or the kernel are mapped for the process. *)
LEMMA MoreContent ==
    ASSUME ContentHold, pc = "segments", pc' \in {"segments", "add_to_GDT"},
           bytes_to_copy = 0, segment > Len(program[p].segments),
           UNCHANGED <<program, allocated_process_id, segment, bytes_to_copy>>,
           NEW S, S \subseteq KernelPages \cup STACK_PAGES, MemKept(memory, memory'), NEW d, d = p,
           \A page \in Pages : page \notin S => Lookup(Now', d, page) = Lookup(Now, d, page)
    PROVE  LoadedSoFar'
<1>1. PICK g, i : g = program[p] /\ i = segment
  OBVIOUS
<1>2. LoaderInv /\ g \in Programs
  BY <1>1, InvControl DEF ContentHold, Loading
<1>3. ProcessIn(Now, memory, d, g, i)
  BY <1>1 DEF ContentHold, ContentInv, LoadedSoFar
<1>4. ProcessIn(Now', memory', d, g, i)
  BY <1>2, <1>3, ProcessKept
<1>5. p' = d
  BY DEF p
<1> QED
  BY <1>1, <1>4, <1>5 DEF LoadedSoFar

(* A page of the stack. *)
LEMMA StackContent ==
    ASSUME ContentHold, StackPage, free_memory_page' \in Pages
    PROVE  ContentInv'
<1>1. /\ pc = "segments" /\ pc' = pc /\ bytes_to_copy = 0 /\ segment > Len(program[p].segments)
      /\ UNCHANGED <<program, allocated_process_id, ready_queue, segment, bytes_to_copy>>
  BY DEF StackPage, KeepLoading, At
<1>2. PICK page \in STACK_PAGES : FillPage(page, Zeros)
  BY DEF StackPage
<1>3. PICK d, content : d = p /\ content = Zeros
  OBVIOUS
<1>4. page \in Pages /\ FillPage(page, content)
  BY <1>2, <1>3, StackPagesArePages
<1>5. /\ ReadyLoaded' /\ MemKept(memory, memory')
      /\ \A other \in Pages : other # page => Lookup(Now', d, other) = Lookup(Now, d, other)
  BY <1>1, <1>3, <1>4, FillContent
<1>6. PICK S : S = {page}
  OBVIOUS
<1>7. /\ S \subseteq KernelPages \cup STACK_PAGES
      /\ \A other \in Pages : other \notin S => Lookup(Now', d, other) = Lookup(Now, d, other)
  BY <1>5, <1>6
<1>8. LoadedSoFar'
  BY <1>1, <1>3, <1>5, <1>7, MoreContent
<1> QED
  BY <1>5, <1>8 DEF ContentInv

(* The kernel's pages. *)
LEMMA KernelContent ==
    ASSUME ContentHold, KernelMappings, free_memory_page' \in Pages
    PROVE  ContentInv'
<1>1. /\ pc = "segments" /\ pc' = "add_to_GDT" /\ bytes_to_copy = 0
      /\ segment > Len(program[p].segments) /\ Becomes(add_kernel_mappings(Now, p))
      /\ UNCHANGED <<program, allocated_process_id, ready_queue, segment, bytes_to_copy, memory>>
  BY DEF KernelMappings, KeepLoading, At
<1>2. LoaderInv /\ ReadyLoaded /\ Standing /\ pc # "schedular"
  BY <1>1, InvStanding DEF ContentHold, ContentInv
<1>3. PICK d, S : d = p /\ S = KernelPages
  OBVIOUS
<1>4. d \in Procs /\ d \notin Ready
  BY <1>1, <1>2, <1>3, LoadingParts
<1>5. MapResult(Now, Now', d, S)
  BY <1>1, <1>2, <1>3, <1>4, KernelMaps
<1>6. MemoryKept /\ MemKept(memory, memory')
  BY <1>1 DEF MemoryKept, MemKept
<1>7. ReadyLoaded'
  BY <1>1, <1>2, <1>4, <1>5, <1>6, ReadyContent
<1>8. \A page \in Pages : page \notin S => Lookup(Now', d, page) = Lookup(Now, d, page)
  BY <1>2, <1>4, <1>5, LookupKept
<1>9. S \subseteq KernelPages \cup STACK_PAGES
  BY <1>3
<1>10. LoadedSoFar'
  BY <1>1, <1>3, <1>6, <1>8, <1>9, MoreContent
<1> QED
  BY <1>7, <1>10 DEF ContentInv

(* A process is ready once all of its segments are loaded. *)
LEMMA ReadyOnceLoaded ==
    ASSUME ContentHold, AddToGDT
    PROVE  ContentInv'
<1>1. /\ pc = "add_to_GDT"
      /\ UNCHANGED <<tables, memory, program, allocated_process_id, loading>>
  BY DEF AddToGDT, At, paging, tables, loading
<1>2. LoaderInv /\ ReadyLoaded /\ Control /\ Loading
  BY <1>1, InvControl DEF ContentHold, ContentInv
<1>3. CASE ~(GDT_INDEX + 2 <= GDT_SIZE)
  <2>1. UNCHANGED <<ready_queue, pc>>
    BY <1>3 DEF AddToGDT
  <2> QED
    BY <1>1, <2>1, SameContent
<1>4. CASE GDT_INDEX + 2 <= GDT_SIZE
  <2>1. ready_queue' = Append(ready_queue, p) /\ pc' = "kernel_main"
    BY <1>4 DEF AddToGDT
  <2>2. \A q \in Ready' : q \in Ready \/ q = p
    <3>1. PICK n \in Nat : n = Len(ready_queue) /\ DOMAIN ready_queue = 1 .. n
      BY <1>2 DEF Control
    <3>2. /\ DOMAIN ready_queue' = 1 .. n + 1 /\ ready_queue'[n + 1] = p
          /\ \A i \in 1 .. n : ready_queue'[i] = ready_queue[i]
      BY <1>2, <2>1, <3>1 DEF Control, Loading
    <3>3. \A i \in 1 .. n + 1 : i \in 1 .. n \/ i = n + 1
      BY <3>1
    <3> QED
      BY <3>1, <3>2, <3>3 DEF Ready
  <2>3. PICK d, g, i, c : d = p /\ g = program[p] /\ i = segment /\ c = Len(g.segments) + 1
    OBVIOUS
  <2>4. ProcessIn(Now, memory, d, g, i) /\ i > Len(g.segments) /\ i \in Nat /\ g \in Programs
    BY <1>1, <1>2, <2>3 DEF ContentHold, ContentInv, LoadedSoFar, Control, Loading
  <2>5. ProcessIn(Now, memory, d, g, c)
    <3>1. \A j \in DOMAIN g.segments : j < i
      BY <2>4, LoaderConstants
    <3> QED
      BY <2>4, <3>1 DEF ProcessIn
  <2>6. Now' = Now
    BY <1>1 DEF Now, tables
  <2>7. ASSUME NEW q \in Ready'
        PROVE  ProcessIn(Now, memory, q, program[q], Len(program[q].segments) + 1)
    <3>1. CASE q \in Ready
      BY <1>1, <1>2, <3>1 DEF ReadyLoaded
    <3>2. CASE q = p
      BY <2>3, <2>5, <3>2
    <3> QED
      BY <2>2, <3>1, <3>2
  <2>8. ReadyLoaded'
    BY <1>1, <2>6, <2>7 DEF ReadyLoaded
  <2>9. bytes_to_copy' = 0
    BY <1>1, NothingLeft DEF loading
  <2> QED
    BY <2>1, <2>8, <2>9, NotLoading DEF ContentInv
<1> QED
  BY <1>3, <1>4

(* Processes run, and execv does not. *)
LEMMA RunContent ==
    ASSUME ContentHold, EnterSchedular \/ Run
    PROVE  ContentInv'
<1>1. pc # "segments" /\ pc' = "schedular" /\ bytes_to_copy' = bytes_to_copy
  BY DEF EnterSchedular, Run, Switch, SystemCall, PageFault, At, Keep, loading
<1>2. LoadedSoFar'
  BY <1>1, NothingLeft, NotLoading
<1>3. ReadyLoaded'
  BY <1>1 DEF ReadyLoaded
<1> QED
  BY <1>2, <1>3 DEF ContentInv

(* ContentInv is inductive with LoaderInv while there are frames left. *)
LEMMA ContentHoldNext ==
    ASSUME ContentHold, [Next]_vars, free_memory_page' \in Pages
    PROVE  ContentHold'
<1>1. LoaderInv'
  BY LoaderInvNext DEF ContentHold
<1>2. CASE PreparePaging \/ EnablePaging
  BY <1>1, <1>2, StartContent DEF ContentHold
<1>3. CASE \E g \in Programs : Execv(g)
  BY <1>1, <1>3, ExecvContent DEF ContentHold
<1>4. CASE EnterSchedular \/ Run
  BY <1>1, <1>4, RunContent DEF ContentHold
<1>5. CASE SkipSegment
  BY <1>1, <1>5, SkipContent DEF ContentHold
<1>6. CASE FirstPage
  BY <1>1, <1>6, FirstContent DEF ContentHold
<1>7. CASE FollowingPage
  BY <1>1, <1>7, FollowingContent DEF ContentHold
<1>8. CASE StackPage
  BY <1>1, <1>8, StackContent DEF ContentHold
<1>9. CASE KernelMappings
  BY <1>1, <1>9, KernelContent DEF ContentHold
<1>10. CASE AddToGDT
  BY <1>1, <1>10, ReadyOnceLoaded DEF ContentHold
<1>11. CASE UnsupportedSegment \/ UNCHANGED vars
  <2>1. UNCHANGED <<tables, memory, program, allocated_process_id, pc, loading, ready_queue>>
    BY <1>11 DEF UnsupportedSegment, Fatal, vars, paging, tables, loading
  <2> QED
    BY <1>1, <2>1, SameContent DEF ContentHold
<1> QED
  BY <1>2, <1>3, <1>4, <1>5, <1>6, <1>7, <1>8, <1>9, <1>10, <1>11 DEF Next, Boot, Load, Stopped

(* Nothing is loaded at the start. *)
LEMMA ContentHoldInit == Init => ContentHold
<1> SUFFICES ASSUME Init PROVE ContentHold
  OBVIOUS
<1>1. ready_queue = << >> /\ pc = "prepare_kernel_paging" /\ bytes_to_copy = 0
  BY DEF Init
<1>2. Ready = {}
  BY <1>1 DEF Ready
<1>3. ContentInv
  BY <1>1, <1>2 DEF ContentInv, ReadyLoaded, LoadedSoFar
<1> QED
  BY <1>3, LoaderInvInit DEF ContentHold

(* The invariant holds while there are frames left. *)
LEMMA ContentInvariant ==
    Spec /\ [](free_memory_page \in Pages) => []ContentHold
<1>1. ContentHold /\ [Next]_vars /\ (free_memory_page \in Pages)' => ContentHold'
  BY ContentHoldNext
<1> QED
  BY <1>1, ContentHoldInit, PTL DEF Spec

-----------------------------------------------------------------------------
(* What a program finds at its addresses.                                  *)

(* A byte of the file in a page of the process. *)
LEMMA ByteIn ==
    ASSUME NEW q, NEW page, NEW at \in Int, NEW src \in Int, NEW n \in Int,
           Holds(Now, memory, q, page, FileBytes(q, at, src, n)),
           NEW j \in Int, 0 <= j, j < PAGE_SIZE, at <= j, j < at + n
    PROVE  /\ Translation(q, page) # NONE /\ Translation(q, page).user
           /\ memory[Translation(q, page).address][j] = <<q, src + j - at>>
<1>1. j \in Bytes /\ j \in at .. at + n - 1
  BY ProcsAreNumbers DEF Bytes
<1>2. FileBytes(q, at, src, n)[j] = <<q, src + j - at>>
  BY <1>1 DEF FileBytes
<1> QED
  BY <1>2 DEF Holds, Translation

(* At the address of its byte k, the process finds byte x of its file. *)
Found(q, s, k, x) ==
    LET e == Translation(q, (s.vaddr + k) \div PAGE_SIZE)
    IN  e # NONE /\ e.user /\ memory[e.address][(s.vaddr + k) % PAGE_SIZE] = <<q, x>>

(* A byte in the segment's first page is the file's. *)
LEMMA FirstByte ==
    ASSUME NEW q, NEW s, IsSegment(s), FirstIn(Now, memory, q, s), NEW k \in Int,
           0 <= k, k < FirstBytes(s).n
    PROVE  Found(q, s, k, s.offset + k)
<1>0. PICK page, byte : page = (s.vaddr + k) \div PAGE_SIZE /\ byte = (s.vaddr + k) % PAGE_SIZE
  OBVIOUS
<1>1. PICK N \in Int, at \in Int : N = PAGE_SIZE /\ at = OffsetInPage(s) /\ 0 <= at
  BY SegmentStart
<1>2. PICK n : n = FirstBytes(s).n
  OBVIOUS
<1>3. FirstBytes(s).at = at /\ n \in Int /\ at + n <= N
  BY <1>1, <1>2, FirstPart
<1>4. PICK j \in Int, src \in Int : j = at + k /\ src = s.offset
  BY <1>1 DEF IsSegment
<1>5. 0 <= j /\ j < N /\ at <= j /\ j < at + n /\ src + j - at = src + k
  BY <1>1, <1>2, <1>3, <1>4
<1>6. page = FirstPageOf(s) /\ byte = j
  BY <1>1, <1>4, <1>5, <1>0, ByteAt
<1>7. Holds(Now, memory, q, page, FileBytes(q, at, src, n))
  BY <1>2, <1>3, <1>4, <1>6 DEF FirstIn, FirstPageOf
<1>8. /\ Translation(q, page) # NONE /\ Translation(q, page).user
      /\ memory[Translation(q, page).address][j] = <<q, src + j - at>>
  <2>1. j < PAGE_SIZE
    BY <1>1, <1>5
  <2> QED
    BY ONLY <1>3, <1>5, <1>7, <2>1, j \in Int, at \in Int, src \in Int, ByteIn
<1> QED
  <2>1. src + j - at = s.offset + k
    BY <1>4, <1>5
  <2> QED
    BY ONLY <1>0, <1>6, <1>8, <2>1 DEF Found

(* A byte in its second page comes from the file's second page. *)
LEMMA SecondByte ==
    ASSUME NEW q, NEW s, IsSegment(s), s.memsz > 0, PagesOf(s) = 2, SecondIn(Now, memory, q, s),
           NEW k \in Int, FirstBytes(s).n <= k, k < s.memsz
    PROVE  Found(q, s, k, OffsetInPage(s) + k)
<1>0. PICK page, byte : page = (s.vaddr + k) \div PAGE_SIZE /\ byte = (s.vaddr + k) % PAGE_SIZE
  OBVIOUS
<1>1. PICK N \in Int, at \in Int, size \in Int, z \in Int :
        N = PAGE_SIZE /\ at = OffsetInPage(s) /\ 0 <= at /\ size = s.memsz /\ z = 0
  BY SegmentStart DEF IsSegment
<1>2. PICK n : n = FirstBytes(s).n
  OBVIOUS
<1>3. n \in Int /\ 0 <= n /\ (size - n > 0 => at + n = N) /\ size - n <= N
  <2>1. /\ n \in Int /\ 0 <= n /\ s.memsz - n <= PAGE_SIZE
        /\ s.memsz - n > 0 => OffsetInPage(s) + n = PAGE_SIZE
    BY <1>2, FirstPart
  <2> QED
    BY ONLY <1>1, <2>1
<1>4. PICK j \in Int, rest \in Int : j = at + k - N /\ rest = size - n
  BY <1>1, <1>3
<1>5. /\ 0 <= j /\ j < N /\ z <= j /\ j < z + rest /\ N + j - z = at + k
      /\ at + k >= N /\ at + k < 2 * N /\ k >= 0
  <2>1. n <= k /\ k < size
    BY <1>1, <1>2
  <2> QED
    BY ONLY <1>1, <1>3, <1>4, <2>1, k \in Int, N \in Int, at \in Int, size \in Int, z \in Int
<1>6. page = FirstPageOf(s) + 1 /\ byte = j
  BY <1>1, <1>4, <1>5, <1>0, ByteAt
<1>7. Holds(Now, memory, q, page, FileBytes(q, z, N, rest))
  BY <1>1, <1>2, <1>4, <1>6 DEF SecondIn, FirstPageOf
<1>8. /\ Translation(q, page) # NONE /\ Translation(q, page).user
      /\ memory[Translation(q, page).address][j] = <<q, N + j - z>>
  <2>1. j < PAGE_SIZE
    BY <1>1, <1>5
  <2> QED
    BY ONLY <1>5, <1>7, <2>1, j \in Int, z \in Int, N \in Int, rest \in Int, ByteIn
<1> QED
  <2>1. N + j - z = OffsetInPage(s) + k
    BY <1>1, <1>5
  <2> QED
    BY ONLY <1>0, <1>6, <1>8, <2>1 DEF Found

(* Its third page is not mapped. *)
LEMMA ThirdPage ==
    ASSUME NEW g \in Programs, NEW q, NEW count, ProcessIn(Now, memory, q, g, count),
           NEW i \in DOMAIN g.segments, NEW s, s = g.segments[i], s.memsz > 0, PagesOf(s) > 2,
           NEW page, page = FirstPageOf(s) + 2
    PROVE  Translation(q, page) = NONE
<1>1. /\ IsSegment(s) /\ SegmentPages(s) \subseteq Pages
      /\ SegmentPages(s) \cap (KernelPages \cup STACK_PAGES) = {}
  BY ProgramSegment
<1>2. page \in SegmentPages(s) /\ page \notin Filled(s)
  BY <1>1, FilledPages
<1> SUFFICES ASSUME Lookup(Now, q, page) # NONE PROVE FALSE
  BY DEF Translation
<1>3. PICK j \in DOMAIN g.segments : page \in Filled(g.segments[j])
  BY <1>1, <1>2 DEF ProcessIn
<1>4. page \in SegmentPages(g.segments[j]) /\ g.segments[j].memsz > 0
  BY <1>3 DEF Filled
<1>5. j # i
  BY <1>2, <1>3
<1> QED
  BY <1>2, <1>4, <1>5, SegmentsApart

(* The segments that are where the program expects them. *)
LEMMA ExpectedWhen ==
    ASSUME NEW g \in Programs, NEW q, NEW i \in DOMAIN g.segments, NEW s, s = g.segments[i],
           NEW count, count = Len(g.segments) + 1, ProcessIn(Now, memory, q, g, count)
    PROVE  Expected(q, s) <=>
             s.memsz = 0 \/ PagesOf(s) = 1 \/ (PagesOf(s) = 2 /\ s.offset < PAGE_SIZE)
<1>1. IsSegment(s) /\ s.memsz \in Nat /\ s.offset \in Nat
  BY ProgramSegment DEF IsSegment
<1>2. CASE s.memsz = 0
  <2>1. 0 .. s.memsz - 1 = {}
    BY <1>2
  <2> QED
    BY <1>2, <2>1 DEF Expected
<1>3. CASE s.memsz > 0
  <2>1. i < count
    BY LoaderConstants
  <2>2. SegmentIn(Now, memory, q, s)
    BY <2>1 DEF ProcessIn
  <2>3. FirstIn(Now, memory, q, s) /\ (PagesOf(s) = 2 => SecondIn(Now, memory, q, s))
    BY <1>3, <2>2 DEF SegmentIn
  <2>4. PICK N \in Int, at \in Int, size \in Int, pages \in Int :
          /\ N = PAGE_SIZE /\ N > 0 /\ at = OffsetInPage(s) /\ 0 <= at /\ at < N
          /\ size = s.memsz /\ pages = PagesOf(s) /\ pages >= 1
          /\ (pages = 1 <=> at + size <= N) /\ (pages = 2 <=> N < at + size /\ at + size <= 2 * N)
    <3>1. PagesOf(s) \in Int /\ PagesOf(s) >= 1
      BY <1>1, <1>3, SegmentSize
    <3>2. /\ PagesOf(s) = 1 <=> OffsetInPage(s) + s.memsz <= PAGE_SIZE
          /\ PagesOf(s) = 2 <=> /\ PAGE_SIZE < OffsetInPage(s) + s.memsz
                                /\ OffsetInPage(s) + s.memsz <= 2 * PAGE_SIZE
      BY <1>1, <1>3, SegmentSize
    <3>3. /\ OffsetInPage(s) \in Int /\ 0 <= OffsetInPage(s) /\ OffsetInPage(s) < PAGE_SIZE
          /\ PAGE_SIZE \in Int /\ PAGE_SIZE > 0
      BY <1>1, SegmentStart
    <3>4. s.memsz \in Int
      BY <1>1
    <3> QED
      BY ONLY <3>1, <3>2, <3>3, <3>4
  <2>5. PICK n \in Int : /\ n = FirstBytes(s).n /\ 0 <= n /\ n <= size
                         /\ (size - n > 0 <=> pages > 1)
    <3>1. PICK n : n = FirstBytes(s).n
      OBVIOUS
    <3>2. n \in Int /\ 0 <= n /\ n <= s.memsz /\ (s.memsz - n > 0 <=> PagesOf(s) > 1)
      BY <1>1, <1>3, <3>1, FirstPart
    <3> QED
      BY ONLY <2>4, <3>1, <3>2
  <2>6. ASSUME NEW k \in Int, 0 <= k, k < n
        PROVE  Found(q, s, k, s.offset + k)
    BY <1>1, <2>3, <2>5, <2>6, FirstByte
  <2>7. ASSUME pages = 2, NEW k \in Int, n <= k, k < size
        PROVE  Found(q, s, k, at + k)
    <3>1. FirstBytes(s).n <= k /\ k < s.memsz /\ PagesOf(s) = 2
      BY <2>4, <2>5, <2>7
    <3>2. Found(q, s, k, OffsetInPage(s) + k)
      BY <1>1, <1>3, <2>3, <3>1, SecondByte
    <3> QED
      BY <2>4, <3>2
  <2>8. Expected(q, s) <=> \A k \in 0 .. s.memsz - 1 : Found(q, s, k, s.offset + k)
    BY DEF Expected, Found
  <2>9. CASE pages = 1
    <3>1. n = size
      BY <2>4, <2>5, <2>9
    <3>2. \A k \in 0 .. size - 1 : k \in Int /\ 0 <= k /\ k < n
      BY ONLY <3>1, size \in Int, n \in Int
    <3>3. Expected(q, s)
      BY <2>4, <2>6, <2>8, <3>2
    <3> QED
      BY <2>4, <2>9, <3>3
  <2>10. CASE pages = 2 /\ s.offset < PAGE_SIZE
    <3>1. at = s.offset
      <4>1. PICK o \in Int, z \in Int : o = s.offset /\ z = 0 /\ 0 <= o /\ o < N /\ o = z * N + o
        <5>1. s.offset \in Int /\ 0 <= s.offset /\ s.offset < N
          BY <1>1, <2>4, <2>10
        <5>2. \A o \in Int : o = 0 * N + o
          BY ONLY N \in Int
        <5> QED
          BY <5>1, <5>2
      <4>2. o % N = o
        BY ONLY <2>4, <4>1, N \in Int, o \in Int, z \in Int, DivUnique
      <4>3. OffsetInPage(s) = s.offset % PAGE_SIZE
        BY <1>1 DEF IsSegment, OffsetInPage
      <4> QED
        BY ONLY <2>4, <4>1, <4>2, <4>3
    <3>2. \A k \in 0 .. size - 1 : k \in Int /\ 0 <= k /\ k < size /\ (k < n \/ n <= k)
      BY ONLY size \in Int, n \in Int
    <3>3. ASSUME NEW k \in 0 .. s.memsz - 1 PROVE Found(q, s, k, s.offset + k)
      <4>1. k \in Int /\ 0 <= k /\ k < size /\ (k < n \/ n <= k)
        BY <2>4, <3>2, Zenon
      <4>2. CASE k < n
        BY <2>6, <4>1, <4>2
      <4>3. CASE n <= k
        <5>1. Found(q, s, k, at + k)
          BY <2>7, <2>10, <4>1, <4>3
        <5> QED
          BY <3>1, <5>1
      <4> QED
        BY <4>1, <4>2, <4>3
    <3>4. Expected(q, s)
      BY <2>8, <3>3
    <3> QED
      BY <2>4, <2>10, <3>4
  <2>11. CASE pages = 2 /\ ~(s.offset < PAGE_SIZE)
    <3>1. n < size /\ n \in 0 .. size - 1 /\ s.offset # at
      BY ONLY <1>1, <2>4, <2>5, <2>11, n \in Int, at \in Int, size \in Int, N \in Int
    <3>2. s.offset + n # at + n
      BY ONLY <1>1, <3>1, n \in Int, at \in Int
    <3>3. Found(q, s, n, at + n)
      BY <2>5, <2>7, <2>11, <3>1
    <3>4. ~Found(q, s, n, s.offset + n)
      BY ONLY <3>2, <3>3 DEF Found
    <3>5. ~Expected(q, s)
      BY <2>4, <2>8, <3>1, <3>4
    <3> QED
      BY <1>3, <2>4, <2>11, <3>5
  <2>12. CASE pages > 2
    <3>1. PICK k \in Int : k = 2 * N - at
      BY <2>4
    <3>2. k \in 0 .. s.memsz - 1 /\ k >= 0 /\ at + k = 2 * N
      BY ONLY <2>4, <2>12, <3>1, k \in Int, at \in Int, size \in Int, N \in Int, pages \in Int
    <3>3. PICK page : page = (s.vaddr + k) \div PAGE_SIZE
      OBVIOUS
    <3>4. page = FirstPageOf(s) + 2
      BY <1>1, <2>4, <3>2, <3>3, ByteAt
    <3>5. Translation(q, page) = NONE
      <4>1. PagesOf(s) > 2
        BY <2>4, <2>12
      <4> QED
        BY <1>3, <3>4, <4>1, ThirdPage
    <3>6. ~Found(q, s, k, s.offset + k)
      BY <3>3, <3>5 DEF Found
    <3>7. ~Expected(q, s)
      BY <2>8, <3>2, <3>6
    <3> QED
      BY <1>3, <2>4, <2>12, <3>7
  <2> QED
    BY <2>4, <2>9, <2>10, <2>11, <2>12
<1> QED
  BY <1>1, <1>2, <1>3

(* A process that becomes ready has every byte of a segment where the      *)
(* program expects it exactly when the segment lies in one page, or in two *)
(* and begins in the file's first page: execv copies every following page  *)
(* to the same address, from the file's second page on.                    *)
THEOREM SegmentsLoadedExactly == Spec /\ [](free_memory_page \in Pages) => []LoadedExactly
<1>1. ContentHold => LoadedExactly
  <2> SUFFICES ASSUME ContentHold, pc # "schedular", NEW q \in Ready,
                      NEW i \in DOMAIN program[q].segments, NEW s, s = program[q].segments[i]
               PROVE  Expected(q, s) <=>
                        s.memsz = 0 \/ PagesOf(s) = 1 \/ (PagesOf(s) = 2 /\ s.offset < PAGE_SIZE)
    BY DEF LoadedExactly
  <2>1. PICK g : g \in Programs /\ g = program[q]
    BY ReadyProgram DEF ContentHold
  <2>2. ProcessIn(Now, memory, q, g, Len(g.segments) + 1)
    BY <2>1 DEF ContentHold, ContentInv, ReadyLoaded
  <2> QED
    BY <2>1, <2>2, ExpectedWhen
<1> QED
  BY <1>1, ContentInvariant, PTL
=============================================================================
