------------------------------- MODULE Loader -------------------------------
(***************************************************************************)
(* Kernel start and program loading: ksetup_kernel_paging, execv           *)
(* (process.cpp), add_to_GDT (kernel.cpp), and what running processes do   *)
(* to the page tables afterwards: page faults (interrupt.cpp) and the      *)
(* mappings system calls copy (system_entry.cpp).                          *)
(*                                                                         *)
(* A program is the part of its ELF file that execv reads.  A byte of it   *)
(* in memory is the pair of the process and the byte's offset in the file, *)
(* a zero byte is NONE.  Addresses count bytes of pages of PAGE_SIZE.      *)
(***************************************************************************)
EXTENDS Paging

CONSTANTS
    PAGE_SIZE,
    Programs,           \* the files that can be executed
    STACK_PAGES,        \* the pages below USER_STACK_VADDRESS
    GDT_SIZE,
    FaultPages,         \* the pages running processes may fault on
    CopyStarts          \* the pages system calls take their arguments from

Segment == [vaddr : Nat, offset : Nat, filesz : Nat, memsz : Nat]

(* Linkers place a segment at the same offset of a page in the file and in *)
(* memory.  A segment's pages lie apart from the kernel's and the stack's. *)
ASSUME LoaderConstants ==
    /\ IsFiniteSet(Procs) /\ Procs = 1 .. Cardinality(Procs) /\ PAGE_SIZE \in Nat \ {0}
    /\ STACK_PAGES \cup FaultPages \subseteq Pages \ KernelPages /\ CopyStarts \subseteq Pages
    /\ GDT_SIZE \in Nat /\ GDT_SIZE >= 4
    /\ \A g \in Programs :
         /\ g.valid \in BOOLEAN /\ g.segments \in Seq(Segment)
         /\ \A i \in DOMAIN g.segments :
              LET s == g.segments[i]
              IN  /\ s.vaddr % PAGE_SIZE = s.offset % PAGE_SIZE
                  /\ s.memsz > 0 =>
                       s.vaddr \div PAGE_SIZE .. (s.vaddr + s.memsz - 1) \div PAGE_SIZE + 1
                         \subseteq Pages \ (KernelPages \cup STACK_PAGES)

(* What programs consist of lies below the kernel, and alloc_page's region *)
(* has room for the tables kernel_main makes.                              *)
ASSUME LoaderLayout ==
    /\ TEST_PAGE < KERNEL_FIRST
    /\ \A page \in STACK_PAGES : page < KERNEL_FIRST
    /\ \A g \in Programs : \A i \in DOMAIN g.segments :
         LET s == g.segments[i]
         IN  s.memsz > 0 =>
               s.vaddr \div PAGE_SIZE .. (s.vaddr + s.memsz - 1) \div PAGE_SIZE + 1
                 \subseteq 0 .. KERNEL_FIRST - 1
    /\ FREE_LAST \div TABLE_ENTRIES - KERNEL_FIRST \div TABLE_ENTRIES + 3
         <= FREE_LAST - FREE_FIRST + 1

(* Processes pass pointers to their own memory: pages in page tables apart *)
(* from those of alloc_page's region.  The kernel does not check that.     *)
CopiesApart == \A page \in CopyStarts :
                 page \div TABLE_ENTRIES < FREE_FIRST \div TABLE_ENTRIES

(* userspace.ld links the segments of a program far apart. *)
SegmentPages(s) == s.vaddr \div PAGE_SIZE .. (s.vaddr + s.memsz - 1) \div PAGE_SIZE
ASSUME SegmentsApart ==
    \A g \in Programs : \A i, j \in DOMAIN g.segments :
      i # j /\ g.segments[i].memsz > 0 /\ g.segments[j].memsz > 0 =>
        SegmentPages(g.segments[i]) \cap SegmentPages(g.segments[j]) = {}

VARIABLES
    pc,                 \* where kernel_main is
    allocated_process_id,
    program,            \* program[p]: what process p executes
    segment,            \* the program header being loaded
    bytes_to_copy, src_addr,
    memory,             \* the bytes of frames filled by execv
    GDT_INDEX,
    ready_queue,
    halted              \* the message of a fatal, or "no"

loading == <<program, segment, bytes_to_copy, src_addr>>
vars == <<paging, pc, allocated_process_id, loading, memory, GDT_INDEX, ready_queue, halted>>

Bytes == 0 .. PAGE_SIZE - 1
Zeros == [k \in Bytes |-> NONE]
Ready == {ready_queue[i] : i \in DOMAIN ready_queue}

Init ==
    /\ PagingInit
    /\ pc = "prepare_kernel_paging"
    /\ allocated_process_id = 1
    /\ program = << >> /\ segment = 1 /\ bytes_to_copy = 0 /\ src_addr = 0
    /\ memory = << >>
    /\ GDT_INDEX = 4                        \* init_GDT
    /\ ready_queue = << >> /\ halted = "no"

At(l) == pc = l /\ halted = "no" /\ ~lost

Fatal(message) == halted' = message /\ UNCHANGED <<paging, pc, memory, GDT_INDEX>>

-----------------------------------------------------------------------------
(* kernel_main up to the first execv. *)
PreparePaging ==
    /\ At("prepare_kernel_paging") /\ prepare_kernel_paging
    /\ pc' = "ksetup_kernel_paging"
    /\ UNCHANGED <<allocated_process_id, loading, memory, GDT_INDEX, ready_queue, halted>>

EnablePaging ==
    /\ At("ksetup_kernel_paging") /\ ksetup_kernel_paging
    /\ pc' = "kernel_main"
    /\ halted' = IF /\ Translation(kernel_dir, TEST_PAGE)' # NONE
                    /\ Translation(kernel_dir, TEST_PAGE).address' = TEST_PAGE + 1
                 THEN "no" ELSE "paging test failed"
    /\ UNCHANGED <<allocated_process_id, loading, memory, GDT_INDEX, ready_queue>>

-----------------------------------------------------------------------------
(* execv.  The process being loaded is the last one numbered. *)
p == allocated_process_id - 1
phentry == program[p].segments[segment]
KeepLoading == UNCHANGED <<allocated_process_id, program, ready_queue, cr3, is_paging_enabled>>

Execv(file) ==
    /\ At("kernel_main") /\ allocated_process_id \in Procs
    /\ NewDirectory(allocated_process_id)
    /\ allocated_process_id' = allocated_process_id + 1
    /\ program' = Append(program, file)
    /\ segment' = 1 /\ bytes_to_copy' = 0
    /\ halted' = IF file.valid THEN "no" ELSE "Unsupported program file"
    /\ pc' = "segments"
    /\ UNCHANGED <<src_addr, memory, GDT_INDEX, ready_queue, cr3, is_paging_enabled>>

UnsupportedSegment ==
    /\ At("segments") /\ bytes_to_copy = 0 /\ segment <= Len(program[p].segments)
    /\ phentry.filesz # phentry.memsz
    /\ Fatal("Unsupported Program header entry")
    /\ UNCHANGED <<allocated_process_id, loading, ready_queue>>

SkipSegment ==
    /\ At("segments") /\ bytes_to_copy = 0 /\ segment <= Len(program[p].segments)
    /\ phentry.filesz = phentry.memsz /\ phentry.memsz = 0
    /\ segment' = segment + 1
    /\ KeepLoading
    /\ UNCHANGED <<page_directory, tables, pc, bytes_to_copy, src_addr, memory, GDT_INDEX, halted>>

(* memcpy of n bytes of the file, from offset src, to a page of zeros. *)
Copied(at, src, n) ==
    [k \in Bytes |-> IF k \in at .. at + n - 1 THEN <<p, src + k - at>> ELSE NONE]

(* Fault: the first page is filled from its start. *)
FirstBytesUnaligned(s) == [at |-> 0, n |-> IF s.memsz < PAGE_SIZE THEN s.memsz ELSE PAGE_SIZE]

(* The part of the segment that lies in its first page. *)
FirstBytes(s) ==
    LET offset_in_page == s.vaddr % PAGE_SIZE
    IN  [at |-> offset_in_page,
         n  |-> IF s.memsz + offset_in_page < PAGE_SIZE THEN s.memsz
                ELSE PAGE_SIZE - offset_in_page]

(* A new page of the process, mapped for it and filled. *)
FillPage(page, content) ==
    /\ Becomes(add_memory_mapping(alloc_page(Now), p, page, free_memory_page, TRUE))
    /\ memory' = With(memory, free_memory_page, content)

FirstPage ==
    /\ At("segments") /\ bytes_to_copy = 0 /\ segment <= Len(program[p].segments)
    /\ phentry.filesz = phentry.memsz /\ phentry.memsz # 0
    /\ LET first == FirstBytes(phentry)
       IN  /\ FillPage(phentry.vaddr \div PAGE_SIZE,
                       Copied(first.at, phentry.offset, first.n))
           /\ bytes_to_copy' = phentry.memsz - first.n
           /\ segment' = IF bytes_to_copy' = 0 THEN segment + 1 ELSE segment
    /\ src_addr' = PAGE_SIZE
    /\ KeepLoading
    /\ UNCHANGED <<page_directory, pc, GDT_INDEX, halted>>

(* vaddr stays the page after the first one, src_addr advances. *)
FollowingPage ==
    /\ At("segments") /\ bytes_to_copy > 0
    /\ LET n == IF bytes_to_copy >= PAGE_SIZE THEN PAGE_SIZE ELSE bytes_to_copy
       IN  /\ FillPage(phentry.vaddr \div PAGE_SIZE + 1, Copied(0, src_addr, n))
           /\ bytes_to_copy' = bytes_to_copy - n
           /\ segment' = IF bytes_to_copy' = 0 THEN segment + 1 ELSE segment
    /\ src_addr' = src_addr + PAGE_SIZE
    /\ KeepLoading
    /\ UNCHANGED <<page_directory, pc, GDT_INDEX, halted>>

(* One page of the stack, from the highest down. *)
StackPage ==
    /\ At("segments") /\ bytes_to_copy = 0 /\ segment > Len(program[p].segments)
    /\ \E page \in STACK_PAGES :
         /\ Translation(p, page) = NONE
         /\ \A above \in STACK_PAGES : above > page => Translation(p, above) # NONE
         /\ FillPage(page, Zeros)
    /\ KeepLoading
    /\ UNCHANGED <<page_directory, pc, segment, bytes_to_copy, src_addr, GDT_INDEX, halted>>

KernelMappings ==
    /\ At("segments") /\ bytes_to_copy = 0 /\ segment > Len(program[p].segments)
    /\ \A page \in STACK_PAGES : Translation(p, page) # NONE
    /\ Becomes(add_kernel_mappings(Now, p))
    /\ pc' = "add_to_GDT"
    /\ KeepLoading
    /\ UNCHANGED <<page_directory, segment, bytes_to_copy, src_addr, memory, GDT_INDEX, halted>>

(* Fault: the limit is not checked. *)
AddToGDTUnlimited ==
    /\ At("add_to_GDT")
    /\ GDT_INDEX' = GDT_INDEX + 2
    /\ ready_queue' = Append(ready_queue, p) /\ pc' = "kernel_main"
    /\ UNCHANGED <<paging, allocated_process_id, loading, memory, halted>>

(* Two descriptors, then the process is ready. *)
AddToGDT ==
    /\ At("add_to_GDT")
    /\ GDT_INDEX' = IF GDT_INDEX + 2 <= GDT_SIZE THEN GDT_INDEX + 2 ELSE GDT_SIZE
    /\ IF GDT_INDEX + 2 <= GDT_SIZE
       THEN /\ ready_queue' = Append(ready_queue, p)
            /\ pc' = "kernel_main" /\ UNCHANGED halted
       ELSE halted' = "GDT exceeds limit" /\ UNCHANGED <<ready_queue, pc>>
    /\ UNCHANGED <<paging, allocated_process_id, loading, memory>>

-----------------------------------------------------------------------------
Keep == UNCHANGED <<page_directory, is_paging_enabled, allocated_process_id,
                    loading, memory, GDT_INDEX, ready_queue>>

EnterSchedular ==
    /\ At("kernel_main") /\ pc' = "schedular"
    /\ Keep /\ UNCHANGED <<tables, cr3, halted>>

(* switch_to_process, or back to the kernel's context. *)
Switch(d) ==
    /\ At("schedular") /\ cr3' = d
    /\ Keep /\ UNCHANGED <<tables, pc, halted>>

(* A system call of the running process with an argument at start. *)
SystemCall(start, too_large) ==
    /\ At("schedular") /\ cr3 \in Procs
    /\ copy_process_mapping(cr3, start)
    /\ halted' = IF too_large /\ ~lost' THEN "count is too large" ELSE "no"
    /\ Keep /\ UNCHANGED <<cr3, pc>>

Accessible(page) == LET e == Translation(cr3, page)
                    IN  e # NONE /\ (e.user \/ cr3 = kernel_dir)

(* A page fault, of a process for a page that is absent or the kernel's, or*)
(* of the kernel.  The handler clears three bits of the address and panics *)
(* if that does not give the start of a page.                              *)
PageFault(page, aligned) ==
    /\ At("schedular") /\ ~Accessible(page)
    /\ IF aligned THEN Becomes(add_kernel_memory_mapping(Now, page, page)) /\ UNCHANGED halted
       ELSE halted' = "address is not aligned" /\ UNCHANGED tables
    /\ Keep /\ UNCHANGED <<cr3, pc>>

(* fatal, or lost in faults. *)
Stopped == (halted # "no" \/ lost) /\ UNCHANGED vars

Boot == PreparePaging \/ EnablePaging \/ EnterSchedular \/ \E g \in Programs : Execv(g)
Load == \/ UnsupportedSegment \/ SkipSegment \/ FirstPage \/ FollowingPage
        \/ StackPage \/ KernelMappings \/ AddToGDT
Run == \/ \E d \in Ready \cup {kernel_dir} : Switch(d)
       \/ \E start \in CopyStarts, too_large \in BOOLEAN : SystemCall(start, too_large)
       \/ \E page \in FaultPages, aligned \in BOOLEAN : PageFault(page, aligned)

Next == Boot \/ Load \/ Run \/ Stopped
Spec == Init /\ [][Next]_vars

-----------------------------------------------------------------------------
TypeOK ==
    /\ PagingTypeOK
    /\ pc \in {"prepare_kernel_paging", "ksetup_kernel_paging", "kernel_main",
               "segments", "add_to_GDT", "schedular"}
    /\ allocated_process_id \in 1 .. Cardinality(Procs) + 1
    /\ program \in Seq(Programs) /\ Len(program) = allocated_process_id - 1
    /\ segment \in Nat /\ bytes_to_copy \in Nat /\ src_addr \in Nat
    /\ DOMAIN memory \subseteq Allocated
    /\ GDT_INDEX \in 4 .. GDT_SIZE /\ Ready \subseteq Procs

(* Given CopiesApart, every page alloc_page handed out serves one purpose: *)
(* the directory of one process, one table of one directory, or one page   *)
(* of one process.                                                         *)
(* The kernel's directory may hold the table of a process at the table's   *)
(* own place, where copy_process_mapping put it.                           *)
Tables(f) == {t \in Dirs \X DirIndex :
                /\ dir[t[1]][t[2]] # NONE /\ dir[t[1]][t[2]].address = f
                /\ t[1] = kernel_dir =>
                     \A q \in Procs : dir[q][t[2]] # dir[kernel_dir][t[2]]}
Mapped(f) == {t \in Procs \X (Pages \ KernelPages) :
                Translation(t[1], t[2]) # NONE /\ Translation(t[1], t[2]).address = f}
PagesHaveOneUse ==
    \A f \in Allocated :
      Cardinality({d \in Dirs : page_directory[d] = f})
        + Cardinality(Tables(f)) + Cardinality(Mapped(f)) <= 1

(* The bytes of a segment are where the program expects them exactly when  *)
(* the segment lies in one page, or in two and begins in the file's first  *)
(* page.  execv copies every following page to the same address and takes  *)
(* them from the second page of the file on.                               *)
Expected(q, s) ==
    \A k \in 0 .. s.memsz - 1 :
      LET e == Translation(q, (s.vaddr + k) \div PAGE_SIZE)
      IN  e # NONE /\ e.user
          /\ memory[e.address][(s.vaddr + k) % PAGE_SIZE] = <<q, s.offset + k>>
PagesOf(s) == (s.vaddr + s.memsz - 1) \div PAGE_SIZE - s.vaddr \div PAGE_SIZE + 1
LoadedExactly ==
    pc # "schedular" =>
      \A q \in Ready : \A i \in DOMAIN program[q].segments :
        LET s == program[q].segments[i]
        IN  Expected(q, s) <=>
              s.memsz = 0 \/ PagesOf(s) = 1 \/ (PagesOf(s) = 2 /\ s.offset < PAGE_SIZE)

(* A process that becomes ready has an empty stack, and all of the kernel's*)
(* pages where the kernel has them: the trap entry runs in its directory.  *)
Runnable ==
    pc # "schedular" =>
      \A q \in Ready :
        /\ \A page \in STACK_PAGES : /\ Translation(q, page) # NONE
                                     /\ memory[Translation(q, page).address] = Zeros
        /\ \A page \in KernelPages : /\ Translation(q, page) # NONE
                                     /\ Translation(q, page).address = page

(* Once processes run, the page tables of a process change only where the  *)
(* kernel's directory holds one of them, and there by anyone's page faults:*)
(* a fault of one process can replace a page of another.                   *)
OnlySharedTablesChange ==
    [][pc = "schedular" =>
        \A q \in Ready : \A page \in Pages :
          Translation(q, page)' # Translation(q, page) =>
            dir[q][page \div TABLE_ENTRIES] = dir[kernel_dir][page \div TABLE_ENTRIES]]_vars

(* Given CopiesApart, the kernel reaches every page it allocated at the    *)
(* page's own address, also the pages after the region that is mapped from *)
(* the start.                                                              *)
AllocatedMapped ==
    is_paging_enabled /\ ~lost =>
      \A f \in Allocated : /\ Translation(kernel_dir, f) # NONE
                           /\ Translation(kernel_dir, f).address = f

(* The kernel faults without end, or panics over a fault of its own, only  *)
(* when it has handed out pages after the mapped region.                   *)
LostOnlyBeyondRegion == lost => free_memory_page > FREE_LAST + 1

-----------------------------------------------------------------------------
(* The inductive invariant behind these properties. *)
StackEmpty(q) ==
    \A page \in STACK_PAGES :
      Translation(q, page) # NONE => /\ Translation(q, page).address \in DOMAIN memory
                                     /\ memory[Translation(q, page).address] = Zeros
StackMapped(q) == \A page \in STACK_PAGES : Translation(q, page) # NONE
KernelInPlace(q) == \A page \in KernelPages : /\ Translation(q, page) # NONE
                                              /\ Translation(q, page).address = page

(* Whose directory is in use, and what it maps. *)
DirectoryInv ==
    /\ Sound(Now) /\ LostOnlyBeyondRegion
    /\ cr3 \in Ready \cup {kernel_dir} /\ \A q \in Ready : page_directory[q] \in Allocated
    /\ \A q \in Ready : MapsKernel(Now, q) /\ q < allocated_process_id
    /\ \A q \in Procs : q >= allocated_process_id => dir[q] = Empty(DirIndex)
    /\ pc # "schedular" => cr3 = kernel_dir /\ NotShared(Now)
    /\ pc = "prepare_kernel_paging" => ~is_paging_enabled
    /\ pc # "prepare_kernel_paging" => MapsKernel(Now, kernel_dir)

(* How far execv is. *)
LoadInv ==
    /\ ready_queue \in Seq(Procs) /\ segment >= 1
    /\ pc \in {"segments", "add_to_GDT"} =>
         /\ p \in Procs /\ p \notin Ready /\ page_directory[p] \in Allocated
         /\ StackEmpty(p)
    /\ pc = "add_to_GDT" => StackMapped(p) /\ KernelInPlace(p)
    /\ bytes_to_copy > 0 => /\ p \in Procs /\ segment \in DOMAIN program[p].segments
                            /\ phentry.memsz > 0
    /\ pc # "schedular" => \A q \in Ready : StackEmpty(q) /\ StackMapped(q) /\ KernelInPlace(q)

LoaderInv == TypeOK /\ DirectoryInv /\ LoadInv

(* Where the kernel finds the frames it handed out. *)
FramesInv ==
    /\ Own(Now) /\ Apart(Now) /\ Below(Now)
    /\ pc = "prepare_kernel_paging" => free_memory_page = FREE_FIRST
    /\ pc = "ksetup_kernel_paging" => free_memory_page <= FREE_LAST
    /\ is_paging_enabled <=> pc \notin {"prepare_kernel_paging", "ksetup_kernel_paging"}
    /\ is_paging_enabled /\ ~lost => Reached(Now)

(* What they are used for. *)
Directories == {page_directory[d] : d \in Dirs} \ {NONE}
UseInv ==
    /\ Directories \subseteq Allocated
    /\ \A c, d \in Dirs : page_directory[c] = page_directory[d] => c = d \/ page_directory[c] = NONE
    /\ UsedOnce(Now, Directories)

(* What execv has put into the memory of process q, which executes g. *)
Holds(m, mem, q, page, content) ==
    LET e == Lookup(m, q, page)
    IN  e # NONE /\ e.user /\ e.address \in DOMAIN mem /\ mem[e.address] = content
FileBytes(q, at, src, n) ==
    [k \in Bytes |-> IF k \in at .. at + n - 1 THEN <<q, src + k - at>> ELSE NONE]
FirstIn(m, mem, q, s) == Holds(m, mem, q, s.vaddr \div PAGE_SIZE,
                               FileBytes(q, FirstBytes(s).at, s.offset, FirstBytes(s).n))
SecondIn(m, mem, q, s) == Holds(m, mem, q, s.vaddr \div PAGE_SIZE + 1,
                                FileBytes(q, 0, PAGE_SIZE, s.memsz - FirstBytes(s).n))
SegmentIn(m, mem, q, s) ==
    s.memsz > 0 => FirstIn(m, mem, q, s) /\ (PagesOf(s) = 2 => SecondIn(m, mem, q, s))
Filled(s) == {page \in SegmentPages(s) : s.memsz > 0 /\ page <= s.vaddr \div PAGE_SIZE + 1}
ProcessIn(m, mem, q, g, count) ==
    /\ \A page \in Pages \ (KernelPages \cup STACK_PAGES) : Lookup(m, q, page) # NONE =>
         \E i \in DOMAIN g.segments : page \in Filled(g.segments[i])
    /\ \A i \in DOMAIN g.segments : i < count => SegmentIn(m, mem, q, g.segments[i])
ReadyLoaded ==
    pc # "schedular" => \A q \in Ready :
      ProcessIn(Now, memory, q, program[q], Len(program[q].segments) + 1)
LoadedSoFar ==
    /\ pc \in {"segments", "add_to_GDT"} => ProcessIn(Now, memory, p, program[p], segment)
    /\ pc = "add_to_GDT" => segment > Len(program[p].segments)
    /\ bytes_to_copy > 0 =>
         /\ pc = "segments" /\ PagesOf(phentry) > 1 /\ FirstIn(Now, memory, p, phentry)
         /\ PagesOf(phentry) = 2 => /\ src_addr = PAGE_SIZE
                                    /\ bytes_to_copy = phentry.memsz - FirstBytes(phentry).n
ContentInv == ReadyLoaded /\ LoadedSoFar
=============================================================================
