# StarOS in TLA+

StarOS is a small 32-bit x86 operating system: a boot loader that reads a FAT32
disk, and a kernel with paging, an ELF loader, a round-robin scheduler, a timer,
a PS/2 keyboard and a handful of system calls. This directory holds TLA+ modules
that model the kernel and the reading of files, TLC configurations that check them on small
instances, and TLAPS proofs of the main safety results for every instance.
`PROJECT.json` relates definitions to source lines and lists runs, faults,
findings, hazards and theorems.

To repeat a run: `tlc -workers 2 -config KernelSafety.cfg MCKernel`. To check the
proofs: `tlapm KernelProofs.tla`, and the same for the other modules whose names
end in `Proofs`.

## 1. Inventory

Paths are relative to the repository's root.

| Component | State it keeps | Operations | Called from |
|---|---|---|---|
| Scheduler (`src/schedular.cpp`, `src/process.cpp`, `src/sleep.cpp`) | `ready_queue`, `running_queue`, `blocking_queue`, `CURRENT_PROCESS`, `Current_control_flow`, `Kernel_proc`, the `Process` records, `Count_down` | `schedular`, `switch_to_process`, `save_context*`, `restore_context_to_trapframe`, `usleep` | `kernel_main`, with interrupts on |
| Interrupt handling (`src/interrupt.cpp`) | IDT, `waiting_sleep_queue` | `hardware_interrupt_handler` (timer, keyboard), `interrupt_handler` (exceptions) | trap stubs, interrupts off |
| System calls (`src/system_entry.cpp`) | one pending request: `gets_enabled`, `gets_buffer`, `gets_count`, `gets_already_count`, `process_waiting_gets` | `helloworld`, `struct`, `printf`, `add`, `gets`, `sleep` | `int` instruction of a process |
| Keyboard driver (`src/ps2_keyboard.cpp`, generated `src/keyevent_table.cpp`) | `SCAN_CODE`, `Key_pressed_table` | `ps2_keyboard_interrupt`, `response_scancode`, `to_event_id` | keyboard interrupt |
| Kernel heap (`src/memory_management.cpp`) | `Free_blocks`, `Allocated_blocks` and their counts | `malloc`, `free` | everybody, the lists above all |
| Linked list (`src/linked_list.h`) | `head`, `tail`, nodes | `push_back`, `pop_front`, `remove`, `locate`, `for_each`, `filter` | scheduler (interrupts on), handlers (off) |
| Paging (`src/paging.cpp`, `src/stdlib.cpp`) | `kernel_paging_directory`, page tables, next free page | `ksetup_kernel_paging`, `add_memory_mapping`, `add_kernel_mappings`, `copy_process_mapping`, `alloc_page` | `kernel_main`, loader, page-fault handler, system calls |
| Program loader (`execv` in `src/process.cpp`) | a new address space and context | `execv` | `kernel_main` |
| Disk and FAT32 (`src/b32_disk.cpp`, `src/b32_filesystem.cpp`) | `PCI_done`, the drive last selected, the drive's registers | `read_disk_sector`, `stat`, `fs_read` | boot loader, loader |
| GDT, TSS, start (`src/kernel.cpp`) | `GDT`, `GDT_INDEX`, `KERNEL_TSS` | `add_to_GDT`, `kernel_main` | boot loader |
| PIC, trap stubs, boot code, console, C library, user programs | - | - | - |

How they interact. `kernel_main` starts processes with `execv`, which puts them
on `ready_queue`, and enters `schedular` for good. The scheduler pops a process,
makes it the running one and irets into ring 3; it gets the CPU back when a
timer interrupt or a blocking system call replaces the trap frame by the context
`switch_to_process` saved. Handlers and scheduler share the queues, the heap and
the globals; there are no locks. The only protection is that handlers run with
interrupts off. The scheduler does not turn them off.

What is hard here:

* interrupts between any two steps of the scheduler, on shared lists and a heap
  that is not reentrant;
* the few instructions around the switch to ring 3, where the globals already
  say "process" and the CPU is still in the kernel;
* writes to user memory from a handler, in whichever address space is loaded;
* processes that block and must be resumed by exactly one event;
* tables of fixed size, sizes that wrap around, counters compared with `==`;
* scan codes of one to six bytes, decoded byte by byte by hand-written ranges.

What makes each part correct:

* scheduler and handlers: no process lost or queued twice; one running process;
  round robin; each runs in its own address space; ready ones run and blocked
  ones are resumed; a context saved for a process is that process's;
* gets: the characters end up in the reader's memory, inside its buffer;
* heap: no byte handed out twice, none lost; the tables are not used up;
* list: it is a queue; no node stranded or leaked; every walk ends;
* keyboard: in step with the byte stream; every code has an event; the table of
  pressed keys and the characters are right;
* paging and loader: mappings of one process do not change another's; every page
  of a segment is where its program header says;
* disk and file system: what is read is what the cluster chain holds, and errors
  are reported.

## 2. Modules

| Module | What it is |
|---|---|
| `Kernel` | scheduler, context switch, timer and keyboard interrupts, system calls |
| `ProcessLifecycle` | abstract: the life of a process (implemented by `Kernel`) |
| `KernelProofs`, `GetsProofs` | theorems about `Kernel`: its invariant and queues; gets, the order of the ready queue and who is forgotten |
| `MemoryManagement` | malloc and free on their two tables |
| `Heap` | abstract: blocks in use that share no byte (implemented by `MemoryManagement`) |
| `MemoryManagementProofs` | theorems about `MemoryManagement` |
| `LinkedList` | the list node by node, with `pop_front` interruptible |
| `LinkedListProofs` | theorems about `LinkedList` with interrupts off |
| `Queue` | abstract: a sequence (implemented by `LinkedList` with interrupts off) |
| `Keyboard` | the keyboard driver, and a keyboard that sends scan code set 1 |
| `KeyboardProofs` | theorems about `Keyboard` |
| `Paging` | page directories and tables, `alloc_page`, the faults the kernel takes itself |
| `Loader` | kernel start, `execv`, the GDT, then page faults and system calls (extends `Paging`) |
| `PagingProofs`, `LoaderProofs` | lemmas on the operations of `Paging`, theorems about `Loader` |
| `Disk` | the IDE driver, a sector at a time |
| `FileSystem` | `stat` and `fs_read` on a FAT32 volume (extends `Disk`) |
| `FileSystemProofs` | theorems about `FileSystem` |
| `MC...` | instances for TLC, refinement mappings, statements of the repository's comments |

### Kernel

Handlers are atomic, because interrupt gates clear IF. The scheduler is not: `pc`
says which of its steps comes next, and an interrupt may come before any of them.
`pc` runs through `loop`, `pop`, `admit` (schedular), `switch`, `flow`, `window`
(switch_to_process), `user` (ring 3), `restored`, `usleep`, `test`, `hlt`.
`window` is the stretch from `Current_control_flow = Process_thread` to `iret`.
In it an interrupt's frame holds the scheduler's registers, so `SaveContext`
records a "kernel" context; when that one is later given to `iret` the CPU runs
garbage (`pc = "wild"`), and the model says nothing about what follows.

Within `pop` and `admit` the scheduler is inside `pop_front`, `push_back`,
`malloc` or `free`. A handler that changes a list there may or may not do damage,
depending on the instruction it hits. The model chooses: `torn` may become true.
What a torn list looks like is the subject of `LinkedList`. Once `torn`, `fatal`
or `wild`, the kernel only spins, so every safety property speaks of behaviour
up to that point, and liveness properties say "or the kernel is lost".

The order of `running_queue` and `blocking_queue` is never observed, so they are
counts; `ready_queue` and `waiting_sleep_queue` are sequences. `for_each` and
`filter` over the clocks are given by the increasing enumerations of the positions
that expire and of those that are kept (`InOrder`), which is their effect without
recursion. An address space is its owner; `copy_process_mapping` records whose
page table the kernel directory's entry points to. `stored` counts the characters
of the current request in each memory. `Count_down` is kept at 0, where the code
lets it go negative, because only `> 0` is tested. A clock is an `int64` in the
code and its product with `TICKS_PER_SECOND` does not wrap. `fatal` covers the
list operations and the test of gets and sleep that they come from a process;
these are the fatals `NoFatal` is about. A process can stop the kernel at will, by
a size above 4 MB, which `copy_process_mapping` refuses after it has changed the
directory, or by an unknown call id: that is `pc = "refused"` (`SysTooLarge`,
`SysUnknown`). Invalid scan codes are in `Keyboard`. `kernel_main` may start any
non-empty set of the processes before it enters the scheduler, so a process that
is alone is a case of every run.

### MemoryManagement

One step per call, early returns and `fatal` included: a call that gives up
leaves the tables as they were at that point, for example with the free block
already shrunk when the table of allocated blocks is full. `Rounded` wraps
around at `WORD`, the number of values of `size_t`. Merging is what the code
does: only with the first free block that starts where the freed one ends.

### LinkedList

Pointers are model values. `head.next = p->next` is two steps, a load and a
store. With `INTERRUPTS` a `push_back` may come between any two steps of
`pop_front`, which is the only operation schedular runs on a queue the handlers
push to. `before` is auxiliary: the contents when the operation began.

### Keyboard

A code is the sequence of its bytes. The environment is the keyboard of
`scan_code_1.txt`: keys go down, repeat and go up, and it may send the two error
bytes, 00 and FF. The first leaves no trace (a number does not grow by a leading
zero byte); the second is the start of no code and stays in `SCAN_CODE`, which
is why `InStep` and the properties after it speak of keyboards that never sent
it, and `OverrunDeafens` of the others. The generated table
`Keyevent_table` is given by its ranges, which were compared with all 256 lines.

### Paging

Linear pages and physical frames have the same numbers. `Kernel_maps` is one
range of pages, each mapped to its own frame; the map of the first 4 MB is left
out, as nothing modelled lies there. An operation is a function from a record of
directories, tables and the next free page to another such record, because
`add_memory_mapping` calls `alloc_page`, which may fault, which calls
`add_memory_mapping`. `Touched` is the access to a frame by its physical address:
nothing happens if the directory in use maps it; in the kernel's directory the
page-fault handler maps it, if the page table exists; otherwise the
faults never end, or the handler panics over an address inside a page: both are
`lost`.

### Loader

`pc` follows `kernel_main`; execv is one step per segment page and per stack page,
one for the kernel's pages and one for the two descriptors. Execution is
sequential up to `schedular`, as in the code: until a process is ready, no handler
touches what execv uses. A program is its list of program headers. A byte in
memory is the process and the file offset it came from, so that a byte from the
wrong place is told from the right one. Linkers place segments at the same offset
of a page in the file and in memory; this is an assumption (`LoaderConstants`).
`LoaderLayout` says where things are, as `kernel.h`, `kernel.ld` and
`src_user/userspace.ld` have them: a program's segments and its stack (0x0ff00000
to 0x29000000), and the page of the paging test, lie below the kernel
(0x40005000), and alloc_page's region holds at least the tables kernel_main makes.
The pointers programs pass to system calls (`CopyStarts`) may be anywhere, since
the kernel checks none. `CopiesApart` says that they do not lie in the page tables
of alloc_page's region; two properties need it (section 4). `SegmentsApart`:
userspace.ld puts .text, .rodata and .data 100 MB or more apart, so that no two
segments share a page. The pages processes fault on may be anywhere but in the
kernel. After `EnterSchedular`, `Switch` loads any ready process's directory or
the kernel's: `Kernel` says when, here it may be at any time. A page fault's
address is an input: the handler clears bits 0, 4 and 8, and panics unless the
rest of the low 12 are 0 (`aligned`).

### Disk and FileSystem

One step is one sector read and what the code does with it up to the next read,
so that an error can hit every read. `Disk` keeps what survives a read: whether
the PCI bus was searched, the mode of the controller, and the high address bits
in the drive register, which the driver writes only once. A failed read leaves
any sector's content in the buffer, since buffers are on the stack and read
before; a sector taken for a directory, a boot sector or a FAT that it is not
gives any of `OtherEntries`, `StaleGeometry` and `StaleNumbers`. A volume
(`Volumes`) is given by its root directory's cluster and its directories' items; the
sectors follow from it as FAT32 lays them out (external definitions). The lookup
keeps the code's habits: the root at cluster 2 whatever the volume says; only the
first sector of a directory; names collected in a buffer that starts with anything
in `Garbage`, characters included, and is not cleared; short names not read at
all; after the last part of a path, `filename` stays or goes to a name of
`Behind`, what follows a `/` somewhere behind the string. `offset` is where
fat32_read's `dest_buffer` points, which falls behind what was written when a wrong
sector size was read. `corrupt` is a write outside of an array on the stack, before
the name (`order & 0xf` is 0) or behind `tmp`; the code may also go on unharmed,
which the other disjuncts allow.

## 3. Runs

Passing:

| Run | Instance | Shows |
|---|---|---|
| `KernelSafety` | up to 3 processes, 1 reader, sleep with 0, 1, 2 and gets with 1, 2, other calls with a size at the limit and one above, 2 ticks per second | `TypeOK`, `QueuesMatchStatus` (each process in the one queue its status names, once), `NoFatal` (no removal from a queue fails), `GetsInBuffer`, `AddressSpaces`, `OnlySleepZeroIsForgotten` (a process blocked with nothing to wake it is one that called `sleep(0)`), `NoOvertaking` (round robin), `ImplementsLifecycle` |
| `KernelLive` | 1 or 2 processes, fairness | `ReadyRuns`, `BlockedResumes`; for a process that is alone, as `kernel_main` starts it, `DeliveredAlone` (the reader gets its characters) and `NotTornAlone` (no handler meets a list half changed) |
| `HeapSafety` | arena of 8 bytes, alignment 2, 3 free and 5 allocated entries, sizes 0, 1, 2, 3 and 31 of 32 | `TypeOK`, `NoOverlap`, `NoLeak`, `Aligned`, `ImplementsHeap`; all four fatals are reached |
| `ListQuiet` | 3 nodes, 2 values | `NothingStranded`, `TailIsLast`, `FatalMeansMissing`, `ImplementsQueue`, `OperationsEnd` |
| `KeyboardKeys` | all 125 keys alone, 13 of them in chords of up to 3, error bytes with few keys | `InStep`, `OnlyTwoCodesAreFatal`, `TableShowsHeld`, `TypedIsPressed`, `OverrunDeafens` (after FF no key ever counts) |
| `LoaderRuns` | 3 processes, 6 programs, 5 descriptors, region for less than 2 programs | `TypeOK` (with the limit of the GDT), `PagesHaveOneUse`, `LoadedExactly` (which segments load right), `Runnable`, `AllocatedMapped`, `LostOnlyBeyondRegion`, `OnlySharedTablesChange` |
| `FilesRead` | 9 volumes, 14 paths, 5 contents of the stack, 3 of the memory behind the path, at most 1 error | `FoundIfThere` (which names are found), `ReadExactly` (which files are read right), `FitsBuffer`, `ReadEnds` (what may keep a read from ending) |

Violated by the code (see `findings` in `PROJECT.json`):

| Run | Property | What happens |
|---|---|---|
| `KernelWindow` | `ContextsAreUser` | a tick between `Current_control_flow = Process_thread` and `iret` saves the scheduler's context as the process's |
| `KernelTwoSpaces` | `GetsDelivered` | a character typed while another process runs, or after it called printf, goes to that process's memory |
| `HeapRecycle` | `SlotsAreRecycled` | free never gives an entry of `Allocated_blocks` back |
| `ListInterrupted` | `NothingStranded` | a push during `pop_front` of the last element hangs on the removed node |
| `FilesErrors` | `SuccessMeansRead` | `fs_read` returns 0 after a disk error |

Other disagreements are stated by passing runs, as the exact extent of what the
code gets right: `OnlySleepZeroIsForgotten` (`sleep(0)` never ends),
`OnlyTwoCodesAreFatal` (releasing the keypad's enter, or media select, stops the
kernel), `LoadedExactly` (longer segments are loaded wrong), `FoundIfThere` (names
that fill their long name entries), `OnlySharedTablesChange` (a fault of one
process can replace a page of another).

Two inputs are left out of the passing runs of `Kernel` because the code does
not handle them: a second reader (the one request is overwritten, and the first
reader stays blocked, against `OnlySleepZeroIsForgotten`), and a gets of 0 bytes
(against `GetsInBuffer`). `KernelLive` leaves out `sleep(0)` too, which
`BlockedResumes` does not survive. Of the theorems, `NeverPastTheBuffer` assumes that
nobody asks for 0 characters, and `OnlySleepZero` this and one reader; the others
exclude none of these inputs.

Bounds. Three processes are the fewest for two to wait in the ready queue while
a third is being switched, which `NoOvertaking` and the order of wake-ups need;
arguments 1 and 2 make clocks expire at the same and at different ticks, and
requests end at the first and at a later character; one `usleep` tick is what
`usleep(1000)` is at 1000 ticks per second. `MAX_TYPED` (3) exceeds every
request. In the heap, 8 bytes at alignment 2 give up to four blocks, hence
splits, merges in both orders, fragmentation that fills a table of 3 and reuse;
31 is the size whose rounding wraps to 0. Three nodes give a first, a middle and
a last one to remove. Pages of 2 bytes let a segment begin in the middle of a
page and end at its end; three-page segments are the first that lose a page. The
region of 13 pages ends one page into a table of 16, while the second program is
loaded; its directory may already lie past the region. The rest of that table
holds what small programs need, and not what large ones do, so that a third execv
ends for want of pages or for want of a descriptor (`GDT_SIZE` 9). Two pages
to fault on, one in a program's table and one in the
stack's, are enough for a fault at a page that another process has mapped. The
volumes have names that fill their long name entries and names that do not, a
file past the first directory sector, one past `LBA_LOW` sectors, files that end
within and at the end of a sector, a FAT of three sectors, clusters of one and
two sectors, a name that another's tail completes to a third, a directory that holds a
file of its own name, (with clusters of four sectors) a directory behind the
low sectors, a root directory at cluster 6, an empty one, and a name of so many
parts that the order of one is cut to 0 (`ORDERS` is 8, the code's 16, as
`DIR_SLOTS` is 8). The name buffer holds zeros, bytes of no name, one of two names
(one of them a file's), or the rest that completes a full name; behind the path
there is nothing, no name, or a file's. The geometries after a failed read have
each of their fields 0 in one case, and a sector size below, at and above the
real one. No symmetry is used: processes are numbered in some modules, and
the state spaces are small.

Fairness. `FairSpec`: the CPU executes the kernel's next instruction, and the
timer interrupt, which is periodic and never masked for long, keeps coming
(`WF` of each). `TypingSpec` adds a user who keeps typing characters, without
whom gets may wait for ever. Processes are under no obligation: a process that
computes for ever is preempted by the tick. In `LinkedList`, an operation that
was started goes on; nobody has to start one. In `FileSystem` the driver and its
caller go on: a drive in compatibility mode answers every command, with data or
with an error, and one that is not there is the `polling` state, which
`ReadEnds` excludes by the controller's mode.

## 4. Proofs

Assumptions are those on the constants (`KernelConstants`, `HeapConstants`,
`WordIsAligned`, `ListConstants`, `PagingConstants`, `LoaderConstants`,
`LoaderLayout`, `SegmentsApart`, `DiskConstants`, `FileSystemConstants`,
`StaleConstants`, `VolumesSound`, `ClustersAligned`, `ChainsSound`): any finite
non-empty set of processes, any subset of readers, any arguments of sleep and gets
(0 included), any table lengths and alignment, any finite set of nodes, all items,
filters and functions, any size of page tables, any layout of memory with programs
below the kernel (section 2), and any programs whose segments lie apart from each
other, the kernel and the stack; any volumes whose partition begins behind the
boot sector and below 2^24, and any paths of names that fit `DIR_entry::name` (the
limit of FAT32) and hold neither the end of a string nor `Junk`, which stands for
the bytes of no name. What the name buffer holds that nobody wrote, and what is
behind the path, are any characters, `Junk` and, in the buffer, ends of strings.
In a directory of a volume no name occurs twice, and its directories have a
cluster (the `..` of a directory in the root, which FAT32 writes as cluster 0,
stands for cluster 2). The sectors of a cluster are a power of two, as FAT32 has
it, of which only that it divides `LBA_LOW` (2^24) is used; a file has clusters
for all its bytes, and each has one entry in the FAT. A theorem that needs more
says so in its statement.

`KernelProofs`: `KernelInvariant` is `Spec => []KernelInv`. `QueuesMatchStatus`
alone is not inductive. One has to know who is on the CPU: `CpuInv` ties
the scheduler's local `p`, `CURRENT_PROCESS`, the Running status and
`Current_control_flow` to `pc`, so that a tick in a process moves the process
that is in the running queue. `ClockInv` says that clocks belong to distinct
blocked processes, so that the tick's removals all succeed and no process is
queued twice; `GetsInv` says the same of the request, and that its process has
no clock, so that tick and keyboard cannot both wake it. `MemoryInv` relates
`cr3` and the saved directory. The proof has one lemma per group of actions. From
it follow `TypeCorrect`, `NobodyLost` (`QueuesMatchStatus`), `NeverFatal`
(`NoFatal`), `OwnAddressSpace` (`AddressSpaces`) and `RefinesLifecycle`
(`ImplementsLifecycle`), for any number of processes. `AloneNeverTorn` shows
`NotTornAlone`: while one process was started (and a started one stays so, lemma
`StartedStays`), nobody is blocked when the scheduler holds it, so no handler has
anything to move.

`GetsProofs` goes on from `KernelInv`. `NeverPastTheBuffer` (`GetsInBuffer`) needs
that no program asks for 0 characters: with 0 the first character is stored
outside, and the handler, which compares counts with `==`, never stops.
`DeliveredToTheOnly` (`DeliveredAlone`) rests on `RequestInv`: while one process
was started, the table that a request put into the kernel's directory and the
directory in use are that process's. `RoundRobin` (`NoOvertaking`) holds without
any hypothesis. `OnlySleepZero` (`OnlySleepZeroIsForgotten`) needs at most one
reader, because a second request replaces the first and its process is
forgotten too, and again no gets of 0 characters.

`MemoryManagementProofs`: `HeapInvariant` is `Spec => []HeapInv`. `NoOverlap`
and `NoLeak` are inductive together with well-formed blocks (`start + size =
end`, inside the arena) and invalid entries past the counts; without the latter
a new entry could overwrite one in use. `GiveBack` is the lemma on the bytes
that free moves from one table to the other, `MergedBlock` the one on merging.
From it follow `TypeCorrect`, `NeverOverlaps`, `NeverLeaks` and `RefinesHeap`.
`AlwaysAligned` (`Aligned`) needs `BoundaryInv`, that the free blocks begin and
end on boundaries too, and `WordIsAligned`, that sizes wrap around at a multiple
of ALIGN, as 2^32 does.

`KeyboardProofs`, for the 125 keys and all tables of the driver. `KeyboardInv`
says that SCAN_CODE holds the first bytes of the code being sent and the wire
the others (`Arrived`), or that everything has arrived and table and character
are right (`Idle`), or that the driver has stopped, or is deaf (`Deaf`). The core
is a set of lemmas about the operators: no proper prefix of a code is complete
(`PrefixIncomplete`), and the code of every press and release, but for two, is
looked up in the hand-written tables as the event of that key (`PressMeans`,
`ReleaseMeans`). From them follow `BytesStayTogether` (`InStep`),
`AllOtherCodesHaveEvents` (`OnlyTwoCodesAreFatal`), `TableIsTrue`
(`TableShowsHeld`), `CharactersAreRight` (`TypedIsPressed`) and `DeafForEver`
(`OverrunDeafens`).

`LinkedListProofs`, for the list with interrupts off (`INTERRUPTS = FALSE`; with
interrupts on the properties are false, run `ListInterrupted`). `ListInv`: there
are a length and a chain of that many distinct nodes from head to null; tail is
its last node, except between two steps of pop_front; the allocated nodes are
those of the chain and the one pop_front holds; and a walk stands at some node
of the chain and has not met what it looks for. `UnlinkChain` and `LinkChain`
are what the changes to pointers do to a chain. That the recursive function of
the properties walks this chain (`NthIsChain`) is an induction over the length,
as an argument on the least place where they differ (`LeastNat`). It follows that
no node is lost, leaked or used after its free (`NoNodeIsLost`), that push_back
appends (`PushBackAppends`), and that fatal means what it says
(`GivesUpRightly`).

`PagingProofs` says what the operations of `Paging` do, `LoaderProofs` that
`LoaderInv` is inductive. alloc_page does not check that there is a frame left, so
the theorems are about runs in which the frames do not run out
(`[](free_memory_page \in Pages)`, which holds throughout `LoaderRuns`). The
heart of the invariant is `Sound`: a page table is an allocated frame, at one
place of one directory, or at the same place of a process's and the kernel's.
Without it, setting an entry of one table could change another directory's
translations. `NotShared` says that there is no sharing until processes run, which
keeps what execv has built for one process while it loads the next. `MapsKernel`,
for the kernel's directory and that of every ready process, is what ends page
faults within page faults: the directory in use maps every frame of the region,
so only a frame after it can be missing. `MapResult` is what one or more
calls of add_memory_mapping do together (nothing is unmapped, other directories
and private translations are kept, the pages asked for are mapped); it composes
(`MapMore`), and the induction over the kernel's pages (`KernelMapped`) is on
the least page at which it would fail. From `LoaderInv` follow `LoaderTypes`
(`TypeOK`), `ReadyIsRunnable` (`Runnable`), `FaultsEnd` (`LostOnlyBeyondRegion`)
and `ChangesAreShared` (`OnlySharedTablesChange`), whatever the pointers of system
calls are.

Three more of the loader's theorems need more than `LoaderInv`. `FramesAreReached`
(`AllocatedMapped`) and `OneUseEach` (`PagesHaveOneUse`) rest on `FramesInv` and
`UseInv`. From the first page of alloc_page's region on, the kernel's directory
maps pages to themselves only (`Own`), shares no page table with a process
(`Apart`), and processes map nothing behind the region (`Below`); therefore
neither a process's mapping nor one that a system call copied can replace the
address under which the kernel reaches a frame, and every frame handed out is
reached (`Reached`): either it was mapped from the start, or the fault of its
first use mapped it. `UsedOnce` counts what a frame is used for, under the same
conditions: a frame is a page of one process, or a table, or a directory. A page
fault maps a page to the frame of its own number in the kernel's directory: in a
table that a process shares this is a frame below alloc_page's region, and a frame
of the region goes into a table of the kernel's alone; this is where
`LoaderLayout` is needed. Without it the two properties are false: for a test page
behind the region, TLC finds a frame the kernel does not reach. Both theorems also
assume `CopiesApart`, and are false without it: a process that passes an address
in the region's page tables to a system call has the kernel replace its own table
by the process's, and TLC finds the frames it no longer reaches. The kernel does
nothing to prevent this. `SegmentsLoadedExactly` (`LoadedExactly`) rests on
`ContentInv`: of the process being loaded, and of those that are ready, the
segments that execv is done with are in memory up to their second page, byte for
byte (`SegmentIn`), and no page is mapped but those, the stack's and the kernel's.
`Span`, `Place` and `ByteAt` are the arithmetic of pages. That the equivalence
also holds from right to left, that is, that longer segments never come out right,
takes the byte that differs (two pages, `SecondByte`) or the page that is missing
(`ThirdPage`).

`FileSystemProofs` speaks of runs in which failed reads are counted (`MAX_ERRORS > 0`),
and of what happens before one fails. That the entries on disk are as FAT32 has them
(`DirectorySector`), and what the recursive functions yield, are inductions on a least
counterexample, for which `IterateExists` gives the function.

`FoundByItsPath` (`FoundIfThere`) has two halves. What is in the name buffer at an
item's own entry is known exactly: each long name entry writes its part (`PartWrites`),
so behind the characters of the item's name is its end, or, for a name that fills its
entries, what the items before it left there (`NamesOfItems`), or, if none of them was
long enough, what the stack held (`Untouched`). Hence the first match is an item of
the name looked for, unless one is `Misread` (`FoundNamed`), and a terminated name
within the sector is matched (`NameFound`). `Misread` has to speak of the stack: an
item with a short name only, with no long name before it, is compared with what the
buffer happened to hold, and a full name may be completed by it. What a path leads to
is the recursive function `ResolvedUpTo`; it has at most one item per name
(`ResolvedIs`, `OneDirectory`). `WalkInv` puts the two together: while a lookup goes
on, it is at the n-th name of the path in the directory that the names before it lead
to (`OnPath`), and these are no files; or the path has led to a directory, and then
the lookup is about names the property does not speak of. `WalkFinds` shows that the
walk to a file that can be found does not stop early, `WalkStays` that on a `Plain`
volume the walk along a path that leads nowhere never comes to a file.

`NeverBehindBuffer` (`FitsBuffer`): `stat` and `fs_read` look the file up independently,
each with a name buffer of unknown content, so the point is that both find the same
entry. They do when each of them finds the file the path leads to (`WalkInv` again),
which takes `Unmistaken`: with a name in the buffer that passes for the path's, one
lookup can find another entry, and the sizes differ. `SizeInv` carries stat's size to
the loop, and `FitsInv` has the account of bytes copied and to copy there (`LoopInv`);
`PutAtEnd` is what one turn of the loop adds to the buffer.

`FilesReadExactly` (`ReadExactly`) is an equivalence, and each direction has its
invariant. A lookup that `WalkInv` keeps on the path, and that ends well, ends at the
file the path leads to, as long as no name is mistaken (`Unmistaken`): `AtFile`, the size and
the first cluster that fat32_read starts from. `Unmistaken` includes that the root
directory is at cluster 2, as the code takes for granted, and that nothing the stack
can hold passes for a name of the path. `LoadInv`, for a file that is
`Readable`: fat32_read is at the file's k-th sector, with the cluster that holds it
(`AtSector`), and the buffer holds the file's first k sectors (`Written`).
`CopiesSector` is what one turn of read_cluster does to the buffer, `FatHolds` and
`NextOf` that next_cluster reads the sector of the FAT with the right entry, and what
is in it; a cluster below `LBA_LOW` has its entry below `LBA_LOW`, as the FAT comes
before all clusters (`NextFound`). `SpoilInv`, for any other file: the buffer has a
byte that is not the file's (`Spoilt`) and keeps it, or the reading has not come to
the first sector that goes wrong, and then the file is not over (`MoreToRead`). A
sector at or above `LBA_LOW` is replaced by a low one at once. With several sectors per
cluster, the file's second sector is the one after the head of its first cluster
(`SecondSector`), and fat32_read copies the head of some cluster instead, possibly of
one whose number is the end of the chain (`Astray`); `NeverBeside` shows that no
such head is the right sector, whatever that number is, because clusters
begin at a multiple of their size from one another, modulo `LBA_LOW` too.

Only model-checked: liveness (`ReadyRuns`, `BlockedResumes`, `OperationsEnd`,
`ReadEnds`), which needs fairness; and `ImplementsQueue`, whose abstract steps are
recursive operators on sequences. Every safety property that a passing run checks is
otherwise a theorem.

## 5. Not modelled

Not modelled: PIC setup (constants written to ports once), the generated trap
stubs, the boot code (a straight line of BIOS calls and copies; it reads the
kernel's file as `FileSystem` says), the console, and the C library's stubs. Of
the disk driver: transfers of more than 256 sectors and `detect_ide_disk`, which
nothing calls. Of the file system: the characters of the mount point, which is
always `/`. Of paging: `disable_kernel_paging`, which nothing calls, and the map
of the first 4 MB. A mapping that `copy_process_mapping` does not copy, because
the range crosses a page table's end, would matter for a gets buffer that does;
`Kernel`'s buffers lie in one table. What the heap looks like after a handler
interrupted malloc stays with `torn`.
