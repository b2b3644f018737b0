------------------------------- MODULE Kernel -------------------------------
(***************************************************************************)
(* The kernel's control core: the scheduler loop (schedular.cpp), the      *)
(* switch to and from a process (process.cpp), the timer and keyboard      *)
(* interrupts (interrupt.cpp, ps2_keyboard.cpp) and the system calls       *)
(* (system_entry.cpp).                                                     *)
(*                                                                         *)
(* Interrupt gates clear IF (interrupt.cpp:221), so a handler is one       *)
(* atomic step.  The scheduler itself runs with IF set: an interrupt may   *)
(* come between any two of its steps, and between any two instructions of  *)
(* a process.  The scheduler's own list operations are one step each, but  *)
(* not atomic: a handler that changes a list, or calls malloc or free,     *)
(* while the scheduler is inside one may do no harm, or leave lists and    *)
(* heap torn (LinkedList.tla shows what that looks like).                  *)
(*                                                                         *)
(* A process is its saved context; its instructions are the system calls   *)
(* it makes.  Of a context the model keeps the privilege level it resumes  *)
(* at, of an address space its owner, of a gets buffer how many characters *)
(* arrived in whose memory.                                                *)
(***************************************************************************)
EXTENDS Integers, Sequences, FiniteSets

CONSTANTS
    Procs,             \* the programs kernel_main may start with execv
    Readers,           \* the ones among them that call gets
    SleepArgs,         \* arguments (seconds) processes give to sleep
    GetsArgs,          \* buffer sizes processes give to gets
    CopyArgs,          \* sizes processes give to struct and printf
    COPY_LIMIT,        \* the largest size copy_process_mapping takes, 4 MB
    TICKS_PER_SECOND,  \* timer interrupts per second
    USLEEP_TICKS,      \* ticks of the scheduler's usleep(1000)
    MAX_TYPED,         \* bound: characters accepted by one gets request
    nullptr,           \* the null pointer
    kernel_dir         \* kernel_paging_directory

ASSUME KernelConstants ==
    /\ IsFiniteSet(Procs) /\ Procs # {}
    /\ Readers \subseteq Procs
    /\ SleepArgs \subseteq Nat /\ GetsArgs \subseteq Nat
    /\ CopyArgs \subseteq Nat /\ COPY_LIMIT \in Nat
    /\ TICKS_PER_SECOND \in Nat \ {0} /\ USLEEP_TICKS \in Nat /\ MAX_TYPED \in Nat
    /\ nullptr \notin Procs /\ kernel_dir \notin Procs

VARIABLES
    pc,                    \* where the CPU is (see Locations)
    next,                  \* schedular's local p
    ready_queue,           \* sequence of processes
    running_queue,         \* occurrences of each process in the list;
    blocking_queue,        \*   the order of these two is never observed
    waiting_sleep_queue,   \* sequence of [count_down, process]
    status,                \* Process::status, "Unborn" before execv
    context,               \* privilege level of each saved context
    CURRENT_PROCESS,
    Current_control_flow,
    Kernel_proc,           \* page directory in Kernel_proc.context
    cr3,                   \* the page directory in use
    user_entry,            \* whose page table the kernel directory's entry
                           \*   for the user stack points to
    Count_down,            \* kept at 0 once there: only > 0 is tested
    gets_enabled, gets_count, gets_already_count, process_waiting_gets,
    stored,                \* characters of this request in each memory
    fatal,                 \* fatal() was called on the kernel's own account
    torn                   \* a handler found a list half changed

scheduler == <<pc, next>>
queues == <<ready_queue, running_queue, blocking_queue, waiting_sleep_queue>>
processes == <<status, context>>
flow == <<CURRENT_PROCESS, Current_control_flow>>
memory == <<Kernel_proc, cr3, user_entry>>
gets == <<gets_enabled, gets_count, gets_already_count, process_waiting_gets,
          stored>>
vars == <<scheduler, queues, processes, flow, memory, Count_down, gets, fatal,
          torn>>

-----------------------------------------------------------------------------
(* LinkedList<T>: push_back and remove of the two lists kept as counts.    *)

push_back(list, p) == [list EXCEPT ![p] = @ + 1]

(* remove takes one occurrence out; it is fatal when there is none. *)
remove(list, p) == [list EXCEPT ![p] = IF @ = 0 THEN 0 ELSE @ - 1]

contains(list, p) == list[p] > 0

EnqueueAtHead(list, new) == new \o list   \* fault: pushed at the wrong end

(* push_back on the ready queue, of one process or of several in turn. *)
Enqueue(list, new) == list \o new

(* The increasing enumeration of a finite set of positions, for the lists  *)
(* that for_each and filter walk from head to tail.                        *)
InOrder(S) == { f \in [1..Cardinality(S) -> S] :
                  /\ \A i, j \in 1..Cardinality(S) : i < j => f[i] < f[j]
                  /\ \A k \in S : \E i \in 1..Cardinality(S) : f[i] = k }

-----------------------------------------------------------------------------
Locations == { "boot",      \* kernel_main, before schedular
               "loop",      \* schedular: test of the ready queue
               "pop",       \* schedular: ready_queue.pop_front
               "admit",     \* schedular: make the process the running one
               "switch",    \* switch_to_process, up to the load of cr3
               "flow",      \* switch_to_process: set Current_control_flow
               "window",    \* from there to the iret, still in ring 0
               "user",      \* a process runs in ring 3
               "restored",  \* scheduler_restore_here
               "usleep",    \* usleep: set Count_down
               "test",      \* usleep: while (Count_down > 0)
               "hlt",       \* usleep: halted until an interrupt
               "refused",   \* fatal: what a process asked for is refused
               "wild" }     \* an iret took a ring 0 context for ring 3

Init ==
    /\ pc = "boot" /\ next = nullptr
    /\ ready_queue = <<>>
    /\ running_queue = [p \in Procs |-> 0]
    /\ blocking_queue = [p \in Procs |-> 0]
    /\ waiting_sleep_queue = <<>>
    /\ status = [p \in Procs |-> "Unborn"]
    /\ context = [p \in Procs |-> "user"]
    /\ CURRENT_PROCESS = nullptr
    /\ Current_control_flow = "Kernel_thread"
    /\ Kernel_proc = nullptr /\ cr3 = kernel_dir /\ user_entry = nullptr
    /\ Count_down = 0
    /\ gets_enabled = FALSE /\ gets_count = 0 /\ gets_already_count = 0
    /\ process_waiting_gets = nullptr
    /\ stored = [p \in Procs |-> 0]
    /\ fatal = FALSE /\ torn = FALSE

At(location) == pc = location /\ ~fatal /\ ~torn

-----------------------------------------------------------------------------
(* kernel_main and execv.                                                  *)

(* execv: build a process in user mode and queue it. *)
Execv(p) ==
    /\ At("boot") /\ status[p] = "Unborn"
    /\ status' = [status EXCEPT ![p] = "Ready"]
    /\ ready_queue' = Enqueue(ready_queue, <<p>>)
    /\ UNCHANGED <<scheduler, running_queue, blocking_queue,
                   waiting_sleep_queue, context, flow, memory, Count_down,
                   gets, fatal, torn>>

(* Which programs kernel_main starts is a matter of which of its calls are *)
(* commented out; one at least is not.                                     *)
EnterSchedular ==
    /\ At("boot") /\ \E p \in Procs : status[p] # "Unborn"
    /\ pc' = "loop"
    /\ UNCHANGED <<next, queues, processes, flow, memory, Count_down, gets,
                   fatal, torn>>

-----------------------------------------------------------------------------
(* schedular and switch_to_process.                                        *)

(* if (!ready_queue.is_empty()) *)
TestReady ==
    /\ At("loop")
    /\ pc' = IF ready_queue # <<>> THEN "pop" ELSE "usleep"
    /\ UNCHANGED <<next, queues, processes, flow, memory, Count_down, gets,
                   fatal, torn>>

PopFront ==
    /\ At("pop")
    /\ next' = Head(ready_queue)
    /\ ready_queue' = Tail(ready_queue)
    /\ pc' = "admit"
    /\ UNCHANGED <<running_queue, blocking_queue, waiting_sleep_queue,
                   processes, flow, memory, Count_down, gets, fatal, torn>>

Admit ==
    /\ At("admit")
    /\ status' = [status EXCEPT ![next] = "Running"]
    /\ running_queue' = push_back(running_queue, next)
    /\ CURRENT_PROCESS' = next
    /\ pc' = "switch"
    /\ UNCHANGED <<next, ready_queue, blocking_queue, waiting_sleep_queue,
                   context, Current_control_flow, memory, Count_down, gets,
                   fatal, torn>>

(* save_context, the iret frame, and the process's page directory. *)
SwitchToProcess ==
    /\ At("switch")
    /\ Kernel_proc' = cr3
    /\ cr3' = next
    /\ pc' = "flow"
    /\ UNCHANGED <<next, queues, processes, flow, user_entry, Count_down,
                   gets, fatal, torn>>

SetProcessFlow ==
    /\ At("flow")
    /\ Current_control_flow' = "Process_thread"
    /\ pc' = "window"
    /\ UNCHANGED <<next, queues, processes, CURRENT_PROCESS, memory,
                   Count_down, gets, fatal, torn>>

(* The iret resumes the saved context.  One saved in ring 0 has no stack   *)
(* pointer of its own (TrapFrame, kernel.h:289-291): what runs is garbage. *)
Iret ==
    /\ At("window")
    /\ pc' = IF context[next] = "user" THEN "user" ELSE "wild"
    /\ UNCHANGED <<next, queues, processes, flow, memory, Count_down, gets,
                   fatal, torn>>

SchedulerRestoreHere ==
    /\ At("restored")
    /\ Current_control_flow' = "Kernel_thread"
    /\ pc' = "usleep"
    /\ UNCHANGED <<next, queues, processes, CURRENT_PROCESS, memory,
                   Count_down, gets, fatal, torn>>

(* usleep(1000) *)
Usleep ==
    /\ At("usleep")
    /\ Count_down' = USLEEP_TICKS
    /\ pc' = "test"
    /\ UNCHANGED <<next, queues, processes, flow, memory, gets, fatal, torn>>

TestCountDown ==
    /\ At("test")
    /\ pc' = IF Count_down > 0 THEN "hlt" ELSE "loop"
    /\ UNCHANGED <<next, queues, processes, flow, memory, Count_down, gets,
                   fatal, torn>>

-----------------------------------------------------------------------------
(* Leaving a process for the scheduler, from an interrupt or a system call. *)

(* save_context_from_trapframe(CURRENT_PROCESS->context, tf): the frame    *)
(* holds whatever was interrupted.                                         *)
SaveContext ==
    context' = [context EXCEPT
                  ![CURRENT_PROCESS] = IF pc = "user" THEN "user" ELSE "kernel"]

(* Fault: the load of cr3 (process.cpp:272-273) is missing. *)
RestoreWithoutCr3 ==
    /\ pc' = "restored"
    /\ Current_control_flow' = "Kernel_thread"
    /\ UNCHANGED <<next, Kernel_proc, cr3>>

(* restore_context_to_trapframe(Kernel_proc.context, tf) *)
RestoreKernel ==
    /\ cr3' = Kernel_proc
    /\ pc' = "restored"
    /\ Current_control_flow' = "Kernel_thread"
    /\ UNCHANGED <<next, Kernel_proc>>

(* What gets and sleep share: the caller moves from running to blocking.   *)
BlockCurrent ==
    /\ At("user")
    /\ SaveContext
    /\ running_queue' = remove(running_queue, CURRENT_PROCESS)
    /\ blocking_queue' = push_back(blocking_queue, CURRENT_PROCESS)
    /\ status' = [status EXCEPT ![CURRENT_PROCESS] = "Blocking"]
    /\ fatal' = (\/ Current_control_flow # "Process_thread"
                 \/ ~contains(running_queue, CURRENT_PROCESS))
    /\ RestoreKernel
    /\ CURRENT_PROCESS' = nullptr
    /\ UNCHANGED <<ready_queue, Count_down, torn>>

-----------------------------------------------------------------------------
(* system_entry.  HELLOWORLD and ADD change nothing that is modelled.      *)

CopyNothing == UNCHANGED user_entry   \* fault: the buffer is not mapped

(* The kernel directory's entry for the user stack becomes the caller's,   *)
(* whatever the size: that is looked at afterwards.                        *)
copy_process_mapping == user_entry' = CURRENT_PROCESS

(* fatal in a system call: the kernel spins with interrupts off, and the   *)
(* caller has the CPU for good.                                            *)
Refuse ==
    /\ At("user")
    /\ pc' = "refused"
    /\ UNCHANGED <<next, queues, processes, flow, Kernel_proc, cr3, Count_down,
                   gets, fatal, torn>>

(* copy_process_mapping on behalf of struct, printf or gets, none of which *)
(* has done anything before it.                                            *)
SysTooLarge(size) == size > COPY_LIMIT /\ Refuse /\ copy_process_mapping

(* default: "syscall id not supported" *)
SysUnknown == Refuse /\ UNCHANGED user_entry

SysStructOrPrintf(size) ==
    /\ At("user") /\ size <= COPY_LIMIT
    /\ copy_process_mapping
    /\ UNCHANGED <<scheduler, queues, processes, flow, Kernel_proc, cr3,
                   Count_down, gets, fatal, torn>>

SysGets(size) ==
    /\ CURRENT_PROCESS \in Readers /\ size <= COPY_LIMIT
    /\ BlockCurrent
    /\ copy_process_mapping
    /\ gets_enabled' = TRUE
    /\ gets_count' = size
    /\ gets_already_count' = 0
    /\ process_waiting_gets' = CURRENT_PROCESS
    /\ stored' = [p \in Procs |-> 0]
    /\ UNCHANGED waiting_sleep_queue

(* The product is 64 bits wide, as TICKS_PER_SECOND is: it cannot wrap. *)
SysSleep(seconds) ==
    /\ BlockCurrent
    /\ waiting_sleep_queue' =
         Append(waiting_sleep_queue,
                [count_down |-> TICKS_PER_SECOND * seconds,
                 process |-> CURRENT_PROCESS])
    /\ UNCHANGED <<user_entry, gets>>

-----------------------------------------------------------------------------
(* hardware_interrupt_handler.                                             *)

(* The CPU takes interrupts everywhere but in a handler; hlt ends with one. *)
Interruptible == pc \notin {"refused", "wild"} /\ ~fatal /\ ~torn

(* The scheduler is inside pop_front or push_back, or their free and       *)
(* malloc, for some part of these two locations.                           *)
InsideList == pc \in {"pop", "admit"}

(* What a handler that changes lists may find, and spoil. *)
Tears(changes_lists) == torn' \in IF changes_lists /\ InsideList THEN BOOLEAN
                                                                 ELSE {torn}

Resume == IF pc = "hlt" THEN "test" ELSE pc

Clocks == DOMAIN waiting_sleep_queue

(* Faults: a test of the clocks that is off by one, a filter left out or   *)
(* off by one, a status left as it was.                                    *)
ExpiringEarly == { i \in Clocks : waiting_sleep_queue[i].count_down <= 2 }
KeptAll == Clocks
KeptTooFew == { i \in Clocks : waiting_sleep_queue[i].count_down > 2 }
StatusKept == status

(* Clocks that reach 0 at this tick, and clocks that filter keeps. *)
Expiring == { i \in Clocks : waiting_sleep_queue[i].count_down = 1 }
Kept == { i \in Clocks : waiting_sleep_queue[i].count_down > 1 }

ClocksOf(S, p) == { i \in S : waiting_sleep_queue[i].process = p }

(* How often this tick removes p from the blocking queue. *)
Wakes(p) == Cardinality(ClocksOf(Expiring, p))

StatusAfterTick == [p \in Procs |-> IF Wakes(p) > 0 THEN "Ready" ELSE status[p]]

(* for_each: the processes woken, in the order of the queue. *)
Woken(f) == [i \in DOMAIN f |-> waiting_sleep_queue[f[i]].process]

(* filter keeps the clocks that still run. *)
Ticked(g) == [i \in DOMAIN g |->
                [waiting_sleep_queue[g[i]] EXCEPT !.count_down = @ - 1]]

WakeFails == \E p \in Procs : Wakes(p) > blocking_queue[p]

(* What a tick does before it looks at who was interrupted.  A clock that  *)
(* stands at 0 goes to -1: it wakes nobody and filter drops it.            *)
Tick(g) ==
    /\ Interruptible
    /\ Count_down' = IF Count_down > 0 THEN Count_down - 1 ELSE 0
    /\ waiting_sleep_queue' = Ticked(g)
    /\ blocking_queue' =
         [p \in Procs |-> IF Wakes(p) <= blocking_queue[p]
                            THEN blocking_queue[p] - Wakes(p) ELSE 0]
    /\ UNCHANGED <<user_entry, gets>>

(* The tick interrupts the kernel thread, which goes on where it was. *)
TimerInKernel(f, g) ==
    /\ Tick(g) /\ Current_control_flow # "Process_thread"
    /\ ready_queue' = Enqueue(ready_queue, Woken(f))
    /\ status' = StatusAfterTick
    /\ fatal' = WakeFails
    /\ pc' = Resume
    /\ Tears(Kept # Clocks)
    /\ UNCHANGED <<next, running_queue, context, flow, Kernel_proc, cr3>>

(* The tick takes the CPU from CURRENT_PROCESS and gives it back to the    *)
(* scheduler.  CURRENT_PROCESS itself is left as it is.                    *)
TimerInProcess(f, g) ==
    /\ Tick(g) /\ Current_control_flow = "Process_thread"
    /\ SaveContext
    /\ running_queue' = remove(running_queue, CURRENT_PROCESS)
    /\ ready_queue' = Enqueue(Enqueue(ready_queue, Woken(f)), <<CURRENT_PROCESS>>)
    /\ status' = [StatusAfterTick EXCEPT ![CURRENT_PROCESS] = "Ready"]
    /\ fatal' = (WakeFails \/ ~contains(running_queue, CURRENT_PROCESS))
    /\ RestoreKernel
    /\ UNCHANGED <<CURRENT_PROCESS, torn>>

TimerInterrupt ==
    \E f \in InOrder(Expiring), g \in InOrder(Kept) :
        TimerInKernel(f, g) \/ TimerInProcess(f, g)

(* Whose memory the kernel's write through gets_buffer changes. *)
WriteGoesTo == IF cr3 = kernel_dir THEN user_entry ELSE cr3

LastCharLate == gets_already_count = gets_count   \* fault: tested too early

(* gets_already_count, once incremented, equals gets_count. *)
LastChar == gets_already_count + 1 = gets_count

(* response_scancode, for a key event that is a printable character's      *)
(* press or not, then the resumption of the reader when the buffer is full.*)
KeyboardInterrupt(is_char) ==
    LET accepted == gets_enabled /\ is_char
        full == accepted /\ LastChar
        resumed == ~(gets_enabled /\ ~full) /\ gets_count # 0
        p == process_waiting_gets
    IN  /\ Interruptible
        /\ accepted => gets_already_count < MAX_TYPED
        /\ stored' = IF accepted
                       THEN [stored EXCEPT ![WriteGoesTo] = @ + 1]
                       ELSE stored
        /\ gets_enabled' = (gets_enabled /\ ~full)
        /\ gets_count' = IF resumed THEN 0 ELSE gets_count
        /\ gets_already_count' = IF resumed THEN 0
                                 ELSE IF accepted THEN gets_already_count + 1
                                 ELSE gets_already_count
        /\ process_waiting_gets' = IF resumed THEN nullptr ELSE p
        /\ blocking_queue' = IF resumed THEN remove(blocking_queue, p)
                                        ELSE blocking_queue
        /\ ready_queue' = IF resumed THEN Enqueue(ready_queue, <<p>>)
                                     ELSE ready_queue
        /\ status' = IF resumed THEN [status EXCEPT ![p] = "Ready"] ELSE status
        /\ fatal' = (resumed /\ ~contains(blocking_queue, p))
        /\ pc' = Resume
        /\ Tears(resumed)
        /\ UNCHANGED <<next, running_queue, waiting_sleep_queue, context,
                       flow, memory, Count_down>>

-----------------------------------------------------------------------------
KernelStep ==
    \/ \E p \in Procs : Execv(p)
    \/ EnterSchedular
    \/ TestReady \/ PopFront \/ Admit
    \/ SwitchToProcess \/ SetProcessFlow \/ Iret \/ SchedulerRestoreHere
    \/ Usleep \/ TestCountDown

SystemCall ==
    \/ \E size \in CopyArgs : SysStructOrPrintf(size)
    \/ \E size \in GetsArgs : SysGets(size)
    \/ \E seconds \in SleepArgs : SysSleep(seconds)
    \/ \E size \in CopyArgs \cup GetsArgs : SysTooLarge(size)
    \/ SysUnknown

Keyboard == \E is_char \in BOOLEAN : KeyboardInterrupt(is_char)

Stopped == pc \in {"refused", "wild"} \/ fatal \/ torn

(* while (1) of fatal, code nobody wrote, or lists nobody built. *)
Spin == Stopped /\ UNCHANGED vars

Next == KernelStep \/ SystemCall \/ TimerInterrupt \/ Keyboard \/ Spin

Spec == Init /\ [][Next]_vars

(* The CPU executes the kernel's instructions and the timer keeps ticking. *)
FairSpec == Spec /\ WF_vars(KernelStep) /\ WF_vars(TimerInterrupt)

(* And somebody keeps typing characters. *)
TypingSpec == FairSpec /\ WF_vars(KeyboardInterrupt(TRUE))

-----------------------------------------------------------------------------
Clock == [count_down : Nat, process : Procs]

(* Every variable keeps to the values its C++ type and use allow. *)
TypeOK ==
    /\ pc \in Locations
    /\ next \in Procs \cup {nullptr}
    /\ ready_queue \in Seq(Procs)
    /\ running_queue \in [Procs -> Nat]
    /\ blocking_queue \in [Procs -> Nat]
    /\ waiting_sleep_queue \in Seq(Clock)
    /\ status \in [Procs -> {"Unborn", "Ready", "Running", "Blocking"}]
    /\ context \in [Procs -> {"user", "kernel"}]
    /\ CURRENT_PROCESS \in Procs \cup {nullptr}
    /\ Current_control_flow \in {"Kernel_thread", "Process_thread"}
    /\ Kernel_proc \in Procs \cup {nullptr, kernel_dir}
    /\ cr3 \in Procs \cup {nullptr, kernel_dir}
    /\ user_entry \in Procs \cup {nullptr}
    /\ Count_down \in Nat
    /\ gets_enabled \in BOOLEAN
    /\ gets_count \in Nat /\ gets_already_count \in Nat
    /\ process_waiting_gets \in Procs \cup {nullptr}
    /\ stored \in [Procs -> Nat]
    /\ fatal \in BOOLEAN /\ torn \in BOOLEAN

-----------------------------------------------------------------------------
(* schedular holds the process outside every queue between pop_front and   *)
(* running_queue.push_back.                                                *)
InHand(p) == pc = "admit" /\ next = p

Distinct(s) == \A i, j \in DOMAIN s : s[i] = s[j] => i = j
Member(p, s) == \E i \in DOMAIN s : s[i] = p

(* Each process is in the one queue its status names, exactly once, or in  *)
(* the scheduler's hands: whatever the interrupts between the steps of the *)
(* scheduler do, no process is queued twice and none is lost.              *)
QueuesMatchStatus ==
    /\ Distinct(ready_queue)
    /\ \A p \in Procs :
         /\ Member(p, ready_queue) \equiv (status[p] = "Ready" /\ ~InHand(p))
         /\ running_queue[p] = IF status[p] = "Running" THEN 1 ELSE 0
         /\ blocking_queue[p] = IF status[p] = "Blocking" THEN 1 ELSE 0

(* The kernel never stops over its own queues: LinkedList::remove always   *)
(* finds its element (linked_list.h:45), in the scheduler, a tick, a key   *)
(* and a system call, and gets and sleep always come from the process      *)
(* thread (system_entry.cpp:102, 128).  The two fatals left are those a    *)
(* process asks for, with a size above 4 MB or an id that does not exist.  *)
NoFatal == ~fatal

(* kernel_main started one program only. *)
Alone == \A p, q \in Procs : status[p] # "Unborn" /\ status[q] # "Unborn" => p = q

(* With one program, no handler changes a list while the scheduler is      *)
(* inside a list operation, which it does with interrupts on               *)
(* (schedular.cpp:10-12): it takes a second one for a tick or a key to     *)
(* wake somebody just then.                                                *)
NotTornAlone == Alone => ~torn

HasClock(p) == \E i \in DOMAIN waiting_sleep_queue :
                  waiting_sleep_queue[i].process = p

HasRequest(p) == /\ gets_enabled /\ process_waiting_gets = p
                 /\ gets_already_count < gets_count

(* Blocking, and nothing that still happens will end it. *)
Forgotten(p) == status[p] = "Blocking" /\ ~HasClock(p) /\ ~HasRequest(p)

(* A process in the blocking queue waits for a clock or for characters     *)
(* ("processes waiting for something, like sleep time, or keyboard input", *)
(* kernel.h:250), with one exception: the tick that finds a clock standing *)
(* at 0, the clock of sleep(0), drops it and wakes nobody (interrupt.cpp:  *)
(* 64-80), and that process is never made ready again.                     *)
OnlySleepZeroIsForgotten ==
    [][\A p \in Procs :
         /\ Forgotten(p)' => \/ Forgotten(p)
                             \/ \E i \in Clocks :
                                  waiting_sleep_queue[i] = [count_down |-> 0,
                                                            process |-> p]
         /\ Forgotten(p) => Forgotten(p)']_vars

(* The character the keyboard handler stores next falls inside the buffer  *)
(* the reader gave ("how many bytes to wait", system_entry.cpp:8).         *)
GetsInBuffer == gets_enabled => gets_already_count < gets_count

(* The characters counted so far are in the memory of the process that     *)
(* asked for them (gets: "read a string from STDIN", src_libc/libc.h:15).  *)
GetsDelivered == gets_enabled =>
                    stored[process_waiting_gets] = gets_already_count

(* They are when no other process loads its own page directory, or puts    *)
(* its own page table into the kernel's, between two characters.           *)
DeliveredAlone == Alone => GetsDelivered

(* A process runs in its own address space, and the scheduler, outside     *)
(* switch_to_process, in the kernel's: the handlers that leave a process   *)
(* put back the page directory that switch_to_process saved.               *)
AddressSpaces ==
    /\ pc = "user" => cr3 = CURRENT_PROCESS /\ status[cr3] = "Running"
    /\ pc \notin {"flow", "window", "user", "refused", "wild"} => cr3 = kernel_dir

Ahead(p, q) == \E i, j \in DOMAIN ready_queue :
                  ready_queue[i] = p /\ ready_queue[j] = q /\ i < j

(* Round robin: a process that waits in the ready queue leaves it only for *)
(* the scheduler, and until then nobody gets ahead of it, neither those    *)
(* behind it nor those that a tick, a key or the scheduler adds.           *)
NoOvertaking ==
    [][\A p \in Procs : Member(p, ready_queue) =>
         \/ pc = "pop" /\ next' = p
         \/ /\ Member(p, ready_queue)'
            /\ \A q \in Procs : Ahead(q, p)' => Ahead(q, p)]_vars

(* Every ready process gets the CPU, unless the kernel is lost first. *)
ReadyRuns == \A p \in Procs :
                status[p] = "Ready" ~> (status[p] = "Running" \/ Stopped)

(* Every blocked process is made ready again, unless the kernel is lost:   *)
(* sleepers by the timer, the reader by somebody who types.                *)
BlockedResumes == \A p \in Procs :
                     status[p] = "Blocking" ~> (status[p] = "Ready" \/ Stopped)

-----------------------------------------------------------------------------
(* The inductive invariant behind the safety properties.                   *)

(* The scheduler's local p is the process it works on, and the only one    *)
(* that is Running; Current_control_flow tells ring 3 and the window.      *)
OnCpu == {"switch", "flow", "window", "user", "refused", "wild"}
CpuInv ==
    /\ pc = "pop" => ready_queue # <<>>
    /\ pc = "admit" => next \in Procs /\ status[next] = "Ready"
    /\ pc \in OnCpu => /\ next \in Procs /\ CURRENT_PROCESS = next
                       /\ status[next] = "Running"
    /\ \A p \in Procs : status[p] = "Running" => pc \in OnCpu /\ next = p
    /\ Current_control_flow = IF pc \in {"window", "user", "refused", "wild"}
                                THEN "Process_thread" ELSE "Kernel_thread"

MemoryInv ==
    IF pc \in {"flow", "window", "user", "refused", "wild"}
      THEN cr3 = next /\ Kernel_proc = kernel_dir
      ELSE cr3 = kernel_dir

(* A clock belongs to a blocked process, which has no other. *)
ClockInv ==
    /\ \A i \in Clocks : status[waiting_sleep_queue[i].process] = "Blocking"
    /\ \A i, j \in Clocks :
         waiting_sleep_queue[i].process = waiting_sleep_queue[j].process => i = j

(* So does the gets request, and its process does not sleep. *)
GetsInv ==
    /\ gets_enabled => /\ process_waiting_gets \in Procs
                       /\ status[process_waiting_gets] = "Blocking"
                       /\ \A i \in Clocks : waiting_sleep_queue[i].process
                                               # process_waiting_gets
    /\ ~gets_enabled => gets_count = 0

KernelInv == /\ TypeOK /\ QueuesMatchStatus /\ NoFatal
             /\ CpuInv /\ MemoryInv /\ ClockInv /\ GetsInv
=============================================================================
