----------------------------- MODULE GetsProofs -----------------------------
(***************************************************************************)
(* Proofs about Kernel that build on KernelInv: the gets request, from the *)
(* system call that files it to the character that completes it, and the   *)
(* order of the ready queue.                                               *)
(***************************************************************************)
EXTENDS KernelProofs

(* struct and printf, whether the size they are given is refused or not. *)
Copies == \/ \E size \in CopyArgs : SysStructOrPrintf(size)
          \/ \E size \in CopyArgs \cup GetsArgs : SysTooLarge(size)

(* A refused gets is among them too: all they do is copy the mapping. *)
LEMMA CopiesOnly ==
    ASSUME Copies
    PROVE  /\ pc = "user" /\ UNCHANGED <<queues, processes, gets>>
           /\ user_entry' = CURRENT_PROCESS
  BY DEF Copies, SysStructOrPrintf, SysTooLarge, Refuse, At, copy_process_mapping

(* The steps that leave the request, its buffer and the kernel directory's *)
(* entry for the user stack alone.                                         *)
LEMMA GetsUntouched ==
    ASSUME [Next]_vars
    PROVE  \/ UNCHANGED <<gets, user_entry>>
           \/ Copies
           \/ \E size \in GetsArgs : SysGets(size)
           \/ Keyboard
<1>1. CASE KernelStep
  BY <1>1 DEF KernelStep, Execv, EnterSchedular, TestReady, PopFront, Admit,
     SwitchToProcess, SetProcessFlow, Iret, SchedulerRestoreHere, Usleep,
     TestCountDown, memory
<1>2. CASE SystemCall
  BY <1>2 DEF SystemCall, SysSleep, SysUnknown, Refuse, Copies
<1>3. CASE TimerInterrupt
  BY <1>3 DEF TimerInterrupt, TimerInKernel, TimerInProcess, Tick
<1>4. CASE Keyboard
  BY <1>4
<1>5. CASE UNCHANGED vars
  BY <1>5 DEF vars, memory
<1> QED
  BY <1>1, <1>2, <1>3, <1>4, <1>5 DEF Next, Spin

(* What the keyboard handler does to the request: it completes it and      *)
(* resumes the reader, or leaves it and counts at most one character.      *)
LEMMA KeyboardRequest ==
    ASSUME KernelInv, Keyboard
    PROVE  \/ /\ gets_enabled /\ LastChar /\ ~gets_enabled'
              /\ process_waiting_gets \in Procs
              /\ status[process_waiting_gets] = "Blocking"
              /\ status' = [status EXCEPT ![process_waiting_gets] = "Ready"]
           \/ /\ gets_enabled /\ gets_enabled' /\ ~LastChar
              /\ UNCHANGED <<gets_count, process_waiting_gets, status>>
              /\ gets_already_count' = gets_already_count + 1
              /\ stored' = [stored EXCEPT ![WriteGoesTo] = @ + 1]
           \/ /\ gets_enabled' = gets_enabled
              /\ UNCHANGED <<gets_count, process_waiting_gets, status, stored,
                             gets_already_count>>
<1> USE DEF KernelInv
<1>1. PICK is_char \in BOOLEAN : KeyboardInterrupt(is_char)
  BY DEF Keyboard
<1> DEFINE accepted == gets_enabled /\ is_char
           full == accepted /\ LastChar
           resumed == ~(gets_enabled /\ ~full) /\ gets_count # 0
<1>2. /\ stored' = IF accepted THEN [stored EXCEPT ![WriteGoesTo] = @ + 1]
                               ELSE stored
      /\ gets_enabled' = (gets_enabled /\ ~full)
      /\ gets_count' = IF resumed THEN 0 ELSE gets_count
      /\ gets_already_count' = IF resumed THEN 0
                               ELSE IF accepted THEN gets_already_count + 1
                               ELSE gets_already_count
      /\ process_waiting_gets' = IF resumed THEN nullptr ELSE process_waiting_gets
      /\ status' = IF resumed THEN [status EXCEPT ![process_waiting_gets] = "Ready"]
                              ELSE status
  BY <1>1 DEF KeyboardInterrupt
<1>3. gets_enabled \in BOOLEAN /\ gets_count \in Nat /\ gets_already_count \in Nat
  BY DEF TypeOK
<1>4. ~gets_enabled => gets_count = 0
  BY DEF GetsInv
<1>5. full => gets_count # 0
  BY <1>3 DEF LastChar
<1>6. CASE full
  BY <1>2, <1>3, <1>5, <1>6 DEF GetsInv
<1>7. CASE ~full
  <2>1. ~resumed
    BY <1>3, <1>4, <1>7
  <2>2. CASE accepted
    <3>1. ~LastChar
      BY <1>7, <2>2
    <3> HIDE DEF KernelInv
    <3> QED
      BY <1>2, <1>3, <1>7, <2>1, <2>2, <3>1
  <2>3. CASE ~accepted
    BY <1>2, <1>3, <1>7, <2>1, <2>3
  <2> QED
    BY <2>2, <2>3
<1> QED
  BY <1>6, <1>7

-----------------------------------------------------------------------------
(* A step keeps the next character inside the buffer. *)
LEMMA InBufferStep ==
    ASSUME KernelInv, GetsInBuffer, [Next]_vars, 0 \notin GetsArgs
    PROVE  GetsInBuffer'
<1> USE DEF GetsInBuffer
<1>0. gets_enabled \in BOOLEAN /\ gets_count \in Nat /\ gets_already_count \in Nat
  BY DEF KernelInv, TypeOK
<1>1. CASE UNCHANGED gets
  BY <1>1 DEF gets
<1>2. ASSUME NEW size \in GetsArgs, SysGets(size) PROVE GetsInBuffer'
  <2>1. size \in Nat /\ size # 0
    BY KernelConstants DEF KernelConstants
  <2> QED
    BY <1>2, <2>1 DEF SysGets
<1>3. CASE Keyboard
  <2>1. \/ ~gets_enabled'
        \/ /\ gets_enabled /\ ~LastChar /\ gets_count' = gets_count
           /\ gets_already_count' = gets_already_count + 1
        \/ /\ gets_enabled' = gets_enabled /\ gets_count' = gets_count
           /\ gets_already_count' = gets_already_count
    BY <1>3, KeyboardRequest, Zenon
  <2>2. CASE ~gets_enabled'
    BY <2>2
  <2>3. CASE /\ gets_enabled /\ ~LastChar /\ gets_count' = gets_count
             /\ gets_already_count' = gets_already_count + 1
    BY <1>0, <2>3 DEF LastChar
  <2>4. CASE /\ gets_enabled' = gets_enabled /\ gets_count' = gets_count
             /\ gets_already_count' = gets_already_count
    BY <2>4
  <2> QED
    BY <2>1, <2>2, <2>3, <2>4, Zenon
<1> QED
  BY <1>1, <1>2, <1>3, GetsUntouched, CopiesOnly

(* If no program asks for zero characters, the keyboard handler never      *)
(* stores one outside the buffer that gets was given, however many         *)
(* processes ask and in whatever order their requests, the ticks and the   *)
(* keys come (ps2_keyboard.cpp, interrupt.cpp, system_entry.cpp).          *)
THEOREM NeverPastTheBuffer == 0 \notin GetsArgs => (Spec => []GetsInBuffer)
<1> SUFFICES ASSUME 0 \notin GetsArgs PROVE Spec => []GetsInBuffer
  OBVIOUS
<1>1. Init => GetsInBuffer
  BY DEF Init, GetsInBuffer
<1>2. KernelInv /\ GetsInBuffer /\ [Next]_vars => GetsInBuffer'
  BY InBufferStep
<1> QED
  BY <1>1, <1>2, KernelInvariant, PTL DEF Spec

-----------------------------------------------------------------------------
(* While the only program waits for characters, the kernel's entry for the *)
(* user stack is its own, and every counted character is in its memory.    *)
RequestInv == Alone /\ gets_enabled =>
                 /\ user_entry = process_waiting_gets
                 /\ stored[process_waiting_gets] = gets_already_count

(* A program that is alone and blocked in gets leaves nobody to run. *)
LEMMA NobodyOnCpu ==
    ASSUME KernelInv, Alone, gets_enabled
    PROVE  pc \notin OnCpu /\ cr3 = kernel_dir
<1>1. /\ process_waiting_gets \in Procs
      /\ status[process_waiting_gets] = "Blocking"
  BY DEF KernelInv, GetsInv
<1>2. ASSUME pc \in OnCpu PROVE FALSE
  <2>1. next \in Procs /\ status[next] = "Running"
    BY <1>2 DEF KernelInv, CpuInv
  <2>2. next = process_waiting_gets
    BY <1>1, <2>1 DEF Alone
  <2> QED
    BY <1>1, <2>1, <2>2
<1> QED
  BY <1>2 DEF KernelInv, MemoryInv, OnCpu

(* Nobody but the reader itself changes what its request refers to. *)
LEMMA RequestStep ==
    ASSUME KernelInv, RequestInv, [Next]_vars
    PROVE  RequestInv'
<1> SUFFICES ASSUME Alone', gets_enabled'
             PROVE  /\ user_entry' = process_waiting_gets'
                    /\ stored'[process_waiting_gets'] = gets_already_count'
  BY DEF RequestInv
<1>0. Alone
  BY StartedStays
<1>1. CASE UNCHANGED <<gets, user_entry>>
  BY <1>0, <1>1 DEF gets, RequestInv
<1>2. CASE Copies
  <2>1. ~gets_enabled
    BY <1>0, <1>2, NobodyOnCpu, CopiesOnly DEF OnCpu
  <2> QED
    BY <1>2, <2>1, CopiesOnly DEF gets
<1>3. ASSUME NEW size \in GetsArgs, SysGets(size)
      PROVE  /\ user_entry' = process_waiting_gets'
             /\ stored'[process_waiting_gets'] = gets_already_count'
  <2>1. CURRENT_PROCESS \in Procs
    BY <1>3, KernelConstants DEF KernelConstants, SysGets
  <2> QED
    BY <1>3, <2>1 DEF SysGets, copy_process_mapping
<1>4. CASE Keyboard
  <2>1. user_entry' = user_entry /\ cr3' = cr3
    BY <1>4 DEF Keyboard, KeyboardInterrupt, memory
  <2>2. CASE /\ gets_enabled /\ process_waiting_gets' = process_waiting_gets
             /\ gets_already_count' = gets_already_count + 1
             /\ stored' = [stored EXCEPT ![WriteGoesTo] = @ + 1]
    <3>1. /\ user_entry = process_waiting_gets
          /\ stored[process_waiting_gets] = gets_already_count
      BY <1>0, <2>2 DEF RequestInv
    <3>2. WriteGoesTo = process_waiting_gets
      BY <1>0, <2>2, <3>1, NobodyOnCpu DEF WriteGoesTo
    <3>3. process_waiting_gets \in Procs /\ stored \in [Procs -> Nat]
      BY <2>2 DEF KernelInv, GetsInv, TypeOK
    <3> QED
      BY <2>1, <2>2, <3>1, <3>2, <3>3
  <2>3. CASE /\ gets_enabled' = gets_enabled
             /\ UNCHANGED <<process_waiting_gets, stored, gets_already_count>>
    BY <1>0, <2>1, <2>3 DEF RequestInv
  <2> QED
    BY <1>4, <2>2, <2>3, KeyboardRequest, Zenon
<1> QED
  BY <1>1, <1>2, <1>3, <1>4, GetsUntouched

(* With one program started, every character that the keyboard handler     *)
(* counted is in that program's buffer: between its gets and the last key  *)
(* nobody loads another page directory or replaces the kernel's entry for  *)
(* the user stack, the two ways a character goes elsewhere.                *)
THEOREM DeliveredToTheOnly == Spec => []DeliveredAlone
<1>1. Init => RequestInv
  BY DEF Init, RequestInv
<1>2. KernelInv /\ RequestInv /\ [Next]_vars => RequestInv'
  BY RequestStep
<1>3. RequestInv => DeliveredAlone
  BY DEF RequestInv, DeliveredAlone, GetsDelivered
<1> QED
  BY <1>1, <1>2, <1>3, KernelInvariant, PTL DEF Spec

-----------------------------------------------------------------------------
(* t is s, perhaps with more behind it. *)
Extends(s, t) == Len(s) <= Len(t) /\ \A i \in 1 .. Len(s) : t[i] = s[i]

Before(p, q, s) == \E i, j \in DOMAIN s : s[i] = p /\ s[j] = q /\ i < j

(* Extending a queue puts nobody ahead of those who wait in it. *)
LEMMA ExtendedOrder ==
    ASSUME NEW s \in Seq(Procs), NEW t \in Seq(Procs), Extends(s, t), Distinct(t),
           NEW p \in Procs, Member(p, s)
    PROVE  /\ Member(p, t)
           /\ \A q \in Procs : Before(q, p, t) => Before(q, p, s)
<1>1. /\ Len(s) \in Nat /\ DOMAIN s = 1 .. Len(s)
      /\ Len(t) \in Nat /\ DOMAIN t = 1 .. Len(t)
  BY LenProperties
<1>2. PICK k \in DOMAIN s : s[k] = p
  BY DEF Member
<1>3. k \in DOMAIN t /\ t[k] = p
  BY <1>1, <1>2 DEF Extends
<1>4. ASSUME NEW q \in Procs, Before(q, p, t) PROVE Before(q, p, s)
  <2>1. PICK i \in DOMAIN t, j \in DOMAIN t : t[i] = q /\ t[j] = p /\ i < j
    BY <1>4 DEF Before
  <2>2. j = k
    BY <1>3, <2>1 DEF Distinct
  <2>3. i \in DOMAIN s /\ s[i] = q
    BY <1>1, <1>2, <2>1, <2>2 DEF Extends
  <2> QED
    BY <1>2, <2>1, <2>2, <2>3 DEF Before
<1> QED
  BY <1>3, <1>4 DEF Member

(* pop_front keeps the order of those who stay. *)
LEMMA TailOrder ==
    ASSUME NEW s \in Seq(Procs), s # <<>>, NEW p \in Procs, NEW q \in Procs,
           Before(q, p, Tail(s))
    PROVE  Before(q, p, s)
<1>1. /\ Len(s) \in Nat /\ DOMAIN s = 1 .. Len(s)
      /\ Tail(s) \in Seq(Procs) /\ Len(Tail(s)) = Len(s) - 1
      /\ \A i \in 1 .. Len(Tail(s)) : Tail(s)[i] = s[i + 1]
  BY LenProperties, HeadTailProperties
<1>2. DOMAIN Tail(s) = 1 .. Len(s) - 1
  BY <1>1, LenProperties
<1> DEFINE t == Tail(s)
<1> HIDE DEF t
<1>3. PICK i \in DOMAIN t, j \in DOMAIN t : t[i] = q /\ t[j] = p /\ i < j
  BY DEF Before, t
<1>4. /\ i + 1 \in DOMAIN s /\ j + 1 \in DOMAIN s /\ i + 1 < j + 1
      /\ s[i + 1] = q /\ s[j + 1] = p
  BY <1>1, <1>2, <1>3 DEF t
<1> QED
  BY <1>4 DEF Before

(* push_back extends. *)
LEMMA EnqueueExtends ==
    ASSUME NEW s \in Seq(Procs), NEW t \in Seq(Procs)
    PROVE  Extends(s, Enqueue(s, t)) /\ Enqueue(s, t) \in Seq(Procs)
<1>1. /\ Len(s) \in Nat /\ Len(t) \in Nat
      /\ s \o t \in Seq(Procs) /\ Len(s \o t) = Len(s) + Len(t)
      /\ \A i \in 1 .. Len(s) + Len(t) :
            (s \o t)[i] = IF i <= Len(s) THEN s[i] ELSE t[i - Len(s)]
  BY LenProperties, ConcatProperties
<1> QED
  BY <1>1 DEF Extends, Enqueue

(* Whatever happens, the ready queue is popped by schedular or extended. *)
LEMMA ReadyQueueSteps ==
    ASSUME KernelInv, [Next]_vars
    PROVE  PopFront \/ Extends(ready_queue, ready_queue')
<1> DEFINE s == ready_queue
<1>0. s \in Seq(Procs)
  BY DEF KernelInv, TypeOK
<1>1. Extends(s, s) /\ Len(s) \in Nat
  BY <1>0, LenProperties DEF Extends
<1>2. CASE KernelStep
  <2>1. ASSUME NEW p \in Procs, Execv(p) PROVE Extends(s, s')
    <3>1. s' = Enqueue(s, <<p>>) /\ <<p>> \in Seq(Procs)
      BY <2>1 DEF Execv
    <3> QED
      BY <1>0, <3>1, EnqueueExtends
  <2>2. CASE UNCHANGED ready_queue
    BY <1>1, <2>2
  <2> QED
    BY <1>2, <2>1, <2>2 DEF KernelStep, EnterSchedular, TestReady, Admit,
       SwitchToProcess, SetProcessFlow, Iret, SchedulerRestoreHere, Usleep,
       TestCountDown, queues
<1>3. CASE SystemCall
  <2>1. UNCHANGED ready_queue
    BY <1>3, CopiesOnly DEF SystemCall, Copies, SysGets, SysSleep, SysUnknown,
       Refuse, BlockCurrent, queues
  <2> QED
    BY <1>1, <2>1
<1>4. CASE TimerInterrupt
  <2>1. PICK f \in InOrder(Expiring), g \in InOrder(Kept) :
           TimerInKernel(f, g) \/ TimerInProcess(f, g)
    BY <1>4 DEF TimerInterrupt
  <2> DEFINE u == Enqueue(s, Woken(f))
  <2>2. Woken(f) \in Seq(Procs)
    BY WokenFacts DEF KernelInv
  <2>3. Extends(s, u) /\ u \in Seq(Procs)
    BY <1>0, <2>2, EnqueueExtends
  <2>4. CASE TimerInKernel(f, g)
    BY <2>3, <2>4 DEF TimerInKernel
  <2>5. CASE TimerInProcess(f, g)
    <3>1. s' = Enqueue(u, <<CURRENT_PROCESS>>)
      BY <2>5 DEF TimerInProcess
    <3>2. CURRENT_PROCESS \in Procs
      BY <2>5 DEF TimerInProcess, KernelInv, CpuInv, OnCpu
    <3>3. <<CURRENT_PROCESS>> \in Seq(Procs)
      BY <3>2
    <3> HIDE DEF u
    <3>4. Extends(u, s') /\ s' \in Seq(Procs)
      BY <2>3, <3>1, <3>3, EnqueueExtends
    <3>5. Len(u) \in Nat /\ Len(s') \in Nat
      BY <2>3, <3>4, LenProperties
    <3> QED
      BY <1>1, <2>3, <3>4, <3>5 DEF Extends
  <2> QED
    BY <2>1, <2>4, <2>5
<1>5. CASE Keyboard
  <2>1. \/ s' = s
        \/ s' = Enqueue(s, <<process_waiting_gets>>) /\ gets_count # 0
    BY <1>5 DEF Keyboard, KeyboardInterrupt
  <2>2. CASE s' = Enqueue(s, <<process_waiting_gets>>) /\ gets_count # 0
    <3>1. process_waiting_gets \in Procs
      BY <2>2 DEF KernelInv, GetsInv
    <3>2. <<process_waiting_gets>> \in Seq(Procs)
      BY <3>1
    <3> QED
      BY <1>0, <2>2, <3>2, EnqueueExtends
  <2> QED
    BY <1>1, <2>1, <2>2
<1>6. CASE UNCHANGED vars
  BY <1>1, <1>6 DEF vars, queues
<1> QED
  BY <1>2, <1>3, <1>4, <1>5, <1>6 DEF Next, Spin

(* The ready queue is first in, first out under every interleaving of the  *)
(* scheduler with ticks, keys and system calls: a waiting process leaves   *)
(* it only for the scheduler, and nobody passes it (schedular.cpp:8-26,    *)
(* interrupt.cpp:61-101).                                                  *)
THEOREM RoundRobin == Spec => NoOvertaking
<1>1. ASSUME KernelInv, [Next]_vars, NEW p \in Procs, Member(p, ready_queue)
      PROVE  \/ pc = "pop" /\ next' = p
             \/ /\ Member(p, ready_queue)'
                /\ \A q \in Procs : Ahead(q, p)' => Ahead(q, p)
  <2> DEFINE s == ready_queue
  <2>1. /\ s \in Seq(Procs) /\ Distinct(s)
        /\ s' \in Seq(Procs) /\ Distinct(s')
    BY <1>1, NextInv DEF KernelInv, TypeOK, QueuesMatchStatus
  <2>2. \A q \in Procs : /\ Ahead(q, p) <=> Before(q, p, s)
                         /\ Ahead(q, p)' <=> Before(q, p, s')
    BY DEF Ahead, Before
  <2>3. CASE Extends(s, s')
    BY <1>1, <2>1, <2>2, <2>3, ExtendedOrder
  <2>4. CASE PopFront
    <3>1. pc = "pop" /\ s # <<>> /\ s' = Tail(s) /\ next' = Head(s)
      BY <1>1, <2>4 DEF PopFront, At, KernelInv, CpuInv
    <3>2. p # Head(s) => Member(p, s')
      BY <1>1, <2>1, <3>1, PopFacts
    <3>3. \A q \in Procs : Before(q, p, s') => Before(q, p, s)
      BY <2>1, <3>1, TailOrder
    <3> QED
      BY <2>2, <3>1, <3>2, <3>3
  <2> QED
    BY <1>1, <2>3, <2>4, ReadyQueueSteps
<1>2. KernelInv /\ [Next]_vars =>
        [\A p \in Procs : Member(p, ready_queue) =>
           \/ pc = "pop" /\ next' = p
           \/ /\ Member(p, ready_queue)'
              /\ \A q \in Procs : Ahead(q, p)' => Ahead(q, p)]_vars
  BY <1>1
<1> QED
  BY <1>2, KernelInvariant, PTL DEF Spec, NoOvertaking

-----------------------------------------------------------------------------
(* Who waits, and for what.                                                *)

(* A request is a reader's. *)
FromReader == gets_enabled => process_waiting_gets \in Readers

(* Only a reader is ever waiting for a character. *)
LEMMA FromReaderStep ==
    ASSUME KernelInv, FromReader, [Next]_vars
    PROVE  FromReader'
<1> USE DEF FromReader
<1>1. CASE UNCHANGED gets
  BY <1>1 DEF gets
<1>2. ASSUME NEW size \in GetsArgs, SysGets(size) PROVE FromReader'
  BY <1>2 DEF SysGets
<1>3. CASE Keyboard
  BY <1>3, KeyboardRequest, Zenon
<1> QED
  BY <1>1, <1>2, <1>3, GetsUntouched, CopiesOnly

(* What OnlySleepZeroIsForgotten says of one process. *)
Remembered(p) ==
    /\ Forgotten(p)' => \/ Forgotten(p)
                        \/ \E i \in Clocks :
                             waiting_sleep_queue[i] = [count_down |-> 0,
                                                       process |-> p]
    /\ Forgotten(p) => Forgotten(p)'

(* A step that touches neither clocks nor request, and blocks or resumes   *)
(* nobody.                                                                 *)
LEMMA NobodyForgotten ==
    ASSUME NEW p \in Procs,
           UNCHANGED <<waiting_sleep_queue, gets>>,
           status[p] = "Blocking" <=> status'[p] = "Blocking"
    PROVE  Remembered(p)
<1>1. HasClock(p)' <=> HasClock(p)
  BY DEF HasClock
<1>2. HasRequest(p)' <=> HasRequest(p)
  BY DEF HasRequest, gets
<1> QED
  BY <1>1, <1>2 DEF Remembered, Forgotten

(* The system calls. *)
LEMMA SysGetsForgets ==
    ASSUME KernelInv, FromReader, \A r, q \in Readers : r = q, 0 \notin GetsArgs,
           NEW size \in GetsArgs, SysGets(size), NEW p \in Procs
    PROVE  Remembered(p)
<1> DEFINE c == CURRENT_PROCESS
<1>1. /\ c \in Procs /\ status[c] = "Running"
      /\ \A q \in Procs : q # c => status'[q] = status[q]
  BY BlockCurrentFacts DEF SysGets
<1>2. /\ gets_enabled' = TRUE /\ gets_count' = size /\ gets_already_count' = 0
      /\ process_waiting_gets' = c /\ c \in Readers
      /\ UNCHANGED waiting_sleep_queue
  BY DEF SysGets
<1>3. size \in Nat /\ size # 0
  BY KernelConstants DEF KernelConstants
<1>4. CASE p = c
  <2>1. HasRequest(p)' /\ status[p] # "Blocking"
    BY <1>1, <1>2, <1>3, <1>4 DEF HasRequest
  <2> QED
    BY <2>1 DEF Remembered, Forgotten
<1>5. CASE p # c
  <2>1. ~HasRequest(p) /\ ~HasRequest(p)'
    BY <1>2, <1>5 DEF HasRequest, FromReader
  <2>2. HasClock(p)' <=> HasClock(p)
    BY <1>2 DEF HasClock
  <2>3. status'[p] = status[p]
    BY <1>1, <1>5
  <2> QED
    BY <2>1, <2>2, <2>3 DEF Remembered, Forgotten
<1> QED
  BY <1>4, <1>5

(* What a sleep call may forget: nobody, unless it sleeps for zero. *)
LEMMA SysSleepForgets ==
    ASSUME KernelInv, NEW seconds \in SleepArgs, SysSleep(seconds), NEW p \in Procs
    PROVE  Remembered(p)
<1> DEFINE c == CURRENT_PROCESS
           w == waiting_sleep_queue
           clock == [count_down |-> TICKS_PER_SECOND * seconds, process |-> c]
           n == Len(w)
<1>1. /\ c \in Procs /\ status[c] = "Running"
      /\ \A q \in Procs : q # c => status'[q] = status[q]
  BY BlockCurrentFacts DEF SysSleep
<1>2. w' = Append(w, clock) /\ UNCHANGED gets
  BY DEF SysSleep
<1>3. w \in Seq(Clock) /\ n \in Nat /\ DOMAIN w = 1 .. n
  BY LenProperties DEF KernelInv, TypeOK
<1>4. /\ DOMAIN w' = 1 .. n + 1 /\ w'[n + 1].process = c
      /\ \A i \in 1 .. n : w'[i] = w[i]
  BY <1>2, <1>3
<1>5. HasRequest(p)' <=> HasRequest(p)
  BY <1>2 DEF HasRequest, gets
<1> HIDE DEF w, n, clock
<1>6. CASE p = c
  <2>1. HasClock(p)' /\ status[p] # "Blocking"
    <3>1. n + 1 \in DOMAIN w'
      BY <1>3, <1>4
    <3> QED
      BY <1>1, <1>4, <1>6, <3>1 DEF HasClock, w
  <2> QED
    BY <2>1 DEF Remembered, Forgotten
<1>7. CASE p # c
  <2>1. HasClock(p)' => HasClock(p)
    <3> SUFFICES ASSUME NEW i \in DOMAIN w', w'[i].process = p PROVE HasClock(p)
      BY DEF HasClock, w
    <3>1. i \in 1 .. n
      BY <1>3, <1>4, <1>7
    <3> QED
      BY <1>3, <1>4, <3>1 DEF HasClock, w
  <2>2. HasClock(p) => HasClock(p)'
    <3> SUFFICES ASSUME NEW i \in DOMAIN w, w[i].process = p PROVE HasClock(p)'
      BY DEF HasClock, w
    <3>1. i \in DOMAIN w' /\ w'[i] = w[i]
      BY <1>3, <1>4
    <3> QED
      BY <3>1 DEF HasClock, w
  <2>3. status'[p] = status[p]
    BY <1>1, <1>7
  <2> QED
    BY <1>5, <2>1, <2>2, <2>3 DEF Remembered, Forgotten
<1> QED
  BY <1>6, <1>7

(* A tick: a clock that runs on is kept, one that reaches 0 wakes its      *)
(* process, and only one that already stood at 0 is dropped for nothing.   *)
LEMMA TimerForgets ==
    ASSUME KernelInv, TimerInterrupt, NEW p \in Procs
    PROVE  Remembered(p)
<1> DEFINE w == waiting_sleep_queue
<1>1. PICK f \in InOrder(Expiring), g \in InOrder(Kept) :
         TimerInKernel(f, g) \/ TimerInProcess(f, g)
  BY DEF TimerInterrupt
<1>2. Tick(g)
  BY <1>1 DEF TimerInKernel, TimerInProcess
<1>3. HasRequest(p)' <=> HasRequest(p)
  BY <1>2 DEF Tick, HasRequest, gets
<1>4. /\ Wakes(p) = 0 \/ (Wakes(p) = 1 /\ status[p] = "Blocking")
      /\ Wakes(p) = 1 => StatusAfterTick[p] = "Ready"
      /\ Wakes(p) = 0 => StatusAfterTick[p] = status[p]
      /\ StatusAfterTick \in [Procs -> {"Unborn", "Ready", "Running", "Blocking"}]
  BY TickStatus
<1>5. status'[p] = "Blocking" <=> status[p] = "Blocking" /\ Wakes(p) = 0
  <2>1. CASE TimerInKernel(f, g)
    BY <1>4, <2>1 DEF TimerInKernel
  <2>2. CASE TimerInProcess(f, g)
    <3>1. /\ CURRENT_PROCESS \in Procs /\ status[CURRENT_PROCESS] = "Running"
          /\ status' = [StatusAfterTick EXCEPT ![CURRENT_PROCESS] = "Ready"]
      BY <2>2 DEF TimerInProcess, KernelInv, CpuInv, OnCpu
    <3> QED
      BY <1>4, <3>1
  <2> QED
    BY <1>1, <2>1, <2>2
<1>6. /\ w' = Ticked(g) /\ DOMAIN Ticked(g) = DOMAIN g
      /\ \A i \in DOMAIN g : /\ g[i] \in Kept
                             /\ Ticked(g)[i].process = w[g[i]].process
      /\ \A k \in Kept : \E i \in DOMAIN g : g[i] = k
  BY <1>2, TickedFacts DEF Tick, KernelInv
<1>7. HasClock(p)' <=> \E k \in Kept : w[k].process = p
  BY <1>6 DEF HasClock
<1>8. (\E k \in Kept : w[k].process = p) => HasClock(p)
  BY DEF HasClock, Kept, Clocks
<1>9. Wakes(p) = 1 <=> \E i \in Expiring : w[i].process = p
  BY WakesFacts DEF KernelInv
<1>10. Wakes(p) = 1 => HasClock(p)
  BY <1>9 DEF HasClock, Expiring, Clocks
<1>11. ASSUME HasClock(p), Wakes(p) = 0, ~\E k \in Kept : w[k].process = p
       PROVE  \E i \in Clocks : w[i] = [count_down |-> 0, process |-> p]
  <2>1. PICK i \in Clocks : w[i].process = p
    BY <1>11 DEF HasClock, Clocks
  <2>2. w[i] \in Clock
    BY ClockFacts DEF KernelInv
  <2>3. ~(w[i].count_down > 1) /\ w[i].count_down # 1
    BY <1>9, <1>11, <2>1 DEF Kept, Expiring
  <2>4. w[i].count_down = 0
    BY <2>2, <2>3 DEF Clock
  <2>5. w[i] = [count_down |-> 0, process |-> p]
    BY <2>1, <2>2, <2>4 DEF Clock
  <2> QED
    BY <2>5
<1> QED
  BY <1>3, <1>4, <1>5, <1>7, <1>8, <1>10, <1>11 DEF Remembered, Forgotten

(* A key completes a request and resumes its reader, or keeps it open. *)
LEMMA KeyboardForgets ==
    ASSUME KernelInv, GetsInBuffer, GetsInBuffer', Keyboard, NEW p \in Procs
    PROVE  Remembered(p)
<1>1. HasClock(p)' <=> HasClock(p)
  BY DEF HasClock, Keyboard, KeyboardInterrupt
<1>2. status \in [Procs -> {"Unborn", "Ready", "Running", "Blocking"}]
  BY DEF KernelInv, TypeOK
<1>3. CASE /\ gets_enabled /\ ~gets_enabled'
           /\ process_waiting_gets \in Procs
           /\ status' = [status EXCEPT ![process_waiting_gets] = "Ready"]
  <2>1. CASE p = process_waiting_gets
    <3>1. HasRequest(p) /\ status'[p] = "Ready"
      BY <1>2, <1>3, <2>1 DEF HasRequest, GetsInBuffer
    <3> QED
      BY <3>1 DEF Remembered, Forgotten
  <2>2. CASE p # process_waiting_gets
    <3>1. ~HasRequest(p) /\ ~HasRequest(p)' /\ status'[p] = status[p]
      BY <1>2, <1>3, <2>2 DEF HasRequest
    <3> QED
      BY <1>1, <3>1 DEF Remembered, Forgotten
  <2> QED
    BY <2>1, <2>2
<1>4. CASE gets_enabled' = gets_enabled /\ UNCHANGED <<process_waiting_gets, status>>
  <2>1. HasRequest(p)' <=> HasRequest(p)
    BY <1>4 DEF HasRequest, GetsInBuffer
  <2> QED
    BY <1>1, <1>4, <2>1 DEF Remembered, Forgotten
<1>5. gets_enabled \in BOOLEAN
  BY DEF KernelInv, TypeOK
<1>6. gets_enabled' \in BOOLEAN
  BY <1>5 DEF Keyboard, KeyboardInterrupt
<1> QED
  BY <1>3, <1>4, <1>5, <1>6, KeyboardRequest, Zenon

(* Suppose at most one program reads, and none asks for zero characters.   *)
(* Then a process that blocks waits for a clock or for characters until it *)
(* is made ready, whatever the interleaving: the only way to be forgotten  *)
(* is the tick that meets a clock at 0, that of sleep(0) (interrupt.cpp:   *)
(* 64-80), and then it is for ever.                                        *)
THEOREM OnlySleepZero ==
    (0 \notin GetsArgs /\ \A r, q \in Readers : r = q)
       => (Spec => OnlySleepZeroIsForgotten)
<1> SUFFICES ASSUME 0 \notin GetsArgs, \A r, q \in Readers : r = q
             PROVE  Spec => OnlySleepZeroIsForgotten
  OBVIOUS
<1>1. Init => FromReader
  BY DEF Init, FromReader
<1>2. KernelInv /\ FromReader /\ [Next]_vars => FromReader'
  BY FromReaderStep
<1>3. ASSUME KernelInv, GetsInBuffer, FromReader, [Next]_vars, NEW p \in Procs
      PROVE  Remembered(p)
  <2>1. CASE KernelStep
    <3>1. UNCHANGED <<waiting_sleep_queue, gets>>
      BY <2>1 DEF KernelStep, Execv, EnterSchedular, TestReady, PopFront, Admit,
         SwitchToProcess, SetProcessFlow, Iret, SchedulerRestoreHere, Usleep,
         TestCountDown, queues
    <3>2. status[p] = "Blocking" <=> status'[p] = "Blocking"
      <4>1. /\ status \in [Procs -> {"Unborn", "Ready", "Running", "Blocking"}]
            /\ pc = "admit" => status[next] = "Ready"
        BY <1>3 DEF KernelInv, TypeOK, CpuInv
      <4> QED
        BY <2>1, <4>1 DEF KernelStep, Execv, EnterSchedular, TestReady, PopFront,
           Admit, At, SwitchToProcess, SetProcessFlow, Iret, SchedulerRestoreHere,
           Usleep, TestCountDown, processes
    <3> QED
      BY <3>1, <3>2, NobodyForgotten
  <2>2. CASE SystemCall
    <3>1. CASE Copies \/ SysUnknown
      BY <3>1, CopiesOnly, NobodyForgotten
         DEF SysUnknown, Refuse, queues, processes
    <3> QED
      BY <1>3, <2>2, <3>1, SysGetsForgets, SysSleepForgets DEF SystemCall, Copies
  <2>3. CASE TimerInterrupt
    BY <1>3, <2>3, TimerForgets
  <2>4. CASE Keyboard
    BY <1>3, <2>4, KeyboardForgets, InBufferStep
  <2>5. CASE UNCHANGED vars
    BY <2>5, NobodyForgotten DEF vars, queues, processes
  <2> QED
    BY <1>3, <2>1, <2>2, <2>3, <2>4, <2>5 DEF Next, Spin
<1>4. KernelInv /\ GetsInBuffer /\ FromReader /\ [Next]_vars =>
        [\A p \in Procs :
           /\ Forgotten(p)' => \/ Forgotten(p)
                               \/ \E i \in Clocks :
                                    waiting_sleep_queue[i] = [count_down |-> 0,
                                                              process |-> p]
           /\ Forgotten(p) => Forgotten(p)']_vars
  BY <1>3 DEF Remembered
<1>5. Spec => []GetsInBuffer
  BY NeverPastTheBuffer
<1> QED
  BY <1>1, <1>2, <1>4, <1>5, KernelInvariant, PTL DEF Spec, OnlySleepZeroIsForgotten
=============================================================================
