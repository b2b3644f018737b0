---------------------------- MODULE KernelProofs ----------------------------
(***************************************************************************)
(* Proofs about Kernel, for any number of processes, any readers, and any  *)
(* arguments of sleep and gets: KernelInv is inductive, and from it the    *)
(* safety properties and the refinement of ProcessLifecycle follow.        *)
(***************************************************************************)
EXTENDS MCKernel, FiniteSetTheorems, SequenceTheorems, TLAPS

(* Appending distinct newcomers to a queue keeps its members and makes     *)
(* nothing occur twice.                                                    *)
LEMMA EnqueueMany ==
    ASSUME NEW s \in Seq(Procs), NEW t \in Seq(Procs),
           Distinct(s), Distinct(t),
           \A p \in Procs : ~(Member(p, s) /\ Member(p, t))
    PROVE  /\ Enqueue(s, t) \in Seq(Procs)
           /\ Distinct(Enqueue(s, t))
           /\ \A p \in Procs : Member(p, Enqueue(s, t))
                                  <=> Member(p, s) \/ Member(p, t)
<1> DEFINE u == s \o t
<1>1. /\ Len(s) \in Nat /\ DOMAIN s = 1 .. Len(s)
      /\ Len(t) \in Nat /\ DOMAIN t = 1 .. Len(t)
      /\ \A i \in 1 .. Len(s) : s[i] \in Procs
      /\ \A i \in 1 .. Len(t) : t[i] \in Procs
  BY LenProperties, ElementOfSeq
<1>2. /\ u \in Seq(Procs) /\ Len(u) = Len(s) + Len(t)
      /\ \A i \in 1 .. Len(s) + Len(t) :
            u[i] = IF i <= Len(s) THEN s[i] ELSE t[i - Len(s)]
  BY ConcatProperties
<1>3. DOMAIN u = 1 .. Len(s) + Len(t)
  BY <1>2, LenProperties
<1> HIDE DEF u
<1>4. ASSUME NEW i \in DOMAIN u, NEW j \in DOMAIN u, u[i] = u[j]
      PROVE  i = j
  <2>1. CASE i <= Len(s) /\ j <= Len(s)
    BY <1>1, <1>2, <1>3, <1>4, <2>1 DEF Distinct
  <2>2. CASE ~(i <= Len(s)) /\ ~(j <= Len(s))
    <3>1. /\ i - Len(s) \in 1 .. Len(t) /\ j - Len(s) \in 1 .. Len(t)
          /\ t[i - Len(s)] = t[j - Len(s)]
      BY <1>1, <1>2, <1>3, <1>4, <2>2
    <3>2. i - Len(s) = j - Len(s)
      BY <1>1, <3>1 DEF Distinct
    <3> QED
      BY <1>1, <1>3, <3>2
  <2>3. ASSUME NEW k \in DOMAIN u, NEW l \in DOMAIN u,
               k <= Len(s), ~(l <= Len(s)), u[k] = u[l]
        PROVE  FALSE
    <3>1. /\ k \in 1 .. Len(s) /\ l - Len(s) \in 1 .. Len(t)
          /\ s[k] = t[l - Len(s)]
      BY <1>1, <1>2, <1>3, <2>3
    <3> QED
      BY <1>1, <3>1 DEF Member
  <2> QED
    BY <2>1, <2>2, <2>3, <1>4
<1>5. ASSUME NEW p \in Procs, Member(p, u) PROVE Member(p, s) \/ Member(p, t)
  <2>1. PICK i \in DOMAIN u : u[i] = p
    BY <1>5 DEF Member
  <2>2. CASE i <= Len(s)
    BY <1>1, <1>2, <1>3, <2>1, <2>2 DEF Member
  <2>3. CASE ~(i <= Len(s))
    <3>1. i - Len(s) \in 1 .. Len(t) /\ t[i - Len(s)] = p
      BY <1>1, <1>2, <1>3, <2>1, <2>3
    <3> QED
      BY <1>1, <3>1 DEF Member
  <2> QED
    BY <2>2, <2>3
<1>6. ASSUME NEW p \in Procs, Member(p, s) PROVE Member(p, u)
  <2>1. PICK i \in 1 .. Len(s) : s[i] = p
    BY <1>1, <1>6 DEF Member
  <2>2. i \in 1 .. Len(s) + Len(t) /\ u[i] = p
    BY <1>1, <1>2, <2>1
  <2> QED
    BY <1>3, <2>2 DEF Member
<1>7. ASSUME NEW p \in Procs, Member(p, t) PROVE Member(p, u)
  <2>1. PICK i \in 1 .. Len(t) : t[i] = p
    BY <1>1, <1>7 DEF Member
  <2>2. i + Len(s) \in 1 .. Len(s) + Len(t) /\ u[i + Len(s)] = p
    <3>1. /\ i + Len(s) \in 1 .. Len(s) + Len(t)
          /\ ~(i + Len(s) <= Len(s)) /\ (i + Len(s)) - Len(s) = i
      BY <1>1, <2>1
    <3> QED
      BY <1>2, <2>1, <3>1
  <2> QED
    BY <1>3, <2>2 DEF Member
<1>8. Enqueue(s, t) = u
  BY DEF Enqueue, u
<1> QED
  BY <1>2, <1>4, <1>5, <1>6, <1>7, <1>8 DEF Distinct

(* The case of one newcomer. *)
LEMMA EnqueueOne ==
    ASSUME NEW s \in Seq(Procs), NEW p \in Procs, Distinct(s), ~Member(p, s)
    PROVE  /\ Enqueue(s, <<p>>) \in Seq(Procs)
           /\ Distinct(Enqueue(s, <<p>>))
           /\ \A q \in Procs : Member(q, Enqueue(s, <<p>>))
                                  <=> Member(q, s) \/ q = p
<1>1. <<p>> \in Seq(Procs) /\ DOMAIN <<p>> = 1 .. 1 /\ <<p>>[1] = p
  OBVIOUS
<1>2. Distinct(<<p>>) /\ \A q \in Procs : Member(q, <<p>>) <=> q = p
  BY <1>1 DEF Distinct, Member
<1> HIDE DEF Enqueue
<1> QED
  BY <1>1, <1>2, EnqueueMany, ZenonT(40)

(* pop_front removes the first element and nothing else. *)
LEMMA PopFacts ==
    ASSUME NEW s \in Seq(Procs), s # <<>>, Distinct(s)
    PROVE  /\ Head(s) \in Procs /\ Tail(s) \in Seq(Procs)
           /\ Distinct(Tail(s)) /\ Member(Head(s), s)
           /\ \A p \in Procs : Member(p, Tail(s))
                                  <=> Member(p, s) /\ p # Head(s)
<1> DEFINE t == Tail(s)
<1>1. /\ Len(s) \in Nat /\ DOMAIN s = 1 .. Len(s) /\ Len(s) # 0
  BY LenProperties, EmptySeq
<1>2. /\ Head(s) \in Procs /\ t \in Seq(Procs) /\ Len(t) = Len(s) - 1
      /\ \A i \in 1 .. Len(t) : t[i] = s[i + 1]
      /\ Head(s) = s[1]
  BY HeadTailProperties
<1>3. DOMAIN t = 1 .. Len(s) - 1
  BY <1>2, LenProperties
<1> HIDE DEF t
<1>4. Distinct(t)
  <2> SUFFICES ASSUME NEW i \in DOMAIN t, NEW j \in DOMAIN t, t[i] = t[j]
               PROVE  i = j
    BY DEF Distinct
  <2>1. /\ i + 1 \in DOMAIN s /\ j + 1 \in DOMAIN s /\ s[i + 1] = s[j + 1]
    BY <1>1, <1>2, <1>3
  <2>2. i + 1 = j + 1
    BY <2>1 DEF Distinct
  <2> QED
    BY <1>1, <1>3, <2>2
<1>5. ASSUME NEW p \in Procs, Member(p, t) PROVE Member(p, s) /\ p # Head(s)
  <2>1. PICK i \in DOMAIN t : t[i] = p
    BY <1>5 DEF Member
  <2>2. i + 1 \in DOMAIN s /\ s[i + 1] = p /\ i + 1 # 1 /\ 1 \in DOMAIN s
    BY <1>1, <1>2, <1>3, <2>1
  <2> QED
    BY <1>2, <2>2 DEF Member, Distinct
<1>6. ASSUME NEW p \in Procs, Member(p, s), p # Head(s) PROVE Member(p, t)
  <2>1. PICK i \in DOMAIN s : s[i] = p
    BY <1>6 DEF Member
  <2>2. i - 1 \in DOMAIN t /\ t[i - 1] = p
    <3>1. i # 1
      BY <1>2, <1>6, <2>1
    <3>2. i - 1 \in 1 .. Len(s) - 1 /\ (i - 1) + 1 = i
      BY <1>1, <2>1, <3>1
    <3> QED
      BY <1>2, <1>3, <2>1, <3>2
  <2> QED
    BY <2>2 DEF Member
<1>7. Member(Head(s), s)
  <2>1. 1 \in DOMAIN s
    BY <1>1
  <2> QED
    BY <1>2, <2>1 DEF Member
<1> QED
  BY <1>2, <1>4, <1>5, <1>6, <1>7 DEF t

-----------------------------------------------------------------------------
(* An increasing enumeration visits every position once. *)
LEMMA InOrderFacts ==
    ASSUME NEW n \in Nat, NEW S \in SUBSET (1 .. n), NEW f \in InOrder(S)
    PROVE  /\ Cardinality(S) \in Nat
           /\ DOMAIN f = 1 .. Cardinality(S)
           /\ \A i \in DOMAIN f : f[i] \in S
           /\ \A i, j \in DOMAIN f : f[i] = f[j] => i = j
           /\ \A k \in S : \E i \in DOMAIN f : f[i] = k
<1>1. IsFiniteSet(S)
  <2>1. IsFiniteSet(1 .. n)
    BY FS_Interval
  <2> QED
    BY <2>1, FS_Subset
<1>2. Cardinality(S) \in Nat
  BY <1>1, FS_CardinalityType
<1>3. /\ f \in [1 .. Cardinality(S) -> S]
      /\ \A i, j \in 1 .. Cardinality(S) : i < j => f[i] < f[j]
      /\ \A k \in S : \E i \in 1 .. Cardinality(S) : f[i] = k
  BY DEF InOrder
<1>4. ASSUME NEW i \in 1 .. Cardinality(S), NEW j \in 1 .. Cardinality(S),
             f[i] = f[j]
      PROVE  i = j
  <2>1. f[i] \in Nat /\ f[j] \in Nat
    <3>1. f[i] \in S /\ f[j] \in S
      BY <1>3
    <3>2. \A x \in S : x \in 1 .. n
      OBVIOUS
    <3>3. \A x \in 1 .. n : x \in Nat
      OBVIOUS
    <3> QED
      BY <3>1, <3>2, <3>3
  <2>2. ~(i < j) /\ ~(j < i)
    <3>1. /\ i < j => f[i] < f[j]
          /\ j < i => f[j] < f[i]
      BY <1>3
    <3> QED
      BY <1>4, <2>1, <3>1
  <2> QED
    BY <1>2, <2>2
<1> QED
  BY <1>2, <1>3, <1>4

(* The clocks of the sleep queue and their processes. *)
LEMMA ClockFacts ==
    ASSUME TypeOK
    PROVE  /\ Len(waiting_sleep_queue) \in Nat
           /\ Clocks = 1 .. Len(waiting_sleep_queue)
           /\ \A i \in Clocks : waiting_sleep_queue[i] \in Clock
  BY LenProperties, ElementOfSeq DEF TypeOK, Clocks

(* A tick wakes a process once or not at all, and only if it is blocked. *)
LEMMA WakesFacts ==
    ASSUME TypeOK, ClockInv, NEW p \in Procs
    PROVE  /\ Wakes(p) \in {0, 1}
           /\ Wakes(p) = 1 <=> \E i \in Expiring :
                                  waiting_sleep_queue[i].process = p
           /\ Wakes(p) = 1 => status[p] = "Blocking"
<1>1. CASE \E i \in Expiring : waiting_sleep_queue[i].process = p
  <2>1. PICK i \in Expiring : waiting_sleep_queue[i].process = p
    BY <1>1
  <2>2. ClocksOf(Expiring, p) = {i}
    BY <2>1 DEF ClocksOf, ClockInv, Expiring
  <2>3. Wakes(p) = 1
    BY <2>2, FS_Singleton DEF Wakes
  <2>4. status[p] = "Blocking"
    BY <2>1 DEF ClockInv, Expiring
  <2> QED
    BY <1>1, <2>3, <2>4
<1>2. CASE ~\E i \in Expiring : waiting_sleep_queue[i].process = p
  <2>1. ClocksOf(Expiring, p) = {}
    BY <1>2 DEF ClocksOf
  <2>2. Wakes(p) = 0
    BY <2>1, FS_EmptySet DEF Wakes
  <2> QED
    BY <1>2, <2>2
<1> QED
  BY <1>1, <1>2

(* The processes a tick wakes, in order, and the clocks it keeps. *)
LEMMA WokenFacts ==
    ASSUME TypeOK, ClockInv, NEW f \in InOrder(Expiring)
    PROVE  /\ Woken(f) \in Seq(Procs)
           /\ Distinct(Woken(f))
           /\ \A p \in Procs : Member(p, Woken(f)) <=> Wakes(p) = 1
<1> DEFINE w == Woken(f)
           n == Cardinality(Expiring)
<1>1. /\ n \in Nat /\ DOMAIN f = 1 .. n
      /\ \A i \in DOMAIN f : f[i] \in Expiring
      /\ \A i, j \in DOMAIN f : f[i] = f[j] => i = j
      /\ \A k \in Expiring : \E i \in DOMAIN f : f[i] = k
  <2>1. Expiring \in SUBSET (1 .. Len(waiting_sleep_queue))
    BY ClockFacts DEF Expiring
  <2>2. Len(waiting_sleep_queue) \in Nat
    BY ClockFacts
  <2> QED
    BY <2>1, <2>2, InOrderFacts
<1>2. /\ DOMAIN w = 1 .. n
      /\ \A i \in 1 .. n : w[i] = waiting_sleep_queue[f[i]].process
  BY <1>1 DEF Woken
<1>3. \A i \in 1 .. n : f[i] \in Clocks /\ w[i] \in Procs
  BY <1>1, <1>2, ClockFacts DEF Expiring, Clock
<1>4. w \in Seq(Procs)
  <2>1. w \in [1 .. n -> Procs]
    BY <1>1, <1>3 DEF Woken
  <2> QED
    BY <1>1, <2>1
<1>5. Distinct(w)
  BY <1>1, <1>2, <1>3 DEF Distinct, ClockInv
<1>6. ASSUME NEW p \in Procs PROVE Member(p, w) <=> Wakes(p) = 1
  <2>1. Member(p, w) => \E i \in Expiring : waiting_sleep_queue[i].process = p
    BY <1>1, <1>2 DEF Member
  <2>2. ASSUME NEW i \in Expiring, waiting_sleep_queue[i].process = p
        PROVE  Member(p, w)
    <3>1. PICK j \in DOMAIN f : f[j] = i
      BY <1>1
    <3>2. j \in DOMAIN w /\ w[j] = p
      BY <1>1, <1>2, <2>2, <3>1
    <3> QED
      BY <3>2 DEF Member
  <2> QED
    BY <2>1, <2>2, WakesFacts
<1> QED
  BY <1>4, <1>5, <1>6

(* What a tick leaves of the clocks: the kept ones, in their order. *)
LEMMA TickedFacts ==
    ASSUME TypeOK, NEW g \in InOrder(Kept)
    PROVE  /\ Ticked(g) \in Seq(Clock)
           /\ DOMAIN Ticked(g) = DOMAIN g
           /\ \A i \in DOMAIN g :
                 /\ g[i] \in Kept
                 /\ Ticked(g)[i].process = waiting_sleep_queue[g[i]].process
                 /\ Ticked(g)[i].count_down > 0
           /\ \A i, j \in DOMAIN g : g[i] = g[j] => i = j
           /\ \A k \in Kept : \E i \in DOMAIN g : g[i] = k
<1> DEFINE t == Ticked(g)
           n == Cardinality(Kept)
<1>1. /\ n \in Nat /\ DOMAIN g = 1 .. n
      /\ \A i \in DOMAIN g : g[i] \in Kept
      /\ \A i, j \in DOMAIN g : g[i] = g[j] => i = j
      /\ \A k \in Kept : \E i \in DOMAIN g : g[i] = k
  <2>1. Kept \in SUBSET (1 .. Len(waiting_sleep_queue))
    BY ClockFacts DEF Kept
  <2>2. Len(waiting_sleep_queue) \in Nat
    BY ClockFacts
  <2> QED
    BY <2>1, <2>2, InOrderFacts
<1>2. ASSUME NEW i \in 1 .. n
      PROVE  /\ t[i] \in Clock
             /\ t[i].process = waiting_sleep_queue[g[i]].process
             /\ t[i].count_down > 0
  <2>1. g[i] \in Clocks /\ waiting_sleep_queue[g[i]].count_down > 1
    BY <1>1 DEF Kept
  <2>2. waiting_sleep_queue[g[i]] \in Clock
    BY <2>1, ClockFacts
  <2>3. t[i] = [waiting_sleep_queue[g[i]] EXCEPT !.count_down = @ - 1]
    BY <1>1 DEF Ticked
  <2> HIDE DEF t
  <2> QED
    BY <2>1, <2>2, <2>3 DEF Clock
<1>3. DOMAIN t = 1 .. n
  BY <1>1 DEF Ticked
<1>4. t \in Seq(Clock)
  <2>1. t \in [1 .. n -> Clock]
    BY <1>1, <1>2, <1>3 DEF Ticked
  <2> QED
    BY <1>1, <2>1
<1> QED
  BY <1>1, <1>2, <1>3, <1>4

-----------------------------------------------------------------------------
(* Each action keeps KernelInv.                                            *)

(* The invariant holds at the start. *)
LEMMA InitInv == Init => KernelInv
<1> SUFFICES ASSUME Init PROVE KernelInv
  OBVIOUS
<1> USE KernelConstants DEF KernelConstants, Init
<1>1. TypeOK
  <2>1. ready_queue \in Seq(Procs) /\ waiting_sleep_queue \in Seq(Clock)
    BY EmptySeq
  <2>2. gets_enabled \in BOOLEAN /\ fatal \in BOOLEAN
    OBVIOUS
  <2> QED
    BY <2>1, <2>2 DEF TypeOK, Locations
<1>2. Clocks = {} /\ DOMAIN ready_queue = {}
  BY DEF Clocks
<1>3. QueuesMatchStatus
  BY <1>2 DEF QueuesMatchStatus, Distinct, Member, InHand
<1>4. NoFatal /\ CpuInv /\ MemoryInv
  BY DEF NoFatal, CpuInv, MemoryInv, OnCpu
<1>5. ClockInv /\ GetsInv
  BY <1>2 DEF ClockInv, GetsInv
<1> QED
  BY <1>1, <1>3, <1>4, <1>5 DEF KernelInv

(* The part of the invariant about lists, clocks and requests depends on   *)
(* the scheduler only through the process it has in hand.                  *)
LEMMA QuietStep ==
    ASSUME KernelInv, UNCHANGED <<queues, status, gets, fatal, torn>>,
           pc # "admit", pc' # "admit"
    PROVE  QueuesMatchStatus' /\ NoFatal' /\ ClockInv' /\ GetsInv'
<1> USE DEF KernelInv, queues, gets
<1>1. QueuesMatchStatus'
  BY DEF QueuesMatchStatus, InHand, Distinct, Member
<1>2. NoFatal'
  BY DEF NoFatal
<1>3. ClockInv' /\ GetsInv'
  BY DEF ClockInv, GetsInv, Clocks
<1> QED
  BY <1>1, <1>2, <1>3

(* kernel_main calls schedular. *)
LEMMA EnterSchedularInv == ASSUME KernelInv, EnterSchedular PROVE KernelInv'
<1> USE KernelConstants DEF KernelConstants, KernelInv, EnterSchedular, At, scheduler,
        queues, processes, flow, memory, gets
<1>1. TypeOK'
  BY DEF TypeOK, Locations, CpuInv, OnCpu
<1>2. QueuesMatchStatus' /\ NoFatal' /\ ClockInv' /\ GetsInv'
  BY QuietStep
<1>3. CpuInv'
  BY DEF CpuInv, OnCpu
<1>4. MemoryInv'
  BY DEF MemoryInv, CpuInv, OnCpu
<1> QED
  BY <1>1, <1>2, <1>3, <1>4

(* The test of the ready queue; no interrupt ever empties it afterwards. *)
LEMMA TestReadyInv == ASSUME KernelInv, TestReady PROVE KernelInv'
<1> USE KernelConstants DEF KernelConstants, KernelInv, TestReady, At, scheduler,
        queues, processes, flow, memory, gets
<1>1. TypeOK'
  BY SMTT(30) DEF TypeOK, Locations, CpuInv, OnCpu
<1>2. QueuesMatchStatus' /\ NoFatal' /\ ClockInv' /\ GetsInv'
  BY QuietStep
<1>3. CpuInv'
  BY DEF CpuInv, OnCpu
<1>4. MemoryInv'
  BY DEF MemoryInv, CpuInv, OnCpu
<1> QED
  BY <1>1, <1>2, <1>3, <1>4

(* The scheduler loads the page directory of the process it admitted. *)
LEMMA SwitchToProcessInv == ASSUME KernelInv, SwitchToProcess PROVE KernelInv'
<1> USE KernelConstants DEF KernelConstants, KernelInv, SwitchToProcess, At, scheduler,
        queues, processes, flow, memory, gets
<1>1. TypeOK'
  BY DEF TypeOK, Locations, CpuInv, OnCpu
<1>2. QueuesMatchStatus' /\ NoFatal' /\ ClockInv' /\ GetsInv'
  BY QuietStep
<1>3. CpuInv'
  BY DEF CpuInv, OnCpu
<1>4. MemoryInv'
  BY DEF MemoryInv, CpuInv, OnCpu
<1> QED
  BY <1>1, <1>2, <1>3, <1>4

(* Current_control_flow is set. *)
LEMMA SetProcessFlowInv == ASSUME KernelInv, SetProcessFlow PROVE KernelInv'
<1> USE KernelConstants DEF KernelConstants, KernelInv, SetProcessFlow, At, scheduler,
        queues, processes, flow, memory, gets
<1>1. TypeOK'
  BY DEF TypeOK, Locations, CpuInv, OnCpu
<1>2. QueuesMatchStatus' /\ NoFatal' /\ ClockInv' /\ GetsInv'
  BY QuietStep
<1>3. CpuInv'
  BY DEF CpuInv, OnCpu
<1>4. MemoryInv'
  BY DEF MemoryInv, CpuInv, OnCpu
<1> QED
  BY <1>1, <1>2, <1>3, <1>4

(* The iret. *)
LEMMA IretInv == ASSUME KernelInv, Iret PROVE KernelInv'
<1> USE KernelConstants DEF KernelConstants, KernelInv, Iret, At, scheduler,
        queues, processes, flow, memory, gets
<1>1. TypeOK'
  BY DEF TypeOK, Locations, CpuInv, OnCpu
<1>2. QueuesMatchStatus' /\ NoFatal' /\ ClockInv' /\ GetsInv'
  BY QuietStep
<1>3. CpuInv'
  BY DEF CpuInv, OnCpu
<1>4. MemoryInv'
  BY DEF MemoryInv, CpuInv, OnCpu
<1> QED
  BY <1>1, <1>2, <1>3, <1>4

(* The scheduler is back. *)
LEMMA SchedulerRestoreHereInv == ASSUME KernelInv, SchedulerRestoreHere PROVE KernelInv'
<1> USE KernelConstants DEF KernelConstants, KernelInv, SchedulerRestoreHere, At, scheduler,
        queues, processes, flow, memory, gets
<1>1. TypeOK'
  BY DEF TypeOK, Locations, CpuInv, OnCpu
<1>2. QueuesMatchStatus' /\ NoFatal' /\ ClockInv' /\ GetsInv'
  BY QuietStep
<1>3. CpuInv'
  BY DEF CpuInv, OnCpu
<1>4. MemoryInv'
  BY DEF MemoryInv, CpuInv, OnCpu
<1> QED
  BY <1>1, <1>2, <1>3, <1>4

(* The countdown is set. *)
LEMMA UsleepInv == ASSUME KernelInv, Usleep PROVE KernelInv'
<1> USE KernelConstants DEF KernelConstants, KernelInv, Usleep, At, scheduler,
        queues, processes, flow, memory, gets
<1>1. TypeOK'
  BY DEF TypeOK, Locations, CpuInv, OnCpu
<1>2. QueuesMatchStatus' /\ NoFatal' /\ ClockInv' /\ GetsInv'
  BY QuietStep
<1>3. CpuInv'
  BY DEF CpuInv, OnCpu
<1>4. MemoryInv'
  BY DEF MemoryInv, CpuInv, OnCpu
<1> QED
  BY <1>1, <1>2, <1>3, <1>4

(* The countdown is tested. *)
LEMMA TestCountDownInv == ASSUME KernelInv, TestCountDown PROVE KernelInv'
<1> USE KernelConstants DEF KernelConstants, KernelInv, TestCountDown, At, scheduler,
        queues, processes, flow, memory, gets
<1>1. TypeOK'
  BY DEF TypeOK, Locations, CpuInv, OnCpu
<1>2. QueuesMatchStatus' /\ NoFatal' /\ ClockInv' /\ GetsInv'
  BY QuietStep
<1>3. CpuInv'
  BY DEF CpuInv, OnCpu
<1>4. MemoryInv'
  BY DEF MemoryInv, CpuInv, OnCpu
<1> QED
  BY <1>1, <1>2, <1>3, <1>4

(* A system call that ends in fatal: the caller keeps the CPU. *)
LEMMA RefuseInv ==
    ASSUME KernelInv, Refuse, user_entry' \in {user_entry, CURRENT_PROCESS}
    PROVE  KernelInv'
<1> USE KernelConstants DEF KernelConstants, KernelInv, Refuse, At, queues,
        processes, flow, gets
<1>1. TypeOK'
  BY DEF TypeOK, Locations, CpuInv, OnCpu
<1>2. QueuesMatchStatus' /\ NoFatal' /\ ClockInv' /\ GetsInv'
  BY QuietStep
<1>3. CpuInv'
  BY DEF CpuInv, OnCpu
<1>4. MemoryInv'
  BY DEF MemoryInv, CpuInv, OnCpu
<1> QED
  BY <1>1, <1>2, <1>3, <1>4

(* A system call that maps the user stack. *)
LEMMA SysStructOrPrintfInv ==
    ASSUME KernelInv, NEW size \in CopyArgs, SysStructOrPrintf(size)
    PROVE  KernelInv'
<1> USE KernelConstants DEF KernelConstants, KernelInv, SysStructOrPrintf, At, scheduler,
        queues, processes, flow, memory, gets, copy_process_mapping
<1>1. TypeOK'
  BY DEF TypeOK, Locations, CpuInv, OnCpu
<1>2. QueuesMatchStatus' /\ NoFatal' /\ ClockInv' /\ GetsInv'
  BY QuietStep
<1>3. CpuInv'
  BY DEF CpuInv, OnCpu
<1>4. MemoryInv'
  BY DEF MemoryInv, CpuInv, OnCpu
<1> QED
  BY <1>1, <1>2, <1>3, <1>4

(* execv queues a process that is in no queue yet. *)
LEMMA ExecvInv == ASSUME KernelInv, NEW p \in Procs, Execv(p) PROVE KernelInv'
<1> USE KernelConstants DEF KernelConstants, KernelInv, Execv, At, scheduler,
        flow, memory, gets
<1>1. /\ ready_queue \in Seq(Procs) /\ Distinct(ready_queue)
      /\ ~Member(p, ready_queue)
  BY DEF TypeOK, QueuesMatchStatus
<1>2. /\ ready_queue' \in Seq(Procs) /\ Distinct(ready_queue')
      /\ \A q \in Procs : Member(q, ready_queue')
                             <=> Member(q, ready_queue) \/ q = p
  BY <1>1, EnqueueOne
<1>3. /\ status' \in [Procs -> {"Unborn", "Ready", "Running", "Blocking"}]
      /\ status'[p] = "Ready"
      /\ \A q \in Procs : q # p => status'[q] = status[q]
  BY DEF TypeOK
<1>4. TypeOK'
  BY <1>2, <1>3 DEF TypeOK
<1>5. QueuesMatchStatus'
  <2> SUFFICES ASSUME NEW q \in Procs
               PROVE  /\ Member(q, ready_queue') <=> status'[q] = "Ready"
                      /\ running_queue[q] = IF status'[q] = "Running" THEN 1 ELSE 0
                      /\ blocking_queue[q] = IF status'[q] = "Blocking" THEN 1 ELSE 0
    BY <1>2 DEF QueuesMatchStatus, InHand
  <2> QED
    BY <1>2, <1>3 DEF QueuesMatchStatus, InHand
<1>6. NoFatal' /\ CpuInv' /\ MemoryInv'
  BY <1>3 DEF NoFatal, CpuInv, MemoryInv, OnCpu
<1>7. ClockInv'
  BY <1>3, ClockFacts DEF ClockInv, Clocks, Clock
<1>8. GetsInv'
  BY <1>3 DEF GetsInv, Clocks
<1> QED
  BY <1>4, <1>5, <1>6, <1>7, <1>8

(* pop_front takes the process in hand. *)
LEMMA PopFrontInv == ASSUME KernelInv, PopFront PROVE KernelInv'
<1> USE KernelConstants DEF KernelConstants, KernelInv, PopFront, At,
        processes, flow, memory, gets
<1>1. ready_queue \in Seq(Procs) /\ Distinct(ready_queue) /\ ready_queue # <<>>
  BY DEF TypeOK, QueuesMatchStatus, CpuInv
<1>2. /\ next' \in Procs /\ ready_queue' \in Seq(Procs)
      /\ Distinct(ready_queue') /\ Member(next', ready_queue)
      /\ \A p \in Procs : Member(p, ready_queue')
                             <=> Member(p, ready_queue) /\ p # next'
  BY <1>1, PopFacts
<1>3. TypeOK'
  BY <1>2 DEF TypeOK, Locations
<1>4. QueuesMatchStatus'
  <2> SUFFICES ASSUME NEW q \in Procs
               PROVE  /\ Member(q, ready_queue')
                            <=> status[q] = "Ready" /\ next' # q
                      /\ running_queue[q] = IF status[q] = "Running" THEN 1 ELSE 0
                      /\ blocking_queue[q] = IF status[q] = "Blocking" THEN 1 ELSE 0
    BY <1>2 DEF QueuesMatchStatus, InHand
  <2> QED
    BY <1>2 DEF QueuesMatchStatus, InHand
<1>5. status[next'] = "Ready"
  BY <1>2 DEF QueuesMatchStatus
<1>6. NoFatal' /\ CpuInv' /\ MemoryInv'
  BY <1>2, <1>5 DEF NoFatal, CpuInv, MemoryInv, OnCpu
<1>7. ClockInv' /\ GetsInv'
  BY DEF ClockInv, GetsInv, Clocks
<1> QED
  BY <1>3, <1>4, <1>6, <1>7

(* The process in hand becomes the running one. *)
LEMMA AdmitInv == ASSUME KernelInv, Admit PROVE KernelInv'
<1> USE KernelConstants DEF KernelConstants, KernelInv, Admit, At,
        memory, gets
<1>1. next \in Procs /\ status[next] = "Ready" /\ running_queue[next] = 0
  BY DEF CpuInv, QueuesMatchStatus
<1>2. /\ status' \in [Procs -> {"Unborn", "Ready", "Running", "Blocking"}]
      /\ status'[next] = "Running"
      /\ \A q \in Procs : q # next => status'[q] = status[q]
  BY <1>1 DEF TypeOK
<1>3. /\ running_queue' \in [Procs -> Nat] /\ running_queue'[next] = 1
      /\ \A q \in Procs : q # next => running_queue'[q] = running_queue[q]
  BY <1>1 DEF TypeOK, push_back
<1>4. TypeOK'
  BY <1>1, <1>2, <1>3 DEF TypeOK, Locations
<1>5. QueuesMatchStatus'
  <2> SUFFICES ASSUME NEW q \in Procs
               PROVE  /\ Member(q, ready_queue) <=> status'[q] = "Ready"
                      /\ running_queue'[q] = IF status'[q] = "Running" THEN 1 ELSE 0
                      /\ blocking_queue[q] = IF status'[q] = "Blocking" THEN 1 ELSE 0
    BY DEF QueuesMatchStatus, InHand
  <2>1. CASE q = next
    BY <2>1, <1>1, <1>2, <1>3 DEF QueuesMatchStatus, InHand
  <2>2. CASE q # next
    BY <2>2, <1>2, <1>3 DEF QueuesMatchStatus, InHand
  <2> QED
    BY <2>1, <2>2
<1>6. NoFatal' /\ CpuInv' /\ MemoryInv'
  BY <1>1, <1>2 DEF NoFatal, CpuInv, MemoryInv, OnCpu
<1>7. ClockInv'
  BY <1>1, <1>2, ClockFacts DEF ClockInv, Clocks, Clock
<1>8. GetsInv'
  BY <1>1, <1>2 DEF GetsInv, Clocks
<1> QED
  BY <1>4, <1>5, <1>6, <1>7, <1>8

(* What gets and sleep share. *)
LEMMA BlockCurrentFacts ==
    ASSUME KernelInv, BlockCurrent
    PROVE  /\ CURRENT_PROCESS \in Procs /\ status[CURRENT_PROCESS] = "Running"
           /\ status' \in [Procs -> {"Unborn", "Ready", "Running", "Blocking"}]
           /\ status'[CURRENT_PROCESS] = "Blocking"
           /\ \A q \in Procs : q # CURRENT_PROCESS => status'[q] = status[q]
           /\ running_queue' \in [Procs -> Nat] /\ blocking_queue' \in [Procs -> Nat]
           /\ context' \in [Procs -> {"user", "kernel"}]
           /\ QueuesMatchStatus' /\ NoFatal' /\ CpuInv' /\ MemoryInv'
           /\ pc' = "restored" /\ fatal' = FALSE
<1> USE KernelConstants DEF KernelConstants, KernelInv, BlockCurrent, At
<1> DEFINE c == CURRENT_PROCESS
<1>1. /\ c \in Procs /\ c = next /\ status[c] = "Running"
      /\ running_queue[c] = 1 /\ blocking_queue[c] = 0
      /\ Current_control_flow = "Process_thread"
      /\ Kernel_proc = kernel_dir
  BY DEF CpuInv, OnCpu, QueuesMatchStatus, MemoryInv
<1>2. /\ status' \in [Procs -> {"Unborn", "Ready", "Running", "Blocking"}]
      /\ status'[c] = "Blocking"
      /\ \A q \in Procs : q # c => status'[q] = status[q]
  BY <1>1 DEF TypeOK
<1>3. /\ running_queue' \in [Procs -> Nat] /\ running_queue'[c] = 0
      /\ \A q \in Procs : q # c => running_queue'[q] = running_queue[q]
  BY <1>1 DEF TypeOK, remove
<1>4. /\ blocking_queue' \in [Procs -> Nat] /\ blocking_queue'[c] = 1
      /\ \A q \in Procs : q # c => blocking_queue'[q] = blocking_queue[q]
  BY <1>1 DEF TypeOK, push_back
<1>5. contains(running_queue, c)
  BY <1>1 DEF contains
<1>6. fatal' = FALSE
  BY <1>1, <1>5
<1>7. context' \in [Procs -> {"user", "kernel"}]
  BY <1>1 DEF TypeOK, SaveContext
<1>8. QueuesMatchStatus'
  <2> SUFFICES ASSUME NEW q \in Procs
               PROVE  /\ Member(q, ready_queue) <=> status'[q] = "Ready"
                      /\ running_queue'[q] = IF status'[q] = "Running" THEN 1 ELSE 0
                      /\ blocking_queue'[q] = IF status'[q] = "Blocking" THEN 1 ELSE 0
    BY DEF QueuesMatchStatus, InHand, RestoreKernel
  <2>1. CASE q = c
    BY <2>1, <1>1, <1>2, <1>3, <1>4 DEF QueuesMatchStatus, InHand
  <2>2. CASE q # c
    BY <2>2, <1>2, <1>3, <1>4 DEF QueuesMatchStatus, InHand
  <2> QED
    BY <2>1, <2>2
<1>9. CpuInv'
  BY <1>1, <1>2 DEF CpuInv, OnCpu, RestoreKernel
<1>10. MemoryInv' /\ NoFatal' /\ pc' = "restored"
  BY <1>1, <1>6 DEF MemoryInv, NoFatal, RestoreKernel
<1> QED
  BY <1>1, <1>2, <1>3, <1>4, <1>6, <1>7, <1>8, <1>9, <1>10

(* gets: the caller had no clock, and its request replaces any other. *)
LEMMA SysGetsInv == ASSUME KernelInv, NEW size \in GetsArgs, SysGets(size)
                    PROVE  KernelInv'
<1> USE KernelConstants DEF KernelConstants, KernelInv, SysGets
<1> DEFINE c == CURRENT_PROCESS
<1>1. /\ c \in Procs /\ status[c] = "Running"
      /\ status' \in [Procs -> {"Unborn", "Ready", "Running", "Blocking"}]
      /\ status'[c] = "Blocking"
      /\ \A q \in Procs : q # c => status'[q] = status[q]
      /\ running_queue' \in [Procs -> Nat] /\ blocking_queue' \in [Procs -> Nat]
      /\ context' \in [Procs -> {"user", "kernel"}]
      /\ QueuesMatchStatus' /\ NoFatal' /\ CpuInv' /\ MemoryInv'
      /\ pc' = "restored" /\ fatal' = FALSE
  BY BlockCurrentFacts
<1>2. \A i \in Clocks : /\ waiting_sleep_queue[i].process \in Procs
                        /\ waiting_sleep_queue[i].process # c
  BY <1>1, ClockFacts DEF ClockInv, Clock
<1>3. TypeOK'
  <2>1. stored' \in [Procs -> Nat] /\ size \in Nat
    OBVIOUS
  <2> QED
    BY <1>1, <2>1 DEF TypeOK, Locations, BlockCurrent, RestoreKernel,
                      copy_process_mapping
<1>4. ClockInv'
  BY <1>1, <1>2 DEF ClockInv, Clocks
<1>5. GetsInv'
  BY <1>1, <1>2 DEF GetsInv, Clocks
<1> QED
  BY <1>1, <1>3, <1>4, <1>5

(* sleep: the caller had neither a clock nor a request. *)
LEMMA SysSleepInv == ASSUME KernelInv, NEW seconds \in SleepArgs, SysSleep(seconds)
                     PROVE  KernelInv'
<1> USE KernelConstants DEF KernelConstants, KernelInv, SysSleep, gets
<1> DEFINE c == CURRENT_PROCESS
           clock == [count_down |-> TICKS_PER_SECOND * seconds,
                     process |-> c]
           w == waiting_sleep_queue
<1>1. /\ c \in Procs /\ status[c] = "Running"
      /\ status' \in [Procs -> {"Unborn", "Ready", "Running", "Blocking"}]
      /\ status'[c] = "Blocking"
      /\ \A q \in Procs : q # c => status'[q] = status[q]
      /\ running_queue' \in [Procs -> Nat] /\ blocking_queue' \in [Procs -> Nat]
      /\ context' \in [Procs -> {"user", "kernel"}]
      /\ QueuesMatchStatus' /\ NoFatal' /\ CpuInv' /\ MemoryInv'
      /\ pc' = "restored" /\ fatal' = FALSE
  BY BlockCurrentFacts
<1>2. /\ \A i \in Clocks : w[i].process \in Procs /\ w[i].process # c
      /\ Len(w) \in Nat /\ Clocks = 1 .. Len(w)
  BY <1>1, ClockFacts DEF ClockInv, Clock
<1>3. clock \in Clock
  <2>1. TICKS_PER_SECOND * seconds \in Nat
    <3>1. TICKS_PER_SECOND \in Nat /\ seconds \in Nat
      OBVIOUS
    <3>2. \A a, b \in Nat : a * b \in Nat
      OBVIOUS
    <3> QED
      BY <3>1, <3>2
  <2> QED
    BY <1>1, <2>1 DEF Clock
<1>4. w \in Seq(Clock)
  BY DEF TypeOK
<1> HIDE DEF clock
<1>5. /\ w' \in Seq(Clock) /\ Len(w') = Len(w) + 1
      /\ \A i \in 1 .. Len(w) : w'[i] = w[i]
      /\ w'[Len(w) + 1] = clock
  <2>1. w' = Append(w, clock)
    BY DEF clock
  <2> QED
    BY <1>3, <1>4, <2>1, AppendProperties
<1>6. Clocks' = 1 .. Len(w) + 1
  BY <1>2, <1>5, LenProperties DEF Clocks
<1>7. clock.process = c
  BY DEF clock
<1>8. \A i \in Clocks' : i \in Clocks \/ i = Len(w) + 1
  BY <1>2, <1>6
<1>9. TypeOK'
  BY <1>1, <1>5 DEF TypeOK, Locations, BlockCurrent, RestoreKernel
<1>10. ClockInv'
  <2>1. \A i \in Clocks' : status'[w'[i].process] = "Blocking"
    BY <1>1, <1>2, <1>5, <1>7, <1>8 DEF ClockInv
  <2>2. ASSUME NEW i \in Clocks', NEW j \in Clocks',
               w'[i].process = w'[j].process
        PROVE  i = j
    BY <2>2, <1>2, <1>5, <1>7, <1>8 DEF ClockInv
  <2> QED
    BY <2>1, <2>2 DEF ClockInv
<1>11. GetsInv'
  <2>1. gets_enabled => process_waiting_gets \in Procs /\ process_waiting_gets # c
    BY <1>1 DEF GetsInv
  <2>2. gets_enabled => \A i \in Clocks' : w'[i].process # process_waiting_gets
    BY <1>2, <1>5, <1>7, <1>8, <2>1 DEF GetsInv
  <2> QED
    BY <1>1, <2>1, <2>2 DEF GetsInv
<1> QED
  BY <1>1, <1>9, <1>10, <1>11

(* What every tick does to the clocks and the blocking queue. *)
LEMMA TickFacts ==
    ASSUME KernelInv, NEW g \in InOrder(Kept), Tick(g)
    PROVE  /\ waiting_sleep_queue' \in Seq(Clock)
           /\ blocking_queue' \in [Procs -> Nat]
           /\ ~WakeFails
           /\ \A p \in Procs : blocking_queue'[p] = blocking_queue[p] - Wakes(p)
           /\ \A i \in Clocks' :
                 /\ g[i] \in Kept
                 /\ waiting_sleep_queue'[i].process
                       = waiting_sleep_queue[g[i]].process
                 /\ waiting_sleep_queue'[i].process \in Procs
                 /\ status[waiting_sleep_queue'[i].process] = "Blocking"
                 /\ Wakes(waiting_sleep_queue'[i].process) = 0
           /\ \A i, j \in Clocks' :
                 waiting_sleep_queue'[i].process = waiting_sleep_queue'[j].process
                    => i = j
<1> USE DEF KernelInv
<1> DEFINE w == waiting_sleep_queue
<1>1. w' = Ticked(g)
  BY DEF Tick
<1>2. /\ Ticked(g) \in Seq(Clock)
      /\ DOMAIN Ticked(g) = DOMAIN g
      /\ \A i \in DOMAIN g : /\ g[i] \in Kept
                             /\ Ticked(g)[i].process = w[g[i]].process
      /\ \A i, j \in DOMAIN g : g[i] = g[j] => i = j
  BY TickedFacts
<1>3. Clocks' = DOMAIN g
  BY <1>1, <1>2 DEF Clocks
<1>4. \A p \in Procs : Wakes(p) \in {0, 1} /\ Wakes(p) <= blocking_queue[p]
  BY WakesFacts DEF QueuesMatchStatus
<1>4a. \A p \in Procs : blocking_queue[p] \in Nat
  BY DEF TypeOK
<1>5. ~WakeFails
  <2> SUFFICES ASSUME NEW p \in Procs, Wakes(p) > blocking_queue[p] PROVE FALSE
    BY DEF WakeFails
  <2>1. /\ Wakes(p) \in {0, 1} /\ Wakes(p) <= blocking_queue[p]
        /\ blocking_queue[p] \in Nat
    BY <1>4, <1>4a
  <2> HIDE DEF KernelInv
  <2> QED
    BY <2>1
<1>6. \A p \in Procs : blocking_queue'[p] = blocking_queue[p] - Wakes(p)
  BY <1>4 DEF Tick
<1>7. blocking_queue' \in [Procs -> Nat]
  <2>1. ASSUME NEW p \in Procs PROVE blocking_queue[p] - Wakes(p) \in Nat
    <3>1. /\ Wakes(p) \in {0, 1} /\ Wakes(p) <= blocking_queue[p]
          /\ blocking_queue[p] \in Nat
      BY <1>4, <1>4a
    <3> QED
      BY <3>1
  <2>2. blocking_queue' = [p \in Procs |-> blocking_queue[p] - Wakes(p)]
    BY <1>4 DEF Tick
  <2> QED
    BY <2>1, <2>2
<1>8. ASSUME NEW i \in Clocks'
      PROVE  /\ g[i] \in Kept /\ w'[i].process = w[g[i]].process
             /\ w'[i].process \in Procs
             /\ status[w'[i].process] = "Blocking"
             /\ Wakes(w'[i].process) = 0
  <2>1. g[i] \in Kept /\ w'[i].process = w[g[i]].process
    BY <1>1, <1>2, <1>3, <1>8
  <2>2. /\ g[i] \in Clocks /\ w[g[i]].count_down > 1
        /\ w[g[i]] \in Clock
    BY <2>1, ClockFacts DEF Kept
  <2> DEFINE p == w[g[i]].process
  <2>3. p \in Procs /\ status[p] = "Blocking"
    BY <2>2 DEF Clock, ClockInv
  <2>4. ~\E j \in Expiring : w[j].process = p
    <3> SUFFICES ASSUME NEW j \in Expiring, w[j].process = p PROVE FALSE
      OBVIOUS
    <3>1. j \in Clocks /\ w[j].count_down = 1
      BY DEF Expiring
    <3>2. j = g[i]
      BY <2>2, <3>1 DEF ClockInv
    <3> QED
      BY <2>2, <3>1, <3>2
  <2>5. Wakes(p) = 0
    BY <2>3, <2>4, WakesFacts
  <2> QED
    BY <2>1, <2>3, <2>5
<1>9. ASSUME NEW i \in Clocks', NEW j \in Clocks', w'[i].process = w'[j].process
      PROVE  i = j
  <2>1. g[i] \in Clocks /\ g[j] \in Clocks /\ w[g[i]].process = w[g[j]].process
    BY <1>8, <1>9 DEF Kept
  <2>2. g[i] = g[j]
    BY <2>1 DEF ClockInv
  <2> QED
    BY <1>2, <1>3, <2>2
<1> QED
  BY <1>1, <1>2, <1>5, <1>6, <1>7, <1>8, <1>9

(* The effect of a tick on the statuses, and on the ready queue before the *)
(* interrupted process, if any, is put back.                               *)
LEMMA TickStatus ==
    ASSUME KernelInv, NEW f \in InOrder(Expiring)
    PROVE  /\ StatusAfterTick \in [Procs -> {"Unborn", "Ready", "Running", "Blocking"}]
           /\ \A p \in Procs :
                 /\ Wakes(p) = 0 \/ (Wakes(p) = 1 /\ status[p] = "Blocking")
                 /\ Wakes(p) = 1 => StatusAfterTick[p] = "Ready"
                 /\ Wakes(p) = 0 => StatusAfterTick[p] = status[p]
           /\ Enqueue(ready_queue, Woken(f)) \in Seq(Procs)
           /\ Distinct(Enqueue(ready_queue, Woken(f)))
           /\ \A p \in Procs : Member(p, Enqueue(ready_queue, Woken(f)))
                                  <=> Member(p, ready_queue) \/ Wakes(p) = 1
<1> USE DEF KernelInv
<1>1. \A p \in Procs : Wakes(p) = 0 \/ (Wakes(p) = 1 /\ status[p] = "Blocking")
  BY WakesFacts
<1>2. \A p \in Procs : /\ Wakes(p) = 1 => StatusAfterTick[p] = "Ready"
                       /\ Wakes(p) = 0 => StatusAfterTick[p] = status[p]
  BY DEF StatusAfterTick
<1>3. StatusAfterTick \in [Procs -> {"Unborn", "Ready", "Running", "Blocking"}]
  BY DEF StatusAfterTick, TypeOK
<1>4. /\ Woken(f) \in Seq(Procs) /\ Distinct(Woken(f))
      /\ \A p \in Procs : Member(p, Woken(f)) <=> Wakes(p) = 1
  BY WokenFacts
<1>5. ready_queue \in Seq(Procs) /\ Distinct(ready_queue)
  BY DEF TypeOK, QueuesMatchStatus
<1>6. \A p \in Procs : ~(Member(p, ready_queue) /\ Member(p, Woken(f)))
  BY <1>1, <1>4 DEF QueuesMatchStatus
<1>7. /\ Enqueue(ready_queue, Woken(f)) \in Seq(Procs)
      /\ Distinct(Enqueue(ready_queue, Woken(f)))
      /\ \A p \in Procs : Member(p, Enqueue(ready_queue, Woken(f)))
                             <=> Member(p, ready_queue) \/ Member(p, Woken(f))
  BY <1>4, <1>5, <1>6, EnqueueMany
<1> QED
  BY <1>1, <1>2, <1>3, <1>4, <1>7

(* A tick that interrupts the kernel thread. *)
LEMMA TimerInKernelInv ==
    ASSUME KernelInv, NEW f \in InOrder(Expiring), NEW g \in InOrder(Kept),
           TimerInKernel(f, g)
    PROVE  KernelInv'
<1> USE KernelConstants DEF KernelConstants, KernelInv, TimerInKernel, flow, gets
<1> DEFINE w == waiting_sleep_queue
<1>1. /\ w' \in Seq(Clock) /\ blocking_queue' \in [Procs -> Nat] /\ ~WakeFails
      /\ \A p \in Procs : blocking_queue'[p] = blocking_queue[p] - Wakes(p)
      /\ \A i \in Clocks' : /\ g[i] \in Kept /\ w'[i].process = w[g[i]].process
                            /\ w'[i].process \in Procs
                            /\ status[w'[i].process] = "Blocking"
                            /\ Wakes(w'[i].process) = 0
      /\ \A i, j \in Clocks' : w'[i].process = w'[j].process => i = j
  BY TickFacts
<1>2. /\ status' \in [Procs -> {"Unborn", "Ready", "Running", "Blocking"}]
      /\ \A p \in Procs :
            /\ Wakes(p) = 0 \/ (Wakes(p) = 1 /\ status[p] = "Blocking")
            /\ Wakes(p) = 1 => status'[p] = "Ready"
            /\ Wakes(p) = 0 => status'[p] = status[p]
      /\ ready_queue' \in Seq(Procs) /\ Distinct(ready_queue')
      /\ \A p \in Procs : Member(p, ready_queue')
                             <=> Member(p, ready_queue) \/ Wakes(p) = 1
  BY TickStatus
<1>3. /\ Interruptible /\ Count_down' \in Nat
      /\ UNCHANGED <<user_entry, gets>>
  BY DEF Tick, TypeOK
<1>3a. torn' \in BOOLEAN
  BY DEF Tears, TypeOK
<1>4. /\ pc' \in Locations /\ (pc = "hlt" => pc' = "test")
      /\ (pc # "hlt" => pc' = pc)
  BY DEF Resume, TypeOK, Locations
<1>5. TypeOK'
  <2>1. fatal' = FALSE
    <3>1. fatal' = WakeFails /\ ~WakeFails
      BY <1>1
    <3> HIDE DEF KernelInv, TimerInKernel
    <3> QED
      BY <3>1 DEF WakeFails
  <2> QED
    BY <1>1, <1>2, <1>3, <1>3a, <1>4, <2>1 DEF TypeOK
<1>6. QueuesMatchStatus'
  <2> SUFFICES ASSUME NEW p \in Procs
               PROVE  /\ Member(p, ready_queue')
                            <=> (status'[p] = "Ready" /\ ~InHand(p)')
                      /\ running_queue[p] = IF status'[p] = "Running" THEN 1 ELSE 0
                      /\ blocking_queue'[p] = IF status'[p] = "Blocking" THEN 1 ELSE 0
    BY <1>2 DEF QueuesMatchStatus
  <2>1. InHand(p)' <=> InHand(p)
    BY <1>4 DEF InHand
  <2>2. InHand(p) => status[p] = "Ready"
    BY DEF InHand, CpuInv
  <2>3. /\ Member(p, ready_queue) <=> (status[p] = "Ready" /\ ~InHand(p))
        /\ running_queue[p] = IF status[p] = "Running" THEN 1 ELSE 0
        /\ blocking_queue[p] = IF status[p] = "Blocking" THEN 1 ELSE 0
    BY DEF QueuesMatchStatus
  <2>4. CASE Wakes(p) = 1
    <3>1. status[p] = "Blocking" /\ status'[p] = "Ready"
      BY <1>2, <2>4
    <3>2. Member(p, ready_queue') /\ blocking_queue'[p] = blocking_queue[p] - 1
      BY <1>1, <1>2, <2>4
    <3> QED
      BY <2>1, <2>2, <2>3, <3>1, <3>2
  <2>5. CASE Wakes(p) = 0
    <3>1. status'[p] = status[p] /\ blocking_queue'[p] = blocking_queue[p] - 0
      BY <1>1, <1>2, <2>5
    <3>2. Member(p, ready_queue') <=> Member(p, ready_queue)
      BY <1>2, <2>5
    <3> QED
      BY <2>1, <2>3, <3>1, <3>2
  <2> QED
    BY <1>2, <2>4, <2>5
<1>7. NoFatal' /\ MemoryInv'
  BY <1>1, <1>4 DEF NoFatal, MemoryInv
<1>8. CpuInv'
  <2>1. pc = "pop" => ready_queue' # <<>>
    <3> SUFFICES ASSUME pc = "pop" PROVE ready_queue' # <<>>
      OBVIOUS
    <3>1. ready_queue # <<>> /\ ready_queue \in Seq(Procs) /\ Distinct(ready_queue)
      BY DEF CpuInv, TypeOK, QueuesMatchStatus
    <3>2. PICK p \in Procs : Member(p, ready_queue)
      BY <3>1, PopFacts
    <3>3. Member(p, ready_queue')
      BY <1>2, <3>2
    <3>4. ~Member(p, <<>>)
      BY DEF Member
    <3> QED
      BY <3>3, <3>4
  <2>2. \A p \in Procs : status[p] \in {"Ready", "Running"} => status'[p] = status[p]
    BY <1>2
  <2>3. \A p \in Procs : status'[p] = "Running" => status[p] = "Running"
    BY <1>2
  <2> QED
    BY <1>4, <2>1, <2>2, <2>3 DEF CpuInv, OnCpu
<1>9. ClockInv'
  BY <1>1, <1>2 DEF ClockInv
<1>10. GetsInv'
  <2>1. gets_enabled =>
          /\ process_waiting_gets \in Procs
          /\ Wakes(process_waiting_gets) = 0
    BY WakesFacts DEF GetsInv, Expiring
  <2>2. gets_enabled => \A i \in Clocks' : w'[i].process # process_waiting_gets
    BY <1>1 DEF GetsInv, Kept
  <2> QED
    BY <1>2, <1>3, <2>1, <2>2 DEF GetsInv
<1> QED
  BY <1>5, <1>6, <1>7, <1>8, <1>9, <1>10

(* A tick that takes the CPU from a process, or from the scheduler in the  *)
(* window before its iret.                                                 *)
LEMMA TimerInProcessInv ==
    ASSUME KernelInv, NEW f \in InOrder(Expiring), NEW g \in InOrder(Kept),
           TimerInProcess(f, g)
    PROVE  KernelInv'
<1> USE KernelConstants DEF KernelConstants, KernelInv, TimerInProcess,
                            RestoreKernel, gets
<1> DEFINE w == waiting_sleep_queue
           c == CURRENT_PROCESS
           r == Enqueue(ready_queue, Woken(f))
<1>1. /\ w' \in Seq(Clock) /\ blocking_queue' \in [Procs -> Nat] /\ ~WakeFails
      /\ \A p \in Procs : blocking_queue'[p] = blocking_queue[p] - Wakes(p)
      /\ \A i \in Clocks' : /\ g[i] \in Kept /\ w'[i].process = w[g[i]].process
                            /\ w'[i].process \in Procs
                            /\ status[w'[i].process] = "Blocking"
                            /\ Wakes(w'[i].process) = 0
      /\ \A i, j \in Clocks' : w'[i].process = w'[j].process => i = j
  BY TickFacts
<1>2. /\ StatusAfterTick \in [Procs -> {"Unborn", "Ready", "Running", "Blocking"}]
      /\ \A p \in Procs :
            /\ Wakes(p) = 0 \/ (Wakes(p) = 1 /\ status[p] = "Blocking")
            /\ Wakes(p) = 1 => StatusAfterTick[p] = "Ready"
            /\ Wakes(p) = 0 => StatusAfterTick[p] = status[p]
      /\ r \in Seq(Procs) /\ Distinct(r)
      /\ \A p \in Procs : Member(p, r) <=> Member(p, ready_queue) \/ Wakes(p) = 1
  BY TickStatus
<1>3. /\ Interruptible /\ Count_down' \in Nat
      /\ UNCHANGED <<user_entry, gets>>
  BY DEF Tick, TypeOK
<1>4. /\ pc \in {"window", "user"} /\ c \in Procs /\ c = next
      /\ status[c] = "Running" /\ running_queue[c] = 1
      /\ Kernel_proc = kernel_dir
      /\ \A p \in Procs : p # c => status[p] # "Running"
  BY <1>3 DEF CpuInv, OnCpu, QueuesMatchStatus, MemoryInv, Interruptible
<1>5. Wakes(c) = 0 /\ ~Member(c, r)
  <2>1. Wakes(c) = 0
    BY <1>2, <1>4
  <2>2. ~Member(c, ready_queue)
    BY <1>4 DEF QueuesMatchStatus
  <2> QED
    BY <1>2, <1>4, <2>1, <2>2
<1>6. /\ ready_queue' \in Seq(Procs) /\ Distinct(ready_queue')
      /\ \A p \in Procs : Member(p, ready_queue') <=> Member(p, r) \/ p = c
  <2>1. ready_queue' = Enqueue(r, <<c>>)
    OBVIOUS
  <2>2. r \in Seq(Procs) /\ Distinct(r) /\ ~Member(c, r) /\ c \in Procs
    BY <1>2, <1>4, <1>5
  <2> HIDE DEF r, c, KernelInv, TimerInProcess
  <2>3. /\ Enqueue(r, <<c>>) \in Seq(Procs) /\ Distinct(Enqueue(r, <<c>>))
        /\ \A p \in Procs : Member(p, Enqueue(r, <<c>>)) <=> Member(p, r) \/ p = c
    BY <2>2, EnqueueOne
  <2> QED
    BY <2>1, <2>3
<1>7. /\ status' \in [Procs -> {"Unborn", "Ready", "Running", "Blocking"}]
      /\ status'[c] = "Ready"
      /\ \A p \in Procs : p # c => status'[p] = StatusAfterTick[p]
  <2>1. status' = [StatusAfterTick EXCEPT ![c] = "Ready"]
    OBVIOUS
  <2> QED
    BY <1>2, <1>4, <2>1
<1>8. /\ running_queue' \in [Procs -> Nat] /\ running_queue'[c] = 0
      /\ \A q \in Procs : q # c => running_queue'[q] = running_queue[q]
  BY <1>4 DEF TypeOK, remove
<1>9. context' \in [Procs -> {"user", "kernel"}]
  BY <1>4 DEF TypeOK, SaveContext
<1>10. fatal' = FALSE
  <2>1. fatal' = (WakeFails \/ ~contains(running_queue, c)) /\ ~WakeFails
    BY <1>1
  <2>2. contains(running_queue, c)
    BY <1>4 DEF contains
  <2> HIDE DEF KernelInv, TimerInProcess
  <2> QED
    BY <2>1, <2>2
<1>11. TypeOK'
  BY <1>1, <1>3, <1>4, <1>6, <1>7, <1>8, <1>9, <1>10 DEF TypeOK, Locations
<1>12. QueuesMatchStatus'
  <2> SUFFICES ASSUME NEW p \in Procs
               PROVE  /\ Member(p, ready_queue') <=> status'[p] = "Ready"
                      /\ running_queue'[p] = IF status'[p] = "Running" THEN 1 ELSE 0
                      /\ blocking_queue'[p] = IF status'[p] = "Blocking" THEN 1 ELSE 0
    BY <1>6 DEF QueuesMatchStatus, InHand
  <2>1. /\ Member(p, ready_queue) <=> status[p] = "Ready"
        /\ running_queue[p] = IF status[p] = "Running" THEN 1 ELSE 0
        /\ blocking_queue[p] = IF status[p] = "Blocking" THEN 1 ELSE 0
    BY <1>4 DEF QueuesMatchStatus, InHand
  <2>2. CASE p = c
    <3>1. blocking_queue'[p] = blocking_queue[p] - 0
      BY <1>1, <1>5, <2>2
    <3> QED
      BY <1>4, <1>6, <1>7, <1>8, <2>1, <2>2, <3>1
  <2>3. CASE p # c /\ Wakes(p) = 1
    <3>1. status[p] = "Blocking" /\ status'[p] = "Ready"
      BY <1>2, <1>7, <2>3
    <3>2. Member(p, ready_queue')
      BY <1>2, <1>6, <2>3
    <3>3. blocking_queue'[p] = blocking_queue[p] - 1
      BY <1>1, <2>3
    <3> QED
      BY <1>8, <2>1, <2>3, <3>1, <3>2, <3>3
  <2>4. CASE p # c /\ Wakes(p) = 0
    <3>1. status'[p] = status[p] /\ blocking_queue'[p] = blocking_queue[p] - 0
      BY <1>1, <1>2, <1>7, <2>4
    <3>2. Member(p, ready_queue') <=> Member(p, ready_queue)
      BY <1>2, <1>6, <2>4
    <3> QED
      BY <1>8, <2>1, <2>4, <3>1, <3>2
  <2> QED
    BY <1>2, <2>2, <2>3, <2>4
<1>13. NoFatal' /\ MemoryInv'
  BY <1>4, <1>10 DEF NoFatal, MemoryInv
<1>14. \A p \in Procs : status'[p] # "Running"
  BY <1>2, <1>4, <1>7
<1>15. CpuInv'
  BY <1>14 DEF CpuInv, OnCpu
<1>16. ClockInv'
  BY <1>1, <1>2, <1>4, <1>7, ZenonT(40) DEF ClockInv
<1>17. GetsInv'
  <2>1. gets_enabled =>
          /\ process_waiting_gets \in Procs /\ process_waiting_gets # c
          /\ Wakes(process_waiting_gets) = 0
    BY <1>4, WakesFacts DEF GetsInv, Expiring
  <2>2. gets_enabled => \A i \in Clocks' : w'[i].process # process_waiting_gets
    BY <1>1 DEF GetsInv, Kept
  <2> QED
    BY <1>2, <1>3, <1>7, <2>1, <2>2 DEF GetsInv
<1> QED
  BY <1>11, <1>12, <1>13, <1>15, <1>16, <1>17

(* The keyboard handler resumes nobody, or the blocked reader. *)
LEMMA KeyboardInterruptInv ==
    ASSUME KernelInv, NEW is_char \in BOOLEAN, KeyboardInterrupt(is_char)
    PROVE  KernelInv'
<1> USE KernelConstants DEF KernelConstants, KernelInv, flow, memory
<1> DEFINE accepted == gets_enabled /\ is_char
           full == accepted /\ LastChar
           resumed == ~(gets_enabled /\ ~full) /\ gets_count # 0
           p == process_waiting_gets
<1>1. /\ Interruptible
      /\ stored' = IF accepted THEN [stored EXCEPT ![WriteGoesTo] = @ + 1]
                               ELSE stored
      /\ gets_enabled' = (gets_enabled /\ ~full)
      /\ gets_count' = IF resumed THEN 0 ELSE gets_count
      /\ gets_already_count' = IF resumed THEN 0
                               ELSE IF accepted THEN gets_already_count + 1
                               ELSE gets_already_count
      /\ process_waiting_gets' = IF resumed THEN nullptr ELSE p
      /\ blocking_queue' = IF resumed THEN remove(blocking_queue, p)
                                      ELSE blocking_queue
      /\ ready_queue' = IF resumed THEN Enqueue(ready_queue, <<p>>)
                                   ELSE ready_queue
      /\ status' = IF resumed THEN [status EXCEPT ![p] = "Ready"] ELSE status
      /\ fatal' = (resumed /\ ~contains(blocking_queue, p))
      /\ pc' = Resume
      /\ Tears(resumed)
      /\ UNCHANGED <<next, running_queue, waiting_sleep_queue, context,
                     flow, memory, Count_down>>
  BY DEF KeyboardInterrupt
<1>2. /\ pc' \in Locations /\ (pc = "hlt" => pc' = "test")
      /\ (pc # "hlt" => pc' = pc)
  BY <1>1 DEF Resume, TypeOK, Locations
<1>3. stored' \in [Procs -> Nat]
  <2>1. stored \in [Procs -> Nat]
    BY DEF TypeOK
  <2>2. ASSUME NEW x PROVE [stored EXCEPT ![x] = @ + 1] \in [Procs -> Nat]
    <3> HIDE DEF KernelInv
    <3>1. [stored EXCEPT ![x] = @ + 1]
            = [p1 \in Procs |-> IF p1 = x THEN stored[x] + 1 ELSE stored[p1]]
      BY <2>1
    <3>2. \A p1 \in Procs : (IF p1 = x THEN stored[x] + 1 ELSE stored[p1]) \in Nat
      BY <2>1
    <3> QED
      BY <3>1, <3>2
  <2> QED
    BY <1>1, <2>1, <2>2
<1>4. /\ gets_enabled' \in BOOLEAN /\ gets_count' \in Nat
      /\ gets_already_count' \in Nat
      /\ process_waiting_gets' \in Procs \cup {nullptr}
  BY <1>1 DEF TypeOK
<1>4a. torn' \in BOOLEAN
  BY <1>1 DEF Tears, TypeOK
<1>5. CASE ~resumed
  <2>1. /\ UNCHANGED <<ready_queue, running_queue, blocking_queue,
                       waiting_sleep_queue, status, context, next,
                       CURRENT_PROCESS, Current_control_flow, Kernel_proc,
                       cr3, user_entry, Count_down, process_waiting_gets,
                       gets_count>>
        /\ fatal' = FALSE
    BY <1>1, <1>5
  <2> HIDE DEF resumed
  <2>2. TypeOK'
    BY <1>2, <1>3, <1>4, <1>4a, <2>1 DEF TypeOK
  <2>3. QueuesMatchStatus'
    BY <1>2, <2>1 DEF QueuesMatchStatus, InHand, Member, Distinct
  <2>4. NoFatal' /\ CpuInv' /\ MemoryInv' /\ ClockInv'
    BY <1>2, <2>1 DEF NoFatal, CpuInv, OnCpu, MemoryInv, ClockInv, Clocks
  <2>5. GetsInv'
    BY <1>1, <1>5, <2>1 DEF GetsInv, Clocks, resumed
  <2> QED
    BY <2>2, <2>3, <2>4, <2>5
<1>6. CASE resumed
  <2>1. /\ p \in Procs /\ status[p] = "Blocking" /\ blocking_queue[p] = 1
        /\ \A i \in Clocks : waiting_sleep_queue[i].process # p
        /\ ~gets_enabled' /\ gets_count' = 0
    BY <1>1, <1>6 DEF GetsInv, QueuesMatchStatus
  <2>2. /\ blocking_queue' = remove(blocking_queue, p)
        /\ ready_queue' = Enqueue(ready_queue, <<p>>)
        /\ status' = [status EXCEPT ![p] = "Ready"]
        /\ fatal' = ~contains(blocking_queue, p)
    BY <1>1, <1>6
  <2> HIDE DEF resumed, full
  <2>3. fatal' = FALSE
    <3>1. contains(blocking_queue, p)
      BY <2>1 DEF contains
    <3> HIDE DEF KernelInv
    <3> QED
      BY <2>2, <3>1, Zenon
  <2>4. /\ ~Member(p, ready_queue)
        /\ ready_queue \in Seq(Procs) /\ Distinct(ready_queue)
    BY <2>1 DEF QueuesMatchStatus, TypeOK
  <2>5. /\ ready_queue' \in Seq(Procs) /\ Distinct(ready_queue')
        /\ \A q \in Procs : Member(q, ready_queue')
                               <=> Member(q, ready_queue) \/ q = p
    BY <2>1, <2>2, <2>4, EnqueueOne
  <2>6. /\ status' \in [Procs -> {"Unborn", "Ready", "Running", "Blocking"}]
        /\ status'[p] = "Ready"
        /\ \A q \in Procs : q # p => status'[q] = status[q]
    BY <2>1, <2>2 DEF TypeOK
  <2>7. /\ blocking_queue' \in [Procs -> Nat] /\ blocking_queue'[p] = 0
        /\ \A q \in Procs : q # p => blocking_queue'[q] = blocking_queue[q]
    BY <2>1, <2>2 DEF TypeOK, remove
  <2>8. TypeOK'
    BY <1>1, <1>2, <1>3, <1>4, <1>4a, <2>3, <2>5, <2>6, <2>7 DEF TypeOK
  <2>9. QueuesMatchStatus'
    <3> SUFFICES ASSUME NEW q \in Procs
                 PROVE  /\ Member(q, ready_queue')
                              <=> (status'[q] = "Ready" /\ ~InHand(q)')
                        /\ running_queue'[q] = IF status'[q] = "Running" THEN 1 ELSE 0
                        /\ blocking_queue'[q] = IF status'[q] = "Blocking" THEN 1 ELSE 0
      BY <2>5 DEF QueuesMatchStatus
    <3>1. InHand(q)' <=> InHand(q)
      BY <1>1, <1>2 DEF InHand
    <3>2. InHand(q) => status[q] = "Ready"
      BY DEF InHand, CpuInv
    <3>3. /\ Member(q, ready_queue) <=> (status[q] = "Ready" /\ ~InHand(q))
          /\ running_queue'[q] = IF status[q] = "Running" THEN 1 ELSE 0
          /\ blocking_queue[q] = IF status[q] = "Blocking" THEN 1 ELSE 0
      BY <1>1 DEF QueuesMatchStatus
    <3>4. CASE q = p
      BY <2>1, <2>5, <2>6, <2>7, <3>1, <3>2, <3>3, <3>4
    <3>5. CASE q # p
      BY <2>5, <2>6, <2>7, <3>1, <3>3, <3>5
    <3> QED
      BY <3>4, <3>5
  <2>10. NoFatal' /\ MemoryInv'
    BY <1>1, <1>2, <2>3 DEF NoFatal, MemoryInv
  <2>11. CpuInv'
    <3>1. ready_queue' # <<>>
      <4>1. Member(p, ready_queue') /\ ~Member(p, <<>>)
        BY <2>1, <2>5 DEF Member
      <4> QED
        BY <4>1
    <3>2. \A q \in Procs : status[q] \in {"Ready", "Running"}
                              => status'[q] = status[q]
      BY <2>1, <2>6
    <3>3. \A q \in Procs : status'[q] = "Running" => status[q] = "Running"
      BY <2>6
    <3> QED
      BY <1>1, <1>2, <3>1, <3>2, <3>3 DEF CpuInv, OnCpu
  <2>12. ClockInv'
    <3>1. \A i \in Clocks : waiting_sleep_queue[i].process \in Procs
      BY ClockFacts DEF Clock
    <3> QED
      BY <1>1, <2>1, <2>6, <3>1 DEF ClockInv, Clocks
  <2>13. GetsInv'
    BY <2>1 DEF GetsInv
  <2> QED
    BY <2>8, <2>9, <2>10, <2>11, <2>12, <2>13
<1> QED
  BY <1>5, <1>6

-----------------------------------------------------------------------------
(* KernelInv is inductive. *)
LEMMA NextInv == ASSUME KernelInv, [Next]_vars PROVE KernelInv'
<1>1. CASE KernelStep
  BY <1>1, ExecvInv, EnterSchedularInv, TestReadyInv, PopFrontInv, AdmitInv,
     SwitchToProcessInv, SetProcessFlowInv, IretInv, SchedulerRestoreHereInv,
     UsleepInv, TestCountDownInv DEF KernelStep
<1>2. CASE SystemCall
  BY <1>2, SysStructOrPrintfInv, SysGetsInv, SysSleepInv, RefuseInv
     DEF SystemCall, SysTooLarge, SysUnknown, copy_process_mapping
<1>3. CASE TimerInterrupt
  BY <1>3, TimerInKernelInv, TimerInProcessInv DEF TimerInterrupt
<1>4. CASE Keyboard
  BY <1>4, KeyboardInterruptInv DEF Keyboard
<1>5. CASE UNCHANGED vars
  <2> USE <1>5 DEF vars, scheduler, queues, processes, flow, memory, gets, KernelInv
  <2>1. TypeOK'
    BY SMTT(30) DEF TypeOK
  <2>2. QueuesMatchStatus' /\ NoFatal'
    BY DEF QueuesMatchStatus, InHand, Member, Distinct, NoFatal
  <2>3. CpuInv' /\ MemoryInv'
    BY DEF CpuInv, MemoryInv
  <2>4. ClockInv' /\ GetsInv'
    BY DEF ClockInv, Clocks, GetsInv
  <2> QED
    BY <2>1, <2>2, <2>3, <2>4
<1> QED
  BY <1>1, <1>2, <1>3, <1>4, <1>5 DEF Next, Spin

(* Whatever the order of interrupts, system calls and scheduler steps, the *)
(* kernel stays in KernelInv.                                              *)
THEOREM KernelInvariant == Spec => []KernelInv
<1>1. Init => KernelInv
  BY InitInv
<1>2. KernelInv /\ [Next]_vars => KernelInv'
  BY NextInv
<1> QED
  BY <1>1, <1>2, PTL DEF Spec

(* The kernel's variables keep their types. *)
THEOREM TypeCorrect == Spec => []TypeOK
<1>1. KernelInv => TypeOK
  BY DEF KernelInv
<1> QED
  BY <1>1, KernelInvariant, PTL

(* Every process is always in the one queue its status names: the queue    *)
(* moves of schedular, the handlers and the system calls lose and          *)
(* duplicate nobody.                                                       *)
THEOREM NobodyLost == Spec => []QueuesMatchStatus
<1>1. KernelInv => QueuesMatchStatus
  BY DEF KernelInv
<1> QED
  BY <1>1, KernelInvariant, PTL

(* The fatal calls in LinkedList::remove and in the source check of gets   *)
(* and sleep are never reached, for any number of processes and any        *)
(* arguments.  Those for a size above 4 MB and for an unknown id are: they *)
(* stop the kernel in "refused", and the queues match then too.            *)
THEOREM NeverFatal == Spec => []NoFatal
<1>1. KernelInv => NoFatal
  BY DEF KernelInv
<1> QED
  BY <1>1, KernelInvariant, PTL

(* A process runs in its own address space and the scheduler in the        *)
(* kernel's.                                                               *)
THEOREM OwnAddressSpace == Spec => []AddressSpaces
<1>1. KernelInv => AddressSpaces
  BY DEF KernelInv, AddressSpaces, CpuInv, OnCpu, MemoryInv
<1> QED
  BY <1>1, KernelInvariant, PTL

(* A process that execv built stays built. *)
LEMMA StartedStays == ASSUME KernelInv, [Next]_vars, Alone' PROVE Alone
<1> SUFFICES ASSUME NEW p \in Procs, status[p] # "Unborn" PROVE status'[p] # "Unborn"
  BY DEF Alone
<1> USE DEF KernelInv
<1>1. status \in [Procs -> {"Unborn", "Ready", "Running", "Blocking"}]
  BY DEF TypeOK
<1>2. CASE KernelStep
  BY <1>1, <1>2 DEF KernelStep, Execv, EnterSchedular, TestReady, PopFront, Admit,
     SwitchToProcess, SetProcessFlow, Iret, SchedulerRestoreHere, Usleep,
     TestCountDown, processes
<1>3. CASE SystemCall
  BY <1>1, <1>3 DEF SystemCall, SysStructOrPrintf, SysGets, SysSleep,
     SysTooLarge, SysUnknown, Refuse, BlockCurrent, processes
<1>4. CASE TimerInterrupt
  <2>1. /\ StatusAfterTick[p] # "Unborn"
        /\ StatusAfterTick \in [Procs -> {"Unborn", "Ready", "Running", "Blocking"}]
    <3> HIDE DEF KernelInv
    <3> QED
      BY <1>1, Zenon DEF StatusAfterTick
  <2>2. \/ status' = StatusAfterTick
        \/ status' = [StatusAfterTick EXCEPT ![CURRENT_PROCESS] = "Ready"]
    <3>1. PICK f \in InOrder(Expiring), g \in InOrder(Kept) :
             TimerInKernel(f, g) \/ TimerInProcess(f, g)
      BY <1>4 DEF TimerInterrupt
    <3> QED
      BY <3>1, Zenon DEF TimerInKernel, TimerInProcess
  <2> QED
    BY <2>1, <2>2
<1>5. CASE Keyboard
  BY <1>1, <1>5 DEF Keyboard, KeyboardInterrupt
<1>6. CASE UNCHANGED vars
  BY <1>6 DEF vars, processes
<1> QED
  BY <1>2, <1>3, <1>4, <1>5, <1>6 DEF Next, Spin

(* With one program alone no handler ever meets the scheduler inside a     *)
(* list operation: it is in the ready queue then, so it neither sleeps nor *)
(* waits for characters.                                                   *)
THEOREM AloneNeverTorn == Spec => []NotTornAlone
<1>1. Init => NotTornAlone
  BY DEF Init, NotTornAlone
<1>2. ASSUME KernelInv, InsideList
      PROVE  \E p \in Procs : status[p] = "Ready"
  <2> USE <1>2 DEF KernelInv, InsideList
  <2>1. CASE pc = "admit"
    BY <2>1 DEF CpuInv
  <2>2. CASE pc = "pop"
    <3>1. ready_queue # <<>> /\ ready_queue \in Seq(Procs) /\ Distinct(ready_queue)
      BY <2>2 DEF CpuInv, TypeOK, QueuesMatchStatus
    <3>2. Head(ready_queue) \in Procs /\ Member(Head(ready_queue), ready_queue)
      BY <3>1, PopFacts
    <3> QED
      BY <3>2 DEF QueuesMatchStatus
  <2> QED
    BY <2>1, <2>2
<1>3. ASSUME KernelInv, InsideList, Alone
      PROVE  Kept = Clocks /\ gets_count = 0 /\ ~gets_enabled
  <2>1. PICK p \in Procs : status[p] = "Ready"
    BY <1>2, <1>3
  <2>2. \A q \in Procs : status[q] # "Blocking"
    BY <1>3, <2>1 DEF Alone
  <2>3. Clocks = {}
    <3>1. \A i \in Clocks : waiting_sleep_queue[i].process \in Procs
      BY <1>3, ClockFacts DEF KernelInv, Clock
    <3> QED
      BY <1>3, <2>2, <3>1 DEF KernelInv, ClockInv
  <2>4. ~gets_enabled
    BY <1>3, <2>2 DEF KernelInv, GetsInv
  <2> QED
    BY <1>3, <2>3, <2>4 DEF Kept, KernelInv, GetsInv
<1>4. KernelInv /\ NotTornAlone /\ [Next]_vars => NotTornAlone'
  <2> SUFFICES ASSUME KernelInv, NotTornAlone, [Next]_vars, Alone' PROVE ~torn'
    BY DEF NotTornAlone
  <2>0. Alone /\ ~torn
    BY StartedStays DEF NotTornAlone
  <2>1. CASE KernelStep
    BY <2>0, <2>1 DEF KernelStep, Execv, EnterSchedular, TestReady, PopFront, Admit,
       SwitchToProcess, SetProcessFlow, Iret, SchedulerRestoreHere, Usleep,
       TestCountDown
  <2>2. CASE SystemCall
    BY <2>0, <2>2 DEF SystemCall, SysStructOrPrintf, SysGets, SysSleep,
       SysTooLarge, SysUnknown, Refuse, BlockCurrent
  <2>3. CASE TimerInterrupt
    <3>1. Tears(Kept # Clocks) \/ UNCHANGED torn
      BY <2>3 DEF TimerInterrupt, TimerInKernel, TimerInProcess
    <3> QED
      BY <1>3, <2>0, <3>1 DEF Tears
  <2>4. CASE Keyboard
    <3>1. PICK is_char \in BOOLEAN : KeyboardInterrupt(is_char)
      BY <2>4 DEF Keyboard
    <3>2. CASE InsideList
      BY <1>3, <2>0, <3>1, <3>2 DEF KeyboardInterrupt, Tears
    <3>3. CASE ~InsideList
      BY <2>0, <3>1, <3>3 DEF KeyboardInterrupt, Tears
    <3> QED
      BY <3>2, <3>3
  <2>5. CASE UNCHANGED vars
    BY <2>0, <2>5 DEF vars
  <2> QED
    BY <2>1, <2>2, <2>3, <2>4, <2>5 DEF Next, Spin
<1> QED
  BY <1>1, <1>4, KernelInvariant, PTL DEF Spec

-----------------------------------------------------------------------------
(* The kernel implements ProcessLifecycle.                                 *)

(* A tick makes ready the processes it wakes and the one it interrupts. *)
LEMMA TimerLifecycle ==
    ASSUME KernelInv, TimerInterrupt
    PROVE  \E S \in SUBSET Procs : Lifecycle!MakeReady(S)
<1> USE DEF KernelInv
<1>1. PICK f \in InOrder(Expiring), g \in InOrder(Kept) :
         TimerInKernel(f, g) \/ TimerInProcess(f, g)
  BY DEF TimerInterrupt
<1>2. /\ StatusAfterTick \in [Procs -> {"Unborn", "Ready", "Running", "Blocking"}]
      /\ \A p \in Procs : /\ Wakes(p) = 0 \/ (Wakes(p) = 1 /\ status[p] = "Blocking")
                          /\ Wakes(p) = 1 => StatusAfterTick[p] = "Ready"
                          /\ Wakes(p) = 0 => StatusAfterTick[p] = status[p]
  BY TickStatus
<1> DEFINE W == {p \in Procs : Wakes(p) = 1}
<1>3. CASE TimerInKernel(f, g)
  <2>1. W \subseteq Lifecycle!With("Running") \cup Lifecycle!With("Blocking")
    BY <1>2 DEF Lifecycle!With
  <2>2. status' = [p \in Procs |-> IF p \in W THEN "Ready" ELSE status[p]]
    BY <1>2, <1>3 DEF TimerInKernel
  <2> QED
    BY <2>1, <2>2 DEF Lifecycle!MakeReady
<1>4. CASE TimerInProcess(f, g)
  <2> DEFINE S == W \cup {CURRENT_PROCESS}
  <2>1. CURRENT_PROCESS \in Procs /\ status[CURRENT_PROCESS] = "Running"
    BY <1>4 DEF TimerInProcess, Tick, Interruptible, CpuInv, OnCpu
  <2>2. S \subseteq Lifecycle!With("Running") \cup Lifecycle!With("Blocking")
    BY <1>2, <2>1 DEF Lifecycle!With
  <2>3. status' = [StatusAfterTick EXCEPT ![CURRENT_PROCESS] = "Ready"]
    BY <1>4 DEF TimerInProcess
  <2>4. status' = [p \in Procs |-> IF p \in S THEN "Ready" ELSE status[p]]
    BY <1>2, <2>1, <2>3
  <2> QED
    BY <2>1, <2>2, <2>4 DEF Lifecycle!MakeReady
<1> QED
  BY <1>1, <1>3, <1>4

(* The keyboard handler makes ready the reader it resumes. *)
LEMMA KeyboardLifecycle ==
    ASSUME KernelInv, NEW is_char \in BOOLEAN, KeyboardInterrupt(is_char)
    PROVE  \/ \E S \in SUBSET Procs : Lifecycle!MakeReady(S)
           \/ UNCHANGED status
<1> USE DEF KernelInv
<1> DEFINE p == process_waiting_gets
<1>1. CASE status' = status
  BY <1>1
<1>2. CASE status' # status
  <2>1. /\ status' = [status EXCEPT ![p] = "Ready"] /\ gets_count # 0
    BY <1>2 DEF KeyboardInterrupt
  <2>2. p \in Procs /\ status[p] = "Blocking"
    BY <2>1 DEF GetsInv, TypeOK
  <2>3. {p} \subseteq Lifecycle!With("Running") \cup Lifecycle!With("Blocking")
    BY <2>2 DEF Lifecycle!With
  <2>4. status' = [q \in Procs |-> IF q \in {p} THEN "Ready" ELSE status[q]]
    BY <2>1, <2>2 DEF TypeOK
  <2> QED
    BY <2>2, <2>3, <2>4 DEF Lifecycle!MakeReady
<1> QED
  BY <1>1, <1>2

(* Every behaviour of the kernel is one of ProcessLifecycle. *)
THEOREM RefinesLifecycle == Spec => ImplementsLifecycle
<1>1. Init => Lifecycle!Init
  BY DEF Init, Lifecycle!Init
<1>2. KernelInv /\ [Next]_vars => [Lifecycle!Next]_status
  <2> SUFFICES ASSUME KernelInv, [Next]_vars PROVE Lifecycle!Next \/ UNCHANGED status
    OBVIOUS
  <2>1. ASSUME NEW p \in Procs, Execv(p) PROVE Lifecycle!Next
    BY <2>1 DEF Execv, Lifecycle!Next, Lifecycle!Start
  <2>2. ASSUME Admit PROVE Lifecycle!Next
    <3>1. next \in Procs /\ status[next] = "Ready" /\ Lifecycle!With("Running") = {}
      BY <2>2 DEF Admit, At, KernelInv, CpuInv, OnCpu, Lifecycle!With
    <3> QED
      BY <2>2, <3>1 DEF Admit, Lifecycle!Next, Lifecycle!Dispatch
  <2>3. ASSUME BlockCurrent PROVE Lifecycle!Next
    <3>1. CURRENT_PROCESS \in Procs /\ status[CURRENT_PROCESS] = "Running"
      BY <2>3, BlockCurrentFacts
    <3> QED
      BY <2>3, <3>1 DEF BlockCurrent, Lifecycle!Next, Lifecycle!Block
  <2>4. CASE KernelStep
    BY <2>4, <2>1, <2>2 DEF KernelStep, EnterSchedular, TestReady, PopFront,
       SwitchToProcess, SetProcessFlow, Iret, SchedulerRestoreHere, Usleep,
       TestCountDown, processes
  <2>5. CASE SystemCall
    BY <2>5, <2>3 DEF SystemCall, SysStructOrPrintf, SysGets, SysSleep,
       SysTooLarge, SysUnknown, Refuse, processes
  <2>6. CASE TimerInterrupt
    BY <2>6, TimerLifecycle DEF Lifecycle!Next
  <2>7. CASE Keyboard
    BY <2>7, KeyboardLifecycle DEF Keyboard, Lifecycle!Next
  <2>8. CASE UNCHANGED vars
    BY <2>8 DEF vars, processes
  <2> QED
    BY <2>4, <2>5, <2>6, <2>7, <2>8 DEF Next, Spin
<1> QED
  BY <1>1, <1>2, KernelInvariant, PTL DEF Spec, ImplementsLifecycle, Lifecycle!Spec
=============================================================================
