----------------------------- MODULE LinkedList -----------------------------
(***************************************************************************)
(* LinkedList<T> (linked_list.h), node by node: the walks of remove,       *)
(* locate, for_each and filter, and the steps of pop_front.  Handlers use  *)
(* the lists with interrupts off.  schedular calls ready_queue.pop_front   *)
(* with interrupts on, and a handler may push_back on that queue between   *)
(* any two of its steps: INTERRUPTS says whether this happens.             *)
(*                                                                         *)
(* malloc and free are one step each (MemoryManagement.tla has them).      *)
(***************************************************************************)
EXTENDS Integers, FiniteSets

CONSTANTS
    Nodes,        \* addresses malloc can return: bounds the length
    Items,        \* values of T
    Filters,      \* predicates given to filter and locate, as sets
    Funcs,        \* functions given to for_each
    head,         \* the address of the member head
    nullptr,
    INTERRUPTS    \* push_back may interrupt pop_front

ASSUME ListConstants ==
    /\ IsFiniteSet(Nodes) /\ head \notin Nodes /\ nullptr \notin Nodes
    /\ head # nullptr /\ INTERRUPTS \in BOOLEAN
    /\ Filters \subseteq SUBSET Items /\ Funcs \subseteq [Items -> Items]

VARIABLES
    next,         \* Node::next
    data,         \* Node::data
    tail,
    allocated,    \* nodes that malloc gave and free did not take back
    pc,           \* the operation in progress and where it is
    want, func,   \* its argument: the items it looks for, or the function
    prev, cur,    \* its local pointers; cur is pop_front's p
    loaded,       \* the value of p->next on its way to head.next
    tmp,          \* the value pop_front is about to return
    result,       \* the last value returned
    fatal,
    before        \* auxiliary: the list when the operation started

args == <<want, func>>
vars == <<next, data, tail, allocated, pc, args, prev, cur, loaded, tmp,
          result, fatal, before>>

-----------------------------------------------------------------------------
(* The nodes from head on, and the values they hold. *)
Nth[k \in 0 .. Cardinality(Nodes) + 1] ==
    IF k = 0 THEN head
    ELSE IF Nth[k - 1] = nullptr THEN nullptr ELSE next[Nth[k - 1]]

Positions == {k \in 1 .. Cardinality(Nodes) : Nth[k] # nullptr}
Linked == {Nth[k] : k \in Positions}
Contents == [k \in Positions |-> data[Nth[k]]]

Init ==
    /\ next = [n \in Nodes \cup {head} |-> nullptr]
    /\ data \in [Nodes -> Items]
    /\ \A m, n \in Nodes : data[m] = data[n]   \* what free memory holds is never read
    /\ tail = head
    /\ allocated = {}
    /\ pc = "idle" /\ want = {} /\ func \in Funcs /\ prev = head /\ cur = nullptr
    /\ loaded = nullptr
    /\ tmp \in Items /\ result = tmp /\ fatal = FALSE
    /\ before = <<>>

Idle == pc = "idle" /\ ~fatal
In(step) == pc = step /\ ~fatal

-----------------------------------------------------------------------------
(* insert, which push_back is: the node goes behind tail. *)
Link(n, e) ==
    /\ data' = [data EXCEPT ![n] = e]
    /\ next' = [next EXCEPT ![n] = nullptr, ![tail] = n]
    /\ tail' = n

push_back(n, e) ==
    /\ Idle \/ (INTERRUPTS /\ pc \in {"pop_load", "pop_store", "pop_tail", "pop_free"})
    /\ n \in Nodes \ allocated
    /\ Link(n, e)
    /\ allocated' = allocated \cup {n}
    /\ UNCHANGED <<pc, args, prev, cur, loaded, tmp, result, fatal, before>>

-----------------------------------------------------------------------------
(* pop_front *)
PopStart ==
    /\ Idle
    /\ before' = Contents
    /\ IF next[head] = nullptr
         THEN fatal' = TRUE /\ UNCHANGED <<pc, cur, tmp>>
         ELSE /\ pc' = "pop_load" /\ cur' = next[head]
              /\ tmp' = data[next[head]] /\ UNCHANGED fatal
    /\ want' = Items
    /\ UNCHANGED <<next, data, tail, allocated, func, prev, loaded, result>>

(* head.next = p->next is a load and a store. *)
PopLoad ==
    /\ In("pop_load")
    /\ loaded' = next[cur]
    /\ pc' = "pop_store"
    /\ UNCHANGED <<next, data, tail, allocated, args, prev, cur, tmp, result, fatal,
                   before>>

PopStore ==
    /\ In("pop_store")
    /\ next' = [next EXCEPT ![head] = loaded]
    /\ pc' = "pop_tail"
    /\ UNCHANGED <<data, tail, allocated, args, prev, cur, loaded, tmp, result,
                   fatal, before>>

TailKept(from) == tail   \* fault: tail is left at the node that goes

(* if (tail == cur) tail = prev, here and in remove and filter. *)
TailAfter(from) == IF tail = cur THEN from ELSE tail

PopTail ==
    /\ In("pop_tail")
    /\ tail' = TailAfter(head)
    /\ pc' = "pop_free"
    /\ UNCHANGED <<next, data, allocated, args, prev, cur, loaded, tmp, result,
                   fatal, before>>

PopFree ==
    /\ In("pop_free")
    /\ allocated' = allocated \ {cur}
    /\ result' = tmp
    /\ pc' = "idle"
    /\ UNCHANGED <<next, data, tail, args, prev, cur, loaded, tmp, fatal,
                   before>>

-----------------------------------------------------------------------------
(* The walks: each visits cur, and goes on until it is null. *)
StartWalk(op, K, f) ==
    /\ Idle
    /\ pc' = op /\ want' = K /\ func' = f
    /\ prev' = head /\ cur' = next[head]
    /\ before' = Contents
    /\ UNCHANGED <<next, data, tail, allocated, loaded, tmp, result, fatal>>

(* Fault: the node is not freed. *)
UnlinkOnly ==
    /\ next' = [next EXCEPT ![prev] = next[cur]]
    /\ tail' = TailAfter(prev)
    /\ UNCHANGED allocated

Unlink ==
    /\ next' = [next EXCEPT ![prev] = next[cur]]
    /\ allocated' = allocated \ {cur}
    /\ tail' = TailAfter(prev)

(* Fault: a node is passed over. *)
AdvanceTwice == /\ prev' = cur
                /\ cur' = IF next[cur] = nullptr THEN nullptr ELSE next[next[cur]]

Advance == prev' = cur /\ cur' = next[cur]

(* Faults: prev moves to the next node as well; cur does not move. *)
PrevMoves == prev' = next[cur] /\ cur' = next[cur]
CurStays == UNCHANGED <<prev, cur>>

(* filter, after a node is taken out: prev stays, cur is the next one. *)
StayAt == prev' = prev /\ cur' = next[cur]

(* remove stops at the first match; running off the end is fatal. *)
RemoveStep ==
    /\ In("remove")
    /\ IF cur = nullptr
         THEN /\ fatal' = TRUE
              /\ UNCHANGED <<next, tail, allocated, prev, cur, pc>>
         ELSE /\ IF data[cur] \in want
                   THEN Unlink /\ pc' = "idle" /\ UNCHANGED <<prev, cur>>
                   ELSE Advance /\ UNCHANGED <<next, tail, allocated, pc>>
              /\ UNCHANGED fatal
    /\ UNCHANGED <<data, args, loaded, tmp, result, before>>

LocateStep ==
    /\ In("locate")
    /\ IF cur = nullptr
         THEN fatal' = TRUE /\ UNCHANGED <<prev, cur, pc, result>>
         ELSE /\ IF data[cur] \in want
                   THEN result' = data[cur] /\ pc' = "idle" /\ UNCHANGED <<prev, cur>>
                   ELSE Advance /\ UNCHANGED <<result, pc>>
              /\ UNCHANGED fatal
    /\ UNCHANGED <<next, data, tail, allocated, args, loaded, tmp, before>>

ForEachStep ==
    /\ In("for_each")
    /\ IF cur = nullptr
         THEN pc' = "idle" /\ UNCHANGED <<data, prev, cur>>
         ELSE data' = [data EXCEPT ![cur] = func[@]] /\ Advance /\ UNCHANGED pc
    /\ UNCHANGED <<next, tail, allocated, args, loaded, tmp, result, fatal, before>>

FilterStep ==
    /\ In("filter")
    /\ IF cur = nullptr
         THEN pc' = "idle" /\ UNCHANGED <<next, tail, allocated, prev, cur>>
         ELSE /\ IF data[cur] \in want
                   THEN Advance /\ UNCHANGED <<next, tail, allocated>>
                   ELSE Unlink /\ StayAt
              /\ UNCHANGED pc
    /\ UNCHANGED <<data, args, loaded, tmp, result, fatal, before>>

-----------------------------------------------------------------------------
Spin == fatal /\ UNCHANGED vars

Pop == PopStart \/ PopLoad \/ PopStore \/ PopTail \/ PopFree

Next ==
    \/ \E n \in Nodes, e \in Items : push_back(n, e)
    \/ Pop
    \/ \E e \in Items : StartWalk("remove", {e}, func)
    \/ \E K \in Filters : StartWalk("locate", K, func) \/ StartWalk("filter", K, func)
    \/ \E f \in Funcs : StartWalk("for_each", {}, f)
    \/ RemoveStep \/ LocateStep \/ ForEachStep \/ FilterStep
    \/ Spin

(* Every operation that was started goes on; nobody has to start one. *)
Spec == /\ Init /\ [][Next]_vars
        /\ WF_vars(Pop /\ pc # "idle")
        /\ WF_vars(RemoveStep \/ LocateStep \/ ForEachStep \/ FilterStep)

-----------------------------------------------------------------------------
(* What pop_front holds between the unlinking and its free. *)
InHand == IF pc \in {"pop_tail", "pop_free"} THEN {cur} ELSE {}

(* Every allocated node is in the list, so every item that was pushed and  *)
(* not taken out is found by the next walk ("push an item to the last of   *)
(* Queue", linked_list.h:91); and no node of the list has been freed.      *)
NothingStranded == allocated = Linked \cup InHand

(* tail is the last node: the next push_back lands at the end. *)
TailIsLast == pc = "idle" => /\ next[tail] = nullptr
                             /\ tail \in Linked \cup {head}

(* An operation that gives up was asked for an item which is not there:    *)
(* the walks reach every node ("elem not found", linked_list.h:45).        *)
FatalMeansMissing == fatal => \A k \in DOMAIN before : before[k] \notin want

(* Every operation ends, or ends in fatal: no walk meets a cycle. *)
OperationsEnd == pc # "idle" ~> (pc = "idle" \/ fatal)

-----------------------------------------------------------------------------
(* The inductive invariant behind these properties, with interrupts off.   *)
Walks == {"remove", "locate", "for_each", "filter"}
PopSteps == {"pop_load", "pop_store", "pop_tail", "pop_free"}

TypeOK ==
    /\ next \in [Nodes \cup {head} -> Nodes \cup {nullptr}]
    /\ data \in [Nodes -> Items] /\ allocated \subseteq Nodes
    /\ pc \in Walks \cup PopSteps \cup {"idle"}
    /\ func \in Funcs /\ fatal \in BOOLEAN

(* s[0], ..., s[L] are head and the nodes that follow it, each one once. *)
Chain(L, s) ==
    /\ DOMAIN s = 0 .. L /\ s[0] = head
    /\ \A i \in 1 .. L : s[i] \in Nodes
    /\ \A i, j \in 1 .. L : s[i] = s[j] => i = j
    /\ \A i \in 0 .. L - 1 : next[s[i]] = s[i + 1]
    /\ next[s[L]] = nullptr
Members(L, s) == {s[i] : i \in 1 .. L}

(* What a walk has seen: prev is node j, and the items up to there are not *)
(* the ones remove and locate look for.                                    *)
Reached(j, L, s) ==
    /\ prev = s[j] /\ cur = next[s[j]]
    /\ pc \in {"remove", "locate"} => \A i \in 1 .. j : data[s[i]] \notin want

(* Where the operation in progress is in the list. *)
Progress(L, s) ==
    /\ pc \in Walks => \E j \in 0 .. L : Reached(j, L, s)
    /\ pc \in {"remove", "locate"} => before = [k \in 1 .. L |-> data[s[k]]]
    /\ pc \in {"pop_load", "pop_store"} => L >= 1 /\ cur = s[1]
    /\ pc = "pop_store" => loaded = next[cur]

Ends(L, s) == IF pc = "pop_tail" /\ tail = cur THEN L = 0 ELSE tail = s[L]

Holds(L, s) ==
    /\ allocated = Members(L, s) \cup InHand
    /\ pc \in {"pop_tail", "pop_free"} => cur \in Nodes \ Members(L, s)

ListInv ==
    /\ TypeOK /\ FatalMeansMissing
    /\ \E L \in 0 .. Cardinality(Nodes) : \E s \in [0 .. L -> Nodes \cup {head}] :
          Chain(L, s) /\ Ends(L, s) /\ Holds(L, s) /\ Progress(L, s)
=============================================================================
