------------------------------- MODULE Queue -------------------------------
(***************************************************************************)
(* What LinkedList<T> promises: a sequence of items, extended at its end,  *)
(* shortened at its front, searched and changed as a whole.  The           *)
(* operations that need an item which is not there end in fatal.           *)
(***************************************************************************)
EXTENDS Sequences, Naturals

S == INSTANCE SequencesExt

CONSTANTS Items, Filters, Funcs
VARIABLES queue, result, fatal

vars == <<queue, result, fatal>>

Where(K) == {i \in DOMAIN queue : queue[i] \in K}

Init == queue = <<>> /\ result \in Items /\ fatal = FALSE

PushBack(e) == /\ queue' = Append(queue, e)
               /\ UNCHANGED <<result, fatal>>

PopFront == /\ queue # <<>>
            /\ result' = Head(queue) /\ queue' = Tail(queue)
            /\ UNCHANGED fatal

RemoveItem(e) == /\ Where({e}) # {}
             /\ queue' = S!RemoveFirst(queue, e)
             /\ UNCHANGED <<result, fatal>>

Locate(K) == /\ \E i \in Where(K) : /\ \A j \in Where(K) : i <= j
                                    /\ result' = queue[i]
             /\ UNCHANGED <<queue, fatal>>

ForEach(f) == /\ queue' = [i \in DOMAIN queue |-> f[queue[i]]]
              /\ UNCHANGED <<result, fatal>>

Filter(K) == /\ queue' = SelectSeq(queue, LAMBDA e : e \in K)
             /\ UNCHANGED <<result, fatal>>

(* An item that is asked for and not there. *)
Fail == /\ \/ queue = <<>>
           \/ \E e \in Items : Where({e}) = {}
           \/ \E K \in Filters : Where(K) = {}
        /\ fatal' = TRUE
        /\ UNCHANGED <<queue, result>>

Next == /\ ~fatal
        /\ \/ \E e \in Items : PushBack(e) \/ RemoveItem(e)
           \/ \E K \in Filters : Locate(K) \/ Filter(K)
           \/ \E f \in Funcs : ForEach(f)
           \/ PopFront
           \/ Fail

Spec == Init /\ [][Next]_vars
=============================================================================
