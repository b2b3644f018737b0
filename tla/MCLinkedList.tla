---------------------------- MODULE MCLinkedList ----------------------------
(***************************************************************************)
(* Instances of LinkedList for TLC, with the clocks of the sleep queue as  *)
(* the items: for_each counts down, filter keeps what still runs.          *)
(***************************************************************************)
EXTENDS LinkedList

CONSTANT MAX_ITEM   \* items are 0 .. MAX_ITEM

MCItems == 0 .. MAX_ITEM
MCFilters == {1 .. MAX_ITEM, 0 .. MAX_ITEM - 1, {0}}
MCFuncs == {[i \in MCItems |-> IF i = 0 THEN 0 ELSE i - 1]}

(* The abstract queue: what the list was until the operation ends. *)
Abstract == INSTANCE Queue
              WITH queue <- IF pc = "idle" THEN Contents ELSE before

(* Used with interrupts off, the list is a queue. *)
ImplementsQueue == Abstract!Spec
=============================================================================
