-------------------------------- MODULE Heap --------------------------------
(***************************************************************************)
(* What malloc and free promise their callers: the blocks in use lie in    *)
(* the arena and no two of them share a byte.                              *)
(***************************************************************************)
EXTENDS Integers

CONSTANTS arena_start, arena_end
VARIABLE live   \* blocks in use, as [start, end]; empty blocks do not count

Range(b) == b.start .. b.end - 1

Init == live = {}

Malloc == \E start, end \in arena_start..arena_end :
             LET b == [start |-> start, end |-> end] IN
             /\ start < end
             /\ \A c \in live : Range(b) \cap Range(c) = {}
             /\ live' = live \cup {b}

Free == \E b \in live : live' = live \ {b}

Next == Malloc \/ Free

Spec == Init /\ [][Next]_live
=============================================================================
