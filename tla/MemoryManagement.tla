-------------------------- MODULE MemoryManagement --------------------------
(***************************************************************************)
(* malloc and free (memory_management.cpp): two tables of memory blocks,   *)
(* a first match over the free ones, and a merge with the block that       *)
(* follows.  A call that ends in fatal leaves the tables as they were when *)
(* it gave up: the changes made before are part of the step.               *)
(***************************************************************************)
EXTENDS Integers, FiniteSets

CONSTANTS
    Sizes,                   \* arguments of malloc
    ALIGN,                   \* 8
    WORD,                    \* 2^32, the number of values of size_t
    free_memory_start, free_memory_length,
    table_length,            \* 1024
    allocated_table_length   \* 10240

free_memory_end == free_memory_start + free_memory_length

ASSUME HeapConstants ==
    /\ ALIGN \in Nat \ {0} /\ WORD \in Nat \ {0}
    /\ Sizes \subseteq 0 .. WORD - 1
    /\ free_memory_start \in Nat /\ free_memory_length \in Nat
    /\ free_memory_start + free_memory_length < WORD
    /\ table_length \in Nat \ {0} /\ allocated_table_length \in Nat \ {0}

(* 8 divides 2^32: a size_t sum that wraps around keeps its alignment. *)
ASSUME WordIsAligned == WORD % ALIGN = 0

VARIABLES
    Free_blocks, Blocks_count,
    Allocated_blocks, Allocated_blocks_count,
    halted    \* the message of the fatal that stopped the kernel, or "no"

vars == <<Free_blocks, Blocks_count, Allocated_blocks,
          Allocated_blocks_count, halted>>

NoBlock == [start |-> 0, end |-> 0, size |-> 0, is_valid |-> FALSE]
FreeSlots == 0 .. table_length - 1
AllocatedSlots == 0 .. allocated_table_length - 1

WholeArena == [start |-> free_memory_start, end |-> free_memory_end,
               size |-> free_memory_length, is_valid |-> TRUE]

(* The tables as _malloc_array_init, the first thing the first malloc      *)
(* does, leaves them.                                                      *)
Init ==
    /\ Free_blocks = [[i \in FreeSlots |-> NoBlock] EXCEPT ![0] = WholeArena]
    /\ Blocks_count = 1
    /\ Allocated_blocks = [i \in AllocatedSlots |-> NoBlock]
    /\ Allocated_blocks_count = 0
    /\ halted = "no"

-----------------------------------------------------------------------------
Unrounded(size) == size   \* fault: not rounded

(* size_t arithmetic: the sum wraps around. *)
Rounded(size) == IF size % ALIGN = 0 THEN size
                 ELSE (size + (ALIGN - (size % ALIGN))) % WORD

(* Fault: the first block is taken whatever its size. *)
FitsAnything(i, size) == Free_blocks[i].is_valid

Fits(i, size) == Free_blocks[i].is_valid /\ Free_blocks[i].size >= size

FirstMatch(i, size) ==
    /\ i < Blocks_count /\ Fits(i, size)
    /\ \A j \in FreeSlots : j < i => ~Fits(j, size)

(* Fault: the front of the block is given away and kept as well. *)
NotTaken(block, size) == [block EXCEPT !.size = @ - size]

(* What is left of a free block when its front is given away. *)
Taken(block, size) ==
    [start |-> block.start + size, end |-> block.end,
     size |-> block.size - size, is_valid |-> block.is_valid]

(* The free block shrinks before the allocated table is seen to be full.   *)
MallocFrom(i, n) ==
    LET new == [start |-> Free_blocks[i].start,
                end |-> Free_blocks[i].start + n, size |-> n,
                is_valid |-> TRUE]
        room == Allocated_blocks_count # allocated_table_length
    IN  /\ FirstMatch(i, n)
        /\ Free_blocks' = [Free_blocks EXCEPT ![i] = Taken(@, n)]
        /\ Allocated_blocks' =
             [j \in AllocatedSlots |->
                IF j = Allocated_blocks_count THEN new ELSE Allocated_blocks[j]]
        /\ Allocated_blocks_count' =
             IF room THEN Allocated_blocks_count + 1 ELSE Allocated_blocks_count
        /\ halted' = IF room THEN "no" ELSE "allocated_table_full"

(* _malloc_array *)
Malloc(size) ==
    /\ halted = "no"
    /\ \E i \in FreeSlots : MallocFrom(i, Rounded(size))
    /\ UNCHANGED Blocks_count

MallocFails(size) ==
    /\ halted = "no"
    /\ \A i \in FreeSlots : ~FirstMatch(i, Rounded(size))
    /\ halted' = "out_of_free_blocks"
    /\ UNCHANGED <<Free_blocks, Blocks_count, Allocated_blocks,
                   Allocated_blocks_count>>

-----------------------------------------------------------------------------
Holds(i, p) == Allocated_blocks[i].is_valid /\ Allocated_blocks[i].start = p

(* The first entry in use that starts at p. *)
FirstHolder(i, p) == /\ i < Allocated_blocks_count /\ Holds(i, p)
                     /\ \A j \in AllocatedSlots : j < i => ~Holds(j, p)

(* Fault: the block in front is taken for the one behind. *)
MergesBackwards(i, b) == Free_blocks[i].is_valid /\ Free_blocks[i].end = b.start

(* The free block begins where b ends. *)
Merges(i, b) == Free_blocks[i].is_valid /\ b.end = Free_blocks[i].start

FirstMerge(i, b) == /\ i < Blocks_count /\ Merges(i, b)
                    /\ \A j \in FreeSlots : j < i => ~Merges(j, b)

Merged(block, b) == [start |-> b.start, end |-> block.end,
                     size |-> block.size + b.size, is_valid |-> block.is_valid]

MergeInto(i, b) ==
    /\ FirstMerge(i, b)
    /\ Free_blocks' = [Free_blocks EXCEPT ![i] = Merged(@, b)]
    /\ UNCHANGED <<Blocks_count, halted>>

(* Fault: the block is dropped when it cannot be merged. *)
Forget(b) ==
    /\ \A i \in FreeSlots : ~FirstMerge(i, b)
    /\ UNCHANGED <<Free_blocks, Blocks_count, halted>>

(* The block gets an entry of its own, if the table has one left. *)
AddFree(b) ==
    LET room == Blocks_count # table_length
    IN  /\ \A i \in FreeSlots : ~FirstMerge(i, b)
        /\ Free_blocks' = [i \in FreeSlots |->
                             IF i = Blocks_count THEN b ELSE Free_blocks[i]]
        /\ Blocks_count' = IF room THEN Blocks_count + 1 ELSE Blocks_count
        /\ halted' = IF room THEN "no" ELSE "free_table_full"

(* The entry is marked; its slot is not used again. *)
Released(b) == [start |-> b.start, end |-> b.end, size |-> b.size,
                is_valid |-> FALSE]
ReleaseHolder(i) ==
    Allocated_blocks' = [Allocated_blocks EXCEPT ![i] = Released(@)]

(* _free_array *)
Free(p) ==
    /\ halted = "no"
    /\ \E i \in AllocatedSlots :
         /\ FirstHolder(i, p)
         /\ ReleaseHolder(i)
         /\ \/ \E k \in FreeSlots : MergeInto(k, Allocated_blocks[i])
            \/ AddFree(Allocated_blocks[i])
    /\ UNCHANGED Allocated_blocks_count

(* A pointer that is not the start of a block in use. *)
FreeFails(p) ==
    /\ halted = "no"
    /\ \A i \in AllocatedSlots : ~FirstHolder(i, p)
    /\ halted' = "not_allocated"
    /\ UNCHANGED <<Free_blocks, Blocks_count, Allocated_blocks,
                   Allocated_blocks_count>>

-----------------------------------------------------------------------------
Pointers == free_memory_start .. free_memory_end

Spin == halted # "no" /\ UNCHANGED vars

Next ==
    \/ \E size \in Sizes : Malloc(size) \/ MallocFails(size)
    \/ \E p \in Pointers : Free(p) \/ FreeFails(p)
    \/ Spin

Spec == Init /\ [][Next]_vars

-----------------------------------------------------------------------------
Block == [start : 0 .. WORD - 1, end : 0 .. WORD - 1, size : 0 .. WORD - 1,
          is_valid : BOOLEAN]

Messages == {"no", "out_of_free_blocks", "allocated_table_full",
             "free_table_full", "not_allocated"}

(* Fields stay within size_t and the counts within their tables. *)
TypeOK ==
    /\ Free_blocks \in [FreeSlots -> Block]
    /\ Blocks_count \in 0 .. table_length
    /\ Allocated_blocks \in [AllocatedSlots -> Block]
    /\ Allocated_blocks_count \in 0 .. allocated_table_length
    /\ halted \in Messages

Disjoint(b, c) == b.size = 0 \/ c.size = 0 \/ b.end <= c.start \/ c.end <= b.start

(* No byte is handed out twice, is both free and handed out, or is listed  *)
(* as free twice: whatever sequence of malloc and free calls led here.     *)
NoOverlap ==
    /\ \A i, j \in AllocatedSlots :
         i # j /\ Allocated_blocks[i].is_valid /\ Allocated_blocks[j].is_valid
            => Disjoint(Allocated_blocks[i], Allocated_blocks[j])
    /\ \A i, j \in FreeSlots :
         i # j /\ Free_blocks[i].is_valid /\ Free_blocks[j].is_valid
            => Disjoint(Free_blocks[i], Free_blocks[j])
    /\ \A i \in AllocatedSlots, j \in FreeSlots :
         Allocated_blocks[i].is_valid /\ Free_blocks[j].is_valid
            => Disjoint(Allocated_blocks[i], Free_blocks[j])

Within(a, b) == b.is_valid /\ b.start <= a /\ a < b.end

(* No byte of the arena is lost while the kernel runs: free gives back     *)
(* every byte that malloc took, and a split or a merge drops none.         *)
NoLeak ==
    halted = "no" =>
        \A a \in free_memory_start .. free_memory_end - 1 :
            \/ \E i \in AllocatedSlots : Within(a, Allocated_blocks[i])
            \/ \E i \in FreeSlots : Within(a, Free_blocks[i])

(* Every block ever handed out starts on an ALIGN boundary of the arena    *)
(* ("align to 8 bytes", memory_management.cpp:33).                         *)
Aligned == \A i \in AllocatedSlots :
              Allocated_blocks[i].is_valid =>
                 (Allocated_blocks[i].start - free_memory_start) % ALIGN = 0

(* The inductive invariant behind NoOverlap and NoLeak: valid blocks have  *)
(* consistent fields and lie in the arena, and the slots past the counts   *)
(* are unused.                                                             *)
WellFormed(b) == b.is_valid => /\ b.start + b.size = b.end
                               /\ free_memory_start <= b.start
                               /\ b.end <= free_memory_end
HeapInv ==
    /\ TypeOK
    /\ \A i \in FreeSlots : /\ WellFormed(Free_blocks[i])
                            /\ i >= Blocks_count => ~Free_blocks[i].is_valid
    /\ \A i \in AllocatedSlots :
         /\ WellFormed(Allocated_blocks[i])
         /\ i >= Allocated_blocks_count => ~Allocated_blocks[i].is_valid
    /\ NoOverlap
    /\ NoLeak

(* Behind Aligned: free blocks start on a boundary too. *)
OnBoundary(b) == b.is_valid => (b.start - free_memory_start) % ALIGN = 0
BoundaryInv == /\ \A i \in FreeSlots : OnBoundary(Free_blocks[i])
               /\ \A i \in AllocatedSlots : OnBoundary(Allocated_blocks[i])

(* The blocks in use, as their owners see them. *)
InUse == { i \in AllocatedSlots : Allocated_blocks[i].is_valid }
Extent(b) == [start |-> b.start, end |-> b.end]
live == { Extent(Allocated_blocks[i]) :
            i \in {j \in InUse : Allocated_blocks[j].size > 0} }
=============================================================================
