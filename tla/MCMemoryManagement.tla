------------------------- MODULE MCMemoryManagement -------------------------
(***************************************************************************)
(* Instances of MemoryManagement for TLC.                                  *)
(***************************************************************************)
EXTENDS MemoryManagement

TheHeap == INSTANCE Heap WITH arena_start <- free_memory_start,
                              arena_end <- free_memory_end

(* Seen through the blocks in use, malloc and free are the abstract heap:  *)
(* malloc returns bytes nobody else has, free gives up exactly one block.  *)
ImplementsHeap == TheHeap!Spec

(* "recycle memory" (memory_management.cpp:70): what free takes back can   *)
(* be handed out again, so that the table of allocated blocks is full only *)
(* when that many blocks are in use.                                       *)
SlotsAreRecycled ==
    halted = "allocated_table_full" =>
        Cardinality(InUse) = allocated_table_length
=============================================================================
