SPECIFICATION Spec
CONSTANTS
    Sizes = {0, 1, 2, 3, 31}
    ALIGN = 2
    WORD = 32
    free_memory_start = 4
    free_memory_length = 8
    table_length = 3
    allocated_table_length = 5
INVARIANTS TypeOK NoOverlap NoLeak Aligned
PROPERTIES ImplementsHeap
