SPECIFICATION Spec
CONSTANTS
    Sizes = {1}
    ALIGN = 2
    WORD = 32
    free_memory_start = 4
    free_memory_length = 8
    table_length = 3
    allocated_table_length = 5
INVARIANTS SlotsAreRecycled
