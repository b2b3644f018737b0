SPECIFICATION Spec
CONSTANTS
    n1 = n1
    n2 = n2
    n3 = n3
    Nodes = {n1, n2, n3}
    head = head
    nullptr = nullptr
    INTERRUPTS = TRUE
    MAX_ITEM = 1
    Items <- MCItems
    Filters <- MCFilters
    Funcs <- MCFuncs
INVARIANT NothingStranded
