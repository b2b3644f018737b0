SPECIFICATION Spec
CONSTANTS
    Procs <- ThreeProcesses
    kernel_dir <- Kernel
    DIR_ENTRIES = 6
    TABLE_ENTRIES = 16
    KERNEL_FIRST = 48
    FREE_FIRST = 52
    FREE_LAST = 64
    TEST_PAGE = 32
    NONE = NONE
    PAGE_SIZE = 2
    Programs <- SomePrograms
    STACK_PAGES = {30, 31}
    GDT_SIZE = 9
    FaultPages = {1, 31}
    CopyStarts = {1, 31}
INVARIANTS TypeOK PagesHaveOneUse LoadedExactly Runnable AllocatedMapped LostOnlyBeyondRegion
PROPERTIES OnlySharedTablesChange
