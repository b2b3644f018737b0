SPECIFICATION Spec
CONSTANTS
    Procs = {p1}
    Readers = {}
    SleepArgs = {1}
    GetsArgs = {1}
    CopyArgs = {2, 3}
    COPY_LIMIT = 2
    TICKS_PER_SECOND = 2
    USLEEP_TICKS = 1
    MAX_TYPED = 3
    nullptr = nullptr
    kernel_dir = kernel_dir
    p1 = p1
INVARIANTS ContextsAreUser
