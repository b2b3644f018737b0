SPECIFICATION Spec
CONSTANTS
    Procs = {p1, p2}
    Readers = {p1}
    SleepArgs = {1}
    GetsArgs = {1, 2}
    CopyArgs = {2, 3}
    COPY_LIMIT = 2
    TICKS_PER_SECOND = 2
    USLEEP_TICKS = 1
    MAX_TYPED = 3
    nullptr = nullptr
    kernel_dir = kernel_dir
    p2 = p2
    p1 = p1
INVARIANTS GetsDelivered
