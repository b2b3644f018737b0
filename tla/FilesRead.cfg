SPECIFICATION Spec
CONSTANTS
    LBA_LOW = 16
    LBA_HIGH = 2
    SECTOR = 2
    FAT_ENTRIES = 4
    DIR_SLOTS = 8
    LFN_CHARS = 2
    NAME_SIZE = 18
    ORDERS = 8
    Characters = {"a", "b", "c", "d", "e", "f", "g", "s", "x", "z", "."}
    NUL = NUL
    Junk = Junk
    EOC = 99
    Volumes <- SomeVolumes
    Paths <- SomePaths
    MAX_ERRORS = 1
    Garbage <- SomeGarbage
    Behind <- SomeBehind
    OtherEntries <- SomeEntries
    StaleGeometry <- SomeGeometry
    StaleNumbers = {0, 2, 5, 99}
INVARIANTS FoundIfThere ReadExactly FitsBuffer
PROPERTIES ReadEnds
