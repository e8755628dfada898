CONSTANTS
    BITS_PER_BLOCK = 8
    INT_BITS = 4
    PAGE_SIZE = 4
    LOW_MEMORY = 32
    WINDOW = 3
    MemMaps <- MCMemMaps
    RamWords <- MCRamWords
    Sizes <- MCSizes
SPECIFICATION Spec
INVARIANTS
    NoDoubleAllocation
    LowMemoryReserved
    OnlyUsableAllocated
    CountersExact
PROPERTIES
    FirstFit
    StaysInBitmap
    SearchEnds
