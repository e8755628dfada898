CONSTANTS
    Callers = {1}
    BITS_PER_BLOCK = 4
    INT_BITS = 2
    BLOCK_SIZE = 2
    LONG_BYTES = 2
    HEAP_WORDS = 2
    WINDOW = 4
    RamWords <- MCRamWords
    HeapAddrs = {64}
    Sizes = {1, 3, 5, 9}
    MAX_INTERRUPTS = 1
SPECIFICATION Spec
INVARIANTS
    ResultsDisjoint
    HeapBounded
PROPERTIES
    MallocReturns
