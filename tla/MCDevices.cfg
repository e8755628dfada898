CONSTANTS
    MAX_KEYS = 3
    Firmwares <- MCFirmwares
    ROOM = 1
    LONG_BYTES = 3
    None = 0
    NUM_OF_IRQ = 3
    IDT_EXCEPTIONS = 4
    Machines <- MCMachines
    FEMTO = 2
    WORD = 15
    MICRO = 2
    INTERVAL = 6
    RESET_DIVIDER = 2
    DIVIDER = 16
    MAX_INIT_COUNT_VAL = 6
    DELAY = 1
    Sleepers = {"a", "b"}
    Naps = {2, 8}
    LONGEST = 4
    COUNTS = 3
    LBAS = 4
    Lbas = {0, 2, 5}
    Totals <- MCTotals
    MAX_CALLS = 3
    cpu_count = 4
SPECIFICATION MCSpec
INVARIANTS
    InterruptsHandled
    TablesRead
    SectorsExact
    AllCheckedIn
    CountExact
PROPERTIES
    LinesRouted
    TimeKept
    WaitsEnd
CHECK_DEADLOCK FALSE
