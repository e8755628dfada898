CONSTANTS
    Boot = Boot
    t1 = t1
    t2 = t2
    t3 = t3
    Tasks = {Boot, t1, t2, t3}
    QUANTUM = 2
    TCB_BLOCKS = 1
    STACK_BLOCKS = 2
    HeapBlocks = {0, 6, 10}
    NoTask = NoTask
    Wild = Wild
SPECIFICATION Spec
INVARIANTS
    CpuMatchesTaskList
    RingIntact
    StuckOnlyIf
PROPERTIES
    FullQuantum
    NoStarvation
