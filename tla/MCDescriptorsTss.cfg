CONSTANTS
    Stray = Stray
    Tsses <- Addresses
SPECIFICATION Spec
INVARIANTS
    TssSelected
CHECK_DEADLOCK FALSE
