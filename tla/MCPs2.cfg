CONSTANTS
    Keys <- MCKeys
    Stray <- MCStray
    BUFFER = 2
    None = None
SPECIFICATION Spec
INVARIANTS
    PrintsWhatWasTyped
    NoStuckModifier
    BytesKept
