CONSTANTS
    Keys <- MCOddKeys
    Stray <- MCStray
    BUFFER = 2
    None = None
SPECIFICATION Spec
INVARIANT TableAsCommented
