CONSTANTS
    FAN = 8
    GIGABYTES_4 = 64
    HH = 2048
    TOP = 4064
    physical_base = 1
    Frames <- MCFrames
    Pools <- MCPools
    Rams <- MCRams
    Requests <- MCRequests
    Targets <- MCTargets
    Watched <- MCWatched
    None = None
SPECIFICATION Spec
INVARIANT IdentityMapped
