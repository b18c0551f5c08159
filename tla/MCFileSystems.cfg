SPECIFICATION Spec
CONSTANTS
    Paths <- MCPaths
    MAX_FILE = 2
    EPS = 2
    MAX_METADATA = 3
    Lfn <- MCLfn
    FatVolumes <- MCFatVolumes
    ExFatVolumes <- MCExFatVolumes
    LookupFails = FALSE
    Idle = Idle
INVARIANTS SpaceSound FatCacheCoherent
PROPERTY ImplementsStore
CHECK_DEADLOCK FALSE
