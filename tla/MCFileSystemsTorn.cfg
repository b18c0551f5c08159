SPECIFICATION Spec
CONSTANTS
    Paths <- MCPaths
    MAX_FILE = 2
    EPS = 2
    MAX_METADATA = 3
    Lfn <- MCLfn
    FatVolumes <- GrowingFat12
    ExFatVolumes <- NoVolumes
    LookupFails = FALSE
    Idle = Idle
INVARIANT SpaceSound
CHECK_DEADLOCK FALSE
