SPECIFICATION Spec
CONSTANTS
    Paths <- MCPaths
    MAX_FILE = 2
    EPS = 2
    MAX_METADATA = 3
    Lfn <- MCLfn
    FatVolumes <- NoVolumes
    ExFatVolumes <- EntryUpdates
    LookupFails = FALSE
    Idle = Idle
PROPERTY FailedWriteKeeps
CHECK_DEADLOCK FALSE
