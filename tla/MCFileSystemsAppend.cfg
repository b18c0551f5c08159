SPECIFICATION Spec
CONSTANTS
    Paths <- MCPaths
    MAX_FILE = 2
    EPS = 2
    MAX_METADATA = 3
    Lfn <- MCLfn
    FatVolumes <- NoVolumes
    ExFatVolumes <- AppendVolumes
    LookupFails = TRUE
    Idle = Idle
PROPERTY AppendKeeps
CHECK_DEADLOCK FALSE
