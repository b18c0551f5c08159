SPECIFICATION PlatformSpec
CONSTANTS
    Parts = {"console"}
    size = 4
    IdxMod = 8
    capacity_sectors = 2
    v1 = v1
    v2 = v2
    Values <- MCValues
    Blank = Blank
    MaxRequests = 10
    RX_BUFFERS = 3
    MaxFrames = 5
    Machines <- MCMachines
    MAX_CPUS = 3
    STACKS = {1, 2, 3}
    Rounds = 1
    Cpus = {0, 1}
    Scenarios <- MCScenarios
    INBOX_CAPACITY = 2
    KILLED_LEN = 3
    QUEUE_SIZE = 2
    MAX_LINE = 2
    FIFO_SIZE = 1
    Keys <- MCKeys
    MaxTyped = 5
    SMP = TRUE
    Samples <- MCSamples
    Fixed = {"0"}
    MaxMix = 2
    MaxFill = 3
INVARIANT CommandsWhole
CHECK_DEADLOCK FALSE
