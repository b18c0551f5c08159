SPECIFICATION Spec
CONSTANTS
    Cpus <- MCCpus
    BootCpu = 0
    NoCpu <- MCNoCpu
    CpuCount = 2
    INBOX_CAPACITY = 1
    BatchSize = 1
    MaxSleep = 1
    MaxId = 6
    Entries = {"reaper", "user"}
    Calls = {"create", "exit"}
    Watched = {}
INVARIANT
    InUseNotFreed
    NeverUnderReports
PROPERTY
    ExitedStaysOff
