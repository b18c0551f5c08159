SPECIFICATION FairSpec
CONSTANTS
    Cpus <- MCCpus
    BootCpu = 0
    NoCpu <- MCNoCpu
    CpuCount = 2
    INBOX_CAPACITY = 1
    BatchSize = 1
    MaxSleep = 1
    MaxId = 4
    Entries = {"reaper", "kernel"}
    Calls = {"sleep", "yield", "exit"}
    Watched = {4}
PROPERTY
    WatchedReadyRuns
    WatchedSleeperWakes
    WatchedExitedReaped
