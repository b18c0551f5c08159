SPECIFICATION Spec
CONSTANTS
    Cpus <- MCCpus
    BootCpu = 0
    NoCpu <- MCNoCpu
    CpuCount = 2
    INBOX_CAPACITY = 1
    BatchSize = 1
    MaxSleep = 1
    MaxId = 4
    Entries = {"kernel"}
    Calls = {"send", "receive", "try_receive", "reply", "exit"}
    Watched = {}
INVARIANT
    NoSharedStack
    NoLostWakeup
    ReceiverAlive
    ReplyWhenResumed
PROPERTY
    ReplyKept
