SPECIFICATION FairSpec
CONSTANTS
    c1 = c1
    c2 = c2
    NoCpu = NoCpu
    Cpus <- TwoCpus
    f1 = f1
    f2 = f2
    f3 = f3
    NoFrame = NoFrame
    Frames <- ThreeFrames
    LIMIT = 2
    PerTable = 3
    Ipi = TRUE
INVARIANTS FreedUnreachable BreakBeforeMake StacksMapped
PROPERTY ReleaseEnds
