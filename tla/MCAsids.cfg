SPECIFICATION Spec
CONSTANTS
    c1 = c1
    c2 = c2
    Cpus <- MCCpus
    r1 = r1
    r2 = r2
    r3 = r3
    r4 = r4
    Roots <- MCRoots
    NoRoot = NoRoot
    limit = 4
    IdentityTag = 4
    SPACES = 3
    SoftwarePan = TRUE
SYMMETRY Symmetry
INVARIANTS OwnTranslations FreedNotCached LoadedTagKept NeverExhausted
