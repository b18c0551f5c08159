SPECIFICATION MemorySpec
CONSTANTS
    Maps <- MCMaps
    MIN_ADDR = 2
    MAX_FRAMES = 8
    META = 1
    PAGE = 4
    MIN_STRIDE = 2
    MAX_STRIDE = 8
    DOMAINS = 2
    MAX_SLABS = 3
    Layouts <- MCLayouts
    START = 4
    INITIAL = 8
    CHUNK = 8
    LIMIT = 28
    FRAMES = 8
    Cpus = {1, 2, 3}
    Reaper = 1
    Samples = {1, 2, 3}
    NoCpu = 0
    Scenarios <- MCScenarios
    USER_PAGE = 2
    USER_BASE = 8
    IMAGE_LIMIT = 24
    USER_END = 32
    MAX_IMAGE = 6
    MAX_ALIGN = 4
    MAX_RELOCS = 2
    MAX_DYNAMIC = 4
    MAX_SEGMENTS = 2
    MAX_FLAT_IMAGE = 4
    STACK_PAGES = 1
    STACK_GAP = 2
    FANOUT = 2
    TOP = 64
    Lens = {0, 1, 2, 3, 5, 24, 25, 40, 63}
    NoFrame = 999
INVARIANTS FramesSound HeapSound FenceSound NoFrameLost LoadedAsLinked CopiesConfined
PROPERTY HandedOutZero
CHECK_DEADLOCK FALSE
