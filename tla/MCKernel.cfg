SPECIFICATION Spec
CONSTANTS
    HEAP_SIZE = 280
    HEADER = 40
    ALIGN = 8
    SPLIT = 16
    Requests = {0, 5, 24, 60}
    ARENA_SIZE = 200
    BLOCK = 24
    MALLOC_ALIGNMENT = 16
    SIZE_MAX = 255
    Sizes = {0, 2, 17, 40}
    ARENA_PAGES = 7
    PageCounts = {0, 1, 2, 3}
    PAGE_SIZE = 4
    FRAME_RECORD = 1
    HIGH = 32
    MIDDLE = 8
    LOW_FRAMES = 2
    RunLengths = {0, 1, 2, 3}
    MemoryMaps <- MCMemoryMaps
    FRAMES = 13
    Idx = {0, 1}
    Kernel = 1
    UserPages <- MCUserPages
    KernelPages <- MCKernelPages
    PTSpaces = {s1, s2}
    UM_PAGE = 2
    WORD = 32
    LOW = 2
    BRK_START = 4
    MMAP_START = 8
    TOP = 15
    UM_FRAMES = 4
    Hints = {0, 1, 5, 8, 10}
    Lengths = {0, 1, 3, 29, 31}
    Breaks = {0, 3, 6, 7, 16}
    MmapSituations = {}
    ELF_PAGE = 4
    ELF_WORD = 64
    USER_STACK_BASE = 20
    USER_STACK_TOP = 28
    Images <- MCImages
    Threads = {t1, t2, t3}
    NULL = NULL
    SCHED_MAX_THREADS = 3
INVARIANTS
    HeapsSound FramesSound TablesSound RegionsApart LoadedIsImage
PROPERTIES
    HeapsAllocate OnePageAtATime CallsAddOnly ImplementsFifo
CHECK_DEADLOCK FALSE
