SPECIFICATION Spec
CONSTANTS
    KBD_QUEUE_SIZE = 3
    KeySets <- MCKeySets
    MAX_WIRE = 2
    KeySituations = {}
    MOUSE_QUEUE_SIZE = 2
    FirstBytes = {9, 72}
    Deltas = {8, 247}
    ATTEMPTS = 3
    GLYPH = 2
    GAP = 1
    BS_BUF_SIZE = 4
    BS_MAX_PIXELS = 63
    Screens = {"BS1", "BS3"}
    Displays <- MCDisplays
    DEVICES = 2
    FUNCTIONS = 2
    MAX_PCI_DEVICES = 6
    Machines <- MCMachines
    IrqThreads = {t1, t2, t3}
    TEXT_SIZE = 5
    INT_BITS = 8
    HEX_DIGITS = 2
    TEMP_SIZE = 4
    Formats <- MCFormats
    Capacities = {0, 1, 2, 4, 8, 12}
    STDIO_FD_MAX = 6
    StreamBlocks = {b1, b2}
    MAX_FILE = 2
    Counts = {0, 1, 2}
INVARIANTS
    InputKept Resyncs Ps2Sound ScreenSound EachFoundOnce InterruptsGetThrough TextSound StdioSound
PROPERTY Ps2InitEnds
CHECK_DEADLOCK FALSE
