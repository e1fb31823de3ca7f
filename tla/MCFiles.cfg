SPECIFICATION MCSpec
CONSTANTS
    Procs = {p1, p2}
    Nodes = {1, 2, 3, 4, 5, 6, 7}
    VFS_MAX_CHILDREN = 3
    VFS_MAX_FILE_SIZE = 3
    FD_MAX = 5
    Handles = {1, 2}
    Archives <- MCArchives
    UserPaths <- MCPaths
    Lengths = {0, 2, 4}
    MaxOffset = 3
    MaxRegions = 2
    Situations = {}
SYMMETRY MCAlike
INVARIANTS
    TreeSound
    FilesBacked
    Unpacked
    OpenFilesSound
PROPERTY ListedOnce
CHECK_DEADLOCK FALSE
