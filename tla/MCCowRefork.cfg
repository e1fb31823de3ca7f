CONSTANTS
    Spaces = {s1, s2}
    Frames = {f1, f2, f3}
    Backbuffer = bb
    NPAGES = 2
    FB_MAP_VADDR = 2
    REGION_PAGES = 1
    Values = {x, y}
    NULL = NULL
    Situations = {"refork"}
SYMMETRY Interchangeable
SPECIFICATION Spec
PROPERTY BreakGivesPrivateFrame
