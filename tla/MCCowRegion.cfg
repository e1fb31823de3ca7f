CONSTANTS
    Spaces = {s1, s2}
    Frames = {f1, f2, f3}
    Backbuffer = bb
    NPAGES = 2
    FB_MAP_VADDR = 2
    REGION_PAGES = 2
    Values = {x, y}
    NULL = NULL
    Situations = {}
SYMMETRY Interchangeable
SPECIFICATION Spec
INVARIANT StaysWritable
