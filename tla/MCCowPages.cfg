CONSTANTS
    Spaces = {s1, s2, s3}
    Frames = {f1, f2, f3}
    Backbuffer = bb
    NPAGES = 2
    FB_MAP_VADDR = 2
    REGION_PAGES = 2
    Values = {x, y}
    NULL = NULL
    Situations = {"nomem", "stray"}
SYMMETRY Interchangeable
SPECIFICATION Spec
INVARIANTS AllReturned RegionStaysWritable
