CONSTANTS
    Documents <- MCDocuments
    MaxPages = 3
    MaxOcrPages = 1
    MaxPixels = 4
    Dpi = 1
SPECIFICATION Spec
INVARIANT
    PagesDecide
CHECK_DEADLOCK FALSE
