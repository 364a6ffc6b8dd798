CONSTANTS
    Requests <- MCRequests
    MaxUpload = 3
    Overhead = 5
    FieldLimit = 2
    MaxFields = 2
    ReadSize = 2
    MaxPixels = 2
    MaxEntries = 3
    MaxUncompressed = 4
    MaxRatio = 2
SPECIFICATION Spec
INVARIANTS
    TypeOK
    AcceptanceIsOrderFree
    NothingIsLeft
    DocumentsAreWithinLimits
CHECK_DEADLOCK FALSE
