CONSTANTS
    Documents <- MCDocuments
    Properties = {items, total}
    Thresholds = {1, 3}
    ChunkSizes = {1, 2, 3}
SPECIFICATION Spec
INVARIANTS
    TypeOK
    ChunksTile
    TableIsDominant
    NoLineLost
CHECK_DEADLOCK FALSE
