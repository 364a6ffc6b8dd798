CONSTANTS
    Absent = Absent
    Empty = Empty
    modelA = modelA
    modelB = modelB
    textA = textA
    textB = textB
    Names <- MCNames
    Pieces <- MCPieces
    RequestModel = modelA
    Chunks <- MCChunks
    MaxLines = 4
SPECIFICATION Spec
INVARIANTS
    TypeOK
    ContentFaithful
    MetadataIsLatest
    FailsWithCause
CHECK_DEADLOCK FALSE
