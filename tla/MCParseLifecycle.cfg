CONSTANT
    Kinds = {"pdf", "doc", "other"}
SPECIFICATION Spec
INVARIANTS
    TypeOK
    FilesLeakOnlyWhenCutShort
    FilesLiveWhileUsed
    LoggedOnce
    CancelledOnlyWhenGone
PROPERTIES
    OutcomeIsFinal
    DisconnectEndsRequest
CHECK_DEADLOCK FALSE
