CONSTANTS
    Plans <- MCPlans
    Rows = {"a", "h"}
    Answers <- MCAnswers
    Concurrency = 2
SPECIFICATION Spec
INVARIANTS
    TypeOK
    PermitsConserved
    NoOrphans
    CallsBounded
    PartialIsDeclared
PROPERTIES
    CancelStopsCalls
    Terminates
CHECK_DEADLOCK FALSE
