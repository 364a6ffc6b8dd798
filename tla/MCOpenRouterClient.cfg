CONSTANTS
    TotalBudget = 10
    AttemptCap = 4
    MaxRetries = 2
    BackoffBase = 1
    Lag = 1
    FirstAttempts <- MCFirstAttempts
SPECIFICATION Spec
INVARIANTS
    TypeOK
    EndsWithinBudget
    RequestsInOrder
    RejectionFallsBack
    ErrorNamesAttempt
PROPERTIES
    Terminates
    ImplementsCompletion
CHECK_DEADLOCK FALSE
