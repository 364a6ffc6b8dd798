CONSTANTS
    Kinds = {"pdf", "doc"}
    Plans <- MCPlans
    Rows = {"a"}
    Answers <- MCAnswers
    Concurrency = 1
SPECIFICATION RequestSpec
INVARIANT
    NothingOutlivesRequest
PROPERTY
    ImplementsLifecycle
CHECK_DEADLOCK FALSE
