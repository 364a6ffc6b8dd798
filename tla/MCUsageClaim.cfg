CONSTANTS
    Plans <- MCPlans
    Rows = {"a", "h"}
    Answers <- MCAnswers
    Concurrency = 2
SPECIFICATION Safe
INVARIANT
    TokensAreAllConsumed
CHECK_DEADLOCK FALSE
