CONSTANTS
    Plans <- MCMergePlans
    Rows = {"a", "h"}
    Answers <- MCMergeAnswers
    Concurrency = 1
SPECIFICATION Safe
INVARIANTS
    RowsSurviveMerge
    ChunksStartInOrder
CHECK_DEADLOCK FALSE
