\* Five rows over seven types, queries of one or two rows, and responses
\* that one to four rows fill.
SPECIFICATION PullSpec
CHECK_DEADLOCK FALSE
CONSTANTS
    Usns = 5
    Databases <- AllDatabases
    Cli = 1
    End = 6
    MaxBatchSize = 130
    Limit <- FewRows
    Faults = TRUE
INVARIANTS
    PullTypeOK
    ResponsesFilled
    SentInOrder
    CollectedFromStart
    FailsOnlyAfterCut
PROPERTY
    ImplementsPages
