\* No commit fails; a tool may fail in the database.
CONSTANTS
    Sigs <- MCSigs
    Limit <- MCLimit
    Models = 2
    MaxIter = 2
    MaxBatch = 1
    Retries = 1
    CommitFails = FALSE
    ToolDbFails = TRUE
SPECIFICATION Spec
CHECK_DEADLOCK FALSE
INVARIANT TurnStaysVisible
