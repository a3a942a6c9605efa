\* Commits may fail, and tools may fail in the database.
CONSTANTS
    Sigs <- MCSigs
    Limit <- MCLimit
    Models = 2
    MaxIter = 3
    MaxBatch = 2
    Retries = 1
    CommitFails = TRUE
    ToolDbFails = TRUE
SPECIFICATION Spec
CHECK_DEADLOCK FALSE
INVARIANTS OneTerminalEvent TurnIsKept IdenticalCallsBounded NoStaleText
PROPERTY TurnEnds
