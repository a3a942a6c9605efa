\* Every outcome of both endpoints; Redis may fail.
CONSTANTS
    c1 = c1
    c2 = c2
    Calls <- MCCalls
    Slots = 1
    MaxRetries = 1
    Failover = TRUE
    RedisFails = {TRUE, FALSE}
    PrimaryOutcomes <- Outcomes
    NimOutcomes <- Outcomes
    Threshold = 2
    MaxExpiries = 1
SPECIFICATION Spec
CHECK_DEADLOCK FALSE
INVARIANT PrimaryIsLeft
PROPERTIES UsesBreaker RequestsFinish
