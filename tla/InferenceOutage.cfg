\* The defaults, with Redis at hand and no verdict that expires.
CONSTANTS
    c1 = c1
    c2 = c2
    Calls <- MCCalls
    Slots = 2
    MaxRetries = 3
    Failover = TRUE
    RedisFails = {FALSE}
    PrimaryOutcomes <- Outcomes
    NimOutcomes <- Outcomes
    Threshold = 5
    MaxExpiries = 0
SPECIFICATION Spec
CHECK_DEADLOCK FALSE
INVARIANT NextAttemptIsNim
