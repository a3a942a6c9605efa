\* The rate limiter, the cost caps, registration and the circuit breaker, each on its own.
SPECIFICATION AccessSpec
CONSTANTS
    Requests = {c1, c2, c3}
    Roles = {m1}
    Catalog = Catalog
    Chat = Chat
    RateOf <- MCRateOf
    IsDemo = TRUE
    Window = 3
    Lag = 1
    NoKey = NoKey
    MaxTime = 4
    Accounts = {u1}
    Turns = {c1, c2, c3}
    Logins = {l1}
    Caps = {1, 2}
    NoCap = NoCap
    DemoCap = 1
    PoolCap = 2
    Longest = 2
    DemoWindow = 1
    PoolWindow = 1
    MaxLive = 1
    NoSum = NoSum
    NoAccount = NoAccount
    Names = {n1, n2}
    Invites = {i1, i2}
    Forms = {c1, c2, c3}
    NoInvite = NoInvite
    NoName = NoName
    Nobody = Nobody
    Procs = {"api", "arq"}
    Restoring = {"api"}
    Threshold = 2
    Attempts = 2
    MaxOutstanding = 4
    MaxPending = 1
    MaxRestarts = 1
INVARIANTS WindowHolds CapIsSoft InviteOnce ClosedBelowThreshold
SYMMETRY MCSymmetry
CHECK_DEADLOCK FALSE
