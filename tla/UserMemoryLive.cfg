\* Both lock backends, expiring keys, dying processes, reloads between them.
SPECIFICATION Spec
CONSTANTS
    f1 = f1
    f2 = f2
    Nobody = Nobody
    Facts <- MCOneFact
    StartRows <- MCStartRows
    Jobs = {j1, j2}
    Requests = {}
    Chats = {c1}
    Backends = {"pg", "redis"}
    CompactMin = 1
    MaxSalience = 3
    ClearBelow = 2
    DefaultSalience = 3
PROPERTIES OnlyHolderReleases JobsFinish
CHECK_DEADLOCK FALSE
