\* Every writer of the sheet under the advisory lock.
SPECIFICATION Spec
CONSTANTS
    f1 = f1
    f2 = f2
    Nobody = Nobody
    Facts <- MCFacts
    StartRows <- MCStartRows
    Jobs = {j1, j2}
    Requests = {r1}
    Chats = {c1}
    Backends = {"pg"}
    CompactMin = 1
    MaxSalience = 3
    ClearBelow = 2
    DefaultSalience = 3
INVARIANTS TypeOK MutualExclusion SnapshotsAreReal VersionsAreDistinct
PROPERTY ReplacedSheetIsKept
SYMMETRY Symmetry
CHECK_DEADLOCK FALSE
