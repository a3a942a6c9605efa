\* A sheet that compaction does not clear: it asks the model.
SPECIFICATION Spec
CONSTANTS
    f1 = f1
    f2 = f2
    Nobody = Nobody
    Facts <- MCFacts
    StartRows <- MCRaceRows
    Jobs = {j1, j2}
    Requests = {r1}
    Chats = {}
    Backends = {"pg"}
    CompactMin = 1
    MaxSalience = 3
    ClearBelow = 2
    DefaultSalience = 3
PROPERTIES CompactionSnapshots
SYMMETRY Symmetry
CHECK_DEADLOCK FALSE
