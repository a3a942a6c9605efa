\* The model catalog, the context of a turn, conversations and the entity graph.
SPECIFICATION MCSpec
CONSTANTS
    second = second
    Models = {r, m}
    Roles = {r}
    Procs = {p1, p2}
    Scans = {first, second}
    NoModel = NoModel
    Nobody = Nobody
    MaxVer = 2
    MaxPatches = 1
    Parts = {"goals", "rag", "file", "state", "hint"}
    SizeOf <- MCSizeOf
    Windows = {3, 7}
    MaxOut = 0
    MaxHistory = 1
    MaxCalls = 2
    MaxAttempts = 2
    a = a
    as = as
    b = b
    c = c
    j2 = j2
    q3 = q3
    Names = {a, as, b, c}
    Jobs = {j1, j2}
    Queries = {w1}
    MaxEntities = 2
    MaxBatch = 1
    MaxEdges = 1
    NormOf <- MCNormOf
    TypeOf <- MCTypeOf
    Length <- MCLength
    Matching = {a}
    Kin <- MCKin
    Other = Other
    MaxTime = 2
    Convs = {c1, c2}
    Calls = {q1, q2, q3}
    Files = {f1}
    Settings = {s1, s2}
    Titles = {"greeting", "parting"}
    TextOf <- MCTextOf
    Limit = 2
    KeepRaw = 1
    NoConv = NoConv
INVARIANTS AdminChoiceWins OnlyProvenOffered TrimIsTight RulesSurvive
    GraphIsBounded MergeKeepsRelations CacheTellsGraph ConversationIsBounded
CHECK_DEADLOCK FALSE
