\* Two operations of any kind, and their jobs, on one file.
SPECIFICATION Spec
CONSTANTS
    Nothing = Nothing
    Files = {f1}
    Ops = {o1, o2}
    Uploads = {u1}
    Raw = {u1, o1}
    Lost = Lost
    MaxTries = 2
    MaxFaults = 2
INVARIANTS CurrentIsIndexed IndexIsExact HistoryIsComplete DeletedIsGone
PROPERTY StatusSettles
CHECK_DEADLOCK FALSE
