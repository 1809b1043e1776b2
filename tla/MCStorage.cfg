CONSTANTS
    k1 = k1
    k2 = k2
    w1 = w1
    w2 = w2
    Keys = {k1, k2}
    Writers = {w1, w2}
    MaxVer = 2
    MaxDeletes = 1
    MaxFails = 1
    MaxCrashes = 1
    MaxSegment = 3
    MaxGen = 3
    MaxSeq = 2
    Torn = TRUE
    Ids = {1, 2}
    Series = {"s"}
    Callers = {w1, w2}
    NoShard = NoShard
    MaxObjs = 3
    MaxCalls = 5
    MaxRestarts = 1
SYMMETRY Symmetry
SPECIFICATION MCSpec
INVARIANTS ReadsCurrent SurvivesCrash   SeriesKept
 
CHECK_DEADLOCK FALSE
