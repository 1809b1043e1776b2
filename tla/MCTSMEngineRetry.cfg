SPECIFICATION Spec
CONSTANTS
    k1 = k1
    k2 = k2
    w1 = w1
    Keys = {k1, k2}
    Writers = {w1}
    MaxVer = 2
    MaxDeletes = 0
    MaxFails = 1
    MaxCrashes = 0
    MaxSegment = 3
    MaxGen = 3
    MaxSeq = 2
    Torn = FALSE
SYMMETRY Symmetry
CHECK_DEADLOCK FALSE
INVARIANT AcknowledgedKept
