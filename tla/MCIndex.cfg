CONSTANTS
    Keys = {k1, k2}
    Callers = {a1, a2}
    SegmentSize = 2
    CompactThreshold = 1
    MaxEntries = 5
    MaxFaults = 1
    MaxRestarts = 1
    Ids = {1, 2}
    Creators = {c1}
    Droppers = {d1}
    MaxLogFileSize = 2
    Levels = 3
    MaxOps = 4
SYMMETRY Symmetry
SPECIFICATION MCSpec
INVARIANTS IdsKept DeletedStay NotReused   Together
CHECK_DEADLOCK FALSE
