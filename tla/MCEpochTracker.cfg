CONSTANTS
  Writers = {w1, w2}
  Deleters = {d1, d2}
  Names = {"cpu", "mem"}
  MaxEpoch = 4
SPECIFICATION FairSpec
INVARIANTS
  Exclusion
PROPERTIES
  CallsReturn
CHECK_DEADLOCK FALSE
