CONSTANTS
  DatabaseN = 1
  MetaIDs <- NoMetaIDs
  ZeroTime <- FarBeforeZero
  Limit = 24
  Hour = 1
  Day = 2
  Week = 3
  HalfYear = 6
  MetaNodes = {m1, m2}
  Hosts = {"a", "b", "c"}
  Times = {5}
  ReplicaN = 1
  SGDur = 2
  MaxLog = 5
SPECIFICATION Spec
INVARIANT ReplicasAgree
CHECK_DEADLOCK FALSE
