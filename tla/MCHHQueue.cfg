CONSTANTS
  Lens = {1, 6, 30}
  MaxSize = 70
  DefaultSegmentSize = 24
  SegmentSizes = {16}
  StartFiles = {}
  MaxAge = 0
  IOErrors = TRUE
  MaxHints = 3
  MaxID = 5
  MaxTime = 1
SPECIFICATION Spec
INVARIANTS AcknowledgedKept NotReadTwice
PROPERTY IsFIFO
