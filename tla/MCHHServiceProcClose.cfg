CONSTANTS
  n1 = n1
  w1 = w1
  w2 = w2
  Nodes <- OneNode
  Writers <- OneWriter
  NotFound = {"error"}
  Closes = TRUE
  PurgeInterval = 9
  RetryInterval = 1
  RetryMaxInterval = 4
  MaxHints = 1
  MaxProcs = 1
  MaxCrashes = 0
SPECIFICATION FairSpec
PROPERTIES
  ProcessorCloses
CHECK_DEADLOCK FALSE
