CONSTANTS
  n1 = n1
  w1 = w1
  w2 = w2
  Nodes <- OneNode
  Writers <- TwoWriters
  NotFound = {"error", "nil"}
  Closes = TRUE
  PurgeInterval = 1
  RetryInterval = 1
  RetryMaxInterval = 1
  MaxHints = 2
  MaxProcs = 2
  MaxCrashes = 1
SPECIFICATION FairSpec
INVARIANTS
  
  OneOwner

  
CHECK_DEADLOCK FALSE
