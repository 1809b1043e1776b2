CONSTANTS
  m1 = m1
  m2 = m2
  a = a
  b = b
  Servers <- TwoServers
  Commands = {a, b}
  MaxRetries = 1
  MaxLog = 3
  MaxFails = 1
  MaxRestarts = 1
  MaxCommits = 1
SPECIFICATION FairClientSpec
INVARIANTS
  CopyOfLog
PROPERTIES
  ReadYourWriteInLog
  
CHECK_DEADLOCK FALSE
