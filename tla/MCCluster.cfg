CONSTANTS
  s1 = s1
  s2 = s2
  s3 = s3
  n1 = n1
  n2 = n2
  n3 = n3
  DatabaseN = 1
  MetaIDs <- Colocated
  ZeroTime <- FarBeforeZero
  Limit = 24
  Hour = 1
  Day = 2
  Week = 3
  HalfYear = 6
  Clusters <- MCClusters
  Owners <- ThreeShards
  Batches <- OneOrTwo
  Local = n1
  AdvancePeriod = 3
SPECIFICATION MCSpec
INVARIANTS
  OwnersOK
  GroupsDisjoint
  
  
  LevelMet
  NobodyForgotten
  SendersNeverBlock
CHECK_DEADLOCK FALSE
