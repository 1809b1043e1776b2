CONSTANTS
  Writers = {w1, w2}
  Nodes = {n1}
  MaxConnections = 1
  MaxCalls = 3
  MaxConns = 3
  MaxFaults = 1
  Queriers = {d1, d2}
  Queries <- MCQueries
  LeaseDuration = 2
  MaxTime = 12
  MaxLosses = 1
  Subs = {s1}
  Modes = {"ALL", "ANY"}
  Destinations = 2
  Workers = 2
  PointsSize = 1
  WriteBufferSize = 1
  MaxPoints = 2
  MaxChanges = 2
  QueryIDs = {q1, q2}
  Loads <- MCLoads
  MaxConcurrentQueries = 1
SPECIFICATION MCSpec
INVARIANTS
  AnswerIsOwn
  TotalExact
  NoWindowSkipped
  NoSendOnClosed
  NothingLeftBehind
  ReasonGiven
CHECK_DEADLOCK FALSE
