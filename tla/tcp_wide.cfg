SPECIFICATION FairSpec
CONSTANTS
  MaxConn = 3
  HighWater = 2
  ArenaConns = 2
  MaxReq = 2
  BatchMax = 7
  Debug = TRUE
  SysFails = FALSE
  Clients = 2
INVARIANTS SlotsConserved PairLinked CountExact TcpEventsFresh
PROPERTY AcceptDrains
CHECK_DEADLOCK FALSE
