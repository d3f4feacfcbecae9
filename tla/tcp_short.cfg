SPECIFICATION Spec
CONSTANTS
  MaxConn = 2
  HighWater = 2
  ArenaConns = 1
  MaxReq = 4
  BatchMax = 3
  Debug = FALSE
  SysFails = FALSE
  Clients = 1
PROPERTY ProcessedWaits
CHECK_DEADLOCK FALSE
