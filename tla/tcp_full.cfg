SPECIFICATION Spec
CONSTANTS
  MaxConn = 2
  HighWater = 2
  ArenaConns = 2
  MaxReq = 2
  BatchMax = 5
  Debug = FALSE
  SysFails = FALSE
  Clients = 3
INVARIANT TypeOK
PROPERTY SlotKept
CHECK_DEADLOCK FALSE
