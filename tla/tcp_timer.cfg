SPECIFICATION Spec
CONSTANTS
  MaxConn = 2
  HighWater = 2
  ArenaConns = 1
  MaxReq = 4
  BatchMax = 3
  Debug = TRUE
  SysFails = FALSE
  Clients = 1
INVARIANT TimerHasTcp
CHECK_DEADLOCK FALSE
