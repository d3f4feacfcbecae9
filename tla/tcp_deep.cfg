SPECIFICATION FairSpec
CONSTANTS
  MaxConn = 2
  HighWater = 2
  ArenaConns = 1
  MaxReq = 7
  BatchMax = 5
  Debug = FALSE
  SysFails = TRUE
  Clients = 2
INVARIANTS NoStrandedData ResponseArmed WriteHasResponse
PROPERTIES PeerCloseNoticed ResponseAttempted
CHECK_DEADLOCK FALSE
