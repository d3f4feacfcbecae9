SPECIFICATION PartsSpec
CONSTANTS
  MaxLen = 6
  MaxPath = 5
  MaxName = 5
  Starts <- MCStarts
  MaxGrowth = 3
  MaxHeaders = 2
  Firsts <- MCFirsts
  Pieces <- MCPieces
  MaxPieces = 4
  BufferCap = 20
  MaxReq = 6
  MaxChecked = 3
  MaxStream = 11
  MaxText = 4
  MaxPiece = 2
  HexMax = 2
  OverheadMax = 8
  CacheSize = 2
  MaxFd = 5
  Files = {f1, f2, long}
  Long = long
  Length <- MCLength
  Conns = {c1, c2}
INVARIANT EachAnswered
CHECK_DEADLOCK FALSE
