SPECIFICATION ConnSpec
CONSTANTS
  Cap = 8
  BlockBytes = 6
  Marker = 2
  Counts = {2}
  Sizes = {}
  Conns = {c1, c2}
  BufferBlocks = 2
  HeadBytes = 2
  BufferBytes = 3
INVARIANT HeadIntact
CHECK_DEADLOCK FALSE
