SPECIFICATION PartsSpec
CONSTANTS
  Size = 4
  MaxDrift = 4
  MaxPrime = 120
  Stride = 3
  Capacity = 3
  Keys = {0, 1, 7, 14}
  Vals = {"a", "b"}
  MaxCount = 4
  Wrap = 64
  Nodes = {1, 2, 3, 4}
  Lists = {"l1", "l2"}
  Millis = 3
  Nanos = 3
  Wide = 1024
  MaxClock = 20
  Cap = 5
  BlockBytes = 3
  Marker = 2
  Counts = {2, 4}
  Sizes = {1, 2}
  Width = 2
INVARIANTS FreeInFront TableSound SizeExact QueryExact RoomForNew ListsExact AgeExact BitmapExact CountsExact ScanFindsChosen BitsExact
PROPERTIES ListsArePools RetExact IsAllocator
CHECK_DEADLOCK FALSE
