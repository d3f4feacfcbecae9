SPECIFICATION Spec
CONSTANTS
  CacheSize = 2
  MaxFd = 5
  Files = {f1, f2, long}
  Long = long
  Length <- MCLength
  Conns = {c1}
INVARIANT DoneMeansAll
