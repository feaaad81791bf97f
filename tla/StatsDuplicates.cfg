CONSTANTS
  i1 = i1
  i2 = i2
  i3 = i3
  a1 = a1
  a2 = a2
  Index <- ThreeIndices
  Addr <- OneAddr
  Timeout = 1
  RecentTraffic = 2
  RelayTimeout = 1
  MaxActive = 3
SPECIFICATION StatsSpec
SYMMETRY Symmetry
INVARIANT StatsTypeOK
PROPERTY DuplicatesResolved
CHECK_DEADLOCK FALSE
