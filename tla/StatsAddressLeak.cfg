CONSTANTS
  i1 = i1
  i2 = i2
  i3 = i3
  a1 = a1
  a2 = a2
  Index <- TwoIndices
  Addr <- TwoAddrs
  Timeout = 1
  RecentTraffic = 2
  RelayTimeout = 1
  MaxActive = 3
SPECIFICATION StatsSpec
INVARIANT NoAddressLeft
CHECK_DEADLOCK FALSE
