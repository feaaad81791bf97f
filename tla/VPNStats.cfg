CONSTANTS
  i1 = i1
  i2 = i2
  i3 = i3
  a1 = a1
  a2 = a2
  Index <- TwoIndices
  Addr <- OneAddr
  Timeout = 1
  RecentTraffic = 2
  RelayTimeout = 2
  MaxActive = 3
SPECIFICATION StatsFairSpec
PROPERTIES
  DriftRepaired
  StaleEntriesLeave
CHECK_DEADLOCK FALSE
