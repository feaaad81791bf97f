CONSTANTS
  i1 = i1
  i2 = i2
  i3 = i3
  a1 = a1
  a2 = a2
  k1 = k1
  k2 = k2
  NoIndex = NoIndex
  Index <- TwoIndices
  Addr <- OneAddr
  Key <- OneKey
  HandshakeTTL = 0
  EndpointTTL = 1
  SessionTTL = 2
  MaxRefs = 2
SPECIFICATION TimedSpec
PROPERTY EndpointTimeout
