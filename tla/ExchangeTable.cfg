CONSTANTS
  i1 = i1
  i2 = i2
  i3 = i3
  a1 = a1
  a2 = a2
  k1 = k1
  k2 = k2
  NoIndex = NoIndex
  Index <- ThreeIndices
  Addr <- TwoAddrs
  Key <- TwoKeys
  HandshakeTTL = 0
  EndpointTTL = 1
  SessionTTL = 2
  MaxRefs = 3
SPECIFICATION Spec
SYMMETRY Symmetry
INVARIANTS
  TypeOK
  PairingSymmetric
  RefsCoverPeers
  LivePeersRoutable
PROPERTIES
  SessionStable
  EndpointGrace
  EntriesRunOut
  EvictionAloneLeaks
  ImplementsSessionTable
