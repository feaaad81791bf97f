CONSTANTS
  A = A
  B = B
  iA = iA
  iB = iB
  jB = jB
  a1 = a1
  a2 = a2
  b1 = b1
  kA = kA
  kB = kB
  w1 = w1
  w2 = w2
  NoKey = NoKey
  NoIndex = NoIndex
  NoPacket = NoPacket
  Client <- TwoClients
  PeerOf <- Partners
  PublicKey <- TheirKeys
  Home <- Homes
  Owner <- Owners
  InitIndex <- Initiators
  Index <- ThreeIndices
  Addr <- ThreeAddrs
  Key <- TwoKeys
  Worker <- TwoWorkers
  Reloader = {}
  Packets <- ClientPackets
  KeyLists <- OneList
  MaxFaults = 2
SPECIFICATION RelayFairSpec
INVARIANTS
  RelayTypeOK
  SuccessCountedOnce
  RoutedToOwner
PROPERTY SessionComes
