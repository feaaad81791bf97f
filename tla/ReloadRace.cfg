CONSTANTS
  i1 = i1
  i2 = i2
  a1 = a1
  a2 = a2
  b1 = b1
  kA = kA
  kB = kB
  w1 = w1
  w2 = w2
  r1 = r1
  r2 = r2
  NoKey = NoKey
  NoIndex = NoIndex
  NoPacket = NoPacket
  Index <- TwoIndices
  Addr <- TwoAddrs
  Key <- TwoKeys
  Worker <- OneWorker
  Reloader <- TwoReloaders
  Packets <- Handshake
  KeyLists <- CheckedLists
SPECIFICATION Spec
PROPERTY ZeroDowntime
