SPECIFICATION Spec
\* The network falls silent once the bound on packets is reached.
CHECK_DEADLOCK FALSE
CONSTANTS
  n1 = n1
  n2 = n2
  n3 = n3
  n4 = n4
  n5 = n5
  n6 = n6
  Node = {n1, n2, n3, n4, n5, n6}
  RelaySet = {n1, n2, n3, n4, n5}
  Neighbors <- MCNeighbors
  LocalAddrs <- MCLocalAddrs
  PacketId <- MCPacketId
  Sent <- MCSent
  Entry <- MCEntry
  Dist <- MCDist
  MaxPackets = 2
  MaxLost = 1
INVARIANTS
  TypeOK
  Contained
  Reached
PROPERTIES
  FloodEnds
