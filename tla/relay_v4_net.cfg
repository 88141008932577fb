SPECIFICATION NetSpec
\* The system stops when every client is served or has given up.
CHECK_DEADLOCK FALSE
VIEW MCView
CONSTANTS
  i1 = i1
  i2 = i2
  ip1 = ip1
  ip2 = ip2
  ipServer = ipServer
  ipClient = ipClient
  c1 = c1
  k1 = k1
  k2 = k2
  k3 = k3
  Unspecified = Unspecified
  Broadcast = Broadcast
  NoAddr = NoAddr
  EmptyData = EmptyData
  ZeroByte = ZeroByte
  Absent = Absent
  NoOpt82 = NoOpt82
  Garbage = Garbage
  Iface = {i1, i2}
  Ip <- MCIp
  BindAddr <- MCBindAddr
  LocalAddrs <- MCLocalAddrs
  Server <- MCServer
  EnableOption82 = TRUE
  CircuitId = c1
  RemoteId = Absent
  VssEnabled = FALSE
  VssInfo = EmptyData
  Data <- MCData
  Body <- MCBody
  Input = {}
  Client = {k1, k2, k3}
  LinkOf <- MCLinkOf
  ClientIp <- MCClientIp
  AskAddr <- MCAskAddr
  MaxTries <- MCMaxTries
  MaxFaults = 1
  MaxReceived = 8
INVARIANTS
  NetTypeOK
  ReplyOnClientsLink
PROPERTIES
  EveryClientServed
