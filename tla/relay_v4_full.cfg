SPECIFICATION Spec
\* The tasks wait for ever once the bound on received datagrams is reached.
CHECK_DEADLOCK FALSE
CONSTANTS
  i1 = i1
  i2 = i2
  ip1 = ip1
  ip2 = ip2
  ip3 = ip3
  ipRelay = ipRelay
  ipServer = ipServer
  ipClient = ipClient
  c1 = c1
  r1 = r1
  v1 = v1
  f1 = f1
  Unspecified = Unspecified
  Broadcast = Broadcast
  NoAddr = NoAddr
  EmptyData = EmptyData
  ZeroByte = ZeroByte
  Absent = Absent
  NoOpt82 = NoOpt82
  Garbage = Garbage
  Iface = {i1, i2}
  Ip <- MCIp
  BindAddr <- MCBindAddr
  LocalAddrs <- MCLocalAddrs
  Server <- MCServer
  EnableOption82 = TRUE
  CircuitId = c1
  RemoteId = r1
  VssEnabled = TRUE
  VssInfo = v1
  Data <- MCData
  Body = {"b"}
  Input <- MCInput
  MaxReceived = 2
INVARIANTS
  TypeOK
  CountersAddUp
  SpoofCounterHonest
  NoOption82ToClient
PROPERTIES
  ImplementsContract
  HandlingTerminates
