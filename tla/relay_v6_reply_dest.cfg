SPECIFICATION Spec
\* The tasks wait for ever once the bound on received datagrams is reached.
CHECK_DEADLOCK FALSE
CONSTANTS
  i1 = i1
  i2 = i2
  ip1 = ip1
  ip2 = ip2
  ipServer = ipServer
  ipClient = ipClient
  name1 = name1
  name2 = name2
  rid = rid
  vss = vss
  bad = bad
  Unspecified = Unspecified
  NoAddr = NoAddr
  Iface = {i1, i2}
  Ip <- MCIp
  Ipv6 = {Unspecified}
  BindAddr <- MCBindAddr
  Server <- MCServer
  EnableInterfaceId = TRUE
  EnableRemoteId = TRUE
  VssEnabled = TRUE
  Data <- MCData
  DataLen <- MCDataLen
  IsName = {name1, name2, rid}
  IfaceName <- MCIfaceName
  RemoteId = rid
  VssData = vss
  MaxUdp = 65507
  Input <- MCInput
  MaxReceived = 2
INVARIANT
  ReplyNotReturned
