---------------------------- MODULE RelayV4Config ----------------------------
(***************************************************************************)
(* The configuration and the messages of the DHCPv4 relay: what            *)
(* V4SpawnContext::from_inner extracts from RelayConfig, and the fields of *)
(* a dhcproto v4::Message that some stage of the relay reads or writes.    *)
(* Every other field of a message (xid, chaddr, the lease options, ...) is *)
(* carried unchanged by the relay and is collapsed into `body'.            *)
(***************************************************************************)
EXTENDS Naturals, FiniteSets

CONSTANTS
  Iface,          \* the enabled interfaces; one relay task runs for each
  Ip,             \* IPv4 addresses
  Unspecified,    \* 0.0.0.0
  Broadcast,      \* 255.255.255.255
  BindAddr,       \* BindAddr[i]: the socket address of interface i
  LocalAddrs,     \* V4SpawnContext::local_addrs
  Server,         \* server_addrs.first(), or NoAddr
  NoAddr,         \* no socket address
  EnableOption82, \* Dhcpv4Config::enable_option82
  CircuitId,      \* Dhcpv4Config::circuit_id, or Absent
  RemoteId,       \* Dhcpv4Config::remote_id, or Absent
  VssEnabled,     \* VssConfig::enabled
  VssInfo,        \* the payload of VSS sub-option 151 (type and info)
  Data,           \* values of sub-options
  EmptyData,      \* the empty value
  ZeroByte,       \* the one-byte value [0]
  Absent,         \* no such sub-option
  NoOpt82,        \* a message without Option 82
  Body,           \* everything of a message the relay does not look at
  Garbage,        \* a datagram that v4::Message::decode rejects
  Input           \* the datagrams that may reach a socket of the relay

\* The message types that spawn_v4_tasks routes to the request pipeline.
ClientTypes == {"Discover", "Request", "Inform", "Decline", "Release"}

\* Types of the server side, and a BOOTP message that has no type option.
OtherTypes == {"Offer", "Ack", "Nak", "Untyped"}

MsgType == ClientTypes \cup OtherTypes

SockAddr == [ip : Ip, port : Nat]

\* The sub-options of Option 82 that the relay writes (circuit, remote, vss,
\* vssControl), one that it converts with loss (flags), and the rest (other).
SubCode == {"circuit", "remote", "flags", "other", "vss", "vssControl"}

\* A RelayAgentInformation: at most one value for each sub-option code.
Opt82 == [SubCode -> Data \cup {Absent}]

Message == [mtype : MsgType, giaddr : Ip, ciaddr : Ip,
            opt82 : Opt82 \cup {NoOpt82}, body : Body]

\* A plausible slip: every task is given the address of one interface.
IfaceIpOfFirst(i) == BindAddr[CHOOSE j \in Iface : TRUE].ip

\* The address of interface i: the IP part of its ip_addr.
IfaceIp(i) == BindAddr[i].ip

\* Without a configured server requests are sent to the task's own address.
ServerAddr(i) == IF Server = NoAddr THEN BindAddr[i] ELSE Server

HasOpt82(m) == m.opt82 # NoOpt82

ASSUME AddressAssumption ==
  /\ Unspecified \in Ip
  /\ Broadcast \in Ip
  /\ BindAddr \in [Iface -> SockAddr]
  /\ \A i \in Iface : IfaceIp(i) \in LocalAddrs
  /\ LocalAddrs \subseteq Ip
  /\ Server \in SockAddr \cup {NoAddr}
  /\ NoAddr \notin SockAddr

ASSUME Option82Assumption ==
  /\ {EmptyData, ZeroByte, VssInfo} \subseteq Data
  /\ Absent \notin Data
  /\ NoOpt82 \notin Opt82
  /\ CircuitId \in Data \cup {Absent}
  /\ RemoteId \in Data \cup {Absent}
  /\ EnableOption82 \in BOOLEAN
  /\ VssEnabled \in BOOLEAN

ASSUME IfaceAssumption == IsFiniteSet(Iface)

ASSUME InputAssumption ==
  /\ Garbage \notin Message
  /\ Input \subseteq Message \cup {Garbage}
=============================================================================
