----------------------------- MODULE PipelineV6 -----------------------------
(***************************************************************************)
(* The stages of the DHCPv6 pipelines (src/src/dhcp/v6/pipeline.rs) and    *)
(* the Relay-forward codec (src/src/dhcp/v6/relay_fwd.rs).                 *)
(*                                                                         *)
(* A datagram is a sequence of relay headers, outermost first, around a    *)
(* core that is not a complete relay message: a client or server message,  *)
(* no bytes at all, or a relay message cut off inside its header.  Of the  *)
(* options of a header we keep what extract_relay_msg looks at: the code,  *)
(* the length field, and how many bytes really follow.                     *)
(***************************************************************************)
EXTENDS Naturals, Sequences, FiniteSets

CONSTANTS
  Iface,             \* the enabled interfaces; one DHCPv6 task runs for each
  Ip,                \* IP addresses
  Ipv6,              \* those of them that are IPv6 addresses
  Unspecified,       \* ::
  BindAddr,          \* BindAddr[i]: the socket address of interface i
  Server,            \* server_addrs.first(), or NoAddr
  NoAddr,            \* no socket address
  EnableInterfaceId, \* Dhcpv6Config::enable_interface_id
  EnableRemoteId,    \* Dhcpv6Config::enable_remote_id
  VssEnabled,        \* VssConfig::enabled
  Data,              \* values of options
  DataLen,           \* DataLen[v]: the number of bytes of v
  IsName,            \* the values that are valid UTF-8
  IfaceName,         \* IfaceName[i]: the name of interface i
  RemoteId,          \* Dhcpv6Config::remote_id, or the empty value
  VssData,           \* the payload of VSS option 68 (type and info)
  MaxUdp,            \* the longest datagram that a socket sends
  Input              \* the datagrams that may reach a socket, and from where

SockAddr == [ip : Ip, port : Nat]

\* The message types that spawn_v6_tasks routes to the request pipeline.
ClientTypes == {"Solicit", "Request", "Confirm", "Renew", "Rebind",
                "Decline", "Release", "InformationRequest"}

\* The first byte of a datagram; "None" if it has no bytes.
MsgType == ClientTypes \cup
  {"Advertise", "Reply", "Reconfigure", "RelayForw", "RelayRepl", "None"}

RELAY_HDR_LEN  == 34
OPTION_TLV_HDR == 4

\* What a u16 length field can hold: values below this.
U16 == 65536

Option == [code : {"interface_id", "remote_id", "vss", "other"}, val : Data]

\* A message that is not a complete relay message: its options that decode
\* can read, the number of bytes up to the end of them, and the number of
\* bytes of options that decode cannot read, which it ignores.
Core == [mtype : MsgType, opts : SUBSET Option, size : Nat, rest : Nat]

ByteLen(k) == k.size + k.rest

\* An option of a relay header; `room' is what is left of the datagram after
\* the code and the length.
Tlv == [code : {"relay_msg", "other"}, len : Nat, room : Nat]

Header == [mtype : {"RelayForw", "RelayRepl"}, hop : Nat, link : Ip,
           peer : Ip, opts : Seq(Tlv)]

Message == [layers : Seq(Header), core : Core]

Datagram == [data : Message, src : SockAddr]

\* data.first().
FirstByte(m) ==
  IF m.layers = <<>> THEN m.core.mtype ELSE Head(m.layers).mtype

\* v6::Message::decode needs the type and the transaction id; it stops at the
\* first option it cannot read and ignores the rest.
Decodable(m) == m.layers # <<>> \/ m.core.size >= 4

ServerAddr(i) == IF Server = NoAddr THEN BindAddr[i] ELSE Server

ASSUME IfaceAssumption == IsFiniteSet(Iface)

\* spawn_v6_tasks appends ":547" to what precedes the first colon of ip_addr.
\* That is an address only if ip_addr is an IPv4 address; for any other run()
\* has returned an error before the first datagram is received.  An IPv4
\* socket receives from IPv4 addresses only.
ASSUME AddressAssumption ==
  /\ Ipv6 \subseteq Ip
  /\ Unspecified \in Ipv6
  /\ BindAddr \in [Iface -> SockAddr]
  /\ \A i \in Iface : BindAddr[i].ip \notin Ipv6 /\ BindAddr[i].port = 547
  /\ Server \in SockAddr \cup {NoAddr}
  /\ NoAddr \notin SockAddr

ASSUME OptionAssumption ==
  /\ IsName \subseteq Data
  /\ IfaceName \in [Iface -> Data]
  /\ {RemoteId, VssData} \subseteq Data
  /\ DataLen \in [Data -> Nat]
  /\ EnableInterfaceId \in BOOLEAN
  /\ EnableRemoteId \in BOOLEAN
  /\ VssEnabled \in BOOLEAN

\* A core that begins like a relay message ends inside the header; options
\* follow the type and the transaction id.
ASSUME InputAssumption ==
  /\ MaxUdp \in Nat /\ MaxUdp < U16
  /\ Input \subseteq Datagram
  /\ \A g \in Input :
       /\ g.src.ip \notin Ipv6
       /\ g.data.core.mtype \in {"RelayForw", "RelayRepl"} =>
            ByteLen(g.data.core) < RELAY_HDR_LEN
       /\ g.data.core.rest > 0 => g.data.core.size >= 4

-----------------------------------------------------------------------------
(* relay_fwd.rs *)

\* An IPv4 address cannot stand in a relay header.
Ipv6Of(addr) == IF addr.ip \in Ipv6 THEN addr.ip ELSE Unspecified

\* A plausible slip: the length is cast to a byte.
EncapsulateByteLength(m, link, peer) ==
  LET tlv == [code |-> "relay_msg", len |-> ByteLen(m.core) % 256,
              room |-> ByteLen(m.core)]
      hdr == [mtype |-> "RelayForw", hop |-> 0, link |-> link,
              peer |-> Ipv6Of(peer), opts |-> <<tlv>>]
  IN  [m EXCEPT !.layers = <<hdr>> \o @]

\* RelayFwdCodec::encapsulate; the length of the client message is cast to
\* u16.  It is only called with messages without relay headers.
Encapsulate(m, link, peer) ==
  LET tlv == [code |-> "relay_msg", len |-> ByteLen(m.core) % U16,
              room |-> ByteLen(m.core)]
      hdr == [mtype |-> "RelayForw", hop |-> 0, link |-> link,
              peer |-> Ipv6Of(peer), opts |-> <<tlv>>]
  IN  [m EXCEPT !.layers = <<hdr>> \o @]

Truncated(tlv) == tlv.len > tlv.room

\* extract_relay_msg succeeds: the loop reaches a relay-message option and
\* meets no truncated option on the way.
ExtractRelayMsg(opts) ==
  \E k \in DOMAIN opts :
    /\ opts[k].code = "relay_msg"
    /\ \A j \in 1..k : ~Truncated(opts[j])

\* What is inside the first n relay headers of m.
Inside(m, n) == [m EXCEPT !.layers = SubSeq(@, n + 1, Len(@))]

\* What decapsulate returns: Ok(inner) or Err(RelayError::Parse).
Inner(m)   == [ok |-> TRUE, inner |-> m]
ParseError == [ok |-> FALSE]

\* A plausible slip: one layer is taken off and no more.
DecapsulateOnce(m) ==
  IF /\ FirstByte(m) = "RelayRepl" /\ m.layers # <<>>
     /\ ExtractRelayMsg(Head(m.layers).opts)
    THEN Inner(Inside(m, 1))
    ELSE ParseError

\* RelayFwdCodec::decapsulate; unwrap[n] is its result for what is inside the
\* first n headers.  A core is too short or has the wrong type.
Decapsulate(m) ==
  LET unwrap[n \in 0..Len(m.layers)] ==
        IF \/ n = Len(m.layers)
           \/ m.layers[n + 1].mtype # "RelayRepl"
           \/ ~ExtractRelayMsg(m.layers[n + 1].opts)
          THEN ParseError
        ELSE IF FirstByte(Inside(m, n + 1)) = "RelayRepl" THEN unwrap[n + 1]
        ELSE Inner(Inside(m, n + 1))
  IN  unwrap[0]

-----------------------------------------------------------------------------
(* The stages. *)

\* PipelineContext, as far as the v6 stages use it: is_reforwarded and
\* is_trusted_circuit keep their initial value FALSE, and only the keys of
\* the metadata are kept, since nothing reads the values.
Context == [raw_in : Message, buffer : Message, src_addr : SockAddr,
            dst_addr : SockAddr \cup {NoAddr},
            metadata : SUBSET {"vss_inserted", "outbound_interface"}]

NewContext(g) == [raw_in |-> g.data, buffer |-> g.data, src_addr |-> g.src,
                  dst_addr |-> NoAddr, metadata |-> {}]

\* What PipelineStage::process returns: Ok(true) or Err(RelayError::Parse);
\* no v6 stage returns Ok(false).
Continue(c) == [ctx |-> c, ret |-> "continue"]
Fail(c)     == [ctx |-> c, ret |-> "Parse"]

ParseStage(c) == IF Decodable(c.buffer) THEN Continue(c) ELSE Fail(c)

\* modify_v6 with an insertion of option o: the message is decoded and
\* encoded again, so that what decode cannot read is gone.  v6 messages may
\* carry several options of one code, so nothing is replaced.
InsertOption(c, code, v) ==
  [c EXCEPT !.buffer.core.opts = @ \cup {[code |-> code, val |-> v]},
            !.buffer.core.size = @ + OPTION_TLV_HDR + DataLen[v],
            !.buffer.core.rest = 0]

InterfaceIdStage(i, c) ==
  Continue(InsertOption(c, "interface_id", IfaceName[i]))

RemoteIdStage(i, c) == Continue(InsertOption(c, "remote_id", RemoteId))

VssInsertStage(i, c) ==
  Continue([InsertOption(c, "vss", VssData)
              EXCEPT !.metadata = @ \cup {"vss_inserted"}])

\* The link address is that of the task's socket.
RelayFwdStage(i, c) ==
  Continue([c EXCEPT !.buffer =
    Encapsulate(c.buffer, Ipv6Of(BindAddr[i]), c.src_addr)])

ForwardStage(c, dest) == Continue([c EXCEPT !.dst_addr = dest])

\* Reads the relay header as if it were a message and only logs.
VssExtractStage(c) == IF Decodable(c.buffer) THEN Continue(c) ELSE Fail(c)

RelayReplyStage(c) ==
  LET r == Decapsulate(c.buffer)
  IN  IF r.ok THEN Continue([c EXCEPT !.buffer = r.inner]) ELSE Fail(c)

\* Some option of the inner message is an Interface-ID that is valid UTF-8.
\* If the inner message is a relay message its header is read as options, and
\* what that yields is left out.
NamesInterface(m) ==
  /\ m.layers = <<>>
  /\ \E o \in m.core.opts : o.code = "interface_id" /\ o.val \in IsName

InterfaceIdExtractStage(c) ==
  IF ~Decodable(c.buffer) THEN Fail(c)
  ELSE IF NamesInterface(c.buffer)
    THEN Continue([c EXCEPT !.metadata = @ \cup {"outbound_interface"}])
  ELSE Continue(c)

-----------------------------------------------------------------------------
(* build_request and build_reply: the stage that follows a stage. *)

RequestStages ==
  {"parse", "interfaceId", "remoteId", "vssInsert", "relayFwd", "forward"}

ReplyStages ==
  {"parse", "vssExtract", "relayReply", "interfaceIdExtract", "forward"}

AfterRemoteId    == IF VssEnabled THEN "vssInsert" ELSE "relayFwd"
AfterInterfaceId == IF EnableRemoteId THEN "remoteId" ELSE AfterRemoteId

\* The stage after stage s of the request pipeline; "ok" after the last.
NextRequestStage(s) ==
  CASE s = "parse" -> IF EnableInterfaceId THEN "interfaceId"
                                           ELSE AfterInterfaceId
    [] s = "interfaceId" -> AfterInterfaceId
    [] s = "remoteId"    -> AfterRemoteId
    [] s = "vssInsert"   -> "relayFwd"
    [] s = "relayFwd"    -> "forward"
    [] s = "forward"     -> "ok"

\* The stage after stage s of the reply pipeline; "ok" after the last.
NextReplyStage(s) ==
  CASE s = "parse" -> IF VssEnabled THEN "vssExtract" ELSE "relayReply"
    [] s = "vssExtract"         -> "relayReply"
    [] s = "relayReply"         -> "interfaceIdExtract"
    [] s = "interfaceIdExtract" -> "forward"
    [] s = "forward"            -> "ok"
=============================================================================
