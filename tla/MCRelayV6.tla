------------------------------ MODULE MCRelayV6 ------------------------------
(***************************************************************************)
(* A small instance of RelayV6 for TLC.  The inputs cover every case that  *)
(* the receive loop, the stages and the codec tell apart; the lengths are  *)
(* the real ones, at and next to each limit.                               *)
(***************************************************************************)
EXTENDS RelayV6

CONSTANTS i1, i2, ip1, ip2, ipServer, ipClient, name1, name2, rid, vss, bad

MCIp == {Unspecified, ip1, ip2, ipServer, ipClient}

MCBindAddr == [i \in {i1, i2} |-> [ip |-> IF i = i1 THEN ip1 ELSE ip2,
                                   port |-> 547]]

MCServer == [ip |-> ipServer, port |-> 547]
Client == [ip |-> ipClient, port |-> 546]

MCData == {name1, name2, rid, vss, bad}
MCDataLen == [v \in MCData |-> IF v = rid THEN 40 ELSE 4]
MCIfaceName == [i \in {i1, i2} |-> IF i = i1 THEN name1 ELSE name2]

\* What the stages and encapsulate add to a request: three options, one of
\* them of 40 bytes, and the header with the relay-message option.
Overhead == 8 + 44 + 8 + 38

InterfaceIdOf(v) == [code |-> "interface_id", val |-> v]

CoreOf(t, o, n) == [mtype |-> t, opts |-> o, size |-> n, rest |-> 0]
CutCore(t, n, r) == [mtype |-> t, opts |-> {}, size |-> n, rest |-> r]

\* The shortest message, one that is too short, the longest that can be
\* relayed, one byte more, the longest that can be received, which overflows
\* the length field, and two with an option that cannot be read: one of them
\* fits a datagram only without that option.
Clients ==
  {CoreOf("Solicit", {}, n) :
     n \in {3, 4, MaxUdp - Overhead, MaxUdp - Overhead + 1, MaxUdp}}
  \cup {CoreOf("Renew", {InterfaceIdOf(bad)}, 12)}
  \cup {CutCore("Request", n, 8) : n \in {4, MaxUdp - Overhead}}

RelayMsg(n)  == [code |-> "relay_msg", len |-> n, room |-> n]
OtherOpt(n)  == [code |-> "other", len |-> 4, room |-> 8 + n]
CutShort(n)  == [code |-> "relay_msg", len |-> n, room |-> n - 1]
OtherCut     == [code |-> "other", len |-> 4, room |-> 3]

Hdr(t, o) == [mtype |-> t, hop |-> 0, link |-> Unspecified,
              peer |-> Unspecified, opts |-> o]

Msg(l, c) == [layers |-> l, core |-> c]

Advertise == CoreOf("Advertise", {InterfaceIdOf(name1)}, 12)

\* One header around every kind of core; every kind of option list around an
\* advertise; a second header inside the first.
Replies ==
  {Msg(<<Hdr("RelayRepl", <<RelayMsg(ByteLen(c))>>)>>, c) :
     c \in {Advertise, CoreOf("Reply", {InterfaceIdOf(bad)}, 12),
            CutCore("Reply", 4, 8), CoreOf("Reply", {}, 3), CoreOf("None", {}, 0),
            CoreOf("RelayRepl", {}, 33)}}
  \cup
  {Msg(<<Hdr("RelayRepl", o)>>, Advertise) :
     o \in {<<>>, <<OtherOpt(12)>>, <<OtherOpt(12), RelayMsg(12)>>,
            <<OtherCut>>, <<CutShort(12)>>}}
  \cup
  {Msg(<<Hdr("RelayRepl", <<RelayMsg(50)>>), Hdr(t, o)>>, Advertise) :
     t \in {"RelayRepl", "RelayForw"}, o \in {<<RelayMsg(12)>>, <<>>}}
  \cup
  {Msg(<<>>, CoreOf("RelayRepl", {}, n)) : n \in {3, 33}}

\* Datagrams that no handler is called for.
Others ==
  {Msg(<<>>, Advertise), Msg(<<>>, CoreOf("None", {}, 0)),
   Msg(<<Hdr("RelayForw", <<RelayMsg(4)>>)>>, CoreOf("Solicit", {}, 4))}

MCInput ==
  {[data |-> m, src |-> Client] : m \in {Msg(<<>>, c) : c \in Clients}}
  \cup {[data |-> m, src |-> MCServer] : m \in Replies \cup Others}
=============================================================================
