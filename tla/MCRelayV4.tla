------------------------------ MODULE MCRelayV4 ------------------------------
(***************************************************************************)
(* Small instances of RelayV4 for TLC: two interfaces, one foreign relay   *)
(* agent, one server, and inputs that cover every case the stages tell     *)
(* apart.                                                                  *)
(***************************************************************************)
EXTENDS RelayV4

CONSTANTS i1, i2, ip1, ip2, ip3, ipRelay, ipServer, ipClient, c1, r1, v1, f1

MCIp == {Unspecified, Broadcast, ip1, ip2, ip3, ipRelay, ipServer, ipClient}

MCBindAddr == [i \in {i1, i2} |-> [ip |-> IF i = i1 THEN ip1 ELSE ip2,
                                   port |-> 67]]

\* ip3 belongs to a disabled interface, which is local all the same.
MCLocalAddrs == {ip1, ip2, ip3}

MCServer == [ip |-> ipServer, port |-> 67]

MCData == {EmptyData, ZeroByte, c1, r1, v1, f1}

None82 == [code \in SubCode |-> Absent]

\* What this relay inserts, what a foreign agent inserts, and an option with
\* flags, which relay_info_to_sub_opt converts with loss.
SomeOpt82 == {NoOpt82,
              [None82 EXCEPT !["circuit"] = c1, !["remote"] = r1],
              [None82 EXCEPT !["circuit"] = f1, !["vss"] = f1],
              [None82 EXCEPT !["flags"] = f1]}

Msg(t, g, c, o) ==
  [mtype |-> t, giaddr |-> g, ciaddr |-> c, opt82 |-> o, body |-> "b"]

Requests ==
  {Msg("Discover", g, Unspecified, o) :
     g \in {Unspecified, ip1, ip3, ipRelay}, o \in SomeOpt82}

Replies ==
  {Msg("Offer", ip1, c, o) : c \in {Unspecified, ipClient}, o \in SomeOpt82}

MCInput ==
  Requests \cup Replies \cup
  {Garbage, Msg("Release", Unspecified, ipClient, NoOpt82),
   Msg("Untyped", Unspecified, Unspecified, NoOpt82)}

\* The requests as this relay stamps them at the first hop, which may come
\* back to it.
MCLoopInput ==
  MCInput \cup
  {Msg("Discover", g, Unspecified, o) :
     g \in {ip1, ip2}, o \in {NoOpt82, [None82 EXCEPT !["circuit"] = c1]}}
=============================================================================
