---------------------------- MODULE MCRelayV4Net ----------------------------
(***************************************************************************)
(* A small instance of RelayV4Net for TLC with one client of each kind: k1 *)
(* has an address and knows the relay's, k2 knows the relay's but has      *)
(* none, and k3 broadcasts.                                                *)
(***************************************************************************)
EXTENDS RelayV4Net

CONSTANTS i1, i2, ip1, ip2, ipServer, ipClient, c1, k1, k2, k3

MCIp == {Unspecified, Broadcast, ip1, ip2, ipServer, ipClient}
MCBindAddr == [i \in {i1, i2} |-> [ip |-> IF i = i1 THEN ip1 ELSE ip2,
                                   port |-> ServerPort]]
MCLocalAddrs == {ip1, ip2}
MCServer == [ip |-> ipServer, port |-> ServerPort]
MCData == {EmptyData, ZeroByte, c1}
MCLinkOf == [k \in Client |-> IF k = k1 THEN i1 ELSE i2]
MCClientIp == [k \in Client |-> IF k = k1 THEN ipClient ELSE Unspecified]
MCAskAddr ==
  [k \in Client |-> IF k = k3 THEN [ip |-> Broadcast, port |-> ServerPort]
                              ELSE MCBindAddr[MCLinkOf[k]]]

\* Client k1 may ask again after a loss.
MCMaxTries == [k \in Client |-> IF k = k1 THEN 2 ELSE 1]

\* The identity of a client and the number of its transmission.
MCBody == Client \X (1..2)

\* The view leaves out history: the numbers that datagrams get when they are
\* received, what was dropped, and all counters but the one that MaxReceived
\* bounds.  No guard and none of the properties checked here reads them (the
\* expected sub-options of a pipeline are a function of ctx.raw_in), so states
\* that differ only in them behave alike.
MCView ==
  <<pc, ctx, [i \in Iface |-> pipe[i].dir], stats["received"],
    {[iface |-> s.iface, dir |-> s.dir, msg |-> s.msg] : s \in sent}, netVars>>
=============================================================================
