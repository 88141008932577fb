-------------------------- MODULE RelayV4Net_proofs --------------------------
(***************************************************************************)
(* Proofs about RelayV4Net, for any number of clients, links,              *)
(* retransmissions and faults of the network.  The relay's own invariants  *)
(* hold whatever reaches its sockets; a second invariant follows a request *)
(* and its reply through the relay, the server and the network.            *)
(***************************************************************************)
EXTENDS RelayV4Net, RelayV4_proofs

\* What the relay does in its network it also does on its own, if any datagram
\* may reach it.
LEMMA NetStepIsOpen ==
  ASSUME wire \subseteq Datagram, [NetNext]_allVars
  PROVE  [OpenNext]_vars
<1>1. CASE UNCHANGED allVars
  BY <1>1 DEF allVars
<1>2. ASSUME NEW i \in Iface, RelayStep(i) \/ RelaySend(i) PROVE OpenNext
  BY <1>2 DEF RelayStep, RelaySend, Handle, OpenNext
<1>3. ASSUME NEW c \in Client, ClientAsk(c) PROVE UNCHANGED vars
  BY <1>3 DEF ClientAsk
<1>4. ASSUME NEW w \in wire, NEW i \in Iface, RelayRecv(i, w) PROVE OpenNext
  <2>1. w.msg \in Datagrams
    BY DEF Datagram, Datagrams
  <2> QED
    BY <1>4, <2>1 DEF RelayRecv, OpenNext, OpenRecv
<1>5. ASSUME NEW w \in wire,
             ServerAnswer(w) \/ Lose(w) \/ \E c \in Client : ClientHear(c, w)
      PROVE  UNCHANGED vars
  BY <1>5 DEF ServerAnswer, Lose, ClientHear
<1> QED
  BY <1>1, <1>2, <1>3, <1>4, <1>5 DEF NetNext

\* A request of a client is a message.
LEMMA DiscoverType ==
  ASSUME NEW c \in Client, NEW n \in 1..MaxTries[c]
  PROVE  Discover(c, n) \in Message
<1>1. <<c, n>> \in Body /\ ClientIp[c] \in Ip
  BY NetAssumption
<1> QED
  BY <1>1, AddressAssumption DEF Discover, Message, MsgType, ClientTypes

\* The types of the network's own variables are preserved.
LEMMA NetTypeStep ==
  ASSUME NetTypeOK, [NetNext]_allVars
  PROVE  NetTypeOK'
<1>1. TypeOK'
  BY NetStepIsOpen, TypeStep DEF NetTypeOK
<1> USE NetAssumption
<1>2. CASE UNCHANGED allVars
  BY <1>1, <1>2 DEF allVars, netVars, NetTypeOK
<1>3. ASSUME NEW i \in Iface, RelayStep(i) PROVE NetTypeOK'
  BY <1>1, <1>3 DEF RelayStep, netVars, NetTypeOK
<1>4. ASSUME NEW i \in Iface, RelaySend(i) PROVE NetTypeOK'
  <2>1. Outgoing(i) \subseteq Sent
    BY <1>4, OutcomeType DEF RelaySend, Send, NetTypeOK
  <2>2. \A o \in Outgoing(i) : [dst |-> o.dst, msg |-> o.msg] \in Datagram
    BY <2>1 DEF Sent, Datagram
  <2>3. wire' \subseteq Datagram
    BY <1>4, <2>2 DEF RelaySend, NetTypeOK
  <2> QED
    BY <1>1, <1>4, <2>3 DEF RelaySend, NetTypeOK
<1>5. ASSUME NEW c \in Client, ClientAsk(c) PROVE NetTypeOK'
  <2>1. /\ tries[c] + 1 \in 1..MaxTries[c]
        /\ tries' \in [Client -> Nat]
        /\ \A k \in Client : tries'[k] <= MaxTries[k]
    BY <1>5 DEF ClientAsk, NetTypeOK
  <2>2. Discover(c, tries[c] + 1) \in Message
    BY <2>1, DiscoverType
  <2>3. AskAddr[c] \in SockAddr
    OBVIOUS
  <2>4. wire' \subseteq Datagram
    BY <1>5, <2>2, <2>3 DEF ClientAsk, NetTypeOK, Datagram
  <2> QED
    BY <1>1, <1>5, <2>1, <2>4 DEF ClientAsk, NetTypeOK
<1>6. ASSUME NEW w \in wire, NEW i \in Iface, RelayRecv(i, w) PROVE NetTypeOK'
  <2>1. wire' \subseteq wire /\ faults' \in 0..MaxFaults /\ faults' >= faults
    BY <1>6 DEF RelayRecv, Deliver, NetTypeOK
  <2> QED
    BY <1>1, <1>6, <2>1 DEF RelayRecv, NetTypeOK
<1>7. ASSUME NEW w \in wire, ServerAnswer(w) PROVE NetTypeOK'
  <2> DEFINE answer == [dst  |-> [ip |-> w.msg.giaddr, port |-> ServerPort],
                        msg  |-> [w.msg EXCEPT !.mtype = "Offer"]]
  <2>1. w \in Datagram
    BY DEF NetTypeOK
  <2>2. [w.msg EXCEPT !.mtype = "Offer"] \in Message
    BY <2>1 DEF Datagram, Message, MsgType, OtherTypes
  <2>3. answer \in Datagram
    BY <2>1, <2>2 DEF Datagram, SockAddr, ServerPort, Message
  <2>4. wire' \subseteq Datagram
    BY <1>7, <2>3 DEF ServerAnswer, NetTypeOK
  <2> QED
    BY <1>1, <1>7, <2>4 DEF ServerAnswer, NetTypeOK
<1>8. ASSUME NEW w \in wire, NEW c \in Client, ClientHear(c, w) PROVE NetTypeOK'
  BY <1>1, <1>8 DEF ClientHear, NetTypeOK
<1>9. ASSUME NEW w \in wire, Lose(w) PROVE NetTypeOK'
  BY <1>1, <1>9 DEF Lose, NetTypeOK
<1> QED
  BY <1>2, <1>3, <1>4, <1>5, <1>6, <1>7, <1>8, <1>9 DEF NetNext

\* Whatever the network does, the tasks and the datagrams in flight stay
\* well-typed, and no more is lost or duplicated than the bound allows.
THEOREM NetTypeCorrect == NetSpec => []NetTypeOK
<1>1. NetInit => NetTypeOK
  <2>1. Init => TypeOK
    BY DEF Init, TypeOK, Pc, TaskOK, Counters, Stages, RequestStages, ReplyStages
  <2> QED
    BY <2>1, NetAssumption DEF NetInit, NetTypeOK
<1>2. NetTypeOK /\ [NetNext]_allVars => NetTypeOK'
  BY NetTypeStep
<1> QED
  BY <1>1, <1>2, PTL DEF NetSpec

\* The closed forms of the pipelines hold in the network, too.
THEOREM PipelinesInNetwork == NetSpec => [](NetTypeOK /\ PipelineInv)
<1>1. NetInit => PipelineInv
  BY DEF NetInit, Init, PipelineInv, TaskInv
<1>2. NetTypeOK /\ PipelineInv /\ [NetNext]_allVars => PipelineInv'
  BY NetStepIsOpen, PipelineInvStep DEF NetTypeOK
<1> QED
  BY <1>1, <1>2, NetTypeCorrect, PTL DEF NetSpec

-----------------------------------------------------------------------------
(* The way of a request and its reply. *)

\* Message m belongs to a client of the link of interface i.
OfLink(i, m) == ClientOf(m) \in Client /\ LinkOf[ClientOf(m)] = i

\* Message m has been stamped with the address of its client's link.
Stamped(m) ==
  /\ ClientOf(m) \in Client
  /\ m.giaddr = IfaceIp(LinkOf[ClientOf(m)])

\* A datagram in flight carries a request that its client has sent, or a
\* stamped request, or a stamped reply: on its way to the relay agent that
\* giaddr names, or to a client.
WireInv ==
  \A w \in wire :
    IF IsClient(w.msg)
      THEN \/ /\ ClientOf(w.msg) \in Client
              /\ w.dst = AskAddr[ClientOf(w.msg)]
              /\ FirstHop(w.msg)
           \/ Stamped(w.msg)
      ELSE /\ Stamped(w.msg)
           /\ \/ w.dst = [ip |-> w.msg.giaddr, port |-> ServerPort]
              \/ w.dst.port = ClientPort

\* What a task handles: a first-hop request of its own link, a stamped request
\* that has come back, or a reply to a client of its own link.
Handled(i) ==
  LET d == ctx[i].raw_in IN
  IF IsClient(d) THEN (FirstHop(d) /\ OfLink(i, d)) \/ Stamped(d)
                 ELSE OfLink(i, d) /\ Stamped(d)

LinkInv ==
  /\ WireInv
  /\ \A i \in Iface : pc[i] # "recv" => Handled(i)
  /\ ReplyOnClientsLink

\* What the pipelines change of a message is not whom it belongs to.
LEMMA FinalBody ==
  ASSUME NEW i \in Iface, NEW d \in Message
  PROVE  /\ ClientOf(FinalRequest(i, d)) = ClientOf(d)
         /\ ClientOf(FinalReply(d)) = ClientOf(d)
         /\ IsClient(FinalRequest(i, d)) <=> IsClient(d)
         /\ IsClient(FinalReply(d)) <=> IsClient(d)
         /\ FirstHop(d) => FinalRequest(i, d).giaddr = IfaceIp(i)
         /\ FinalReply(d).giaddr = d.giaddr
<1>1. /\ FinalRequest(i, d).body = d.body /\ FinalReply(d).body = d.body
      /\ FinalRequest(i, d).mtype = d.mtype /\ FinalReply(d).mtype = d.mtype
      /\ FirstHop(d) => FinalRequest(i, d).giaddr = IfaceIp(i)
      /\ FinalReply(d).giaddr = d.giaddr
  BY DEF FinalRequest, FinalReply, Message
<1> QED
  BY <1>1 DEF ClientOf, IsClient

\* A socket of the relay gets first-hop requests of its own link only, and
\* replies that the server addressed to it.
LEMMA ReceivedFromLink ==
  ASSUME NetTypeOK, WireInv, NEW w \in wire, NEW i \in Iface, ReachesSocket(i, w)
  PROVE  IF IsClient(w.msg)
           THEN (FirstHop(w.msg) /\ OfLink(i, w.msg)) \/ Stamped(w.msg)
           ELSE OfLink(i, w.msg) /\ Stamped(w.msg)
<1>1. BindAddr[i] \in SockAddr /\ BindAddr[i].ip = IfaceIp(i) /\ w.dst = BindAddr[i]
  BY AddressAssumption DEF IfaceIp, ReachesSocket
<1>2. BindAddr[i].ip # Broadcast /\ BindAddr[i].port # ClientPort
  BY LinkAssumption
<1> DEFINE j == LinkOf[ClientOf(w.msg)]
<1>3. ClientOf(w.msg) \in Client => j \in Iface
  BY NetAssumption
<1>4. CASE IsClient(w.msg)
  <2>1. SUFFICES ASSUME ~Stamped(w.msg)
                 PROVE  FirstHop(w.msg) /\ OfLink(i, w.msg)
    BY <1>4
  <2>2. /\ ClientOf(w.msg) \in Client /\ FirstHop(w.msg)
        /\ w.dst = AskAddr[ClientOf(w.msg)]
    BY <1>4, <2>1 DEF WireInv
  <2>3. BindAddr[i] = BindAddr[j]
    BY <1>1, <1>2, <2>2, AskAssumption
  <2>4. i = j
    BY <1>3, <2>2, <2>3, LinkAssumption
  <2> QED
    BY <2>2, <2>4 DEF OfLink
<1>5. CASE ~IsClient(w.msg)
  <2>1. Stamped(w.msg) /\ w.dst = [ip |-> w.msg.giaddr, port |-> ServerPort]
    BY <1>1, <1>2, <1>5 DEF WireInv
  <2>2. IfaceIp(i) = IfaceIp(j)
    BY <1>1, <2>1 DEF Stamped
  <2>3. i = j
    BY <1>3, <2>1, <2>2, LinkAssumption DEF IfaceIp, Stamped
  <2> QED
    BY <1>5, <2>1, <2>3 DEF OfLink, Stamped
<1> QED
  BY <1>4, <1>5

\* What a task sends belongs to its own link: requests are stamped with its
\* address, replies go to the client port.
LEMMA SentOnLink ==
  ASSUME NetTypeOK, PipelineInv, NEW i \in Iface, pc[i] = "send", Handled(i)
  PROVE  LET m == ctx[i].buffer IN
         /\ Stamped(m) /\ OfLink(i, m)
         /\ ~IsClient(m) => ctx[i].dst_addr.port = ClientPort
<1> DEFINE d == ctx[i].raw_in
           m == ctx[i].buffer
<1>1. ctx[i] \in Context /\ d \in Message /\ TaskInv(i)
  BY BusyTask DEF NetTypeOK, PipelineInv, Context
<1>2. CASE pipe[i].dir = "request"
  <2>1. IsClient(d) /\ Admissible(d) /\ m = FinalRequest(i, d)
    BY <1>1, <1>2 DEF TaskInv, RequestInv, PastValidation
  <2>2. FirstHop(d) /\ OfLink(i, d)
    <3>1. Stamped(d) => d.giaddr \in LocalAddrs /\ ~FirstHop(d)
      BY AddressAssumption, LinkAssumption, NetAssumption DEF Stamped, FirstHop, IfaceIp
    <3> QED
      BY <2>1, <3>1 DEF Handled, Admissible
  <2> QED
    BY <1>1, <2>1, <2>2, FinalBody DEF OfLink, Stamped
<1>3. CASE pipe[i].dir # "request"
  <2>1. /\ ~IsClient(d) /\ m = FinalReply(d)
        /\ ctx[i].dst_addr.port = ClientPort
    BY <1>1, <1>3 DEF TaskInv, ReplyInv
  <2>2. OfLink(i, d) /\ Stamped(d)
    BY <2>1 DEF Handled
  <2> QED
    BY <1>1, <2>1, <2>2, FinalBody DEF OfLink, Stamped
<1> QED
  BY <1>2, <1>3

\* A handler keeps the datagram it was called with until it returns.
LEMMA HandlerKeepsDatagram ==
  ASSUME TypeOK, NEW i \in Iface, Handle(i), pc'[i] # "recv"
  PROVE  pc[i] # "recv" /\ ctx'[i].raw_in = ctx[i].raw_in
<1>1. CASE StageStep(i)
  <2>1. pc[i] # "recv"
    BY <1>1 DEF StageStep, Parse, ValidateGiaddr, Option82Insert, VssInsert,
                SetGiaddr, Forward, VssCheck, Option82Strip, ReplyAddr, Execute
  <2>2. Handling'[i] = Handling[i]
    BY <1>1, StageStepStutters
  <2>3. /\ Handling[i] = [no |-> pipe[i].no, d |-> ctx[i].raw_in]
        /\ Handling'[i] = [no |-> pipe'[i].no, d |-> ctx'[i].raw_in]
    BY <2>1 DEF Handling
  <2> QED
    BY <2>1, <2>2, <2>3
<1>2. CASE Forwarded(i)
  BY <1>2 DEF Forwarded
<1>3. CASE Send(i) \/ Halted(i) \/ Failed(i)
  BY <1>3 DEF Send, Halted, Failed, Idle, TypeOK
<1> QED
  BY <1>1, <1>2, <1>3 DEF Handle, StageStep

\* A step of the handler of task i preserves what is known of the tasks.
LEMMA HandleKeepsLink ==
  ASSUME TypeOK, \A j \in Iface : pc[j] # "recv" => Handled(j),
         NEW i \in Iface, Handle(i), NEW j \in Iface, pc'[j] # "recv"
  PROVE  Handled(j)'
<1>1. pc[j] # "recv" /\ ctx'[j].raw_in = ctx[j].raw_in
  <2>1. CASE j = i
    BY <2>1, HandlerKeepsDatagram
  <2>2. CASE j # i
    BY <2>2, OtherTasks
  <2> QED
    BY <2>1, <2>2
<1>2. Handled(j)
  BY <1>1
<1> QED
  BY <1>1, <1>2 DEF Handled

\* LinkInv is preserved by every step of clients, server, network and relay.
LEMMA LinkInvStep ==
  ASSUME NetTypeOK, PipelineInv, LinkInv, [NetNext]_allVars
  PROVE  LinkInv'
<1>0. /\ TypeOK /\ WireInv /\ ReplyOnClientsLink
      /\ \A i \in Iface : pc[i] # "recv" => Handled(i)
  BY DEF NetTypeOK, LinkInv
<1>1. ASSUME UNCHANGED vars
      PROVE  /\ \A i \in Iface : (pc[i] # "recv" => Handled(i))'
             /\ ReplyOnClientsLink'
  BY <1>0, <1>1 DEF vars, Handled, ReplyOnClientsLink
<1>2. ASSUME wire' \subseteq wire PROVE WireInv'
  BY <1>0, <1>2 DEF WireInv
<1>3. CASE UNCHANGED allVars
  BY <1>1, <1>2, <1>3 DEF allVars, netVars, LinkInv
<1>4. ASSUME NEW i \in Iface, RelayStep(i) PROVE LinkInv'
  <2>1. Handle(i) /\ pc[i] # "send" /\ UNCHANGED netVars
    BY <1>4 DEF RelayStep
  <2>2. UNCHANGED sent
    BY <2>1 DEF Handle, Parse, ValidateGiaddr, Option82Insert, VssInsert, SetGiaddr,
                Forward, VssCheck, Option82Strip, ReplyAddr, Execute, Forwarded,
                Send, Halted, Failed
  <2> QED
    BY <1>0, <1>2, <2>1, <2>2, HandleKeepsLink
    DEF netVars, LinkInv, ReplyOnClientsLink
<1>5. ASSUME NEW i \in Iface, RelaySend(i) PROVE LinkInv'
  <2>1. Handle(i) /\ pc[i] = "send"
    BY <1>5 DEF RelaySend, Handle, Send
  <2>2. ctx[i] \in Context /\ Handled(i)
    BY <1>0, <2>1, BusyTask
  <2> DEFINE m == ctx[i].buffer
             u == [dst |-> ctx[i].dst_addr, msg |-> m]
  <2>3. /\ Stamped(m) /\ OfLink(i, m)
        /\ ~IsClient(m) => ctx[i].dst_addr.port = ClientPort
    BY <2>1, <2>2, SentOnLink
  <2>4. wire' \subseteq wire \cup {u}
    BY <1>5 DEF RelaySend, Outgoing
  <2>5. u.msg = m /\ u.dst = ctx[i].dst_addr
    OBVIOUS
  <2>6. ReplyOnClientsLink'
    <3>1. \A s \in sent' : s \in sent \/ (s.iface = i /\ s.msg = m)
      BY <1>5 DEF RelaySend, Send, Outgoing
    <3>2. LinkOf[ClientOf(m)] = i
      BY <2>3 DEF OfLink
    <3> HIDE DEF m
    <3> QED
      BY <1>0, <3>1, <3>2 DEF ReplyOnClientsLink
  <2> HIDE DEF u, m
  <2>7. WireInv'
    BY <1>0, <2>3, <2>4, <2>5 DEF WireInv
  <2> QED
    BY <1>0, <2>1, <2>6, <2>7, HandleKeepsLink DEF LinkInv
<1>6. ASSUME NEW c \in Client, ClientAsk(c) PROVE LinkInv'
  <2> DEFINE m == Discover(c, tries[c] + 1)
             u == [dst |-> AskAddr[c], msg |-> m]
  <2>1. IsClient(m) /\ FirstHop(m) /\ ClientOf(m) = c
    BY DEF Discover, IsClient, ClientTypes, FirstHop, ClientOf
  <2>2. wire' = wire \cup {u} /\ UNCHANGED vars
    BY <1>6 DEF ClientAsk
  <2>3. u.msg = m /\ u.dst = AskAddr[c]
    OBVIOUS
  <2> HIDE DEF u, m
  <2>4. WireInv'
    BY <1>0, <2>1, <2>2, <2>3 DEF WireInv
  <2> QED
    BY <1>1, <2>2, <2>4 DEF LinkInv
<1>7. ASSUME NEW w \in wire, NEW i \in Iface, RelayRecv(i, w) PROVE LinkInv'
  <2>1. w.msg \in Message /\ (RecvClient(i, w.msg) \/ RecvServer(i, w.msg))
    BY <1>7 DEF NetTypeOK, Datagram, RelayRecv
  <2>2. ctx'[i].raw_in = w.msg
    BY <1>0, <2>1 DEF RecvClient, RecvServer, NewContext, TypeOK
  <2>3. Handled(i)'
    BY <1>0, <1>7, <2>2, ReceivedFromLink DEF RelayRecv, Handled
  <2>4. ASSUME NEW j \in Iface, j # i
        PROVE  pc'[j] = pc[j] /\ ctx'[j] = ctx[j]
    BY <1>0, <2>1, <2>4 DEF RecvClient, RecvServer, TypeOK
  <2>5. ASSUME NEW j \in Iface, pc'[j] # "recv" PROVE Handled(j)'
    BY <1>0, <2>3, <2>4, <2>5 DEF Handled
  <2>6. wire' \subseteq wire
    BY <1>7 DEF RelayRecv, Deliver
  <2> QED
    BY <1>0, <1>2, <2>1, <2>5, <2>6
    DEF LinkInv, RecvClient, RecvServer, ReplyOnClientsLink
<1>8. ASSUME NEW w \in wire, ServerAnswer(w) PROVE LinkInv'
  <2> DEFINE m == [w.msg EXCEPT !.mtype = "Offer"]
             u == [dst  |-> [ip |-> w.msg.giaddr, port |-> ServerPort],
                   msg  |-> m]
  <2>1. w \in Datagram /\ w.msg \in Message /\ w.dst \in SockAddr
    BY DEF NetTypeOK, Datagram
  <2>2. Stamped(w.msg)
    <3>1. w.dst = Server /\ IsClient(w.msg)
      BY <1>8 DEF ServerAnswer, IsClient
    <3>2. Server # NoAddr /\ Server.ip # Broadcast
      BY <2>1, <3>1, AddressAssumption, LinkAssumption
    <3>3. ASSUME NEW c \in Client PROVE AskAddr[c] # Server
      <4>1. LinkOf[c] \in Iface
        BY NetAssumption
      <4> QED
        BY <3>2, <4>1, AskAssumption, LinkAssumption
    <3> QED
      BY <1>0, <3>1, <3>3 DEF WireInv
  <2>3. /\ m.mtype = "Offer" /\ m.giaddr = w.msg.giaddr /\ m.body = w.msg.body
    BY <2>1 DEF Message
  <2>4. ~IsClient(m) /\ Stamped(m)
    BY <2>2, <2>3 DEF IsClient, ClientTypes, Stamped, ClientOf
  <2>5. wire' \subseteq wire \cup {u} /\ UNCHANGED vars
    BY <1>8 DEF ServerAnswer
  <2>6. u.msg = m /\ u.dst = [ip |-> m.giaddr, port |-> ServerPort]
    BY <2>3
  <2> HIDE DEF u, m
  <2>7. WireInv'
    BY <1>0, <2>4, <2>5, <2>6 DEF WireInv
  <2> QED
    BY <1>1, <2>5, <2>7 DEF LinkInv
<1>9. ASSUME NEW w \in wire, Lose(w) \/ \E c \in Client : ClientHear(c, w)
      PROVE  LinkInv'
  BY <1>1, <1>2, <1>9 DEF Lose, ClientHear, LinkInv
<1> QED
  BY <1>3, <1>4, <1>5, <1>6, <1>7, <1>8, <1>9 DEF NetNext

\* A reply is sent by the task that serves the link of the client that asked,
\* for any number of clients and links, however often requests are
\* retransmitted, lost, duplicated or overtaken: the relay remembers nothing
\* between a request and its reply, and giaddr alone brings the reply back.
THEOREM RepliesReachTheirLink == NetSpec => []ReplyOnClientsLink
<1>1. NetInit => LinkInv
  BY DEF NetInit, Init, LinkInv, WireInv, ReplyOnClientsLink
<1>2. NetTypeOK /\ PipelineInv /\ LinkInv /\ [NetNext]_allVars => LinkInv'
  BY LinkInvStep
<1>3. LinkInv => ReplyOnClientsLink
  BY DEF LinkInv
<1> QED
  BY <1>1, <1>2, <1>3, PipelinesInNetwork, PTL DEF NetSpec
=============================================================================
