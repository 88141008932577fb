------------------------------ MODULE RelayV4Net ------------------------------
(***************************************************************************)
(* The relay in its network: clients on the links of its interfaces, a     *)
(* DHCP server behind it, and UDP between them, which may lose, duplicate  *)
(* and reorder datagrams.  Clients retransmit until they hear an answer.   *)
(* The relay is RelayV4, action for action; the clients, the server and    *)
(* the network are external and modelled from how the relay uses them.     *)
(***************************************************************************)
EXTENDS RelayV4

CONSTANTS
  Client,     \* the clients
  LinkOf,     \* LinkOf[c]: the interface whose link client c is on
  ClientIp,   \* ClientIp[c]: the ciaddr that client c uses
  AskAddr,    \* AskAddr[c]: where client c sends its requests to
  MaxTries,   \* MaxTries[c]: bound on the transmissions of client c
  MaxFaults   \* bound on the losses and duplications of the network

ASSUME NetAssumption ==
  /\ MaxTries \in [Client -> Nat]
  /\ \A c \in Client : {c} \X (1..MaxTries[c]) \subseteq Body
  /\ LinkOf \in [Client -> Iface]
  /\ ClientIp \in [Client -> Ip]
  /\ AskAddr \in [Client -> SockAddr]
  /\ MaxFaults \in Nat

\* A client broadcasts, or it knows the address of the relay on its link.
ASSUME AskAssumption ==
  \A c \in Client : AskAddr[c] = BindAddr[LinkOf[c]] \/ AskAddr[c].ip = Broadcast

\* What makes giaddr name a link: the interfaces have addresses of their own,
\* none is bound to 0.0.0.0 or to the broadcast address, none to the port of
\* the clients, and the server listens on an address of its own.
ASSUME LinkAssumption ==
  /\ \A i, j \in Iface : BindAddr[i].ip = BindAddr[j].ip => i = j
  /\ \A i \in Iface : /\ BindAddr[i].ip \notin {Unspecified, Broadcast}
                      /\ BindAddr[i].port # ClientPort
                      /\ BindAddr[i] # Server
  /\ Server # NoAddr => Server.ip # Broadcast

VARIABLES
  wire,    \* the datagrams in flight
  tries,   \* tries[c]: how often client c has transmitted
  served,  \* the clients that have heard an answer
  faults,  \* how often the network has lost or duplicated a datagram
  lost     \* how many datagrams it has lost

netVars == <<wire, tries, served, faults, lost>>
allVars == <<vars, netVars>>

ServerPort == 67

\* A datagram in flight.
Datagram == [dst : SockAddr, msg : Message]

\* The types of the variables, those of the relay tasks included.
NetTypeOK ==
  /\ TypeOK
  /\ wire \subseteq Datagram
  /\ tries \in [Client -> Nat] /\ \A c \in Client : tries[c] <= MaxTries[c]
  /\ served \subseteq Client
  /\ faults \in 0..MaxFaults
  /\ lost \in 0..faults

NetInit ==
  /\ Init
  /\ wire = {}
  /\ tries = [c \in Client |-> 0]
  /\ served = {}
  /\ faults = 0
  /\ lost = 0

\* The n-th request of client c; the body tells client and transmission (the
\* secs field) apart.
Discover(c, n) ==
  [mtype |-> "Discover", giaddr |-> Unspecified, ciaddr |-> ClientIp[c],
   opt82 |-> NoOpt82, body |-> <<c, n>>]

ClientOf(m) == m.body[1]

\* A client sends its request, again if it hears nothing.
ClientAsk(c) ==
  /\ c \notin served
  /\ tries[c] < MaxTries[c]
  /\ tries' = [tries EXCEPT ![c] = @ + 1]
  /\ wire' = wire \cup {[dst |-> AskAddr[c], msg |-> Discover(c, tries[c] + 1)]}
  /\ UNCHANGED <<vars, served, faults, lost>>

\* Whether datagram w reaches the socket of interface i.  UdpTransport::bind
\* binds it to one unicast address, and a socket bound to a unicast address
\* receives no broadcasts.
ReachesSocket(i, w) == w.dst = BindAddr[i]

\* Whether send_to puts a datagram to address a on the wire.
\* UdpTransport::bind does not enable SO_BROADCAST, without which the send to
\* the broadcast address fails.
CanSendTo(a) == a.ip # Broadcast

\* Whether datagram w reaches client c.
ReachesClient(c, w) ==
  /\ w.dst = [ip |-> ClientIp[c], port |-> ClientPort]
  /\ ClientIp[c] # Unspecified

\* Delivery takes w from the wire, or leaves a duplicate behind.
Deliver(w) ==
  \/ wire' = wire \ {w} /\ UNCHANGED faults
  \/ wire' = wire /\ faults < MaxFaults /\ faults' = faults + 1

RelayRecv(i, w) ==
  /\ ReachesSocket(i, w)
  /\ RecvClient(i, w.msg) \/ RecvServer(i, w.msg)
  /\ Deliver(w)
  /\ UNCHANGED <<tries, served, lost>>

\* A task sends; the handlers ignore it if send_to fails.
RelaySend(i) ==
  /\ Send(i)
  /\ wire' = wire \cup {[dst |-> o.dst, msg |-> o.msg] :
                        o \in {p \in Outgoing(i) : CanSendTo(p.dst)}}
  /\ UNCHANGED <<tries, served, faults, lost>>

\* Everything a task does but receive and send.
RelayStep(i) ==
  /\ pc[i] # "send"
  /\ Handle(i)
  /\ UNCHANGED netVars

\* The server answers a request to the relay agent named in giaddr and echoes
\* the Option 82 it received.
ServerAnswer(w) ==
  /\ w.dst = Server
  /\ w.msg.mtype \in ClientTypes
  /\ LET answer == [dst  |-> [ip |-> w.msg.giaddr, port |-> ServerPort],
                    msg  |-> [w.msg EXCEPT !.mtype = "Offer"]]
     IN  wire' = (wire \ {w}) \cup {answer}
  /\ UNCHANGED <<vars, tries, served, faults, lost>>

\* A client that a reply reaches takes it if it answers its own request.
ClientHear(c, w) ==
  /\ ReachesClient(c, w)
  /\ ClientOf(w.msg) = c
  /\ served' = served \cup {c}
  /\ wire' = wire \ {w}
  /\ UNCHANGED <<vars, tries, faults, lost>>

Lose(w) ==
  /\ faults < MaxFaults
  /\ wire' = wire \ {w}
  /\ faults' = faults + 1
  /\ lost' = lost + 1
  /\ UNCHANGED <<vars, tries, served>>

NetNext ==
  \/ \E i \in Iface : RelayStep(i) \/ RelaySend(i)
  \/ \E c \in Client : ClientAsk(c)
  \/ \E w \in wire :
       \/ \E i \in Iface : RelayRecv(i, w)
       \/ ServerAnswer(w)
       \/ \E c \in Client : ClientHear(c, w)
       \/ Lose(w)

\* The tasks of the relay are scheduled; clients retransmit; the network loses
\* no more than MaxFaults datagrams and delivers the others.
NetFairness ==
  /\ \A i \in Iface : WF_allVars(RelayStep(i) \/ RelaySend(i))
  /\ \A i \in Iface : WF_allVars(\E w \in wire : RelayRecv(i, w))
  /\ WF_allVars(\E w \in wire : ServerAnswer(w))
  /\ \A c \in Client : WF_allVars(ClientAsk(c))
  /\ \A c \in Client : WF_allVars(\E w \in wire : ClientHear(c, w))

NetSpec == NetInit /\ [][NetNext]_allVars /\ NetFairness

-----------------------------------------------------------------------------
(* Properties *)

\* A reply is sent by the task that serves the link of the client that asked,
\* whether it goes to the client's address or is to be broadcast: giaddr,
\* stamped on the way in, brings the server's answer back to that task,
\* however datagrams were reordered or duplicated.
ReplyOnClientsLink ==
  \A s \in sent : s.dir = "reply" => s.iface = LinkOf[ClientOf(s.msg)]

\* A client that the relay can hear and answer: it sends its requests to the
\* socket of its link and has an address.
Reachable(c) ==
  AskAddr[c] = BindAddr[LinkOf[c]] /\ ClientIp[c] \notin {Unspecified, Broadcast}

\* Round trip: a client that the relay can hear and answer and that asks more
\* often than datagrams are lost gets an answer in the end, through the
\* request pipeline, the server and the reply pipeline, whatever is lost,
\* duplicated or overtaken on the way.  It says nothing of a client that
\* broadcasts or has no address: the relay neither hears the one nor gets a
\* reply out to the other.
EveryClientServed ==
  \A c \in Client :
    Reachable(c) => <>(c \in served \/ lost >= MaxTries[c])
=============================================================================
