----------------------------- MODULE SmfFlooding -----------------------------
(***************************************************************************)
(* Nodes that flood multicast packets through SmfEngine::process_packet    *)
(* (src/src/smf/engine.rs, forwarding.rs, relay_set.rs).  The engine keeps *)
(* no state: its DPD cache is not consulted by process_packet, so that the *)
(* TTL alone ends the circulation of a packet in a cyclic topology.        *)
(*                                                                         *)
(* The topology, the hosts and the medium are external: a packet that      *)
(* process_packet returns is heard by every neighbor, the one it came from *)
(* included, unless it is lost.  Copies of a packet that are on their way  *)
(* to the same node with the same TTL are one element of `air'.            *)
(***************************************************************************)
EXTENDS Naturals, Sequences, FiniteSets

CONSTANTS
  Node,         \* the nodes, each with an SmfEngine
  Neighbors,    \* Neighbors[n]: the nodes that hear n
  RelaySet,     \* the nodes whose RelaySetSelector forwards; all of them
                \* with ClassicFlooding
  LocalAddrs,   \* LocalAddrs[n]: local_addrs of the engine of n
  PacketId,     \* the packets that hosts may send
  Sent,         \* Sent[k]: packet k as its host sends it
  Entry,        \* Entry[k]: the nodes that hear the host that sends k
  Dist,         \* Dist[k][n]: how many nodes must relay k until n hears it
  MaxPackets,   \* bound on the packets sent
  MaxLost       \* bound on the copies lost

Octet == 0..255

\* IpAddr: the octets of an IPv4 or IPv6 address.
Address == {a \in Seq(Octet) : Len(a) \in {4, 16}}

\* The fields of a packet that the engine reads or writes: its length in
\* bytes, and src_addr, dst_addr and ttl, which the caller takes from it.
Packet == [src : Address, dst : Address, ttl : Octet, len : Nat]

-----------------------------------------------------------------------------
(* forwarding.rs *)

IsMulticast(a) == IF Len(a) = 4 THEN a[1] \in 224..239 ELSE a[1] = 255

\* 224.0.0.0/24 and ff02::/16.
IsLinkLocalMulticast(a) ==
  IF Len(a) = 4 THEN a[1] = 224 /\ a[2] = 0 /\ a[3] = 0
                ELSE a[1] = 255 /\ a[2] = 2

\* A plausible slip: only IPv4 knows link-local groups.
CheckForwardingRulesV4Scope(p, local) ==
  /\ IsMulticast(p.dst)
  /\ ~(p.ttl <= 1)
  /\ ~(Len(p.dst) = 4 /\ IsLinkLocalMulticast(p.dst))
  /\ p.src \notin local

\* A plausible slip: a packet is dropped one hop too early.
CheckForwardingRulesEarly(p, local) ==
  /\ IsMulticast(p.dst)
  /\ ~(p.ttl <= 2)
  /\ ~IsLinkLocalMulticast(p.dst)
  /\ p.src \notin local

\* Rules 1 to 4; rules 5 and 6 are left to the caller.
CheckForwardingRules(p, local) ==
  /\ IsMulticast(p.dst)
  /\ ~(p.ttl <= 1)
  /\ ~IsLinkLocalMulticast(p.dst)
  /\ p.src \notin local

-----------------------------------------------------------------------------
(* relay_set.rs and engine.rs *)

\* RelaySetSelector::should_forward of node n.
ShouldForward(n) == n \in RelaySet

\* Where the TTL or the hop limit is.
TtlOffset(dst) == IF Len(dst) = 4 THEN 8 ELSE 7

SaturatingSub(x, y) == IF x >= y THEN x - y ELSE 0

\* A plausible slip: the result is written to a copy that is thrown away.
DecrementTtlOfCopy(p) == p

\* A plausible slip: the old byte is taken out of the packet.
DecrementTtlShrinks(p) ==
  [p EXCEPT !.ttl = SaturatingSub(@, 1), !.len = @ - 1]

DecrementTtl(p) ==
  IF p.len > TtlOffset(p.dst)
    THEN [p EXCEPT !.ttl = SaturatingSub(@, 1)] ELSE p

\* process_packet at node n: Ok(Some(q)) is {q}, Ok(None) is {}.
ProcessPacket(n, p) ==
  IF CheckForwardingRules(p, LocalAddrs[n]) /\ ShouldForward(n)
    THEN {DecrementTtl(p)} ELSE {}

-----------------------------------------------------------------------------
\* Node n may relay packet k.
Relays(n, k) == n \in RelaySet /\ Sent[k].src \notin LocalAddrs[n]

ASSUME TopologyAssumption ==
  /\ Neighbors \in [Node -> SUBSET Node]
  /\ Entry \in [PacketId -> SUBSET Node]
  /\ MaxPackets \in Nat /\ MaxLost \in Nat

\* Packets have complete headers.
ASSUME PacketAssumption ==
  \A k \in PacketId : Sent[k] \in Packet /\ Sent[k].len > TtlOffset(Sent[k].dst)

\* Dist is the distance from the host: it grows by at most one with every node
\* that relays, some node that relays is one nearer, and what no packet can
\* reach is further away than any TTL.
ASSUME DistAssumption ==
  /\ Dist \in [PacketId -> [Node -> Nat]]
  /\ \A k \in PacketId : \A n \in Entry[k] : Dist[k][n] = 0
  /\ \A k \in PacketId, n \in Node : Relays(n, k) =>
       \A m \in Neighbors[n] : Dist[k][m] <= Dist[k][n] + 1
  /\ \A k \in PacketId, m \in Node :
       \/ m \in Entry[k] \/ Dist[k][m] > 255
       \/ \E n \in Node :
            Relays(n, k) /\ m \in Neighbors[n] /\ Dist[k][m] = Dist[k][n] + 1

VARIABLES
  air,     \* copies on their way: node, packet, and the packet as it is now
  heard,   \* history: heard[n]: the packets that have reached node n
  sent,    \* history: the packets that hosts have sent
  lost     \* history: the copies that were lost

vars == <<air, heard, sent, lost>>

\* Packet k on its way to node n, with TTL t.
Copy(n, k, t) == [to |-> n, id |-> k, pkt |-> [Sent[k] EXCEPT !.ttl = t]]

Init ==
  /\ air = {}
  /\ heard = [n \in Node |-> {}]
  /\ sent = {}
  /\ lost = {}

\* A host sends packet k.
Originate(k) ==
  /\ k \notin sent /\ Cardinality(sent) < MaxPackets
  /\ sent' = sent \cup {k}
  /\ air' = air \cup {[to |-> n, id |-> k, pkt |-> Sent[k]] : n \in Entry[k]}
  /\ UNCHANGED <<heard, lost>>

\* Copy c arrives, is given to process_packet and, if that returns a packet,
\* sent on.
Process(c) ==
  /\ c \in air
  /\ heard' = [heard EXCEPT ![c.to] = @ \cup {c.id}]
  /\ air' = (air \ {c}) \cup
       {[to |-> n, id |-> c.id, pkt |-> q] :
          n \in Neighbors[c.to], q \in ProcessPacket(c.to, c.pkt)}
  /\ UNCHANGED <<sent, lost>>

\* Copy c is lost.
Lose(c) ==
  /\ c \in air /\ Cardinality(lost) < MaxLost
  /\ air' = air \ {c}
  /\ lost' = lost \cup {c}
  /\ UNCHANGED <<heard, sent>>

Next ==
  \/ \E k \in PacketId : Originate(k)
  \/ \E c \in air : Process(c) \/ Lose(c)

\* What arrives at a node is processed.
Fairness == WF_vars(\E c \in air : Process(c))

Spec == Init /\ [][Next]_vars /\ Fairness

-----------------------------------------------------------------------------
(* Properties *)

\* The types of the variables: only the TTL of a packet changes on its way.
TypeOK ==
  /\ \A c \in air \cup lost :
       /\ c.to \in Node /\ c.id \in sent /\ c.pkt.ttl \in Octet
       /\ c = Copy(c.to, c.id, c.pkt.ttl)
  /\ heard \in [Node -> SUBSET sent]
  /\ sent \subseteq PacketId

\* How many nodes may relay packet k one after the other: none if it is not
\* for a group beyond the link.
Radius(k) ==
  IF IsMulticast(Sent[k].dst) /\ ~IsLinkLocalMulticast(Sent[k].dst)
    THEN SaturatingSub(Sent[k].ttl, 1) ELSE 0

\* The TTL of a copy never exceeds what the hops behind it have left of it:
\* the inductive form of Contained.
HopBound ==
  \A c \in air :
    /\ c.pkt.ttl + Dist[c.id][c.to] <= Sent[c.id].ttl
    /\ Dist[c.id][c.to] <= Radius(c.id)

\* A packet is confined to its scope: no node hears it that is further away
\* than its TTL allows, packets for link-local groups and single hosts are
\* heard on the first link only, and no engine relays what its own node has
\* sent, through whatever cycles and losses the copies have gone.
Contained ==
  \A n \in Node : \A k \in heard[n] : Dist[k][n] <= Radius(k)

\* The flood reaches every node within that scope, exactly up to its edge:
\* when no copy of a packet is on its way any more, and none was lost, all of
\* them have heard it.
Reached ==
  \A k \in sent :
    (\A c \in air \cup lost : c.id # k) =>
      \A n \in Node : Dist[k][n] <= Radius(k) => k \in heard[n]

\* Although no engine remembers what it has forwarded, a packet does not
\* circulate for ever in a cycle of nodes: all copies disappear.
FloodEnds == <>[](air = {})
=============================================================================
