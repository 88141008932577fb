------------------------- MODULE SmfFlooding_proofs -------------------------
(***************************************************************************)
(* Type correctness, Contained and Reached for every topology, every       *)
(* choice of relaying nodes, any packets and any losses.                   *)
(***************************************************************************)
EXTENDS SmfFlooding, WellFoundedInduction, TLAPS

\* What the hosts send are packets with complete headers.
LEMMA SentPacket ==
  ASSUME NEW k \in PacketId
  PROVE  /\ Sent[k] \in Packet
         /\ Sent[k].ttl \in 0..255
         /\ Sent[k] = [Sent[k] EXCEPT !.ttl = Sent[k].ttl]
         /\ Sent[k].len > TtlOffset(Sent[k].dst)
  BY PacketAssumption DEF Packet, Octet

\* The fields of a copy of a packet are those of the packet, but for the TTL.
LEMMA CopyFields ==
  ASSUME NEW k \in PacketId, NEW n \in Node, NEW t \in Octet
  PROVE  /\ Copy(n, k, t).to = n /\ Copy(n, k, t).id = k
         /\ Copy(n, k, t).pkt = [Sent[k] EXCEPT !.ttl = t]
         /\ Copy(n, k, t).pkt.ttl = t
         /\ Copy(n, k, t).pkt.src = Sent[k].src
         /\ Copy(n, k, t).pkt.dst = Sent[k].dst
         /\ Copy(n, k, t).pkt.len = Sent[k].len
  BY SentPacket DEF Copy, Packet

\* What process_packet returns: the packet with a TTL that is one less, and
\* only if the node relays packets of this source, the group is one beyond
\* the link and the TTL is at least two.
LEMMA Processed ==
  ASSUME NEW k \in PacketId, NEW n \in Node, NEW t \in Octet,
         NEW q \in ProcessPacket(n, [Sent[k] EXCEPT !.ttl = t])
  PROVE  /\ q = [Sent[k] EXCEPT !.ttl = t - 1]
         /\ t \in 2..255 /\ t - 1 \in Octet
         /\ Relays(n, k)
         /\ IsMulticast(Sent[k].dst) /\ ~IsLinkLocalMulticast(Sent[k].dst)
<1> DEFINE p == [Sent[k] EXCEPT !.ttl = t]
<1>1. /\ p.ttl = t /\ p.src = Sent[k].src /\ p.dst = Sent[k].dst
      /\ p.len = Sent[k].len
  BY SentPacket DEF Packet
<1>2. CheckForwardingRules(p, LocalAddrs[n]) /\ ShouldForward(n)
      /\ q = DecrementTtl(p)
  BY DEF ProcessPacket
<1> HIDE DEF p
<1>3. /\ t \in 2..255 /\ t - 1 \in Octet
      /\ Relays(n, k)
      /\ IsMulticast(Sent[k].dst) /\ ~IsLinkLocalMulticast(Sent[k].dst)
  BY <1>1, <1>2 DEF CheckForwardingRules, ShouldForward, Relays, Octet
<1>4. q = [p EXCEPT !.ttl = t - 1]
  <2>1. p.len > TtlOffset(p.dst)
    BY <1>1, SentPacket
  <2>2. SaturatingSub(p.ttl, 1) = t - 1
    BY <1>1, <1>3 DEF SaturatingSub
  <2>3. DecrementTtl(p) = [p EXCEPT !.ttl = SaturatingSub(p.ttl, 1)]
    BY <2>1 DEF DecrementTtl
  <2> QED BY <1>2, <2>2, <2>3
<1>5. [p EXCEPT !.ttl = t - 1] = [Sent[k] EXCEPT !.ttl = t - 1]
  BY SentPacket DEF p, Packet
<1> QED BY <1>3, <1>4, <1>5

-----------------------------------------------------------------------------
(* Type correctness *)

\* Initially nothing is under way.
LEMMA InitType == Init => TypeOK
  BY DEF Init, TypeOK

\* Every step keeps the types.
LEMMA NextType == TypeOK /\ [Next]_vars => TypeOK'
<1> SUFFICES ASSUME TypeOK, [Next]_vars PROVE TypeOK'
  OBVIOUS
<1>1. CASE UNCHANGED vars
  BY <1>1 DEF TypeOK, vars
<1>2. ASSUME NEW k \in PacketId, Originate(k) PROVE TypeOK'
  <2>1. ASSUME NEW n \in Entry[k]
        PROVE  /\ n \in Node
               /\ [to |-> n, id |-> k, pkt |-> Sent[k]] = Copy(n, k, Sent[k].ttl)
    BY TopologyAssumption, SentPacket DEF Copy
  <2>2. Sent[k].ttl \in Octet
    BY SentPacket DEF Octet
  <2>3. sent' = sent \cup {k} /\ lost' = lost /\ heard' = heard
        /\ air' = air \cup {[to |-> n, id |-> k, pkt |-> Sent[k]] : n \in Entry[k]}
    BY <1>2 DEF Originate
  <2>4. \A c \in air' \cup lost' :
          /\ c.to \in Node /\ c.id \in sent' /\ c.pkt.ttl \in Octet
          /\ c = Copy(c.to, c.id, c.pkt.ttl)
    <3> TAKE c \in air' \cup lost'
    <3>1. CASE c \in air \cup lost
      BY <3>1, <2>3 DEF TypeOK
    <3>2. CASE \E n \in Entry[k] : c = [to |-> n, id |-> k, pkt |-> Sent[k]]
      <4>1. PICK n \in Entry[k] : c = [to |-> n, id |-> k, pkt |-> Sent[k]]
        BY <3>2
      <4>2. c.to = n /\ c.id = k /\ c.pkt.ttl = Sent[k].ttl
        BY <4>1
      <4> QED BY <2>1, <2>2, <2>3, <4>1, <4>2
    <3> QED BY <2>3, <3>1, <3>2
  <2>5. heard' \in [Node -> SUBSET sent'] /\ sent' \subseteq PacketId
    BY <2>3 DEF TypeOK
  <2> QED BY <2>4, <2>5 DEF TypeOK
<1>3. ASSUME NEW c \in air, Process(c) PROVE TypeOK'
  <2>1. c.to \in Node /\ c.id \in PacketId /\ c.id \in sent /\ c.pkt.ttl \in Octet
        /\ c.pkt = [Sent[c.id] EXCEPT !.ttl = c.pkt.ttl]
    BY CopyFields DEF TypeOK
  <2>2. sent' = sent /\ lost' = lost
        /\ heard' = [heard EXCEPT ![c.to] = @ \cup {c.id}]
        /\ air' = (air \ {c}) \cup
             {[to |-> n, id |-> c.id, pkt |-> q] :
                n \in Neighbors[c.to], q \in ProcessPacket(c.to, c.pkt)}
    BY <1>3 DEF Process
  <2>3. \A d \in air' \cup lost' :
          /\ d.to \in Node /\ d.id \in sent' /\ d.pkt.ttl \in Octet
          /\ d = Copy(d.to, d.id, d.pkt.ttl)
    <3> TAKE d \in air' \cup lost'
    <3>1. CASE d \in air \cup lost
      BY <3>1, <2>2 DEF TypeOK
    <3>2. CASE \E n \in Neighbors[c.to], q \in ProcessPacket(c.to, c.pkt) :
                 d = [to |-> n, id |-> c.id, pkt |-> q]
      <4>1. PICK n \in Neighbors[c.to], q \in ProcessPacket(c.to, c.pkt) :
                 d = [to |-> n, id |-> c.id, pkt |-> q]
        BY <3>2
      <4>2. n \in Node
        BY <2>1, TopologyAssumption
      <4>3. q = [Sent[c.id] EXCEPT !.ttl = c.pkt.ttl - 1] /\ c.pkt.ttl - 1 \in Octet
        BY <2>1, Processed
      <4>4. d = Copy(n, c.id, c.pkt.ttl - 1)
        BY <4>1, <4>3 DEF Copy
      <4>5. d.to = n /\ d.id = c.id /\ d.pkt.ttl = c.pkt.ttl - 1
        BY <2>1, <4>2, <4>3, <4>4, CopyFields
      <4> QED BY <2>1, <2>2, <4>2, <4>3, <4>4, <4>5
    <3> QED BY <2>2, <3>1, <3>2
  <2>4. heard' \in [Node -> SUBSET sent'] /\ sent' \subseteq PacketId
    BY <2>1, <2>2 DEF TypeOK
  <2> QED BY <2>3, <2>4 DEF TypeOK
<1>4. ASSUME NEW c \in air, Lose(c) PROVE TypeOK'
  BY <1>4 DEF Lose, TypeOK
<1> QED BY <1>1, <1>2, <1>3, <1>4 DEF Next

\* The variables keep their types; a packet on its way differs from the one
\* that was sent in its TTL at most, whatever engines it has passed through.
THEOREM TypeCorrect == Spec => []TypeOK
  BY InitType, NextType, PTL DEF Spec

-----------------------------------------------------------------------------
(* Containment.  Contained is not inductive: it says nothing of the copies *)
(* under way.  HopBound does, and every hop takes from the TTL what it     *)
(* adds to the distance.                                                   *)

ScopeInv == HopBound /\ Contained

\* Initially nothing has been heard.
LEMMA InitScope == Init => ScopeInv
  BY DEF Init, ScopeInv, HopBound, Contained

\* Distances and radii are numbers.
LEMMA Numbers ==
  ASSUME NEW k \in PacketId, NEW n \in Node
  PROVE  Dist[k][n] \in Nat /\ Radius(k) \in Nat /\ Sent[k].ttl \in Nat
<1>1. Dist[k][n] \in Nat
  BY DistAssumption
<1>2. Sent[k].ttl \in Nat
  BY PacketAssumption DEF Packet, Octet
<1>3. SaturatingSub(Sent[k].ttl, 1) \in Nat
  BY <1>2 DEF SaturatingSub
<1> QED BY <1>1, <1>2, <1>3 DEF Radius

\* A hop from n to m, by a node that relays.
LEMMA Hop ==
  ASSUME NEW k \in PacketId, NEW n \in Node, NEW m \in Neighbors[n],
         NEW t \in 2..255, Relays(n, k), t + Dist[k][n] <= Sent[k].ttl,
         IsMulticast(Sent[k].dst), ~IsLinkLocalMulticast(Sent[k].dst)
  PROVE  (t - 1) + Dist[k][m] <= Sent[k].ttl /\ Dist[k][m] <= Radius(k)
<1>1. m \in Node
  BY TopologyAssumption
<1>2. Dist[k][m] <= Dist[k][n] + 1
  BY DistAssumption
<1>3. Dist[k][m] \in Nat /\ Dist[k][n] \in Nat /\ Sent[k].ttl \in Nat
  BY <1>1, Numbers
<1>4. (t - 1) + Dist[k][m] <= Sent[k].ttl /\ Dist[k][m] <= Sent[k].ttl - 1
  BY <1>2, <1>3
<1>5. Radius(k) = Sent[k].ttl - 1
  BY <1>3 DEF Radius, SaturatingSub
<1> QED BY <1>4, <1>5

\* Every step keeps ScopeInv.
LEMMA NextScope == TypeOK /\ ScopeInv /\ [Next]_vars => ScopeInv'
<1> SUFFICES ASSUME TypeOK, ScopeInv, [Next]_vars PROVE ScopeInv'
  OBVIOUS
<1>1. CASE UNCHANGED vars
  BY <1>1 DEF ScopeInv, HopBound, Contained, vars
<1>2. ASSUME NEW k \in PacketId, Originate(k) PROVE ScopeInv'
  <2>1. heard' = heard
        /\ air' = air \cup {[to |-> n, id |-> k, pkt |-> Sent[k]] : n \in Entry[k]}
    BY <1>2 DEF Originate
  <2>2. ASSUME NEW c \in air'
        PROVE  /\ c.pkt.ttl + Dist[c.id][c.to] <= Sent[c.id].ttl
               /\ Dist[c.id][c.to] <= Radius(c.id)
    <3>1. CASE c \in air
      BY <3>1 DEF ScopeInv, HopBound
    <3>2. CASE c \notin air
      <4>1. PICK n \in Entry[k] : c = [to |-> n, id |-> k, pkt |-> Sent[k]]
        BY <2>1, <3>2
      <4>2. c.to = n /\ c.id = k /\ c.pkt = Sent[k] /\ n \in Node
        BY <4>1, TopologyAssumption
      <4>3. Dist[k][n] = 0 /\ Sent[k].ttl \in Nat /\ Radius(k) \in Nat
        BY <4>2, DistAssumption, Numbers
      <4> QED BY <4>2, <4>3
    <3> QED BY <3>1, <3>2
  <2>3. Contained'
    BY <2>1 DEF ScopeInv, Contained
  <2> QED BY <2>2, <2>3 DEF ScopeInv, HopBound
<1>3. ASSUME NEW c \in air, Process(c) PROVE ScopeInv'
  <2>1. c.to \in Node /\ c.id \in PacketId /\ c.pkt.ttl \in Octet
        /\ c.pkt = [Sent[c.id] EXCEPT !.ttl = c.pkt.ttl]
    BY CopyFields DEF TypeOK
  <2>2. heard' = [heard EXCEPT ![c.to] = @ \cup {c.id}]
        /\ air' = (air \ {c}) \cup
             {[to |-> n, id |-> c.id, pkt |-> q] :
                n \in Neighbors[c.to], q \in ProcessPacket(c.to, c.pkt)}
    BY <1>3 DEF Process
  <2>3. /\ c.pkt.ttl + Dist[c.id][c.to] <= Sent[c.id].ttl
        /\ Dist[c.id][c.to] <= Radius(c.id)
    BY DEF ScopeInv, HopBound
  <2>4. ASSUME NEW d \in air'
        PROVE  /\ d.pkt.ttl + Dist[d.id][d.to] <= Sent[d.id].ttl
               /\ Dist[d.id][d.to] <= Radius(d.id)
    <3>1. CASE d \in air
      BY <3>1 DEF ScopeInv, HopBound
    <3>2. CASE d \notin air
      <4>1. PICK n \in Neighbors[c.to], q \in ProcessPacket(c.to, c.pkt) :
                 d = [to |-> n, id |-> c.id, pkt |-> q]
        BY <2>2, <3>2
      <4>2. /\ q = [Sent[c.id] EXCEPT !.ttl = c.pkt.ttl - 1]
            /\ c.pkt.ttl \in 2..255 /\ c.pkt.ttl - 1 \in Octet
            /\ Relays(c.to, c.id)
            /\ IsMulticast(Sent[c.id].dst) /\ ~IsLinkLocalMulticast(Sent[c.id].dst)
        BY <2>1, Processed
      <4>3. q.ttl = c.pkt.ttl - 1
        BY <2>1, <4>2, SentPacket DEF Packet
      <4>4. /\ (c.pkt.ttl - 1) + Dist[c.id][n] <= Sent[c.id].ttl
            /\ Dist[c.id][n] <= Radius(c.id)
        BY <2>1, <2>3, <4>2, Hop
      <4>5. d.to = n /\ d.id = c.id /\ d.pkt = q
        BY <4>1
      <4> QED BY <4>3, <4>4, <4>5
    <3> QED BY <3>1, <3>2
  <2>5. Contained'
    BY <2>1, <2>2, <2>3 DEF ScopeInv, Contained, TypeOK
  <2> QED BY <2>4, <2>5 DEF ScopeInv, HopBound
<1>4. ASSUME NEW c \in air, Lose(c) PROVE ScopeInv'
  BY <1>4 DEF Lose, ScopeInv, HopBound, Contained
<1> QED BY <1>1, <1>2, <1>3, <1>4 DEF Next

\* A packet is confined to its scope in every topology, whatever cycles its
\* copies run through and whatever is lost: no node hears it that is further
\* away than its TTL allows or, if it is for a link-local group or a single
\* host, beyond the first link.
THEOREM FloodContained == Spec => []Contained
<1>1. TypeOK /\ ScopeInv /\ [Next]_vars => ScopeInv'
  BY NextScope
<1>2. ScopeInv => Contained
  BY DEF ScopeInv
<1> QED BY InitScope, TypeCorrect, <1>1, <1>2, PTL DEF Spec

-----------------------------------------------------------------------------
(* Coverage.  heard does not tell with which TTL a node has heard a        *)
(* packet, and a copy that has come a long way does not go far.  For each  *)
(* packet, ReachInv therefore says that there is a set of nodes that have  *)
(* processed the copy with the largest TTL, and that this copy is on its   *)
(* way to all nodes just beyond them.                                      *)

\* The copy of k that has come to n on a shortest way.
Best(n, k) == Copy(n, k, Sent[k].ttl - Dist[k][n])

\* n passes k on to m, which is one further away and within the scope.
Onward(k, n, m) ==
  /\ m \in Neighbors[n] /\ Relays(n, k)
  /\ Dist[k][m] = Dist[k][n] + 1 /\ Dist[k][m] <= Radius(k)

Reaching(k, done) ==
  /\ \A n \in done : k \in heard[n]
  /\ \A n \in Entry[k] : n \in done \/ Best(n, k) \in air
  /\ \A n \in done, m \in Node : Onward(k, n, m) => m \in done \/ Best(m, k) \in air

ReachInv ==
  \A k \in sent :
    (\E c \in lost : c.id = k) \/ \E done \in SUBSET Node : Reaching(k, done)

\* The best copy is a copy, of its packet and to its node.
LEMMA BestId ==
  \A k, n : Best(n, k).id = k /\ Best(n, k).to = n
  BY DEF Best, Copy

\* A step that takes no copy of k away and forgets nothing.
LEMMA ReachingKept ==
  ASSUME NEW k, NEW done \in SUBSET Node, Reaching(k, done),
         \A n \in Node : k \in heard[n] => k \in heard'[n],
         \A d \in air : d.id = k => d \in air'
  PROVE  Reaching(k, done)'
  BY BestId DEF Reaching

\* A node within the scope of a packet whose best copy it has got passes it on
\* as the best copy of the next node.
LEMMA BestForwarded ==
  ASSUME NEW k \in PacketId, NEW n \in Node, NEW m \in Node, Onward(k, n, m)
  PROVE  LET t == Sent[k].ttl - Dist[k][n]
         IN  [Sent[k] EXCEPT !.ttl = t - 1] \in ProcessPacket(n, [Sent[k] EXCEPT !.ttl = t])
             /\ Best(m, k) = [to |-> m, id |-> k, pkt |-> [Sent[k] EXCEPT !.ttl = t - 1]]
<1> DEFINE t == Sent[k].ttl - Dist[k][n]
           p == [Sent[k] EXCEPT !.ttl = t]
<1>1. /\ Dist[k][n] \in Nat /\ Dist[k][m] \in Nat /\ Sent[k].ttl \in Nat
      /\ Dist[k][m] = Dist[k][n] + 1 /\ Dist[k][m] <= Radius(k) /\ Relays(n, k)
  BY Numbers DEF Onward
<1>2. IsMulticast(Sent[k].dst) /\ ~IsLinkLocalMulticast(Sent[k].dst)
      /\ Radius(k) = SaturatingSub(Sent[k].ttl, 1)
  <2>1. Radius(k) # 0
    BY <1>1
  <2> QED
    BY <2>1 DEF Radius
<1>3. t \in Nat /\ t >= 2 /\ t - 1 = Sent[k].ttl - Dist[k][m]
  BY <1>1, <1>2 DEF SaturatingSub
<1>4. Best(m, k) = [to |-> m, id |-> k, pkt |-> [Sent[k] EXCEPT !.ttl = t - 1]]
  BY <1>3 DEF Best, Copy
<1> HIDE DEF t
<1>5. /\ p.ttl = t /\ p.src = Sent[k].src /\ p.dst = Sent[k].dst
      /\ p.len = Sent[k].len
  BY SentPacket DEF Packet
<1>6. [p EXCEPT !.ttl = t - 1] = [Sent[k] EXCEPT !.ttl = t - 1]
  BY SentPacket DEF Packet
<1> HIDE DEF p
<1>7. CheckForwardingRules(p, LocalAddrs[n]) /\ ShouldForward(n)
  BY <1>1, <1>2, <1>3, <1>5 DEF CheckForwardingRules, ShouldForward, Relays
<1>8. DecrementTtl(p) = [p EXCEPT !.ttl = t - 1]
  <2>1. p.len > TtlOffset(p.dst)
    BY <1>5, SentPacket
  <2>2. SaturatingSub(p.ttl, 1) = t - 1
    BY <1>3, <1>5 DEF SaturatingSub
  <2>3. DecrementTtl(p) = [p EXCEPT !.ttl = SaturatingSub(p.ttl, 1)]
    BY <2>1 DEF DecrementTtl
  <2> QED
    BY <2>2, <2>3
<1>9. [Sent[k] EXCEPT !.ttl = t - 1] \in ProcessPacket(n, p)
  BY <1>6, <1>7, <1>8 DEF ProcessPacket
<1> QED
  BY <1>4, <1>9 DEF t, p

\* A host sends k0.
LEMMA OriginateReach ==
  ASSUME TypeOK, ReachInv, NEW k0 \in PacketId, Originate(k0)
  PROVE  ReachInv'
<1>1. /\ sent' = sent \cup {k0} /\ lost' = lost /\ heard' = heard
      /\ air' = air \cup {[to |-> n, id |-> k0, pkt |-> Sent[k0]] : n \in Entry[k0]}
  BY DEF Originate
<1> SUFFICES ASSUME NEW k \in sent', ~(\E c \in lost : c.id = k)
             PROVE  \E done \in SUBSET Node : Reaching(k, done)'
  BY <1>1 DEF ReachInv
<1>2. CASE k = k0
  <2>1. ASSUME NEW n \in Entry[k] PROVE Best(n, k) \in air'
    <3>1. n \in Node /\ Dist[k][n] = 0
      BY <1>2, TopologyAssumption, DistAssumption
    <3>2. Sent[k].ttl - Dist[k][n] = Sent[k].ttl
      BY <1>2, <3>1, Numbers
    <3>3. Best(n, k) = [to |-> n, id |-> k, pkt |-> Sent[k]]
      BY <1>2, <3>2, SentPacket DEF Best, Copy
    <3> QED
      BY <1>1, <1>2, <3>3
  <2>2. Reaching(k, {})'
    BY <2>1 DEF Reaching
  <2> QED
    BY <2>2
<1>3. CASE k # k0
  <2>1. PICK done \in SUBSET Node : Reaching(k, done)
    BY <1>1, <1>3 DEF ReachInv
  <2>2. Reaching(k, done)'
    BY <1>1, <2>1, ReachingKept
  <2> QED
    BY <2>2
<1> QED
  BY <1>2, <1>3

\* Copy c is processed.
LEMMA ProcessReach ==
  ASSUME TypeOK, ReachInv, NEW c \in air, Process(c)
  PROVE  ReachInv'
<1>1. c.to \in Node /\ c.id \in PacketId /\ c.id \in sent /\ c.pkt.ttl \in Octet
      /\ c = Copy(c.to, c.id, c.pkt.ttl)
  BY DEF TypeOK
<1>2. sent' = sent /\ lost' = lost
      /\ heard' = [heard EXCEPT ![c.to] = @ \cup {c.id}]
      /\ air' = (air \ {c}) \cup
           {[to |-> n, id |-> c.id, pkt |-> q] :
              n \in Neighbors[c.to], q \in ProcessPacket(c.to, c.pkt)}
  BY DEF Process
<1>3. /\ \A n \in Node, k \in sent : k \in heard[n] => k \in heard'[n]
      /\ c.id \in heard'[c.to]
  BY <1>1, <1>2 DEF TypeOK
<1> SUFFICES ASSUME NEW k \in sent, ~(\E d \in lost : d.id = k)
             PROVE  \E done \in SUBSET Node : Reaching(k, done)'
  BY <1>2 DEF ReachInv
<1>4. PICK done \in SUBSET Node : Reaching(k, done)
  BY DEF ReachInv
<1>5. CASE k # c.id
  <2>1. \A d \in air : d.id = k => d \in air'
    BY <1>2, <1>5
  <2>2. Reaching(k, done)'
    BY <1>3, <1>4, <2>1, ReachingKept
  <2> QED
    BY <2>2
<1>6. CASE k = c.id
  <2> DEFINE new == IF c = Best(c.to, k) THEN done \cup {c.to} ELSE done
  <2>1. new \in SUBSET Node
    BY <1>1
  <2>2. ASSUME NEW n \in new PROVE k \in heard'[n]
    BY <1>3, <1>4, <1>6 DEF Reaching
  <2>3. ASSUME NEW n \in Node, n \in done \/ Best(n, k) \in air
        PROVE  n \in new \/ Best(n, k) \in air'
    <3>1. CASE n \in done
      BY <3>1
    <3>2. CASE Best(n, k) \in air /\ Best(n, k) = c
      BY <3>2, BestId
    <3>3. CASE Best(n, k) \in air /\ Best(n, k) # c
      BY <1>2, <3>3
    <3> QED
      BY <2>3, <3>1, <3>2, <3>3
  <2>4. ASSUME NEW n \in Entry[k] PROVE n \in new \/ Best(n, k) \in air'
    <3>1. n \in Node
      BY TopologyAssumption DEF TypeOK
    <3>2. n \in done \/ Best(n, k) \in air
      BY <1>4 DEF Reaching
    <3> QED
      BY <2>3, <3>1, <3>2
  <2>5. ASSUME NEW n \in new, NEW m \in Node, Onward(k, n, m)
        PROVE  m \in new \/ Best(m, k) \in air'
    <3>1. CASE n \in done
      <4>1. m \in done \/ Best(m, k) \in air
        BY <1>4, <2>5, <3>1 DEF Reaching
      <4> QED
        BY <2>3, <4>1
    <3>2. CASE n \notin done
      <4>1. c = Best(c.to, k) /\ n = c.to
        BY <3>2
      <4> DEFINE t == Sent[k].ttl - Dist[k][n]
                 q == [Sent[k] EXCEPT !.ttl = t - 1]
      <4>2. c.pkt = [Sent[k] EXCEPT !.ttl = t]
        BY <4>1 DEF Best, Copy
      <4>3. q \in ProcessPacket(n, [Sent[k] EXCEPT !.ttl = t])
            /\ Best(m, k) = [to |-> m, id |-> k, pkt |-> q]
        BY <1>1, <1>6, <2>5, <4>1, BestForwarded
      <4> HIDE DEF q, t
      <4>4. m \in Neighbors[c.to]
        BY <2>5, <4>1 DEF Onward
      <4> QED
        BY <1>2, <1>6, <4>1, <4>2, <4>3, <4>4
    <3> QED
      BY <3>1, <3>2
  <2> HIDE DEF new
  <2>6. Reaching(k, new)'
    BY <2>2, <2>4, <2>5 DEF Reaching
  <2> QED
    BY <2>1, <2>6
<1> QED
  BY <1>5, <1>6

\* Copy c is lost.
LEMMA LoseReach ==
  ASSUME TypeOK, ReachInv, NEW c \in air, Lose(c)
  PROVE  ReachInv'
<1>1. /\ sent' = sent /\ lost' = lost \cup {c} /\ heard' = heard
      /\ air' = air \ {c}
  BY DEF Lose
<1> SUFFICES ASSUME NEW k \in sent, ~(\E d \in lost' : d.id = k)
             PROVE  \E done \in SUBSET Node : Reaching(k, done)'
  BY <1>1 DEF ReachInv
<1>2. PICK done \in SUBSET Node : Reaching(k, done)
  BY <1>1 DEF ReachInv
<1>3. c.id # k
  BY <1>1
<1>4. \A d \in air : d.id = k => d \in air'
  BY <1>1, <1>3
<1>5. Reaching(k, done)'
  BY <1>1, <1>2, <1>4, ReachingKept
<1> QED
  BY <1>5

\* The least-number principle: well-founded induction in a form without an
\* operator parameter.
LEMMA LeastNumber ==
  ASSUME NEW T, T \subseteq Nat, T # {}
  PROVE  \E n \in T : \A k \in T : n <= k
<1> DEFINE R == OpToRel(<, Nat)
<1>1. IsWellFoundedOn(R, Nat)
  BY NatLessThanWellFounded
<1>2. R = {ss \in Nat \X Nat : ss[1] < ss[2]}
  BY DEF OpToRel
<1> HIDE DEF R
<1>3. PICK n \in T : \A k \in T : ~(<<k, n>> \in R)
  BY <1>1, WFMin
<1>4. ASSUME NEW k \in T PROVE n <= k
  <2>1. n \in Nat /\ k \in Nat
    OBVIOUS
  <2>2. ~(<<k, n>> \in {ss \in Nat \X Nat : ss[1] < ss[2]})
    BY <1>2, <1>3
  <2>3. ~(k < n)
    BY <2>1, <2>2
  <2> QED
    BY <2>1, <2>3
<1> QED
  BY <1>4

\* When no copy of a packet is left, the nodes that have processed its best
\* copy are all nodes of its scope: a nearest one that has not would have got
\* it from the one before it.
LEMMA AllReached ==
  ASSUME TypeOK, NEW k \in sent, NEW done \in SUBSET Node, Reaching(k, done),
         \A c \in air : c.id # k,
         NEW n0 \in Node, Dist[k][n0] <= Radius(k)
  PROVE  n0 \in done
<1>1. k \in PacketId
  BY DEF TypeOK
<1>2. \A n : Best(n, k) \notin air
  BY BestId
<1>3. /\ Entry[k] \subseteq done
      /\ \A n \in done, m \in Node : Onward(k, n, m) => m \in done
  BY <1>2 DEF Reaching
<1> DEFINE U == {n \in Node : Dist[k][n] <= Radius(k) /\ n \notin done}
           T == {Dist[k][n] : n \in U}
<1> SUFFICES ASSUME n0 \notin done PROVE FALSE
  OBVIOUS
<1>4. T \subseteq Nat
  BY <1>1, Numbers
<1>5. T # {}
  OBVIOUS
<1>6. PICK d \in T : \A e \in T : d <= e
  BY <1>4, <1>5, LeastNumber
<1>7. PICK m \in U : d = Dist[k][m]
  OBVIOUS
<1>8. m \in Node /\ Dist[k][m] <= Radius(k) /\ m \notin done
  OBVIOUS
<1>9. \A n \in Node : Dist[k][n] <= Radius(k) /\ n \notin done => Dist[k][m] <= Dist[k][n]
  BY <1>6, <1>7
<1> HIDE DEF U, T
<1>10. ~(Dist[k][m] > 255)
  <2>1. Sent[k].ttl \in 0..255 /\ Dist[k][m] \in Nat /\ Radius(k) \in Nat
    BY <1>1, <1>8, SentPacket, Numbers
  <2>2. Radius(k) <= 255
    BY <2>1 DEF Radius, SaturatingSub
  <2> QED
    BY <1>8, <2>1, <2>2
<1>11. PICK n \in Node :
         Relays(n, k) /\ m \in Neighbors[n] /\ Dist[k][m] = Dist[k][n] + 1
  BY <1>1, <1>3, <1>8, <1>10, DistAssumption
<1>12. Dist[k][n] \in Nat /\ Dist[k][m] \in Nat /\ Radius(k) \in Nat
  BY <1>1, <1>8, Numbers
<1>13. Dist[k][n] <= Radius(k) /\ ~(Dist[k][m] <= Dist[k][n])
  BY <1>8, <1>11, <1>12
<1>14. n \in done
  BY <1>9, <1>13
<1>15. Onward(k, n, m)
  BY <1>8, <1>11 DEF Onward
<1> QED
  BY <1>3, <1>8, <1>14, <1>15

\* SmfFlooding.Reached: in every topology, once no copy of a packet is on its
\* way and if none was lost, all nodes within the scope of the packet have
\* heard it, although nodes may have heard copies with a smaller TTL first.
THEOREM FloodReaches == Spec => []Reached
<1>1. Init => ReachInv
  BY DEF Init, ReachInv
<1>2. TypeOK /\ ReachInv /\ [Next]_vars => ReachInv'
  <2> SUFFICES ASSUME TypeOK, ReachInv, [Next]_vars PROVE ReachInv'
    OBVIOUS
  <2>1. CASE UNCHANGED vars
    BY <2>1 DEF ReachInv, Reaching, vars
  <2>2. ASSUME NEW k \in PacketId, Originate(k) PROVE ReachInv'
    BY <2>2, OriginateReach
  <2>3. ASSUME NEW c \in air, Process(c) PROVE ReachInv'
    BY <2>3, ProcessReach
  <2>4. ASSUME NEW c \in air, Lose(c) PROVE ReachInv'
    BY <2>4, LoseReach
  <2> QED
    BY <2>1, <2>2, <2>3, <2>4 DEF Next
<1>3. TypeOK /\ ReachInv => Reached
  <2> SUFFICES ASSUME TypeOK, ReachInv, NEW k \in sent,
                      \A c \in air \cup lost : c.id # k,
                      NEW n \in Node, Dist[k][n] <= Radius(k)
               PROVE  k \in heard[n]
    BY DEF Reached
  <2>1. PICK done \in SUBSET Node : Reaching(k, done)
    BY DEF ReachInv
  <2>2. n \in done
    BY <2>1, AllReached
  <2> QED
    BY <2>1, <2>2 DEF Reaching
<1> QED
  BY <1>1, <1>2, <1>3, TypeCorrect, PTL DEF Spec
=============================================================================
