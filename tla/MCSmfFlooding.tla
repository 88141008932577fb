---------------------------- MODULE MCSmfFlooding ----------------------------
(***************************************************************************)
(* A small instance of SmfFlooding for TLC: a ring of four nodes with a    *)
(* chain of two hanging from it.  n6 has no part in relaying.              *)
(***************************************************************************)
EXTENDS SmfFlooding, TLC

CONSTANTS n1, n2, n3, n4, n5, n6

Links == {{n1, n2}, {n2, n3}, {n3, n4}, {n4, n1}, {n3, n5}, {n5, n6}}

MCNeighbors == [n \in Node |-> {m \in Node : m # n /\ {n, m} \in Links}]

V4(a, b, c, d) == <<a, b, c, d>>
V6(a, b, z) == <<a, b, 0, 0, 0, 0, 0, 0, 0, 0, 0, 0, 0, 0, 0, z>>

Host4 == V4(10, 0, 0, 99)
Host6 == V6(32, 1, 99)
Own6 == V6(32, 1, 2)

\* n2 sends packets of its own.
MCLocalAddrs == [n \in Node |-> IF n = n2 THEN {Own6, V4(10, 0, 0, 2)} ELSE {}]

Pkt(src, dst, ttl) ==
  [src |-> src, dst |-> dst, ttl |-> ttl, len |-> IF Len(dst) = 4 THEN 20 ELSE 40]

MCSent ==
  [k \in {"far", "own", "last", "zero", "near", "link4", "link6", "host"} |->
     CASE k = "far"   -> Pkt(Host4, V4(239, 0, 0, 1), 4)
       [] k = "own"   -> Pkt(Own6, V6(255, 5, 1), 3)
       [] k = "last"  -> Pkt(Host4, V4(224, 0, 1, 1), 1)
       [] k = "zero"  -> Pkt(Host6, V6(255, 5, 1), 0)
       [] k = "near"  -> Pkt(Host6, V6(255, 5, 1), 2)
       [] k = "link4" -> Pkt(Host4, V4(224, 0, 0, 5), 4)
       [] k = "link6" -> Pkt(Host6, V6(255, 2, 1), 4)
       [] k = "host"  -> Pkt(Host4, V4(10, 0, 0, 7), 4)]

MCPacketId == DOMAIN MCSent

MCEntry ==
  [k \in MCPacketId |-> IF k = "own" THEN MCNeighbors[n2] ELSE {n1}]

\* The distances along the ring and the chain; n2 does not relay its own
\* packets.
MCDist ==
  [k \in MCPacketId |->
     IF k = "own"
       THEN n1 :> 0 @@ n3 :> 0 @@ n2 :> 1 @@ n4 :> 1 @@ n5 :> 1 @@ n6 :> 2
       ELSE n1 :> 0 @@ n2 :> 1 @@ n4 :> 1 @@ n3 :> 2 @@ n5 :> 3 @@ n6 :> 4]
=============================================================================
