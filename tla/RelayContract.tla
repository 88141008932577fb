---------------------------- MODULE RelayContract ----------------------------
(***************************************************************************)
(* What the DHCPv4 relay promises, without pipelines: each interface       *)
(* handles one datagram at a time; in one step the datagram gets its fate, *)
(* which depends on the datagram, the interface and the configuration and  *)
(* on nothing else.  It is either sent, once, in a form given in closed    *)
(* form below, or dropped for the cause given below.                       *)
(***************************************************************************)
EXTENDS RelayV4Config

VARIABLES
  handling,  \* handling[i]: the numbered datagram of interface i, or Nothing
  count,     \* how many datagrams were received
  sent,      \* what was sent
  dropped    \* what was dropped, and why

Nothing == [no |-> 0]

Init ==
  /\ handling = [i \in Iface |-> Nothing]
  /\ count = 0
  /\ sent = {}
  /\ dropped = {}

IsRequest(d) == d.mtype \in ClientTypes

\* A request that no relay agent has handled yet.
FirstHop(d) == d.giaddr = Unspecified

NoIds == CircuitId = Absent /\ RemoteId = Absent

\* Why datagram d is dropped; "none" if it is relayed.
DropCause(d) ==
  CASE ~IsRequest(d)                                        -> "none"
    [] IsRequest(d) /\ ~FirstHop(d)                         ->
         IF d.giaddr \in LocalAddrs THEN "GiaddrSpoof" ELSE "none"
    [] IsRequest(d) /\ FirstHop(d) /\ HasOpt82(d)           -> "halt"
    [] IsRequest(d) /\ FirstHop(d) /\ ~HasOpt82(d)          ->
         IF EnableOption82 /\ NoIds THEN "Config" ELSE "none"

\* The Option 82 of a request relayed at its first hop.
OwnOption82 ==
  [code \in SubCode |->
     CASE code = "circuit" -> CircuitId
       [] code = "remote" -> RemoteId
       [] code = "vss" -> IF VssEnabled THEN VssInfo ELSE Absent
       [] code = "vssControl" -> IF VssEnabled THEN EmptyData ELSE Absent
       [] OTHER -> Absent]

\* The Option 82 of a request that another relay agent has handled: VSS
\* overwrites sub-options 151 and 152 of an option that is there.
ReforwardedOption82(o) ==
  IF o = NoOpt82 \/ ~VssEnabled THEN o
  ELSE [o EXCEPT !["vss"] = VssInfo, !["vssControl"] = EmptyData]

\* The message that request d, received on interface i, is relayed as.
RelayedRequest(i, d) ==
  IF FirstHop(d)
    THEN [d EXCEPT !.giaddr = IfaceIp(i),
                   !.opt82 = IF EnableOption82 THEN OwnOption82 ELSE NoOpt82]
    ELSE [d EXCEPT !.opt82 = ReforwardedOption82(@)]

\* The message that reply d is relayed as.
RelayedReply(d) ==
  [d EXCEPT !.opt82 = IF EnableOption82 THEN NoOpt82 ELSE @]

ReplyDestination(d) ==
  [ip |-> IF d.ciaddr # Unspecified THEN d.ciaddr ELSE Broadcast,
   port |-> 68]

Outcome(i, h) ==
  [no |-> h.no, iface |-> i,
   dir |-> IF IsRequest(h.d) THEN "request" ELSE "reply", raw_in |-> h.d,
   msg |-> IF IsRequest(h.d) THEN RelayedRequest(i, h.d)
                             ELSE RelayedReply(h.d),
   dst |-> IF IsRequest(h.d) THEN ServerAddr(i) ELSE ReplyDestination(h.d)]

Receive(i, d) ==
  /\ handling[i] = Nothing
  /\ d # Garbage
  /\ count' = count + 1
  /\ handling' = [handling EXCEPT ![i] = [no |-> count + 1, d |-> d]]
  /\ UNCHANGED <<sent, dropped>>

Discard(i) ==
  /\ handling[i] = Nothing
  /\ count' = count + 1
  /\ dropped' = dropped \cup {[no |-> count + 1, iface |-> i,
                               raw_in |-> Garbage, cause |-> "undecodable"]}
  /\ UNCHANGED <<handling, sent>>

Relay(i) ==
  /\ handling[i] # Nothing
  /\ DropCause(handling[i].d) = "none"
  /\ sent' = sent \cup {Outcome(i, handling[i])}
  /\ handling' = [handling EXCEPT ![i] = Nothing]
  /\ UNCHANGED <<count, dropped>>

Refuse(i) ==
  /\ handling[i] # Nothing
  /\ DropCause(handling[i].d) # "none"
  /\ dropped' = dropped \cup
       {[no |-> handling[i].no, iface |-> i, raw_in |-> handling[i].d,
         cause |-> DropCause(handling[i].d)]}
  /\ handling' = [handling EXCEPT ![i] = Nothing]
  /\ UNCHANGED <<count, sent>>

Next ==
  \E i \in Iface :
    \/ \E d \in Input : Receive(i, d)
    \/ Discard(i)
    \/ Relay(i)
    \/ Refuse(i)

Spec == Init /\ [][Next]_<<handling, count, sent, dropped>>
=============================================================================
