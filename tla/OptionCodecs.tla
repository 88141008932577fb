---------------------------- MODULE OptionCodecs ----------------------------
(***************************************************************************)
(* What the two ends of an exchange make of the same bytes.  An SMF_DPD    *)
(* option travels in a Hop-by-Hop header, is perhaps damaged, is decoded   *)
(* and gives the packet its key in the DPD cache; the VSS sub-options of   *)
(* an agent come back from the server, which removes VSS-Control if it     *)
(* supports VSS; the VSS option of DHCPv6 is found again among others.     *)
(* The header, the network and the server are external.  The functions of  *)
(* smf and a relay agent share no state: a behaviour is about one or the   *)
(* other.                                                                  *)
(***************************************************************************)
EXTENDS SmfDpdOption, VssSubOption, FiniteSets

CONSTANTS
  Configs,     \* the configurations that RelayAgent::new may be given
  Options,     \* the SMF_DPD options that may be sent
  RawIds,      \* IPv4 Identification fields, Fragment and IPsec identifiers
  Payloads,    \* payloads of packets that are identified by their hash
  Flows,       \* pairs of source and destination address
  CutLens,     \* where the header may end prematurely
  FlagBytes,   \* what the flags of an option may be changed to
  OtherOpts,   \* other sub-options of the Option 82 that is echoed
  OtherV6Opts, \* other options of a DHCPv6 message
  MaxSeen,     \* bound on the packets that are identified
  NoAgent      \* RelayAgent::new has not succeeded yet

\* VssConfig, and an option of a DHCPv6 message.
VssConfig == [enabled : BOOLEAN, vss_type : Byte, vss_info : Seq(Byte)]
V6Option  == [code : Nat, data : Seq(Byte)]

\* The bytes b are sub-options, none of them VSS-Control: there is a set of
\* positions at which a sub-option or the end is met.
SubOptions(b) ==
  \E ends \in SUBSET (0..Len(b)) :
    /\ {0, Len(b)} \subseteq ends
    /\ \A pos \in ends \ {Len(b)} :
         /\ pos + 2 <= Len(b)
         /\ b[pos + 1] # VSS_CONTROL_SUBOPT_CODE
         /\ pos + 2 + b[pos + 2] \in ends

ASSUME BoundsAssumption ==
  /\ \A o \in Options : IsOption(o)
  /\ MaxSeen \in Nat /\ CutLens \subseteq Nat \ {0, 1} /\ FlagBytes \subseteq Byte

\* Addresses and payloads are bytes; the other identifiers are u16 or u32.
ASSUME PacketAssumption ==
  /\ \A f \in Flows : f \in Seq(Byte) \X Seq(Byte)
  /\ \A p \in Payloads : p \in Seq(Byte)
  /\ \A n \in RawIds : n \in Nat /\ n \div 16777216 \in Byte

ASSUME VssAssumption ==
  /\ \A cfg \in Configs : {cfg.dhcpv4, cfg.dhcpv6} \subseteq VssConfig
  /\ \A b \in OtherOpts : b \in Seq(Byte) /\ SubOptions(b)
  /\ \A b \in OtherV6Opts :
       b \in Seq(V6Option) /\ \A k \in DOMAIN b : b[k].code # VSS_OPTION_CODE

VARIABLES
  agent,   \* the configuration of the agent
  task,    \* the exchange under way
  seen     \* history: the packets identified, with their keys

vars == <<agent, task, seen>>

NoTask ==
  [kind |-> "none", stage |-> "done", given |-> {}, wire |-> <<>>,
   fate |-> "intact", got |-> {}]

Init == agent = NoAgent /\ task = NoTask /\ seen = {}

\* RelayAgent::new(cfg) returns Ok.
New(cfg) ==
  /\ agent = NoAgent /\ task = NoTask /\ seen = {}
  /\ Validate(cfg)
  /\ agent' = cfg
  /\ UNCHANGED <<task, seen>>

-----------------------------------------------------------------------------
(* The SMF_DPD option *)

\* PadN fills the Hop-by-Hop header up.
Padding == <<1, 1, 0>>

\* The data of the first option of a header, which may end prematurely.
OptionData(w) ==
  SubSeq(w, 3, IF 2 + w[2] <= Len(w) THEN 2 + w[2] ELSE Len(w))

SendDpd(o) ==
  /\ agent = NoAgent /\ task.stage = "done" /\ Cardinality(seen) < MaxSeen
  /\ task' = [NoTask EXCEPT !.kind = "dpd", !.stage = "wire", !.given = o,
                            !.wire = Encode(o) \o Padding]
  /\ UNCHANGED <<agent, seen>>

\* The header arrives as w.
Damage(w) ==
  /\ task.kind = "dpd" /\ task.stage = "wire" /\ task.fate = "intact"
  /\ task' = [task EXCEPT !.wire = w, !.fate = "damaged"]
  /\ UNCHANGED <<agent, seen>>

Cut(n) == n < Len(task.wire) /\ Damage(SubSeq(task.wire, 1, n))

Garble(b) == task.kind = "dpd" /\ Damage([task.wire EXCEPT ![3] = b])

ReceiveDpd ==
  /\ task.kind = "dpd" /\ task.stage = "wire"
  /\ task' = [task EXCEPT !.stage = "done", !.got = Decode(OptionData(task.wire))]
  /\ UNCHANGED <<agent, seen>>

-----------------------------------------------------------------------------
(* Packet identification *)

\* A packet is identified in the given way and has this key.
Identified(how, id, key) ==
  /\ Cardinality(seen) < MaxSeen
  /\ seen' = seen \cup {[how |-> how, id |-> id, key |-> key]}
  /\ task' = NoTask
  /\ UNCHANGED agent

\* The option of a packet that has arrived intact.
IdentifyOption(f) ==
  /\ task.kind = "dpd" /\ task.stage = "done" /\ task.fate = "intact"
  /\ \E o \in task.got :
       Identified("option", o.identifier, IDpdPacketIdFromOption(f[1], f[2], o))

IdentifyRaw(f, n) ==
  /\ agent = NoAgent /\ task = NoTask
  /\ Identified("raw", <<n>>, IDpdPacketIdFromRaw(f[1], f[2], n))

IdentifyHash(f, payload) ==
  /\ agent = NoAgent /\ task = NoTask
  /\ Identified("hash", payload, HDpdHash(f[1], f[2], payload))

-----------------------------------------------------------------------------
(* Virtual subnet selection *)

\* The agent writes both sub-options into the Option 82 of a request.
SendVss4 ==
  /\ task.stage = "done" /\ agent # NoAgent /\ agent.dhcpv4.enabled
  /\ task' = [NoTask EXCEPT !.kind = "vss4", !.stage = "wire",
                            !.given = agent.dhcpv4,
                            !.wire = VssSubOpt(agent.dhcpv4)]
  /\ UNCHANGED <<agent, seen>>

\* The server echoes Option 82, with other sub-options before and after, and
\* without VSS-Control if it supports VSS.
Echo(before, after, supports) ==
  /\ task.kind = "vss4" /\ task.stage = "wire"
  /\ task' = [task EXCEPT
       !.stage = "echoed",
       !.fate = IF supports THEN "supported" ELSE "unsupported",
       !.wire = before \o @ \o (IF supports THEN <<>> ELSE VssControl) \o after]
  /\ UNCHANGED <<agent, seen>>

CheckEcho ==
  /\ task.kind = "vss4" /\ task.stage = "echoed"
  /\ task' = [task EXCEPT !.stage = "done", !.got = {CheckServerSupport(task.wire)}]
  /\ UNCHANGED <<agent, seen>>

\* The VSS option of a DHCPv6 message and what is extracted from the message.
ExchangeVss6(before, after) ==
  /\ task.stage = "done" /\ agent # NoAgent /\ agent.dhcpv6.enabled
  /\ LET opts == before \o <<EncodeV6(agent.dhcpv6)>> \o after
     IN  task' = [NoTask EXCEPT !.kind = "vss6", !.given = agent.dhcpv6,
                                !.wire = opts, !.got = ExtractV6(opts)]
  /\ UNCHANGED <<agent, seen>>

-----------------------------------------------------------------------------
Next ==
  \/ \E cfg \in Configs : New(cfg)
  \/ \E o \in Options : SendDpd(o)
  \/ \E n \in CutLens : Cut(n)
  \/ \E b \in FlagBytes : Garble(b)
  \/ ReceiveDpd
  \/ \E f \in Flows : IdentifyOption(f)
  \/ \E f \in Flows, n \in RawIds : IdentifyRaw(f, n)
  \/ \E f \in Flows, p \in Payloads : IdentifyHash(f, p)
  \/ SendVss4
  \/ \E b, a \in OtherOpts, supports \in BOOLEAN : Echo(b, a, supports)
  \/ CheckEcho
  \/ \E b, a \in OtherV6Opts : ExchangeVss6(b, a)

Spec == Init /\ [][Next]_vars

-----------------------------------------------------------------------------
(* Properties *)

\* The types of the variables: headers are bytes, and what decode returns is
\* an SmfDpdOption.
TypeOK ==
  /\ agent \in Configs \cup {NoAgent}
  /\ task.stage \in {"wire", "echoed", "done"}
  /\ task.kind \in {"dpd", "vss4"} => task.wire \in Seq(Byte)
  /\ task.kind = "dpd" => \A o \in task.got : IsOption(o)
  /\ Cardinality(seen) <= MaxSeen

\* Options whose fields agree with each other and fit their places.
WellFormed(o) ==
  /\ o.tid_type < 4 /\ o.tid_len < 32
  /\ IF o.tid_len = 0 THEN o.tagger_id = {}
                      ELSE o.tagger_id # {} /\ Len(BytesOf(o.tagger_id)) = o.tid_len
  /\ o.identifier # <<>> /\ OptDataLen(o) <= 255

\* encode and decode agree: a well-formed option that arrives intact, in a
\* header that goes on after it, is decoded to itself, up to the longest
\* tagger id and the longest identifier.
RoundTrip ==
  task.kind = "dpd" /\ task.stage = "done" /\ task.fate = "intact"
    /\ WellFormed(task.given) => task.got = {task.given}

\* decode neither adds nor drops a byte: whatever the option was and whatever
\* has happened to it on the way, if it is accepted then the receiver would
\* send it on exactly as it has arrived.
DecodeExact ==
  task.kind = "dpd" => \A o \in task.got :
    LET data == OptionData(task.wire)
    IN  Encode(o) = <<SMF_DPD_OPTION_TYPE, Len(data)>> \o data

\* Two packets that must have different keys: of different flows, or
\* identified in the same way by different numbers, different identifiers of
\* one length up to eight bytes or payloads that differ in the first 64 bytes;
\* a number and an identifier of up to four bytes that are not all zero.
MustDiffer(p, q) ==
  \/ p.key.src_addr # q.key.src_addr \/ p.key.dst_addr # q.key.dst_addr
  \/ p.how = "raw" /\ q.how = "raw" /\ p.id # q.id
  \/ /\ p.how = "option" /\ q.how = "option"
     /\ Len(p.id) = Len(q.id) /\ Len(p.id) <= 8 /\ p.id # q.id
  \/ /\ p.how = "hash" /\ q.how = "hash"
     /\ \E i \in (1..64) \cap (DOMAIN p.id \cup DOMAIN q.id) :
          i \in DOMAIN p.id \cap DOMAIN q.id => p.id[i] # q.id[i]
  \/ /\ p.how = "raw" /\ q.how = "option" /\ Len(q.id) <= 4
     /\ \E i \in DOMAIN q.id : q.id[i] # 0

\* The DPD cache does not take such packets for duplicates of each other.
KeySeparates ==
  \A p, q \in seen : MustDiffer(p, q) => p.key # q.key

\* Both ends understand virtual subnet selection alike.  DHCPv4:
\* check_server_support is right about the server wherever VSS-Control stands
\* and whatever bytes the VSS info and the other sub-options contain, for the
\* longest info whose length fits into its byte too.  DHCPv6: extract recovers
\* the VSS of an accepted configuration from among other options.
VssUnderstood ==
  /\ task.kind = "vss4" /\ task.stage = "done" /\ Len(task.given.vss_info) <= 254
       => task.got = {task.fate = "supported"}
  /\ task.kind = "vss6" => task.got = {<<task.given.vss_type, task.given.vss_info>>}
=============================================================================
