------------------------------- MODULE RelayV6 -------------------------------
(***************************************************************************)
(* The DHCPv6 relay tasks of src/src/lib.rs: for every enabled interface a *)
(* task that receives a datagram, runs it through the request or the reply *)
(* pipeline and sends the result.  As in RelayV4 the tasks run             *)
(* concurrently, share only the counters and take one stage per step.      *)
(*                                                                         *)
(* `sent', `dropped' and the numbers the datagrams get when they are       *)
(* received are history: they record what became of every datagram.        *)
(***************************************************************************)
EXTENDS PipelineV6

CONSTANT MaxReceived   \* bound on the number of datagrams received

ASSUME MaxReceivedAssumption == MaxReceived \in Nat

VARIABLES
  pc,       \* pc[i]: where the task of interface i is
  pipe,     \* pipe[i]: the pipeline the task runs, and the datagram's number
  ctx,      \* ctx[i]: the PipelineContext of the datagram being handled
  stats,    \* the RelayStats counters that the v6 tasks touch
  sent,     \* history: what left a socket
  dropped   \* history: what was received and did not, and why

vars == <<pc, pipe, ctx, stats, sent, dropped>>

Stages == RequestStages \cup ReplyStages

\* "recv": in select!; a stage: about to run it; "ok" or "Parse": execute
\* returned Ok(true) or that error; "send": in send_to.
Pc == {"recv", "ok", "Parse", "send"} \cup Stages

\* The pipeline built for a datagram: its direction, the field `dest' of its
\* ForwardStage, and the datagram's number.
Pipe == [dir : {"request", "reply"}, dest : SockAddr, no : Nat]

NoPipe == [dir |-> "none"]
NoCtx  == [metadata |-> {"none"}]

Sent == [no : Nat, iface : Iface, dir : {"request", "reply"},
         raw_in : Message, src : SockAddr, msg : Message, dst : SockAddr]

\* "ignored": no handler was called; "Parse": the pipeline failed; "send":
\* send_to failed.
Dropped == [no : Nat, iface : Iface, raw_in : Message,
            cause : {"ignored", "Parse", "send"}]

Counters == {"received", "forwarded"}

Init ==
  /\ pc = [i \in Iface |-> "recv"]
  /\ pipe = [i \in Iface |-> NoPipe]
  /\ ctx = [i \in Iface |-> NoCtx]
  /\ stats = [k \in Counters |-> 0]
  /\ sent = {}
  /\ dropped = {}

-----------------------------------------------------------------------------
(* The receive loop. *)

IsReply(m) == FirstByte(m) = "RelayRepl"

IsClient(m) == ~IsReply(m) /\ Decodable(m) /\ FirstByte(m) \in ClientTypes

\* The number of the datagram received next.
NextNo == stats["received"] + 1

CanReceive(i) == pc[i] = "recv" /\ stats["received"] < MaxReceived

CountReceived == stats' = [stats EXCEPT !["received"] = @ + 1]

\* handle_v6_client or handle_v6_server is called for datagram g.
Enter(i, g, dir, dest) ==
  /\ CountReceived
  /\ pc' = [pc EXCEPT ![i] = "parse"]
  /\ pipe' = [pipe EXCEPT ![i] = [dir |-> dir, dest |-> dest, no |-> NextNo]]
  /\ ctx' = [ctx EXCEPT ![i] = NewContext(g)]
  /\ UNCHANGED <<sent, dropped>>

\* The reply pipeline is given the address the reply came from.
RecvReply(i, g) ==
  /\ CanReceive(i)
  /\ IsReply(g.data)
  /\ Enter(i, g, "reply", g.src)

RecvClient(i, g) ==
  /\ CanReceive(i)
  /\ IsClient(g.data)
  /\ Enter(i, g, "request", ServerAddr(i))

\* Everything else is counted as received and forgotten: what does not
\* decode, messages of servers, and Relay-forwards of other relay agents.
RecvIgnored(i, g) ==
  /\ CanReceive(i)
  /\ ~IsReply(g.data) /\ ~IsClient(g.data)
  /\ CountReceived
  /\ dropped' = dropped \cup
       {[no |-> NextNo, iface |-> i, raw_in |-> g.data, cause |-> "ignored"]}
  /\ UNCHANGED <<pc, pipe, ctx, sent>>

-----------------------------------------------------------------------------
(* Pipeline::execute: one stage. *)

NextStage(i, s) ==
  IF pipe[i].dir = "request" THEN NextRequestStage(s) ELSE NextReplyStage(s)

\* A plausible slip: execute starts again after a stage that failed.
ExecuteRestarts(i, s, r) ==
  /\ pc[i] = s
  /\ ctx' = [ctx EXCEPT ![i] = r.ctx]
  /\ pc' = [pc EXCEPT ![i] = IF r.ret = "continue" THEN NextStage(i, s)
                                                    ELSE "parse"]
  /\ UNCHANGED <<pipe, stats, sent, dropped>>

\* The task runs stage s, whose result is r.
Execute(i, s, r) ==
  /\ pc[i] = s
  /\ ctx' = [ctx EXCEPT ![i] = r.ctx]
  /\ pc' = [pc EXCEPT ![i] = IF r.ret = "continue" THEN NextStage(i, s)
                                                    ELSE r.ret]
  /\ UNCHANGED <<pipe, stats, sent, dropped>>

Parse(i) == Execute(i, "parse", ParseStage(ctx[i]))
InterfaceId(i) == Execute(i, "interfaceId", InterfaceIdStage(i, ctx[i]))
RemoteIdOption(i) == Execute(i, "remoteId", RemoteIdStage(i, ctx[i]))
VssInsert(i) == Execute(i, "vssInsert", VssInsertStage(i, ctx[i]))
RelayFwd(i) == Execute(i, "relayFwd", RelayFwdStage(i, ctx[i]))
VssExtract(i) == Execute(i, "vssExtract", VssExtractStage(ctx[i]))
RelayReply(i) == Execute(i, "relayReply", RelayReplyStage(ctx[i]))
InterfaceIdExtract(i) ==
  Execute(i, "interfaceIdExtract", InterfaceIdExtractStage(ctx[i]))
Forward(i) == Execute(i, "forward", ForwardStage(ctx[i], pipe[i].dest))

-----------------------------------------------------------------------------
(* The rest of handle_v6_client and handle_v6_server. *)

\* A plausible slip: a context that outlives the datagram it was made for.
IdleKeepsContext(i) ==
  /\ pc' = [pc EXCEPT ![i] = "recv"]
  /\ pipe' = [pipe EXCEPT ![i] = NoPipe]
  /\ UNCHANGED ctx

\* The handler returns; its context and its pipeline are dropped.
Idle(i) ==
  /\ pc' = [pc EXCEPT ![i] = "recv"]
  /\ pipe' = [pipe EXCEPT ![i] = NoPipe]
  /\ ctx' = [ctx EXCEPT ![i] = NoCtx]

Drop(i, cause) ==
  dropped' = dropped \cup
    {[no |-> pipe[i].no, iface |-> i, raw_in |-> ctx[i].raw_in,
      cause |-> cause]}

\* execute returned Ok(true): the packet counts as forwarded before it is
\* sent.
Forwarded(i) ==
  /\ pc[i] = "ok"
  /\ stats' = [stats EXCEPT !["forwarded"] = @ + 1]
  /\ pc' = [pc EXCEPT ![i] = "send"]
  /\ UNCHANGED <<pipe, ctx, sent, dropped>>

\* Only a request grows on its way through the relay; what a reply is
\* unwrapped to is shorter than the datagram it came in.
Fits(i) ==
  pipe[i].dir = "request" =>
    RELAY_HDR_LEN + OPTION_TLV_HDR + ByteLen(ctx[i].buffer.core) <= MaxUdp

Send(i) ==
  /\ pc[i] = "send"
  /\ Fits(i)
  /\ sent' = sent \cup
       {[no |-> pipe[i].no, iface |-> i, dir |-> pipe[i].dir,
         raw_in |-> ctx[i].raw_in, src |-> ctx[i].src_addr,
         msg |-> ctx[i].buffer, dst |-> ctx[i].dst_addr]}
  /\ Idle(i)
  /\ UNCHANGED <<stats, dropped>>

\* The socket refuses a datagram that is too long; the error is ignored.
SendFails(i) ==
  /\ pc[i] = "send"
  /\ ~Fits(i)
  /\ Drop(i, "send")
  /\ Idle(i)
  /\ UNCHANGED <<stats, sent>>

\* A plausible slip: the handler counts the packet before it looks at what
\* execute returned.
FailedCounted(i) ==
  /\ pc[i] = "Parse"
  /\ Drop(i, "Parse")
  /\ stats' = [stats EXCEPT !["forwarded"] = @ + 1]
  /\ Idle(i)
  /\ UNCHANGED sent

\* execute returned an error, which neither handler counts.
Failed(i) ==
  /\ pc[i] = "Parse"
  /\ Drop(i, "Parse")
  /\ Idle(i)
  /\ UNCHANGED <<stats, sent>>

-----------------------------------------------------------------------------
Recv(i) ==
  \E g \in Input : RecvReply(i, g) \/ RecvClient(i, g) \/ RecvIgnored(i, g)

Handle(i) ==
  \/ Parse(i) \/ InterfaceId(i) \/ RemoteIdOption(i) \/ VssInsert(i)
  \/ RelayFwd(i) \/ VssExtract(i) \/ RelayReply(i) \/ InterfaceIdExtract(i)
  \/ Forward(i) \/ Forwarded(i) \/ Send(i) \/ SendFails(i) \/ Failed(i)

Next == \E i \in Iface : Recv(i) \/ Handle(i)

\* A task that is not waiting for a datagram is ready and gets scheduled.
Fairness == \A i \in Iface : WF_vars(Handle(i))

Spec == Init /\ [][Next]_vars /\ Fairness

-----------------------------------------------------------------------------
(* Properties *)

\* Task i runs stages of its own pipeline only, and has a pipeline and a
\* context exactly while it handles a datagram.
TaskOK(i) ==
  /\ pc[i] = "recv" <=> pipe[i] = NoPipe
  /\ pc[i] = "recv" <=> ctx[i] = NoCtx
  /\ pc[i] \in Stages =>
       pc[i] \in IF pipe[i].dir = "request" THEN RequestStages ELSE ReplyStages

\* The types of the variables: what is sent has a destination, and a task has
\* a pipeline and a context exactly while it handles a datagram.
TypeOK ==
  /\ pc \in [Iface -> Pc]
  /\ pipe \in [Iface -> Pipe \cup {NoPipe}]
  /\ ctx \in [Iface -> Context \cup {NoCtx}]
  /\ stats \in [Counters -> Nat]
  /\ sent \subseteq Sent
  /\ dropped \subseteq Dropped
  /\ \A i \in Iface : TaskOK(i)

\* The options that the relay adds to a request received on interface i.
Added(i) ==
  (IF EnableInterfaceId
     THEN {[code |-> "interface_id", val |-> IfaceName[i]]} ELSE {})
  \cup
  (IF EnableRemoteId THEN {[code |-> "remote_id", val |-> RemoteId]} ELSE {})
  \cup
  (IF VssEnabled THEN {[code |-> "vss", val |-> VssData]} ELSE {})

\* How many bytes they take.
AddedLen(i) ==
  (IF EnableInterfaceId THEN OPTION_TLV_HDR + DataLen[IfaceName[i]] ELSE 0)
  + (IF EnableRemoteId THEN OPTION_TLV_HDR + DataLen[RemoteId] ELSE 0)
  + (IF VssEnabled THEN OPTION_TLV_HDR + DataLen[VssData] ELSE 0)

\* What a server that unwraps a Relay-forward finds in it.  The length field
\* of encapsulate, which is cast to u16, is that of the message, because a
\* message long enough to overflow it is never sent.  Of the client's message
\* there is everything that decode can read, with the options of the
\* interface it came in on.  What decode cannot read arrives only if no
\* option is added: modify_v6 encodes what it has decoded, so the server gets
\* a message with an unreadable option cut short at that option.
ForwardedContent ==
  \A s \in sent : s.dir = "request" =>
    LET hdr == s.msg.layers[1]
        raw == s.raw_in.core
        fwd == s.msg.core
    IN  /\ Len(s.msg.layers) = 1
        /\ hdr.mtype = "RelayForw"
        /\ hdr.opts[1].len = ByteLen(fwd)
        /\ hdr.opts[1].room = ByteLen(fwd)
        /\ fwd.mtype = raw.mtype
        /\ fwd.opts = raw.opts \cup Added(s.iface)
        /\ fwd.size = raw.size + AddedLen(s.iface)
        /\ fwd.rest = IF Added(s.iface) = {} THEN raw.rest ELSE 0
        /\ s.dst = ServerAddr(s.iface)

\* How many Relay-reply headers there are around message m.
Depth(m) ==
  CHOOSE n \in 0..Len(m.layers) :
    /\ \A k \in 1..n : m.layers[k].mtype = "RelayRepl"
    /\ n < Len(m.layers) => m.layers[n + 1].mtype # "RelayRepl"

\* What is inside them is a Relay-forward.
HoldsRelayForw(m) == FirstByte(Inside(m, Depth(m))) = "RelayForw"

\* Each of those headers has a relay-message option that can be reached, and
\* what is inside them all is a message that is not a relay message.
WellFormed(m) ==
  /\ Depth(m) > 0
  /\ \A k \in 1..Depth(m) : ExtractRelayMsg(m.layers[k].opts)
  /\ FirstByte(Inside(m, Depth(m))) \notin {"RelayRepl", "RelayForw"}
  /\ Decodable(Inside(m, Depth(m)))

\* A well-formed Relay-reply of any depth is never dropped, and what is
\* relayed is the message inside all the Relay-reply headers of a well-formed
\* one ("if the extracted relay-message is itself RELAY_REPL, recurse",
\* docs/issue#0004.html).  No Relay-reply leaves the relay, so relay agents
\* that talk to each other cannot pass one to and fro.  One case is left out
\* because the code and its documentation disagree on it: decapsulate says
\* that it unwraps "until a non-relay message is found", but lets a
\* Relay-forward inside a Relay-reply out as it is.
ReplyFate ==
  /\ \A s \in sent :
       /\ FirstByte(s.msg) # "RelayRepl"
       /\ s.dir = "reply" /\ ~HoldsRelayForw(s.raw_in) =>
            WellFormed(s.raw_in) /\ s.msg = Inside(s.raw_in, Depth(s.raw_in))
  /\ \A x \in dropped : IsReply(x.raw_in) => ~WellFormed(x.raw_in)

Busy == {i \in Iface : pc[i] # "recv"}

\* The shared counters add up across the concurrent tasks, and every datagram
\* received has one fate: packets_forwarded counts what was sent, what is in
\* send_to, and what send_to refused; all other losses leave no trace in the
\* counters.
CountersAddUp ==
  LET sending == {i \in Iface : pc[i] = "send"}
      refused == {x \in dropped : x.cause = "send"}
  IN  /\ stats["forwarded"] = Cardinality(sent) + Cardinality(refused)
           + Cardinality(sending)
      /\ stats["received"] = Cardinality(sent) + Cardinality(dropped)
           + Cardinality(Busy)

\* Every datagram a task starts to handle is handled to the end: the task
\* comes back to recv_from, whatever the stages return.
HandlingTerminates == \A i \in Iface : pc[i] # "recv" ~> pc[i] = "recv"

\* What the reply pipeline sends goes towards the client ("Build the
\* server->client (reply relay) pipeline", pipeline.rs; its parameter is
\* client_addr), never back to the sender of the Relay-reply.
ReplyNotReturned == \A s \in sent : s.dir = "reply" => s.dst # s.src
=============================================================================
