------------------------------- MODULE RelayV4 -------------------------------
(***************************************************************************)
(* The DHCPv4 relay tasks of src/src/lib.rs: for every enabled interface a *)
(* task that receives a datagram, runs it through the request or the reply *)
(* pipeline and sends the result.  The tasks run concurrently and share    *)
(* only the statistics counters.  A task takes one pipeline stage per step *)
(* and is suspended only in recv_from and in send_to.                      *)
(*                                                                         *)
(* `sent', `dropped' and the numbers the datagrams get when they are       *)
(* received are history: they record what became of every datagram.        *)
(***************************************************************************)
EXTENDS PipelineV4

CONSTANT MaxReceived   \* bound on the number of datagrams received

ASSUME MaxReceivedAssumption == MaxReceived \in Nat

VARIABLES
  pc,       \* pc[i]: where the task of interface i is
  pipe,     \* pipe[i]: the pipeline the task runs, and the datagram's number
  ctx,      \* ctx[i]: the PipelineContext of the datagram being handled
  stats,    \* the RelayStats counters that the v4 tasks touch
  sent,     \* history: what was passed to send_to
  dropped   \* history: what was received and not sent, and why

vars == <<pc, pipe, ctx, stats, sent, dropped>>

Stages == RequestStages \cup ReplyStages

\* "recv": in select!; a stage: about to run it; "ok", "halt" or an error:
\* execute returned that; "send": in send_to.
Pc == {"recv", "ok", "halt", "send"} \cup Stages \cup RelayError

Direction == {"request", "reply"}

\* The pipeline built for a datagram: its direction, the field
\* expected_sub_opts of its Option82StripStage, and the datagram's number.
Pipe == [dir : Direction, expected : Opt82 \cup {NoOpt82}, no : Nat]

\* What a task has while it handles nothing.
NoPipe == [dir |-> "none"]
NoCtx  == [metadata |-> {"none"}]

Cause == {"undecodable", "halt"} \cup RelayError

Sent == [no : Nat, iface : Iface, dir : Direction, raw_in : Message,
         msg : Message, dst : SockAddr]

Dropped == [no : Nat, iface : Iface, raw_in : Message \cup {Garbage},
            cause : Cause]

Counters == {"received", "forwarded", "parse_error", "spoof", "stripped"}

Init ==
  /\ pc = [i \in Iface |-> "recv"]
  /\ pipe = [i \in Iface |-> NoPipe]
  /\ ctx = [i \in Iface |-> NoCtx]
  /\ stats = [k \in Counters |-> 0]
  /\ sent = {}
  /\ dropped = {}

-----------------------------------------------------------------------------
(* The receive loop. *)

IsClient(d) == d.mtype \in ClientTypes

\* The number of the datagram received next.
NextNo == stats["received"] + 1

CanReceive(i) == pc[i] = "recv" /\ stats["received"] < MaxReceived

CountReceived == stats' = [stats EXCEPT !["received"] = @ + 1]

\* A datagram that does not decode is counted as received and forgotten.
RecvGarbage(i, d) ==
  /\ CanReceive(i)
  /\ d = Garbage
  /\ CountReceived
  /\ dropped' = dropped \cup
       {[no |-> NextNo, iface |-> i, raw_in |-> d, cause |-> "undecodable"]}
  /\ UNCHANGED <<pc, pipe, ctx, sent>>

\* A client message enters handle_v4_client.
RecvClient(i, d) ==
  /\ CanReceive(i)
  /\ d # Garbage /\ IsClient(d)
  /\ CountReceived
  /\ pc' = [pc EXCEPT ![i] = "parse"]
  /\ pipe' = [pipe EXCEPT ![i] =
       [dir |-> "request", expected |-> NoOpt82, no |-> NextNo]]
  /\ ctx' = [ctx EXCEPT ![i] = NewContext(d)]
  /\ UNCHANGED <<sent, dropped>>

\* Any other message enters handle_v4_server; the sub-options its echo is
\* compared with are taken from the reply itself.
ExpectedSubOpts(d) == IF HasOpt82(d) THEN SubOpts(d.opt82) ELSE NoOpt82

RecvServer(i, d) ==
  /\ CanReceive(i)
  /\ d # Garbage /\ ~IsClient(d)
  /\ CountReceived
  /\ pc' = [pc EXCEPT ![i] = "parse"]
  /\ pipe' = [pipe EXCEPT ![i] =
       [dir |-> "reply", expected |-> ExpectedSubOpts(d), no |-> NextNo]]
  /\ ctx' = [ctx EXCEPT ![i] = NewContext(d)]
  /\ UNCHANGED <<sent, dropped>>

-----------------------------------------------------------------------------
(* Pipeline::execute: one stage. *)

NextStage(i, s) ==
  IF pipe[i].dir = "request" THEN NextRequestStage(s) ELSE NextReplyStage(s)

\* A plausible slip: execute runs a stage again until it returns Ok(true).
ExecuteRetriesHalt(i, s, r) ==
  /\ pc[i] = s
  /\ ctx' = [ctx EXCEPT ![i] = r.ctx]
  /\ pc' = [pc EXCEPT ![i] = IF r.ret = "continue" THEN NextStage(i, s)
                             ELSE IF r.ret = "halt" THEN s ELSE r.ret]
  /\ UNCHANGED <<pipe, stats, sent, dropped>>

\* The task runs stage s, whose result is r: the next stage if it returned
\* Ok(true), else execute returns what the stage did.
Execute(i, s, r) ==
  /\ pc[i] = s
  /\ ctx' = [ctx EXCEPT ![i] = r.ctx]
  /\ pc' = [pc EXCEPT ![i] = IF r.ret = "continue" THEN NextStage(i, s)
                                                    ELSE r.ret]
  /\ UNCHANGED <<pipe, stats, sent, dropped>>

Parse(i) == Execute(i, "parse", ParseStage(i, ctx[i]))
ValidateGiaddr(i) == Execute(i, "validate", ValidateStage(i, ctx[i]))
Option82Insert(i) ==
  Execute(i, "option82Insert", Option82InsertStage(i, ctx[i]))
VssInsert(i) == Execute(i, "vssInsert", VssInsertStage(i, ctx[i]))
SetGiaddr(i) == Execute(i, "giaddr", GiaddrStage(i, ctx[i]))
Forward(i) == Execute(i, "forward", ForwardStage(i, ctx[i]))
VssCheck(i) == Execute(i, "vssCheck", VssCheckStage(i, ctx[i]))
Option82Strip(i) == Execute(i, "option82Strip",
                      Option82StripStage(i, ctx[i], pipe[i].expected))
ReplyAddr(i) == Execute(i, "replyAddr", ReplyAddrStage(i, ctx[i]))

-----------------------------------------------------------------------------
(* The rest of handle_v4_client and handle_v4_server. *)

\* A plausible slip: a context that outlives the datagram it was made for.
IdleKeepsContext(i) ==
  /\ pc' = [pc EXCEPT ![i] = "recv"]
  /\ pipe' = [pipe EXCEPT ![i] = NoPipe]
  /\ UNCHANGED ctx

\* The handler returns; its context and its pipeline are dropped.
Idle(i) ==
  /\ pc' = [pc EXCEPT ![i] = "recv"]
  /\ pipe' = [pipe EXCEPT ![i] = NoPipe]
  /\ ctx' = [ctx EXCEPT ![i] = NoCtx]

\* execute returned Ok(true): the counters are incremented before the send.
Forwarded(i) ==
  /\ pc[i] = "ok"
  /\ stats' = [stats EXCEPT
       !["forwarded"] = @ + 1,
       !["stripped"] = @ + IF pipe[i].dir = "reply" THEN 1 ELSE 0]
  /\ pc' = [pc EXCEPT ![i] = "send"]
  /\ UNCHANGED <<pipe, ctx, sent, dropped>>

\* What the task passes to send_to: nothing if no destination was set.
Outgoing(i) ==
  IF ctx[i].dst_addr = NoAddr THEN {}
  ELSE {[no |-> pipe[i].no, iface |-> i, dir |-> pipe[i].dir,
         raw_in |-> ctx[i].raw_in, msg |-> ctx[i].buffer,
         dst |-> ctx[i].dst_addr]}

\* The result of send_to is ignored.
Send(i) ==
  /\ pc[i] = "send"
  /\ sent' = sent \cup Outgoing(i)
  /\ Idle(i)
  /\ UNCHANGED <<stats, dropped>>

Drop(i) ==
  dropped' = dropped \cup
    {[no |-> pipe[i].no, iface |-> i, raw_in |-> ctx[i].raw_in,
      cause |-> pc[i]]}

\* execute returned Ok(false).
Halted(i) ==
  /\ pc[i] = "halt"
  /\ Drop(i)
  /\ Idle(i)
  /\ UNCHANGED <<stats, sent>>

\* A plausible slip: errors are not counted.
FailedUncounted(i) ==
  /\ pc[i] \in RelayError
  /\ Drop(i)
  /\ Idle(i)
  /\ UNCHANGED <<stats, sent>>

\* execute returned an error: on the request path any error counts as a
\* spoofed packet, on the reply path it is not counted.
Failed(i) ==
  /\ pc[i] \in RelayError
  /\ stats' = IF pipe[i].dir = "request"
                THEN [stats EXCEPT !["spoof"] = @ + 1] ELSE stats
  /\ Drop(i)
  /\ Idle(i)
  /\ UNCHANGED sent

-----------------------------------------------------------------------------
Recv(i) ==
  \E d \in Input : RecvGarbage(i, d) \/ RecvClient(i, d) \/ RecvServer(i, d)

Handle(i) ==
  \/ Parse(i) \/ ValidateGiaddr(i) \/ Option82Insert(i) \/ VssInsert(i)
  \/ SetGiaddr(i) \/ Forward(i) \/ VssCheck(i) \/ Option82Strip(i)
  \/ ReplyAddr(i) \/ Forwarded(i) \/ Send(i) \/ Halted(i) \/ Failed(i)

Next == \E i \in Iface : Recv(i) \/ Handle(i)

\* A task that is not waiting for a datagram is ready and gets scheduled.
Fairness == \A i \in Iface : WF_vars(Handle(i))

Spec == Init /\ [][Next]_vars /\ Fairness

-----------------------------------------------------------------------------
(* Properties *)

\* Task i runs stages of its own pipeline only, and has a pipeline and a
\* context exactly while it handles a datagram.
TaskOK(i) ==
  /\ pc[i] = "recv" <=> pipe[i] = NoPipe
  /\ pc[i] = "recv" <=> ctx[i] = NoCtx
  /\ pc[i] \in Stages =>
       pc[i] \in IF pipe[i].dir = "request" THEN RequestStages ELSE ReplyStages

\* The types of the variables: a task has a pipeline and a context exactly
\* while it handles a datagram, and runs only stages of its own pipeline.
TypeOK ==
  /\ pc \in [Iface -> Pc]
  /\ pipe \in [Iface -> Pipe \cup {NoPipe}]
  /\ ctx \in [Iface -> Context \cup {NoCtx}]
  /\ stats \in [Counters -> Nat]
  /\ sent \subseteq Sent
  /\ dropped \subseteq Dropped
  /\ \A i \in Iface : TaskOK(i)

Busy == {i \in Iface : pc[i] # "recv"}

\* Every datagram ever received (packets_received counts them) is at any time
\* either in the hands of exactly one task, or sent exactly once, or dropped
\* exactly once: no handler loses a datagram or relays it twice, whatever the
\* other tasks do.
ExactlyOneFate ==
  \A n \in 1..stats["received"] :
      Cardinality({i \in Busy : pipe[i].no = n})
    + Cardinality({s \in sent : s.no = n})
    + Cardinality({x \in dropped : x.no = n}) = 1

\* The shared counters add up across the concurrent tasks: what is counted as
\* forwarded was sent or is in send_to, replies included, and only requests
\* that an error stopped are in packets_dropped_spoof; the rest was dropped
\* without a trace in the counters.
CountersAddUp ==
  LET sending == {i \in Iface : pc[i] = "send"}
      failed == {x \in dropped : x.cause \in RelayError}
  IN  /\ stats["forwarded"] = Cardinality(sent) + Cardinality(sending)
      /\ stats["stripped"] =
             Cardinality({s \in sent : s.dir = "reply"})
           + Cardinality({i \in sending : pipe[i].dir = "reply"})
      /\ stats["spoof"] = Cardinality(failed)
      /\ stats["received"] = stats["forwarded"] + stats["spoof"]
           + Cardinality(dropped \ failed)
           + Cardinality(Busy \ sending)

\* packets_dropped_spoof counts the packets whose giaddr is an address of the
\* relay, and no others (README.md: "Packets dropped as spoofed (giaddr
\* check)").
SpoofCounterHonest ==
  stats["spoof"] = Cardinality({x \in dropped : x.cause = "GiaddrSpoof"})

\* A request that another relay agent has already handled (giaddr # 0) leaves
\* the relay exactly as it came in: "reforwarded packet, do not modify"
\* (giaddr.rs).
ReforwardedUntouched ==
  \A s \in sent :
    s.dir = "request" /\ s.raw_in.giaddr # Unspecified => s.msg = s.raw_in

\* No Option 82 reaches a client: whatever a server or a forged reply carries,
\* the strip stage of the reply pipeline has removed it before the send.
NoOption82ToClient ==
  \A s \in sent : s.dir = "reply" => s.msg.opt82 = NoOpt82

\* A request that the relay itself has stamped never leaves it again: if what
\* was sent for a first-hop request comes back to any socket of the relay, it
\* is dropped, so requests cannot circulate between the relay's interfaces.
OwnRequestNotRelayed ==
  \A s \in sent, t \in sent :
    /\ s.dir = "request" /\ t.dir = "request"
    /\ s.raw_in.giaddr = Unspecified /\ s.msg.giaddr # Unspecified
    => t.raw_in # s.msg

\* "Server replies must echo Option 82 exactly - mismatch causes drop"
\* (README.md): a reply that carries Option 82 is relayed only if the relay
\* sent that very option to the server.
EchoValidated ==
  \A s \in sent :
    s.dir = "reply" /\ HasOpt82(s.raw_in) =>
      \E t \in sent : t.dir = "request" /\ t.msg.opt82 = s.raw_in.opt82

\* The refinement mapping: a task of the contract handles the datagram that
\* its pipeline context was created with.
Contract == INSTANCE RelayContract WITH
  handling <- [i \in Iface |-> IF pc[i] = "recv" THEN [no |-> 0]
                               ELSE [no |-> pipe[i].no, d |-> ctx[i].raw_in]],
  count <- stats["received"]

\* The pipelines, run one stage at a time and interleaved with the other
\* tasks, implement the contract: what is sent or dropped is what the closed
\* forms of RelayContract say, for every datagram and configuration.
ImplementsContract == Contract!Spec

\* Every datagram a task starts to handle is handled to the end: the task
\* comes back to recv_from, whatever the stages return.
HandlingTerminates == \A i \in Iface : pc[i] # "recv" ~> pc[i] = "recv"
=============================================================================
