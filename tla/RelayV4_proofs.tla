---------------------------- MODULE RelayV4_proofs ----------------------------
(***************************************************************************)
(* Proofs about RelayV4, for any set of interfaces, addresses, messages    *)
(* and any configuration.  First the types.  Then what the pipelines       *)
(* compute: an inductive invariant gives the context of a task in closed   *)
(* form at every stage, and the safety properties of what is sent follow.  *)
(* Then that the tasks implement RelayContract, step by step: from the     *)
(* contract follows the fate of every datagram, and from both the          *)
(* statistics counters, for any number of tasks and datagrams.             *)
(***************************************************************************)
EXTENDS RelayV4, FiniteSetTheorems, TLAPS

StageResult ==
  [ctx : Context, ret : {"continue", "halt"} \cup RelayError]

\* A context that a task works on is not the placeholder of an idle task.
LEMMA ContextProper == NoCtx \notin Context /\ NoPipe \notin Pipe
  BY DEF NoCtx, Context, NoPipe, Pipe, Direction

\* The Option 82 that the relay builds is well-typed.
LEMMA AgentInfoType == AgentInfo \in Opt82
  BY Option82Assumption DEF AgentInfo, Opt82, SubCode

\* SubOpts maps an Option 82 to one.
LEMMA SubOptsType ==
  ASSUME NEW o \in Opt82
  PROVE  SubOpts(o) \in Opt82
  BY Option82Assumption DEF SubOpts, RelayInfoToSubOpt, Opt82

\* The socket address of the server is one.
LEMMA ServerAddrType ==
  ASSUME NEW i \in Iface
  PROVE  ServerAddr(i) \in SockAddr /\ IfaceIp(i) \in Ip
  BY AddressAssumption DEF ServerAddr, IfaceIp

\* A context is well-typed if its parts are.
LEMMA NewContextType ==
  ASSUME NEW d \in Message
  PROVE  NewContext(d) \in Context
  BY DEF NewContext, Context

\* Every stage maps a context to a well-typed result.
LEMMA StageTypes ==
  ASSUME NEW i \in Iface, NEW c \in Context
  PROVE  /\ ParseStage(i, c) \in StageResult
         /\ ValidateStage(i, c) \in StageResult
         /\ Option82InsertStage(i, c) \in StageResult
         /\ VssInsertStage(i, c) \in StageResult
         /\ GiaddrStage(i, c) \in StageResult
         /\ ForwardStage(i, c) \in StageResult
         /\ VssCheckStage(i, c) \in StageResult
         /\ \A e : Option82StripStage(i, c, e) \in StageResult
         /\ ReplyAddrStage(i, c) \in StageResult
<1> USE DEF StageResult, Continue, Fail, Halt, RelayError
<1>1. ParseStage(i, c) \in StageResult /\ VssCheckStage(i, c) \in StageResult
  BY DEF ParseStage, VssCheckStage
<1>2. ValidateStage(i, c) \in StageResult
  <2>1. [c EXCEPT !.is_reforwarded = TRUE] \in Context
    BY DEF Context
  <2>2. Validate(c.buffer, c.is_trusted_circuit) \in
          {"FirstRelay", "TrustedCircuit", "UntrustedCircuit", "Spoof", "Reforwarded"}
    BY DEF Validate
  <2> QED
    BY <2>1, <2>2 DEF ValidateStage
<1>3. \A m \in Message : Modify(c, m) \in Context
  BY DEF Modify, Context
<1>4. \A d \in Context, s \in {"option82_inserted", "vss_inserted"} :
        [d EXCEPT !.metadata = @ \cup {s}] \in Context
  BY DEF Context
<1>5. c.buffer \in Message
  BY DEF Context
<1>6. \A o \in Opt82 \cup {NoOpt82} : [c.buffer EXCEPT !.opt82 = o] \in Message
  BY <1>5 DEF Message
<1>7. Option82InsertStage(i, c) \in StageResult
  BY <1>3, <1>4, <1>6, AgentInfoType DEF Option82InsertStage
<1>8. VssInsertStage(i, c) \in StageResult
  <2> DEFINE o == [c.buffer.opt82 EXCEPT !["vss"] = VssInfo, !["vssControl"] = EmptyData]
  <2>1. HasOpt82(c.buffer) => o \in Opt82
    BY <1>5, Option82Assumption DEF HasOpt82, Message, Opt82, SubCode
  <2> QED
    BY <2>1, <1>3, <1>4, <1>5, <1>6 DEF VssInsertStage
<1>9. GiaddrStage(i, c) \in StageResult
  <2>1. [c.buffer EXCEPT !.giaddr = IfaceIp(i)] \in Message
    BY <1>5, ServerAddrType DEF Message
  <2> QED
    BY <2>1, <1>3 DEF GiaddrStage
<1>10. ForwardStage(i, c) \in StageResult
  BY ServerAddrType DEF ForwardStage, Context
<1>11. \A e : Option82StripStage(i, c, e) \in StageResult
  BY <1>3, <1>6 DEF Option82StripStage, Strip
<1>12. ReplyAddrStage(i, c) \in StageResult
  BY <1>5, AddressAssumption DEF ReplyAddrStage, Context, Message, SockAddr, ClientPort
<1> QED
  BY <1>1, <1>2, <1>7, <1>8, <1>9, <1>10, <1>11, <1>12

\* The stage after a stage of a pipeline belongs to that pipeline.
LEMMA NextStageType ==
  /\ \A s \in RequestStages : NextRequestStage(s) \in RequestStages \cup {"ok"}
  /\ \A s \in ReplyStages : NextReplyStage(s) \in ReplyStages \cup {"ok"}
<1>1. \A s \in RequestStages : NextRequestStage(s) \in RequestStages \cup {"ok"}
  BY DEF RequestStages, NextRequestStage
<1>2. \A s \in ReplyStages : NextReplyStage(s) \in ReplyStages \cup {"ok"}
  BY DEF ReplyStages, NextReplyStage
<1> QED
  BY <1>1, <1>2

\* A busy task has a well-typed pipeline and context.
LEMMA BusyTask ==
  ASSUME TypeOK, NEW i \in Iface, pc[i] # "recv"
  PROVE  pipe[i] \in Pipe /\ ctx[i] \in Context
  BY DEF TypeOK, TaskOK

\* One stage of Pipeline::execute preserves the types.
LEMMA ExecuteType ==
  ASSUME TypeOK, NEW i \in Iface, NEW s \in Stages, NEW r \in StageResult,
         Execute(i, s, r)
  PROVE  TypeOK'
<1>1. s # "recv"
  BY DEF Stages, RequestStages, ReplyStages
<1>2. pc[i] = s /\ pc[i] # "recv"
  BY <1>1 DEF Execute
<1>3. pipe[i] \in Pipe /\ ctx[i] \in Context
  BY <1>2, BusyTask
<1> DEFINE own == IF pipe[i].dir = "request" THEN RequestStages ELSE ReplyStages
<1>4. s \in own
  BY <1>2 DEF TypeOK, TaskOK
<1>5. NextStage(i, s) \in own \cup {"ok"}
  BY <1>4, NextStageType DEF NextStage
<1>6. pc'[i] \in own \cup {"ok", "halt"} \cup RelayError
  BY <1>5 DEF Execute, TypeOK, StageResult
<1>7. pc' \in [Iface -> Pc] /\ ctx' \in [Iface -> Context \cup {NoCtx}]
  BY <1>6 DEF Execute, TypeOK, Pc, Stages, StageResult
<1>8. \A j \in Iface : TaskOK(j)'
  <2> SUFFICES ASSUME NEW j \in Iface PROVE TaskOK(j)'
    OBVIOUS
  <2>1. CASE j # i
    BY <2>1 DEF Execute, TypeOK, TaskOK
  <2>2. CASE j = i
    <3>1. pc'[i] # "recv" /\ (pc'[i] \in Stages => pc'[i] \in own)
      BY <1>6 DEF RequestStages, ReplyStages, RelayError, Stages
    <3>2. pipe'[i] # NoPipe /\ ctx'[i] # NoCtx /\ pipe'[i] = pipe[i]
      BY <1>3, ContextProper DEF Execute, TypeOK, StageResult
    <3> QED
      BY <2>2, <3>1, <3>2 DEF TaskOK
  <2> QED
    BY <2>1, <2>2
<1> QED
  BY <1>7, <1>8 DEF TypeOK, Execute

\* A handler that returns leaves its task idle.
LEMMA IdleType ==
  ASSUME TypeOK, NEW i \in Iface, Idle(i)
  PROVE  /\ pc' \in [Iface -> Pc]
         /\ pipe' \in [Iface -> Pipe \cup {NoPipe}]
         /\ ctx' \in [Iface -> Context \cup {NoCtx}]
         /\ \A j \in Iface : TaskOK(j)'
<1>1. /\ pc' \in [Iface -> Pc]
      /\ pipe' \in [Iface -> Pipe \cup {NoPipe}]
      /\ ctx' \in [Iface -> Context \cup {NoCtx}]
  BY DEF Idle, TypeOK, Pc
<1>2. ASSUME NEW j \in Iface PROVE TaskOK(j)'
  BY DEF Idle, TypeOK, TaskOK, Stages, RequestStages, ReplyStages
<1> QED
  BY <1>1, <1>2

\* The reception of a decodable datagram preserves the types.
LEMMA ReceiveType ==
  ASSUME TypeOK, NEW i \in Iface, NEW d \in Message,
         RecvClient(i, d) \/ RecvServer(i, d)
  PROVE  TypeOK'
<1>1. PICK p \in Pipe : pipe' = [pipe EXCEPT ![i] = p]
  <2>1. ExpectedSubOpts(d) \in Opt82 \cup {NoOpt82}
    BY SubOptsType DEF ExpectedSubOpts, HasOpt82, Message
  <2>2. NextNo \in Nat
    BY DEF NextNo, TypeOK, Counters
  <2> QED
    BY <2>1, <2>2 DEF RecvClient, RecvServer, Pipe, Direction
<1>2. /\ pc' = [pc EXCEPT ![i] = "parse"]
      /\ ctx' = [ctx EXCEPT ![i] = NewContext(d)]
      /\ UNCHANGED <<sent, dropped>>
  BY DEF RecvClient, RecvServer
<1>3. stats' \in [Counters -> Nat]
  BY DEF RecvClient, RecvServer, CountReceived, TypeOK, Counters
<1>4. /\ pc' \in [Iface -> Pc]
      /\ pipe' \in [Iface -> Pipe \cup {NoPipe}]
      /\ ctx' \in [Iface -> Context \cup {NoCtx}]
  BY <1>1, <1>2, NewContextType DEF TypeOK, Pc, Stages, RequestStages
<1>5. ASSUME NEW j \in Iface PROVE TaskOK(j)'
  <2>1. CASE j # i
    BY <1>1, <1>2, <2>1 DEF TypeOK, TaskOK
  <2>2. CASE j = i
    <3>1. pc'[i] = "parse" /\ pipe'[i] # NoPipe /\ ctx'[i] # NoCtx
      BY <1>1, <1>2, NewContextType, ContextProper DEF TypeOK
    <3> QED
      BY <2>2, <3>1 DEF TaskOK, RequestStages, ReplyStages
  <2> QED
    BY <2>1, <2>2
<1> QED
  BY <1>2, <1>3, <1>4, <1>5 DEF TypeOK

\* A step of the pipelines is a stage of Execute with a well-typed result.
StageStep(i) ==
  \/ Parse(i) \/ ValidateGiaddr(i) \/ Option82Insert(i) \/ VssInsert(i)
  \/ SetGiaddr(i) \/ Forward(i) \/ VssCheck(i) \/ Option82Strip(i)
  \/ ReplyAddr(i)

\* Every stage of either pipeline preserves the types.
LEMMA StageStepType ==
  ASSUME TypeOK, NEW i \in Iface, StageStep(i)
  PROVE  TypeOK'
<1>1. pc[i] \in Stages
  BY DEF StageStep, Parse, ValidateGiaddr, Option82Insert, VssInsert, SetGiaddr,
         Forward, VssCheck, Option82Strip, ReplyAddr, Execute, Stages,
         RequestStages, ReplyStages
<1>2. ctx[i] \in Context
  BY <1>1, BusyTask DEF Stages, RequestStages, ReplyStages
<1>3. PICK s \in Stages, r \in StageResult : Execute(i, s, r)
  BY <1>1, <1>2, StageTypes
     DEF StageStep, Parse, ValidateGiaddr, Option82Insert, VssInsert, SetGiaddr,
         Forward, VssCheck, Option82Strip, ReplyAddr, Stages, RequestStages,
         ReplyStages
<1> QED
  BY <1>3, ExecuteType

\* What becomes of a datagram is recorded with the right types.
LEMMA OutcomeType ==
  ASSUME TypeOK, NEW i \in Iface, pc[i] # "recv"
  PROVE  /\ Outgoing(i) \subseteq Sent
         /\ pc[i] \in {"halt"} \cup RelayError =>
              [no |-> pipe[i].no, iface |-> i, raw_in |-> ctx[i].raw_in,
               cause |-> pc[i]] \in Dropped
<1>1. pipe[i] \in Pipe /\ ctx[i] \in Context
  BY BusyTask
<1>2. Outgoing(i) \subseteq Sent
  BY <1>1 DEF Outgoing, Sent, Pipe, Context
<1> QED
  BY <1>1, <1>2 DEF Dropped, Pipe, Context, Cause

\* The tasks in an environment that may send them any datagram, not only those
\* of Input: what a composition of the relay with its network relies on.
Datagrams == Message \cup {Garbage}

OpenRecv(i) ==
  \E d \in Datagrams : RecvGarbage(i, d) \/ RecvClient(i, d) \/ RecvServer(i, d)

OpenNext == \E i \in Iface : OpenRecv(i) \/ Handle(i)

\* Every step of the tasks is such a step.
LEMMA NextIsOpen == Next => OpenNext
  BY InputAssumption DEF Next, Recv, OpenNext, OpenRecv, Datagrams

\* The types are preserved whatever is received.
LEMMA TypeStep ==
  ASSUME TypeOK, [OpenNext]_vars
  PROVE  TypeOK'
<1>1. ASSUME NEW i \in Iface, NEW d \in Datagrams,
             RecvClient(i, d) \/ RecvServer(i, d)
      PROVE  TypeOK'
  BY <1>1, ReceiveType DEF Datagrams, RecvClient, RecvServer
<1>2. ASSUME NEW i \in Iface, NEW d \in Datagrams, RecvGarbage(i, d)
      PROVE  TypeOK'
  <2>1. stats' \in [Counters -> Nat] /\ NextNo \in Nat
    BY <1>2 DEF RecvGarbage, CountReceived, NextNo, TypeOK, Counters
  <2>2. dropped' \subseteq Dropped
    BY <1>2, <2>1 DEF RecvGarbage, TypeOK, Dropped, Cause
  <2> QED
    BY <1>2, <2>1, <2>2 DEF RecvGarbage, TypeOK, TaskOK
<1>3. ASSUME NEW i \in Iface, StageStep(i) PROVE TypeOK'
  BY <1>3, StageStepType
<1>4. ASSUME NEW i \in Iface, Forwarded(i) PROVE TypeOK'
  <2>1. stats' \in [Counters -> Nat]
    BY <1>4 DEF Forwarded, TypeOK, Counters
  <2>2. pc' \in [Iface -> Pc]
    BY <1>4 DEF Forwarded, TypeOK, Pc
  <2>3. ASSUME NEW j \in Iface PROVE TaskOK(j)'
    BY <1>4 DEF Forwarded, TypeOK, TaskOK, Stages, RequestStages, ReplyStages
  <2> QED
    BY <1>4, <2>1, <2>2, <2>3 DEF Forwarded, TypeOK
<1>5. ASSUME NEW i \in Iface, Send(i) PROVE TypeOK'
  <2>1. sent' \subseteq Sent
    BY <1>5, OutcomeType DEF Send, TypeOK
  <2> QED
    BY <1>5, <2>1, IdleType DEF Send, TypeOK
<1>6. ASSUME NEW i \in Iface, Halted(i) \/ Failed(i) PROVE TypeOK'
  <2>1. dropped' \subseteq Dropped
    BY <1>6, OutcomeType DEF Halted, Failed, Drop, TypeOK, RelayError
  <2>2. stats' \in [Counters -> Nat]
    BY <1>6 DEF Halted, Failed, TypeOK, Counters
  <2>3. Idle(i) /\ UNCHANGED sent
    BY <1>6 DEF Halted, Failed
  <2> QED
    BY <2>1, <2>2, <2>3, IdleType DEF TypeOK
<1>7. CASE UNCHANGED vars
  BY <1>7 DEF vars, TypeOK, TaskOK
<1> QED
  BY <1>1, <1>2, <1>3, <1>4, <1>5, <1>6, <1>7
     DEF OpenNext, OpenRecv, Handle, StageStep

\* The types of the variables are preserved by every step of every task: no
\* stage and no handler leaves a context that the next one cannot work on.
THEOREM TypeCorrect == Spec => []TypeOK
<1>1. Init => TypeOK
  BY DEF Init, TypeOK, Pc, TaskOK, Counters, Stages, RequestStages, ReplyStages
<1>2. TypeOK /\ [Next]_vars => TypeOK'
  BY TypeStep, NextIsOpen
<1> QED
  BY <1>1, <1>2, PTL DEF Spec

-----------------------------------------------------------------------------
(* The closed forms. *)

FirstHop(d) == d.giaddr = Unspecified

\* What the validation stage lets through, and the error it or the insertion
\* of Option 82 stops a request with.
Admissible(d) ==
  /\ FirstHop(d) => ~HasOpt82(d)
  /\ ~FirstHop(d) => d.giaddr \notin LocalAddrs

HasIds == CircuitId # Absent \/ RemoteId # Absent

\* Option 82 of request d after the stage that inserts it ...
InsertedOpt82(d) ==
  IF FirstHop(d) /\ EnableOption82 THEN AgentInfo ELSE d.opt82

\* ... and after the VSS stage.
FinalOpt82(d) ==
  IF VssEnabled /\ InsertedOpt82(d) # NoOpt82
    THEN [InsertedOpt82(d) EXCEPT !["vss"] = VssInfo, !["vssControl"] = EmptyData]
    ELSE InsertedOpt82(d)

FinalRequest(i, d) ==
  [d EXCEPT !.opt82 = FinalOpt82(d),
            !.giaddr = IF FirstHop(d) THEN IfaceIp(i) ELSE @]

FinalReply(d) == [d EXCEPT !.opt82 = IF EnableOption82 THEN NoOpt82 ELSE @]

\* The stages of the request pipeline after the validation, and what follows.
PastValidation ==
  {"option82Insert", "vssInsert", "giaddr", "forward", "ok", "send"}

\* A task that handles a request.
RequestInv(i) ==
  LET d == ctx[i].raw_in
      c == ctx[i]
  IN  /\ IsClient(d)
      /\ pc[i] \in {"parse", "validate"} =>
           c.buffer = d /\ ~c.is_reforwarded /\ ~c.is_trusted_circuit
      /\ pc[i] \in PastValidation =>
           Admissible(d) /\ (c.is_reforwarded <=> ~FirstHop(d))
      /\ pc[i] = "option82Insert" => c.buffer = d /\ EnableOption82
      /\ pc[i] = "vssInsert" =>
           c.buffer = [d EXCEPT !.opt82 = InsertedOpt82(d)] /\ VssEnabled
      /\ pc[i] = "giaddr" => c.buffer = [d EXCEPT !.opt82 = FinalOpt82(d)]
      /\ pc[i] \in {"forward", "ok", "send"} => c.buffer = FinalRequest(i, d)
      /\ pc[i] \in {"ok", "send"} => c.dst_addr = ServerAddr(i)
      /\ pc[i] \in PastValidation \ {"option82Insert"} =>
           (FirstHop(d) /\ EnableOption82 => HasIds)
      /\ pc[i] = "halt" => FirstHop(d) /\ HasOpt82(d)
      /\ pc[i] = "GiaddrSpoof" => ~FirstHop(d) /\ d.giaddr \in LocalAddrs
      /\ pc[i] = "Config" =>
           FirstHop(d) /\ ~HasOpt82(d) /\ EnableOption82 /\ ~HasIds
      /\ pc[i] # "Option82Mismatch"

\* A task that handles a reply.
ReplyInv(i) ==
  LET d == ctx[i].raw_in
      c == ctx[i]
  IN  /\ ~IsClient(d)
      /\ pipe[i].expected = ExpectedSubOpts(d)
      /\ pc[i] \in {"parse", "vssCheck", "option82Strip"} => c.buffer = d
      /\ pc[i] = "option82Strip" => EnableOption82
      /\ pc[i] \in {"replyAddr", "ok", "send"} => c.buffer = FinalReply(d)
      /\ pc[i] \in {"ok", "send"} =>
           c.dst_addr = [ip |-> IF d.ciaddr # Unspecified THEN d.ciaddr
                                                          ELSE Broadcast,
                         port |-> ClientPort]
      /\ pc[i] \notin {"halt"} \cup RelayError

\* The context of every busy task is the closed form of its stage.
TaskInv(i) ==
  pc[i] # "recv" =>
    IF pipe[i].dir = "request" THEN RequestInv(i) ELSE ReplyInv(i)

PipelineInv == \A i \in Iface : TaskInv(i)

\* Everything sent is the closed form of what was received.
SentInv ==
  \A s \in sent :
    IF s.dir = "request"
      THEN Admissible(s.raw_in) /\ s.msg = FinalRequest(s.iface, s.raw_in)
      ELSE s.msg = FinalReply(s.raw_in)

-----------------------------------------------------------------------------
\* A step that leaves the pipeline, the context and the position of a task
\* alone does not disturb what is known of the task.
LEMMA TaskInvStable ==
  ASSUME NEW j \in Iface, TaskInv(j), pc'[j] = pc[j], pipe'[j] = pipe[j],
         ctx'[j] = ctx[j]
  PROVE  TaskInv(j)'
  BY DEF TaskInv, RequestInv, ReplyInv

\* Every message with an Option 82 of its own is unchanged by writing it back.
LEMMA SameMessage ==
  ASSUME NEW d \in Message
  PROVE  [d EXCEPT !.opt82 = d.opt82] = d
  BY DEF Message

\* The facts about a stage of a task: its context is well-typed, and the step
\* changes nothing but its context and its position.
LEMMA ExecuteFrame ==
  ASSUME TypeOK, NEW i \in Iface, NEW s, NEW r, s # "recv", Execute(i, s, r)
  PROVE  /\ pc[i] = s
         /\ pipe'[i] = pipe[i]
         /\ pipe[i] \in Pipe
         /\ ctx[i] \in Context
         /\ ctx'[i] = r.ctx
         /\ pc'[i] = IF r.ret = "continue" THEN NextStage(i, s) ELSE r.ret
         /\ s \in Stages =>
              s \in IF pipe[i].dir = "request" THEN RequestStages ELSE ReplyStages
         /\ \A j \in Iface \ {i} :
              pc'[j] = pc[j] /\ pipe'[j] = pipe[j] /\ ctx'[j] = ctx[j]
<1>1. pc[i] = s /\ pc[i] # "recv"
  BY DEF Execute
<1>2. pipe[i] \in Pipe /\ ctx[i] \in Context
  BY <1>1, BusyTask
<1>3. s \in Stages =>
        s \in IF pipe[i].dir = "request" THEN RequestStages ELSE ReplyStages
  BY <1>1 DEF TypeOK, TaskOK
<1> QED
  BY <1>1, <1>2, <1>3 DEF Execute, TypeOK

-----------------------------------------------------------------------------
(* One lemma for each stage of the pipelines. *)

\* ParseStage leaves the context alone and leads to the second stage.
LEMMA ParseInv ==
  ASSUME TypeOK, NEW i \in Iface, TaskInv(i), Parse(i)
  PROVE  TaskInv(i)'
<1>1. /\ pc[i] = "parse" /\ pipe'[i] = pipe[i] /\ ctx'[i] = ctx[i]
      /\ pc'[i] = NextStage(i, "parse")
      /\ ctx[i] \in Context
  BY ExecuteFrame DEF Parse, ParseStage, Continue
<1>2. CASE pipe[i].dir = "request"
  BY <1>1, <1>2 DEF TaskInv, RequestInv, NextStage, NextRequestStage, PastValidation
<1>3. CASE pipe[i].dir # "request"
  <2>1. pc'[i] \in {"vssCheck", "option82Strip", "replyAddr"}
    BY <1>1, <1>3 DEF NextStage, NextReplyStage
  <2>2. pc'[i] = "option82Strip" => EnableOption82
    BY <1>1, <1>3 DEF NextStage, NextReplyStage
  <2>3. pc'[i] = "replyAddr" => ~EnableOption82
    BY <1>1, <1>3, Option82Assumption DEF NextStage, NextReplyStage
  <2>4. ctx[i].raw_in \in Message
    BY <1>1 DEF Context
  <2>5. ~EnableOption82 => FinalReply(ctx[i].raw_in) = ctx[i].raw_in
    BY <2>4, SameMessage DEF FinalReply
  <2> QED
    BY <1>1, <1>3, <2>1, <2>2, <2>3, <2>5
       DEF TaskInv, ReplyInv, RelayError
<1> QED
  BY <1>2, <1>3

\* ValidateStage admits exactly the admissible requests and marks those that
\* another relay agent has handled.
LEMMA ValidateInv ==
  ASSUME TypeOK, NEW i \in Iface, TaskInv(i), ValidateGiaddr(i)
  PROVE  TaskInv(i)'
<1> DEFINE d == ctx[i].raw_in
           r == ValidateStage(i, ctx[i])
<1>1. /\ pc[i] = "validate" /\ pipe'[i] = pipe[i] /\ ctx'[i] = r.ctx
      /\ pc'[i] = IF r.ret = "continue" THEN NextStage(i, "validate") ELSE r.ret
      /\ ctx[i] \in Context
      /\ pipe[i].dir = "request"
  BY ExecuteFrame DEF ValidateGiaddr, Stages, RequestStages, ReplyStages
<1>2. /\ IsClient(d) /\ ctx[i].buffer = d
      /\ ~ctx[i].is_reforwarded /\ ~ctx[i].is_trusted_circuit
  BY <1>1 DEF TaskInv, RequestInv
<1>3. d \in Message
  BY <1>1 DEF Context
<1>4. [d EXCEPT !.opt82 = d.opt82] = d
  BY <1>3, SameMessage
<1>5. CASE FirstHop(d) /\ ~HasOpt82(d)
  <2>1. Validate(d, ctx[i].is_trusted_circuit) = "FirstRelay"
    BY <1>5 DEF Validate, FirstHop
  <2>2. r = Continue(ctx[i])
    BY <1>2, <2>1 DEF ValidateStage
  <2>3. ctx'[i] = ctx[i] /\ pc'[i] = NextRequestStage("validate")
    BY <1>1, <2>2 DEF Continue, NextStage
  <2>4. /\ pc'[i] \in {"option82Insert", "vssInsert", "giaddr"}
        /\ pc'[i] = "option82Insert" <=> EnableOption82
        /\ pc'[i] = "vssInsert" => VssEnabled
        /\ pc'[i] = "giaddr" => ~VssEnabled
    BY <2>3, Option82Assumption DEF NextRequestStage
  <2>5. /\ ~EnableOption82 => InsertedOpt82(d) = d.opt82
        /\ ~VssEnabled => FinalOpt82(d) = InsertedOpt82(d)
    BY DEF InsertedOpt82, FinalOpt82
  <2> QED
    BY <1>1, <1>2, <1>4, <1>5, <2>3, <2>4, <2>5
       DEF TaskInv, RequestInv, PastValidation, Admissible
<1>6. CASE FirstHop(d) /\ HasOpt82(d)
  <2>1. Validate(d, ctx[i].is_trusted_circuit) = "UntrustedCircuit"
    BY <1>2, <1>6 DEF Validate, FirstHop
  <2>2. r = Halt(ctx[i])
    BY <1>2, <2>1 DEF ValidateStage
  <2>3. ctx'[i] = ctx[i] /\ pc'[i] = "halt"
    BY <1>1, <2>2 DEF Halt
  <2> QED
    BY <1>1, <1>2, <1>6, <2>3 DEF TaskInv, RequestInv, PastValidation
<1>7. CASE ~FirstHop(d) /\ d.giaddr \in LocalAddrs
  <2>1. Validate(d, ctx[i].is_trusted_circuit) = "Spoof"
    BY <1>7 DEF Validate, FirstHop
  <2>2. r = Fail(ctx[i], "GiaddrSpoof")
    BY <1>2, <2>1 DEF ValidateStage
  <2>3. ctx'[i] = ctx[i] /\ pc'[i] = "GiaddrSpoof"
    BY <1>1, <2>2 DEF Fail
  <2> QED
    BY <1>1, <1>2, <1>7, <2>3 DEF TaskInv, RequestInv, PastValidation
<1>8. CASE ~FirstHop(d) /\ d.giaddr \notin LocalAddrs
  <2>1. Validate(d, ctx[i].is_trusted_circuit) = "Reforwarded"
    BY <1>8 DEF Validate, FirstHop
  <2>2. r = Continue([ctx[i] EXCEPT !.is_reforwarded = TRUE])
    BY <1>2, <2>1 DEF ValidateStage
  <2>3. /\ ctx'[i].raw_in = d /\ ctx'[i].buffer = d /\ ctx'[i].is_reforwarded
        /\ pc'[i] = NextRequestStage("validate")
    BY <1>1, <1>2, <2>2 DEF Continue, NextStage, Context
  <2>4. /\ pc'[i] \in {"option82Insert", "vssInsert", "giaddr"}
        /\ pc'[i] = "option82Insert" <=> EnableOption82
        /\ pc'[i] = "vssInsert" => VssEnabled
        /\ pc'[i] = "giaddr" => ~VssEnabled
    BY <2>3, Option82Assumption DEF NextRequestStage
  <2>5. /\ InsertedOpt82(d) = d.opt82
        /\ ~VssEnabled => FinalOpt82(d) = d.opt82
    BY <1>8 DEF InsertedOpt82, FinalOpt82
  <2> QED
    BY <1>1, <1>2, <1>4, <1>8, <2>3, <2>4, <2>5
       DEF TaskInv, RequestInv, PastValidation, Admissible
<1> QED
  BY <1>5, <1>6, <1>7, <1>8

\* A stage that rewrites the buffer and makes a note in the metadata leaves
\* the rest of the context alone.
LEMMA RewriteFrame ==
  ASSUME NEW c \in Context, NEW m, NEW s,
         NEW r, r = Continue([Modify(c, m) EXCEPT !.metadata = @ \cup {s}])
  PROVE  /\ r.ret = "continue" /\ r.ctx.raw_in = c.raw_in
         /\ r.ctx.is_reforwarded = c.is_reforwarded
         /\ r.ctx.buffer = m
<1> DEFINE b == Modify(c, m)
<1>1. /\ b.raw_in = c.raw_in /\ b.is_reforwarded = c.is_reforwarded
      /\ b.buffer = m
      /\ b = [raw_in |-> c.raw_in, buffer |-> m, dst_addr |-> c.dst_addr,
              is_reforwarded |-> c.is_reforwarded,
              is_trusted_circuit |-> c.is_trusted_circuit,
              metadata |-> c.metadata]
  BY DEF Modify, Context
<1> HIDE DEF b
<1>2. r = [ctx |-> [b EXCEPT !.metadata = @ \cup {s}], ret |-> "continue"]
  BY DEF Continue, b
<1> QED
  BY <1>1, <1>2

\* Option82InsertStage inserts the configured ids into first-hop requests and
\* leaves the others alone.
LEMMA Option82InsertInv ==
  ASSUME TypeOK, NEW i \in Iface, TaskInv(i), Option82Insert(i)
  PROVE  TaskInv(i)'
<1> DEFINE d == ctx[i].raw_in
           r == Option82InsertStage(i, ctx[i])
<1>1. /\ pc[i] = "option82Insert" /\ pipe'[i] = pipe[i] /\ ctx'[i] = r.ctx
      /\ pc'[i] = IF r.ret = "continue" THEN NextStage(i, "option82Insert") ELSE r.ret
      /\ ctx[i] \in Context
      /\ pipe[i].dir = "request"
  BY ExecuteFrame DEF Option82Insert, Stages, RequestStages, ReplyStages
<1>2. /\ IsClient(d) /\ ctx[i].buffer = d /\ EnableOption82 /\ Admissible(d)
      /\ ctx[i].is_reforwarded <=> ~FirstHop(d)
  BY <1>1 DEF TaskInv, RequestInv, PastValidation
<1>3. d \in Message
  BY <1>1 DEF Context
<1>4. CASE FirstHop(d) /\ ~HasIds
  <2>1. r = Fail(ctx[i], "Config")
    BY <1>2, <1>4 DEF Option82InsertStage, CanInsert, HasIds
  <2>2. ctx'[i] = ctx[i] /\ pc'[i] = "Config"
    BY <1>1, <2>1 DEF Fail
  <2> QED
    BY <1>1, <1>2, <1>4, <2>2 DEF TaskInv, RequestInv, PastValidation, Admissible
<1>5. CASE ~(FirstHop(d) /\ ~HasIds)
  <2>1. /\ r.ret = "continue" /\ r.ctx.raw_in = d
        /\ r.ctx.is_reforwarded = ctx[i].is_reforwarded
        /\ r.ctx.buffer = [d EXCEPT !.opt82 = InsertedOpt82(d)]
    <3>1. CASE FirstHop(d)
      <4>1. r = Continue([Modify(ctx[i], [d EXCEPT !.opt82 = AgentInfo])
                            EXCEPT !.metadata = @ \cup {"option82_inserted"}])
        BY <1>2, <1>5, <3>1
           DEF Option82InsertStage, CanInsert, HasIds, Admissible
      <4>2. InsertedOpt82(d) = AgentInfo
        BY <1>2, <3>1 DEF InsertedOpt82
      <4> QED
        BY <1>1, <4>1, <4>2, RewriteFrame
    <3>2. CASE ~FirstHop(d)
      <4>1. r = Continue(ctx[i])
        BY <1>2, <3>2 DEF Option82InsertStage
      <4>2. InsertedOpt82(d) = d.opt82
        BY <3>2 DEF InsertedOpt82
      <4> QED
        BY <1>2, <1>3, <4>1, <4>2, SameMessage DEF Continue
    <3> QED
      BY <3>1, <3>2
  <2>2. /\ pc'[i] \in {"vssInsert", "giaddr"}
        /\ pc'[i] = "vssInsert" => VssEnabled
        /\ pc'[i] = "giaddr" => ~VssEnabled
    BY <1>1, <2>1, Option82Assumption DEF NextStage, NextRequestStage
  <2>3. ~VssEnabled => FinalOpt82(d) = InsertedOpt82(d)
    BY DEF FinalOpt82
  <2> QED
    BY <1>1, <1>2, <1>5, <2>1, <2>2, <2>3
       DEF TaskInv, RequestInv, PastValidation
<1> QED
  BY <1>4, <1>5

\* VssInsertStage writes sub-options 151 and 152 into an Option 82 that is
\* there.
LEMMA VssInsertInv ==
  ASSUME TypeOK, NEW i \in Iface, TaskInv(i), VssInsert(i)
  PROVE  TaskInv(i)'
<1> DEFINE d == ctx[i].raw_in
           r == VssInsertStage(i, ctx[i])
<1>1. /\ pc[i] = "vssInsert" /\ pipe'[i] = pipe[i] /\ ctx'[i] = r.ctx
      /\ pc'[i] = IF r.ret = "continue" THEN NextStage(i, "vssInsert") ELSE r.ret
      /\ ctx[i] \in Context
      /\ pipe[i].dir = "request"
  BY ExecuteFrame DEF VssInsert, Stages, RequestStages, ReplyStages
<1> DEFINE o == InsertedOpt82(d)
           b == ctx[i].buffer
<1>2. /\ IsClient(d) /\ b = [d EXCEPT !.opt82 = o]
      /\ VssEnabled /\ Admissible(d)
      /\ ctx[i].is_reforwarded <=> ~FirstHop(d)
      /\ FirstHop(d) /\ EnableOption82 => HasIds
  BY <1>1 DEF TaskInv, RequestInv, PastValidation
<1>3. d \in Message
  BY <1>1 DEF Context
<1>4. b.opt82 = o
  BY <1>2, <1>3 DEF Message
<1>5. /\ r.ret = "continue" /\ r.ctx.raw_in = d
      /\ r.ctx.is_reforwarded = ctx[i].is_reforwarded
      /\ r.ctx.buffer = [d EXCEPT !.opt82 = FinalOpt82(d)]
  <2> DEFINE v == [o EXCEPT !["vss"] = VssInfo, !["vssControl"] = EmptyData]
             m == IF o # NoOpt82 THEN [b EXCEPT !.opt82 = v] ELSE b
  <2>1. r = Continue([Modify(ctx[i], m) EXCEPT !.metadata = @ \cup {"vss_inserted"}])
    BY <1>4 DEF VssInsertStage, HasOpt82
  <2>2. m = [d EXCEPT !.opt82 = FinalOpt82(d)]
    <3>1. CASE o # NoOpt82
      <4>1. FinalOpt82(d) = v
        BY <1>2, <3>1 DEF FinalOpt82
      <4>2. m = [b EXCEPT !.opt82 = FinalOpt82(d)]
        BY <3>1, <4>1
      <4> HIDE DEF o, v, m, b
      <4>3. b = [d EXCEPT !.opt82 = o]
        BY <1>2
      <4> QED
        BY <1>3, <4>2, <4>3 DEF Message
    <3>2. CASE o = NoOpt82
      <4>1. FinalOpt82(d) = o
        BY <3>2 DEF FinalOpt82
      <4> QED
        BY <1>2, <3>2, <4>1
    <3> QED
      BY <3>1, <3>2
  <2> HIDE DEF m
  <2> QED
    BY <1>1, <2>1, <2>2, RewriteFrame
<1>6. pc'[i] = "giaddr"
  BY <1>1, <1>5 DEF NextStage, NextRequestStage
<1> QED
  BY <1>1, <1>2, <1>5, <1>6 DEF TaskInv, RequestInv, PastValidation

\* GiaddrStage stamps first-hop requests with the address of the interface.
LEMMA SetGiaddrInv ==
  ASSUME TypeOK, NEW i \in Iface, TaskInv(i), SetGiaddr(i)
  PROVE  TaskInv(i)'
<1> DEFINE d == ctx[i].raw_in
           r == GiaddrStage(i, ctx[i])
<1>1. /\ pc[i] = "giaddr" /\ pipe'[i] = pipe[i] /\ ctx'[i] = r.ctx
      /\ pc'[i] = IF r.ret = "continue" THEN NextStage(i, "giaddr") ELSE r.ret
      /\ ctx[i] \in Context
      /\ pipe[i].dir = "request"
  BY ExecuteFrame DEF SetGiaddr, Stages, RequestStages, ReplyStages
<1>2. /\ IsClient(d) /\ ctx[i].buffer = [d EXCEPT !.opt82 = FinalOpt82(d)]
      /\ Admissible(d)
      /\ ctx[i].is_reforwarded <=> ~FirstHop(d)
      /\ FirstHop(d) /\ EnableOption82 => HasIds
  BY <1>1 DEF TaskInv, RequestInv, PastValidation
<1>3. d \in Message /\ ctx[i].buffer.giaddr = d.giaddr
  BY <1>1, <1>2 DEF Context, Message
<1>4. /\ r.ret = "continue" /\ r.ctx.raw_in = d
      /\ r.ctx.is_reforwarded = ctx[i].is_reforwarded
      /\ r.ctx.buffer = FinalRequest(i, d)
  <2>1. CASE FirstHop(d)
    <3>1. r = Continue(Modify(ctx[i], [ctx[i].buffer EXCEPT !.giaddr = IfaceIp(i)]))
      BY <1>2, <1>3, <2>1 DEF GiaddrStage, FirstHop
    <3>2. [ctx[i].buffer EXCEPT !.giaddr = IfaceIp(i)] = FinalRequest(i, d)
      BY <1>2, <1>3, <2>1 DEF FinalRequest, Message
    <3> QED
      BY <1>1, <3>1, <3>2 DEF Continue, Modify, Context
  <2>2. CASE ~FirstHop(d)
    <3>1. r = Continue(ctx[i])
      BY <1>2, <2>2 DEF GiaddrStage
    <3>2. ctx[i].buffer = FinalRequest(i, d)
      BY <1>2, <1>3, <2>2 DEF FinalRequest, Message
    <3> QED
      BY <3>1, <3>2 DEF Continue
  <2> QED
    BY <2>1, <2>2
<1>5. pc'[i] = "forward"
  BY <1>1, <1>4 DEF NextStage, NextRequestStage
<1> QED
  BY <1>1, <1>2, <1>4, <1>5 DEF TaskInv, RequestInv, PastValidation

\* ForwardStage sends the request to the server.
LEMMA ForwardInv ==
  ASSUME TypeOK, NEW i \in Iface, TaskInv(i), Forward(i)
  PROVE  TaskInv(i)'
<1> DEFINE d == ctx[i].raw_in
           r == ForwardStage(i, ctx[i])
<1>1. /\ pc[i] = "forward" /\ pipe'[i] = pipe[i] /\ ctx'[i] = r.ctx
      /\ pc'[i] = IF r.ret = "continue" THEN NextStage(i, "forward") ELSE r.ret
      /\ ctx[i] \in Context
      /\ pipe[i].dir = "request"
  BY ExecuteFrame DEF Forward, Stages, RequestStages, ReplyStages
<1>2. /\ r.ret = "continue" /\ r.ctx.raw_in = d
      /\ r.ctx.is_reforwarded = ctx[i].is_reforwarded
      /\ r.ctx.buffer = ctx[i].buffer /\ r.ctx.dst_addr = ServerAddr(i)
  BY <1>1 DEF ForwardStage, Continue, Context
<1>3. pc'[i] = "ok"
  BY <1>1, <1>2 DEF NextStage, NextRequestStage
<1> QED
  BY <1>1, <1>2, <1>3 DEF TaskInv, RequestInv, PastValidation

\* VssCheckStage leaves the reply alone.
LEMMA VssCheckInv ==
  ASSUME TypeOK, NEW i \in Iface, TaskInv(i), VssCheck(i)
  PROVE  TaskInv(i)'
<1>1. /\ pc[i] = "vssCheck" /\ pipe'[i] = pipe[i] /\ ctx'[i] = ctx[i]
      /\ pc'[i] = NextStage(i, "vssCheck")
      /\ ctx[i] \in Context
      /\ pipe[i].dir # "request"
  BY ExecuteFrame
     DEF VssCheck, VssCheckStage, Continue, Stages, RequestStages, ReplyStages
<1>2. /\ pc'[i] \in {"option82Strip", "replyAddr"}
      /\ pc'[i] = "option82Strip" => EnableOption82
      /\ pc'[i] = "replyAddr" => ~EnableOption82
  BY <1>1, Option82Assumption DEF NextStage, NextReplyStage
<1>3. ctx[i].raw_in \in Message
  BY <1>1 DEF Context
<1>4. ~EnableOption82 => FinalReply(ctx[i].raw_in) = ctx[i].raw_in
  BY <1>3, SameMessage DEF FinalReply
<1> QED
  BY <1>1, <1>2, <1>4 DEF TaskInv, ReplyInv, RelayError

\* Option82StripStage never refuses a reply, since the sub-options it expects
\* are the reply's own, and removes its Option 82.
LEMMA Option82StripInv ==
  ASSUME TypeOK, NEW i \in Iface, TaskInv(i), Option82Strip(i)
  PROVE  TaskInv(i)'
<1> DEFINE d == ctx[i].raw_in
           r == Option82StripStage(i, ctx[i], pipe[i].expected)
<1>1. /\ pc[i] = "option82Strip" /\ pipe'[i] = pipe[i] /\ ctx'[i] = r.ctx
      /\ pc'[i] = IF r.ret = "continue" THEN NextStage(i, "option82Strip") ELSE r.ret
      /\ ctx[i] \in Context
      /\ pipe[i].dir # "request"
  BY ExecuteFrame DEF Option82Strip, Stages, RequestStages, ReplyStages
<1>2. /\ ~IsClient(d) /\ ctx[i].buffer = d /\ EnableOption82
      /\ pipe[i].expected = ExpectedSubOpts(d)
  BY <1>1 DEF TaskInv, ReplyInv
<1>3. r = Continue(Modify(ctx[i], Strip(d)))
  BY <1>2 DEF Option82StripStage, ExpectedSubOpts, ValidateEcho
<1>4. Strip(d) = FinalReply(d)
  BY <1>2 DEF Strip, FinalReply
<1>5. /\ r.ret = "continue" /\ r.ctx.raw_in = d /\ r.ctx.buffer = FinalReply(d)
  BY <1>1, <1>3, <1>4 DEF Continue, Modify, Context
<1>6. pc'[i] = "replyAddr"
  BY <1>1, <1>5 DEF NextStage, NextReplyStage
<1> QED
  BY <1>1, <1>2, <1>5, <1>6 DEF TaskInv, ReplyInv, RelayError

\* ReplyAddrStage sends the reply to the client's address, or broadcasts it.
LEMMA ReplyAddrInv ==
  ASSUME TypeOK, NEW i \in Iface, TaskInv(i), ReplyAddr(i)
  PROVE  TaskInv(i)'
<1> DEFINE d == ctx[i].raw_in
           r == ReplyAddrStage(i, ctx[i])
           a == [ip |-> IF d.ciaddr # Unspecified THEN d.ciaddr ELSE Broadcast,
                 port |-> ClientPort]
<1>1. /\ pc[i] = "replyAddr" /\ pipe'[i] = pipe[i] /\ ctx'[i] = r.ctx
      /\ pc'[i] = IF r.ret = "continue" THEN NextStage(i, "replyAddr") ELSE r.ret
      /\ ctx[i] \in Context
      /\ pipe[i].dir # "request"
  BY ExecuteFrame DEF ReplyAddr, Stages, RequestStages, ReplyStages
<1>2. /\ ~IsClient(d) /\ ctx[i].buffer = FinalReply(d)
      /\ pipe[i].expected = ExpectedSubOpts(d)
  BY <1>1 DEF TaskInv, ReplyInv
<1>3. d \in Message
  BY <1>1 DEF Context
<1>4. ctx[i].buffer.ciaddr = d.ciaddr
  BY <1>2, <1>3 DEF FinalReply, Message
<1>5. r = Continue([ctx[i] EXCEPT !.dst_addr = a])
  BY <1>4 DEF ReplyAddrStage
<1> HIDE DEF a
<1>6. /\ r.ret = "continue" /\ r.ctx.raw_in = d
      /\ r.ctx.buffer = FinalReply(d) /\ r.ctx.dst_addr = a
  BY <1>1, <1>2, <1>5 DEF Continue, Context
<1>7. pc'[i] = "ok"
  BY <1>1, <1>6 DEF NextStage, NextReplyStage
<1> QED
  BY <1>1, <1>2, <1>6, <1>7 DEF TaskInv, ReplyInv, RelayError, a

-----------------------------------------------------------------------------
(* The invariant is inductive. *)

\* A datagram enters its pipeline with a context that is its closed form.
LEMMA ReceiveInv ==
  ASSUME TypeOK, NEW i \in Iface, NEW d \in Message,
         RecvClient(i, d) \/ RecvServer(i, d)
  PROVE  TaskInv(i)'
<1>1. /\ pc'[i] = "parse" /\ ctx'[i] = NewContext(d)
  BY DEF RecvClient, RecvServer, TypeOK
<1>2. /\ ctx'[i].raw_in = d /\ ctx'[i].buffer = d
      /\ ~ctx'[i].is_reforwarded /\ ~ctx'[i].is_trusted_circuit
  BY <1>1 DEF NewContext
<1>3. CASE RecvClient(i, d)
  <2>1. IsClient(d) /\ pipe'[i].dir = "request"
    BY <1>3 DEF RecvClient, TypeOK
  <2> QED
    BY <1>1, <1>2, <2>1 DEF TaskInv, RequestInv, PastValidation
<1>4. CASE RecvServer(i, d)
  <2>1. /\ ~IsClient(d) /\ pipe'[i].dir # "request"
        /\ pipe'[i].expected = ExpectedSubOpts(d)
    BY <1>4 DEF RecvServer, TypeOK
  <2> QED
    BY <1>1, <1>2, <2>1 DEF TaskInv, ReplyInv, RelayError
<1> QED
  BY <1>3, <1>4

\* A step of task i leaves the other tasks alone.
LEMMA OtherTasks ==
  ASSUME TypeOK, NEW i \in Iface, NEW j \in Iface, i # j, OpenRecv(i) \/ Handle(i)
  PROVE  pc'[j] = pc[j] /\ pipe'[j] = pipe[j] /\ ctx'[j] = ctx[j]
<1>1. CASE OpenRecv(i)
  BY <1>1 DEF TypeOK, OpenRecv, RecvGarbage, RecvClient, RecvServer
<1>2. CASE Handle(i)
  BY <1>2 DEF TypeOK, Handle, Parse, ValidateGiaddr, Option82Insert, VssInsert,
              SetGiaddr, Forward, VssCheck, Option82Strip, ReplyAddr, Execute,
              Forwarded, Send, Halted, Failed, Idle
<1> QED
  BY <1>1, <1>2

\* Every stage keeps its own task in closed form.
LEMMA StageStepInv ==
  ASSUME TypeOK, NEW i \in Iface, TaskInv(i), StageStep(i)
  PROVE  TaskInv(i)'
  BY ParseInv, ValidateInv, Option82InsertInv, VssInsertInv, SetGiaddrInv,
     ForwardInv, VssCheckInv, Option82StripInv, ReplyAddrInv DEF StageStep

\* PipelineInv is preserved by every step of every task.
LEMMA PipelineInvStep ==
  ASSUME TypeOK, PipelineInv, [OpenNext]_vars
  PROVE  PipelineInv'
<1>1. CASE UNCHANGED vars
  BY <1>1 DEF vars, PipelineInv, TaskInv, RequestInv, ReplyInv
<1>2. ASSUME NEW i \in Iface, OpenRecv(i) \/ Handle(i)
      PROVE  PipelineInv'
  <2>1. ASSUME NEW j \in Iface, j # i PROVE TaskInv(j)'
    BY <1>2, <2>1, OtherTasks, TaskInvStable DEF PipelineInv
  <2> SUFFICES TaskInv(i)'
    BY <2>1 DEF PipelineInv
  <2>2. TaskInv(i)
    BY DEF PipelineInv
  <2>3. CASE \E d \in Datagrams : RecvGarbage(i, d)
    BY <2>2, <2>3, TaskInvStable DEF RecvGarbage
  <2>4. CASE \E d \in Datagrams : RecvClient(i, d) \/ RecvServer(i, d)
    BY <2>4, ReceiveInv DEF Datagrams, RecvClient, RecvServer
  <2>5. CASE StageStep(i)
    BY <2>2, <2>5, StageStepInv
  <2>6. CASE Forwarded(i)
    <3>1. /\ pc[i] = "ok" /\ pc'[i] = "send"
          /\ pipe'[i] = pipe[i] /\ ctx'[i] = ctx[i]
      BY <2>6 DEF Forwarded, TypeOK
    <3> QED
      BY <2>2, <3>1
         DEF TaskInv, RequestInv, ReplyInv, PastValidation, RelayError
  <2>7. CASE Send(i) \/ Halted(i) \/ Failed(i)
    BY <2>7 DEF Send, Halted, Failed, Idle, TypeOK, TaskInv
  <2> QED
    BY <1>2, <2>3, <2>4, <2>5, <2>6, <2>7 DEF OpenRecv, Handle, StageStep
<1> QED
  BY <1>1, <1>2 DEF OpenNext

\* A task passes the closed form of its datagram to send_to.
LEMMA SentInvStep ==
  ASSUME TypeOK, PipelineInv, SentInv, [OpenNext]_vars
  PROVE  SentInv'
<1>1. CASE UNCHANGED sent
  BY <1>1 DEF SentInv
<1>2. ASSUME NEW i \in Iface, Send(i) PROVE SentInv'
  <2>1. /\ pc[i] = "send" /\ sent' = sent \cup Outgoing(i) /\ TaskInv(i)
    BY <1>2 DEF Send, PipelineInv
  <2>2. ASSUME NEW s \in Outgoing(i)
        PROVE  IF s.dir = "request"
                 THEN /\ Admissible(s.raw_in)
                      /\ s.msg = FinalRequest(s.iface, s.raw_in)
                 ELSE s.msg = FinalReply(s.raw_in)
    <3>1. s = [no |-> pipe[i].no, iface |-> i, dir |-> pipe[i].dir,
               raw_in |-> ctx[i].raw_in, msg |-> ctx[i].buffer,
               dst |-> ctx[i].dst_addr]
      BY <2>2 DEF Outgoing
    <3>2. /\ s.iface = i /\ s.dir = pipe[i].dir /\ s.raw_in = ctx[i].raw_in
          /\ s.msg = ctx[i].buffer
      BY <3>1
    <3> QED
      BY <2>1, <3>2 DEF TaskInv, RequestInv, ReplyInv, PastValidation
  <2> QED
    BY <2>1, <2>2 DEF SentInv
<1>3. OpenNext => UNCHANGED sent \/ \E i \in Iface : Send(i)
  BY DEF OpenNext, OpenRecv, RecvGarbage, RecvClient, RecvServer, Handle, Parse,
         ValidateGiaddr, Option82Insert, VssInsert, SetGiaddr, Forward,
         VssCheck, Option82Strip, ReplyAddr, Execute, Forwarded, Halted, Failed
<1> QED
  BY <1>1, <1>2, <1>3 DEF vars

\* The pipelines compute their closed forms, whatever the configuration, the
\* datagrams and the interleaving of the tasks.
THEOREM PipelinesComputeClosedForm == Spec => [](TypeOK /\ PipelineInv /\ SentInv)
<1>1. Init => PipelineInv /\ SentInv
  BY DEF Init, PipelineInv, SentInv, TaskInv
<1>2. TypeOK /\ PipelineInv /\ SentInv /\ [Next]_vars => (PipelineInv /\ SentInv)'
  BY PipelineInvStep, SentInvStep, NextIsOpen
<1>3. Spec => []TypeOK
  BY TypeCorrect
<1> QED
  BY <1>1, <1>2, <1>3, PTL DEF Spec

-----------------------------------------------------------------------------
(* The safety properties. *)

\* A request stamped by the relay is never relayed by it again, for any set
\* of interfaces and any configuration: giaddr::validate refuses it at every
\* socket.
THEOREM StampedRequestsStop == Spec => []OwnRequestNotRelayed
<1>1. TypeOK /\ SentInv => OwnRequestNotRelayed
  <2> SUFFICES ASSUME TypeOK, SentInv, NEW s \in sent, NEW t \in sent,
                      s.dir = "request", t.dir = "request",
                      FirstHop(s.raw_in), s.msg.giaddr # Unspecified,
                      t.raw_in = s.msg
               PROVE  FALSE
    BY DEF OwnRequestNotRelayed, FirstHop
  <2>1. s.iface \in Iface /\ s.raw_in \in Message
    BY DEF TypeOK, Sent
  <2>2. s.msg = FinalRequest(s.iface, s.raw_in) /\ Admissible(t.raw_in)
    BY DEF SentInv
  <2>3. s.msg.giaddr = IfaceIp(s.iface)
    BY <2>1, <2>2 DEF FinalRequest, Message
  <2>4. s.msg.giaddr \in LocalAddrs
    BY <2>1, <2>3, AddressAssumption
  <2> QED
    BY <2>2, <2>4 DEF Admissible, FirstHop
<1> QED
  BY <1>1, PipelinesComputeClosedForm, PTL

\* With Option 82 enabled no reply leaves the relay with an Option 82.
THEOREM RepliesAreStripped ==
  ASSUME EnableOption82
  PROVE  Spec => []NoOption82ToClient
<1>1. TypeOK /\ SentInv => NoOption82ToClient
  <2> SUFFICES ASSUME TypeOK, SentInv, NEW s \in sent, s.dir = "reply"
               PROVE  s.msg.opt82 = NoOpt82
    BY DEF NoOption82ToClient
  <2>1. s.raw_in \in Message
    BY DEF TypeOK, Sent
  <2>2. s.msg = FinalReply(s.raw_in)
    BY DEF SentInv
  <2> QED
    BY <2>1, <2>2 DEF FinalReply, Message
<1> QED
  BY <1>1, PipelinesComputeClosedForm, PTL

\* Without VSS a request that has been through another relay agent is relayed
\* unchanged; with VSS it is not, since VssInsertStage rewrites the Option 82
\* it carries.
THEOREM ReforwardedPassUnchanged ==
  ASSUME ~VssEnabled
  PROVE  Spec => []ReforwardedUntouched
<1>1. TypeOK /\ SentInv => ReforwardedUntouched
  <2> SUFFICES ASSUME TypeOK, SentInv, NEW s \in sent, s.dir = "request",
                      s.raw_in.giaddr # Unspecified
               PROVE  s.msg = s.raw_in
    BY DEF ReforwardedUntouched
  <2>1. s.raw_in \in Message /\ ~FirstHop(s.raw_in)
    BY DEF TypeOK, Sent, FirstHop
  <2>2. s.msg = FinalRequest(s.iface, s.raw_in)
    BY DEF SentInv
  <2>3. FinalOpt82(s.raw_in) = s.raw_in.opt82
    BY <2>1 DEF FinalOpt82, InsertedOpt82
  <2>4. FinalRequest(s.iface, s.raw_in)
          = [s.raw_in EXCEPT !.opt82 = @, !.giaddr = @]
    BY <2>1, <2>3 DEF FinalRequest
  <2>5. [s.raw_in EXCEPT !.opt82 = @, !.giaddr = @] = s.raw_in
    BY <2>1 DEF Message
  <2> QED
    BY <2>2, <2>4, <2>5
<1> QED
  BY <1>1, PipelinesComputeClosedForm, PTL

-----------------------------------------------------------------------------
(* The pipelines implement the contract. *)

\* What the refinement mapping makes of the tasks.
Handling ==
  [i \in Iface |-> IF pc[i] = "recv" THEN [no |-> 0]
                   ELSE [no |-> pipe[i].no, d |-> ctx[i].raw_in]]

\* No stage touches the datagram that the context was created with.
LEMMA StageKeepsDatagram ==
  ASSUME NEW i \in Iface, NEW c \in Context
  PROVE  /\ ParseStage(i, c).ctx.raw_in = c.raw_in
         /\ ValidateStage(i, c).ctx.raw_in = c.raw_in
         /\ Option82InsertStage(i, c).ctx.raw_in = c.raw_in
         /\ VssInsertStage(i, c).ctx.raw_in = c.raw_in
         /\ GiaddrStage(i, c).ctx.raw_in = c.raw_in
         /\ ForwardStage(i, c).ctx.raw_in = c.raw_in
         /\ VssCheckStage(i, c).ctx.raw_in = c.raw_in
         /\ \A e : Option82StripStage(i, c, e).ctx.raw_in = c.raw_in
         /\ ReplyAddrStage(i, c).ctx.raw_in = c.raw_in
<1>1. \A m : Modify(c, m).raw_in = c.raw_in
  BY DEF Modify, Context
<1>2. ASSUME NEW m, NEW s
      PROVE  Continue([Modify(c, m) EXCEPT !.metadata = @ \cup {s}]).ctx.raw_in
               = c.raw_in
  <2> DEFINE b == Modify(c, m)
  <2>1. /\ b.raw_in = c.raw_in
        /\ b = [raw_in |-> c.raw_in, buffer |-> m, dst_addr |-> c.dst_addr,
                is_reforwarded |-> c.is_reforwarded,
                is_trusted_circuit |-> c.is_trusted_circuit,
                metadata |-> c.metadata]
    BY DEF Modify, Context
  <2> HIDE DEF b
  <2>2. [b EXCEPT !.metadata = @ \cup {s}].raw_in = c.raw_in
    BY <2>1
  <2> QED
    BY <2>2 DEF b, Continue
<1> USE DEF Continue, Fail, Halt
<1>3. [c EXCEPT !.is_reforwarded = TRUE].raw_in = c.raw_in
  BY DEF Context
<1>4. \A a : [c EXCEPT !.dst_addr = a].raw_in = c.raw_in
  BY DEF Context
<1>5. ParseStage(i, c).ctx.raw_in = c.raw_in /\ VssCheckStage(i, c).ctx.raw_in = c.raw_in
  BY DEF ParseStage, VssCheckStage
<1>6. ValidateStage(i, c).ctx.raw_in = c.raw_in
  <2>1. Validate(c.buffer, c.is_trusted_circuit) \in
          {"FirstRelay", "TrustedCircuit", "UntrustedCircuit", "Spoof", "Reforwarded"}
    BY DEF Validate
  <2> QED
    BY <1>3, <2>1 DEF ValidateStage
<1>7. Option82InsertStage(i, c).ctx.raw_in = c.raw_in
  BY <1>2 DEF Option82InsertStage
<1>8. VssInsertStage(i, c).ctx.raw_in = c.raw_in
  BY <1>2 DEF VssInsertStage
<1>9. GiaddrStage(i, c).ctx.raw_in = c.raw_in
  BY <1>1 DEF GiaddrStage
<1>10. ForwardStage(i, c).ctx.raw_in = c.raw_in /\ ReplyAddrStage(i, c).ctx.raw_in = c.raw_in
  BY <1>4 DEF ForwardStage, ReplyAddrStage
<1>11. \A e : Option82StripStage(i, c, e).ctx.raw_in = c.raw_in
  BY <1>1 DEF Option82StripStage
<1> QED
  BY <1>5, <1>6, <1>7, <1>8, <1>9, <1>10, <1>11

\* The contract sees nothing of a stage.
LEMMA StageStepStutters ==
  ASSUME TypeOK, NEW i \in Iface, StageStep(i)
  PROVE  Handling' = Handling /\ UNCHANGED <<stats, sent, dropped>>
<1>1. pc[i] \in Stages
  BY DEF StageStep, Parse, ValidateGiaddr, Option82Insert, VssInsert, SetGiaddr,
         Forward, VssCheck, Option82Strip, ReplyAddr, Execute, Stages,
         RequestStages, ReplyStages
<1>2. ctx[i] \in Context
  BY <1>1, BusyTask DEF Stages, RequestStages, ReplyStages
<1>3. PICK s \in Stages, r \in StageResult :
        Execute(i, s, r) /\ r.ctx.raw_in = ctx[i].raw_in
  BY <1>1, <1>2, StageTypes, StageKeepsDatagram
     DEF StageStep, Parse, ValidateGiaddr, Option82Insert, VssInsert, SetGiaddr,
         Forward, VssCheck, Option82Strip, ReplyAddr, Stages, RequestStages,
         ReplyStages
<1>4. pc[i] # "recv" /\ pc'[i] # "recv"
  <2>1. TypeOK'
    BY StageStepType
  <2>2. pipe'[i] = pipe[i] /\ pipe[i] # NoPipe
    BY <1>1, <1>3 DEF Execute, TypeOK, TaskOK, Stages, RequestStages, ReplyStages
  <2> QED
    BY <1>1, <2>1, <2>2 DEF TypeOK, TaskOK
<1>5. ASSUME NEW j \in Iface
      PROVE  /\ pc'[j] = "recv" <=> pc[j] = "recv"
             /\ pipe'[j] = pipe[j] /\ (ctx'[j].raw_in = ctx[j].raw_in)
  <2>1. CASE j = i
    BY <1>3, <1>4, <2>1 DEF Execute, TypeOK
  <2>2. CASE j # i
    BY <1>3, <2>2 DEF Execute, TypeOK
  <2> QED
    BY <2>1, <2>2
<1> QED
  BY <1>3, <1>5 DEF Handling, Execute

\* The closed forms of the pipelines are those of the contract.
LEMMA ClosedFormsAgree ==
  ASSUME NEW i \in Iface, NEW d \in Message
  PROVE  /\ Admissible(d) /\ (FirstHop(d) /\ EnableOption82 => HasIds)
              => /\ Contract!DropCause(d) = "none"
                 /\ FinalRequest(i, d) = Contract!RelayedRequest(i, d)
         /\ FinalReply(d) = Contract!RelayedReply(d)
<1>1. FinalReply(d) = Contract!RelayedReply(d)
  BY DEF FinalReply, Contract!RelayedReply
<1>2. ASSUME Admissible(d), FirstHop(d) /\ EnableOption82 => HasIds
      PROVE  Contract!DropCause(d) = "none"
  BY <1>2 DEF Contract!DropCause, Contract!IsRequest, Contract!FirstHop,
              Contract!HasOpt82, Contract!NoIds, Admissible, FirstHop,
              HasOpt82, HasIds, Contract!ClientTypes
<1>3. ASSUME Admissible(d) PROVE FinalRequest(i, d) = Contract!RelayedRequest(i, d)
  <2>1. CASE FirstHop(d)
    <3>1. FinalOpt82(d) = IF EnableOption82 THEN Contract!OwnOption82 ELSE NoOpt82
      <4>1. d.opt82 = NoOpt82
        BY <1>3, <2>1 DEF Admissible, HasOpt82
      <4>2. CASE ~EnableOption82
        BY <2>1, <4>1, <4>2 DEF FinalOpt82, InsertedOpt82
      <4>3. CASE EnableOption82
        <5>1. InsertedOpt82(d) = AgentInfo /\ AgentInfo # NoOpt82
          BY <2>1, <4>3, AgentInfoType, Option82Assumption DEF InsertedOpt82
        <5>2. CASE ~VssEnabled
          <6>1. AgentInfo = Contract!OwnOption82
            BY <5>2 DEF AgentInfo, Contract!OwnOption82, SubCode, Contract!SubCode
          <6> QED
            BY <4>3, <5>1, <5>2, <6>1 DEF FinalOpt82
        <5>3. CASE VssEnabled
          <6>1. [AgentInfo EXCEPT !["vss"] = VssInfo, !["vssControl"] = EmptyData]
                  = Contract!OwnOption82
            BY <5>3 DEF AgentInfo, Contract!OwnOption82, SubCode, Contract!SubCode
          <6> QED
            BY <4>3, <5>1, <5>3, <6>1 DEF FinalOpt82
        <5> QED
          BY <5>2, <5>3
      <4> QED
        BY <4>2, <4>3
    <3>2. FinalRequest(i, d) = [d EXCEPT !.opt82 = FinalOpt82(d), !.giaddr = IfaceIp(i)]
      BY <2>1 DEF FinalRequest
    <3> DEFINE o == IF EnableOption82 THEN Contract!OwnOption82 ELSE NoOpt82
    <3>3. Contract!RelayedRequest(i, d) = [d EXCEPT !.giaddr = IfaceIp(i), !.opt82 = o]
      BY <2>1 DEF Contract!RelayedRequest, Contract!FirstHop, FirstHop,
                  IfaceIp, Contract!IfaceIp
    <3> HIDE DEF o
    <3>4. \A a : [d EXCEPT !.opt82 = o, !.giaddr = a] = [d EXCEPT !.giaddr = a, !.opt82 = o]
      BY DEF Message
    <3> QED
      BY <3>1, <3>2, <3>3, <3>4 DEF o
  <2>2. CASE ~FirstHop(d)
    <3>1. FinalOpt82(d) = Contract!ReforwardedOption82(d.opt82)
      BY <2>2, Option82Assumption
         DEF FinalOpt82, InsertedOpt82, Contract!ReforwardedOption82
    <3>2. FinalRequest(i, d) = [d EXCEPT !.opt82 = FinalOpt82(d), !.giaddr = @]
      BY <2>2 DEF FinalRequest
    <3>3. Contract!RelayedRequest(i, d) = [d EXCEPT !.opt82 = FinalOpt82(d)]
      BY <2>2, <3>1 DEF Contract!RelayedRequest, Contract!FirstHop, FirstHop
    <3>4. \A o : [d EXCEPT !.opt82 = o, !.giaddr = @] = [d EXCEPT !.opt82 = o]
      BY DEF Message
    <3> QED
      BY <3>2, <3>3, <3>4
  <2> QED
    BY <2>1, <2>2
<1> QED
  BY <1>1, <1>2, <1>3
\* A datagram at the end of its pipeline has the fate the contract gives it.
LEMMA FateAgrees ==
  ASSUME TypeOK, NEW i \in Iface, TaskInv(i),
         pc[i] \in {"send", "halt"} \cup RelayError
  PROVE  LET h == Handling[i] IN
           /\ h = [no |-> pipe[i].no, d |-> ctx[i].raw_in] /\ h # Contract!Nothing
           /\ pc[i] = "send" => /\ Contract!DropCause(h.d) = "none"
                                /\ Outgoing(i) = {Contract!Outcome(i, h)}
           /\ pc[i] # "send" => Contract!DropCause(h.d) = pc[i] /\ pc[i] # "none"
<1> DEFINE d == ctx[i].raw_in
           h == Handling[i]
<1>1. pc[i] # "recv" /\ pipe[i] \in Pipe /\ ctx[i] \in Context /\ d \in Message
  BY BusyTask DEF RelayError, Context
<1>2. h = [no |-> pipe[i].no, d |-> d]
  BY <1>1 DEF Handling
<1>3. h # Contract!Nothing /\ h.no = pipe[i].no /\ h.d = d
  BY <1>2 DEF Contract!Nothing
<1>4. Contract!IsRequest(d) <=> IsClient(d)
  BY DEF Contract!IsRequest, Contract!ClientTypes, IsClient, ClientTypes
<1>5. CASE pipe[i].dir = "request"
  <2>1. RequestInv(i) /\ IsClient(d)
    BY <1>1, <1>5 DEF TaskInv, RequestInv
  <2>2. CASE pc[i] = "send"
    <3>1. /\ Admissible(d) /\ (FirstHop(d) /\ EnableOption82 => HasIds)
          /\ ctx[i].buffer = FinalRequest(i, d)
          /\ ctx[i].dst_addr = ServerAddr(i)
      BY <2>1, <2>2 DEF RequestInv, PastValidation
    <3>2. /\ Contract!DropCause(d) = "none"
          /\ ctx[i].buffer = Contract!RelayedRequest(i, d)
      BY <1>1, <3>1, ClosedFormsAgree
    <3>3. /\ ctx[i].dst_addr = Contract!ServerAddr(i)
          /\ ctx[i].dst_addr # NoAddr
      BY <3>1, ServerAddrType, AddressAssumption DEF ServerAddr, Contract!ServerAddr
    <3>4. Outgoing(i) = {Contract!Outcome(i, h)}
      BY <1>3, <1>4, <1>5, <2>1, <3>2, <3>3 DEF Outgoing, Contract!Outcome
    <3> QED
      BY <1>2, <1>3, <2>2, <3>2, <3>4
  <2>3. CASE pc[i] # "send"
    <3>1. /\ pc[i] = "halt" => FirstHop(d) /\ HasOpt82(d)
          /\ pc[i] = "GiaddrSpoof" => ~FirstHop(d) /\ d.giaddr \in LocalAddrs
          /\ pc[i] = "Config" =>
               FirstHop(d) /\ ~HasOpt82(d) /\ EnableOption82 /\ ~HasIds
          /\ pc[i] \in {"halt", "GiaddrSpoof", "Config"}
      BY <2>1, <2>3 DEF RequestInv, RelayError
    <3>2. Contract!DropCause(d) = pc[i]
      BY <1>4, <2>1, <3>1
         DEF Contract!DropCause, Contract!FirstHop, Contract!HasOpt82,
             Contract!NoIds, FirstHop, HasOpt82, HasIds
    <3> QED
      BY <1>2, <1>3, <2>3, <3>1, <3>2
  <2> QED
    BY <2>2, <2>3
<1>6. CASE pipe[i].dir # "request"
  <2>1. /\ pc[i] = "send" /\ ~IsClient(d) /\ pipe[i].dir = "reply"
        /\ ctx[i].buffer = FinalReply(d)
        /\ ctx[i].dst_addr = [ip |-> IF d.ciaddr # Unspecified THEN d.ciaddr
                                                               ELSE Broadcast,
                              port |-> ClientPort]
    BY <1>1, <1>6 DEF TaskInv, ReplyInv, Pipe, Direction
  <2>2. Contract!DropCause(d) = "none"
    BY <1>4, <2>1 DEF Contract!DropCause
  <2>3. ctx[i].dst_addr = Contract!ReplyDestination(d)
    BY <2>1 DEF Contract!ReplyDestination, ClientPort
  <2>4. ctx[i].dst_addr # NoAddr
    BY <1>1, <2>1, AddressAssumption DEF SockAddr, Message, ClientPort
  <2>5. ctx[i].buffer = Contract!RelayedReply(d)
    BY <1>1, <2>1, ClosedFormsAgree
  <2>6. Outgoing(i) = {Contract!Outcome(i, h)}
    BY <1>3, <1>4, <2>1, <2>3, <2>4, <2>5 DEF Outgoing, Contract!Outcome
  <2> QED
    BY <1>2, <1>3, <2>1, <2>2, <2>6
<1> QED
  BY <1>5, <1>6

\* The step that ends the handling of a datagram empties the task's slot.
LEMMA IdleEmpties ==
  ASSUME TypeOK, NEW i \in Iface, Idle(i)
  PROVE  Handling' = [Handling EXCEPT ![i] = Contract!Nothing]
<1>1. \A j \in Iface : Handling'[j] = IF j = i THEN [no |-> 0] ELSE Handling[j]
  BY DEF Handling, Idle, TypeOK
<1> QED
  BY <1>1 DEF Handling, Contract!Nothing

\* What the contract sees of the tasks.
ContractView == <<Handling, stats["received"], sent, dropped>>

\* Every step of the tasks is a step of the contract or leaves what it sees
\* alone.
LEMMA RefinementStep ==
  ASSUME TypeOK, PipelineInv, [Next]_vars
  PROVE  [Contract!Next]_ContractView
<1> USE DEF ContractView
<1>0. stats["received"] \in Nat
  BY DEF TypeOK, Counters
<1>1. ASSUME NEW i \in Iface, NEW d \in Input, RecvGarbage(i, d)
      PROVE  Contract!Next
  <2>1. Contract!Discard(i)
    BY <1>0, <1>1 DEF RecvGarbage, CanReceive, CountReceived, NextNo,
                      Contract!Discard, Contract!Nothing, TypeOK, Counters
  <2> QED
    BY <2>1 DEF Contract!Next
<1>2. ASSUME NEW i \in Iface, NEW d \in Input,
             RecvClient(i, d) \/ RecvServer(i, d)
      PROVE  Contract!Next
  <2>1. /\ pc[i] = "recv" /\ d # Garbage /\ UNCHANGED <<sent, dropped>>
        /\ stats'["received"] = stats["received"] + 1
    BY <1>2 DEF RecvClient, RecvServer, CanReceive, CountReceived, TypeOK, Counters
  <2>2. /\ pc'[i] = "parse" /\ pipe'[i].no = stats["received"] + 1
        /\ ctx'[i].raw_in = d
        /\ \A j \in Iface \ {i} :
              pc'[j] = pc[j] /\ pipe'[j] = pipe[j] /\ ctx'[j] = ctx[j]
    BY <1>2 DEF RecvClient, RecvServer, NextNo, NewContext, TypeOK
  <2>3. Handling' = [Handling EXCEPT ![i] = [no |-> stats["received"] + 1, d |-> d]]
    <3>1. \A j \in Iface : Handling'[j] =
            IF j = i THEN [no |-> stats["received"] + 1, d |-> d] ELSE Handling[j]
      BY <2>2 DEF Handling
    <3> QED
      BY <3>1 DEF Handling
  <2>4. Contract!Receive(i, d)
    BY <2>1, <2>3 DEF Contract!Receive, Contract!Nothing, Handling
  <2> QED
    BY <2>4 DEF Contract!Next
<1>3. ASSUME NEW i \in Iface, StageStep(i) PROVE UNCHANGED ContractView
  BY <1>3, StageStepStutters
<1>4. ASSUME NEW i \in Iface, Forwarded(i) PROVE UNCHANGED ContractView
  <2>1. stats'["received"] = stats["received"]
    BY <1>4 DEF Forwarded, TypeOK, Counters
  <2>2. Handling' = Handling
    BY <1>4 DEF Forwarded, TypeOK, Handling
  <2> QED
    BY <1>4, <2>1, <2>2 DEF Forwarded
<1>5. ASSUME NEW i \in Iface, Send(i) PROVE Contract!Next
  <2>1. pc[i] = "send" /\ TaskInv(i) /\ Idle(i)
    BY <1>5 DEF Send, PipelineInv
  <2>2. /\ Handling[i] # Contract!Nothing
        /\ Contract!DropCause(Handling[i].d) = "none"
        /\ Outgoing(i) = {Contract!Outcome(i, Handling[i])}
    BY <2>1, FateAgrees
  <2>3. Handling' = [Handling EXCEPT ![i] = Contract!Nothing]
    BY <2>1, IdleEmpties
  <2>4. Contract!Relay(i)
    BY <1>5, <2>2, <2>3 DEF Send, Contract!Relay, Handling
  <2> QED
    BY <2>4 DEF Contract!Next
<1>6. ASSUME NEW i \in Iface, Halted(i) \/ Failed(i) PROVE Contract!Next
  <2>1. /\ pc[i] \in {"halt"} \cup RelayError /\ pc[i] # "send"
        /\ TaskInv(i) /\ Idle(i) /\ Drop(i) /\ UNCHANGED sent
        /\ stats'["received"] = stats["received"]
    BY <1>6 DEF Halted, Failed, PipelineInv, RelayError, TypeOK, Counters
  <2>2. /\ Handling[i] = [no |-> pipe[i].no, d |-> ctx[i].raw_in]
        /\ Handling[i] # Contract!Nothing
        /\ Contract!DropCause(Handling[i].d) = pc[i] /\ pc[i] # "none"
    BY <2>1, FateAgrees
  <2>3. Handling' = [Handling EXCEPT ![i] = Contract!Nothing]
    BY <2>1, IdleEmpties
  <2>4. Handling[i].no = pipe[i].no /\ Handling[i].d = ctx[i].raw_in
    BY <2>2
  <2>5. Contract!Refuse(i)
    BY <2>1, <2>2, <2>3, <2>4 DEF Drop, Contract!Refuse, Handling
  <2> QED
    BY <2>5 DEF Contract!Next
<1>7. CASE UNCHANGED vars
  BY <1>7 DEF vars, Handling
<1> QED
  BY <1>1, <1>2, <1>3, <1>4, <1>5, <1>6, <1>7
     DEF Next, Recv, Handle, StageStep

\* The relay tasks implement RelayContract: every datagram received gets, in
\* one step of the contract, the fate that its closed forms give it, for any
\* set of interfaces, any datagrams and any configuration.
THEOREM RelayImplementsContract == Spec => ImplementsContract
<1>1. Init => Contract!Init
  BY DEF Init, Contract!Init, Contract!Nothing, Counters
<1>2. TypeOK /\ PipelineInv /\ [Next]_vars => [Contract!Next]_ContractView
  BY RefinementStep
<1> QED
  BY <1>1, <1>2, PipelinesComputeClosedForm, PTL
     DEF Spec, ImplementsContract, Contract!Spec, Handling, ContractView

-----------------------------------------------------------------------------
(* The fate of every datagram. *)

\* The tasks that hold a datagram, as the contract sees them.
Held == {i \in Iface : Handling[i] # Contract!Nothing}

\* The numbers of the datagrams received so far.
Received == 1..stats["received"]

\* The numbers in use are those of datagrams that were received.
NumbersIssued ==
  /\ \A i \in Held : Handling[i].no \in Received
  /\ \A s \in sent : s.no \in Received
  /\ \A x \in dropped : x.no \in Received

\* No number is used twice.
NumbersUnique ==
  /\ \A i, j \in Held : Handling[i].no = Handling[j].no => i = j
  /\ \A s, t \in sent : s.no = t.no => s = t
  /\ \A x, y \in dropped : x.no = y.no => x = y
  /\ \A i \in Held : \A s \in sent : Handling[i].no # s.no
  /\ \A i \in Held : \A x \in dropped : Handling[i].no # x.no
  /\ \A s \in sent : \A x \in dropped : s.no # x.no

\* No number is lost.
NumbersKept ==
  \A n \in Received : \/ \E i \in Held : Handling[i].no = n
                      \/ \E s \in sent : s.no = n
                      \/ \E x \in dropped : x.no = n

FateInv == NumbersIssued /\ NumbersUnique /\ NumbersKept

\* A task holds a datagram exactly while it is not waiting for one.
LEMMA HeldIsBusy ==
  /\ Held = Busy
  /\ \A i \in Busy : Handling[i].no = pipe[i].no
  BY DEF Held, Busy, Handling, Contract!Nothing

\* Nothing has been received at first.
LEMMA FateInvInit == Init => FateInv
  BY HeldIsBusy DEF Init, FateInv, NumbersIssued, NumbersUnique, NumbersKept,
                    Received, Busy, Counters

\* The invariant is preserved by every step of the contract.
LEMMA FateInvStep ==
  ASSUME stats["received"] \in Nat, FateInv, [Contract!Next]_ContractView
  PROVE  FateInv'
<1> DEFINE n == stats["received"]
<1>1. CASE UNCHANGED ContractView
  BY <1>1 DEF ContractView, FateInv, NumbersIssued, NumbersUnique, NumbersKept,
              Held, Received
<1>2. ASSUME NEW i \in Iface, NEW d, Contract!Receive(i, d)
      PROVE  FateInv'
  <2>1. /\ n' = n + 1 /\ sent' = sent /\ dropped' = dropped
        /\ Handling' = [Handling EXCEPT ![i] = [no |-> n + 1, d |-> d]]
        /\ Handling[i] = Contract!Nothing
    BY <1>2 DEF Contract!Receive, Handling
  <2>2. [no |-> n + 1, d |-> d] # Contract!Nothing
    BY DEF Contract!Nothing
  <2>3. Held' = Held \cup {i} /\ i \notin Held
    BY <2>1, <2>2 DEF Held, Handling
  <2>4. /\ Handling'[i].no = n + 1
        /\ \A j \in Held : Handling'[j] = Handling[j]
    BY <2>1, <2>3 DEF Handling, Held
  <2>5. Received' = Received \cup {n + 1} /\ n + 1 \notin Received
    BY <2>1 DEF Received
  <2> HIDE DEF n
  <2>6. NumbersIssued'
    BY <2>1, <2>3, <2>4, <2>5 DEF FateInv, NumbersIssued
  <2>7. NumbersUnique'
    BY <2>1, <2>3, <2>4, <2>5 DEF FateInv, NumbersIssued, NumbersUnique
  <2>8. NumbersKept'
    BY <2>1, <2>3, <2>4, <2>5 DEF FateInv, NumbersKept
  <2> QED
    BY <2>6, <2>7, <2>8 DEF FateInv
<1>3. ASSUME NEW i \in Iface, Contract!Discard(i)
      PROVE  FateInv'
  <2> DEFINE x == [no |-> n + 1, iface |-> i, raw_in |-> Garbage,
                   cause |-> "undecodable"]
  <2>1. /\ n' = n + 1 /\ sent' = sent /\ dropped' = dropped \cup {x}
        /\ Handling' = Handling
    BY <1>3 DEF Contract!Discard, Handling
  <2>2. x.no = n + 1 /\ Held' = Held
    BY <2>1 DEF Held
  <2>3. Received' = Received \cup {n + 1} /\ n + 1 \notin Received
    BY <2>1 DEF Received
  <2> HIDE DEF n, x
  <2>4. NumbersIssued'
    BY <2>1, <2>2, <2>3 DEF FateInv, NumbersIssued
  <2>5. NumbersUnique'
    BY <2>1, <2>2, <2>3 DEF FateInv, NumbersIssued, NumbersUnique
  <2>6. NumbersKept'
    BY <2>1, <2>2, <2>3 DEF FateInv, NumbersKept
  <2> QED
    BY <2>4, <2>5, <2>6 DEF FateInv
<1>4. ASSUME NEW i \in Iface, Contract!Relay(i)
      PROVE  FateInv'
  <2> DEFINE s == Contract!Outcome(i, Handling[i])
  <2>1. /\ n' = n /\ sent' = sent \cup {s} /\ dropped' = dropped
        /\ Handling' = [Handling EXCEPT ![i] = Contract!Nothing]
        /\ Handling[i] # Contract!Nothing
    BY <1>4 DEF Contract!Relay, Handling
  <2>2. s.no = Handling[i].no /\ i \in Held
    BY <2>1 DEF Contract!Outcome, Held
  <2>3. Held' = Held \ {i} /\ \A j \in Held \ {i} : Handling'[j] = Handling[j]
    BY <2>1 DEF Held, Handling
  <2>4. Received' = Received
    BY <2>1 DEF Received
  <2> HIDE DEF n, s
  <2>5. NumbersIssued'
    BY <2>1, <2>2, <2>3, <2>4 DEF FateInv, NumbersIssued
  <2>6. NumbersUnique'
    BY <2>1, <2>2, <2>3, <2>4 DEF FateInv, NumbersUnique
  <2>7. NumbersKept'
    BY <2>1, <2>2, <2>3, <2>4 DEF FateInv, NumbersKept
  <2> QED
    BY <2>5, <2>6, <2>7 DEF FateInv
<1>5. ASSUME NEW i \in Iface, Contract!Refuse(i)
      PROVE  FateInv'
  <2> DEFINE x == [no |-> Handling[i].no, iface |-> i, raw_in |-> Handling[i].d,
                   cause |-> Contract!DropCause(Handling[i].d)]
  <2>1. /\ n' = n /\ sent' = sent /\ dropped' = dropped \cup {x}
        /\ Handling' = [Handling EXCEPT ![i] = Contract!Nothing]
        /\ Handling[i] # Contract!Nothing
    BY <1>5 DEF Contract!Refuse, Handling
  <2>2. x.no = Handling[i].no /\ i \in Held
    BY <2>1 DEF Held
  <2>3. Held' = Held \ {i} /\ \A j \in Held \ {i} : Handling'[j] = Handling[j]
    BY <2>1 DEF Held, Handling
  <2>4. Received' = Received
    BY <2>1 DEF Received
  <2> HIDE DEF n, x
  <2>5. NumbersIssued'
    BY <2>1, <2>2, <2>3, <2>4 DEF FateInv, NumbersIssued
  <2>6. NumbersUnique'
    BY <2>1, <2>2, <2>3, <2>4 DEF FateInv, NumbersUnique
  <2>7. NumbersKept'
    BY <2>1, <2>2, <2>3, <2>4 DEF FateInv, NumbersKept
  <2> QED
    BY <2>5, <2>6, <2>7 DEF FateInv
<1> QED
  BY <1>1, <1>2, <1>3, <1>4, <1>5 DEF Contract!Next

\* At most one member of a set has a given property: its cardinality.
LEMMA AtMostOne ==
  ASSUME NEW S, \A x, y \in S : x = y
  PROVE  Cardinality(S) = IF S = {} THEN 0 ELSE 1
<1>1. CASE S = {}
  BY <1>1, FS_EmptySet
<1>2. CASE S # {}
  <2>1. PICK x \in S : TRUE
    BY <1>2
  <2>2. S = {x}
    BY <2>1
  <2> QED
    BY <1>2, <2>2, FS_Singleton
<1> QED
  BY <1>1, <1>2

\* Every datagram received is in the hands of exactly one task, was sent
\* exactly once or was dropped exactly once, for any number of interfaces and
\* datagrams.
THEOREM EveryDatagramHasOneFate == Spec => []ExactlyOneFate
<1>1. Init => FateInv
  BY FateInvInit
<1>2. TypeOK /\ PipelineInv /\ FateInv /\ [Next]_vars => FateInv'
  BY RefinementStep, FateInvStep DEF TypeOK, Counters
<1>3. FateInv => ExactlyOneFate
  <2> SUFFICES ASSUME FateInv, NEW n \in 1..stats["received"]
               PROVE    Cardinality({i \in Busy : pipe[i].no = n})
                      + Cardinality({s \in sent : s.no = n})
                      + Cardinality({x \in dropped : x.no = n}) = 1
    BY DEF ExactlyOneFate
  <2> DEFINE A == {i \in Busy : pipe[i].no = n}
             B == {s \in sent : s.no = n}
             C == {x \in dropped : x.no = n}
  <2>1. /\ \A x, y \in A : x = y
        /\ \A x, y \in B : x = y
        /\ \A x, y \in C : x = y
    BY HeldIsBusy DEF FateInv, NumbersUnique
  <2>2. /\ A = {} \/ B = {}
        /\ A = {} \/ C = {}
        /\ B = {} \/ C = {}
    BY HeldIsBusy DEF FateInv, NumbersUnique
  <2>3. A # {} \/ B # {} \/ C # {}
    BY HeldIsBusy DEF FateInv, NumbersKept, Received
  <2> HIDE DEF A, B, C
  <2>4. /\ Cardinality(A) = IF A = {} THEN 0 ELSE 1
        /\ Cardinality(B) = IF B = {} THEN 0 ELSE 1
        /\ Cardinality(C) = IF C = {} THEN 0 ELSE 1
    BY <2>1, AtMostOne
  <2>5. Cardinality(A) + Cardinality(B) + Cardinality(C) = 1
    BY <2>2, <2>3, <2>4
  <2> QED
    BY <2>5 DEF A, B, C
<1> QED
  BY <1>1, <1>2, <1>3, PipelinesComputeClosedForm, PTL DEF Spec

-----------------------------------------------------------------------------
(* The counters. *)

\* The sets that CountersAddUp counts.
Sending        == {i \in Iface : pc[i] = "send"}
SendingReplies == {i \in Sending : pipe[i].dir = "reply"}
SentReplies    == {s \in sent : s.dir = "reply"}
Errors         == {x \in dropped : x.cause \in RelayError}
Silent         == dropped \ Errors
Working        == Busy \ Sending

HistoryFinite == IsFiniteSet(sent) /\ IsFiniteSet(dropped)

\* They are finite.
LEMMA CountedFinite ==
  ASSUME HistoryFinite
  PROVE  /\ \A S \in {Sending, SendingReplies, Working, sent, SentReplies, dropped,
                      Errors, Silent} :
              IsFiniteSet(S) /\ Cardinality(S) \in Nat
<1>1. IsFiniteSet(Iface) /\ IsFiniteSet(sent) /\ IsFiniteSet(dropped)
  BY IfaceAssumption DEF HistoryFinite
<1>2. /\ Sending \in SUBSET Iface /\ SendingReplies \in SUBSET Iface
      /\ Working \in SUBSET Iface
      /\ SentReplies \in SUBSET sent
      /\ Errors \in SUBSET dropped /\ Silent \in SUBSET dropped
  BY DEF Sending, SendingReplies, Working, SentReplies, Errors, Silent, Busy
<1>3. \A S \in {Sending, SendingReplies, Working, sent, SentReplies, dropped,
                Errors, Silent} : IsFiniteSet(S)
  BY <1>1, <1>2, FS_Subset
<1> QED
  BY <1>3, FS_CardinalityType

\* The record of a datagram that a task gives up is new to the history.
LEMMA RecordsFresh ==
  ASSUME TypeOK, FateInv, NEW i \in Iface
  PROVE  /\ pc[i] # "recv" => \A s \in sent : s.no # pipe[i].no
         /\ pc[i] # "recv" => \A x \in dropped : x.no # pipe[i].no
         /\ \A x \in dropped : x.no # NextNo
<1>1. pc[i] # "recv" => i \in Held /\ Handling[i].no = pipe[i].no
  BY HeldIsBusy DEF Busy
<1>2. stats["received"] \in Nat
  BY DEF TypeOK, Counters
<1>3. NextNo \notin Received
  BY <1>2 DEF NextNo, Received
<1> QED
  BY <1>1, <1>3 DEF FateInv, NumbersUnique, NumbersIssued

\* CountersAddUp and the finiteness of the history are preserved by every step.
LEMMA CountInvStep ==
  ASSUME TypeOK, PipelineInv, FateInv, HistoryFinite, CountersAddUp, [Next]_vars
  PROVE  (HistoryFinite /\ CountersAddUp)'
<1> DEFINE Sum ==
      /\ stats["forwarded"] = Cardinality(sent) + Cardinality(Sending)
      /\ stats["stripped"] = Cardinality(SentReplies) + Cardinality(SendingReplies)
      /\ stats["spoof"] = Cardinality(Errors)
      /\ stats["received"] = stats["forwarded"] + stats["spoof"]
           + Cardinality(Silent) + Cardinality(Working)
<1>1. Sum
  BY DEF CountersAddUp, Sending, SendingReplies, SentReplies, Errors, Silent, Working
<1> SUFFICES HistoryFinite' /\ Sum'
  BY DEF CountersAddUp, Sending, SendingReplies, SentReplies, Errors, Silent, Working
<1>2. /\ IsFiniteSet(Sending) /\ IsFiniteSet(SendingReplies) /\ IsFiniteSet(Working)
      /\ IsFiniteSet(sent) /\ IsFiniteSet(SentReplies) /\ IsFiniteSet(dropped)
      /\ IsFiniteSet(Errors) /\ IsFiniteSet(Silent)
  BY CountedFinite
<1>3. /\ Cardinality(Sending) \in Nat /\ Cardinality(SendingReplies) \in Nat
      /\ Cardinality(Working) \in Nat /\ Cardinality(sent) \in Nat
      /\ Cardinality(SentReplies) \in Nat
      /\ Cardinality(Errors) \in Nat /\ Cardinality(Silent) \in Nat
  BY CountedFinite
<1>4. \A k \in Counters : stats[k] \in Nat
  BY DEF TypeOK
<1>5. ASSUME UNCHANGED <<stats, sent, dropped, Sending, SendingReplies, Working>>
      PROVE  HistoryFinite' /\ Sum'
  BY <1>1, <1>5 DEF HistoryFinite, SentReplies, Errors, Silent
<1>6. ASSUME NEW i \in Iface, NEW d \in Input, RecvGarbage(i, d)
      PROVE  HistoryFinite' /\ Sum'
  <2> DEFINE x == [no |-> NextNo, iface |-> i, raw_in |-> d, cause |-> "undecodable"]
  <2>1. /\ dropped' = dropped \cup {x} /\ sent' = sent
        /\ UNCHANGED <<Sending, SendingReplies, Working, SentReplies>>
    BY <1>6 DEF RecvGarbage, Sending, SendingReplies, Working, SentReplies, Busy
  <2>2. x \notin dropped
    BY RecordsFresh
  <2>3. x.cause \notin RelayError
    BY DEF RelayError
  <2> HIDE DEF x
  <2>4. Errors' = Errors /\ Silent' = Silent \cup {x} /\ x \notin Silent
    BY <2>1, <2>2, <2>3 DEF Errors, Silent
  <2>5. Cardinality(Silent') = Cardinality(Silent) + 1
    BY <1>2, <2>4, FS_AddElement
  <2>6. HistoryFinite'
    BY <1>2, <2>1, FS_AddElement DEF HistoryFinite
  <2>7. /\ stats'["received"] = stats["received"] + 1
        /\ stats'["forwarded"] = stats["forwarded"]
        /\ stats'["stripped"] = stats["stripped"]
        /\ stats'["spoof"] = stats["spoof"]
    BY <1>6 DEF RecvGarbage, CountReceived, TypeOK, Counters
  <2>8. Sum'
    BY <1>1, <1>3, <1>4, <2>1, <2>4, <2>5, <2>7 DEF Counters
  <2> QED
    BY <2>6, <2>8
<1>7. ASSUME NEW i \in Iface, NEW d \in Input,
             RecvClient(i, d) \/ RecvServer(i, d)
      PROVE  HistoryFinite' /\ Sum'
  <2>1. /\ pc[i] = "recv" /\ pc'[i] = "parse" /\ sent' = sent /\ dropped' = dropped
        /\ \A j \in Iface \ {i} : pc'[j] = pc[j] /\ pipe'[j] = pipe[j]
    BY <1>7 DEF RecvClient, RecvServer, CanReceive, TypeOK
  <2>2. /\ Sending' = Sending /\ SendingReplies' = SendingReplies
        /\ Working' = Working \cup {i} /\ i \notin Working
    BY <2>1 DEF Sending, SendingReplies, Working, Busy
  <2>3. Cardinality(Working') = Cardinality(Working) + 1
    BY <1>2, <2>2, FS_AddElement
  <2>4. UNCHANGED <<SentReplies, Errors, Silent>> /\ HistoryFinite'
    BY <2>1 DEF SentReplies, Errors, Silent, HistoryFinite
  <2>5. /\ stats'["received"] = stats["received"] + 1
        /\ stats'["forwarded"] = stats["forwarded"]
        /\ stats'["stripped"] = stats["stripped"]
        /\ stats'["spoof"] = stats["spoof"]
    BY <1>7 DEF RecvClient, RecvServer, CountReceived, TypeOK, Counters
  <2>6. Sum'
    BY <1>1, <1>3, <1>4, <2>1, <2>2, <2>3, <2>4, <2>5 DEF Counters
  <2> QED
    BY <2>4, <2>6
<1>8. ASSUME NEW i \in Iface, StageStep(i) PROVE HistoryFinite' /\ Sum'
  <2>1. /\ pc[i] \in Stages
        /\ UNCHANGED <<pipe, stats, sent, dropped>>
        /\ \A j \in Iface \ {i} : pc'[j] = pc[j]
    BY <1>8 DEF StageStep, Parse, ValidateGiaddr, Option82Insert, VssInsert,
         SetGiaddr, Forward, VssCheck, Option82Strip, ReplyAddr, Execute, Stages,
         RequestStages, ReplyStages, TypeOK
  <2>2. pc'[i] \notin {"recv", "send"} /\ pc[i] \notin {"recv", "send"}
    <3>1. pc[i] \notin {"recv", "send"}
      BY <2>1 DEF Stages, RequestStages, ReplyStages
    <3>2. ctx[i] \in Context
      BY <3>1, BusyTask
    <3>3. PICK s \in Stages, r \in StageResult : Execute(i, s, r)
      BY <1>8, <2>1, <3>2, StageTypes
         DEF StageStep, Parse, ValidateGiaddr, Option82Insert, VssInsert,
             SetGiaddr, Forward, VssCheck, Option82Strip, ReplyAddr, Stages,
             RequestStages, ReplyStages
    <3>4. pc'[i] = NextStage(i, s) \/ pc'[i] \in {"halt"} \cup RelayError
      BY <3>3 DEF Execute, TypeOK, StageResult
    <3>5. s \in IF pipe[i].dir = "request" THEN RequestStages ELSE ReplyStages
      BY <3>3 DEF Execute, TypeOK, TaskOK
    <3>6. NextStage(i, s) \in Stages \cup {"ok"}
      BY <3>5, NextStageType DEF NextStage, Stages
    <3> QED
      BY <3>1, <3>4, <3>6 DEF RelayError, Stages, RequestStages, ReplyStages
  <2>3. UNCHANGED <<Sending, SendingReplies, Working>>
    BY <2>1, <2>2 DEF Sending, SendingReplies, Working, Busy
  <2> QED
    BY <1>5, <2>1, <2>3
<1>9. ASSUME NEW i \in Iface, Forwarded(i) PROVE HistoryFinite' /\ Sum'
  <2>1. /\ pc[i] = "ok" /\ pc'[i] = "send" /\ sent' = sent /\ dropped' = dropped
        /\ pipe' = pipe
        /\ \A j \in Iface \ {i} : pc'[j] = pc[j]
    BY <1>9 DEF Forwarded, TypeOK
  <2>2. /\ Sending' = Sending \cup {i} /\ i \notin Sending
        /\ Working' = Working \ {i} /\ i \in Working
        /\ SendingReplies' = IF pipe[i].dir = "reply" THEN SendingReplies \cup {i}
                                                      ELSE SendingReplies
        /\ i \notin SendingReplies
    BY <2>1 DEF Sending, SendingReplies, Working, Busy
  <2>3. /\ Cardinality(Sending') = Cardinality(Sending) + 1
        /\ Cardinality(Working') = Cardinality(Working) - 1
    BY <1>2, <2>2, FS_AddElement, FS_RemoveElement
  <2>4. Cardinality(SendingReplies') =
          Cardinality(SendingReplies) + IF pipe[i].dir = "reply" THEN 1 ELSE 0
    <3>1. CASE pipe[i].dir = "reply"
      BY <1>2, <1>3, <2>2, <3>1, FS_AddElement
    <3>2. CASE pipe[i].dir # "reply"
      BY <1>2, <1>3, <2>2, <3>2, FS_AddElement
    <3> QED
      BY <3>1, <3>2
  <2>5. UNCHANGED <<SentReplies, Errors, Silent>> /\ HistoryFinite'
    BY <2>1 DEF SentReplies, Errors, Silent, HistoryFinite
  <2>6. /\ stats'["received"] = stats["received"]
        /\ stats'["forwarded"] = stats["forwarded"] + 1
        /\ stats'["stripped"] =
             stats["stripped"] + IF pipe[i].dir = "reply" THEN 1 ELSE 0
        /\ stats'["spoof"] = stats["spoof"]
    BY <1>9 DEF Forwarded, TypeOK, Counters
  <2>7. Sum'
    BY <1>1, <1>3, <1>4, <2>1, <2>3, <2>4, <2>5, <2>6 DEF Counters
  <2> QED
    BY <2>5, <2>7
<1>10. ASSUME NEW i \in Iface, Send(i) PROVE HistoryFinite' /\ Sum'
  <2>1. /\ pc[i] = "send" /\ pc'[i] = "recv" /\ stats' = stats /\ dropped' = dropped
        /\ \A j \in Iface \ {i} : pc'[j] = pc[j] /\ pipe'[j] = pipe[j]
    BY <1>10 DEF Send, Idle, TypeOK
  <2>2. PICK s : /\ sent' = sent \cup {s}
                 /\ s.no = pipe[i].no /\ s.dir = pipe[i].dir
    <3>1. Outgoing(i) = {Contract!Outcome(i, Handling[i])}
      BY <2>1, FateAgrees DEF PipelineInv
    <3>2. Outgoing(i) # {}
      BY <3>1
    <3> DEFINE s == [no |-> pipe[i].no, iface |-> i, dir |-> pipe[i].dir,
                     raw_in |-> ctx[i].raw_in, msg |-> ctx[i].buffer,
                     dst |-> ctx[i].dst_addr]
    <3>3. Outgoing(i) = {s} /\ s.no = pipe[i].no /\ s.dir = pipe[i].dir
      BY <3>2 DEF Outgoing
    <3> QED
      BY <1>10, <3>3 DEF Send
  <2>3. s \notin sent
    BY <2>1, <2>2, RecordsFresh
  <2>4. /\ Sending' = Sending \ {i} /\ i \in Sending /\ Working' = Working
        /\ SendingReplies' = SendingReplies \ {i}
        /\ i \in SendingReplies <=> pipe[i].dir = "reply"
    BY <2>1 DEF Sending, SendingReplies, Working, Busy
  <2>5. /\ SentReplies' = IF pipe[i].dir = "reply" THEN SentReplies \cup {s}
                                                   ELSE SentReplies
        /\ s \notin SentReplies
    BY <2>2, <2>3 DEF SentReplies
  <2>6. /\ Cardinality(sent') = Cardinality(sent) + 1
        /\ IsFiniteSet(sent')
        /\ Cardinality(Sending') = Cardinality(Sending) - 1
    BY <1>2, <2>2, <2>3, <2>4, FS_AddElement, FS_RemoveElement
  <2>7. Cardinality(SentReplies') =
          Cardinality(SentReplies) + IF pipe[i].dir = "reply" THEN 1 ELSE 0
    <3>1. CASE pipe[i].dir = "reply"
      BY <1>2, <1>3, <2>5, <3>1, FS_AddElement
    <3>2. CASE pipe[i].dir # "reply"
      BY <1>2, <1>3, <2>5, <3>2, FS_AddElement
    <3> QED
      BY <3>1, <3>2
  <2>8. Cardinality(SendingReplies') =
          Cardinality(SendingReplies) - IF pipe[i].dir = "reply" THEN 1 ELSE 0
    <3>1. CASE pipe[i].dir = "reply"
      BY <1>2, <1>3, <2>4, <3>1, FS_RemoveElement
    <3>2. CASE pipe[i].dir # "reply"
      <4>1. SendingReplies' = SendingReplies
        BY <2>4, <3>2
      <4> QED
        BY <1>3, <3>2, <4>1
    <3> QED
      BY <3>1, <3>2
  <2>9. UNCHANGED <<Errors, Silent>> /\ HistoryFinite'
    BY <2>1, <2>6 DEF Errors, Silent, HistoryFinite
  <2>10. /\ Cardinality(sent') + Cardinality(Sending')
             = Cardinality(sent) + Cardinality(Sending)
         /\ Cardinality(SentReplies') + Cardinality(SendingReplies')
             = Cardinality(SentReplies) + Cardinality(SendingReplies)
    BY <1>3, <2>6, <2>7, <2>8
  <2>11. Sum'
    BY <1>1, <2>1, <2>4, <2>9, <2>10
  <2> QED
    BY <2>9, <2>11
<1>11. ASSUME NEW i \in Iface, Halted(i) \/ Failed(i) PROVE HistoryFinite' /\ Sum'
  <2> DEFINE x == [no |-> pipe[i].no, iface |-> i, raw_in |-> ctx[i].raw_in,
                   cause |-> pc[i]]
  <2>1. /\ pc[i] \in {"halt"} \cup RelayError /\ pc'[i] = "recv"
        /\ sent' = sent /\ dropped' = dropped \cup {x}
        /\ \A j \in Iface \ {i} : pc'[j] = pc[j] /\ pipe'[j] = pipe[j]
    BY <1>11 DEF Halted, Failed, Drop, Idle, TypeOK
  <2>2. pc[i] \notin {"recv", "send"}
    BY <2>1 DEF RelayError
  <2>3. x \notin dropped /\ x.cause = pc[i]
    BY <2>2, RecordsFresh
  <2> HIDE DEF x
  <2>4. /\ Sending' = Sending /\ SendingReplies' = SendingReplies
        /\ Working' = Working \ {i} /\ i \in Working
    BY <2>1, <2>2 DEF Sending, SendingReplies, Working, Busy
  <2>5. Cardinality(Working') = Cardinality(Working) - 1
    BY <1>2, <2>4, FS_RemoveElement
  <2>6. SentReplies' = SentReplies /\ HistoryFinite'
    BY <1>2, <2>1, FS_AddElement DEF SentReplies, HistoryFinite
  <2>7. CASE Halted(i)
    <3>1. pc[i] = "halt" /\ stats' = stats /\ x.cause \notin RelayError
      BY <2>3, <2>7 DEF Halted, RelayError
    <3>2. Errors' = Errors /\ Silent' = Silent \cup {x} /\ x \notin Silent
      BY <2>1, <2>3, <3>1 DEF Errors, Silent
    <3>3. Cardinality(Silent') = Cardinality(Silent) + 1
      BY <1>2, <3>2, FS_AddElement
    <3>4. Sum'
      BY <1>1, <1>3, <1>4, <2>1, <2>4, <2>5, <2>6, <3>1, <3>2, <3>3 DEF Counters
    <3> QED
      BY <2>6, <3>4
  <2>8. CASE Failed(i)
    <3>1. pc[i] \in RelayError /\ pipe[i].dir = "request"
      <4>1. pc[i] \in RelayError /\ TaskInv(i)
        BY <2>8 DEF Failed, PipelineInv
      <4> QED
        BY <2>2, <4>1 DEF TaskInv, ReplyInv
    <3>2. /\ stats'["received"] = stats["received"]
          /\ stats'["forwarded"] = stats["forwarded"]
          /\ stats'["stripped"] = stats["stripped"]
          /\ stats'["spoof"] = stats["spoof"] + 1
      BY <2>8, <3>1 DEF Failed, TypeOK, Counters
    <3>3. Errors' = Errors \cup {x} /\ x \notin Errors /\ Silent' = Silent
      BY <2>1, <2>3, <3>1 DEF Errors, Silent
    <3>4. Cardinality(Errors') = Cardinality(Errors) + 1
      BY <1>2, <3>3, FS_AddElement
    <3>5. Sum'
      BY <1>1, <1>3, <1>4, <2>1, <2>4, <2>5, <2>6, <3>2, <3>3, <3>4 DEF Counters
    <3> QED
      BY <2>6, <3>5
  <2> QED
    BY <1>11, <2>7, <2>8
<1>12. CASE UNCHANGED vars
  BY <1>5, <1>12 DEF vars, Sending, SendingReplies, Working, Busy
<1> QED
  BY <1>6, <1>7, <1>8, <1>9, <1>10, <1>11, <1>12 DEF Next, Recv, Handle, StageStep

\* The inductive invariant behind the theorems about the counters.
CountInv == TypeOK /\ PipelineInv /\ FateInv /\ HistoryFinite /\ CountersAddUp

\* CountInv is an invariant.
LEMMA CountInvHolds == Spec => []CountInv
<1>1. Init => FateInv /\ HistoryFinite /\ CountersAddUp
  <2> SUFFICES ASSUME Init PROVE FateInv /\ HistoryFinite /\ CountersAddUp
    OBVIOUS
  <2>1. FateInv
    BY FateInvInit
  <2>2. HistoryFinite
    BY FS_EmptySet DEF Init, HistoryFinite
  <2>3. /\ \A k \in Counters : stats[k] = 0
        /\ sent = {} /\ dropped = {} /\ \A i \in Iface : pc[i] = "recv"
    BY DEF Init
  <2>4. CountersAddUp
    <3>1. /\ Sending = {} /\ SendingReplies = {} /\ SentReplies = {}
          /\ Errors = {} /\ Silent = {} /\ Working = {}
      BY <2>3 DEF Sending, SendingReplies, SentReplies, Errors, Silent, Working, Busy
    <3>2. /\ Cardinality(sent) = 0 /\ Cardinality(Sending) = 0
          /\ Cardinality(SendingReplies) = 0 /\ Cardinality(SentReplies) = 0
          /\ Cardinality(Errors) = 0 /\ Cardinality(Silent) = 0
          /\ Cardinality(Working) = 0
      BY <2>3, <3>1, FS_EmptySet
    <3>3. /\ stats["received"] = 0 /\ stats["forwarded"] = 0
          /\ stats["stripped"] = 0 /\ stats["spoof"] = 0
      BY <2>3 DEF Counters
    <3>4. /\ stats["forwarded"] = Cardinality(sent) + Cardinality(Sending)
          /\ stats["stripped"] = Cardinality(SentReplies) + Cardinality(SendingReplies)
          /\ stats["spoof"] = Cardinality(Errors)
          /\ stats["received"] = stats["forwarded"] + stats["spoof"]
               + Cardinality(Silent) + Cardinality(Working)
      BY <3>2, <3>3
    <3> QED
      BY <3>4 DEF CountersAddUp, Sending, SendingReplies, SentReplies, Errors,
                  Silent, Working
  <2> QED
    BY <2>1, <2>2, <2>4
<1>2. CountInv /\ [Next]_vars => (FateInv /\ HistoryFinite /\ CountersAddUp)'
  BY RefinementStep, FateInvStep, CountInvStep DEF CountInv, TypeOK, Counters
<1> QED
  BY <1>1, <1>2, PipelinesComputeClosedForm, PTL DEF Spec, CountInv

\* packets_received, packets_forwarded, option82_stripped and
\* packets_dropped_spoof add up across any number of concurrent tasks.
THEOREM CountersAreConsistent == Spec => []CountersAddUp
  BY CountInvHolds, PTL DEF CountInv

\* A relay that inserts Option 82 has an id to insert, or does not insert it:
\* then packets_dropped_spoof counts spoofed packets and nothing else.
THEOREM SpoofCounterIsHonest ==
  ASSUME EnableOption82 => HasIds
  PROVE  Spec => []SpoofCounterHonest
<1> DEFINE OnlySpoofs == \A x \in dropped : x.cause \in RelayError => x.cause = "GiaddrSpoof"
<1>1. Init => OnlySpoofs
  BY DEF Init
<1>2. TypeOK /\ PipelineInv /\ OnlySpoofs /\ [Next]_vars => OnlySpoofs'
  <2> SUFFICES ASSUME TypeOK, PipelineInv, OnlySpoofs, [Next]_vars
               PROVE  OnlySpoofs'
    OBVIOUS
  <2>1. CASE dropped' = dropped
    BY <2>1
  <2>2. ASSUME NEW i \in Iface, NEW d, RecvGarbage(i, d) PROVE OnlySpoofs'
    BY <2>2 DEF RecvGarbage, RelayError
  <2>3. ASSUME NEW i \in Iface, Halted(i) \/ Failed(i) PROVE OnlySpoofs'
    <3> DEFINE x == [no |-> pipe[i].no, iface |-> i, raw_in |-> ctx[i].raw_in,
                     cause |-> pc[i]]
    <3>1. /\ pc[i] \in {"halt"} \cup RelayError /\ TaskInv(i)
          /\ dropped' = dropped \cup {x}
      BY <2>3 DEF Halted, Failed, Drop, PipelineInv
    <3>2. pc[i] \in RelayError => pc[i] = "GiaddrSpoof"
      BY <3>1 DEF TaskInv, RequestInv, ReplyInv, RelayError
    <3> QED
      BY <3>1, <3>2
  <2>4. Next => \/ dropped' = dropped
                \/ \E i \in Iface, d \in Input : RecvGarbage(i, d)
                \/ \E i \in Iface : Halted(i) \/ Failed(i)
    BY DEF Next, Recv, RecvClient, RecvServer, Handle, Parse, ValidateGiaddr,
           Option82Insert, VssInsert, SetGiaddr, Forward, VssCheck,
           Option82Strip, ReplyAddr, Execute, Forwarded, Send
  <2> QED
    BY <2>1, <2>2, <2>3, <2>4 DEF vars
<1>3. CountersAddUp /\ OnlySpoofs => SpoofCounterHonest
  <2> SUFFICES ASSUME CountersAddUp, OnlySpoofs PROVE SpoofCounterHonest
    OBVIOUS
  <2>1. {x \in dropped : x.cause \in RelayError} = {x \in dropped : x.cause = "GiaddrSpoof"}
    BY DEF RelayError
  <2> QED
    BY <2>1 DEF CountersAddUp, SpoofCounterHonest
<1> HIDE DEF OnlySpoofs
<1> QED
  BY <1>1, <1>2, <1>3, CountInvHolds, PTL DEF CountInv, Spec
=============================================================================
