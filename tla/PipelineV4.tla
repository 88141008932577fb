----------------------------- MODULE PipelineV4 -----------------------------
(***************************************************************************)
(* The stages of the DHCPv4 pipelines (src/src/dhcp/v4/pipeline.rs) and    *)
(* the functions they call.  A stage maps a PipelineContext to a result:   *)
(* the context it leaves behind and whether the pipeline goes on.          *)
(*                                                                         *)
(* A buffer is represented by the message it decodes to: modify_v4 decodes *)
(* the buffer, applies the change and encodes the message again, so every  *)
(* buffer after the initial decode check in the receive loop is decodable. *)
(***************************************************************************)
EXTENDS RelayV4Config

RelayError == {"GiaddrSpoof", "Config", "Option82Mismatch"}

\* PipelineContext.  `interface' is the index of the task that owns it, and
\* `src_addr' is read by no stage of the v4 pipelines.
Context == [raw_in : Message, buffer : Message,
            dst_addr : SockAddr \cup {NoAddr},
            is_reforwarded : BOOLEAN, is_trusted_circuit : BOOLEAN,
            metadata : SUBSET {"option82_inserted", "vss_inserted"}]

NewContext(d) ==
  [raw_in |-> d, buffer |-> d, dst_addr |-> NoAddr, is_reforwarded |-> FALSE,
   is_trusted_circuit |-> FALSE, metadata |-> {}]

\* What PipelineStage::process returns: Ok(true), Ok(false) or Err(e).
Continue(c) == [ctx |-> c, ret |-> "continue"]
Halt(c)     == [ctx |-> c, ret |-> "halt"]
Fail(c, e)  == [ctx |-> c, ret |-> e]

\* A successful modify_v4: the buffer becomes the changed message.
Modify(c, m) == [c EXCEPT !.buffer = m]

-----------------------------------------------------------------------------
(* giaddr.rs *)

\* A plausible slip: giaddr is not compared with the relay's own addresses.
ValidateSkipsLocal(m, trusted) ==
  CASE m.giaddr = Unspecified /\ ~HasOpt82(m)            -> "FirstRelay"
    [] m.giaddr = Unspecified /\ HasOpt82(m) /\ trusted  -> "TrustedCircuit"
    [] m.giaddr = Unspecified /\ HasOpt82(m) /\ ~trusted -> "UntrustedCircuit"
    [] m.giaddr # Unspecified                            -> "Reforwarded"

\* giaddr::validate: the GiaddrDecision for message m.
Validate(m, trusted) ==
  CASE m.giaddr = Unspecified /\ ~HasOpt82(m)            -> "FirstRelay"
    [] m.giaddr = Unspecified /\ HasOpt82(m) /\ trusted  -> "TrustedCircuit"
    [] m.giaddr = Unspecified /\ HasOpt82(m) /\ ~trusted -> "UntrustedCircuit"
    [] m.giaddr # Unspecified /\ m.giaddr \in LocalAddrs -> "Spoof"
    [] m.giaddr # Unspecified /\ m.giaddr \notin LocalAddrs -> "Reforwarded"

-----------------------------------------------------------------------------
(* option82.rs *)

\* relay_info_to_sub_opt keeps every value but the relay agent flags, which
\* it replaces by [0].
RelayInfoToSubOpt(code, v) == IF code = "flags" THEN ZeroByte ELSE v

\* The SubOption list of an Option 82, in the order of the codes.
SubOpts(o) ==
  [code \in SubCode |->
     IF o[code] = Absent THEN Absent ELSE RelayInfoToSubOpt(code, o[code])]

ValidateEcho(received, expected) == received = expected

CanInsert(m) ==
  /\ ~(CircuitId = Absent /\ RemoteId = Absent)
  /\ ~HasOpt82(m)

AgentInfo ==
  [code \in SubCode |-> CASE code = "circuit" -> CircuitId
                          [] code = "remote"  -> RemoteId
                          [] OTHER            -> Absent]

\* A plausible slip: the option is read, not removed.
StripNothing(m) == m

\* option82::strip.
Strip(m) == [m EXCEPT !.opt82 = NoOpt82]

-----------------------------------------------------------------------------
(* The stages of the request pipeline. *)

ParseStage(i, c) == Continue(c)

\* A plausible slip: a reforwarded packet is not marked as one.
ValidateStageForgetsMark(i, c) ==
  LET decision == Validate(c.buffer, c.is_trusted_circuit) IN
  CASE decision = "Spoof"            -> Fail(c, "GiaddrSpoof")
    [] decision = "UntrustedCircuit" -> Halt(c)
    [] OTHER                         -> Continue(c)

ValidateStage(i, c) ==
  LET decision == Validate(c.buffer, c.is_trusted_circuit) IN
  CASE decision \in {"FirstRelay", "TrustedCircuit"} -> Continue(c)
    [] decision = "Reforwarded" -> Continue([c EXCEPT !.is_reforwarded = TRUE])
    [] decision = "UntrustedCircuit" -> Halt(c)
    [] decision = "Spoof" -> Fail(c, "GiaddrSpoof")

\* A plausible slip: the stage does not skip reforwarded packets.
Option82InsertStageAlways(i, c) ==
  IF ~CanInsert(c.buffer) THEN Fail(c, "Config")
  ELSE Continue([Modify(c, [c.buffer EXCEPT !.opt82 = AgentInfo])
                   EXCEPT !.metadata = @ \cup {"option82_inserted"}])

Option82InsertStage(i, c) ==
  IF c.is_reforwarded THEN Continue(c)
  ELSE IF ~CanInsert(c.buffer) THEN Fail(c, "Config")
  ELSE Continue([Modify(c, [c.buffer EXCEPT !.opt82 = AgentInfo])
                   EXCEPT !.metadata = @ \cup {"option82_inserted"}])

\* Adds VSS and VSS-Control to an Option 82 if there is one; it does not ask
\* whether the packet is a reforwarded one.
VssInsertStage(i, c) ==
  LET withVss == [c.buffer.opt82 EXCEPT !["vss"] = VssInfo,
                                        !["vssControl"] = EmptyData]
      m == IF HasOpt82(c.buffer) THEN [c.buffer EXCEPT !.opt82 = withVss]
                                 ELSE c.buffer
  IN  Continue([Modify(c, m) EXCEPT !.metadata = @ \cup {"vss_inserted"}])

\* A plausible slip: the stage replaces the giaddr of another relay agent.
GiaddrStageOverwrites(i, c) ==
  Continue(Modify(c, [c.buffer EXCEPT !.giaddr = IfaceIp(i)]))

\* A plausible slip: the changed message is not written back.
GiaddrStageKeeps(i, c) == Continue(c)

GiaddrStage(i, c) ==
  IF c.is_reforwarded \/ c.buffer.giaddr # Unspecified THEN Continue(c)
  ELSE Continue(Modify(c, [c.buffer EXCEPT !.giaddr = IfaceIp(i)]))

\* A plausible slip: no destination without a configured server.
ForwardStageOnlyConfigured(i, c) == Continue([c EXCEPT !.dst_addr = Server])

ForwardStage(i, c) == Continue([c EXCEPT !.dst_addr = ServerAddr(i)])

-----------------------------------------------------------------------------
(* The stages of the reply pipeline. *)

\* Only writes warnings to the log.
VssCheckStage(i, c) == Continue(c)

\* `expected' is None (NoOpt82) or the sub-options the reply must echo.
Option82StripStage(i, c, expected) ==
  IF /\ expected # NoOpt82
     /\ ~ /\ HasOpt82(c.buffer)
          /\ ValidateEcho(SubOpts(c.buffer.opt82), expected)
  THEN Fail(c, "Option82Mismatch")
  ELSE Continue(Modify(c, Strip(c.buffer)))

ClientPort == 68

ReplyAddrStage(i, c) ==
  Continue([c EXCEPT !.dst_addr =
    [ip   |-> IF c.buffer.ciaddr # Unspecified THEN c.buffer.ciaddr
                                               ELSE Broadcast,
     port |-> ClientPort]])

-----------------------------------------------------------------------------
(* build_request and build_reply: the stage that follows a stage. *)

RequestStages ==
  {"parse", "validate", "option82Insert", "vssInsert", "giaddr", "forward"}

ReplyStages == {"parse", "vssCheck", "option82Strip", "replyAddr"}

\* The stage after stage s of the request pipeline; "ok" after the last.
NextRequestStage(s) ==
  CASE s = "parse"    -> "validate"
    [] s = "validate" -> IF EnableOption82 THEN "option82Insert"
                         ELSE IF VssEnabled THEN "vssInsert" ELSE "giaddr"
    [] s = "option82Insert" -> IF VssEnabled THEN "vssInsert" ELSE "giaddr"
    [] s = "vssInsert" -> "giaddr"
    [] s = "giaddr"    -> "forward"
    [] s = "forward"   -> "ok"

\* The stage after stage s of the reply pipeline; "ok" after the last.
NextReplyStage(s) ==
  CASE s = "parse"         -> IF VssEnabled THEN "vssCheck"
                              ELSE IF EnableOption82 THEN "option82Strip"
                              ELSE "replyAddr"
    [] s = "vssCheck"      -> IF EnableOption82 THEN "option82Strip"
                                                ELSE "replyAddr"
    [] s = "option82Strip" -> "replyAddr"
    [] s = "replyAddr"     -> "ok"
=============================================================================
