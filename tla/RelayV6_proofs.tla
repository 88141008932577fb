---------------------------- MODULE RelayV6_proofs ----------------------------
(***************************************************************************)
(* Proofs about RelayV6, for any set of interfaces, addresses, messages    *)
(* and any configuration: what decapsulate computes for a reply of any     *)
(* depth, the types, what the pipelines compute at every stage, what       *)
(* leaves the relay and what does not, and the counters.                   *)
(***************************************************************************)
EXTENDS RelayV6, FiniteSetTheorems, WellFoundedInduction, TLAPS

\* The least-number principle: well-founded induction in a form without an
\* operator parameter.
LEMMA LeastNumber ==
  ASSUME NEW T, T \subseteq Nat, T # {}
  PROVE  \E n \in T : \A k \in T : n <= k
<1> DEFINE R == OpToRel(<, Nat)
<1>1. IsWellFoundedOn(R, Nat)
  BY NatLessThanWellFounded
<1>2. R = {ss \in Nat \X Nat : ss[1] < ss[2]}
  BY DEF OpToRel
<1> HIDE DEF R
<1>3. PICK n \in T : \A k \in T : ~(<<k, n>> \in R)
  BY <1>1, WFMin
<1>4. ASSUME NEW k \in T PROVE n <= k
  <2>1. n \in Nat /\ k \in Nat
    OBVIOUS
  <2>2. ~(<<k, n>> \in {ss \in Nat \X Nat : ss[1] < ss[2]})
    BY <1>2, <1>3
  <2>3. ~(k < n)
    BY <2>1, <2>2
  <2> QED
    BY <2>1, <2>3
<1> QED
  BY <1>4

-----------------------------------------------------------------------------
(* RelayFwdCodec::decapsulate *)

\* The Relay-reply headers of m that follow the first n end with header e.
RunEnds(m, n, e) ==
  /\ \A k \in n + 1 .. e : m.layers[k].mtype = "RelayRepl"
  /\ e < Len(m.layers) => m.layers[e + 1].mtype # "RelayRepl"

RunEnd(m, n) == CHOOSE e \in n..Len(m.layers) : RunEnds(m, n, e)

\* The run of Relay-reply headers that begins after the first n has one end.
LEMMA RunEndExists ==
  ASSUME NEW m \in Message, NEW n \in 0..Len(m.layers)
  PROVE  /\ RunEnd(m, n) \in n..Len(m.layers)
         /\ RunEnds(m, n, RunEnd(m, n))
         /\ \A e \in n..Len(m.layers) : RunEnds(m, n, e) => e = RunEnd(m, n)
<1> DEFINE L == Len(m.layers)
           T == {e \in n..L : e < L => m.layers[e + 1].mtype # "RelayRepl"}
<1>1. L \in Nat /\ m.layers \in Seq(Header)
  BY DEF Message
<1>2. L \in T
  BY <1>1
<1>3. PICK e \in T : \A k \in T : e <= k
  <2>1. T \subseteq Nat
    BY <1>1
  <2> QED
    BY <1>2, <2>1, LeastNumber
<1>4. ASSUME NEW k \in n + 1 .. e PROVE m.layers[k].mtype = "RelayRepl"
  <2>1. k - 1 \in n..L /\ k - 1 < e /\ k - 1 < L /\ (k - 1) + 1 = k
    BY <1>1, <1>3, <1>4
  <2>2. k - 1 \notin T
    BY <1>1, <1>3, <2>1
  <2> QED
    BY <2>1, <2>2
<1>5. e \in n..L /\ RunEnds(m, n, e)
  BY <1>3, <1>4 DEF RunEnds
<1>6. RunEnd(m, n) \in n..L /\ RunEnds(m, n, RunEnd(m, n))
  BY <1>5 DEF RunEnd
<1>7. ASSUME NEW a \in n..L, NEW b \in n..L, RunEnds(m, n, a), RunEnds(m, n, b)
      PROVE  ~(a < b)
  <2> SUFFICES ASSUME a < b PROVE FALSE
    OBVIOUS
  <2>1. a + 1 \in n + 1 .. b /\ a < L
    BY <1>1, <1>7
  <2> QED
    BY <1>7, <2>1 DEF RunEnds
<1>8. ASSUME NEW a \in n..L, RunEnds(m, n, a) PROVE a = RunEnd(m, n)
  BY <1>1, <1>6, <1>7, <1>8
<1> QED
  BY <1>6, <1>8

\* A Relay-reply header belongs to the run of the headers that follow it.
LEMMA RunEndStep ==
  ASSUME NEW m \in Message, NEW n \in 0..Len(m.layers)
  PROVE  IF n = Len(m.layers) \/ m.layers[n + 1].mtype # "RelayRepl"
           THEN RunEnd(m, n) = n
           ELSE RunEnd(m, n) = RunEnd(m, n + 1)
<1>1. Len(m.layers) \in Nat
  BY DEF Message
<1>2. CASE n = Len(m.layers) \/ m.layers[n + 1].mtype # "RelayRepl"
  <2>1. RunEnds(m, n, n)
    BY <1>1, <1>2 DEF RunEnds
  <2> QED
    BY <1>1, <1>2, <2>1, RunEndExists
<1>3. CASE ~(n = Len(m.layers) \/ m.layers[n + 1].mtype # "RelayRepl")
  <2> DEFINE e == RunEnd(m, n + 1)
  <2>1. n + 1 \in 0..Len(m.layers)
    BY <1>1, <1>3
  <2>2. e \in n + 1 .. Len(m.layers) /\ RunEnds(m, n + 1, e)
    BY <2>1, RunEndExists
  <2> HIDE DEF e
  <2>3. ASSUME NEW k \in n + 1 .. e PROVE m.layers[k].mtype = "RelayRepl"
    <3>1. CASE k = n + 1
      BY <1>3, <3>1
    <3>2. CASE k # n + 1
      <4>1. k \in (n + 1) + 1 .. e
        BY <1>1, <2>2, <3>2
      <4> QED
        BY <2>2, <4>1 DEF RunEnds
    <3> QED
      BY <3>1, <3>2
  <2>4. RunEnds(m, n, e) /\ e \in n..Len(m.layers)
    BY <1>1, <2>2, <2>3 DEF RunEnds
  <2> QED
    BY <1>3, <2>4, RunEndExists DEF e
<1> QED
  BY <1>2, <1>3

\* What is inside the first n headers of a message is a message, and its first
\* byte is the type of the next header or of the core.
LEMMA InsideFacts ==
  ASSUME NEW m \in Message, NEW n \in 0..Len(m.layers)
  PROVE  /\ Inside(m, n) \in Message
         /\ FirstByte(Inside(m, n)) =
              IF n = Len(m.layers) THEN m.core.mtype ELSE m.layers[n + 1].mtype
<1>1. m.layers \in Seq(Header) /\ m.core \in Core /\ Len(m.layers) \in Nat
  BY DEF Message
<1> DEFINE s == SubSeq(m.layers, n + 1, Len(m.layers))
<1>2. s \in Seq(Header)
  BY <1>1
<1>3. Len(s) = Len(m.layers) - n
  BY <1>1
<1>4. n # Len(m.layers) => s # <<>> /\ Head(s) = m.layers[n + 1]
  <2> SUFFICES ASSUME n # Len(m.layers)
               PROVE  s # <<>> /\ Head(s) = m.layers[n + 1]
    OBVIOUS
  <2>1. Len(s) # 0 /\ 1 \in 1..Len(s)
    BY <1>1, <1>3
  <2>2. s[1] = m.layers[n + 1]
    BY <1>1, <2>1
  <2> HIDE DEF s
  <2>3. s # <<>>
    BY <1>2, <2>1
  <2>4. Head(s) = s[1]
    BY <1>2, <2>3
  <2> QED
    BY <2>2, <2>3, <2>4
<1>5. n = Len(m.layers) => s = <<>>
  BY <1>1, <1>2, <1>3
<1>6. Inside(m, n) = [m EXCEPT !.layers = s]
  BY DEF Inside
<1>7. Inside(m, n) \in Message /\ Inside(m, n).layers = s
      /\ Inside(m, n).core = m.core
  BY <1>1, <1>2, <1>6 DEF Message
<1> QED
  BY <1>1, <1>4, <1>5, <1>7 DEF FirstByte

\* What decapsulate returns for what is inside the first n headers of m.
Unwrapped(m, n) ==
  LET e == RunEnd(m, n)
  IN  IF /\ n < e
         /\ \A k \in n + 1 .. e : ExtractRelayMsg(m.layers[k].opts)
         /\ FirstByte(Inside(m, e)) # "RelayRepl"
        THEN Inner(Inside(m, e))
        ELSE ParseError

\* One step of the recursion of decapsulate, f standing for the recursive call.
UnwrapStep(m, f, n) ==
  IF \/ n = Len(m.layers)
     \/ m.layers[n + 1].mtype # "RelayRepl"
     \/ ~ExtractRelayMsg(m.layers[n + 1].opts)
    THEN ParseError
  ELSE IF FirstByte(Inside(m, n + 1)) = "RelayRepl" THEN f[n + 1]
  ELSE Inner(Inside(m, n + 1))

\* Unwrapped satisfies the equation of the loop of decapsulate.
LEMMA UnwrappedStep ==
  ASSUME NEW m \in Message, NEW n \in 0..Len(m.layers), NEW f,
         n < Len(m.layers) => f[n + 1] = Unwrapped(m, n + 1)
  PROVE  UnwrapStep(m, f, n) = Unwrapped(m, n)
<1> DEFINE L == Len(m.layers)
           e == RunEnd(m, n)
<1>1. L \in Nat /\ n \in Nat
  BY DEF Message
<1>2. e \in n..L /\ RunEnds(m, n, e)
  BY RunEndExists
<1>3. CASE n = L \/ m.layers[n + 1].mtype # "RelayRepl"
  BY <1>1, <1>3, RunEndStep DEF UnwrapStep, Unwrapped
<1>4. CASE ~(n = L \/ m.layers[n + 1].mtype # "RelayRepl")
  <2>1. n + 1 \in 0..L /\ n < L
    BY <1>1, <1>4
  <2>2. e = RunEnd(m, n + 1) /\ e \in n + 1 .. L
    BY <1>4, <2>1, RunEndStep, RunEndExists
  <2>3. FirstByte(Inside(m, n + 1)) =
          IF n + 1 = L THEN m.core.mtype ELSE m.layers[(n + 1) + 1].mtype
    BY <2>1, InsideFacts
  <2>4. CASE ~ExtractRelayMsg(m.layers[n + 1].opts)
    <3>1. n + 1 \in n + 1 .. e
      BY <1>1, <2>2
    <3> QED
      BY <2>4, <3>1 DEF UnwrapStep, Unwrapped
  <2>5. CASE /\ ExtractRelayMsg(m.layers[n + 1].opts)
             /\ FirstByte(Inside(m, n + 1)) = "RelayRepl"
    <3>1. f[n + 1] = UnwrapStep(m, f, n)
      BY <1>4, <2>5 DEF UnwrapStep
    <3>2. Unwrapped(m, n + 1) = Unwrapped(m, n)
      <4>1. CASE n + 1 < e
        <5>1. (\A k \in n + 1 .. e : ExtractRelayMsg(m.layers[k].opts))
              <=> (\A k \in (n + 1) + 1 .. e : ExtractRelayMsg(m.layers[k].opts))
          <6>1. \A k \in n + 1 .. e : k = n + 1 \/ k \in (n + 1) + 1 .. e
            BY <1>1, <2>2
          <6>2. \A k \in (n + 1) + 1 .. e : k \in n + 1 .. e
            BY <1>1, <2>2
          <6> QED
            BY <2>5, <6>1, <6>2
        <5>2. n < e
          BY <1>1, <2>2
        <5> QED
          BY <2>2, <4>1, <5>1, <5>2 DEF Unwrapped
      <4>2. CASE n + 1 = e
        <5>1. ~(n + 1 < e)
          BY <1>1, <4>2
        <5> QED
          BY <2>2, <2>5, <4>2, <5>1 DEF Unwrapped
      <4> QED
        BY <1>1, <2>2, <4>1, <4>2
    <3> QED
      BY <2>1, <3>1, <3>2
  <2>6. CASE /\ ExtractRelayMsg(m.layers[n + 1].opts)
             /\ FirstByte(Inside(m, n + 1)) # "RelayRepl"
    <3>1. UnwrapStep(m, f, n) = Inner(Inside(m, n + 1))
      BY <1>4, <2>6 DEF UnwrapStep
    <3>2. n + 1 = L \/ m.layers[(n + 1) + 1].mtype # "RelayRepl"
      BY <2>3, <2>6
    <3>3. e = n + 1
      BY <2>1, <2>2, <3>2, RunEndStep
    <3>4. n < e /\ \A k \in n + 1 .. e : k = n + 1
      BY <1>1, <3>3
    <3>5. \A k \in n + 1 .. e : ExtractRelayMsg(m.layers[k].opts)
      BY <2>6, <3>4
    <3> QED
      BY <2>6, <3>1, <3>3, <3>4, <3>5 DEF Unwrapped
  <2> QED
    BY <2>4, <2>5, <2>6
<1> QED
  BY <1>3, <1>4

\* The result of decapsulate in closed form.
LEMMA DecapsulateClosedForm ==
  ASSUME NEW m \in Message
  PROVE  Decapsulate(m) = Unwrapped(m, 0)
<1> DEFINE L == Len(m.layers)
           Eq(f) == f = [n \in 0..L |-> UnwrapStep(m, f, n)]
           u == CHOOSE f : Eq(f)
           g == [n \in 0..L |-> Unwrapped(m, n)]
<1>1. L \in Nat /\ 0 \in 0..L
  BY DEF Message
<1>2. Decapsulate(m) = u[0]
  BY DEF Decapsulate, UnwrapStep
<1>3. Eq(g)
  <2>1. ASSUME NEW n \in 0..L PROVE UnwrapStep(m, g, n) = Unwrapped(m, n)
    <3>1. n < L => n + 1 \in 0..L
      BY <1>1
    <3>2. n < L => g[n + 1] = Unwrapped(m, n + 1)
      BY <3>1
    <3> HIDE DEF g
    <3> QED
      BY <3>2, UnwrappedStep
  <2> QED
    BY <2>1
<1> HIDE DEF g
<1>4. Eq(u)
  BY <1>3
<1> HIDE DEF u
<1> DEFINE T == {k \in 0..L : u[L - k] # Unwrapped(m, L - k)}
<1>5. T = {}
  <2> SUFFICES ASSUME T # {} PROVE FALSE
    OBVIOUS
  <2>1. PICK k \in T : \A j \in T : k <= j
    <3>1. T \subseteq Nat
      BY <1>1
    <3> QED
      BY <3>1, LeastNumber
  <2> DEFINE n == L - k
  <2>2. n \in 0..L /\ k \in 0..L
    BY <1>1, <2>1
  <2>3. u[n] # Unwrapped(m, n)
    BY <2>1
  <2>4. n < L => u[n + 1] = Unwrapped(m, n + 1)
    <3> SUFFICES ASSUME n < L PROVE u[n + 1] = Unwrapped(m, n + 1)
      OBVIOUS
    <3>1. k - 1 \in 0..L /\ L - (k - 1) = n + 1 /\ ~(k <= k - 1)
      BY <1>1, <2>2
    <3>2. k - 1 \notin T
      BY <2>1, <3>1
    <3> QED
      BY <3>1, <3>2
  <2>5. u[n] = UnwrapStep(m, u, n)
    BY <1>4, <2>2
  <2> HIDE DEF n
  <2> QED
    BY <2>2, <2>3, <2>4, <2>5, UnwrappedStep
<1>6. L \in 0..L /\ L - L = 0
  BY <1>1
<1>7. u[0] = Unwrapped(m, 0)
  BY <1>5, <1>6
<1> QED
  BY <1>2, <1>7

\* The Relay-reply headers around m can all be taken off, and the message
\* inside them is not a Relay-reply.
Unwraps(m) ==
  /\ Depth(m) > 0
  /\ \A k \in 1..Depth(m) : ExtractRelayMsg(m.layers[k].opts)
  /\ FirstByte(Inside(m, Depth(m))) # "RelayRepl"

\* What handle_v6_server relays: also, unlike WellFormed, a Relay-forward.
Relayable(m) == Unwraps(m) /\ Decodable(Inside(m, Depth(m)))

\* decapsulate takes off all the Relay-reply headers around a message, or
\* fails: the recursion neither stops early nor goes on past the last.
LEMMA DecapsulateResult ==
  ASSUME NEW m \in Message
  PROVE  /\ Depth(m) \in 0..Len(m.layers)
         /\ Inside(m, Depth(m)) \in Message
         /\ Decapsulate(m) =
              IF Unwraps(m) THEN Inner(Inside(m, Depth(m))) ELSE ParseError
<1>1. Len(m.layers) \in Nat /\ 0 \in 0..Len(m.layers)
  BY DEF Message
<1>2. 0 + 1 = 1
  OBVIOUS
<1>3. Depth(m) = RunEnd(m, 0)
  BY <1>2 DEF Depth, RunEnd, RunEnds
<1>4. RunEnd(m, 0) \in 0..Len(m.layers)
  BY <1>1, RunEndExists
<1>5. Inside(m, Depth(m)) \in Message
  BY <1>3, <1>4, InsideFacts
<1>6. Decapsulate(m) = Unwrapped(m, 0)
  BY DecapsulateClosedForm
<1>7. (Depth(m) > 0) <=> (0 < RunEnd(m, 0))
  BY <1>3, <1>4
<1> QED
  BY <1>2, <1>3, <1>4, <1>5, <1>6, <1>7 DEF Unwraps, Unwrapped

-----------------------------------------------------------------------------
(* Types *)

StageResult == [ctx : Context, ret : {"continue", "Parse"}]

\* A context that a task works on is not the placeholder of an idle task.
LEMMA ContextProper == NoCtx \notin Context /\ NoPipe \notin Pipe
  BY DEF NoCtx, Context, NoPipe, Pipe

\* The address of the server is a socket address.
LEMMA ServerAddrType ==
  ASSUME NEW i \in Iface
  PROVE  ServerAddr(i) \in SockAddr
  BY AddressAssumption DEF ServerAddr

\* The context of a new datagram is a context.
LEMMA NewContextType ==
  ASSUME NEW g \in Datagram
  PROVE  NewContext(g) \in Context
  BY DEF NewContext, Context, Datagram

\* Inserting an option keeps the type of a context.
LEMMA InsertOptionType ==
  ASSUME NEW c \in Context, NEW code \in {"interface_id", "remote_id", "vss"},
         NEW v \in Data
  PROVE  /\ InsertOption(c, code, v) \in Context
         /\ InsertOption(c, code, v).raw_in = c.raw_in
         /\ InsertOption(c, code, v).buffer.layers = c.buffer.layers
         /\ InsertOption(c, code, v).buffer.core.mtype = c.buffer.core.mtype
         /\ InsertOption(c, code, v).buffer.core.opts =
              c.buffer.core.opts \cup {[code |-> code, val |-> v]}
         /\ InsertOption(c, code, v).buffer.core.size =
              c.buffer.core.size + OPTION_TLV_HDR + DataLen[v]
         /\ InsertOption(c, code, v).buffer.core.rest = 0
<1>1. c.buffer \in Message /\ c.buffer.core \in Core
  BY DEF Context, Message
<1>2. DataLen[v] \in Nat
  BY OptionAssumption
<1> DEFINE k == [c.buffer.core EXCEPT
                   !.opts = @ \cup {[code |-> code, val |-> v]},
                   !.size = @ + OPTION_TLV_HDR + DataLen[v],
                   !.rest = 0]
<1>3. /\ k \in Core /\ k.mtype = c.buffer.core.mtype
      /\ k.opts = c.buffer.core.opts \cup {[code |-> code, val |-> v]}
      /\ k.size = c.buffer.core.size + OPTION_TLV_HDR + DataLen[v]
      /\ k.rest = 0
  <2>1. c.buffer.core.opts \cup {[code |-> code, val |-> v]} \in SUBSET Option
    BY <1>1 DEF Core, Option
  <2>2. c.buffer.core.size + OPTION_TLV_HDR + DataLen[v] \in Nat
    BY <1>1, <1>2 DEF Core, OPTION_TLV_HDR
  <2> QED
    BY <1>1, <2>1, <2>2 DEF Core
<1>4. InsertOption(c, code, v) = [c EXCEPT !.buffer = [@ EXCEPT !.core = k]]
  BY <1>1 DEF InsertOption, Context, Message, Core
<1> HIDE DEF k
<1>5. [c.buffer EXCEPT !.core = k] \in Message
  BY <1>1, <1>3 DEF Message
<1> QED
  BY <1>1, <1>3, <1>4, <1>5 DEF Context, Message

\* Encapsulating a message gives one, with a single relay header if it had
\* none.
LEMMA EncapsulateType ==
  ASSUME NEW m \in Message, NEW link \in Ip, NEW peer \in SockAddr
  PROVE  /\ Encapsulate(m, link, peer) \in Message
         /\ Encapsulate(m, link, peer).core = m.core
         /\ m.layers = <<>> =>
              LET e == Encapsulate(m, link, peer) IN
                /\ Len(e.layers) = 1
                /\ e.layers[1].mtype = "RelayForw"
                /\ e.layers[1].opts[1].len = ByteLen(m.core) % U16
                /\ e.layers[1].opts[1].room = ByteLen(m.core)
<1> DEFINE tlv == [code |-> "relay_msg", len |-> ByteLen(m.core) % U16,
                   room |-> ByteLen(m.core)]
           hdr == [mtype |-> "RelayForw", hop |-> 0, link |-> link,
                   peer |-> Ipv6Of(peer), opts |-> <<tlv>>]
<1>1. m.core \in Core /\ ByteLen(m.core) \in Nat /\ m.layers \in Seq(Header)
  BY DEF Message, Core, ByteLen
<1>2. tlv \in Tlv
  BY <1>1 DEF Tlv, U16
<1>3. Ipv6Of(peer) \in Ip
  BY AddressAssumption DEF Ipv6Of, SockAddr
<1>4. hdr \in Header
  <2> HIDE DEF tlv
  <2>1. <<tlv>> \in Seq(Tlv)
    BY <1>2
  <2> QED
    BY <1>3, <2>1 DEF Header
<1>5. hdr.mtype = "RelayForw" /\ hdr.opts[1].len = ByteLen(m.core) % U16
      /\ hdr.opts[1].room = ByteLen(m.core)
  OBVIOUS
<1>6. Encapsulate(m, link, peer) = [m EXCEPT !.layers = <<hdr>> \o @]
  BY DEF Encapsulate
<1> HIDE DEF hdr
<1>7. <<hdr>> \o m.layers \in Seq(Header)
  BY <1>1, <1>4
<1>8. /\ Encapsulate(m, link, peer) \in Message
      /\ Encapsulate(m, link, peer).core = m.core
      /\ Encapsulate(m, link, peer).layers = <<hdr>> \o m.layers
  BY <1>1, <1>6, <1>7 DEF Message
<1>9. m.layers = <<>> => <<hdr>> \o m.layers = <<hdr>>
  BY <1>1, <1>4
<1> QED
  BY <1>5, <1>8, <1>9

\* Every stage maps a context to a well-typed result.
LEMMA StageTypes ==
  ASSUME NEW i \in Iface, NEW c \in Context, NEW dest \in SockAddr
  PROVE  /\ ParseStage(c) \in StageResult
         /\ InterfaceIdStage(i, c) \in StageResult
         /\ RemoteIdStage(i, c) \in StageResult
         /\ VssInsertStage(i, c) \in StageResult
         /\ RelayFwdStage(i, c) \in StageResult
         /\ VssExtractStage(c) \in StageResult
         /\ RelayReplyStage(c) \in StageResult
         /\ InterfaceIdExtractStage(c) \in StageResult
         /\ ForwardStage(c, dest) \in StageResult
<1> USE DEF StageResult, Continue, Fail
<1>1. ParseStage(c) \in StageResult /\ VssExtractStage(c) \in StageResult
  BY DEF ParseStage, VssExtractStage
<1>2. InterfaceIdStage(i, c) \in StageResult /\ RemoteIdStage(i, c) \in StageResult
  BY InsertOptionType, OptionAssumption DEF InterfaceIdStage, RemoteIdStage
<1>3. \A d \in Context, s \in {"vss_inserted", "outbound_interface"} :
        [d EXCEPT !.metadata = @ \cup {s}] \in Context
  BY DEF Context
<1>4. VssInsertStage(i, c) \in StageResult
  BY <1>3, InsertOptionType, OptionAssumption DEF VssInsertStage
<1>5. c.buffer \in Message /\ c.src_addr \in SockAddr
  BY DEF Context
<1>6. \A m \in Message : [c EXCEPT !.buffer = m] \in Context
  BY DEF Context
<1>7. RelayFwdStage(i, c) \in StageResult
  <2>1. Ipv6Of(BindAddr[i]) \in Ip
    BY AddressAssumption DEF Ipv6Of, SockAddr
  <2> QED
    BY <1>5, <1>6, <2>1, EncapsulateType DEF RelayFwdStage
<1>8. RelayReplyStage(c) \in StageResult
  BY <1>5, <1>6, DecapsulateResult DEF RelayReplyStage, Inner, ParseError
<1>9. InterfaceIdExtractStage(c) \in StageResult
  BY <1>3 DEF InterfaceIdExtractStage
<1>10. ForwardStage(c, dest) \in StageResult
  BY DEF ForwardStage, Context
<1> QED
  BY <1>1, <1>2, <1>4, <1>7, <1>8, <1>9, <1>10

\* The stage after a stage of a pipeline belongs to that pipeline.
LEMMA NextStageType ==
  /\ \A s \in RequestStages : NextRequestStage(s) \in RequestStages \cup {"ok"}
  /\ \A s \in ReplyStages : NextReplyStage(s) \in ReplyStages \cup {"ok"}
<1>1. \A s \in RequestStages : NextRequestStage(s) \in RequestStages \cup {"ok"}
  BY DEF RequestStages, NextRequestStage, AfterInterfaceId, AfterRemoteId
<1>2. \A s \in ReplyStages : NextReplyStage(s) \in ReplyStages \cup {"ok"}
  BY DEF ReplyStages, NextReplyStage
<1> QED
  BY <1>1, <1>2

\* A busy task has a well-typed pipeline and context.
LEMMA BusyTask ==
  ASSUME TypeOK, NEW i \in Iface, pc[i] # "recv"
  PROVE  pipe[i] \in Pipe /\ ctx[i] \in Context
  BY DEF TypeOK, TaskOK

\* A packet that has been through its pipeline has the destination of the
\* ForwardStage; without this TypeOK is not inductive, since `sent' records
\* addresses only.
Addressed ==
  \A i \in Iface : pc[i] \in {"ok", "send"} => ctx[i].dst_addr = pipe[i].dest

TypeInv == TypeOK /\ Addressed

\* A step of the pipelines.
StageStep(i) ==
  \/ Parse(i) \/ InterfaceId(i) \/ RemoteIdOption(i) \/ VssInsert(i)
  \/ RelayFwd(i) \/ VssExtract(i) \/ RelayReply(i) \/ InterfaceIdExtract(i)
  \/ Forward(i)

\* One stage of Pipeline::execute preserves the types.
LEMMA ExecuteType ==
  ASSUME TypeOK, NEW i \in Iface, NEW s \in Stages, NEW r \in StageResult,
         Execute(i, s, r)
  PROVE  TypeOK'
<1>1. s # "recv"
  BY DEF Stages, RequestStages, ReplyStages
<1>2. pc[i] = s /\ pc[i] # "recv"
  BY <1>1 DEF Execute
<1>3. pipe[i] \in Pipe /\ ctx[i] \in Context
  BY <1>2, BusyTask
<1> DEFINE own == IF pipe[i].dir = "request" THEN RequestStages ELSE ReplyStages
<1>4. s \in own
  BY <1>2 DEF TypeOK, TaskOK
<1>5. NextStage(i, s) \in own \cup {"ok"}
  BY <1>4, NextStageType DEF NextStage
<1>6. pc'[i] \in own \cup {"ok", "Parse"}
  BY <1>5 DEF Execute, TypeOK, StageResult
<1>7. pc' \in [Iface -> Pc] /\ ctx' \in [Iface -> Context \cup {NoCtx}]
  BY <1>6 DEF Execute, TypeOK, Pc, Stages, StageResult
<1>8. \A j \in Iface : TaskOK(j)'
  <2> SUFFICES ASSUME NEW j \in Iface PROVE TaskOK(j)'
    OBVIOUS
  <2>1. CASE j # i
    BY <2>1 DEF Execute, TypeOK, TaskOK
  <2>2. CASE j = i
    <3>1. pc'[i] # "recv" /\ (pc'[i] \in Stages => pc'[i] \in own)
      BY <1>6 DEF RequestStages, ReplyStages, Stages
    <3>2. pipe'[i] # NoPipe /\ ctx'[i] # NoCtx /\ pipe'[i] = pipe[i]
      BY <1>3, ContextProper DEF Execute, TypeOK, StageResult
    <3> QED
      BY <2>2, <3>1, <3>2 DEF TaskOK
  <2> QED
    BY <2>1, <2>2
<1> QED
  BY <1>7, <1>8 DEF TypeOK, Execute

\* Only the ForwardStage leads to "ok".
LEMMA OnlyForwardEnds ==
  ASSUME NEW i \in Iface, NEW s, s \in Stages, s # "forward",
         s \in IF pipe[i].dir = "request" THEN RequestStages ELSE ReplyStages
  PROVE  NextStage(i, s) \notin {"ok", "send"}
  BY DEF NextStage, RequestStages, ReplyStages, NextRequestStage, NextReplyStage,
         AfterInterfaceId, AfterRemoteId

\* Every stage of either pipeline preserves the types and the destination.
LEMMA StageStepType ==
  ASSUME TypeInv, NEW i \in Iface, StageStep(i)
  PROVE  TypeInv'
<1>1. pc[i] \in Stages /\ pc[i] \notin {"recv", "ok", "send"}
  BY DEF StageStep, Parse, InterfaceId, RemoteIdOption, VssInsert, RelayFwd,
         VssExtract, RelayReply, InterfaceIdExtract, Forward, Execute, Stages,
         RequestStages, ReplyStages
<1>2. ctx[i] \in Context /\ pipe[i] \in Pipe /\ pipe[i].dest \in SockAddr
  BY <1>1, BusyTask DEF TypeInv, Pipe
<1>3. PICK s \in Stages, r \in StageResult :
        /\ Execute(i, s, r)
        /\ s = "forward" => r = ForwardStage(ctx[i], pipe[i].dest)
  BY <1>1, <1>2, StageTypes
     DEF StageStep, Parse, InterfaceId, RemoteIdOption, VssInsert, RelayFwd,
         VssExtract, RelayReply, InterfaceIdExtract, Forward, Stages,
         RequestStages, ReplyStages
<1>4. TypeOK'
  BY <1>3, ExecuteType DEF TypeInv
<1>5. pc'[i] \in {"ok", "send"} => ctx'[i].dst_addr = pipe'[i].dest
  <2>1. CASE s = "forward"
    <3>1. ctx'[i] = [ctx[i] EXCEPT !.dst_addr = pipe[i].dest]
      BY <1>3, <2>1 DEF Execute, ForwardStage, Continue, TypeInv, TypeOK
    <3> QED
      BY <1>2, <1>3, <3>1 DEF Execute, Context
  <2>2. CASE s # "forward"
    <3>1. s \in IF pipe[i].dir = "request" THEN RequestStages ELSE ReplyStages
      BY <1>3 DEF Execute, TypeInv, TypeOK, TaskOK
    <3>2. NextStage(i, s) \notin {"ok", "send"}
      BY <2>2, <3>1, OnlyForwardEnds
    <3>3. pc'[i] \notin {"ok", "send"}
      BY <1>3, <3>2 DEF Execute, StageResult, TypeInv, TypeOK
    <3> QED
      BY <3>3
  <2> QED
    BY <2>1, <2>2
<1>6. \A j \in Iface \ {i} :
        pc'[j] = pc[j] /\ ctx'[j] = ctx[j] /\ pipe'[j] = pipe[j]
  BY <1>3 DEF Execute, TypeInv, TypeOK
<1>7. Addressed'
  <2>1. ASSUME NEW j \in Iface, pc'[j] \in {"ok", "send"}
        PROVE  ctx'[j].dst_addr = pipe'[j].dest
    BY <1>5, <1>6, <2>1 DEF TypeInv, Addressed
  <2> QED
    BY <2>1 DEF Addressed
<1> QED
  BY <1>4, <1>7 DEF TypeInv

\* A handler that returns leaves its task idle.
LEMMA IdleType ==
  ASSUME TypeInv, NEW i \in Iface, Idle(i)
  PROVE  /\ pc' \in [Iface -> Pc]
         /\ pipe' \in [Iface -> Pipe \cup {NoPipe}]
         /\ ctx' \in [Iface -> Context \cup {NoCtx}]
         /\ \A j \in Iface : TaskOK(j)'
         /\ Addressed'
<1> USE DEF TypeInv
<1>1. /\ pc' \in [Iface -> Pc]
      /\ pipe' \in [Iface -> Pipe \cup {NoPipe}]
      /\ ctx' \in [Iface -> Context \cup {NoCtx}]
  BY DEF Idle, TypeOK, Pc
<1>2. ASSUME NEW j \in Iface PROVE TaskOK(j)'
  BY DEF Idle, TypeOK, TaskOK, Stages, RequestStages, ReplyStages
<1>3. Addressed'
  BY DEF Idle, TypeOK, Addressed
<1> QED
  BY <1>1, <1>2, <1>3

\* The reception of a datagram that a handler is called for preserves the types.
LEMMA ReceiveType ==
  ASSUME TypeInv, NEW i \in Iface, NEW g \in Datagram, NEW dest \in SockAddr,
         NEW dir \in {"request", "reply"}, Enter(i, g, dir, dest)
  PROVE  TypeInv'
<1> USE DEF TypeInv
<1> DEFINE p == [dir |-> dir, dest |-> dest, no |-> NextNo]
<1>1. p \in Pipe /\ pipe' = [pipe EXCEPT ![i] = p]
  BY DEF NextNo, TypeOK, Counters, Pipe, Enter
<1> HIDE DEF p
<1>2. /\ pc' = [pc EXCEPT ![i] = "parse"]
      /\ ctx' = [ctx EXCEPT ![i] = NewContext(g)]
      /\ UNCHANGED <<sent, dropped>>
  BY DEF Enter
<1>3. stats' \in [Counters -> Nat]
  BY DEF Enter, CountReceived, TypeOK, Counters
<1>4. /\ pc' \in [Iface -> Pc]
      /\ pipe' \in [Iface -> Pipe \cup {NoPipe}]
      /\ ctx' \in [Iface -> Context \cup {NoCtx}]
  BY <1>1, <1>2, NewContextType DEF TypeOK, Pc, Stages, RequestStages
<1>5. ASSUME NEW j \in Iface PROVE TaskOK(j)'
  <2>1. CASE j # i
    BY <1>1, <1>2, <2>1 DEF TypeOK, TaskOK
  <2>2. CASE j = i
    <3>1. pc'[i] = "parse" /\ pipe'[i] # NoPipe /\ ctx'[i] # NoCtx
      BY <1>1, <1>2, NewContextType, ContextProper DEF TypeOK
    <3> QED
      BY <2>2, <3>1 DEF TaskOK, RequestStages, ReplyStages
  <2> QED
    BY <2>1, <2>2
<1>6. Addressed'
  BY <1>1, <1>2 DEF Addressed, TypeOK
<1> QED
  BY <1>2, <1>3, <1>4, <1>5, <1>6 DEF TypeOK

\* What becomes of a datagram is recorded with the right types.
LEMMA OutcomeType ==
  ASSUME TypeInv, NEW i \in Iface, pc[i] # "recv"
  PROVE  /\ pc[i] = "send" =>
              [no |-> pipe[i].no, iface |-> i, dir |-> pipe[i].dir,
               raw_in |-> ctx[i].raw_in, src |-> ctx[i].src_addr,
               msg |-> ctx[i].buffer, dst |-> ctx[i].dst_addr] \in Sent
         /\ \A cause \in {"Parse", "send"} :
              [no |-> pipe[i].no, iface |-> i, raw_in |-> ctx[i].raw_in,
               cause |-> cause] \in Dropped
<1>1. pipe[i] \in Pipe /\ ctx[i] \in Context
  BY BusyTask DEF TypeInv
<1>2. pc[i] = "send" => ctx[i].dst_addr \in SockAddr
  BY <1>1 DEF TypeInv, Addressed, Pipe
<1> QED
  BY <1>1, <1>2 DEF Dropped, Sent, Pipe, Context

\* TypeInv is preserved by every step of every task.
LEMMA TypeInvStep ==
  ASSUME TypeInv, [Next]_vars
  PROVE  TypeInv'
<1>1. ASSUME NEW i \in Iface, NEW g \in Input, RecvReply(i, g) \/ RecvClient(i, g)
      PROVE  TypeInv'
  <2>1. g \in Datagram /\ g.src \in SockAddr
    BY InputAssumption DEF Datagram
  <2> QED
    BY <1>1, <2>1, ReceiveType, ServerAddrType DEF RecvReply, RecvClient
<1>2. ASSUME NEW i \in Iface, NEW g \in Input, RecvIgnored(i, g)
      PROVE  TypeInv'
  <2>1. stats' \in [Counters -> Nat] /\ NextNo \in Nat
    BY <1>2 DEF RecvIgnored, CountReceived, NextNo, TypeInv, TypeOK, Counters
  <2>2. g.data \in Message
    BY InputAssumption DEF Datagram
  <2>3. dropped' \subseteq Dropped
    BY <1>2, <2>1, <2>2 DEF RecvIgnored, TypeInv, TypeOK, Dropped
  <2>4. UNCHANGED <<pc, pipe, ctx, sent>>
    BY <1>2 DEF RecvIgnored
  <2> QED
    BY <2>1, <2>3, <2>4 DEF TypeInv, TypeOK, TaskOK, Addressed
<1>3. ASSUME NEW i \in Iface, StageStep(i) PROVE TypeInv'
  BY <1>3, StageStepType
<1>4. ASSUME NEW i \in Iface, Forwarded(i) PROVE TypeInv'
  <2>1. stats' \in [Counters -> Nat]
    BY <1>4 DEF Forwarded, TypeInv, TypeOK, Counters
  <2>2. pc' \in [Iface -> Pc]
    BY <1>4 DEF Forwarded, TypeInv, TypeOK, Pc
  <2>3. ASSUME NEW j \in Iface PROVE TaskOK(j)'
    BY <1>4 DEF Forwarded, TypeInv, TypeOK, TaskOK, Stages, RequestStages,
                ReplyStages
  <2>4. Addressed'
    BY <1>4 DEF Forwarded, TypeInv, TypeOK, Addressed
  <2> QED
    BY <1>4, <2>1, <2>2, <2>3, <2>4 DEF Forwarded, TypeInv, TypeOK
<1>5. ASSUME NEW i \in Iface, Send(i) PROVE TypeInv'
  <2>1. sent' \subseteq Sent
    BY <1>5, OutcomeType DEF Send, TypeInv, TypeOK
  <2> QED
    BY <1>5, <2>1, IdleType DEF Send, TypeInv, TypeOK
<1>6. ASSUME NEW i \in Iface, SendFails(i) \/ Failed(i) PROVE TypeInv'
  <2>1. dropped' \subseteq Dropped
    <3>1. PICK cause \in {"Parse", "send"} : pc[i] = cause /\ Drop(i, cause)
      BY <1>6 DEF SendFails, Failed
    <3>2. [no |-> pipe[i].no, iface |-> i, raw_in |-> ctx[i].raw_in,
           cause |-> cause] \in Dropped
      BY <3>1, OutcomeType
    <3> QED
      BY <3>1, <3>2 DEF Drop, TypeInv, TypeOK
  <2>2. Idle(i) /\ UNCHANGED <<stats, sent>>
    BY <1>6 DEF SendFails, Failed
  <2> QED
    BY <2>1, <2>2, IdleType DEF TypeInv, TypeOK
<1>7. CASE UNCHANGED vars
  BY <1>7 DEF vars, TypeInv, TypeOK, TaskOK, Addressed
<1> QED
  BY <1>1, <1>2, <1>3, <1>4, <1>5, <1>6, <1>7
     DEF Next, Recv, Handle, StageStep

\* The types of the variables are preserved by every step of every task, and
\* what is sent has a destination: no stage, the recursion of decapsulate
\* included, leaves a context that the next one cannot work on.
THEOREM TypeCorrect == Spec => []TypeOK
<1>1. Init => TypeInv
  BY DEF Init, TypeInv, TypeOK, Pc, TaskOK, Counters, Stages, RequestStages,
         ReplyStages, Addressed
<1>2. TypeInv => TypeOK
  BY DEF TypeInv
<1> QED
  BY <1>1, <1>2, TypeInvStep, PTL DEF Spec

-----------------------------------------------------------------------------
(* What the pipelines compute. *)

\* The options that the stages before s have added to a request.
AddedBefore(i, s) ==
  (IF EnableInterfaceId /\ s \notin {"parse", "interfaceId"}
     THEN {[code |-> "interface_id", val |-> IfaceName[i]]} ELSE {})
  \cup
  (IF EnableRemoteId /\ s \notin {"parse", "interfaceId", "remoteId"}
     THEN {[code |-> "remote_id", val |-> RemoteId]} ELSE {})
  \cup
  (IF VssEnabled /\ s \notin {"parse", "interfaceId", "remoteId", "vssInsert"}
     THEN {[code |-> "vss", val |-> VssData]} ELSE {})

\* How many bytes they take.
AddedLenBefore(i, s) ==
  (IF EnableInterfaceId /\ s \notin {"parse", "interfaceId"}
     THEN OPTION_TLV_HDR + DataLen[IfaceName[i]] ELSE 0)
  + (IF EnableRemoteId /\ s \notin {"parse", "interfaceId", "remoteId"}
       THEN OPTION_TLV_HDR + DataLen[RemoteId] ELSE 0)
  + (IF VssEnabled /\ s \notin {"parse", "interfaceId", "remoteId", "vssInsert"}
       THEN OPTION_TLV_HDR + DataLen[VssData] ELSE 0)

\* The stages that are in the request pipeline.
Configured(s) ==
  /\ s = "interfaceId" => EnableInterfaceId
  /\ s = "remoteId" => EnableRemoteId
  /\ s = "vssInsert" => VssEnabled

\* What task i, which relays a request, works on: the message of the client
\* with the options added so far, in one relay header after relayFwd.
RequestInv(i) ==
  LET raw == ctx[i].raw_in
      buf == ctx[i].buffer
  IN  /\ ~IsReply(raw) /\ Decodable(raw)
      /\ pipe[i].dest = ServerAddr(i)
      /\ pc[i] # "Parse" /\ Configured(pc[i])
      /\ pc[i] = "parse" => buf = raw
      /\ buf.core.mtype = raw.core.mtype
      /\ buf.core.opts = raw.core.opts \cup AddedBefore(i, pc[i])
      /\ buf.core.size = raw.core.size + AddedLenBefore(i, pc[i])
      /\ buf.core.rest = IF AddedBefore(i, pc[i]) = {} THEN raw.core.rest ELSE 0
      /\ IF pc[i] \in {"forward", "ok", "send"}
           THEN /\ Len(buf.layers) = 1
                /\ buf.layers[1].mtype = "RelayForw"
                /\ buf.layers[1].opts[1].len = ByteLen(buf.core) % U16
                /\ buf.layers[1].opts[1].room = ByteLen(buf.core)
           ELSE buf.layers = <<>>

\* What task i, which relays a reply, works on: the datagram, and what is
\* inside all its Relay-reply headers after relayReply.
ReplyInv(i) ==
  LET raw == ctx[i].raw_in
      buf == ctx[i].buffer
  IN  /\ IsReply(raw)
      /\ pc[i] \in {"parse", "vssExtract", "relayReply"} => buf = raw
      /\ pc[i] = "interfaceIdExtract" =>
           Unwraps(raw) /\ buf = Inside(raw, Depth(raw))
      /\ pc[i] \in {"forward", "ok", "send"} =>
           Relayable(raw) /\ buf = Inside(raw, Depth(raw))
      /\ pc[i] = "Parse" => ~Relayable(raw)

TaskInv(i) ==
  pc[i] # "recv" =>
    IF pipe[i].dir = "request" THEN RequestInv(i) ELSE ReplyInv(i)

PipelineInv == \A i \in Iface : TaskInv(i)

\* A step that leaves the pipeline, the context and the position of a task
\* alone does not disturb what is known of the task.
LEMMA TaskInvStable ==
  ASSUME NEW j \in Iface, TaskInv(j), pc'[j] = pc[j], pipe'[j] = pipe[j],
         ctx'[j] = ctx[j]
  PROVE  TaskInv(j)'
  BY DEF TaskInv, RequestInv, ReplyInv

\* The facts about a stage of a task: its context is well-typed, and the step
\* changes nothing but its context and its position.
LEMMA ExecuteFrame ==
  ASSUME TypeInv, NEW i \in Iface, NEW s, NEW r, s # "recv", Execute(i, s, r)
  PROVE  /\ pc[i] = s
         /\ pipe'[i] = pipe[i]
         /\ pipe[i] \in Pipe
         /\ ctx[i] \in Context
         /\ ctx'[i] = r.ctx
         /\ pc'[i] = IF r.ret = "continue" THEN NextStage(i, s) ELSE r.ret
         /\ s \in Stages =>
              s \in IF pipe[i].dir = "request" THEN RequestStages ELSE ReplyStages
<1>1. pc[i] = s /\ pc[i] # "recv"
  BY DEF Execute
<1>2. pipe[i] \in Pipe /\ ctx[i] \in Context
  BY <1>1, BusyTask DEF TypeInv
<1>3. s \in Stages =>
        s \in IF pipe[i].dir = "request" THEN RequestStages ELSE ReplyStages
  BY <1>1 DEF TypeInv, TypeOK, TaskOK
<1> QED
  BY <1>1, <1>2, <1>3 DEF Execute, TypeInv, TypeOK

\* A datagram without a header is not relayed as a reply.
LEMMA ShortNotRelayable ==
  ASSUME NEW m \in Message, ~Decodable(m)
  PROVE  ~Relayable(m)
<1>1. m.layers = <<>> /\ Depth(m) \in 0..Len(m.layers)
  BY DecapsulateResult DEF Decodable
<1>2. Depth(m) \in 0..0
  BY <1>1
<1>3. ~(Depth(m) > 0)
  BY <1>2
<1> QED
  BY <1>3 DEF Relayable, Unwraps

\* ParseStage lets every request of a client pass, and no reply that is too
\* short to be well-formed is wanted.
LEMMA ParseInv ==
  ASSUME TypeInv, NEW i \in Iface, TaskInv(i), Parse(i)
  PROVE  TaskInv(i)'
<1>1. /\ pc[i] = "parse" /\ pipe'[i] = pipe[i] /\ ctx'[i] = ctx[i]
      /\ pc'[i] = IF Decodable(ctx[i].buffer) THEN NextStage(i, "parse") ELSE "Parse"
      /\ ctx[i] \in Context
  BY ExecuteFrame DEF Parse, ParseStage, Continue, Fail
<1>2. CASE pipe[i].dir = "request"
  <2>1. RequestInv(i)
    BY <1>1, <1>2 DEF TaskInv
  <2>2. pc'[i] = NextRequestStage("parse")
    BY <1>1, <1>2, <2>1 DEF RequestInv, NextStage
  <2>3. /\ pc'[i] \in {"interfaceId", "remoteId", "vssInsert", "relayFwd"}
        /\ pc'[i] # "interfaceId" => ~EnableInterfaceId
        /\ pc'[i] \notin {"interfaceId", "remoteId"} => ~EnableRemoteId
        /\ pc'[i] = "relayFwd" => ~VssEnabled
        /\ Configured(pc'[i])
    BY <2>2, OptionAssumption
       DEF NextRequestStage, AfterInterfaceId, AfterRemoteId, Configured
  <2>4. /\ AddedBefore(i, pc[i]) = {} /\ AddedBefore(i, pc'[i]) = {}
        /\ AddedLenBefore(i, pc[i]) = 0 /\ AddedLenBefore(i, pc'[i]) = 0
    BY <1>1, <2>3 DEF AddedBefore, AddedLenBefore
  <2>5. RequestInv(i)'
    BY <1>1, <2>1, <2>3, <2>4 DEF RequestInv, Configured
  <2> QED
    BY <1>1, <1>2, <2>5 DEF TaskInv
<1>3. CASE pipe[i].dir # "request"
  <2>1. ReplyInv(i) /\ ctx[i].buffer = ctx[i].raw_in
    BY <1>1, <1>3 DEF TaskInv, ReplyInv
  <2>2. ctx[i].raw_in \in Message
    BY <1>1 DEF Context
  <2>3. ~Decodable(ctx[i].raw_in) => ~Relayable(ctx[i].raw_in)
    BY <2>2, ShortNotRelayable
  <2>4. pc'[i] \in {"vssExtract", "relayReply", "Parse"}
        /\ (pc'[i] = "Parse" => ~Decodable(ctx[i].raw_in))
    BY <1>1, <1>3, <2>1 DEF NextStage, NextReplyStage
  <2>5. ReplyInv(i)'
    BY <1>1, <2>1, <2>3, <2>4 DEF ReplyInv
  <2> QED
    BY <1>1, <1>3, <2>5 DEF TaskInv
<1> QED
  BY <1>2, <1>3

\* The option that stage s adds to a request.
OptionOf(i, s) ==
  CASE s = "interfaceId" -> [code |-> "interface_id", val |-> IfaceName[i]]
    [] s = "remoteId"    -> [code |-> "remote_id", val |-> RemoteId]
    [] s = "vssInsert"   -> [code |-> "vss", val |-> VssData]

\* build_request puts the stages that add an option one after the other.
LEMMA NextInsertStage ==
  ASSUME NEW i \in Iface, NEW s \in {"interfaceId", "remoteId", "vssInsert"},
         Configured(s)
  PROVE  /\ AddedBefore(i, NextRequestStage(s)) =
              AddedBefore(i, s) \cup {OptionOf(i, s)}
         /\ AddedLenBefore(i, NextRequestStage(s)) =
              AddedLenBefore(i, s) + OPTION_TLV_HDR + DataLen[OptionOf(i, s).val]
         /\ AddedLenBefore(i, s) \in Nat /\ DataLen[OptionOf(i, s).val] \in Nat
         /\ NextRequestStage(s) \in {"remoteId", "vssInsert", "relayFwd"}
         /\ Configured(NextRequestStage(s))
<1> USE OptionAssumption DEF Configured, NextRequestStage, AfterInterfaceId,
        AfterRemoteId
<1>1. /\ NextRequestStage(s) \in {"remoteId", "vssInsert", "relayFwd"}
      /\ Configured(NextRequestStage(s))
  OBVIOUS
<1>2. AddedBefore(i, NextRequestStage(s)) = AddedBefore(i, s) \cup {OptionOf(i, s)}
  <2>1. CASE s = "interfaceId"
    BY <2>1 DEF AddedBefore, OptionOf
  <2>2. CASE s = "remoteId"
    BY <2>2 DEF AddedBefore, OptionOf
  <2>3. CASE s = "vssInsert"
    BY <2>3 DEF AddedBefore, OptionOf
  <2> QED
    BY <2>1, <2>2, <2>3
<1>3. /\ DataLen[IfaceName[i]] \in Nat /\ DataLen[RemoteId] \in Nat
      /\ DataLen[VssData] \in Nat
  OBVIOUS
<1>4. /\ AddedLenBefore(i, NextRequestStage(s)) =
           AddedLenBefore(i, s) + OPTION_TLV_HDR + DataLen[OptionOf(i, s).val]
      /\ AddedLenBefore(i, s) \in Nat /\ DataLen[OptionOf(i, s).val] \in Nat
  <2>1. CASE s = "interfaceId"
    BY <1>3, <2>1 DEF AddedLenBefore, OptionOf, OPTION_TLV_HDR
  <2>2. CASE s = "remoteId"
    BY <1>3, <2>2 DEF AddedLenBefore, OptionOf, OPTION_TLV_HDR
  <2>3. CASE s = "vssInsert"
    BY <1>3, <2>3 DEF AddedLenBefore, OptionOf, OPTION_TLV_HDR
  <2> QED
    BY <2>1, <2>2, <2>3
<1> QED
  BY <1>1, <1>2, <1>4

\* The stages that add an option to a request.
LEMMA InsertInv ==
  ASSUME TypeInv, NEW i \in Iface, TaskInv(i),
         InterfaceId(i) \/ RemoteIdOption(i) \/ VssInsert(i)
  PROVE  TaskInv(i)'
<1>1. /\ pc[i] \in {"interfaceId", "remoteId", "vssInsert"}
      /\ pipe'[i] = pipe[i] /\ ctx[i] \in Context
      /\ pc'[i] = NextStage(i, pc[i])
      /\ pc[i] \in IF pipe[i].dir = "request" THEN RequestStages ELSE ReplyStages
  BY ExecuteFrame DEF InterfaceId, RemoteIdOption, VssInsert, InterfaceIdStage,
                      RemoteIdStage, VssInsertStage, Continue, Stages, RequestStages
<1>2. /\ ctx'[i].raw_in = ctx[i].raw_in
      /\ ctx'[i].buffer.layers = ctx[i].buffer.layers
      /\ ctx'[i].buffer.core.mtype = ctx[i].buffer.core.mtype
      /\ ctx'[i].buffer.core.opts = ctx[i].buffer.core.opts \cup {OptionOf(i, pc[i])}
      /\ ctx'[i].buffer.core.size = ctx[i].buffer.core.size + OPTION_TLV_HDR
           + DataLen[OptionOf(i, pc[i]).val]
      /\ ctx'[i].buffer.core.rest = 0
  <2>1. CASE InterfaceId(i)
    <3> DEFINE c == InsertOption(ctx[i], "interface_id", IfaceName[i])
    <3>1. ctx'[i] = c /\ pc[i] = "interfaceId"
      BY <2>1, ExecuteFrame DEF InterfaceId, InterfaceIdStage, Continue
    <3>2. /\ c.raw_in = ctx[i].raw_in
          /\ c.buffer.layers = ctx[i].buffer.layers
          /\ c.buffer.core.mtype = ctx[i].buffer.core.mtype
          /\ c.buffer.core.opts = ctx[i].buffer.core.opts
               \cup {[code |-> "interface_id", val |-> IfaceName[i]]}
          /\ c.buffer.core.size =
               ctx[i].buffer.core.size + OPTION_TLV_HDR + DataLen[IfaceName[i]]
          /\ c.buffer.core.rest = 0
      <4>1. IfaceName[i] \in Data
        BY OptionAssumption
      <4> QED
        BY <1>1, <4>1, InsertOptionType
    <3> HIDE DEF c
    <3> QED
      BY <3>1, <3>2 DEF OptionOf
  <2>2. CASE RemoteIdOption(i)
    <3> DEFINE c == InsertOption(ctx[i], "remote_id", RemoteId)
    <3>1. ctx'[i] = c /\ pc[i] = "remoteId"
      BY <2>2, ExecuteFrame DEF RemoteIdOption, RemoteIdStage, Continue
    <3>2. /\ c.raw_in = ctx[i].raw_in
          /\ c.buffer.layers = ctx[i].buffer.layers
          /\ c.buffer.core.mtype = ctx[i].buffer.core.mtype
          /\ c.buffer.core.opts = ctx[i].buffer.core.opts
               \cup {[code |-> "remote_id", val |-> RemoteId]}
          /\ c.buffer.core.size =
               ctx[i].buffer.core.size + OPTION_TLV_HDR + DataLen[RemoteId]
          /\ c.buffer.core.rest = 0
      BY <1>1, InsertOptionType, OptionAssumption
    <3> HIDE DEF c
    <3> QED
      BY <3>1, <3>2 DEF OptionOf
  <2>3. CASE VssInsert(i)
    <3> DEFINE c == InsertOption(ctx[i], "vss", VssData)
    <3>1. ctx'[i] = [c EXCEPT !.metadata = @ \cup {"vss_inserted"}]
          /\ pc[i] = "vssInsert"
      BY <2>3, ExecuteFrame DEF VssInsert, VssInsertStage, Continue
    <3>2. c \in Context
      BY <1>1, InsertOptionType, OptionAssumption
    <3>3. /\ c.raw_in = ctx[i].raw_in
          /\ c.buffer.layers = ctx[i].buffer.layers
          /\ c.buffer.core.mtype = ctx[i].buffer.core.mtype
          /\ c.buffer.core.opts =
               ctx[i].buffer.core.opts \cup {[code |-> "vss", val |-> VssData]}
          /\ c.buffer.core.size =
               ctx[i].buffer.core.size + OPTION_TLV_HDR + DataLen[VssData]
          /\ c.buffer.core.rest = 0
      BY <1>1, InsertOptionType, OptionAssumption
    <3> HIDE DEF c
    <3>4. ctx'[i].raw_in = c.raw_in /\ ctx'[i].buffer = c.buffer
      BY <3>1, <3>2 DEF Context
    <3> QED
      BY <3>1, <3>3, <3>4 DEF OptionOf
  <2> QED
    BY <2>1, <2>2, <2>3
<1>3. pipe[i].dir = "request" /\ RequestInv(i)
  BY <1>1 DEF TaskInv, ReplyStages
<1>4. pc'[i] = NextRequestStage(pc[i])
  BY <1>1, <1>3 DEF NextStage
<1>5. /\ AddedBefore(i, pc'[i]) = AddedBefore(i, pc[i]) \cup {OptionOf(i, pc[i])}
      /\ AddedLenBefore(i, pc'[i]) = AddedLenBefore(i, pc[i]) + OPTION_TLV_HDR
           + DataLen[OptionOf(i, pc[i]).val]
      /\ AddedLenBefore(i, pc[i]) \in Nat /\ DataLen[OptionOf(i, pc[i]).val] \in Nat
      /\ pc'[i] \in {"remoteId", "vssInsert", "relayFwd"}
      /\ Configured(pc'[i])
  BY <1>1, <1>3, <1>4, NextInsertStage DEF RequestInv
<1>6. ctx'[i].buffer.core.opts = ctx'[i].raw_in.core.opts \cup AddedBefore(i, pc'[i])
  BY <1>2, <1>3, <1>5 DEF RequestInv
<1>7. ctx'[i].buffer.core.size = ctx'[i].raw_in.core.size + AddedLenBefore(i, pc'[i])
  <2>1. ctx[i].raw_in.core.size \in Nat
    BY <1>1 DEF Context, Message, Core
  <2>2. ctx[i].buffer.core.size = ctx[i].raw_in.core.size + AddedLenBefore(i, pc[i])
    BY <1>3 DEF RequestInv
  <2> QED
    BY <1>2, <1>5, <2>1, <2>2 DEF OPTION_TLV_HDR
<1>8. ctx'[i].buffer.core.rest = 0 /\ AddedBefore(i, pc'[i]) # {}
  BY <1>2, <1>5
<1>9. RequestInv(i)'
  BY <1>1, <1>2, <1>3, <1>5, <1>6, <1>7, <1>8 DEF RequestInv, Configured
<1> QED
  BY <1>1, <1>3, <1>9 DEF TaskInv

\* RelayForwarderStage puts the request into one relay header.
LEMMA RelayFwdInv ==
  ASSUME TypeInv, NEW i \in Iface, TaskInv(i), RelayFwd(i)
  PROVE  TaskInv(i)'
<1> DEFINE m == Encapsulate(ctx[i].buffer, Ipv6Of(BindAddr[i]), ctx[i].src_addr)
<1>1. /\ pc[i] = "relayFwd" /\ pipe'[i] = pipe[i] /\ ctx[i] \in Context
      /\ ctx'[i] = [ctx[i] EXCEPT !.buffer = m]
      /\ pc'[i] = NextStage(i, "relayFwd")
      /\ pc[i] \in IF pipe[i].dir = "request" THEN RequestStages ELSE ReplyStages
  BY ExecuteFrame DEF RelayFwd, RelayFwdStage, Continue, Stages, RequestStages
<1>2. pipe[i].dir = "request" /\ RequestInv(i)
  BY <1>1 DEF TaskInv, ReplyStages
<1>3. pc'[i] = "forward"
  BY <1>1, <1>2 DEF NextStage, NextRequestStage
<1>4. ctx[i].buffer.layers = <<>>
  BY <1>1, <1>2 DEF RequestInv
<1>5. /\ m.core = ctx[i].buffer.core
      /\ Len(m.layers) = 1
      /\ m.layers[1].mtype = "RelayForw"
      /\ m.layers[1].opts[1].len = ByteLen(m.core) % U16
      /\ m.layers[1].opts[1].room = ByteLen(m.core)
  <2>1. Ipv6Of(BindAddr[i]) \in Ip
    BY AddressAssumption DEF Ipv6Of, SockAddr
  <2>2. ctx[i].buffer \in Message /\ ctx[i].src_addr \in SockAddr
    BY <1>1 DEF Context
  <2> QED
    BY <1>4, <2>1, <2>2, EncapsulateType
<1> HIDE DEF m
<1>6. ctx'[i].buffer = m /\ ctx'[i].raw_in = ctx[i].raw_in
  BY <1>1 DEF Context
<1>7. /\ AddedBefore(i, pc'[i]) = AddedBefore(i, pc[i])
      /\ AddedLenBefore(i, pc'[i]) = AddedLenBefore(i, pc[i])
  BY <1>1, <1>3 DEF AddedBefore, AddedLenBefore
<1>8. RequestInv(i)'
  BY <1>1, <1>2, <1>3, <1>5, <1>6, <1>7 DEF RequestInv, Configured
<1> QED
  BY <1>1, <1>2, <1>8 DEF TaskInv

\* VssExtractStage leaves the context alone and fails on no reply that the
\* ParseStage has let pass.
LEMMA VssExtractInv ==
  ASSUME TypeInv, NEW i \in Iface, TaskInv(i), VssExtract(i)
  PROVE  TaskInv(i)'
<1>1. /\ pc[i] = "vssExtract" /\ pipe'[i] = pipe[i] /\ ctx'[i] = ctx[i]
      /\ pc'[i] = IF Decodable(ctx[i].buffer) THEN NextStage(i, "vssExtract") ELSE "Parse"
      /\ ctx[i] \in Context
      /\ pc[i] \in IF pipe[i].dir = "request" THEN RequestStages ELSE ReplyStages
  BY ExecuteFrame DEF VssExtract, VssExtractStage, Continue, Fail, Stages, ReplyStages
<1>2. pipe[i].dir # "request" /\ ReplyInv(i) /\ ctx[i].buffer = ctx[i].raw_in
  BY <1>1 DEF TaskInv, RequestStages, ReplyInv
<1>3. ctx[i].raw_in \in Message
  BY <1>1 DEF Context
<1>4. ~Decodable(ctx[i].raw_in) => ~Relayable(ctx[i].raw_in)
  BY <1>3, ShortNotRelayable
<1>5. pc'[i] \in {"relayReply", "Parse"}
      /\ (pc'[i] = "Parse" => ~Decodable(ctx[i].raw_in))
  BY <1>1, <1>2 DEF NextStage, NextReplyStage
<1>6. ReplyInv(i)'
  BY <1>1, <1>2, <1>4, <1>5 DEF ReplyInv
<1> QED
  BY <1>1, <1>2, <1>6 DEF TaskInv

\* RelayReplyStage takes off all the Relay-reply headers, or fails because the
\* reply is not well-formed.
LEMMA RelayReplyInv ==
  ASSUME TypeInv, NEW i \in Iface, TaskInv(i), RelayReply(i)
  PROVE  TaskInv(i)'
<1> DEFINE r == Decapsulate(ctx[i].buffer)
           raw == ctx[i].raw_in
<1>1. /\ pc[i] = "relayReply" /\ pipe'[i] = pipe[i] /\ ctx[i] \in Context
      /\ ctx'[i] = IF r.ok THEN [ctx[i] EXCEPT !.buffer = r.inner] ELSE ctx[i]
      /\ pc'[i] = IF r.ok THEN NextStage(i, "relayReply") ELSE "Parse"
      /\ pc[i] \in IF pipe[i].dir = "request" THEN RequestStages ELSE ReplyStages
  BY ExecuteFrame DEF RelayReply, RelayReplyStage, Continue, Fail, Stages, ReplyStages
<1>2. pipe[i].dir # "request" /\ ReplyInv(i) /\ ctx[i].buffer = raw
  BY <1>1 DEF TaskInv, RequestStages, ReplyInv
<1>3. raw \in Message
  BY <1>1 DEF Context
<1>4. r = IF Unwraps(raw) THEN Inner(Inside(raw, Depth(raw))) ELSE ParseError
  BY <1>2, <1>3, DecapsulateResult
<1> HIDE DEF r
<1>5. CASE Unwraps(raw)
  <2>1. r.ok /\ r.inner = Inside(raw, Depth(raw))
    BY <1>4, <1>5 DEF Inner
  <2>2. pc'[i] = "interfaceIdExtract"
    BY <1>1, <1>2, <2>1 DEF NextStage, NextReplyStage
  <2>3. ctx'[i].buffer = Inside(raw, Depth(raw)) /\ ctx'[i].raw_in = raw
    BY <1>1, <2>1 DEF Context
  <2>4. ReplyInv(i)'
    BY <1>2, <1>5, <2>2, <2>3 DEF ReplyInv
  <2> QED
    BY <1>1, <1>2, <2>4 DEF TaskInv
<1>6. CASE ~Unwraps(raw)
  <2>1. ~r.ok
    BY <1>4, <1>6 DEF ParseError
  <2>2. pc'[i] = "Parse" /\ ctx'[i] = ctx[i]
    BY <1>1, <2>1
  <2>3. ~Relayable(raw)
    BY <1>6 DEF Relayable, Unwraps
  <2>4. ReplyInv(i)'
    BY <1>2, <2>2, <2>3 DEF ReplyInv
  <2> QED
    BY <1>1, <1>2, <2>4 DEF TaskInv
<1> QED
  BY <1>5, <1>6

\* InterfaceIdExtractStage fails exactly if the message inside is too short.
LEMMA InterfaceIdExtractInv ==
  ASSUME TypeInv, NEW i \in Iface, TaskInv(i), InterfaceIdExtract(i)
  PROVE  TaskInv(i)'
<1> DEFINE raw == ctx[i].raw_in
<1>1. /\ pc[i] = "interfaceIdExtract" /\ pipe'[i] = pipe[i] /\ ctx[i] \in Context
      /\ ctx'[i] = InterfaceIdExtractStage(ctx[i]).ctx
      /\ pc'[i] = IF Decodable(ctx[i].buffer)
                    THEN NextStage(i, "interfaceIdExtract") ELSE "Parse"
      /\ pc[i] \in IF pipe[i].dir = "request" THEN RequestStages ELSE ReplyStages
  <2> DEFINE r == InterfaceIdExtractStage(ctx[i])
  <2>1. Execute(i, "interfaceIdExtract", r)
    BY DEF InterfaceIdExtract
  <2>2. r.ret = IF Decodable(ctx[i].buffer) THEN "continue" ELSE "Parse"
    BY DEF InterfaceIdExtractStage, Continue, Fail
  <2> HIDE DEF r
  <2>3. /\ pc[i] = "interfaceIdExtract" /\ pipe'[i] = pipe[i] /\ ctx[i] \in Context
        /\ ctx'[i] = r.ctx
        /\ pc'[i] = IF r.ret = "continue" THEN NextStage(i, "interfaceIdExtract")
                                          ELSE r.ret
        /\ pc[i] \in IF pipe[i].dir = "request" THEN RequestStages ELSE ReplyStages
    BY <2>1, ExecuteFrame DEF Stages, ReplyStages
  <2> QED
    BY <2>2, <2>3 DEF r
<1>2. /\ pipe[i].dir # "request" /\ ReplyInv(i)
      /\ Unwraps(raw) /\ ctx[i].buffer = Inside(raw, Depth(raw))
  BY <1>1 DEF TaskInv, RequestStages, ReplyInv
<1>3. ctx'[i].raw_in = raw /\ ctx'[i].buffer = ctx[i].buffer
  BY <1>1 DEF InterfaceIdExtractStage, Continue, Fail, Context
<1>4. Decodable(ctx[i].buffer) <=> Relayable(raw)
  BY <1>2 DEF Relayable, Unwraps
<1>5. pc'[i] = IF Relayable(raw) THEN "forward" ELSE "Parse"
  BY <1>1, <1>2, <1>4 DEF NextStage, NextReplyStage
<1>6. ReplyInv(i)'
  BY <1>2, <1>3, <1>5 DEF ReplyInv
<1> QED
  BY <1>1, <1>2, <1>5, <1>6 DEF TaskInv

\* ForwardStage sets the destination only.
LEMMA ForwardInv ==
  ASSUME TypeInv, NEW i \in Iface, TaskInv(i), Forward(i)
  PROVE  TaskInv(i)'
<1>1. /\ pc[i] = "forward" /\ pipe'[i] = pipe[i] /\ ctx[i] \in Context
      /\ ctx'[i] = [ctx[i] EXCEPT !.dst_addr = pipe[i].dest]
      /\ pc'[i] = NextStage(i, "forward")
  BY ExecuteFrame DEF Forward, ForwardStage, Continue
<1>2. ctx'[i].raw_in = ctx[i].raw_in /\ ctx'[i].buffer = ctx[i].buffer
  BY <1>1 DEF Context
<1>3. pc'[i] = "ok"
  BY <1>1 DEF NextStage, NextRequestStage, NextReplyStage
<1>4. /\ AddedBefore(i, pc'[i]) = AddedBefore(i, pc[i])
      /\ AddedLenBefore(i, pc'[i]) = AddedLenBefore(i, pc[i])
  BY <1>1, <1>3 DEF AddedBefore, AddedLenBefore
<1>5. RequestInv(i) => RequestInv(i)'
  BY <1>1, <1>2, <1>3, <1>4 DEF RequestInv, Configured
<1>6. ReplyInv(i) => ReplyInv(i)'
  BY <1>1, <1>2, <1>3 DEF ReplyInv
<1> QED
  BY <1>1, <1>5, <1>6 DEF TaskInv

\* Every stage keeps what is known of its own task.
LEMMA StageStepInv ==
  ASSUME TypeInv, NEW i \in Iface, TaskInv(i), StageStep(i)
  PROVE  TaskInv(i)'
  BY ParseInv, InsertInv, RelayFwdInv, VssExtractInv, RelayReplyInv,
     InterfaceIdExtractInv, ForwardInv DEF StageStep

\* A client's message has no relay header, and a task starts with the datagram
\* as it was received.
LEMMA ReceiveInv ==
  ASSUME TypeInv, NEW i \in Iface, NEW g \in Datagram,
         RecvReply(i, g) \/ RecvClient(i, g)
  PROVE  TaskInv(i)'
<1>1. pc'[i] = "parse" /\ ctx'[i] = NewContext(g)
  BY DEF RecvReply, RecvClient, Enter, TypeInv, TypeOK
<1>2. ctx'[i].raw_in = g.data /\ ctx'[i].buffer = g.data
  BY <1>1 DEF NewContext
<1>3. CASE RecvClient(i, g)
  <2>1. /\ IsClient(g.data) /\ pipe'[i].dir = "request"
        /\ pipe'[i].dest = ServerAddr(i)
    BY <1>3 DEF RecvClient, Enter, TypeInv, TypeOK
  <2>2. g.data.layers = <<>>
    <3> SUFFICES ASSUME g.data.layers # <<>> PROVE FALSE
      OBVIOUS
    <3>1. g.data.layers \in Seq(Header)
      BY DEF Datagram, Message
    <3>2. Head(g.data.layers) \in Header
      BY <3>1
    <3>3. FirstByte(g.data) \in {"RelayForw", "RelayRepl"}
      BY <3>2 DEF FirstByte, Header
    <3> QED
      BY <2>1, <3>3 DEF IsClient, ClientTypes
  <2>3. AddedBefore(i, pc'[i]) = {} /\ AddedLenBefore(i, pc'[i]) = 0
    BY <1>1 DEF AddedBefore, AddedLenBefore
  <2>4. g.data.core.size = g.data.core.size + AddedLenBefore(i, pc'[i])
    BY <2>3 DEF Datagram, Message, Core
  <2>5. RequestInv(i)'
    BY <1>1, <1>2, <2>1, <2>2, <2>3, <2>4 DEF RequestInv, Configured, IsClient
  <2> QED
    BY <2>1, <2>5 DEF TaskInv
<1>4. CASE RecvReply(i, g)
  <2>1. IsReply(g.data) /\ pipe'[i].dir = "reply"
    BY <1>4 DEF RecvReply, Enter, TypeInv, TypeOK
  <2> QED
    BY <1>1, <1>2, <2>1 DEF TaskInv, ReplyInv
<1> QED
  BY <1>3, <1>4

\* A step of task i leaves the other tasks alone.
LEMMA OtherTasks ==
  ASSUME TypeInv, NEW i \in Iface, NEW j \in Iface, i # j, Recv(i) \/ Handle(i)
  PROVE  pc'[j] = pc[j] /\ pipe'[j] = pipe[j] /\ ctx'[j] = ctx[j]
<1>1. CASE Recv(i)
  BY <1>1 DEF TypeInv, TypeOK, Recv, RecvIgnored, RecvClient, RecvReply, Enter
<1>2. CASE Handle(i)
  BY <1>2 DEF TypeInv, TypeOK, Handle, Parse, InterfaceId, RemoteIdOption,
              VssInsert, RelayFwd, VssExtract, RelayReply, InterfaceIdExtract,
              Forward, Execute, Forwarded, Send, SendFails, Failed, Idle
<1> QED
  BY <1>1, <1>2

\* PipelineInv is preserved by every step of every task.
LEMMA PipelineInvStep ==
  ASSUME TypeInv, PipelineInv, [Next]_vars
  PROVE  PipelineInv'
<1>1. CASE UNCHANGED vars
  BY <1>1 DEF vars, PipelineInv, TaskInv, RequestInv, ReplyInv
<1>2. ASSUME NEW i \in Iface, Recv(i) \/ Handle(i)
      PROVE  PipelineInv'
  <2>1. ASSUME NEW j \in Iface, j # i PROVE TaskInv(j)'
    BY <1>2, <2>1, OtherTasks, TaskInvStable DEF PipelineInv
  <2> SUFFICES TaskInv(i)'
    BY <2>1 DEF PipelineInv
  <2>2. TaskInv(i)
    BY DEF PipelineInv
  <2>3. CASE \E g \in Input : RecvIgnored(i, g)
    BY <2>2, <2>3, TaskInvStable DEF RecvIgnored
  <2>4. CASE \E g \in Input : RecvClient(i, g) \/ RecvReply(i, g)
    BY <2>4, ReceiveInv, InputAssumption
  <2>5. CASE StageStep(i)
    BY <2>2, <2>5, StageStepInv
  <2>6. CASE Forwarded(i)
    <3>1. /\ pc[i] = "ok" /\ pc'[i] = "send"
          /\ pipe'[i] = pipe[i] /\ ctx'[i] = ctx[i]
      BY <2>6 DEF Forwarded, TypeInv, TypeOK
    <3>2. /\ AddedBefore(i, pc'[i]) = AddedBefore(i, pc[i])
          /\ AddedLenBefore(i, pc'[i]) = AddedLenBefore(i, pc[i])
      BY <3>1 DEF AddedBefore, AddedLenBefore
    <3>3. RequestInv(i) => RequestInv(i)'
      BY <3>1, <3>2 DEF RequestInv, Configured
    <3>4. ReplyInv(i) => ReplyInv(i)'
      BY <3>1 DEF ReplyInv
    <3> QED
      BY <2>2, <3>1, <3>3, <3>4 DEF TaskInv
  <2>7. CASE Send(i) \/ SendFails(i) \/ Failed(i)
    BY <2>7 DEF Send, SendFails, Failed, Idle, TypeInv, TypeOK, TaskInv
  <2> QED
    BY <1>2, <2>3, <2>4, <2>5, <2>6, <2>7 DEF Recv, Handle, StageStep
<1> QED
  BY <1>1, <1>2 DEF Next

\* What a step does to the history.
LEMMA HistoryStep ==
  ASSUME [Next]_vars
  PROVE  \/ UNCHANGED <<sent, dropped>>
         \/ \E i \in Iface : Send(i) \/ SendFails(i) \/ Failed(i)
         \/ \E i \in Iface, g \in Input : RecvIgnored(i, g)
  BY DEF vars, Next, Recv, RecvClient, RecvReply, Enter, Handle, Parse,
         InterfaceId, RemoteIdOption, VssInsert, RelayFwd, VssExtract,
         RelayReply, InterfaceIdExtract, Forward, Execute, Forwarded

\* What leaves a socket as a request, and what as a reply.
LEMMA Outgoing ==
  ASSUME TypeInv, PipelineInv, NEW i \in Iface, pc[i] = "send", Fits(i)
  PROVE  LET raw == ctx[i].raw_in
             buf == ctx[i].buffer
         IN  /\ FirstByte(buf) # "RelayRepl"
             /\ pipe[i].dir = "reply" =>
                  Relayable(raw) /\ buf = Inside(raw, Depth(raw))
             /\ pipe[i].dir = "request" =>
                  /\ Len(buf.layers) = 1
                  /\ buf.layers[1].mtype = "RelayForw"
                  /\ buf.layers[1].opts[1].len = ByteLen(buf.core)
                  /\ buf.layers[1].opts[1].room = ByteLen(buf.core)
                  /\ buf.core.mtype = raw.core.mtype
                  /\ buf.core.opts = raw.core.opts \cup Added(i)
                  /\ buf.core.size = raw.core.size + AddedLen(i)
                  /\ buf.core.rest = IF Added(i) = {} THEN raw.core.rest ELSE 0
                  /\ ctx[i].dst_addr = ServerAddr(i)
<1> DEFINE raw == ctx[i].raw_in
           buf == ctx[i].buffer
<1>1. pipe[i] \in Pipe /\ ctx[i] \in Context /\ TaskInv(i)
  BY BusyTask DEF TypeInv, PipelineInv
<1>2. buf \in Message /\ ByteLen(buf.core) \in Nat /\ buf.layers \in Seq(Header)
  BY <1>1 DEF Context, Message, Core, ByteLen
<1>3. CASE pipe[i].dir = "request"
  <2>1. RequestInv(i)
    BY <1>1, <1>3 DEF TaskInv
  <2>2. /\ Len(buf.layers) = 1
        /\ buf.layers[1].mtype = "RelayForw"
        /\ buf.layers[1].opts[1].len = ByteLen(buf.core) % U16
        /\ buf.layers[1].opts[1].room = ByteLen(buf.core)
        /\ buf.core.mtype = raw.core.mtype
        /\ buf.core.opts = raw.core.opts \cup AddedBefore(i, "send")
        /\ buf.core.size = raw.core.size + AddedLenBefore(i, "send")
        /\ buf.core.rest = IF AddedBefore(i, "send") = {} THEN raw.core.rest ELSE 0
        /\ pipe[i].dest = ServerAddr(i)
    BY <2>1 DEF RequestInv
  <2>3. ByteLen(buf.core) < U16
    BY <1>2, <1>3, InputAssumption DEF Fits, RELAY_HDR_LEN, OPTION_TLV_HDR, U16
  <2>4. ByteLen(buf.core) % U16 = ByteLen(buf.core)
    BY <1>2, <2>3 DEF U16
  <2>5. AddedBefore(i, "send") = Added(i) /\ AddedLenBefore(i, "send") = AddedLen(i)
    BY DEF AddedBefore, Added, AddedLenBefore, AddedLen
  <2>6. FirstByte(buf) = "RelayForw"
    BY <1>2, <2>2 DEF FirstByte
  <2>7. ctx[i].dst_addr = ServerAddr(i)
    BY <2>2 DEF TypeInv, Addressed
  <2> QED
    BY <1>3, <2>2, <2>4, <2>5, <2>6, <2>7
<1>4. CASE pipe[i].dir = "reply"
  <2>1. Relayable(raw) /\ buf = Inside(raw, Depth(raw))
    BY <1>1, <1>4 DEF TaskInv, ReplyInv
  <2> QED
    BY <1>4, <2>1 DEF Relayable, Unwraps
<1> QED
  BY <1>1, <1>3, <1>4 DEF Pipe

\* The record that Send adds to the history.
SentRecord(i) ==
  [no |-> pipe[i].no, iface |-> i, dir |-> pipe[i].dir,
   raw_in |-> ctx[i].raw_in, src |-> ctx[i].src_addr,
   msg |-> ctx[i].buffer, dst |-> ctx[i].dst_addr]

\* What a successful send does to the histories.
LEMMA SendAdds ==
  ASSUME NEW i \in Iface, Send(i)
  PROVE  /\ pc[i] = "send" /\ Fits(i)
         /\ sent' = sent \cup {SentRecord(i)} /\ dropped' = dropped
         /\ SentRecord(i).iface = i
         /\ SentRecord(i).no = pipe[i].no
         /\ SentRecord(i).dir = pipe[i].dir
         /\ SentRecord(i).raw_in = ctx[i].raw_in
         /\ SentRecord(i).msg = ctx[i].buffer
         /\ SentRecord(i).dst = ctx[i].dst_addr
  BY DEF Send, SentRecord

\* ForwardedContent for one record of the history.
RightContent(s) ==
  s.dir = "request" =>
    /\ Len(s.msg.layers) = 1
    /\ s.msg.layers[1].mtype = "RelayForw"
    /\ s.msg.layers[1].opts[1].len = ByteLen(s.msg.core)
    /\ s.msg.layers[1].opts[1].room = ByteLen(s.msg.core)
    /\ s.msg.core.mtype = s.raw_in.core.mtype
    /\ s.msg.core.opts = s.raw_in.core.opts \cup Added(s.iface)
    /\ s.msg.core.size = s.raw_in.core.size + AddedLen(s.iface)
    /\ s.msg.core.rest = IF Added(s.iface) = {} THEN s.raw_in.core.rest ELSE 0
    /\ s.dst = ServerAddr(s.iface)

\* What a successful send adds to the history is right.
LEMMA SentIsRight ==
  ASSUME TypeInv, PipelineInv, NEW i \in Iface, Send(i)
  PROVE  RightContent(SentRecord(i))
<1> DEFINE r == SentRecord(i)
<1>1. /\ pc[i] = "send" /\ Fits(i)
      /\ r.iface = i /\ r.dir = pipe[i].dir /\ r.raw_in = ctx[i].raw_in
      /\ r.msg = ctx[i].buffer /\ r.dst = ctx[i].dst_addr
  BY SendAdds
<1>2. ASSUME pipe[i].dir = "request"
      PROVE  LET raw == ctx[i].raw_in
                 buf == ctx[i].buffer
             IN  /\ Len(buf.layers) = 1
                 /\ buf.layers[1].mtype = "RelayForw"
                 /\ buf.layers[1].opts[1].len = ByteLen(buf.core)
                 /\ buf.layers[1].opts[1].room = ByteLen(buf.core)
                 /\ buf.core.mtype = raw.core.mtype
                 /\ buf.core.opts = raw.core.opts \cup Added(i)
                 /\ buf.core.size = raw.core.size + AddedLen(i)
                 /\ buf.core.rest = IF Added(i) = {} THEN raw.core.rest ELSE 0
                 /\ ctx[i].dst_addr = ServerAddr(i)
  BY <1>1, <1>2, Outgoing, Zenon
<1> HIDE DEF r
<1>3. RightContent(r)
  BY <1>1, <1>2 DEF RightContent
<1> QED
  BY <1>3 DEF r

PipelinesInv == TypeInv /\ PipelineInv

\* The pipelines compute what PipelineInv says, whatever the configuration, the
\* datagrams and the interleaving of the tasks.
THEOREM PipelinesCompute == Spec => []PipelinesInv
<1>1. Init => PipelinesInv
  BY DEF Init, PipelinesInv, TypeInv, TypeOK, Pc, TaskOK, Counters, Stages,
         RequestStages, ReplyStages, Addressed, PipelineInv, TaskInv
<1>2. PipelinesInv /\ [Next]_vars => PipelinesInv'
  BY TypeInvStep, PipelineInvStep DEF PipelinesInv
<1> QED
  BY <1>1, <1>2, PTL DEF Spec

\* For messages of any length and any configuration a Relay-forward holds
\* what decode can read of the client's message, with the options of the
\* interface it came in on and nothing else; what decode cannot read is in it
\* exactly if the configuration adds no option.  The u16 length field of
\* encapsulate never overflows in a datagram that a socket sends.
THEOREM RequestsForwarded == Spec => []ForwardedContent
<1>1. ForwardedContent <=> \A s \in sent : RightContent(s)
  BY DEF ForwardedContent, RightContent
<1>2. Init => \A s \in sent : RightContent(s)
  BY DEF Init
<1>3. ASSUME PipelinesInv, \A s \in sent : RightContent(s), [Next]_vars
      PROVE  \A s \in sent' : RightContent(s)
  <2>1. ASSUME NEW i \in Iface, Send(i) PROVE RightContent(SentRecord(i))
    <3>1. TypeInv /\ PipelineInv /\ pc[i] = "send" /\ Fits(i)
      BY <1>3, <2>1, SendAdds DEF PipelinesInv
    <3> QED
      BY <2>1, <3>1, SentIsRight
  <2>2. CASE UNCHANGED sent
    BY <1>3, <2>2
  <2>3. CASE \E i \in Iface : Send(i)
    BY <1>3, <2>1, <2>3, SendAdds
  <2> QED
    BY <1>3, <2>2, <2>3, HistoryStep DEF SendFails, Failed, RecvIgnored
<1>4. (\A s \in sent : RightContent(s))' <=> \A s \in sent' : RightContent(s)
  BY DEF RightContent
<1>5. PipelinesInv /\ (\A s \in sent : RightContent(s)) /\ [Next]_vars
        => (\A s \in sent : RightContent(s))'
  BY <1>3, <1>4
<1>6. Spec => [](\A s \in sent : RightContent(s))
  BY <1>2, <1>5, PipelinesCompute, PTL DEF Spec
<1> QED
  BY <1>1, <1>6, PTL

\* For replies of any depth: a well-formed Relay-reply is never dropped, what
\* is relayed is the message inside all the headers of a well-formed one (or a
\* Relay-forward, which the documentation of decapsulate does not provide
\* for), and no Relay-reply leaves the relay.
THEOREM RepliesAreUnwrapped == Spec => []ReplyFate
<1>1. Init => ReplyFate
  BY DEF Init, ReplyFate
<1>2. ASSUME PipelinesInv, ReplyFate, [Next]_vars PROVE ReplyFate'
  <2>1. TypeInv /\ PipelineInv
    BY <1>2 DEF PipelinesInv
  <2>2. CASE UNCHANGED <<sent, dropped>>
    BY <1>2, <2>2 DEF ReplyFate
  <2>3. ASSUME NEW i \in Iface, Send(i) PROVE ReplyFate'
    <3> DEFINE s == SentRecord(i)
    <3>1. /\ FirstByte(s.msg) # "RelayRepl"
          /\ s.dir = "reply" =>
               Relayable(s.raw_in) /\ s.msg = Inside(s.raw_in, Depth(s.raw_in))
      BY <2>1, <2>3, SendAdds, Outgoing
    <3>2. sent' = sent \cup {s} /\ dropped' = dropped
      BY <2>3, SendAdds
    <3>3. Relayable(s.raw_in) /\ ~HoldsRelayForw(s.raw_in) => WellFormed(s.raw_in)
      BY DEF Relayable, Unwraps, HoldsRelayForw, WellFormed
    <3> HIDE DEF s
    <3> QED
      BY <1>2, <3>1, <3>2, <3>3 DEF ReplyFate
  <2>4. ASSUME NEW i \in Iface, SendFails(i) \/ Failed(i) PROVE ReplyFate'
    <3> DEFINE x == [no |-> pipe[i].no, iface |-> i, raw_in |-> ctx[i].raw_in,
                     cause |-> IF SendFails(i) THEN "send" ELSE "Parse"]
    <3>1. /\ dropped' = dropped \cup {x} /\ sent' = sent
          /\ x.raw_in = ctx[i].raw_in
      BY <2>4 DEF SendFails, Failed, Drop
    <3>2. pipe[i] \in Pipe /\ TaskInv(i)
      BY <2>1, <2>4, BusyTask DEF SendFails, Failed, TypeInv, PipelineInv
    <3>3. IsReply(ctx[i].raw_in) => ~Relayable(ctx[i].raw_in)
      <4>1. CASE pipe[i].dir = "request"
        BY <2>4, <3>2, <4>1 DEF SendFails, Failed, TaskInv, RequestInv
      <4>2. CASE pipe[i].dir # "request"
        <5>1. Failed(i) /\ pc[i] = "Parse"
          BY <2>4, <4>2 DEF SendFails, Fits, Failed
        <5> QED
          BY <3>2, <4>2, <5>1 DEF TaskInv, ReplyInv
      <4> QED
        BY <4>1, <4>2
    <3>4. WellFormed(ctx[i].raw_in) => Relayable(ctx[i].raw_in)
      BY DEF Relayable, Unwraps, WellFormed
    <3> HIDE DEF x
    <3> QED
      BY <1>2, <3>1, <3>3, <3>4 DEF ReplyFate
  <2>5. ASSUME NEW i \in Iface, NEW g \in Input, RecvIgnored(i, g)
        PROVE  ReplyFate'
    <3> DEFINE x == [no |-> NextNo, iface |-> i, raw_in |-> g.data,
                     cause |-> "ignored"]
    <3>1. /\ dropped' = dropped \cup {x} /\ sent' = sent
          /\ x.raw_in = g.data
      BY <2>5 DEF RecvIgnored
    <3>2. ~IsReply(g.data)
      BY <2>5 DEF RecvIgnored
    <3> HIDE DEF x
    <3> QED
      BY <1>2, <3>1, <3>2 DEF ReplyFate
  <2> QED
    BY <1>2, <2>2, <2>3, <2>4, <2>5, HistoryStep
<1> QED
  BY <1>1, <1>2, PipelinesCompute, PTL DEF Spec

-----------------------------------------------------------------------------
(* The counters *)

Sending == {i \in Iface : pc[i] = "send"}
Refused == {x \in dropped : x.cause = "send"}

\* Every number that a task or the history knows of has been given out.
NumbersIssued ==
  /\ \A i \in Busy : pipe[i].no <= stats["received"]
  /\ \A s \in sent : s.no <= stats["received"]
  /\ \A x \in dropped : x.no <= stats["received"]

\* No two tasks handle one datagram, and no task one that has met its fate.
NumbersUnique ==
  \A i \in Busy :
    /\ \A j \in Busy : pipe[i].no = pipe[j].no => i = j
    /\ \A s \in sent : s.no # pipe[i].no
    /\ \A x \in dropped : x.no # pipe[i].no

HistoryFinite == IsFiniteSet(sent) /\ IsFiniteSet(dropped)

\* The inductive invariant for the counters: without the numbers two datagrams
\* with one fate could be one record of the history and be counted once.
CountInv == NumbersIssued /\ NumbersUnique /\ HistoryFinite /\ CountersAddUp

\* The sets that the counters are compared with are finite.
LEMMA CountedFinite ==
  ASSUME HistoryFinite
  PROVE  /\ IsFiniteSet(Busy) /\ IsFiniteSet(Sending) /\ IsFiniteSet(Refused)
         /\ Cardinality(Busy) \in Nat /\ Cardinality(Sending) \in Nat
         /\ Cardinality(Refused) \in Nat /\ Cardinality(sent) \in Nat
         /\ Cardinality(dropped) \in Nat
<1>1. IsFiniteSet(Busy) /\ IsFiniteSet(Sending)
  BY IfaceAssumption, FS_Subset DEF Busy, Sending
<1>2. IsFiniteSet(Refused)
  BY FS_Subset DEF Refused, HistoryFinite
<1> QED
  BY <1>1, <1>2, FS_CardinalityType DEF HistoryFinite

\* CountersAddUp in terms of the named sets.
LEMMA CountersUnfold ==
  CountersAddUp <=>
    /\ stats["forwarded"] = Cardinality(sent) + Cardinality(Refused)
         + Cardinality(Sending)
    /\ stats["received"] = Cardinality(sent) + Cardinality(dropped)
         + Cardinality(Busy)
  BY DEF CountersAddUp, Sending, Refused

\* A task begins to handle a datagram.
LEMMA EnterCounts ==
  ASSUME TypeInv, CountInv, NEW i \in Iface, NEW g, NEW dir, NEW dest,
         pc[i] = "recv", Enter(i, g, dir, dest)
  PROVE  CountInv'
<1>1. /\ Busy' = Busy \cup {i} /\ i \notin Busy
      /\ Sending' = Sending /\ Refused' = Refused
      /\ UNCHANGED <<sent, dropped>>
  BY DEF Enter, Busy, Sending, Refused, TypeInv, TypeOK
<1>2. /\ stats["received"] \in Nat /\ stats["forwarded"] \in Nat
      /\ stats'["received"] = stats["received"] + 1
      /\ stats'["forwarded"] = stats["forwarded"]
  BY DEF Enter, CountReceived, TypeInv, TypeOK, Counters
<1>3. /\ pipe'[i].no = stats["received"] + 1
      /\ \A j \in Busy : pipe'[j] = pipe[j] /\ pipe[j].no \in Nat
  <2>1. pipe'[i].no = stats["received"] + 1
    BY DEF Enter, TypeInv, TypeOK, NextNo
  <2>2. ASSUME NEW j \in Busy PROVE pipe'[j] = pipe[j] /\ pipe[j].no \in Nat
    <3>1. j \in Iface /\ pc[j] # "recv" /\ j # i
      BY DEF Busy
    <3>2. pipe[j] \in Pipe
      BY <3>1, BusyTask DEF TypeInv
    <3> QED
      BY <3>1, <3>2 DEF Enter, TypeInv, TypeOK, Pipe
  <2> QED
    BY <2>1, <2>2
<1>4. (\A s \in sent : s.no \in Nat) /\ (\A x \in dropped : x.no \in Nat)
  BY DEF TypeInv, TypeOK, Sent, Dropped
<1>5. NumbersIssued'
  BY <1>1, <1>2, <1>3, <1>4 DEF CountInv, NumbersIssued
<1>6. NumbersUnique'
  BY <1>1, <1>2, <1>3, <1>4 DEF CountInv, NumbersIssued, NumbersUnique
<1>7. HistoryFinite /\ HistoryFinite'
  BY <1>1 DEF CountInv, HistoryFinite
<1>8. Cardinality(Busy') = Cardinality(Busy) + 1
  BY <1>1, <1>7, CountedFinite, FS_AddElement
<1>9. CountersAddUp'
  <2>1. /\ stats'["forwarded"] = Cardinality(sent') + Cardinality(Refused')
             + Cardinality(Sending')
        /\ stats'["received"] = Cardinality(sent') + Cardinality(dropped')
             + Cardinality(Busy')
    BY <1>1, <1>2, <1>7, <1>8, CountedFinite, CountersUnfold DEF CountInv
  <2> QED
    BY <2>1 DEF CountersAddUp, Sending, Refused, Busy
<1> QED
  BY <1>5, <1>6, <1>7, <1>9 DEF CountInv

\* A datagram that no handler is called for.
LEMMA IgnoredCounts ==
  ASSUME TypeInv, CountInv, NEW i \in Iface, NEW g \in Input, RecvIgnored(i, g)
  PROVE  CountInv'
<1> DEFINE x == [no |-> NextNo, iface |-> i, raw_in |-> g.data,
                 cause |-> "ignored"]
<1>1. /\ dropped' = dropped \cup {x} /\ UNCHANGED <<pc, pipe, sent>>
      /\ x.no = stats["received"] + 1 /\ x.cause # "send"
  BY DEF RecvIgnored, NextNo
<1> HIDE DEF x
<1>2. /\ stats["received"] \in Nat /\ stats["forwarded"] \in Nat
      /\ stats'["received"] = stats["received"] + 1
      /\ stats'["forwarded"] = stats["forwarded"]
  BY DEF RecvIgnored, CountReceived, TypeInv, TypeOK, Counters
<1>3. /\ Busy' = Busy /\ Sending' = Sending /\ Refused' = Refused
  BY <1>1 DEF Busy, Sending, Refused
<1>4. /\ \A s \in sent : s.no \in Nat
      /\ \A y \in dropped : y.no \in Nat
      /\ \A j \in Busy : pipe[j].no \in Nat
  <2>1. ASSUME NEW j \in Busy PROVE pipe[j].no \in Nat
    <3>1. j \in Iface /\ pc[j] # "recv"
      BY DEF Busy
    <3> QED
      BY <3>1, BusyTask DEF TypeInv, Pipe
  <2> QED
    BY <2>1 DEF TypeInv, TypeOK, Sent, Dropped
<1>5. x \notin dropped
  BY <1>1, <1>2, <1>4 DEF CountInv, NumbersIssued
<1>6. NumbersIssued'
  BY <1>1, <1>2, <1>3, <1>4 DEF CountInv, NumbersIssued
<1>7. NumbersUnique'
  BY <1>1, <1>2, <1>3, <1>4 DEF CountInv, NumbersIssued, NumbersUnique
<1>8. HistoryFinite /\ HistoryFinite'
  BY <1>1, FS_AddElement DEF CountInv, HistoryFinite
<1>9. Cardinality(dropped') = Cardinality(dropped) + 1
  BY <1>1, <1>5, <1>8, FS_AddElement DEF HistoryFinite
<1>10. CountersAddUp'
  <2>1. /\ stats'["forwarded"] = Cardinality(sent') + Cardinality(Refused')
             + Cardinality(Sending')
        /\ stats'["received"] = Cardinality(sent') + Cardinality(dropped')
             + Cardinality(Busy')
    BY <1>1, <1>2, <1>3, <1>8, <1>9, CountedFinite, CountersUnfold DEF CountInv
  <2> QED
    BY <2>1 DEF CountersAddUp, Sending, Refused, Busy
<1> QED
  BY <1>6, <1>7, <1>8, <1>10 DEF CountInv

\* A stage counts nothing.
LEMMA StageCounts ==
  ASSUME TypeInv, CountInv, NEW i \in Iface, StageStep(i), TypeInv'
  PROVE  CountInv'
<1>1. pc[i] \in Stages /\ UNCHANGED <<pipe, stats, sent, dropped>>
      /\ \A j \in Iface \ {i} : pc'[j] = pc[j]
  BY DEF StageStep, Parse, InterfaceId, RemoteIdOption, VssInsert, RelayFwd,
         VssExtract, RelayReply, InterfaceIdExtract, Forward, Execute, Stages,
         RequestStages, ReplyStages, TypeInv, TypeOK
<1>2. pc[i] \notin {"recv", "send"} /\ pc'[i] \notin {"recv", "send"}
  <2>1. pc[i] \notin {"recv", "send"}
    BY <1>1 DEF Stages, RequestStages, ReplyStages
  <2>2. ctx[i] \in Context /\ pipe[i] \in Pipe /\ pipe[i].dest \in SockAddr
    BY <2>1, BusyTask DEF TypeInv, Pipe
  <2>3. PICK s \in Stages, r \in StageResult : Execute(i, s, r)
    BY <2>2, StageTypes
       DEF StageStep, Parse, InterfaceId, RemoteIdOption, VssInsert, RelayFwd,
           VssExtract, RelayReply, InterfaceIdExtract, Forward, Stages,
           RequestStages, ReplyStages
  <2>4. s = pc[i] /\ s \in IF pipe[i].dir = "request" THEN RequestStages
                                                     ELSE ReplyStages
    BY <1>1, <2>3 DEF Execute, TypeInv, TypeOK, TaskOK
  <2>5. NextStage(i, s) \in Stages \cup {"ok"}
    BY <2>4, NextStageType DEF NextStage, Stages
  <2>6. pc'[i] \in Stages \cup {"ok", "Parse"}
    BY <2>3, <2>5 DEF Execute, StageResult, TypeInv, TypeOK
  <2> QED
    BY <2>1, <2>6 DEF Stages, RequestStages, ReplyStages
<1>3. Busy' = Busy /\ Sending' = Sending /\ Refused' = Refused
  BY <1>1, <1>2 DEF Busy, Sending, Refused
<1>4. CountersAddUp'
  BY <1>1, <1>3 DEF CountInv, CountersAddUp, Sending, Refused
<1> QED
  BY <1>1, <1>3, <1>4
     DEF CountInv, NumbersIssued, NumbersUnique, HistoryFinite

\* packets_forwarded is incremented before the packet is sent.
LEMMA ForwardedCounts ==
  ASSUME TypeInv, CountInv, NEW i \in Iface, Forwarded(i)
  PROVE  CountInv'
<1>1. /\ Busy' = Busy /\ Sending' = Sending \cup {i} /\ i \notin Sending
      /\ Refused' = Refused /\ UNCHANGED <<pipe, sent, dropped>>
  BY DEF Forwarded, Busy, Sending, Refused, TypeInv, TypeOK
<1>2. /\ stats["received"] \in Nat /\ stats["forwarded"] \in Nat
      /\ stats'["received"] = stats["received"]
      /\ stats'["forwarded"] = stats["forwarded"] + 1
  BY DEF Forwarded, TypeInv, TypeOK, Counters
<1>3. HistoryFinite /\ HistoryFinite'
  BY <1>1 DEF CountInv, HistoryFinite
<1>4. Cardinality(Sending') = Cardinality(Sending) + 1
  BY <1>1, <1>3, CountedFinite, FS_AddElement
<1>5. CountersAddUp'
  <2>1. /\ stats'["forwarded"] = Cardinality(sent') + Cardinality(Refused')
             + Cardinality(Sending')
        /\ stats'["received"] = Cardinality(sent') + Cardinality(dropped')
             + Cardinality(Busy')
    BY <1>1, <1>2, <1>3, <1>4, CountedFinite, CountersUnfold DEF CountInv
  <2> QED
    BY <2>1 DEF CountersAddUp, Sending, Refused, Busy
<1> QED
  BY <1>1, <1>2, <1>3, <1>5 DEF CountInv, NumbersIssued, NumbersUnique

\* A handler that ends: the task is idle, and the number of its datagram is in
\* the one record that the step adds to the history.
LEMMA IdleNumbers ==
  ASSUME TypeInv, CountInv, NEW i \in Iface, pc[i] # "recv", Idle(i),
         UNCHANGED stats, NEW r, r.no = pipe[i].no,
         \/ sent' = sent \cup {r} /\ dropped' = dropped
         \/ sent' = sent /\ dropped' = dropped \cup {r}
  PROVE  /\ NumbersIssued' /\ NumbersUnique' /\ HistoryFinite /\ HistoryFinite'
         /\ r \notin sent /\ r \notin dropped
         /\ i \in Busy /\ Busy' = Busy \ {i} /\ Sending' = Sending \ {i}
         /\ Cardinality(Busy') = Cardinality(Busy) - 1
<1>1. /\ i \in Busy /\ Busy' = Busy \ {i} /\ Sending' = Sending \ {i}
      /\ \A j \in Busy' : pipe'[j] = pipe[j]
  BY DEF Idle, Busy, Sending, TypeInv, TypeOK
<1>2. r \notin sent /\ r \notin dropped
  BY <1>1 DEF CountInv, NumbersUnique
<1>3. NumbersIssued'
  BY <1>1 DEF CountInv, NumbersIssued
<1>4. NumbersUnique'
  BY <1>1 DEF CountInv, NumbersUnique
<1>5. HistoryFinite /\ HistoryFinite'
  BY FS_AddElement DEF CountInv, HistoryFinite
<1>6. Cardinality(Busy') = Cardinality(Busy) - 1
  BY <1>1, <1>5, CountedFinite, FS_RemoveElement
<1> QED
  BY <1>1, <1>2, <1>3, <1>4, <1>5, <1>6

\* A packet that the socket takes.
LEMMA SendCounts ==
  ASSUME TypeInv, CountInv, NEW i \in Iface, Send(i)
  PROVE  CountInv'
<1> DEFINE r == SentRecord(i)
<1>1. /\ pc[i] = "send" /\ Idle(i) /\ UNCHANGED stats
      /\ sent' = sent \cup {r} /\ dropped' = dropped /\ r.no = pipe[i].no
  BY SendAdds DEF Send
<1> HIDE DEF r
<1>2. /\ NumbersIssued' /\ NumbersUnique' /\ HistoryFinite /\ HistoryFinite'
      /\ r \notin sent
      /\ Busy' = Busy \ {i} /\ Sending' = Sending \ {i}
      /\ Cardinality(Busy') = Cardinality(Busy) - 1
  BY <1>1, IdleNumbers
<1>3. i \in Sending /\ Refused' = Refused
  BY <1>1 DEF Sending, Refused
<1>4. Cardinality(Sending') = Cardinality(Sending) - 1
  BY <1>2, <1>3, CountedFinite, FS_RemoveElement
<1>5. Cardinality(sent') = Cardinality(sent) + 1
  BY <1>1, <1>2, FS_AddElement DEF HistoryFinite
<1>6. CountersAddUp'
  <2>1. stats["received"] \in Nat /\ stats["forwarded"] \in Nat
    BY DEF TypeInv, TypeOK, Counters
  <2>2. /\ stats'["forwarded"] = Cardinality(sent') + Cardinality(Refused')
             + Cardinality(Sending')
        /\ stats'["received"] = Cardinality(sent') + Cardinality(dropped')
             + Cardinality(Busy')
    BY <1>1, <1>2, <1>3, <1>4, <1>5, <2>1, CountedFinite, CountersUnfold
       DEF CountInv
  <2> QED
    BY <2>2 DEF CountersAddUp, Sending, Refused, Busy
<1> QED
  BY <1>2, <1>6 DEF CountInv

\* A packet that the socket refuses, and a datagram that fails in a pipeline.
LEMMA DropCounts ==
  ASSUME TypeInv, CountInv, NEW i \in Iface, SendFails(i) \/ Failed(i)
  PROVE  CountInv'
<1> DEFINE x == [no |-> pipe[i].no, iface |-> i, raw_in |-> ctx[i].raw_in,
                 cause |-> pc[i]]
<1>1. /\ pc[i] \in {"send", "Parse"} /\ Idle(i) /\ UNCHANGED stats
      /\ dropped' = dropped \cup {x} /\ sent' = sent /\ x.no = pipe[i].no
      /\ x.cause = pc[i]
  BY DEF SendFails, Failed, Drop
<1> HIDE DEF x
<1>2. /\ NumbersIssued' /\ NumbersUnique' /\ HistoryFinite /\ HistoryFinite'
      /\ x \notin dropped
      /\ Busy' = Busy \ {i} /\ Sending' = Sending \ {i}
      /\ Cardinality(Busy') = Cardinality(Busy) - 1
  BY <1>1, IdleNumbers
<1>3. Cardinality(dropped') = Cardinality(dropped) + 1
  BY <1>1, <1>2, FS_AddElement DEF HistoryFinite
<1>4. Cardinality(Refused') + Cardinality(Sending')
        = Cardinality(Refused) + Cardinality(Sending)
  <2>1. CASE pc[i] = "send"
    <3>1. i \in Sending /\ Refused' = Refused \cup {x} /\ x \notin Refused
      BY <1>1, <1>2, <2>1 DEF Sending, Refused
    <3>2. Cardinality(Sending') = Cardinality(Sending) - 1
      BY <1>2, <3>1, CountedFinite, FS_RemoveElement
    <3>3. Cardinality(Refused') = Cardinality(Refused) + 1
      BY <1>2, <3>1, CountedFinite, FS_AddElement
    <3> QED
      BY <1>2, <3>2, <3>3, CountedFinite
  <2>2. CASE pc[i] = "Parse"
    <3>1. Sending' = Sending /\ Refused' = Refused
      BY <1>1, <1>2, <2>2 DEF Sending, Refused
    <3> QED
      BY <3>1
  <2> QED
    BY <1>1, <2>1, <2>2
<1>5. CountersAddUp'
  <2>1. stats["received"] \in Nat /\ stats["forwarded"] \in Nat
    BY DEF TypeInv, TypeOK, Counters
  <2>2. /\ Cardinality(Refused') \in Nat /\ Cardinality(Sending') \in Nat
    <3>1. IsFiniteSet(Sending') /\ IsFiniteSet(Refused')
      BY <1>2, IfaceAssumption, FS_Subset DEF Sending, Refused, HistoryFinite
    <3> QED
      BY <3>1, FS_CardinalityType
  <2>3. /\ stats'["forwarded"] = Cardinality(sent') + Cardinality(Refused')
             + Cardinality(Sending')
        /\ stats'["received"] = Cardinality(sent') + Cardinality(dropped')
             + Cardinality(Busy')
    <3>1. /\ Cardinality(Busy) \in Nat /\ Cardinality(Sending) \in Nat
          /\ Cardinality(Refused) \in Nat /\ Cardinality(sent) \in Nat
          /\ Cardinality(dropped) \in Nat
      BY <1>2, CountedFinite
    <3>2. /\ stats["forwarded"] = Cardinality(sent) + Cardinality(Refused)
               + Cardinality(Sending)
          /\ stats["received"] = Cardinality(sent) + Cardinality(dropped)
               + Cardinality(Busy)
      BY CountersUnfold DEF CountInv
    <3>3. stats' = stats /\ sent' = sent
      BY <1>1
    <3>4. Cardinality(Busy') = Cardinality(Busy) - 1
      BY <1>2
    <3> QED
      BY <1>3, <1>4, <2>1, <2>2, <3>1, <3>2, <3>3, <3>4
  <2> QED
    BY <2>3 DEF CountersAddUp, Sending, Refused, Busy
<1> QED
  BY <1>2, <1>5 DEF CountInv

\* packets_received and packets_forwarded add up with what became of the
\* datagrams, for any number of concurrent tasks: every datagram received has
\* one fate, and packets_forwarded counts what the socket refused as well.
THEOREM CountersAreConsistent == Spec => []CountersAddUp
<1>1. Init => CountInv
  <2> SUFFICES ASSUME Init PROVE CountInv
    OBVIOUS
  <2>1. Busy = {} /\ Sending = {} /\ Refused = {} /\ sent = {} /\ dropped = {}
    BY DEF Init, Busy, Sending, Refused
  <2>2. stats["received"] = 0 /\ stats["forwarded"] = 0
    BY DEF Init, Counters
  <2>3. CountersAddUp
    BY <2>1, <2>2, FS_EmptySet, CountersUnfold
  <2> QED
    BY <2>1, <2>3, FS_EmptySet
       DEF CountInv, NumbersIssued, NumbersUnique, HistoryFinite
<1>2. ASSUME PipelinesInv, CountInv, [Next]_vars PROVE CountInv'
  <2>1. TypeInv /\ TypeInv'
    BY <1>2, TypeInvStep DEF PipelinesInv
  <2>2. ASSUME NEW i \in Iface, NEW g \in Input,
               RecvReply(i, g) \/ RecvClient(i, g)
        PROVE  CountInv'
    BY <1>2, <2>1, <2>2, EnterCounts DEF RecvReply, RecvClient, CanReceive
  <2>3. ASSUME NEW i \in Iface, NEW g \in Input, RecvIgnored(i, g)
        PROVE  CountInv'
    BY <1>2, <2>1, <2>3, IgnoredCounts
  <2>4. ASSUME NEW i \in Iface, StageStep(i) PROVE CountInv'
    BY <1>2, <2>1, <2>4, StageCounts
  <2>5. ASSUME NEW i \in Iface,
               Forwarded(i) \/ Send(i) \/ SendFails(i) \/ Failed(i)
        PROVE  CountInv'
    BY <1>2, <2>1, <2>5, ForwardedCounts, SendCounts, DropCounts
  <2>6. CASE UNCHANGED vars
    BY <1>2, <2>6 DEF vars, CountInv, NumbersIssued, NumbersUnique,
                      HistoryFinite, CountersAddUp, Busy
  <2> QED
    BY <1>2, <2>2, <2>3, <2>4, <2>5, <2>6 DEF Next, Recv, Handle, StageStep
<1>3. CountInv => CountersAddUp
  BY DEF CountInv
<1> QED
  BY <1>1, <1>2, <1>3, PipelinesCompute, PTL DEF Spec
===============================================================================
