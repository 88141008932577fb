# A TLA+ model of the DHCP relay agent

The modules in this directory model the DHCP relay agent of this repository:
what its DHCPv4 and DHCPv6 tasks do with a datagram, how they are started and
stopped, what they count, and its multicast forwarding part: the flooding rules,
the duplicate detection cache and the options that carry identifiers. TLC checks the
models on small instances; TLAPS proves the central properties for every value
of the constants. `PROJECT.json` lists, for every definition that models code,
the lines it models, and for every hazard the properties aimed at it.

## 1. The system

### Components

| Component | Source | State it keeps | Operations |
|---|---|---|---|
| DHCPv4 relay tasks | `lib.rs` (`spawn_v4_tasks`, `handle_v4_client`, `handle_v4_server`) | one socket and one task per enabled interface; per datagram a `PipelineContext`; the shared `RelayStats` | receive, decode, route to the request or reply pipeline, execute it, count, send |
| DHCPv4 pipelines | `pipeline.rs`, `dhcp/v4/*` | the context passed from stage to stage | Parse, Validate, Option82Insert, VssInsert, Giaddr, Forward; Parse, VssCheck, Option82Strip, ReplyAddr |
| Lifecycle | `lib.rs` (`run`, `spawn_v*_tasks`, `shutdown`) | a tokio watch channel, the task handles | run, bind, spawn, join, shutdown |
| DPD cache | `smf/dpd.rs` | a `DashMap` of first-seen times and TTLs | `check_and_insert`, `evict_expired` (background task), `clear` |
| DHCPv6 tasks and pipelines | `lib.rs`, `pipeline.rs`, `dhcp/v6/*` | as for DHCPv4 | encapsulate in Relay-forward, decapsulate Relay-reply |
| Statistics | `lib.rs` (`define_stats!`, `stats`) | nine atomic counters | relaxed increments by the tasks, `snapshot` by any caller |
| SMF engine | `smf/engine.rs`, `smf/forwarding.rs`, `smf/relay_set.rs` | none of its own | `process_packet` |
| DPD identification | `smf/dpd_option.rs`, `smf/dpd_ipv4.rs`, `smf/dpd_ipv6.rs` | none | encode, decode, key extraction, hash |
| VSS codecs | `dhcp/v4/vss.rs`, `dhcp/v6/vss.rs` | none | `encode_sub_opts`, `check_server_support`, `encode`, `extract` |
| Configuration, errors, traits, transport | `config.rs`, `error.rs`, `traits/`, `transport/` | constants | validation; thin wrappers |

### How they interact

`RelayAgent::run` spawns a task for every enabled interface and protocol and
waits for all of them. The tasks never talk to each other; they share only the
atomic counters and the read-only configuration. `shutdown` may be called from
anywhere and reaches the tasks through the watch channel. Nothing is remembered
between a request and its reply: a reply finds its way back because the request
carried `giaddr`. The DPD cache is a library object that any number of threads
may use at once, beside its own eviction task; `SmfEngine` owns one and starts
the task, but `process_packet` does not consult it.

### What is hard about it

* tasks interleave at every `await` and every counter increment;
* UDP loses, duplicates and reorders, and send errors are ignored;
* sockets are bound to unicast addresses and may not send broadcasts, while DHCP
  clients without an address depend on broadcasts;
* stages decode and encode again what a library can read of a message, and lose
  the rest;
* a pipeline can stop in any stage, by `Ok(false)` or by an error, and the two
  handlers treat that differently;
* facts established by one stage (`is_reforwarded`) must be honoured by later
  ones;
* without a server the relay sends to itself;
* startup is a sequence of awaits during which `shutdown` may come, and any of
  which may fail half-way;
* `check_and_insert` is two critical sections, with a time stamp read before
  the first and written in the second;
* a snapshot of the counters is taken field by field while they change;
* nodes flood without remembering what they have forwarded, so that only the
  TTL ends the circulation of a packet;
* lengths are cast to a byte and masked to five bits, identifiers are cut and
  filled up.

### What makes each component correct

* Tasks and pipelines: each datagram is sent once or dropped once, in a form
  that depends only on the datagram, the interface and the configuration
  (`RelayContract`); counters agree with what happened; no Option 82 reaches a
  client; packets of other relay agents are left alone; own requests are not
  relayed again; handlers terminate; end to end, the clients that the relay can
  hear and answer are served, on their own link.
* DHCPv6: a Relay-forward holds all that can be read of the client's message,
  the options of its interface, and a length that is right; a Relay-reply is unwrapped completely or dropped, however it is nested
  or cut short; replies go to the client.
* Lifecycle: a shutdown stops everything running and nothing started later;
  `run` returns then, and not before its tasks are done.
* DPD cache: how often a packet can be taken for new, how long an entry is
  remembered at least and at most.
* Statistics: a snapshot is never worse than the counters at some moment while
  it was taken, field by field, and contradicts itself by a bounded amount only.
* SMF engine: a packet reaches all nodes within its scope, none beyond it, and
  dies out.
* Codecs: both ends agree on what the bytes mean; packets that differ have
  different keys.

## 2. The modules

| Module | What it is |
|---|---|
| `RelayV4Config` | configuration constants and their assumptions; messages |
| `PipelineV4` | the stages of both pipelines as operators from a context to a result, and the order of the stages |
| `RelayV4` | the tasks: receive, one action per stage, count, send, drop |
| `RelayContract` | abstract specification of the same: a datagram gets its fate in one step, given in closed form |
| `RelayV4Net` | `RelayV4` composed with clients, a server and an unreliable network |
| `PipelineV6` | DHCPv6 messages as nested headers, the Relay-forward codec, the stages of both pipelines |
| `RelayV6` | the DHCPv6 tasks, in the form of `RelayV4` |
| `RelayLifecycle` | `run`, `shutdown`, bind failures, the watch channel |
| `DpdCache` | the cache, its callers, the eviction task and the clock |
| `SmfFlooding` | nodes that flood multicast packets through `process_packet` |
| `SmfDpdOption` | the SMF_DPD option and the keys of packets, byte for byte, as operators |
| `VssSubOption` | validation of configurations and the VSS codecs, byte for byte, as operators |
| `OptionCodecs` | the exchanges in which these operators are used, composed from the two |
| `RelayStats` | the shared counters and `snapshot()` |
| `MC...` | instances for TLC |
| `..._proofs` | theorems and proofs |

Definitions named as "a plausible slip" are altered forms of the definition
that follows them. They are used by no specification; replacing the original by
one of them is how we made sure that a property can fail.

### RelayV4: state and actions

`pc[i]` is where the task of interface `i` is: in `select!` ("recv"), about to
run a stage, holding the result of `Pipeline::execute` ("ok", "halt" or an
error), or in `send_to`. `ctx[i]` is its `PipelineContext`, `pipe[i]` the
pipeline built for the datagram (its direction and the `expected_sub_opts` of
its strip stage). `stats` are the counters. `sent`, `dropped` and the numbers
of the datagrams are history variables.

`RecvGarbage`, `RecvClient` and `RecvServer` are the three ways through the
receive loop; `Parse` ... `ReplyAddr` each run one stage and either go on to
the next stage of the configured pipeline or to the result; `Forwarded`,
`Send`, `Halted` and `Failed` are the arms of the handlers' `match`. An error
of `recv_from` is ignored by the loop and changes nothing.

Abstractions: a buffer is the message it decodes to, since every stage decodes
and re-encodes it and the receive loop has already discarded what does not
decode; `ParseStage`, which re-encodes without a change, is therefore the
identity on messages, while its effect on raw bytes is not represented: what
`dhcproto` cannot read of a request is lost there, and the order of the options
may change. The model speaks of what both ends can read.
Errors of `modify_v4` (a buffer the relay itself encoded does not decode) do
not occur. Message fields that no stage looks at are collapsed into `body`.
Of the sub-options of Option 82 we keep those the relay writes, the flags
(which `relay_info_to_sub_opt` converts with loss) and one other. The
interfaces have IPv4 addresses (`ip_addr` is of the form "a.b.c.d:port"), and
`local_addrs` includes those of disabled interfaces. VSS stages exist only if
VSS is enabled, so the second check of `enabled` inside them and the failure
of `encode_sub_opts` (`RelayConfig::validate` has made that check) are left
out. `VssCheckStage` only logs.

### RelayV4Net

Every action of `RelayV4` is used as it is; receptions take their datagram
from `wire`, `Send` puts one there. Clients, server and network are external.
The server answers to `giaddr` and echoes Option 82, as RFC 2131 and RFC 3046
require of it.

`UdpTransport::bind` binds a socket to the unicast address of its interface and
sets no options (`transport/udp.rs:15`). Such a socket receives no broadcasts
(`ReachesSocket`), and as `SO_BROADCAST` is not enabled, a send to
255.255.255.255:68 fails (`CanSendTo`), which `lib.rs:195` ignores. What is left
are clients that send to the relay's address and have one of their own:
`Reachable`, the condition of `EveryClientServed`. The model contains the others
as well; their requests stay unheard or their replies are not sent, and neither
may disturb the clients that are served.

`AskAssumption` says where clients send to: to the relay on their link or to the
broadcast address. `LinkAssumption` says what addresses must be like for `giaddr`
to name a link: every interface has its own, none is bound to 0.0.0.0 or to
port 68, and none has the address of the server. The code checks none of this. A
socket bound to 0.0.0.0, as in `examples/simple_relay.rs`, would hear broadcasts,
but stamps requests with a `giaddr` of 0.0.0.0, "no relay agent", so that no
answer can come back.

### RelayV6: state and actions

The state and the actions are those of `RelayV4` with the DHCPv6 stages.
`RecvReply`, `RecvClient` and `RecvIgnored` are the branches of the receive
loop, which looks at the first byte before it decodes; Relay-forwards of other
relay agents are among what is ignored. `Send` and `SendFails` tell whether the
datagram fits into a UDP datagram.

A datagram is a sequence of relay headers around a core. Lengths are real:
a core has a size (`size`: the bytes up to the end of the options that decode
can read; `rest`: those after that), an option of a header has the value of its length field and
the number of bytes that really follow, and `Encapsulate` reduces the length
modulo 2^16. `Decapsulate` is written as a recursive function over the headers.
`v6::Message::decode` (external) fails only on fewer than four bytes: it stops
at the first option it cannot read, as the test
`reply_pipeline_decapsulates_relay_reply` shows, in which the bytes of a relay
header are read as options. So `ParseStage` and `VssExtractStage`, which see
the relay header and not the message inside, let every complete Relay-reply
pass. For the same reason `InsertOption` sets `rest` to 0: `modify_v6`
(`pipeline.rs:68`) encodes what it has decoded, and the first option that cannot
be read, also one nested in another, is lost with everything after it.
`dhcproto` may order the options it encodes differently; options are a set here.
Inserting an option keeps others of the same code. Metadata is reduced to
its keys, since nothing reads it.

`spawn_v6_tasks` builds the socket address from what precedes the first colon
of `ip_addr`, so it can only bind IPv4 addresses; with any other, `run` fails.
The instances therefore have IPv4 sockets and peers, and every Relay-forward
carries `::` as its link and peer address. Unlike the comments in `config.rs`
say, an unset `remote_id` becomes an empty option, and no hop count is ever
looked at.

### RelayLifecycle: state and actions

`phase[r]` is how far a call of `run()` has got, `next[r]` the job (protocol
and interface) it takes next, `rxSeen[r]` the version its receiver has seen.
`task[j]` is "none", "select" or "handling". `Run` and `EnterV6` are the two
subscriptions; `BindAndSpawn` and `BindFails` one iteration of the loops; `Wait`
and `Return` the join; `Notice`, `Receive` and `Handled` the biased `select!`;
`Shutdown` the call. The watch channel follows tokio's documentation: `send`
stores nothing if there is no receiver, `subscribe` counts the current value as
seen, a clone has seen what the original has. A socket address can be bound
once, so a job has at most one task at a time. After `BindFails` the tasks
spawned so far are detached and go on.

### DpdCache: state and actions

`Begin` reads the time and the arguments, `Miss`, `Raise` and `Reject` are the
outcomes of `get_mut`, `Insert` is the unconditional insertion after a miss.
`SweepBegin` is a tick of the eviction interval, `SweepKey` the visit of
`retain` to one key, `ClearBegin` and `ClearKey` likewise for `clear`. `Tick`
advances the clock, but never further than `MaxDelay` beyond the start of a
pending call, a due tick or a running sweep. `accepts`, `inserts` and
`lastNow` are history, reset when a key leaves the map.

### SmfFlooding: state and actions

`air` are the copies of packets on their way to a node, `heard` and `sent` are
history. `Process(c)` is a call of `process_packet` with what has arrived, and
the transmission of what it returns; `Originate` and `Lose` are external, and so
is the topology. The medium is a broadcast medium: the neighbor that a packet
came from hears it again. The forwarding rules look at real addresses, as
octets; of a packet we keep what the engine reads or writes. `RelaySet` are the
nodes whose `RelaySetSelector` says yes: all with `ClassicFlooding`, fewer with
an injected one, whose choice may not depend on the packet here. The caller is
taken to pass the TTL and the addresses that are in the packet, since
`process_packet` believes its arguments. The engine's DPD cache does not appear,
because `process_packet` does not consult it; `Dist`, the distances in the
topology that the properties speak of, is a constant with an assumption that
makes it the exact number of hops to a node over nodes that relay the packet
(nodes that cannot be reached have more than 255).

### OptionCodecs: state and actions

`task` is one exchange: what was `given`, what is on the `wire`, what the other
end `got`. An SMF_DPD option is sent in a header with padding after it, so that
its length byte counts (`SendDpd`), may be cut short or garbled (`Cut`,
`Garble`), is decoded (`ReceiveDpd`) and gives a key (`IdentifyOption`); other
packets are identified by numbers and payloads. A VSS exchange starts from a
configuration that `RelayAgent::new` has accepted. All fields of `SmfDpdOption`
are public, so that options may contradict themselves; `WellFormed` says which
do not. The hash of `h_dpd_hash` is an injective function of its input,
which is cut to 64 bytes as in the code; `has_collision`, which nothing calls, is
left out. `encode_sub_opts`, `encode` and `extract` are called by the pipeline
stages; `check_server_support` is not: `VssCheckStage` has a loop of its own over
the sub-options that `dhcproto` has decoded, and only logs what it finds.

### RelayStats: state and actions

`todo[t]` are the increments that belong to the datagram of task `t` and that
are not visible yet; `FetchAdd` makes one visible, in any order. `Begin`, `Load`
and `Return` are a call of `stats()`; the loads happen in any order, except that
counters which nothing increments (five of the nine) are loaded at once. What
the C++ memory model would allow beyond that, increments of successive datagrams
seen out of order, is excluded: system calls lie between them.

## 3. What is checked

Sizes are distinct states; every passing run takes less than a minute.

| Run | Instance | Shows |
|---|---|---|
| `relay_v4_full` | 2 interfaces, 2 datagrams out of 27, Option 82 and VSS on, 61561 states | the pipelines implement `RelayContract`; `CountersAddUp`, `SpoofCounterHonest`, `NoOption82ToClient`; every handler terminates |
| `relay_v4_plain` | as above, VSS off, no server, inputs include the relay's own output, 60421 states | `ExactlyOneFate`, `ReforwardedUntouched`, `OwnRequestNotRelayed` |
| `relay_v4_net` | 3 clients on 2 links, one of each kind, 2 transmissions of the reachable one, 1 fault, 84555 states | `ReplyOnClientsLink`, `EveryClientServed` |
| `relay_v6` | 2 interfaces, 2 datagrams out of 28, all options on, 69893 states | `ForwardedContent`, `ReplyFate`, `CountersAddUp`; every handler terminates |
| `lifecycle` | 2 calls of `run`, 2 + 1 jobs, 2 shutdowns, 71855 states | `NoTaskOutlivesRun`, `NoStaleStop`, `NotifiedTaskStops`, `V4TasksStop`, `ShutdownAfterSubscribe` |
| `dpd_cache` | 2 threads, 1 key, 2 TTLs, window 4, delay 1, clock to 10, 204606 states | `AcceptBound`, `ExpiryBound`, `NotForgottenEarly` |
| `smf_flood` | a ring of 4 nodes and a chain of 2, 2 packets out of 8, 1 loss, 130727 states | `Contained`, `Reached`, `FloodEnds` |
| `codecs` | 47 options, 11 ways to damage them, the keys of any 2 packets, 21 configurations of which 15 are accepted, 66760 states | `RoundTrip`, `DecodeExact`, `KeySeparates`, `VssUnderstood` |
| `stats` | 2 tasks, 3 datagrams, 1 reader, 935378 states | `SnapshotBracketed`, `SkewBound`, `SnapshotsMonotone` |

Three further runs show disagreements between the code and its documentation;
each checks one property that states what the documentation says, and TLC
finds a behaviour of the code that violates it:

| Run | What happens |
|---|---|
| `relay_v6_reply_dest` | the unwrapped reply is sent back to the server |
| `relay_v4_echo` | the echo check compares a reply with itself |
| `lifecycle_startup` | a shutdown between the two subscriptions is lost for the DHCPv6 tasks |

More disagreements between code and documentation show in the models without a
run of their own:

* With VSS enabled, `VssInsertStage` (`dhcp/v4/pipeline.rs:240`) writes its
  sub-options into requests of other relay agents too, although
  `dhcp/v4/giaddr.rs:16` says "do not modify". `ReforwardedUntouched` is checked
  and proved with VSS off only; the condition is needed.
* `ReplyAddrStage` documents "Priority: ciaddr → broadcast 255.255.255.255:68"
  (`dhcp/v4/pipeline.rs:197`), but the broadcast fails in `send_to`, and the
  broadcasts of clients do not reach a socket with a unicast address. So a client
  that has no address yet is never served; `EveryClientServed` is about
  `Reachable` clients only.
* `decapsulate` documents that it unwraps "until a non-relay message is found"
  (`dhcp/v6/relay_fwd.rs:60`), but recurses into Relay-replies only
  (`dhcp/v6/relay_fwd.rs:83`): a Relay-forward inside a Relay-reply leaves the
  relay as a relay message. `ReplyFate` leaves this case out (`HoldsRelayForw`);
  the inputs of the run contain it.
* A client's message with an option that `dhcproto` cannot read is forwarded cut
  short at that option, without an error, if the relay adds any option
  (`pipeline.rs:68`). `ForwardedContent` says so.
* Two threads that look a packet up before either inserts it both get
  `Ok(true)`, "new packet" (`smf/dpd.rs:57`). `AcceptBound` is the bound that
  does hold, and it is reached.
* With `dpd_window_secs` below 4 the eviction task does nothing
  (`smf/dpd.rs:139`) and entries never expire. `ExpiryBound` holds if
  `EvictionEnabled` does, which the instance has it do.
* `SmfEngine` is documented as integrating the DPD cache (`smf/engine.rs:14`),
  and `smf/forwarding.rs:42` leaves rule 6 to it, but `process_packet` does not
  consult the cache: in `SmfFlooding` every node forwards every copy of a packet
  that reaches it with a TTL of at least 2.
* `ClassicFlooding` is documented as sparing the previous hop
  (`smf/relay_set.rs:7`), but says yes to everything.
* An SMF_DPD option with a tagger id of 32 bytes or more, or with more than 255
  bytes of data, is encoded without an error and does not survive: `RoundTrip`
  is about `WellFormed` options. Likewise VSS info of 255 bytes or more passes
  `validate_vss` and overflows the length byte: `VssUnderstood` stops at 254.
* An identifier of more than eight bytes is cut: two packets that differ only
  after that have the same key. `MustDiffer` says which packets are told apart.

Two more disagreements are visible in `RelayContract` and have no run of their
own. `DropCause` is "Config" for every first-hop request if Option 82 is enabled
and neither id is set, which is the default configuration, while `config.rs:90`
and `:93` promise default values. And it is "halt" for every first-hop request
with Option 82, because nothing sets `is_trusted_circuit`: the `trusted` flag of
an interface (`config.rs:69`) has no effect.

Three counters differ from `README.md` of the repository in ways that follow
from single lines and have no run of their own: every error of the request
pipeline counts in `packets_dropped_spoof` (`SpoofCounterHonest` holds only
because `relay_v4_full` configures the ids that `option82::insert` needs),
`packets_dropped_parse_error` is never incremented, and `option82_stripped`
counts replies that carried no Option 82. `CountersAddUp` states what the
counters do count.

### Bounds, and why they are enough

* Two interfaces and two datagrams: tasks share only counters, so two of them
  already produce every kind of interference, and one datagram per task or two
  in a row in one task are both covered. The inputs contain every case any
  stage tells apart (giaddr unset, local, local to a disabled interface,
  foreign; Option 82 absent, own, foreign with VSS, with flags; ciaddr set or
  not; typed, untyped, undecodable).
* `relay_v6` uses the real lengths: the shortest message and one byte less, the
  longest request that can still be sent, one byte more, and the longest
  datagram that can be received, which overflows the length field, and messages
  with options that decode cannot read. All options are enabled there, so that a
  request to which nothing is added is covered by the theorem only. Relay-replies
  contain every kind of core and option list in one layer, and two layers of
  each type; a third would repeat the second.
* `relay_v4_net`: one client that is heard and answered, one that is heard but
  has no address, one that broadcasts; the last two share a link, and the first
  has one of its own. One network fault: a lost or a duplicated datagram anywhere.
  The reachable client may ask twice, so that after a loss it is its second
  request, or the answer to it, that must get through. `MaxReceived` is 8: two
  requests of the first client, one of the second, their three replies, and two
  more for a duplicated request and its reply, so the bound never cuts a round
  trip short. The cfg has a view that leaves out history (the numbers of
  datagrams, what was dropped, counters no guard reads); none of it is read by a
  guard or by a property of this run.
* Configurations with Option 82 disabled are not run; the closed forms of the
  pipelines are proved for every configuration (section 4).
* Two DHCPv4 jobs and one DHCPv6 job: a shutdown or a failure can come before,
  between and after the jobs of a protocol. Two calls of `run` overlap or
  follow each other; the second shutdown can meet the second run.
* `smf_flood`: packets with TTL 0 to 4 on a topology of diameter 4 end at every
  distance; the ring makes copies meet and return. Two packets are enough, as
  packets do not interact.
* `codecs`: every field at, just below and just above its limits (tagger ids of
  0, 1, 31, 32 and 255 bytes, data of 255 and 256, identifiers around 8 bytes,
  info of 254 and 255), and bytes that look like codes. Numbers reach 2^31 - 1.
* `stats`: two tasks, of different protocols, can overlap in any way; the third
  datagram makes one of them count twice during a snapshot. Readers do not
  interact.
* The clock of `dpd_cache` runs to 10 with a window of 4: an entry can expire,
  be inserted again and expire again. One key is enough for the map, because
  operations on different keys do not interact except through the clock and
  the sweep. Two threads are the smallest number that race. Threads are
  symmetric and no liveness is checked there.

Runs that stop at a bound, or where everything may have been shut down, switch
deadlock checking off.

### Fairness

`RelayV4` and `RelayV6`: a task that is not waiting for a datagram is ready and the executor
runs it (weak fairness of `Handle(i)`); nothing is assumed of arrivals.
`RelayLifecycle`: `run` goes on when it can, a notified task is polled, a
handler finishes; nothing is assumed of packets, `run` or `shutdown`.
`RelayV4Net` in addition: clients transmit until they are served (or reach
their bound), and the network delivers what it has not lost to the sockets that
it can reach. `SmfFlooding`: some
copy that has arrived is processed (weak fairness of processing as a whole, not
of each copy). `DpdCache` states no fairness: its bounds on time come from the
clock, which waits for overdue operations. `OptionCodecs` and `RelayStats` make
no claims of liveness.

## 4. What is proved

Every invariant and every action property that a run checks is proved, for every
value of the constants that satisfies the named assumptions of the modules
(`AddressAssumption`, `Option82Assumption`, `IfaceAssumption`, `InputAssumption`,
`MaxReceivedAssumption`, `NetAssumption`, `AskAssumption`, `LinkAssumption`, `OptionAssumption`,
`LifecycleAssumption`, `DpdAssumption`, `TopologyAssumption`,
`PacketAssumption`, `DistAssumption`, `StatsAssumption`, `BoundsAssumption`,
`VssAssumption`); TLC evaluates these assumptions in every run that uses them.
Further conditions are hypotheses of single theorems and named below.

* `RelayV4_proofs`. `TypeCorrect`: every stage maps a well-typed context to a
  well-typed result, and the pipelines never leave their own stages.
  `PipelinesComputeClosedForm`: the safety properties speak of what was sent,
  and nothing about that is inductive without knowing what is in the contexts on
  the way. `PipelineInv` therefore gives the context of a task in closed form at
  each stage (with the facts that decide which branch was taken: whether the
  request is admissible and whether `is_reforwarded` says so), and `SentInv`
  says the same of everything sent. There is one lemma for each stage. From it
  follow `StampedRequestsStop` (`OwnRequestNotRelayed`, any configuration),
  `RepliesAreStripped` (`NoOption82ToClient`, if Option 82 is enabled) and
  `ReforwardedPassUnchanged` (`ReforwardedUntouched`, if VSS is disabled).
  `RelayImplementsContract` (`ImplementsContract`): a reception, a send and a
  drop are steps of `RelayContract`, everything between them a stutter, because
  the closed forms are those of the contract. `EveryDatagramHasOneFate`
  (`ExactlyOneFate`) is proved on the contract's side: `FateInv` says that the
  numbers held, sent and dropped are the numbers issued, and no number is in two
  places. `CountersAreConsistent` (`CountersAddUp`) needs it too: two datagrams
  with equal fates must not become one element of the history. Sets are finite
  because the interfaces are. `SpoofCounterIsHonest` (`SpoofCounterHonest`)
  needs a circuit or remote id if Option 82 is enabled; without one the property
  is false (section 3).
* `RelayV4Net_proofs`. `NetTypeCorrect` (`NetTypeOK`) and `PipelinesInNetwork`:
  the lemmas of `RelayV4_proofs` are stated for tasks that may receive any
  datagram (`OpenNext`), and so hold in the network.
  `RepliesReachTheirLink` (`ReplyOnClientsLink`): `LinkInv` follows a request
  and its reply. What is in flight is a request that its client has sent, to the
  broadcast address or to the socket of its own link, or a message stamped with
  the address of that link; what a task handles is a first-hop request of its own
  link, a stamped request that came back (and is about to be dropped), or a reply
  to a client of its own link.
* `RelayV6_proofs`. `TypeCorrect`, `PipelinesCompute`, `RequestsForwarded`
  (`ForwardedContent`), `RepliesAreUnwrapped` (`ReplyFate`) and
  `CountersAreConsistent`. `PipelineInv` says of a request which options have
  been added so far, how many bytes they take, that the unreadable rest is gone
  once there is one, and that the length field is the size modulo 2^16; of a
  reply, that the buffer is the raw message inside its first `Depth` headers.
  What the recursive function in `Decapsulate` returns is shown in closed form
  for any number of headers.
* `RelayLifecycle_proofs`: `TypeCorrect`, `RunWaitsForItsTasks`
  (`NoTaskOutlivesRun`, from `OwnerInv`: a live task belongs to a call of
  `run` that has begun and not returned Ok) and `OldShutdownStopsNothing`
  (`NoStaleStop`, from `VersionInv`: a receiver that is behind the channel
  belongs to a call of `run` made before the last shutdown).
  `ShutdownStaysPending` is the safety half of `V4TasksStop` and
  `ShutdownAfterSubscribe`: a task that a shutdown was addressed to, even one
  spawned afterwards, has an unseen `true` before it as long as it lives.
  `PendingInv` adds that the receiver `run` clones lags behind the channel from
  the moment it is asked; the DHCPv6 tasks of a run that was asked before the
  second subscription are exempt, and `lifecycle_startup` shows why.
* `DpdCache_proofs`, for any number of threads, keys and TTLs: `TypeCorrect`;
  `AcceptBounded` (`AcceptBound`): while a key is present, the insertions
  since it entered and the threads that have missed and not yet inserted
  (`Pending`) are together no more than the threads; a packet is accepted at
  most once per insertion, and strictly less often if the cached TTL is below
  its own, which is what a `Raise` needs. `NeverForgottenEarly`
  (`NotForgottenEarly`), from `TimeInv`, which relates every time stamp held by
  a call, an entry or a sweep to the clock; `EntriesExpire` (`ExpiryBound`), if
  the eviction task runs (`EvictionEnabled`) and no call is delayed by a window
  or more: `ExpiryInv` says that an entry no running sweep has yet to visit was
  less than a window old at the start of the last sweep, and one that it has yet
  to visit at the start of the sweep before.
* `SmfFlooding_proofs`, for any topology: `TypeCorrect`; `FloodContained`
  (`Contained`), which says nothing of copies under way, so `HopBound` does: TTL
  and distance of a copy together never exceed the TTL it was sent with.
  `FloodReaches` (`Reached`): unless a copy of the packet was lost, there is a
  set of nodes that have processed the best copy they could get, and their
  neighbors have processed theirs or have it on the way (`ReachInv`); when
  nothing is on its way, the set is all there is within reach, by induction on
  the distance.
* `RelayStats_proofs`: `TypeCorrect`, `SnapshotsBracketed`,
  `SnapshotsNeverGoBack` and `SnapshotSkewBounded` (`SkewBound`). `ReaderInv`
  adds that the counters when a snapshot began lie below those of now and above
  the previous snapshot; `OutcomeInv` counts the tasks whose outcome is visible
  and whose reception is not.
* `OptionCodecs_proofs`: `TypeCorrect`, `IntactRoundTrip` (`RoundTrip`),
  `DecodedExactly` (`DecodeExact`), `KeysSeparate` (`KeySeparates`) and
  `VssIsUnderstood` (`VssUnderstood`), for options, headers, payloads and
  sub-options of any length and content. `CodecInv` relates given, wire and got
  at every stage of an exchange; the substance is in lemmas about the codecs:
  decode inverts encode and conversely, keys determine what they were made from,
  and `check_server_support`, a recursive scan, finds VSS-Control exactly if
  some position that it visits holds it (`Scan`).

Inductions over data (the headers that `Decapsulate` visits, the positions of a
scan, the distances in a topology) are carried out as proofs by a least
counterexample: `WFMin` of `WellFoundedInduction` takes a set, not an operator,
and so can be used.

Only model-checked: the liveness properties (`HandlingTerminates` of both
relays, `EveryClientServed`, `FloodEnds`, `NotifiedTaskStops`, `V4TasksStop`,
`ShutdownAfterSubscribe`), since fairness and ENABLED are beyond the prover; and
the three runs that end in a violation, which need no proof.

## 5. What is not modelled, and the plan

Not modelled: the deserialisation of configurations and its default values, the
fields of the SMF section other than the window (no code reads them), logging and
the wording of errors, the hash function, the examples. `UdpTransport` is a
wrapper around a socket (`RelayV4Net`). A `TopologyProvider` has no reader, and what is injected
into `RelayAgent` is stored and given to whoever takes it.
Byte layouts are modelled where the code writes them itself (relay headers, the
SMF_DPD option, the VSS options), not where `dhcproto` does.

A request of another relay agent that goes to the task's own socket for want of
a server is relayed without end: `hops` is neither incremented nor checked. No
document promises otherwise and no property is stated about it.

Left to do is the safety half of `EveryClientServed` as a theorem: that a
`Reachable` client that has asked more often than datagrams were lost has one in flight, in a task
or at the server.
