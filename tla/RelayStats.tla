----------------------------- MODULE RelayStats -----------------------------
(***************************************************************************)
(* The statistics that all tasks of an agent share, and snapshot(), which  *)
(* callers of stats() run while the tasks go on counting                   *)
(* (src/src/lib.rs).  Every counter is an AtomicU64 of its own, touched    *)
(* with Ordering::Relaxed: a reader may see the increments that belong to  *)
(* one datagram in any order, and its loads happen in any order.  The      *)
(* increments of successive datagrams of a task are taken to become        *)
(* visible in order, for system calls lie between them.                    *)
(***************************************************************************)
EXTENDS Naturals, FiniteSets

CONSTANTS
  V4Task, V6Task,  \* the tasks of spawn_v4_tasks and spawn_v6_tasks
  Reader,          \* the callers of RelayAgent::stats
  MaxReceived,     \* bound on the datagrams received
  NotLoaded        \* a field of a snapshot that has no value yet

ASSUME StatsAssumption ==
  /\ IsFiniteSet(V4Task) /\ IsFiniteSet(V6Task)
  /\ V4Task \cap V6Task = {} /\ MaxReceived \in Nat /\ NotLoaded \notin Nat

Task == V4Task \cup V6Task

Counter ==
  {"packets_received", "packets_forwarded", "packets_dropped_parse_error",
   "packets_dropped_spoof", "option82_inserted", "option82_stripped",
   "vss_not_supported", "smf_duplicates_detected", "smf_forwarded"}

\* The sets of counters that the handling of a datagram may increment.

\* A plausible slip: what has failed is counted as forwarded too.
HandleV4ClientCountsTwice ==
  {{"packets_forwarded"}, {}, {"packets_forwarded", "packets_dropped_spoof"}}

\* handle_v4_client: Ok(true), Ok(false), Err.
HandleV4Client == {{"packets_forwarded"}, {}, {"packets_dropped_spoof"}}

\* handle_v4_server: Ok(true); otherwise.
HandleV4Server == {{"packets_forwarded", "option82_stripped"}, {}}

\* handle_v6_client and handle_v6_server: Ok(true); otherwise.
HandleV6 == {{"packets_forwarded"}, {}}

\* Every datagram is counted when it is received; one that no handler takes
\* is counted nowhere else.
Counts(t) ==
  {c \cup {"packets_received"} :
     c \in {{}} \cup (IF t \in V4Task THEN HandleV4Client \cup HandleV4Server
                                      ELSE HandleV6)}

\* No code increments the others: they read the same at any time.
Counted == (UNION (HandleV4Client \cup HandleV4Server \cup HandleV6))
             \cup {"packets_received"}

VARIABLES
  stats,     \* the counters
  todo,      \* todo[t]: the increments of t's datagram not yet visible
  received,  \* history: how many datagrams the tasks have received
  read,      \* read[r]: what r's snapshot() has loaded so far
  base,      \* history: base[r]: the counters when r's snapshot() began,
             \* Zero between two snapshots
  last       \* last[r]: the latest snapshot that r has got

vars == <<stats, todo, received, read, base, last>>

Zero == [c \in Counter |-> 0]
Nothing == [c \in Counter |-> NotLoaded]

Init ==
  /\ stats = Zero /\ received = 0
  /\ todo = [t \in Task |-> {}]
  /\ read = [r \in Reader |-> Nothing]
  /\ base = [r \in Reader |-> Zero]
  /\ last = [r \in Reader |-> Zero]

\* Task t receives a datagram; it will increment the counters in s.
Receive(t, s) ==
  /\ todo[t] = {} /\ s \in Counts(t) /\ received < MaxReceived
  /\ todo' = [todo EXCEPT ![t] = s]
  /\ received' = received + 1
  /\ UNCHANGED <<stats, read, base, last>>

\* A plausible slip: fetch_sub, which takes a fresh counter below zero.
FetchSub(t, c) ==
  /\ c \in todo[t]
  /\ stats' = [stats EXCEPT ![c] = @ - 1]
  /\ todo' = [todo EXCEPT ![t] = @ \ {c}]
  /\ UNCHANGED <<received, read, base, last>>

\* fetch_add(1) on counter c becomes visible.
FetchAdd(t, c) ==
  /\ c \in todo[t]
  /\ stats' = [stats EXCEPT ![c] = @ + 1]
  /\ todo' = [todo EXCEPT ![t] = @ \ {c}]
  /\ UNCHANGED <<received, read, base, last>>

\* r calls stats().
Begin(r) ==
  /\ read[r] = Nothing
  /\ base' = [base EXCEPT ![r] = stats]
  /\ read' = [read EXCEPT ![r] =
                [c \in Counter |-> IF c \in Counted THEN NotLoaded ELSE stats[c]]]
  /\ UNCHANGED <<stats, todo, received, last>>

\* Field c of r's snapshot gets the value v.
Loaded(r, c, v) ==
  /\ read[r] # Nothing /\ read[r][c] = NotLoaded
  /\ read' = [read EXCEPT ![r][c] = v]

\* A plausible slip: packets_received is filled from another counter.
LoadWrongField(r, c) ==
  /\ Loaded(r, c, stats[IF c = "packets_received" THEN "packets_forwarded" ELSE c])
  /\ UNCHANGED <<stats, todo, received, base, last>>

\* A plausible slip: swap(0) in place of load.
LoadAndReset(r, c) ==
  /\ Loaded(r, c, stats[c])
  /\ stats' = [stats EXCEPT ![c] = 0]
  /\ UNCHANGED <<todo, received, base, last>>

\* The load of counter c.
Load(r, c) ==
  /\ Loaded(r, c, stats[c])
  /\ UNCHANGED <<stats, todo, received, base, last>>

\* Every field of r's snapshot has a value.
Complete(r) == \A c \in Counter : read[r][c] # NotLoaded

\* snapshot() returns.
Return(r) ==
  /\ Complete(r)
  /\ last' = [last EXCEPT ![r] = read[r]]
  /\ read' = [read EXCEPT ![r] = Nothing]
  /\ base' = [base EXCEPT ![r] = Zero]
  /\ UNCHANGED <<stats, todo, received>>

Next ==
  \/ \E t \in Task : \/ \E s \in Counts(t) : Receive(t, s)
                     \/ \E c \in todo[t] : FetchAdd(t, c)
  \/ \E r \in Reader : \/ Begin(r)
                       \/ \E c \in Counted : Load(r, c)
                       \/ Return(r)

Spec == Init /\ [][Next]_vars

-----------------------------------------------------------------------------
(* Properties *)

\* Pointwise order of two sets of counters.
Leq(a, b) == \A c \in Counter : a[c] <= b[c]

\* The types of the variables; a snapshot has a value for every counter.
TypeOK ==
  /\ stats \in [Counter -> Nat] /\ received \in 0..MaxReceived
  /\ todo \in [Task -> SUBSET Counted]
  /\ base \in [Reader -> [Counter -> Nat]]
  /\ last \in [Reader -> [Counter -> Nat]]
  /\ read \in [Reader -> [Counter -> Nat \cup {NotLoaded}]]

\* A snapshot lies between the counters at its beginning and the counters
\* now, whatever is counted meanwhile: if nothing is, then it is exact.
SnapshotBracketed ==
  \A r \in Reader :
    /\ Leq(last[r], stats)
    /\ \A c \in Counter : read[r][c] # NotLoaded =>
         base[r][c] <= read[r][c] /\ read[r][c] <= stats[c]

\* How far a snapshot can contradict itself: it shows no more packets
\* forwarded and refused than received, but for those that were received
\* while it was taken and one for every task.
SkewBound ==
  \A r \in Reader : Complete(r) =>
    read[r]["packets_forwarded"] + read[r]["packets_dropped_spoof"]
      <= read[r]["packets_received"] + Cardinality(Task)
           + (stats["packets_received"] - base[r]["packets_received"])

\* The snapshots that one caller gets never go back.
SnapshotsMonotone == [][\A r \in Reader : Leq(last[r], last'[r])]_vars
=============================================================================
