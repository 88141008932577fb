------------------------------ MODULE DpdCache ------------------------------
(***************************************************************************)
(* The duplicate packet detection cache of src/src/smf/dpd.rs: threads     *)
(* that call check_and_insert, the background eviction task, and clear.    *)
(* The cache is a DashMap: each access locks one shard, so an operation on *)
(* one key is atomic, but check_and_insert makes two of them, and retain   *)
(* and clear go through the map shard by shard.                            *)
(*                                                                         *)
(* Time is counted in ticks.  A call, a due eviction and a sweep of the    *)
(* map each take at most MaxDelay ticks (the clock waits for them); with   *)
(* MaxDelay = 0 they are instantaneous.                                    *)
(***************************************************************************)
EXTENDS Integers, FiniteSets

CONSTANTS
  Thread,     \* the threads that call check_and_insert
  Key,        \* DpdKey
  Ttl,        \* TTL values
  Interval,   \* a quarter of the window, the interval of the eviction task
  OneSecond,  \* Duration::from_secs(1)
  MaxDelay,   \* bound on how long an operation is suspended
  MaxClock,   \* bound on the clock
  NoEntry     \* no entry for a key

\* DpdCache::window; spawn_eviction_task divides it by 4.
Window == 4 * Interval

ASSUME DpdAssumption ==
  /\ IsFiniteSet(Thread)
  /\ Ttl \subseteq Nat
  /\ Interval \in Nat \ {0}
  /\ OneSecond \in Nat
  /\ MaxDelay \in Nat /\ MaxDelay <= Window
  /\ MaxClock \in Nat
  /\ NoEntry \notin [first_seen : Nat, ttl : Ttl]

VARIABLES
  clock,      \* Instant::now()
  map,        \* map[k]: the DpdEntry of key k, or NoEntry
  at,         \* at[t]: where thread t is in check_and_insert
  arg,        \* arg[t]: its arguments, and `now', read on entry
  nextTick,   \* when the interval of the eviction task fires next
  cutoff,     \* cutoff of the running sweep
  sweepStart, \* when the running sweep began
  toSweep,    \* the keys that the running sweep has still to visit
  toClear,    \* the keys that a running clear() has still to visit
  accepts,    \* history: accepts[k][x]: Ok(true)s for k with TTL x ...
  inserts,    \* history: ... and insertions of k, since k was last removed
  lastNow     \* history: lastNow[k]: latest `now' of those Ok(true)s

cacheVars == <<map, accepts, inserts, lastNow>>
callVars == <<at, arg>>
sweepVars == <<nextTick, cutoff, sweepStart, toSweep>>
vars == <<clock, cacheVars, callVars, sweepVars, toClear>>

DpdEntry == [first_seen : Nat, ttl : Ttl]
Call == [key : Key, ttl : Ttl, now : Nat]
NoCall == [now |-> 0]

Present(k) == map[k] # NoEntry

Init ==
  /\ clock = 0
  /\ map = [k \in Key |-> NoEntry]
  /\ at = [t \in Thread |-> "idle"]
  /\ arg = [t \in Thread |-> NoCall]
  /\ nextTick = 0
  /\ cutoff = 0
  /\ sweepStart = 0
  /\ toSweep = {}
  /\ toClear = {}
  /\ accepts = [k \in Key |-> [x \in Ttl |-> 0]]
  /\ inserts = [k \in Key |-> 0]
  /\ lastNow = [k \in Key |-> 0]

-----------------------------------------------------------------------------
(* check_and_insert *)

\* The call begins: `now' is read before the map is looked at.
Begin(t, k, x) ==
  /\ at[t] = "idle"
  /\ at' = [at EXCEPT ![t] = "look"]
  /\ arg' = [arg EXCEPT ![t] = [key |-> k, ttl |-> x, now |-> clock]]
  /\ UNCHANGED <<clock, cacheVars, sweepVars, toClear>>

End(t) ==
  /\ at' = [at EXCEPT ![t] = "idle"]
  /\ arg' = [arg EXCEPT ![t] = NoCall]

Latest(a, b) == IF a >= b THEN a ELSE b

\* The call of thread t returns Ok(true) and leaves its TTL in the entry.
Accept(t) ==
  LET c == arg[t] IN
  /\ map' = [map EXCEPT ![c.key] = [first_seen |-> c.now, ttl |-> c.ttl]]
  /\ accepts' = [accepts EXCEPT ![c.key][c.ttl] = @ + 1]
  /\ lastNow' = [lastNow EXCEPT ![c.key] = Latest(@, c.now)]
  /\ End(t)

\* get_mut finds no entry; the shard is unlocked again.
Miss(t) ==
  /\ at[t] = "look"
  /\ ~Present(arg[t].key)
  /\ at' = [at EXCEPT ![t] = "insert"]
  /\ UNCHANGED <<clock, cacheVars, arg, sweepVars, toClear>>

\* A plausible slip: a duplicate is taken for a larger TTL.
RaiseOrEqual(t) ==
  /\ at[t] = "look"
  /\ Present(arg[t].key) /\ map[arg[t].key].ttl <= arg[t].ttl
  /\ Accept(t)
  /\ UNCHANGED <<clock, inserts, sweepVars, toClear>>

\* get_mut finds an entry with a smaller TTL: Ok(true).
Raise(t) ==
  /\ at[t] = "look"
  /\ Present(arg[t].key) /\ map[arg[t].key].ttl < arg[t].ttl
  /\ Accept(t)
  /\ UNCHANGED <<clock, inserts, sweepVars, toClear>>

\* get_mut finds an entry with the same or a larger TTL: Ok(false) or
\* Err(DpdStalePacket), and the entry stays as it is.
Reject(t) ==
  /\ at[t] = "look"
  /\ Present(arg[t].key) /\ map[arg[t].key].ttl >= arg[t].ttl
  /\ End(t)
  /\ UNCHANGED <<clock, cacheVars, sweepVars, toClear>>

\* insert, after a miss: Ok(true), whatever the map holds by now.
Insert(t) ==
  /\ at[t] = "insert"
  /\ Accept(t)
  /\ inserts' = [inserts EXCEPT ![arg[t].key] = @ + 1]
  /\ UNCHANGED <<clock, sweepVars, toClear>>

-----------------------------------------------------------------------------
(* evict_expired, run by the task of spawn_eviction_task, and clear. *)

EvictionEnabled == Interval >= OneSecond

\* A plausible slip: a tombstone is left behind.
RemoveTombstone(k) ==
  /\ map' = [map EXCEPT ![k] = [first_seen |-> 0, ttl |-> 0]]
  /\ UNCHANGED <<accepts, inserts, lastNow>>

\* Key k leaves the map.
Remove(k) ==
  /\ map' = [map EXCEPT ![k] = NoEntry]
  /\ accepts' = [accepts EXCEPT ![k] = [x \in Ttl |-> 0]]
  /\ inserts' = [inserts EXCEPT ![k] = 0]
  /\ lastNow' = [lastNow EXCEPT ![k] = 0]

\* A plausible slip: the cutoff is one interval, not one window, ago.
CutoffOneInterval(now) == now - Interval

Cutoff(now) == now - Window

\* The interval fires.
SweepBegin ==
  /\ EvictionEnabled
  /\ toSweep = {} /\ clock >= nextTick
  /\ nextTick' = nextTick + Interval
  /\ cutoff' = Cutoff(clock)
  /\ sweepStart' = clock
  /\ toSweep' = Key
  /\ UNCHANGED <<clock, cacheVars, callVars, toClear>>

\* A plausible slip: only entries that were due at the last sweep are dropped.
ExpiredLate(e) == e.first_seen + 2 * Interval <= cutoff

\* retain keeps an entry if it was first seen after the cutoff.
Expired(e) == ~(e.first_seen > cutoff)

\* retain visits key k.
SweepKey(k) ==
  /\ k \in toSweep
  /\ toSweep' = toSweep \ {k}
  /\ IF Present(k) /\ Expired(map[k]) THEN Remove(k) ELSE UNCHANGED cacheVars
  /\ UNCHANGED <<clock, callVars, nextTick, cutoff, sweepStart, toClear>>

ClearBegin ==
  /\ toClear = {}
  /\ toClear' = Key
  /\ UNCHANGED <<clock, cacheVars, callVars, sweepVars>>

ClearKey(k) ==
  /\ k \in toClear
  /\ toClear' = toClear \ {k}
  /\ Remove(k)
  /\ UNCHANGED <<clock, callVars, sweepVars>>

-----------------------------------------------------------------------------
\* Time passes, but no further than MaxDelay past the moment at which a call
\* began, an eviction was due, or a sweep began.
Tick ==
  /\ clock < MaxClock
  /\ \A t \in Thread : at[t] # "idle" => clock < arg[t].now + MaxDelay
  /\ EvictionEnabled => clock < nextTick + MaxDelay
  /\ toSweep # {} => clock < sweepStart + MaxDelay
  /\ clock' = clock + 1
  /\ UNCHANGED <<cacheVars, callVars, sweepVars, toClear>>

ThreadStep(t) ==
  \/ \E k \in Key, x \in Ttl : Begin(t, k, x)
  \/ Miss(t) \/ Raise(t) \/ Reject(t) \/ Insert(t)

Next ==
  \/ \E t \in Thread : ThreadStep(t)
  \/ SweepBegin
  \/ \E k \in Key : SweepKey(k)
  \/ ClearBegin
  \/ \E k \in Key : ClearKey(k)
  \/ Tick

Spec == Init /\ [][Next]_vars

-----------------------------------------------------------------------------
(* Properties *)

\* The types of the variables.
TypeOK ==
  /\ clock \in Nat
  /\ map \in [Key -> DpdEntry \cup {NoEntry}]
  /\ at \in [Thread -> {"idle", "look", "insert"}]
  /\ arg \in [Thread -> Call \cup {NoCall}]
  /\ \A t \in Thread : at[t] # "idle" => arg[t] \in Call
  /\ nextTick \in Nat /\ cutoff \in Int /\ sweepStart \in Nat
  /\ toSweep \subseteq Key /\ toClear \subseteq Key
  /\ accepts \in [Key -> [Ttl -> Nat]]
  /\ inserts \in [Key -> Nat]
  /\ lastNow \in [Key -> Nat]

\* The race between the look-up and the insertion of check_and_insert is
\* bounded: while a key stays in the cache, a packet (a key with a TTL) is
\* taken for new at most once for every thread, although a late insertion may
\* also lower the cached TTL and so let a larger one through again.
AcceptBound ==
  \A k \in Key, x \in Ttl : accepts[k][x] <= Cardinality(Thread)

\* An entry does not outlive its window by more than one interval of the
\* eviction task and the delays of the task: the window is enforced although
\* check_and_insert never looks at the age of an entry.
ExpiryBound ==
  \A k \in Key :
    Present(k) => clock < map[k].first_seen + Window + Interval + 2 * MaxDelay

\* The eviction task does not forget a packet early: no packet of the key was
\* taken for new within the last window (less the delay of a call, since a
\* late insertion writes back an old time stamp).
NotForgottenEarly ==
  [][\A k \in Key : Present(k) /\ ~Present(k)' /\ toClear' = toClear =>
       clock + MaxDelay >= lastNow[k] + Window]_vars
=============================================================================
