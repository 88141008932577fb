--------------------------- MODULE DpdCache_proofs ---------------------------
(***************************************************************************)
(* Proofs about DpdCache, for any number of threads, keys and TTLs and any *)
(* window: type correctness, the bound on the number of times that a       *)
(* packet is taken for new, and how long a packet is remembered at least   *)
(* and at most.                                                            *)
(***************************************************************************)
EXTENDS DpdCache, FiniteSetTheorems, TLAPS

\* Incrementing one of the counters of a row of `accepts' keeps its type.
LEMMA IncrementType ==
  ASSUME NEW S, NEW f \in [S -> Nat], NEW s \in S
  PROVE  [f EXCEPT ![s] = @ + 1] \in [S -> Nat]
  OBVIOUS

\* The types of the variables of the cache, its callers and its sweeps are
\* preserved by every step of dpd.rs.
THEOREM TypeCorrect == Spec => []TypeOK
<1>1. Init => TypeOK
  BY DpdAssumption DEF Init, TypeOK, NoCall, Call, DpdEntry
<1>2. TypeOK /\ [Next]_vars => TypeOK'
  <2> SUFFICES ASSUME TypeOK, [Next]_vars PROVE TypeOK'
    OBVIOUS
  <2> USE DpdAssumption DEF TypeOK, DpdEntry, Call
  <2>1. ASSUME NEW t \in Thread, NEW k \in Key, NEW x \in Ttl, Begin(t, k, x)
        PROVE  TypeOK'
    BY <2>1 DEF Begin, cacheVars, sweepVars
  <2>2. ASSUME NEW t \in Thread, Miss(t) PROVE TypeOK'
    BY <2>2 DEF Miss, cacheVars, sweepVars
  <2>3. ASSUME NEW t \in Thread, Raise(t) \/ Insert(t) PROVE TypeOK'
    <3>1. Accept(t) /\ at[t] # "idle" /\ UNCHANGED <<clock, sweepVars, toClear>>
      BY <2>3 DEF Raise, Insert
    <3>2. arg[t] \in [key : Key, ttl : Ttl, now : Nat]
      BY <3>1
    <3>3. /\ map' \in [Key -> DpdEntry \cup {NoEntry}]
          /\ lastNow' \in [Key -> Nat]
      BY <3>1, <3>2 DEF Accept, Latest
    <3>4. accepts' \in [Key -> [Ttl -> Nat]]
      <4> DEFINE row == accepts[arg[t].key]
                 row2 == [row EXCEPT ![arg[t].ttl] = @ + 1]
      <4>1. row \in [Ttl -> Nat]
        BY <3>2
      <4>2. row2 \in [Ttl -> Nat]
        BY <4>1, <3>2, IncrementType
      <4>3. accepts' = [accepts EXCEPT ![arg[t].key] = row2]
        BY <3>1 DEF Accept
      <4> QED
        BY <4>2, <4>3, <3>2
    <3>5. inserts' \in [Key -> Nat]
      BY <2>3, <3>2 DEF Raise, Insert
    <3>6. /\ at' \in [Thread -> {"idle", "look", "insert"}]
          /\ arg' \in [Thread -> Call \cup {NoCall}]
          /\ \A u \in Thread : at'[u] # "idle" => arg'[u] \in Call
      BY <3>1 DEF Accept, End
    <3> QED
      BY <3>1, <3>3, <3>4, <3>5, <3>6 DEF sweepVars
  <2>4. ASSUME NEW t \in Thread, Reject(t) PROVE TypeOK'
    BY <2>4 DEF Reject, End, NoCall, cacheVars, sweepVars
  <2>5. CASE SweepBegin
    BY <2>5 DEF SweepBegin, Cutoff, Window, cacheVars, callVars
  <2>6. ASSUME NEW k \in Key, SweepKey(k) PROVE TypeOK'
    <3>1. CASE Remove(k)
      BY <2>6, <3>1 DEF SweepKey, Remove, callVars
    <3>2. CASE UNCHANGED cacheVars
      BY <2>6, <3>2 DEF SweepKey, cacheVars, callVars
    <3> QED
      BY <2>6, <3>1, <3>2 DEF SweepKey
  <2>7. CASE ClearBegin
    BY <2>7 DEF ClearBegin, cacheVars, callVars, sweepVars
  <2>8. ASSUME NEW k \in Key, ClearKey(k) PROVE TypeOK'
    BY <2>8 DEF ClearKey, Remove, callVars, sweepVars
  <2>9. CASE Tick
    BY <2>9 DEF Tick, cacheVars, callVars, sweepVars
  <2>10. CASE UNCHANGED vars
    BY <2>10 DEF vars, cacheVars, callVars, sweepVars
  <2> QED
    BY <2>1, <2>2, <2>3, <2>4, <2>5, <2>6, <2>7, <2>8, <2>9, <2>10
       DEF Next, ThreadStep
<1> QED
  BY <1>1, <1>2, PTL DEF Spec

-----------------------------------------------------------------------------
\* The threads that have missed key k and are about to insert it.
Pending(k) == {t \in Thread : at[t] = "insert" /\ arg[t].key = k}

\* While key k is absent, nothing has been accepted for it.  While it is
\* present, every insertion still to come is by a thread that missed it
\* before, so insertions made and to come are no more than the threads; and a
\* TTL was accepted no more often than the key was inserted, even less if it
\* is above the cached TTL, so that raising the TTL keeps the bound.
KeyInv(k) ==
  /\ ~Present(k) => inserts[k] = 0 /\ \A x \in Ttl : accepts[k][x] = 0
  /\ Present(k) =>
       /\ inserts[k] + Cardinality(Pending(k)) <= Cardinality(Thread)
       /\ \A x \in Ttl :
            /\ accepts[k][x] <= inserts[k]
            /\ map[k].ttl < x => accepts[k][x] < inserts[k]

AcceptInv == \A k \in Key : KeyInv(k)

\* The set of pending threads of a key is finite and no larger than Thread.
LEMMA PendingFinite ==
  ASSUME NEW k
  PROVE  /\ IsFiniteSet(Pending(k))
         /\ Cardinality(Pending(k)) \in Nat
         /\ Cardinality(Thread) \in Nat
         /\ Cardinality(Pending(k)) <= Cardinality(Thread)
  <1>1. Pending(k) \in SUBSET Thread
    BY DEF Pending
  <1> QED
    BY <1>1, DpdAssumption, FS_Subset, FS_CardinalityType

\* What KeyInv says of a key is not disturbed by a step that leaves its entry,
\* its counters and its pending threads alone.
LEMMA KeyInvStable ==
  ASSUME NEW k, KeyInv(k), map'[k] = map[k], accepts'[k] = accepts[k],
         inserts'[k] = inserts[k], Pending(k)' = Pending(k)
  PROVE  KeyInv(k)'
  BY DEF KeyInv, Present

\* A key that has just been removed satisfies KeyInv.
LEMMA KeyInvRemoved ==
  ASSUME NEW k \in Key, TypeOK, Remove(k)
  PROVE  KeyInv(k)'
  BY DEF KeyInv, Present, Remove, TypeOK

\* A call that finds a smaller TTL keeps KeyInv for its key.
LEMMA KeyInvRaise ==
  ASSUME NEW t \in Thread, NEW k \in Key, NEW y \in Ttl,
         arg[t].key = k, arg[t].ttl = y, TypeOK, KeyInv(k), Raise(t)
  PROVE  KeyInv(k)'
<1>1. arg[t].now \in Nat /\ Ttl \subseteq Nat
  BY DpdAssumption DEF Raise, TypeOK, Call
<1>2. Present(k) /\ map[k].ttl < y /\ map[k].ttl \in Nat
  BY <1>1 DEF Raise, TypeOK, DpdEntry, Present
<1>3. Pending(k)' = Pending(k)
  BY DEF Raise, Accept, End, Pending, TypeOK
<1>4. map'[k] = [first_seen |-> arg[t].now, ttl |-> y] /\ inserts'[k] = inserts[k]
  BY <1>1 DEF Raise, Accept, TypeOK
<1>5. accepts'[k] = [accepts[k] EXCEPT ![y] = @ + 1] /\ accepts[k] \in [Ttl -> Nat]
  BY <1>1 DEF Raise, Accept, TypeOK
<1>6. Present(k)' /\ map'[k].ttl = y
  BY <1>1, <1>4, DpdAssumption DEF Present, DpdEntry
<1>7. inserts[k] \in Nat
  BY <1>1 DEF TypeOK
<1>8. ASSUME NEW x \in Ttl
      PROVE  /\ accepts'[k][x] <= inserts[k]
             /\ y < x => accepts'[k][x] < inserts[k]
  BY <1>1, <1>2, <1>5, <1>7 DEF KeyInv
<1> QED
  BY <1>2, <1>3, <1>4, <1>6, <1>8 DEF KeyInv

\* A late insertion keeps KeyInv for its key.
LEMMA KeyInvInsert ==
  ASSUME NEW t \in Thread, NEW k \in Key, NEW y \in Ttl,
         arg[t].key = k, arg[t].ttl = y, TypeOK, KeyInv(k), Insert(t)
  PROVE  KeyInv(k)'
<1>1. arg[t].now \in Nat /\ Ttl \subseteq Nat
  BY DpdAssumption DEF Insert, TypeOK, Call
<1>2. t \in Pending(k) /\ Pending(k)' = Pending(k) \ {t}
  BY DEF Insert, Accept, End, Pending, TypeOK
<1>3. Cardinality(Pending(k)') = Cardinality(Pending(k)) - 1
  BY <1>2, PendingFinite, FS_RemoveElement
<1>4. map'[k] = [first_seen |-> arg[t].now, ttl |-> y] /\ inserts'[k] = inserts[k] + 1
  BY <1>1 DEF Insert, Accept, TypeOK
<1>5. accepts'[k] = [accepts[k] EXCEPT ![y] = @ + 1] /\ accepts[k] \in [Ttl -> Nat]
  BY <1>1 DEF Insert, Accept, TypeOK
<1>6. Present(k)' /\ map'[k].ttl = y
  BY <1>1, <1>4, DpdAssumption DEF Present, DpdEntry
<1>7. inserts[k] \in Nat /\ inserts[k] + Cardinality(Pending(k)) <= Cardinality(Thread)
  BY <1>1, PendingFinite DEF TypeOK, KeyInv
<1>8. ASSUME NEW x \in Ttl
      PROVE  /\ accepts'[k][x] <= inserts[k] + 1
             /\ y < x => accepts'[k][x] < inserts[k] + 1
  <2>1. accepts[k][x] \in Nat /\ accepts[k][x] <= inserts[k]
    BY <1>5, <1>7 DEF KeyInv
  <2> QED
    BY <1>1, <1>5, <1>7, <2>1
<1>9. inserts'[k] + Cardinality(Pending(k)') <= Cardinality(Thread)
  BY <1>3, <1>4, <1>7, PendingFinite
<1> QED
  BY <1>4, <1>6, <1>8, <1>9 DEF KeyInv

\* Every step of dpd.rs preserves the inductive invariant.
LEMMA AcceptInvStep ==
  ASSUME TypeOK, AcceptInv, [Next]_vars
  PROVE  AcceptInv'
<1> SUFFICES ASSUME NEW k \in Key PROVE KeyInv(k)'
  BY DEF AcceptInv
<1>0. KeyInv(k)
  BY DEF AcceptInv
<1>1. ASSUME NEW t \in Thread, NEW j \in Key, NEW x \in Ttl, Begin(t, j, x)
      PROVE  KeyInv(k)'
  <2>1. Pending(k)' = Pending(k)
    BY <1>1 DEF Begin, Pending, TypeOK
  <2> QED
    BY <1>0, <1>1, <2>1, KeyInvStable DEF Begin, cacheVars
<1>2. ASSUME NEW t \in Thread, Miss(t) PROVE KeyInv(k)'
  <2>1. CASE arg[t].key = k
    BY <1>0, <1>2, <2>1 DEF Miss, KeyInv, Present, cacheVars
  <2>2. CASE arg[t].key # k
    <3>1. Pending(k)' = Pending(k)
      BY <1>2, <2>2 DEF Miss, Pending, TypeOK
    <3> QED
      BY <1>0, <1>2, <3>1, KeyInvStable DEF Miss, cacheVars
  <2> QED
    BY <2>1, <2>2
<1>3. ASSUME NEW t \in Thread, Raise(t) PROVE KeyInv(k)'
  <2>1. arg[t] \in [key : Key, ttl : Ttl, now : Nat]
    BY <1>3 DEF Raise, TypeOK, Call
  <2>2. CASE arg[t].key = k
    BY <1>0, <1>3, <2>1, <2>2, KeyInvRaise
  <2>3. CASE arg[t].key # k
    <3>1. Pending(k)' = Pending(k)
      BY <1>3, <2>3 DEF Raise, Accept, End, Pending, TypeOK
    <3> QED
      BY <1>0, <1>3, <2>1, <2>3, <3>1, KeyInvStable DEF Raise, Accept, TypeOK
  <2> QED
    BY <2>2, <2>3
<1>4. ASSUME NEW t \in Thread, Insert(t) PROVE KeyInv(k)'
  <2>1. arg[t] \in [key : Key, ttl : Ttl, now : Nat]
    BY <1>4 DEF Insert, TypeOK, Call
  <2>2. CASE arg[t].key = k
    BY <1>0, <1>4, <2>1, <2>2, KeyInvInsert
  <2>3. CASE arg[t].key # k
    <3>1. Pending(k)' = Pending(k)
      BY <1>4, <2>3 DEF Insert, Accept, End, Pending, TypeOK
    <3> QED
      BY <1>0, <1>4, <2>1, <2>3, <3>1, KeyInvStable DEF Insert, Accept, TypeOK
  <2> QED
    BY <2>2, <2>3
<1>5. ASSUME NEW t \in Thread, Reject(t) PROVE KeyInv(k)'
  <2>1. Pending(k)' = Pending(k)
    BY <1>5 DEF Reject, End, Pending, TypeOK
  <2> QED
    BY <1>0, <1>5, <2>1, KeyInvStable DEF Reject, cacheVars
<1>6. ASSUME UNCHANGED <<cacheVars, callVars>> PROVE KeyInv(k)'
  BY <1>0, <1>6 DEF KeyInv, Present, Pending, cacheVars, callVars
<1>7. ASSUME NEW j \in Key, Remove(j), UNCHANGED callVars PROVE KeyInv(k)'
  <2>1. CASE j = k
    BY <1>7, <2>1, KeyInvRemoved
  <2>2. CASE j # k
    <3>1. Pending(k)' = Pending(k)
      BY <1>7 DEF Pending, callVars
    <3> QED
      BY <1>0, <1>7, <2>2, <3>1, KeyInvStable DEF Remove, TypeOK
  <2> QED
    BY <2>1, <2>2
<1>8. ASSUME NEW j \in Key, SweepKey(j) PROVE KeyInv(k)'
  BY <1>6, <1>7, <1>8 DEF SweepKey, cacheVars, callVars
<1>9. ASSUME NEW j \in Key, ClearKey(j) PROVE KeyInv(k)'
  BY <1>7, <1>9 DEF ClearKey
<1>10. CASE SweepBegin \/ ClearBegin \/ Tick \/ UNCHANGED vars
  <2>1. UNCHANGED <<cacheVars, callVars>>
    BY <1>10 DEF SweepBegin, ClearBegin, Tick, vars
  <2> QED
    BY <1>6, <2>1
<1> QED
  BY <1>1, <1>2, <1>3, <1>4, <1>5, <1>8, <1>9, <1>10 DEF Next, ThreadStep

\* For every number of threads, keys and TTLs: between two removals of a key,
\* a packet is taken for new no more often than there are threads calling
\* check_and_insert; with one thread, exactly as its doc comment says.
THEOREM AcceptBounded == Spec => []AcceptBound
<1>1. Init => AcceptInv
  BY DEF Init, AcceptInv, KeyInv, Present
<1>2. TypeOK /\ AcceptInv => AcceptBound
  <2> SUFFICES ASSUME TypeOK, AcceptInv, NEW k \in Key, NEW x \in Ttl
               PROVE  accepts[k][x] <= Cardinality(Thread)
    BY DEF AcceptBound
  <2>1. accepts[k][x] \in Nat /\ inserts[k] \in Nat
    BY DEF TypeOK
  <2>2. KeyInv(k)
    BY DEF AcceptInv
  <2> QED
    BY <2>1, <2>2, PendingFinite DEF KeyInv
<1> QED
  BY <1>1, <1>2, TypeCorrect, AcceptInvStep, PTL DEF Spec

-----------------------------------------------------------------------------
(* The window *)

\* A call in progress read the clock at most MaxDelay ago.
CallTimed(t) ==
  at[t] # "idle" => arg[t].now <= clock /\ clock <= arg[t].now + MaxDelay

\* Nothing was accepted in the future, and the time stamp in an entry is at
\* most MaxDelay older than the youngest packet accepted for its key.
KeyTimed(k) ==
  /\ lastNow[k] <= clock
  /\ Present(k) => lastNow[k] <= map[k].first_seen + MaxDelay

\* The running sweep removes what is older than a window.
SweepTimed ==
  /\ sweepStart <= clock
  /\ toSweep # {} => cutoff = sweepStart - Window

TimeInv ==
  /\ \A t \in Thread : CallTimed(t)
  /\ \A k \in Key : KeyTimed(k)
  /\ SweepTimed

\* A thread that accepts a packet stamps its entry and leaves the others.
LEMMA AcceptFrame ==
  ASSUME TypeOK, NEW t \in Thread, at[t] # "idle", Accept(t)
  PROVE  /\ arg[t].key \in Key /\ arg[t].now \in Nat
         /\ map'[arg[t].key].first_seen = arg[t].now
         /\ map'[arg[t].key] # NoEntry
         /\ lastNow'[arg[t].key] = Latest(lastNow[arg[t].key], arg[t].now)
         /\ \A k \in Key \ {arg[t].key} :
              map'[k] = map[k] /\ lastNow'[k] = lastNow[k]
         /\ at'[t] = "idle"
         /\ \A u \in Thread \ {t} : at'[u] = at[u] /\ arg'[u] = arg[u]
<1>1. arg[t] \in [key : Key, ttl : Ttl, now : Nat]
  BY DEF TypeOK, Call
<1>2. map'[arg[t].key] = [first_seen |-> arg[t].now, ttl |-> arg[t].ttl]
  BY <1>1 DEF Accept, TypeOK
<1>3. map'[arg[t].key] # NoEntry
  BY <1>1, <1>2, DpdAssumption
<1> QED
  BY <1>1, <1>2, <1>3 DEF Accept, End, TypeOK

\* Every step keeps TimeInv.
LEMMA TimeInvStep ==
  ASSUME TypeOK, TimeInv, [Next]_vars
  PROVE  TimeInv'
<1> USE DpdAssumption
<1>0. /\ clock \in Nat /\ MaxDelay \in Nat /\ sweepStart \in Nat
      /\ \A k \in Key : lastNow[k] \in Nat
  BY DEF TypeOK
<1>1. ASSUME NEW t \in Thread, NEW j \in Key, NEW x \in Ttl, Begin(t, j, x)
      PROVE  TimeInv'
  <2>1. \A u \in Thread : CallTimed(u)'
    <3> SUFFICES ASSUME NEW u \in Thread PROVE CallTimed(u)'
      OBVIOUS
    <3>1. CASE u = t
      <4>1. arg'[t] = [key |-> j, ttl |-> x, now |-> clock] /\ clock' = clock
        BY <1>1 DEF Begin, TypeOK
      <4> QED
        BY <1>0, <3>1, <4>1 DEF CallTimed
    <3>2. CASE u # t
      BY <1>1, <3>2 DEF Begin, TypeOK, TimeInv, CallTimed
    <3> QED
      BY <3>1, <3>2
  <2> QED
    BY <1>1, <2>1 DEF Begin, cacheVars, sweepVars, TimeInv, KeyTimed, SweepTimed, Present
<1>2. ASSUME NEW t \in Thread, Miss(t) PROVE TimeInv'
  <2>1. \A u \in Thread : at'[u] # "idle" => at[u] # "idle"
    BY <1>2 DEF Miss, TypeOK
  <2> QED
    BY <1>2, <2>1 DEF Miss, cacheVars, sweepVars, TimeInv, CallTimed, KeyTimed,
                      SweepTimed, Present
<1>3. ASSUME NEW t \in Thread, Raise(t) \/ Insert(t) PROVE TimeInv'
  <2>1. Accept(t) /\ at[t] # "idle" /\ UNCHANGED <<clock, sweepVars, toClear>>
    BY <1>3 DEF Raise, Insert
  <2>2. CallTimed(t)
    BY DEF TimeInv
  <2>3. \A u \in Thread : CallTimed(u)'
    BY <2>1, AcceptFrame DEF TimeInv, CallTimed
  <2>4. ASSUME NEW k \in Key PROVE KeyTimed(k)'
    <3>0. KeyTimed(k)
      BY DEF TimeInv
    <3>1. CASE k = arg[t].key
      <4>1. /\ map'[k].first_seen = arg[t].now /\ arg[t].now \in Nat
            /\ lastNow'[k] = Latest(lastNow[k], arg[t].now)
            /\ clock' = clock
        BY <2>1, <3>1, AcceptFrame
      <4>2. arg[t].now <= clock /\ clock <= arg[t].now + MaxDelay
        BY <2>1, <2>2 DEF CallTimed
      <4>3. lastNow'[k] <= clock
        BY <1>0, <3>0, <4>1, <4>2 DEF Latest, KeyTimed
      <4>4. lastNow'[k] \in Nat
        BY <1>0, <4>1 DEF Latest
      <4> QED
        BY <1>0, <4>1, <4>2, <4>3, <4>4 DEF KeyTimed
    <3>2. CASE k # arg[t].key
      BY <2>1, <3>0, <3>2, AcceptFrame DEF KeyTimed, Present
    <3> QED
      BY <3>1, <3>2
  <2> QED
    BY <2>1, <2>3, <2>4 DEF TimeInv, SweepTimed, sweepVars
<1>4. ASSUME NEW t \in Thread, Reject(t) PROVE TimeInv'
  <2>1. /\ at'[t] = "idle"
        /\ \A u \in Thread \ {t} : at'[u] = at[u] /\ arg'[u] = arg[u]
    BY <1>4 DEF Reject, End, TypeOK
  <2> QED
    BY <1>4, <2>1 DEF Reject, cacheVars, sweepVars, TimeInv, CallTimed, KeyTimed,
                      SweepTimed, Present
<1>5. CASE SweepBegin
  <2>1. clock' = clock /\ sweepStart' = clock /\ cutoff' = clock - Window
    BY <1>5 DEF SweepBegin, Cutoff
  <2>2. SweepTimed'
    BY <1>0, <2>1 DEF SweepTimed
  <2> QED
    BY <1>5, <2>2 DEF SweepBegin, cacheVars, callVars, TimeInv, CallTimed,
                      KeyTimed, Present
<1>6. ASSUME NEW j \in Key, Remove(j), UNCHANGED <<clock, callVars>>, SweepTimed'
      PROVE  TimeInv'
  <2>1. ASSUME NEW k \in Key PROVE KeyTimed(k)'
    <3>1. CASE k = j
      BY <1>0, <1>6, <3>1 DEF Remove, TypeOK, KeyTimed, Present
    <3>2. CASE k # j
      BY <1>6, <3>2 DEF Remove, TypeOK, TimeInv, KeyTimed, Present
    <3> QED
      BY <3>1, <3>2
  <2> QED
    BY <1>6, <2>1 DEF callVars, TimeInv, CallTimed
<1>7. ASSUME NEW j \in Key, SweepKey(j) PROVE TimeInv'
  <2>1. SweepTimed' /\ UNCHANGED <<clock, callVars>>
    BY <1>7 DEF SweepKey, TimeInv, SweepTimed
  <2>2. CASE UNCHANGED cacheVars
    BY <2>1, <2>2 DEF cacheVars, callVars, TimeInv, CallTimed, KeyTimed, Present
  <2> QED
    BY <1>6, <1>7, <2>1, <2>2 DEF SweepKey
<1>8. ASSUME NEW j \in Key, ClearKey(j) PROVE TimeInv'
  <2>1. SweepTimed' /\ UNCHANGED <<clock, callVars>>
    BY <1>8 DEF ClearKey, TimeInv, SweepTimed, sweepVars
  <2> QED
    BY <1>6, <1>8, <2>1 DEF ClearKey
<1>9. CASE Tick
  <2>1. /\ clock' = clock + 1 /\ UNCHANGED <<cacheVars, callVars, sweepVars>>
        /\ \A t \in Thread : at[t] # "idle" => clock < arg[t].now + MaxDelay
    BY <1>9 DEF Tick
  <2>2. ASSUME NEW t \in Thread PROVE CallTimed(t)'
    <3>1. at[t] # "idle" => arg[t].now \in Nat
      BY DEF TypeOK, Call
    <3> QED
      BY <1>0, <2>1, <3>1 DEF callVars, TimeInv, CallTimed
  <2>3. ASSUME NEW k \in Key PROVE KeyTimed(k)'
    BY <1>0, <2>1 DEF cacheVars, TimeInv, KeyTimed, Present
  <2>4. SweepTimed'
    BY <1>0, <2>1 DEF sweepVars, TimeInv, SweepTimed
  <2> QED
    BY <2>2, <2>3, <2>4 DEF TimeInv
<1>10. CASE ClearBegin \/ UNCHANGED vars
  BY <1>10 DEF ClearBegin, vars, cacheVars, callVars, sweepVars, TimeInv, CallTimed,
               KeyTimed, SweepTimed, Present
<1> QED
  BY <1>1, <1>2, <1>3, <1>4, <1>5, <1>7, <1>8, <1>9, <1>10 DEF Next, ThreadStep

\* The eviction task never forgets a key of which a packet was accepted within
\* the last window, less the delay of one call; for any number of threads and
\* keys, whatever calls overlap the sweep.
THEOREM NeverForgottenEarly == Spec => NotForgottenEarly
<1>1. Init => TimeInv
  BY DpdAssumption DEF Init, TimeInv, CallTimed, KeyTimed, SweepTimed, Present
<1>2. TypeOK /\ TimeInv /\ [Next]_vars
        => [\A k \in Key : Present(k) /\ ~Present(k)' /\ toClear' = toClear =>
              clock + MaxDelay >= lastNow[k] + Window]_vars
  <2> SUFFICES ASSUME TypeOK, TimeInv, Next, NEW k \in Key,
                      Present(k), ~Present(k)', toClear' = toClear
               PROVE  clock + MaxDelay >= lastNow[k] + Window
    OBVIOUS
  <2>1. SweepKey(k) /\ Remove(k)
    <3>1. map'[k] # map[k]
      BY DEF Present
    <3>2. ASSUME NEW t \in Thread, ThreadStep(t) PROVE FALSE
      <4>1. CASE Raise(t) \/ Insert(t)
        <5>1. at[t] # "idle" /\ Accept(t)
          BY <4>1 DEF Raise, Insert
        <5>2. map'[k] # NoEntry
          BY <3>1, <5>1, AcceptFrame
        <5> QED
          BY <5>2 DEF Present
      <4> QED
        BY <3>1, <3>2, <4>1 DEF ThreadStep, Begin, Miss, Reject, cacheVars
    <3>3. ASSUME NEW j \in Key, ClearKey(j) PROVE FALSE
      BY <3>3 DEF ClearKey
    <3>4. ASSUME NEW j \in Key, SweepKey(j) PROVE j = k /\ Remove(k)
      BY <3>1, <3>4 DEF SweepKey, Remove, cacheVars, TypeOK
    <3>5. ~SweepBegin /\ ~ClearBegin /\ ~Tick
      BY <3>1 DEF SweepBegin, ClearBegin, Tick, cacheVars
    <3> QED
      BY <3>2, <3>3, <3>4, <3>5 DEF Next
  <2>2. map[k].first_seen \in Nat /\ lastNow[k] \in Nat /\ clock \in Nat
        /\ sweepStart \in Nat /\ Window \in Nat /\ MaxDelay \in Nat
    BY DpdAssumption DEF TypeOK, DpdEntry, Present, Window
  <2>3. map[k].first_seen <= cutoff /\ cutoff = sweepStart - Window
        /\ sweepStart <= clock
    <3>1. ~(map[k].first_seen > cutoff)
      <4>1. ~UNCHANGED cacheVars
        BY <2>1 DEF Remove, Present, cacheVars, TypeOK
      <4> QED
        BY <2>1, <4>1 DEF SweepKey, Expired
    <3>2. cutoff = sweepStart - Window /\ sweepStart <= clock
      BY <2>1 DEF SweepKey, TimeInv, SweepTimed
    <3> QED
      BY <2>2, <3>1, <3>2
  <2>4. lastNow[k] <= map[k].first_seen + MaxDelay
    BY DEF TimeInv, KeyTimed
  <2> QED
    BY <2>2, <2>3, <2>4
<1> QED
  BY <1>1, <1>2, TimeInvStep, TypeCorrect, PTL DEF Spec, NotForgottenEarly

\* The eviction task keeps up: the clock is at most MaxDelay past the next
\* tick, a tick follows the last sweep within one interval, and a running
\* sweep began at most MaxDelay after its tick and at most MaxDelay ago.
EvictionTimed ==
  /\ clock <= nextTick + MaxDelay
  /\ nextTick <= sweepStart + Interval
  /\ toSweep # {} => /\ sweepStart + Interval <= nextTick + MaxDelay
                     /\ clock <= sweepStart + MaxDelay

\* An entry that the last sweep has visited, or that was made since, was not
\* a window old when that sweep began; one that the running sweep has still to
\* visit was not a window old at the sweep before.
EntryFresh(k) ==
  Present(k) => IF k \in toSweep
                  THEN map[k].first_seen + 2 * Interval + Window > nextTick
                  ELSE map[k].first_seen + Window > sweepStart

ExpiryInv == EvictionTimed /\ \A k \in Key : EntryFresh(k)

\* Every step keeps ExpiryInv, if a call is shorter than the window.
LEMMA ExpiryInvStep ==
  ASSUME EvictionEnabled, MaxDelay < Window, TypeOK, TimeInv, ExpiryInv, [Next]_vars
  PROVE  ExpiryInv'
<1>0. /\ clock \in Nat /\ MaxDelay \in Nat /\ sweepStart \in Nat
      /\ nextTick \in Nat /\ Interval \in Nat \ {0} /\ Window \in Nat
      /\ sweepStart <= clock
  BY DpdAssumption DEF TypeOK, Window, TimeInv, SweepTimed
<1>1. \A k \in Key : Present(k) => map[k].first_seen \in Nat
  BY DEF TypeOK, DpdEntry, Present
<1>2. EvictionTimed
  BY DEF ExpiryInv
<1>3. ASSUME UNCHANGED <<clock, map, sweepVars>> PROVE ExpiryInv'
  BY <1>3 DEF ExpiryInv, EvictionTimed, EntryFresh, Present, sweepVars
<1>4. ASSUME NEW t \in Thread, Raise(t) \/ Insert(t) PROVE ExpiryInv'
  <2>1. Accept(t) /\ at[t] # "idle" /\ UNCHANGED <<clock, sweepVars>>
    BY <1>4 DEF Raise, Insert
  <2>2. clock <= arg[t].now + MaxDelay
    BY <2>1 DEF TimeInv, CallTimed
  <2>3. ASSUME NEW k \in Key PROVE EntryFresh(k)'
    <3>1. CASE k = arg[t].key
      <4>1. map'[k].first_seen = arg[t].now /\ arg[t].now \in Nat
        BY <2>1, <3>1, AcceptFrame
      <4>2. arg[t].now + Window > sweepStart
        BY <1>0, <2>2, <4>1
      <4>3. arg[t].now + 2 * Interval + Window > nextTick
        BY <1>0, <1>2, <4>1, <4>2 DEF EvictionTimed
      <4> QED
        BY <2>1, <4>1, <4>2, <4>3 DEF EntryFresh, sweepVars
    <3>2. CASE k # arg[t].key
      <4>1. map'[k] = map[k]
        BY <2>1, <3>2, AcceptFrame
      <4> QED
        BY <2>1, <4>1 DEF ExpiryInv, EntryFresh, Present, sweepVars
    <3> QED
      BY <3>1, <3>2
  <2> QED
    BY <1>2, <2>1, <2>3 DEF ExpiryInv, EvictionTimed, sweepVars
<1>5. CASE SweepBegin
  <2>1. /\ toSweep = {} /\ clock >= nextTick
        /\ nextTick' = nextTick + Interval /\ sweepStart' = clock
        /\ toSweep' = Key /\ clock' = clock /\ map' = map
    BY <1>5 DEF SweepBegin, cacheVars
  <2>2. EvictionTimed'
    BY <1>0, <1>2, <2>1 DEF EvictionTimed
  <2>3. ASSUME NEW k \in Key PROVE EntryFresh(k)'
    <3>1. Present(k) => map[k].first_seen + Window > sweepStart
      BY <2>1 DEF ExpiryInv, EntryFresh
    <3>2. Present(k) => map[k].first_seen + 2 * Interval + Window > nextTick + Interval
      BY <1>0, <1>1, <1>2, <3>1 DEF EvictionTimed
    <3> QED
      BY <2>1, <3>2 DEF EntryFresh, Present
  <2> QED
    BY <2>2, <2>3 DEF ExpiryInv
<1>6. ASSUME NEW j \in Key, SweepKey(j) PROVE ExpiryInv'
  <2>1. /\ j \in toSweep /\ toSweep' = toSweep \ {j}
        /\ UNCHANGED <<clock, nextTick, cutoff, sweepStart>>
        /\ IF Present(j) /\ Expired(map[j]) THEN Remove(j) ELSE UNCHANGED cacheVars
    BY <1>6 DEF SweepKey
  <2>2. EvictionTimed'
    BY <1>2, <2>1 DEF EvictionTimed
  <2>3. \A k \in Key \ {j} : map'[k] = map[k]
    BY <2>1 DEF Remove, cacheVars, TypeOK
  <2>4. ASSUME NEW k \in Key PROVE EntryFresh(k)'
    <3>1. CASE k # j
      BY <2>1, <2>3, <3>1 DEF ExpiryInv, EntryFresh, Present
    <3>2. CASE k = j /\ Present(j) /\ Expired(map[j])
      BY <2>1, <3>2 DEF Remove, EntryFresh, Present, TypeOK
    <3>3. CASE k = j /\ ~(Present(j) /\ Expired(map[j]))
      <4>1. map' = map /\ cutoff = sweepStart - Window
        BY <2>1, <3>3 DEF cacheVars, TimeInv, SweepTimed
      <4>2. Present(k) => map[k].first_seen > cutoff
        BY <3>3 DEF Expired
      <4>3. Present(k) => map[k].first_seen + Window > sweepStart
        BY <1>0, <1>1, <4>1, <4>2
      <4> QED
        BY <2>1, <3>3, <4>1, <4>3 DEF EntryFresh, Present
    <3> QED
      BY <3>1, <3>2, <3>3
  <2> QED
    BY <2>2, <2>4 DEF ExpiryInv
<1>7. ASSUME NEW j \in Key, ClearKey(j) PROVE ExpiryInv'
  <2>1. /\ \A k \in Key : map'[k] = map[k] \/ map'[k] = NoEntry
        /\ UNCHANGED <<clock, sweepVars>>
    BY <1>7 DEF ClearKey, Remove, TypeOK
  <2> QED
    BY <2>1 DEF ExpiryInv, EvictionTimed, EntryFresh, Present, sweepVars
<1>8. CASE Tick
  <2>1. /\ clock' = clock + 1 /\ clock < nextTick + MaxDelay
        /\ toSweep # {} => clock < sweepStart + MaxDelay
        /\ map' = map /\ UNCHANGED <<nextTick, sweepStart, toSweep>>
    BY <1>8 DEF Tick, cacheVars, sweepVars
  <2>2. EvictionTimed'
    BY <1>0, <1>2, <2>1 DEF EvictionTimed
  <2> QED
    BY <2>1, <2>2 DEF ExpiryInv, EntryFresh, Present
<1> QED
  BY <1>3, <1>4, <1>5, <1>6, <1>7, <1>8
     DEF Next, ThreadStep, Begin, Miss, Reject, ClearBegin, vars, cacheVars

\* If the eviction task runs and no call takes a whole window, no entry
\* outlives its window by more than an interval and the delays of the task,
\* for any number of threads and keys and whatever the calls that overlap a
\* sweep; a thread may insert behind the sweep an entry that is already old.
THEOREM EntriesExpire ==
  ASSUME EvictionEnabled, MaxDelay < Window
  PROVE  Spec => []ExpiryBound
<1>1. Init => TimeInv /\ ExpiryInv
  <2>1. Init => TimeInv
    BY DpdAssumption DEF Init, TimeInv, CallTimed, KeyTimed, SweepTimed, Present
  <2>2. Init => ExpiryInv
    BY DpdAssumption DEF Init, ExpiryInv, EvictionTimed, EntryFresh, Present
  <2> QED
    BY <2>1, <2>2
<1>2. TypeOK /\ TimeInv /\ ExpiryInv /\ [Next]_vars => (TimeInv /\ ExpiryInv)'
  BY TimeInvStep, ExpiryInvStep
<1>3. TypeOK /\ ExpiryInv => ExpiryBound
  <2> SUFFICES ASSUME TypeOK, ExpiryInv, NEW k \in Key, Present(k)
               PROVE  clock < map[k].first_seen + Window + Interval + 2 * MaxDelay
    BY DEF ExpiryBound
  <2>1. /\ clock \in Nat /\ MaxDelay \in Nat /\ sweepStart \in Nat
        /\ nextTick \in Nat /\ Interval \in Nat \ {0} /\ Window \in Nat
        /\ map[k].first_seen \in Nat
    BY DpdAssumption DEF TypeOK, Window, DpdEntry, Present
  <2>2. EvictionTimed /\ EntryFresh(k)
    BY DEF ExpiryInv
  <2>3. CASE k \in toSweep
    BY <2>1, <2>2, <2>3 DEF EvictionTimed, EntryFresh
  <2>4. CASE k \notin toSweep
    BY <2>1, <2>2, <2>4 DEF EvictionTimed, EntryFresh
  <2> QED
    BY <2>3, <2>4
<1> QED
  BY <1>1, <1>2, <1>3, TypeCorrect, PTL DEF Spec
=============================================================================
