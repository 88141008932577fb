-------------------------- MODULE RelayStats_proofs --------------------------
(***************************************************************************)
(* What a snapshot of the statistics is worth, for any number of tasks,    *)
(* readers and datagrams.                                                  *)
(***************************************************************************)
EXTENDS RelayStats, FiniteSetTheorems, TLAPS

\* The datagram of a task increments counters that are incremented.
LEMMA CountsCounted ==
  ASSUME NEW t \in Task, NEW s \in Counts(t)
  PROVE  s \subseteq Counted
<1>1. PICK c \in {{}} \cup (IF t \in V4Task THEN HandleV4Client \cup HandleV4Server
                                            ELSE HandleV6) :
        s = c \cup {"packets_received"}
  BY DEF Counts
<1>2. c = {} \/ c \in HandleV4Client \cup HandleV4Server \cup HandleV6
  BY <1>1
<1>3. c \subseteq UNION (HandleV4Client \cup HandleV4Server \cup HandleV6)
  BY <1>2
<1> QED BY <1>1, <1>3 DEF Counted

\* The counters that are incremented are counters.
LEMMA CountedCounter == Counted \subseteq Counter
<1>1. \A c \in HandleV4Client : c \subseteq Counter
  BY DEF HandleV4Client, Counter
<1>2. \A c \in HandleV4Server : c \subseteq Counter
  BY DEF HandleV4Server, Counter
<1>3. \A c \in HandleV6 : c \subseteq Counter
  BY DEF HandleV6, Counter
<1>4. "packets_received" \in Counter
  BY DEF Counter
<1>5. UNION (HandleV4Client \cup HandleV4Server \cup HandleV6) \subseteq Counter
  BY <1>1, <1>2, <1>3
<1> QED BY <1>4, <1>5 DEF Counted

-----------------------------------------------------------------------------
(* Type correctness *)

\* Initially all counters are zero.
LEMMA InitType == Init => TypeOK
  BY StatsAssumption DEF Init, TypeOK, Zero, Nothing

\* Every step keeps the types.
LEMMA NextType == TypeOK /\ [Next]_vars => TypeOK'
<1> SUFFICES ASSUME TypeOK, [Next]_vars PROVE TypeOK'
  OBVIOUS
<1>1. CASE UNCHANGED vars
  BY <1>1 DEF TypeOK, vars
<1>2. ASSUME NEW t \in Task, NEW s \in Counts(t), Receive(t, s) PROVE TypeOK'
  <2>1. s \subseteq Counted
    BY CountsCounted
  <2>2. received' \in 0..MaxReceived
    BY <1>2, StatsAssumption DEF Receive, TypeOK
  <2>3. todo' \in [Task -> SUBSET Counted]
    BY <1>2, <2>1 DEF Receive, TypeOK
  <2> QED BY <1>2, <2>2, <2>3 DEF Receive, TypeOK
<1>3. ASSUME NEW t \in Task, NEW c \in todo[t], FetchAdd(t, c) PROVE TypeOK'
  <2>1. todo' \in [Task -> SUBSET Counted]
    BY <1>3 DEF FetchAdd, TypeOK
  <2>2. c \in Counter
    BY CountedCounter DEF TypeOK
  <2>3. stats' \in [Counter -> Nat]
    BY <1>3, <2>2 DEF FetchAdd, TypeOK
  <2> QED BY <1>3, <2>1, <2>3 DEF FetchAdd, TypeOK
<1>4. ASSUME NEW r \in Reader, Begin(r) PROVE TypeOK'
  <2>1. [c \in Counter |-> IF c \in Counted THEN NotLoaded ELSE stats[c]]
          \in [Counter -> Nat \cup {NotLoaded}]
    BY DEF TypeOK
  <2>2. read' \in [Reader -> [Counter -> Nat \cup {NotLoaded}]]
    BY <1>4, <2>1 DEF Begin, TypeOK
  <2>3. base' \in [Reader -> [Counter -> Nat]]
    BY <1>4 DEF Begin, TypeOK
  <2> QED BY <1>4, <2>2, <2>3 DEF Begin, TypeOK
<1>5. ASSUME NEW r \in Reader, NEW c \in Counted, Load(r, c) PROVE TypeOK'
  <2>1. c \in Counter /\ stats[c] \in Nat
    BY CountedCounter DEF TypeOK
  <2>2. read' \in [Reader -> [Counter -> Nat \cup {NotLoaded}]]
    BY <1>5, <2>1 DEF Load, Loaded, TypeOK
  <2> QED BY <1>5, <2>2 DEF Load, TypeOK
<1>6. ASSUME NEW r \in Reader, Return(r) PROVE TypeOK'
  <2>1. read[r] \in [Counter -> Nat]
    BY <1>6 DEF Return, Complete, TypeOK
  <2>2. last' \in [Reader -> [Counter -> Nat]]
    BY <1>6, <2>1 DEF Return, TypeOK
  <2>3. Nothing \in [Counter -> Nat \cup {NotLoaded}] /\ Zero \in [Counter -> Nat]
    BY DEF Nothing, Zero
  <2>4. read' \in [Reader -> [Counter -> Nat \cup {NotLoaded}]]
        /\ base' \in [Reader -> [Counter -> Nat]]
    BY <1>6, <2>3 DEF Return, TypeOK
  <2> QED BY <1>6, <2>2, <2>4 DEF Return, TypeOK
<1> QED BY <1>1, <1>2, <1>3, <1>4, <1>5, <1>6 DEF Next

\* The variables keep their types; every snapshot returned is complete.
THEOREM TypeCorrect == Spec => []TypeOK
  BY InitType, NextType, PTL DEF Spec

-----------------------------------------------------------------------------
(* The snapshots *)

\* Beyond SnapshotBracketed: the counters only grow beyond what they were when
\* the snapshot began, and while one is taken the one before it lies below
\* what they were then, which is what SnapshotsMonotone needs.
ReaderInv(r) ==
  /\ Leq(last[r], stats) /\ Leq(base[r], stats)
  /\ \A c \in Counter : read[r][c] # NotLoaded =>
       base[r][c] <= read[r][c] /\ read[r][c] <= stats[c]
  /\ read[r] # Nothing => Leq(last[r], base[r])

SnapshotInv == \A r \in Reader : ReaderInv(r)

\* Initially no snapshot has been taken.
LEMMA InitSnapshot == Init => SnapshotInv
  BY DEF Init, SnapshotInv, ReaderInv, Leq, Zero, Nothing

\* No counter ever decreases.
LEMMA StatsGrow ==
  ASSUME TypeOK, [Next]_vars
  PROVE  \A c \in Counter :
           stats'[c] \in Nat /\ stats[c] \in Nat /\ stats[c] <= stats'[c]
<1>1. ASSUME NEW t \in Task, NEW d \in todo[t], FetchAdd(t, d)
      PROVE  \A c \in Counter :
               stats'[c] \in Nat /\ stats[c] \in Nat /\ stats[c] <= stats'[c]
  BY <1>1 DEF FetchAdd, TypeOK
<1>2. CASE stats' = stats
  BY <1>2 DEF TypeOK
<1>3. stats' = stats \/ \E t \in Task : \E d \in todo[t] : FetchAdd(t, d)
  BY DEF Next, vars, Receive, Begin, Load, Return
<1> QED BY <1>1, <1>2, <1>3

\* The fields of what a reader has are numbers.
LEMMA ReaderNumbers ==
  ASSUME TypeOK, NEW r \in Reader
  PROVE  \A c \in Counter :
           /\ stats[c] \in Nat /\ last[r][c] \in Nat /\ base[r][c] \in Nat
           /\ read[r][c] \in Nat \cup {NotLoaded}
  BY DEF TypeOK

\* If a reader takes no step then its snapshot stays between its bounds.
LEMMA Undisturbed ==
  ASSUME TypeOK, SnapshotInv, [Next]_vars, NEW r \in Reader,
         read'[r] = read[r], base'[r] = base[r], last'[r] = last[r]
  PROVE  ReaderInv(r)'
<1>1. ReaderInv(r)
  BY DEF SnapshotInv
<1> QED BY <1>1, StatsGrow, ReaderNumbers DEF ReaderInv, Leq

\* What Return does to the snapshot of a reader.
LEMMA Returned ==
  ASSUME TypeOK, NEW r \in Reader, ReaderInv(r), Return(r)
  PROVE  /\ last'[r] = read[r] /\ read'[r] = Nothing /\ base'[r] = Zero
         /\ stats' = stats
         /\ \A q \in Reader \ {r} :
              last'[q] = last[q] /\ read'[q] = read[q] /\ base'[q] = base[q]
         /\ Leq(last[r], last'[r]) /\ Leq(last'[r], stats)
<1>1. /\ last'[r] = read[r] /\ read'[r] = Nothing /\ base'[r] = Zero
      /\ stats' = stats
      /\ \A q \in Reader \ {r} :
           last'[q] = last[q] /\ read'[q] = read[q] /\ base'[q] = base[q]
  BY DEF Return, TypeOK
<1>2. \A c \in Counter : read[r][c] # NotLoaded
  BY DEF Return, Complete
<1>3. read[r] # Nothing
  <2>1. "packets_received" \in Counter
    BY DEF Counter
  <2> QED BY <1>2, <2>1 DEF Nothing
<1>4. Leq(last[r], read[r]) /\ Leq(read[r], stats)
  BY <1>2, <1>3, ReaderNumbers DEF ReaderInv, Leq
<1> QED BY <1>1, <1>4

\* Every step keeps SnapshotInv.
LEMMA NextSnapshot == TypeOK /\ SnapshotInv /\ [Next]_vars => SnapshotInv'
<1> SUFFICES ASSUME TypeOK, SnapshotInv, [Next]_vars, NEW q \in Reader
             PROVE  ReaderInv(q)'
  BY DEF SnapshotInv
<1>1. ReaderInv(q)
  BY DEF SnapshotInv
<1>2. CASE UNCHANGED <<read, base, last>>
  BY <1>2, Undisturbed
<1>3. ASSUME NEW r \in Reader, Begin(r) PROVE ReaderInv(q)'
  <2>1. CASE q # r
    BY <1>3, <2>1, Undisturbed DEF Begin, TypeOK
  <2>2. CASE q = r
    <3>1. base'[q] = stats /\ stats' = stats /\ last' = last
          /\ read'[q] = [c \in Counter |-> IF c \in Counted THEN NotLoaded ELSE stats[c]]
      BY <1>3, <2>2 DEF Begin, TypeOK
    <3> QED BY <1>1, <3>1, ReaderNumbers DEF ReaderInv, Leq
  <2> QED BY <2>1, <2>2
<1>4. ASSUME NEW r \in Reader, NEW d \in Counted, Load(r, d) PROVE ReaderInv(q)'
  <2>1. CASE q # r
    BY <1>4, <2>1, Undisturbed DEF Load, Loaded, TypeOK
  <2>2. CASE q = r
    <3>1. /\ base' = base /\ stats' = stats /\ last' = last
          /\ read[q] # Nothing
          /\ \A c \in Counter : read'[q][c] = IF c = d THEN stats[c] ELSE read[q][c]
      BY <1>4, <2>2 DEF Load, Loaded, TypeOK
    <3> QED BY <1>1, <3>1, ReaderNumbers DEF ReaderInv, Leq
  <2> QED BY <2>1, <2>2
<1>5. ASSUME NEW r \in Reader, Return(r) PROVE ReaderInv(q)'
  <2>1. ReaderInv(r)
    BY DEF SnapshotInv
  <2>2. CASE q # r
    BY <1>5, <2>1, <2>2, Returned, Undisturbed
  <2>3. CASE q = r
    <3>1. /\ last'[q] = read[q] /\ read'[q] = Nothing /\ base'[q] = Zero
          /\ stats' = stats /\ Leq(last'[q], stats)
      BY <1>5, <2>1, <2>3, Returned
    <3> QED BY <3>1, ReaderNumbers DEF ReaderInv, Leq, Nothing, Zero
  <2> QED BY <2>2, <2>3
<1> QED BY <1>2, <1>3, <1>4, <1>5 DEF Next, Receive, FetchAdd, vars

\* A snapshot lies between the counters at its beginning and the counters at
\* its end, for any number of tasks that count meanwhile.
THEOREM SnapshotsBracketed == Spec => []SnapshotBracketed
<1>1. TypeOK /\ SnapshotInv /\ [Next]_vars => SnapshotInv'
  BY NextSnapshot
<1>2. SnapshotInv => SnapshotBracketed
  BY DEF SnapshotInv, ReaderInv, SnapshotBracketed
<1> QED BY InitSnapshot, TypeCorrect, <1>1, <1>2, PTL DEF Spec

\* The snapshots that one caller gets never go back.
THEOREM SnapshotsNeverGoBack == Spec => SnapshotsMonotone
<1>1. TypeOK /\ SnapshotInv /\ [Next]_vars
        => [\A r \in Reader : Leq(last[r], last'[r])]_vars
  <2> SUFFICES ASSUME TypeOK, SnapshotInv, Next, NEW q \in Reader
               PROVE  Leq(last[q], last'[q])
    OBVIOUS
  <2>1. CASE last'[q] = last[q]
    BY <2>1, ReaderNumbers DEF Leq
  <2>2. ASSUME NEW r \in Reader, Return(r) PROVE Leq(last[q], last'[q])
    <3>1. ReaderInv(r)
      BY DEF SnapshotInv
    <3>2. q = r \/ last'[q] = last[q]
      BY <2>2, <3>1, Returned
    <3> QED BY <2>1, <2>2, <3>1, <3>2, Returned
  <2> QED BY <2>1, <2>2 DEF Next, Receive, FetchAdd, Begin, Load
<1>2. TypeOK /\ SnapshotInv /\ [Next]_vars => SnapshotInv'
  BY NextSnapshot
<1> QED BY InitSnapshot, TypeCorrect, <1>1, <1>2, PTL DEF Spec, SnapshotsMonotone

-----------------------------------------------------------------------------
(* How far a snapshot can contradict itself *)

Outcomes == {"packets_forwarded", "packets_dropped_spoof"}

\* The tasks whose datagram is not yet visible in packets_received, and those
\* whose datagram is not yet visible as forwarded or refused but will be.
Behind  == {t \in Task : "packets_received" \in todo[t]}
Pending == {t \in Task : \E c \in Outcomes : c \in todo[t]}

\* A datagram is forwarded or refused, not both; and what is visible or will
\* be of the outcomes never exceeds what is visible or will be of the
\* receptions.
OutcomeInv ==
  /\ \A t \in Task : ~(Outcomes \subseteq todo[t])
  /\ stats["packets_forwarded"] + stats["packets_dropped_spoof"]
       + Cardinality(Pending)
       <= stats["packets_received"] + Cardinality(Behind)

\* The handling of a datagram increments packets_received and at most one of
\* the counters of outcomes.
LEMMA CountsOutcome ==
  ASSUME NEW t \in Task, NEW s \in Counts(t)
  PROVE  "packets_received" \in s /\ ~(Outcomes \subseteq s)
<1>1. PICK c \in {{}} \cup (IF t \in V4Task THEN HandleV4Client \cup HandleV4Server
                                            ELSE HandleV6) :
        s = c \cup {"packets_received"}
  BY DEF Counts
<1>2. c = {} \/ c \in HandleV4Client \/ c \in HandleV4Server \/ c \in HandleV6
  BY <1>1
<1>3. "packets_forwarded" \notin c \/ "packets_dropped_spoof" \notin c
  BY <1>2 DEF HandleV4Client, HandleV4Server, HandleV6
<1> QED BY <1>1, <1>3 DEF Outcomes

\* The sets of tasks that are counted are finite.
LEMMA TasksFinite ==
  /\ IsFiniteSet(Task) /\ Cardinality(Task) \in Nat
  /\ IsFiniteSet(Behind) /\ Cardinality(Behind) \in Nat
  /\ Cardinality(Behind) <= Cardinality(Task)
  /\ IsFiniteSet(Pending) /\ Cardinality(Pending) \in Nat
<1>1. IsFiniteSet(Task)
  BY StatsAssumption, FS_Union DEF Task
<1>2. Behind \in SUBSET Task /\ Pending \in SUBSET Task
  BY DEF Behind, Pending
<1> QED BY <1>1, <1>2, FS_Subset, FS_CardinalityType

\* Every step keeps OutcomeInv.
LEMMA NextOutcome == TypeOK /\ OutcomeInv /\ [Next]_vars => OutcomeInv'
<1> SUFFICES ASSUME TypeOK, OutcomeInv, [Next]_vars PROVE OutcomeInv'
  OBVIOUS
<1> DEFINE F == stats["packets_forwarded"]
           S == stats["packets_dropped_spoof"]
           R == stats["packets_received"]
<1>1. /\ F \in Nat /\ S \in Nat /\ R \in Nat
      /\ Cardinality(Pending) \in Nat /\ Cardinality(Behind) \in Nat
      /\ IsFiniteSet(Pending) /\ IsFiniteSet(Behind)
  BY TasksFinite DEF TypeOK, Counter
<1>2. F + S + Cardinality(Pending) <= R + Cardinality(Behind)
  BY DEF OutcomeInv
<1>3. CASE UNCHANGED <<stats, todo>>
  BY <1>3 DEF OutcomeInv, Behind, Pending
<1>4. ASSUME NEW t \in Task, NEW s \in Counts(t), Receive(t, s) PROVE OutcomeInv'
  <2>1. /\ todo[t] = {} /\ todo'[t] = s /\ stats' = stats
        /\ \A u \in Task \ {t} : todo'[u] = todo[u]
    BY <1>4 DEF Receive, TypeOK
  <2>2. "packets_received" \in s /\ ~(Outcomes \subseteq s)
    BY CountsOutcome
  <2>3. Behind' = Behind \cup {t} /\ t \notin Behind
    BY <2>1, <2>2 DEF Behind
  <2>4. (Pending' = Pending \/ Pending' = Pending \cup {t}) /\ t \notin Pending
    BY <2>1 DEF Pending
  <2>5. Cardinality(Behind') = Cardinality(Behind) + 1
    BY <1>1, <2>3, FS_AddElement
  <2>6. \/ Cardinality(Pending') = Cardinality(Pending)
        \/ Cardinality(Pending') = Cardinality(Pending) + 1
    BY <1>1, <2>4, FS_AddElement
  <2>7. F + S + Cardinality(Pending') <= R + Cardinality(Behind')
    BY <1>1, <1>2, <2>5, <2>6
  <2>8. \A u \in Task : ~(Outcomes \subseteq todo'[u])
    BY <2>1, <2>2 DEF OutcomeInv
  <2> QED BY <2>1, <2>7, <2>8 DEF OutcomeInv
<1>5. ASSUME NEW t \in Task, NEW c \in todo[t], FetchAdd(t, c) PROVE OutcomeInv'
  <2>1. /\ todo'[t] = todo[t] \ {c}
        /\ \A u \in Task \ {t} : todo'[u] = todo[u]
    BY <1>5 DEF FetchAdd, TypeOK
  <2>2. \A u \in Task : ~(Outcomes \subseteq todo'[u])
    BY <2>1 DEF OutcomeInv
  <2>3. c \in Counter
    BY CountedCounter DEF TypeOK
  <2>4. \A d \in Counter : stats'[d] = IF d = c THEN stats[d] + 1 ELSE stats[d]
    BY <1>5, <2>3 DEF FetchAdd, TypeOK
  <2>5. CASE c = "packets_received"
    <3>1. F' = F /\ S' = S /\ R' = R + 1
      BY <2>4, <2>5 DEF Counter
    <3>2. Behind' = Behind \ {t} /\ t \in Behind /\ Pending' = Pending
      BY <2>1, <2>5 DEF Behind, Pending, Outcomes
    <3>3. Cardinality(Behind') = Cardinality(Behind) - 1
      BY <1>1, <3>2, FS_RemoveElement
    <3>4. F' + S' + Cardinality(Pending') <= R' + Cardinality(Behind')
      BY <1>1, <1>2, <3>1, <3>2, <3>3
    <3> QED BY <2>2, <3>4 DEF OutcomeInv
  <2>6. CASE c \in Outcomes
    <3>1. F' + S' = F + S + 1 /\ R' = R
      BY <1>1, <2>4, <2>6 DEF Counter, Outcomes
    <3>2. Pending' = Pending \ {t} /\ t \in Pending /\ Behind' = Behind
      BY <2>1, <2>6 DEF Behind, Pending, Outcomes, OutcomeInv
    <3>3. Cardinality(Pending') = Cardinality(Pending) - 1
      BY <1>1, <3>2, FS_RemoveElement
    <3>4. F' + S' + Cardinality(Pending') <= R' + Cardinality(Behind')
      BY <1>1, <1>2, <3>1, <3>2, <3>3
    <3> QED BY <2>2, <3>4 DEF OutcomeInv
  <2>7. CASE c # "packets_received" /\ c \notin Outcomes
    <3>1. F' = F /\ S' = S /\ R' = R
      BY <2>4, <2>7 DEF Counter, Outcomes
    <3>2. Pending' = Pending /\ Behind' = Behind
      BY <2>1, <2>7 DEF Behind, Pending
    <3> QED BY <1>2, <2>2, <3>1, <3>2 DEF OutcomeInv
  <2> QED BY <2>5, <2>6, <2>7
<1> QED BY <1>3, <1>4, <1>5 DEF Next, Begin, Load, Return, vars

\* A snapshot shows no more packets forwarded and refused than received, but
\* for those received while it was taken and one for every task, whatever the
\* order in which the increments become visible and the counters are loaded.
THEOREM SnapshotSkewBounded == Spec => []SkewBound
<1>1. Init => OutcomeInv
  <2> SUFFICES ASSUME Init PROVE OutcomeInv
    OBVIOUS
  <2>1. Pending = {} /\ Behind = {}
    BY DEF Init, Pending, Behind
  <2>2. \A c \in Counter : stats[c] = 0
    BY DEF Init, Zero
  <2>3. \A t \in Task : ~(Outcomes \subseteq todo[t])
    BY DEF Init, Outcomes
  <2>4. stats["packets_forwarded"] + stats["packets_dropped_spoof"] + Cardinality(Pending)
          <= stats["packets_received"] + Cardinality(Behind)
    BY <2>1, <2>2, FS_EmptySet DEF Counter
  <2> QED BY <2>3, <2>4 DEF OutcomeInv
<1>2. TypeOK /\ SnapshotInv /\ OutcomeInv => SkewBound
  <2> SUFFICES ASSUME TypeOK, SnapshotInv, OutcomeInv, NEW r \in Reader, Complete(r)
               PROVE  read[r]["packets_forwarded"] + read[r]["packets_dropped_spoof"]
                        <= read[r]["packets_received"] + Cardinality(Task)
                             + (stats["packets_received"] - base[r]["packets_received"])
    BY DEF SkewBound
  <2>1. \A c \in Counter : /\ base[r][c] <= read[r][c] /\ read[r][c] <= stats[c]
                           /\ base[r][c] \in Nat /\ read[r][c] \in Nat /\ stats[c] \in Nat
    BY ReaderNumbers DEF SnapshotInv, ReaderInv, Complete
  <2> DEFINE f == read[r]["packets_forwarded"]
             s == read[r]["packets_dropped_spoof"]
             v == read[r]["packets_received"]
             b == base[r]["packets_received"]
             F == stats["packets_forwarded"]
             S == stats["packets_dropped_spoof"]
             R == stats["packets_received"]
  <2>2. /\ f \in Nat /\ s \in Nat /\ v \in Nat /\ b \in Nat
        /\ F \in Nat /\ S \in Nat /\ R \in Nat
        /\ f <= F /\ s <= S /\ b <= v /\ v <= R
    BY <2>1 DEF Counter
  <2>3. F + S + Cardinality(Pending) <= R + Cardinality(Behind)
    BY DEF OutcomeInv
  <2> HIDE DEF f, s, v, b, F, S, R
  <2>4. F + S <= R + Cardinality(Task)
    BY <2>2, <2>3, TasksFinite
  <2>5. f + s <= v + Cardinality(Task) + (R - b)
    BY <2>2, <2>4, TasksFinite
  <2> QED BY <2>5 DEF f, s, v, b, R
<1>3. TypeOK /\ SnapshotInv /\ [Next]_vars => SnapshotInv'
  BY NextSnapshot
<1> QED
  BY InitSnapshot, TypeCorrect, NextOutcome, <1>1, <1>2, <1>3, PTL DEF Spec
=============================================================================
