------------------------ MODULE RelayLifecycle_proofs ------------------------
(***************************************************************************)
(* Proofs about RelayLifecycle, for any number of interfaces, of calls of  *)
(* run() and of calls of shutdown().                                       *)
(***************************************************************************)
EXTENDS RelayLifecycle, TLAPS

\* The types of the variables are preserved by every step of run(), of the
\* tasks and of shutdown().
THEOREM TypeCorrect == Spec => []TypeOK
<1> USE LifecycleAssumption DEF TypeOK, Phase, TaskState, Job
<1>1. Init => TypeOK
  <2> SUFFICES ASSUME Init PROVE TypeOK
    OBVIOUS
  <2>1. value \in BOOLEAN /\ asked \subseteq Runner \X Phase
    BY DEF Init
  <2>2. next \in [Runner -> 1..(N4 + N6 + 1)]
    BY DEF Init
  <2>3. calls \in 0..MaxShutdowns /\ before \in [Runner -> 0..MaxShutdowns]
    BY DEF Init
  <2> QED
    BY <2>1, <2>2, <2>3 DEF Init
<1>2. TypeOK /\ [Next]_vars => TypeOK'
  <2> SUFFICES ASSUME TypeOK, [Next]_vars PROVE TypeOK'
    OBVIOUS
  <2> USE DEF channel, history
  <2>1. ASSUME NEW r \in Runner, Run(r) PROVE TypeOK'
    BY <2>1 DEF Run, Subscribe
  <2>2. ASSUME NEW r \in Runner, BindAndSpawn(r) PROVE TypeOK'
    BY <2>2 DEF BindAndSpawn, Remaining
  <2>3. ASSUME NEW r \in Runner, BindFails(r) \/ Wait(r) \/ Return(r)
        PROVE  TypeOK'
    BY <2>3 DEF BindFails, Wait, Return
  <2>4. ASSUME NEW r \in Runner, EnterV6(r) PROVE TypeOK'
    BY <2>4 DEF EnterV6, Subscribe
  <2>5. ASSUME NEW j \in Job, Notice(j) PROVE TypeOK'
    BY <2>5 DEF Notice
  <2>6. ASSUME NEW j \in Job, Receive(j) \/ Handled(j) PROVE TypeOK'
    BY <2>6 DEF Receive, Handled
  <2>7. CASE Shutdown
    <3>1. version' \in Nat
      BY <2>7 DEF Shutdown, WatchSend
    <3>2. value' \in BOOLEAN
      BY <2>7, Zenon DEF Shutdown, WatchSend
    <3>3. asked' \subseteq Runner \X Phase /\ calls' \in 0..MaxShutdowns
      BY <2>7 DEF Shutdown
    <3> QED
      BY <2>7, <3>1, <3>2, <3>3 DEF Shutdown
  <2>8. CASE UNCHANGED vars
    BY <2>8 DEF vars
  <2> QED
    BY <2>1, <2>2, <2>3, <2>4, <2>5, <2>6, <2>7, <2>8
       DEF Next, RunStep, TaskStep
<1> QED
  BY <1>1, <1>2, PTL DEF Spec

-----------------------------------------------------------------------------
\* Every task belongs to a call of run() that has begun and has not returned
\* Ok; it may have returned an error.
OwnerInv ==
  \A j \in Live : owner[j] \in Runner /\ phase[owner[j]] \notin {"idle", "ok"}

\* Every step preserves OwnerInv.
LEMMA OwnerInvStep ==
  ASSUME TypeOK, OwnerInv, [Next]_vars
  PROVE  OwnerInv'
<1> USE LifecycleAssumption DEF OwnerInv, Live, TypeOK
<1>1. ASSUME NEW r \in Runner, Run(r) PROVE OwnerInv'
  BY <1>1 DEF Run
<1>2. ASSUME NEW r \in Runner, BindAndSpawn(r) PROVE OwnerInv'
  BY <1>2 DEF BindAndSpawn, Remaining
<1>3. ASSUME NEW r \in Runner, BindFails(r) \/ EnterV6(r) \/ Wait(r)
      PROVE  OwnerInv'
  BY <1>3 DEF BindFails, EnterV6, Wait
<1>4. ASSUME NEW r \in Runner, Return(r) PROVE OwnerInv'
  BY <1>4 DEF Return, Tasks
<1>5. ASSUME NEW j \in Job, TaskStep(j) PROVE OwnerInv'
  BY <1>5 DEF TaskStep, Notice, Receive, Handled
<1>6. CASE Shutdown \/ UNCHANGED vars
  BY <1>6 DEF Shutdown, vars
<1> QED
  BY <1>1, <1>2, <1>3, <1>4, <1>5, <1>6 DEF Next, RunStep

\* When run() has returned Ok, all of its tasks have ended: no packet handler
\* of its is running and its sockets are closed, for every number of
\* interfaces and however run() and shutdown() calls interleave.
THEOREM RunWaitsForItsTasks == Spec => []NoTaskOutlivesRun
<1>1. Init => OwnerInv
  BY DEF Init, OwnerInv, Live
<1>2. OwnerInv => NoTaskOutlivesRun
  BY DEF OwnerInv, NoTaskOutlivesRun, Tasks
<1> QED
  BY <1>1, <1>2, OwnerInvStep, TypeCorrect, PTL DEF Spec

-----------------------------------------------------------------------------
\* A receiver that is behind the channel was created before the last call of
\* shutdown(), and so was the call of run() that it belongs to.
VersionInv ==
  /\ \A r \in Runner : before[r] <= calls
  /\ \A r \in Runner : phase[r] # "idle" =>
       rxSeen[r] <= version /\ (rxSeen[r] < version => before[r] < calls)
  /\ \A j \in Live :
       seen[j] <= version /\ (seen[j] < version => before[owner[j]] < calls)

\* Every step preserves VersionInv.
LEMMA VersionInvStep ==
  ASSUME TypeOK, OwnerInv, VersionInv, [Next]_vars
  PROVE  VersionInv'
<1> USE LifecycleAssumption DEF VersionInv, Live, TypeOK, channel, history
<1>1. ASSUME NEW r \in Runner, Run(r) PROVE VersionInv'
  BY <1>1 DEF Run, Subscribe, OwnerInv
<1>2. ASSUME NEW r \in Runner, BindAndSpawn(r) PROVE VersionInv'
  BY <1>2 DEF BindAndSpawn, Remaining
<1>3. ASSUME NEW r \in Runner, BindFails(r) \/ Wait(r) \/ Return(r)
      PROVE  VersionInv'
  BY <1>3 DEF BindFails, Wait, Return, Remaining
<1>4. ASSUME NEW r \in Runner, EnterV6(r) PROVE VersionInv'
  BY <1>4 DEF EnterV6, Subscribe
<1>5. ASSUME NEW j \in Job, TaskStep(j) PROVE VersionInv'
  BY <1>5 DEF TaskStep, Notice, Receive, Handled
<1>6. CASE Shutdown
  <2>1. version' \in {version, version + 1} /\ calls' = calls + 1
    BY <1>6 DEF Shutdown, WatchSend
  <2>2. \A r \in Runner : before[r] < calls'
    BY <2>1
  <2> QED
    BY <1>6, <2>1, <2>2 DEF Shutdown, OwnerInv
<1>7. CASE UNCHANGED vars
  BY <1>7 DEF vars
<1> QED
  BY <1>1, <1>2, <1>3, <1>4, <1>5, <1>6, <1>7 DEF Next, RunStep

\* A task is ended only by a call of shutdown() that came after the call of
\* run() that spawned it, although the channel keeps the value true for ever
\* once it has been sent.
THEOREM OldShutdownStopsNothing == Spec => NoStaleStop
<1>1. Init => VersionInv
  BY DEF Init, VersionInv, Live
<1>2. TypeOK /\ OwnerInv /\ VersionInv /\ [Next]_vars =>
        [\A j \in Job : j \in Live /\ j \notin Live' =>
            calls > before[owner[j]]]_vars
  <2> SUFFICES ASSUME TypeOK, OwnerInv, VersionInv, Next, NEW j \in Job,
                      j \in Live, j \notin Live'
               PROVE  calls > before[owner[j]]
    BY DEF vars
  <2>1. Notice(j)
    BY DEF Next, RunStep, TaskStep, Run, BindAndSpawn, BindFails, EnterV6,
           Wait, Return, Notice, Receive, Handled, Shutdown, Live, TypeOK
  <2> QED
    BY <2>1, LifecycleAssumption
       DEF Notice, Changed, VersionInv, OwnerInv, TypeOK
<1>3. Init => OwnerInv
  BY DEF Init, OwnerInv, Live
<1> QED
  BY <1>1, <1>2, <1>3, OwnerInvStep, VersionInvStep, TypeCorrect, PTL
     DEF Spec, NoStaleStop

-----------------------------------------------------------------------------
(* What the stopping of tasks rests on. *)

\* shutdown() was called when run() had the receiver that the task of job j is
\* given a clone of, or later: at any time of run() for a DHCPv4 task, once
\* spawn_v6_tasks has subscribed for a DHCPv6 task.
Addressed(r, j) ==
  \/ j <= N4 /\ AskedIn(r, {"spawn4", "spawn6", "join"})
  \/ AskedIn(r, {"spawn6", "join"})

\* Every task that a shutdown() was addressed to has the value true before it,
\* unseen, as long as it lives: also a task that was spawned after the call.
NotificationPending ==
  \A r \in Runner : \A j \in Tasks(r) : Addressed(r, j) => value = TRUE /\ Changed(j)

\* What has been asked of run() while it held its present receiver, that
\* receiver has not seen, and run() has not been found in phases yet to come.
SpawnerInv(r) ==
  /\ phase[r] \in {"idle", "spawn4"} => ~AskedIn(r, {"spawn6", "join"})
  /\ phase[r] = "idle" => ~AskedIn(r, {"spawn4"})
  /\ phase[r] = "spawn6" => ~AskedIn(r, {"join"}) /\ next[r] > N4
  /\ phase[r] = "spawn4" /\ AskedIn(r, {"spawn4"}) => rxSeen[r] < version
  /\ phase[r] = "spawn6" /\ AskedIn(r, {"spawn6"}) => rxSeen[r] < version

TaskPending(j) == Addressed(owner[j], j) => seen[j] < version

\* The channel holds true once anything has been sent.
PendingInv ==
  /\ version > 0 => value = TRUE
  /\ \A r \in Runner : SpawnerInv(r)
  /\ \A j \in Live : TaskPending(j)

\* Every step preserves PendingInv.
LEMMA PendingInvStep ==
  ASSUME TypeOK, OwnerInv, VersionInv, PendingInv, [Next]_vars
  PROVE  PendingInv'
<1> USE LifecycleAssumption DEF TypeOK, channel, history
<1> USE DEF PendingInv, SpawnerInv, TaskPending, Addressed, AskedIn, Live
<1>1. ASSUME NEW r \in Runner, Run(r) PROVE PendingInv'
  BY <1>1 DEF Run, Subscribe
<1>2. ASSUME NEW r \in Runner, BindAndSpawn(r) PROVE PendingInv'
  BY <1>2 DEF BindAndSpawn, Remaining
<1>3. ASSUME NEW r \in Runner, BindFails(r) \/ Wait(r) \/ Return(r)
      PROVE  PendingInv'
  BY <1>3 DEF BindFails, Wait, Return, Remaining
<1>4. ASSUME NEW r \in Runner, EnterV6(r) PROVE PendingInv'
  BY <1>4 DEF EnterV6, Subscribe
<1>5. ASSUME NEW j \in Job, Notice(j) PROVE PendingInv'
  <2>1. version > 0 => value = TRUE
    OBVIOUS
  <2>2. version > 0
    BY <1>5 DEF Notice, Changed, VersionInv
  <2>3. task' = [task EXCEPT ![j] = "none"]
    BY <1>5, <2>1, <2>2 DEF Notice
  <2> QED
    BY <1>5, <2>3 DEF Notice
<1>6. ASSUME NEW j \in Job, Receive(j) \/ Handled(j) PROVE PendingInv'
  BY <1>6 DEF Receive, Handled
<1>7. CASE Shutdown
  <2>1. /\ asked' = asked \cup {<<r, phase[r]>> : r \in Runner}
        /\ UNCHANGED <<phase, next, rxSeen, task, seen, owner>>
    BY <1>7 DEF Shutdown
  <2>2. \A r \in Runner, P \in SUBSET Phase :
          AskedIn(r, P)' <=> AskedIn(r, P) \/ phase[r] \in P
    BY <2>1
  <2>3. CASE HasReceivers
    <3>1. version' = version + 1 /\ value' = TRUE
      BY <1>7, <2>3 DEF Shutdown, WatchSend
    <3>2. ASSUME NEW r \in Runner PROVE SpawnerInv(r)'
      <4> HIDE DEF AskedIn
      <4>1. phase[r] # "idle" => rxSeen[r] < version'
        BY <3>1 DEF VersionInv
      <4> QED
        BY <2>1, <2>2, <3>1, <4>1 DEF Phase
    <3>3. \A j \in Live : seen[j] < version'
      BY <3>1 DEF VersionInv
    <3> QED
      BY <2>1, <3>1, <3>2, <3>3
  <2>4. CASE ~HasReceivers
    <3>1. /\ UNCHANGED <<version, value>> /\ Live = {}
          /\ \A r \in Runner : phase[r] \notin {"spawn4", "spawn6"}
      BY <1>7, <2>4 DEF Shutdown, WatchSend, HasReceivers
    <3>2. \A r \in Runner : SpawnerInv(r)'
      BY <2>1, <3>1
    <3> QED
      BY <2>1, <3>1, <3>2
  <2> QED
    BY <2>3, <2>4
<1>8. CASE UNCHANGED vars
  BY <1>8 DEF vars
<1> QED
  BY <1>1, <1>2, <1>3, <1>4, <1>5, <1>6, <1>7, <1>8 DEF Next, RunStep, TaskStep

\* The safety half of V4TasksStop and ShutdownAfterSubscribe, for any number of
\* interfaces and calls: the call of shutdown() is never lost on a task it was
\* addressed to, whether it came before the task was spawned, during a handler
\* or after run() had failed and detached the task.
THEOREM ShutdownStaysPending == Spec => []NotificationPending
<1>1. Init => OwnerInv /\ VersionInv /\ PendingInv
  BY LifecycleAssumption
     DEF Init, OwnerInv, VersionInv, Live, PendingInv, SpawnerInv, AskedIn
<1>2. TypeOK /\ OwnerInv /\ VersionInv /\ PendingInv => NotificationPending
  <2> SUFFICES ASSUME TypeOK, VersionInv, PendingInv, NEW r \in Runner,
                      NEW j \in Tasks(r), Addressed(r, j)
               PROVE  value = TRUE /\ Changed(j)
    BY DEF NotificationPending
  <2>1. j \in Job /\ j \in Live /\ owner[j] = r
    BY DEF Tasks, Live
  <2>2. seen[j] < version /\ seen[j] \in Nat /\ version \in Nat
    BY <2>1 DEF PendingInv, TaskPending, TypeOK
  <2>3. version > 0
    BY <2>2
  <2> QED
    BY <2>2, <2>3 DEF PendingInv, Changed
<1> QED
  BY <1>1, <1>2, OwnerInvStep, VersionInvStep, PendingInvStep, TypeCorrect, PTL
     DEF Spec
=============================================================================
