---------------------------- MODULE RelayLifecycle ----------------------------
(***************************************************************************)
(* Starting and stopping the relay agent (RelayAgent::run and shutdown in  *)
(* src/src/lib.rs).  run() binds one socket and spawns one task for every  *)
(* DHCPv4 job, then for every DHCPv6 job, then waits for the tasks it      *)
(* spawned.  shutdown() may be called at any time from any thread; it      *)
(* reaches the tasks through a tokio watch channel.                        *)
(*                                                                         *)
(* A job is a (protocol, interface) pair; the jobs are numbered in the     *)
(* order in which run() takes them, 1..N4 for DHCPv4 and N4+1..N4+N6 for   *)
(* DHCPv6.  A socket address can be bound once, so at any time a job has   *)
(* at most one task, and tasks are named by their jobs.                    *)
(***************************************************************************)
EXTENDS Naturals, FiniteSets

CONSTANTS
  Runner,       \* calls of run(), of one or several threads
  N4,           \* number of DHCPv4 jobs: the enabled interfaces, or 0
  N6,           \* number of DHCPv6 jobs: the enabled interfaces, or 0
  MaxShutdowns  \* bound on the calls of shutdown()

ASSUME LifecycleAssumption ==
  N4 \in Nat /\ N6 \in Nat /\ MaxShutdowns \in Nat

VARIABLES
  phase,     \* phase[r]: how far the call r of run() has got
  next,      \* next[r]: the job whose socket r binds next
  rxSeen,    \* rxSeen[r]: version seen by the receiver r holds while spawning
  task,      \* task[j]: the task of job j
  seen,      \* seen[j]: the version the receiver of task j has seen
  owner,     \* owner[j]: the call of run() that spawned the last task of j
  value,     \* the value in the watch channel
  version,   \* the version of that value
  calls,     \* history: how often shutdown() was called
  asked,     \* history: the calls of run() that shutdown() found, and where
  before     \* history: before[r]: calls of shutdown() when r called run()

channel == <<value, version>>
history == <<calls, asked, before>>
vars == <<phase, next, rxSeen, task, seen, owner, channel, history>>

Job == 1..(N4 + N6)
NoRunner == "none"

Phase == {"idle", "spawn4", "spawn6", "join", "ok", "err"}

\* "select": in select!; "handling": in a packet handler; "none": no task.
TaskState == {"none", "select", "handling"}

Live == {j \in Job : task[j] # "none"}

Tasks(r) == {j \in Live : owner[j] = r}

Init ==
  /\ phase = [r \in Runner |-> "idle"]
  /\ next = [r \in Runner |-> 1]
  /\ rxSeen = [r \in Runner |-> 0]
  /\ task = [j \in Job |-> "none"]
  /\ seen = [j \in Job |-> 0]
  /\ owner = [j \in Job |-> NoRunner]
  /\ value = FALSE
  /\ version = 0
  /\ calls = 0
  /\ asked = {}
  /\ before = [r \in Runner |-> 0]

-----------------------------------------------------------------------------
(* The watch channel (tokio::sync::watch, external). *)

\* Who holds a receiver: run() inside spawn_v4_tasks or spawn_v6_tasks, and
\* every task.  RelayAgent::new drops the receiver that channel() returns.
HasReceivers ==
  \/ \E r \in Runner : phase[r] \in {"spawn4", "spawn6"}
  \/ Live # {}

\* Sender::send stores the value only if somebody can receive it.
WatchSend(v) ==
  IF HasReceivers THEN value' = v /\ version' = version + 1
                  ELSE UNCHANGED <<value, version>>

\* A plausible slip: a subscriber starts out as if it had seen nothing.
SubscribeUnseen(r) == rxSeen' = [rxSeen EXCEPT ![r] = 0]

\* Sender::subscribe: the current value counts as seen.
Subscribe(r) == rxSeen' = [rxSeen EXCEPT ![r] = version]

\* Receiver::changed is ready.
Changed(j) == seen[j] # version

-----------------------------------------------------------------------------
(* RelayAgent::run *)

\* run() is called and enters spawn_v4_tasks.
Run(r) ==
  /\ phase[r] = "idle"
  /\ phase' = [phase EXCEPT ![r] = "spawn4"]
  /\ next' = [next EXCEPT ![r] = 1]
  /\ Subscribe(r)
  /\ before' = [before EXCEPT ![r] = calls]
  /\ UNCHANGED <<task, seen, owner, channel, calls, asked>>

\* A plausible slip: the loop over the interfaces runs once too often.
RemainingOffByOne(r) ==
  \/ phase[r] = "spawn4" /\ next[r] <= N4
  \/ phase[r] = "spawn6" /\ next[r] <= N4 + N6 + 1

\* The spawn function that r is in has jobs left.
Remaining(r) ==
  \/ phase[r] = "spawn4" /\ next[r] <= N4
  \/ phase[r] = "spawn6" /\ next[r] <= N4 + N6

\* A plausible slip: every task subscribes when it is spawned.
BindAndSpawnFresh(r) ==
  /\ Remaining(r)
  /\ LET j == next[r] IN
       /\ j \notin Live
       /\ task' = [task EXCEPT ![j] = "select"]
       /\ seen' = [seen EXCEPT ![j] = version]
       /\ owner' = [owner EXCEPT ![j] = r]
       /\ next' = [next EXCEPT ![r] = j + 1]
  /\ UNCHANGED <<phase, rxSeen, channel, history>>

\* The socket of the next job is bound and its task spawned with a clone of
\* the receiver.
BindAndSpawn(r) ==
  /\ Remaining(r)
  /\ LET j == next[r] IN
       /\ j \notin Live
       /\ task' = [task EXCEPT ![j] = "select"]
       /\ seen' = [seen EXCEPT ![j] = rxSeen[r]]
       /\ owner' = [owner EXCEPT ![j] = r]
       /\ next' = [next EXCEPT ![r] = j + 1]
  /\ UNCHANGED <<phase, rxSeen, channel, history>>

\* Binding fails: always if the address is in use, else for reasons of the
\* system's own.  `?' returns the error; the handles and the receiver are
\* dropped, which detaches the tasks spawned so far.
BindFails(r) ==
  /\ Remaining(r)
  /\ phase' = [phase EXCEPT ![r] = "err"]
  /\ UNCHANGED <<next, rxSeen, task, seen, owner, channel, history>>

\* spawn_v4_tasks returns and spawn_v6_tasks subscribes anew.
EnterV6(r) ==
  /\ phase[r] = "spawn4" /\ next[r] = N4 + 1
  /\ phase' = [phase EXCEPT ![r] = "spawn6"]
  /\ Subscribe(r)
  /\ UNCHANGED <<next, task, seen, owner, channel, history>>

\* spawn_v6_tasks returns; run() waits for the handles.
Wait(r) ==
  /\ phase[r] = "spawn6" /\ next[r] = N4 + N6 + 1
  /\ phase' = [phase EXCEPT ![r] = "join"]
  /\ UNCHANGED <<next, rxSeen, task, seen, owner, channel, history>>

\* A plausible slip: run() waits for the DHCPv4 handles only.
ReturnEarly(r) ==
  /\ phase[r] = "join"
  /\ Tasks(r) \cap (1..N4) = {}
  /\ phase' = [phase EXCEPT ![r] = "ok"]
  /\ UNCHANGED <<next, rxSeen, task, seen, owner, channel, history>>

\* All handles have been awaited.
Return(r) ==
  /\ phase[r] = "join"
  /\ Tasks(r) = {}
  /\ phase' = [phase EXCEPT ![r] = "ok"]
  /\ UNCHANGED <<next, rxSeen, task, seen, owner, channel, history>>

-----------------------------------------------------------------------------
(* The loop of a task. *)

\* changed() is ready: the task leaves the loop if the value is true, and
\* with the task its socket is closed.
Notice(j) ==
  /\ task[j] = "select"
  /\ Changed(j)
  /\ seen' = [seen EXCEPT ![j] = version]
  /\ task' = [task EXCEPT ![j] = IF value THEN "none" ELSE "select"]
  /\ UNCHANGED <<phase, next, rxSeen, owner, channel, history>>

\* A plausible slip: select! without `biased'.
ReceiveUnbiased(j) ==
  /\ task[j] = "select"
  /\ task' = [task EXCEPT ![j] = "handling"]
  /\ UNCHANGED <<phase, next, rxSeen, seen, owner, channel, history>>

\* recv_from is ready and changed() is not: select! is biased.
Receive(j) ==
  /\ task[j] = "select"
  /\ ~Changed(j)
  /\ task' = [task EXCEPT ![j] = "handling"]
  /\ UNCHANGED <<phase, next, rxSeen, seen, owner, channel, history>>

\* The handler, its send_to included, is done.
Handled(j) ==
  /\ task[j] = "handling"
  /\ task' = [task EXCEPT ![j] = "select"]
  /\ UNCHANGED <<phase, next, rxSeen, seen, owner, channel, history>>

-----------------------------------------------------------------------------
\* RelayAgent::shutdown; the result of send is ignored.
Shutdown ==
  /\ calls < MaxShutdowns
  /\ calls' = calls + 1
  /\ WatchSend(TRUE)
  /\ asked' = asked \cup {<<r, phase[r]>> : r \in Runner}
  /\ UNCHANGED <<phase, next, rxSeen, task, seen, owner, before>>

RunStep(r) ==
  Run(r) \/ BindAndSpawn(r) \/ BindFails(r) \/ EnterV6(r) \/ Wait(r) \/ Return(r)

TaskStep(j) == Notice(j) \/ Receive(j) \/ Handled(j)

Next ==
  \/ \E r \in Runner : RunStep(r)
  \/ \E j \in Job : TaskStep(j)
  \/ Shutdown

\* The executor polls whatever is ready: a call of run() that can go on does,
\* and so does a task that was notified or whose handler can go on.  Nothing
\* is assumed of the arrival of packets, nor of the callers of run() and
\* shutdown().
Fairness ==
  /\ \A r \in Runner :
       WF_vars(BindAndSpawn(r) \/ BindFails(r) \/ EnterV6(r) \/ Wait(r) \/ Return(r))
  /\ \A j \in Job : WF_vars(Notice(j)) /\ WF_vars(Handled(j))

Spec == Init /\ [][Next]_vars /\ Fairness

-----------------------------------------------------------------------------
(* Properties *)

\* The types of the variables.
TypeOK ==
  /\ phase \in [Runner -> Phase]
  /\ next \in [Runner -> 1..(N4 + N6 + 1)]
  /\ rxSeen \in [Runner -> Nat]
  /\ task \in [Job -> TaskState]
  /\ seen \in [Job -> Nat]
  /\ owner \in [Job -> Runner \cup {NoRunner}]
  /\ value \in BOOLEAN
  /\ version \in Nat
  /\ calls \in 0..MaxShutdowns
  /\ asked \subseteq Runner \X Phase
  /\ before \in [Runner -> 0..MaxShutdowns]

\* When run() has returned Ok, none of the tasks it spawned is left: no
\* handler of its is still working on a packet and its sockets are free.
NoTaskOutlivesRun == \A r \in Runner : phase[r] = "ok" => Tasks(r) = {}

\* A shutdown stops nothing that is started later: a task ends only if
\* shutdown() was called after the call of run() that spawned it, so that
\* run() can be called again after a shutdown although the channel still
\* holds true.
NoStaleStop ==
  [][\A j \in Job : j \in Live /\ j \notin Live' =>
       calls > before[owner[j]]]_vars

\* Every task that has an unseen notification ends, a detached one included,
\* however many packets keep arriving.
NotifiedTaskStops ==
  \A j \in Job : (j \in Live /\ Changed(j)) ~> j \notin Live

\* shutdown() found the call r of run() in one of the given phases.
AskedIn(r, phases) == \E p \in phases : <<r, p>> \in asked

\* shutdown() called at any time of run() ends every DHCPv4 task of that run,
\* also the tasks that are spawned only after the call.
V4TasksStop ==
  \A r \in Runner : \A j \in Job :
    ( AskedIn(r, {"spawn4", "spawn6", "join"})
      /\ j <= N4 /\ j \in Live /\ owner[j] = r ) ~> ~(j \in Live /\ owner[j] = r)

\* shutdown() called once spawn_v6_tasks has subscribed makes run() return,
\* even if sockets are still being bound.
ShutdownAfterSubscribe ==
  \A r \in Runner : AskedIn(r, {"spawn6", "join"}) ~> phase[r] \in {"ok", "err"}

\* "Blocks until shutdown is called" (doc comment of run): if shutdown() is
\* called during a call of run(), that call returns.
ShutdownHeeded ==
  \A r \in Runner :
    AskedIn(r, {"spawn4", "spawn6", "join"}) ~> phase[r] \in {"ok", "err"}
=============================================================================
