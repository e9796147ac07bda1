------------------------ MODULE FuturePoolManagerRlxd ------------------------
(***************************************************************************)
(* The relaxed pool: a lane and a dispatcher loop per registry shard, one  *)
(* gate over all lanes, and a fast path on which submit itself starts the  *)
(* task.  A dispatcher takes its concurrency permit after it has dequeued, *)
(* from a fair gate it shares with the other dispatchers and with submit.  *)
(* The notifier and the registry are the components' own actions.          *)
(***************************************************************************)
EXTENDS DeferredRegistry, CompletionNotifier

CONSTANTS
  FutureOutcomes,  \* what the submitted futures may end with
  ShutdownModes,   \* the modes `shutdown` is called with
  TimeoutsFire     \* FALSE: tasks and handlers finish within the timeouts

ASSUME RlxdAssumption ==
  /\ FutureOutcomes \subseteq {"Success", "Panicked"}
  /\ ShutdownModes \subseteq {"Graceful", "ForcefulCancel"}
  /\ TimeoutsFire \in BOOLEAN
  /\ Managers # {}

VARIABLES
  shutdownToken,  \* the flag of the pool-wide CancellationToken
  permits,        \* free permits of the gate over the lanes
  waiters,        \* submit calls waiting at that gate, oldest first
  send,           \* where each submit call is
  lane,           \* the lane it looks at, then the one it was routed to
  nextLane,       \* the shared round-robin counter, modulo the lanes
  lanes,          \* the tasks in each lane's channel, oldest first
  producers,      \* clones whose senders are neither closed nor dropped
  cPermits,       \* free permits of the concurrency gate
  cWaiters,       \* dispatchers waiting at that gate, oldest first
  disp,           \* where each dispatcher loop is
  dtask,          \* the task it has dequeued
  mgr,            \* where each manager clone is
  first,          \* its shutdown found the token clear
  at,             \* the shard or join handle its loop has come to
  want,           \* the labels its cancel call is for
  todo,           \* the cores it has collected and not yet cancelled
  joinHandles,    \* the join handles have not been drained
  phase,          \* where each task's execution is
  cancelled,      \* each TaskCore's cancellation flag
  result          \* what each task's result channel delivers

gateVars == <<permits, waiters>>
routeVars == <<lane, nextLane>>
runGateVars == <<cPermits, cWaiters>>
dispVars == <<disp, dtask>>
loopVars == <<first, at, want, todo, joinHandles>>
taskVars == <<phase, cancelled, result>>
queueVars == <<shutdownToken, gateVars, send, routeVars, lanes, producers>>
managerVars == <<mgr, loopVars>>
vars == <<queueVars, runGateVars, dispVars, managerVars, taskVars, registryVars,
          notifierVars>>

\* What no step of a submit call, of a dispatcher, of a task, of the notifier, of
\* a manager's call and of its loops and waits changes.
submitFrame == <<shutdownToken, producers, cWaiters, dispVars, managerVars, cancelled,
                 result, registryVars, notifierVars>>
dispatchFrame == <<shutdownToken, waiters, send, routeVars, producers, managerVars,
                   cancelled, registryVars>>
taskFrame == <<shutdownToken, gateVars, routeVars, lanes, producers, cWaiters, managerVars>>
notifierFrame == <<queueVars, runGateVars, dispVars, managerVars, taskVars, registryVars>>
callFrame == <<gateVars, send, routeVars, lanes, runGateVars, dispVars, phase, result,
               registryVars>>
loopFrame == <<callFrame, shutdownToken, producers, notifierVars>>

-----------------------------------------------------------------------------
\* The points of a submit call: "probe", "direct" and "dispatching" are on the
\* fast path, the others on the way through the queue; then what it returned.
SubmitPoints == {"probe", "direct", "dispatching", "queueing", "gate", "token", "parked",
                 "holding"}
Refusals == {"PoolShuttingDown", "QueueSendChannelClosed", "abandoned"}

Live == {"idle", "label_collect", "label_cancel"}
InShutdown == {"shutdown_cancel", "shutdown_close", "shutdown_collect",
               "shutdown_cancelling", "shutdown_count", "shutdown_wait", "shutdown_take",
               "shutdown_join", "shutdown_sink", "shutdown_notifier",
               "shutdown_notifier_join", "shutdown_return"}
InDrop == {"drop_cancel", "drop_close", "drop_sink", "drop_fields"}
Gone == {"absent", "shut", "dropped"}

DispatcherPoints == {"top", "recv", "got", "cancelcheck", "prenotify", "acquire", "waiting",
                     "recheck", "spawning", "exiting", "exited"}

\* A task whose outcome is decided and not yet sent is in the phase of that name.
Phases == {"none", "spawning", "running", "resulted", "notified", "done"} \cup Statuses

RlxdTypeOK ==
  /\ RegistryTypeOK /\ NotifierTypeOK
  /\ shutdownToken \in BOOLEAN /\ joinHandles \in BOOLEAN
  /\ permits \in Nat /\ waiters \in Seq(Tasks)
  /\ cPermits \in Nat /\ cWaiters \in Seq(Lanes)
  /\ send \in [Tasks -> {"idle", "ok"} \cup SubmitPoints \cup Refusals]
  /\ lane \in [Tasks -> Lanes] /\ nextLane \in Lanes
  /\ lanes \in [Lanes -> Seq(Tasks)]
  /\ producers \subseteq Managers
  /\ disp \in [Lanes -> DispatcherPoints]
  /\ dtask \in [Lanes -> Tasks \cup {NoTask}]
  /\ mgr \in [Managers -> Live \cup InShutdown \cup InDrop \cup Gone]
  /\ first \in [Managers -> BOOLEAN] /\ at \in [Managers -> Lanes]
  /\ want \in [Managers -> SUBSET Labels] /\ todo \in [Managers -> SUBSET Tasks]
  /\ phase \in [Tasks -> Phases]
  /\ cancelled \in [Tasks -> BOOLEAN]
  /\ result \in [Tasks -> {"pending", "Closed"} \cup Statuses]

\* Mutant: the queue capacity is used as it is given.
QueuePermitsUnclamped == QueueCapacity

\* queue_capacity.max(1)
QueuePermits == IF QueueCapacity = 0 THEN 1 ELSE QueueCapacity

\* FuturePoolManagerRlxd::new, which also spawns the dispatcher loops.
Init ==
  /\ DeferredInit /\ NotifierInit
  /\ shutdownToken = FALSE /\ joinHandles = TRUE
  /\ permits = QueuePermits /\ waiters = <<>>
  /\ cPermits = ConcurrencyPermits /\ cWaiters = <<>>
  /\ send = [t \in Tasks |-> "idle"]
  /\ lane = [t \in Tasks |-> 0] /\ nextLane = 0
  /\ lanes = [l \in Lanes |-> <<>>]
  /\ \E m \in Managers :
       /\ producers = {m}
       /\ mgr = [n \in Managers |-> IF n = m THEN "idle" ELSE "absent"]
  /\ disp = [l \in Lanes |-> "top"]
  /\ dtask = [l \in Lanes |-> NoTask]
  /\ first = [m \in Managers |-> FALSE] /\ at = [m \in Managers |-> 0]
  /\ want = [m \in Managers |-> {}] /\ todo = [m \in Managers |-> {}]
  /\ phase = [t \in Tasks |-> "none"]
  /\ cancelled = [t \in Tasks |-> FALSE]
  /\ result = [t \in Tasks |-> "pending"]

-----------------------------------------------------------------------------
(***************************************************************************)
(* submit_inner and RlxdQueueProducer::send.  Both gates are fair: a       *)
(* permit goes to the oldest waiter, to a newcomer only if nobody waits.   *)
(***************************************************************************)
MayAcquire(t) == permits > 0 /\ (waiters = <<>> \/ Head(waiters) = t)
MayRun(l) == cPermits > 0 /\ (cWaiters = <<>> \/ Head(cWaiters) = l)
Waits(waitList, x) == \E i \in DOMAIN waitList : waitList[i] = x
Without(waitList, x) ==
  IF Waits(waitList, x)
  THEN LET k == CHOOSE i \in DOMAIN waitList : waitList[i] = x
       IN  [i \in 1..(Len(waitList) - 1) |-> waitList[IF i < k THEN i ELSE i + 1]]
  ELSE waitList
Joined(waitList, x) == IF Waits(waitList, x) THEN waitList ELSE Append(waitList, x)

Receiving(l) == disp[l] # "exited"
ShuttingDown == shutdownToken \/ \A l \in Lanes : ~Receiving(l)
SendTo(t, point) == send' = [send EXCEPT ![t] = point]

\* fetch_add on the shared counter; its wrap at 2^64 is left out.
Route(t) ==
  /\ lane' = [lane EXCEPT ![t] = nextLane]
  /\ nextLane' = (nextLane + 1) % LaneCount

Submit(t) ==
  /\ mgr[Submitter[t]] \in Live
  /\ send[t] = "idle"
  /\ SendTo(t, IF ShuttingDown THEN "PoolShuttingDown" ELSE "probe")
  /\ UNCHANGED <<submitFrame, gateVars, routeVars, lanes, cPermits, phase>>

\* len() adds up the lanes' lengths one after another; one that is not empty
\* settles the comparison with zero.
ProbeLane(t) ==
  /\ send[t] = "probe"
  /\ IF lanes[lane[t]] # <<>>
     THEN SendTo(t, "queueing") /\ UNCHANGED lane
     ELSE IF lane[t] + 1 < LaneCount
     THEN lane' = [lane EXCEPT ![t] = @ + 1] /\ UNCHANGED send
     ELSE SendTo(t, "direct") /\ UNCHANGED lane
  /\ UNCHANGED <<submitFrame, gateVars, nextLane, lanes, cPermits, phase>>

\* Mutant: the fast path takes a permit that is not there.
TryDirectUnchecked(t) ==
  /\ send[t] = "direct"
  /\ cPermits' = cPermits - 1
  /\ SendTo(t, "dispatching")
  /\ phase' = [phase EXCEPT ![t] = "spawning"]
  /\ Route(t)
  /\ UNCHANGED <<submitFrame, gateVars, lanes>>

\* try_acquire_owned; the shutdown token is not looked at again.
TryDirect(t) ==
  /\ send[t] = "direct"
  /\ IF cPermits > 0 /\ cWaiters = <<>>
     THEN /\ cPermits' = cPermits - 1
          /\ SendTo(t, "dispatching")
          /\ phase' = [phase EXCEPT ![t] = "spawning"]
          /\ Route(t)
     ELSE SendTo(t, "queueing") /\ UNCHANGED <<cPermits, phase, routeVars>>
  /\ UNCHANGED <<submitFrame, gateVars, lanes>>

\* The check at the head of send.
SendCheck(t) ==
  /\ send[t] = "queueing"
  /\ SendTo(t, IF ShuttingDown THEN "PoolShuttingDown" ELSE "gate")
  /\ UNCHANGED <<submitFrame, gateVars, routeVars, lanes, cPermits, phase>>

\* The gate's arm of the biased select comes first; a parked call is polled
\* again when the gate or the token wakes it.  A granted call routes its task.
PollGate(t) ==
  /\ \/ send[t] = "gate"
     \/ send[t] = "parked" /\ (shutdownToken \/ MayAcquire(t))
  /\ IF MayAcquire(t)
     THEN /\ permits' = permits - 1
          /\ waiters' = Without(waiters, t)
          /\ SendTo(t, "holding")
          /\ Route(t)
     ELSE /\ waiters' = Joined(waiters, t)
          /\ SendTo(t, "token")
          /\ UNCHANGED <<permits, routeVars>>
  /\ UNCHANGED <<submitFrame, lanes, cPermits, phase>>

\* The token's arm.
PollToken(t) ==
  /\ send[t] = "token"
  /\ SendTo(t, IF shutdownToken THEN "PoolShuttingDown" ELSE "parked")
  /\ waiters' = IF shutdownToken THEN Without(waiters, t) ELSE waiters
  /\ UNCHANGED <<submitFrame, routeVars, permits, lanes, cPermits, phase>>

\* Mutant: a failed send returns success.
LaneSendIgnoresError(t) ==
  /\ send[t] = "holding"
  /\ SendTo(t, "ok")
  /\ IF Receiving(lane[t])
     THEN lanes' = [lanes EXCEPT ![lane[t]] = Append(@, t)] /\ UNCHANGED permits
     ELSE permits' = permits + 2 /\ UNCHANGED lanes
  /\ UNCHANGED <<submitFrame, routeVars, waiters, cPermits, phase>>

\* The send.  On failure the message's permit and the temporary guard are both
\* dropped, so the gate is released twice.
LaneSend(t) ==
  /\ send[t] = "holding"
  /\ IF Receiving(lane[t])
     THEN /\ lanes' = [lanes EXCEPT ![lane[t]] = Append(@, t)]
          /\ SendTo(t, "ok")
          /\ UNCHANGED permits
     ELSE /\ permits' = permits + 2
          /\ SendTo(t, "QueueSendChannelClosed")
          /\ UNCHANGED lanes
  /\ UNCHANGED <<submitFrame, routeVars, waiters, cPermits, phase>>

SubmitStep(t) ==
  ProbeLane(t) \/ TryDirect(t) \/ SendCheck(t) \/ PollGate(t) \/ PollToken(t) \/ LaneSend(t)

\* The caller drops the future of a waiting submit.
AbandonSubmit(t) ==
  /\ send[t] = "parked"
  /\ SendTo(t, "abandoned")
  /\ waiters' = Without(waiters, t)
  /\ UNCHANGED <<submitFrame, routeVars, permits, lanes, cPermits, phase>>

-----------------------------------------------------------------------------
(***************************************************************************)
(* run_worker_loop of lane l.  A dequeued task that the loop drops has its *)
(* result channel closed.                                                  *)
(***************************************************************************)
Step(l, point) == disp' = [disp EXCEPT ![l] = point]
KeepTask == UNCHANGED <<dtask, result>>
DropTask(l) ==
  /\ dtask' = [dtask EXCEPT ![l] = NoTask]
  /\ result' = [result EXCEPT ![dtask[l]] = "Closed"]

DispatchTop(l) ==
  /\ disp[l] = "top"
  /\ Step(l, IF shutdownToken THEN "exiting" ELSE "recv")
  /\ UNCHANGED <<dispatchFrame, notifierVars, runGateVars, permits, lanes, dtask, phase, result>>

\* The arms of the first select.  Which of two ready arms wins does not matter:
\* a task received after the token was cancelled is dropped.
DispatchRecv(l) ==
  /\ disp[l] = "recv"
  /\ lanes[l] # <<>>
  /\ dtask' = [dtask EXCEPT ![l] = Head(lanes[l])]
  /\ lanes' = [lanes EXCEPT ![l] = Tail(@)]
  /\ Step(l, "got")
  /\ UNCHANGED <<dispatchFrame, notifierVars, runGateVars, permits, phase, result>>

DispatchStop(l) ==
  /\ disp[l] = "recv"
  /\ shutdownToken \/ (producers = {} /\ lanes[l] = <<>>)
  /\ Step(l, "exiting")
  /\ UNCHANGED <<dispatchFrame, notifierVars, runGateVars, permits, lanes, dtask, phase, result>>

\* Mutant: the message's permit outlives the message.
DispatchGotKeepsPermit(l) ==
  /\ disp[l] = "got"
  /\ IF shutdownToken THEN DropTask(l) /\ Step(l, "exiting")
     ELSE KeepTask /\ Step(l, "cancelcheck")
  /\ UNCHANGED <<dispatchFrame, notifierVars, runGateVars, permits, lanes, phase>>

\* The match on the received message, which releases its queue permit.
DispatchGot(l) ==
  /\ disp[l] = "got"
  /\ permits' = permits + 1
  /\ IF shutdownToken THEN DropTask(l) /\ Step(l, "exiting")
     ELSE KeepTask /\ Step(l, "cancelcheck")
  /\ UNCHANGED <<dispatchFrame, notifierVars, runGateVars, lanes, phase>>

DispatchCancelCheck(l) ==
  /\ disp[l] = "cancelcheck"
  /\ IF cancelled[dtask[l]]
     THEN /\ result' = [result EXCEPT ![dtask[l]] = "Cancelled"]
          /\ Step(l, "prenotify")
     ELSE Step(l, "acquire") /\ UNCHANGED result
  /\ UNCHANGED <<dispatchFrame, notifierVars, runGateVars, permits, lanes, dtask, phase>>

DispatchPreNotify(l) ==
  /\ disp[l] = "prenotify"
  /\ SendPreCancelled(dtask[l])
  /\ dtask' = [dtask EXCEPT ![l] = NoTask]
  /\ Step(l, "top")
  /\ UNCHANGED <<dispatchFrame, runGateVars, permits, lanes, phase, result>>

\* The arms of the second select: acquire_owned takes a permit or waits, ...
DispatchAcquire(l) ==
  /\ disp[l] = "acquire" \/ (disp[l] = "waiting" /\ MayRun(l))
  /\ IF MayRun(l)
     THEN /\ cPermits' = cPermits - 1
          /\ cWaiters' = Without(cWaiters, l)
          /\ Step(l, "recheck")
     ELSE /\ cWaiters' = Append(cWaiters, l)
          /\ Step(l, "waiting")
          /\ UNCHANGED cPermits
  /\ UNCHANGED <<dispatchFrame, notifierVars, permits, lanes, dtask, phase, result>>

\* Mutant: the wait is given up but stays in the gate's list, with the task.
DispatchGiveUpLeaks(l) ==
  /\ disp[l] = "waiting"
  /\ shutdownToken
  /\ dtask' = [dtask EXCEPT ![l] = NoTask]
  /\ Step(l, "exiting")
  /\ UNCHANGED <<dispatchFrame, notifierVars, runGateVars, permits, lanes, phase, result>>

\* ... and the token ends the wait and drops the dequeued task.
DispatchGiveUp(l) ==
  /\ disp[l] = "waiting"
  /\ shutdownToken
  /\ cWaiters' = Without(cWaiters, l)
  /\ DropTask(l)
  /\ Step(l, "exiting")
  /\ UNCHANGED <<dispatchFrame, notifierVars, permits, lanes, cPermits, phase>>

\* Mutant: the permit is not returned when the loop breaks here.
DispatchRecheckLeaks(l) ==
  /\ disp[l] = "recheck"
  /\ IF shutdownToken
     THEN DropTask(l) /\ Step(l, "exiting") /\ UNCHANGED phase
     ELSE phase' = [phase EXCEPT ![dtask[l]] = "spawning"] /\ KeepTask /\ Step(l, "spawning")
  /\ UNCHANGED <<dispatchFrame, notifierVars, runGateVars, permits, lanes>>

\* The last look at the token; past it the loop calls spawn_task.
DispatchRecheck(l) ==
  /\ disp[l] = "recheck"
  /\ IF shutdownToken
     THEN cPermits' = cPermits + 1 /\ DropTask(l) /\ Step(l, "exiting") /\ UNCHANGED phase
     ELSE /\ phase' = [phase EXCEPT ![dtask[l]] = "spawning"]
          /\ KeepTask /\ Step(l, "spawning") /\ UNCHANGED cPermits
  /\ UNCHANGED <<dispatchFrame, notifierVars, permits, lanes, cWaiters>>

StrongCount == Cardinality({m \in Managers : mgr[m] \notin Gone})

\* Mutant: the queued tasks' result senders outlive the receiver.
DispatchExitLeaks(l) ==
  /\ disp[l] = "exiting"
  /\ Step(l, "exited")
  /\ permits' = permits + Len(lanes[l])
  /\ lanes' = [lanes EXCEPT ![l] = <<>>]
  /\ UNCHANGED <<dispatchFrame, notifierVars, runGateVars, dtask, phase, result>>

\* The loop's future is dropped: its receiver with the queued messages, and the
\* sink with its last owner.
DispatchExit(l) ==
  /\ disp[l] = "exiting"
  /\ Step(l, "exited")
  /\ permits' = permits + Len(lanes[l])
  /\ lanes' = [lanes EXCEPT ![l] = <<>>]
  /\ result' = [t \in Tasks |-> IF \E i \in DOMAIN lanes[l] : lanes[l][i] = t
                                THEN "Closed" ELSE result[t]]
  /\ IF StrongCount = 0 /\ \A k \in Lanes \ {l} : disp[k] = "exited"
     THEN CloseSink ELSE UNCHANGED notifierVars
  /\ UNCHANGED <<dispatchFrame, runGateVars, dtask, phase>>

DispatchStep(l) ==
  \/ DispatchTop(l) \/ DispatchRecv(l) \/ DispatchStop(l) \/ DispatchGot(l)
  \/ DispatchCancelCheck(l) \/ DispatchPreNotify(l) \/ DispatchAcquire(l)
  \/ DispatchGiveUp(l) \/ DispatchRecheck(l) \/ DispatchExit(l)

-----------------------------------------------------------------------------
(***************************************************************************)
(* spawn_task, called by a dispatcher or by submit, and the spawned task.  *)
(***************************************************************************)
Become(t, point) == phase' = [phase EXCEPT ![t] = point]

SpawnInsert(t) ==
  /\ phase[t] = "spawning"
  /\ CountIn(lane[t], t) \/ InsertCore(lane[t], t)
  /\ UNCHANGED <<taskFrame, notifierVars, taskVars, dispVars, send, cPermits>>

\* Mutant: the task is spawned before its core is in a slot.
SpawnUnlisted(t) ==
  /\ phase[t] = "spawning"
  /\ entry[t] \in {"counted", "listed"}
  /\ CaptureSender(t)
  /\ Become(t, "running")
  /\ IF send[t] = "dispatching"
     THEN SendTo(t, "ok") /\ UNCHANGED dispVars
     ELSE Step(lane[t], "top") /\ dtask' = [dtask EXCEPT ![lane[t]] = NoTask] /\ UNCHANGED send
  /\ UNCHANGED <<taskFrame, registryVars, cPermits, cancelled, result>>

\* The task leaves with the permit and, if the sink is open, with a sender.
Spawn(t) ==
  /\ phase[t] = "spawning"
  /\ entry[t] = "listed"
  /\ CaptureSender(t)
  /\ Become(t, "running")
  /\ IF send[t] = "dispatching"
     THEN SendTo(t, "ok") /\ UNCHANGED dispVars
     ELSE Step(lane[t], "top") /\ dtask' = [dtask EXCEPT ![lane[t]] = NoTask] /\ UNCHANGED send
  /\ UNCHANGED <<taskFrame, registryVars, cPermits, cancelled, result>>

\* The select of the spawned future ends; its result is not sent yet.
Decide(t, outcome) ==
  /\ phase[t] = "running"
  /\ Become(t, outcome)
  /\ UNCHANGED <<taskFrame, notifierVars, registryVars, dispVars, send, cPermits, cancelled,
                 result>>

\* Mutant: the flag is not looked at when the future is ready.
FutureReadyUnchecked(t, outcome) == Decide(t, outcome)

\* The future is ready (or has panicked); a set flag still wins.
FutureReady(t, outcome) == Decide(t, IF cancelled[t] THEN "Cancelled" ELSE outcome)

\* The future is pending and the cancellation arm is ready.
CancelArm(t) == cancelled[t] /\ Decide(t, "Cancelled")

\* What was decided is sent, whatever has become of the flag since.
SendResult(t) ==
  /\ phase[t] \in Statuses
  /\ Become(t, "resulted")
  /\ result' = [result EXCEPT ![t] = phase[t]]
  /\ UNCHANGED <<taskFrame, notifierVars, registryVars, dispVars, send, cPermits, cancelled>>

NotifyCompletion(t) ==
  /\ phase[t] = "resulted"
  /\ SendCompletion(t, result[t])
  /\ Become(t, "notified")
  /\ UNCHANGED <<taskFrame, registryVars, dispVars, send, cPermits, cancelled, result>>

\* mark_finished, then finish.
Deregister(t) ==
  /\ phase[t] = "notified"
  /\ MarkFinished(t) \/ CountOut(t)
  /\ UNCHANGED <<taskFrame, notifierVars, taskVars, dispVars, send, cPermits>>

\* The permit guard is the last of the task's locals to go.
ReleasePermit(t) ==
  /\ phase[t] = "notified"
  /\ entry[t] = "left"
  /\ cPermits' = cPermits + 1
  /\ Become(t, "done")
  /\ UNCHANGED <<taskFrame, notifierVars, registryVars, dispVars, send, cancelled, result>>

TaskStep(t) ==
  \/ SpawnInsert(t) \/ Spawn(t) \/ CancelArm(t) \/ SendResult(t) \/ NotifyCompletion(t)
  \/ Deregister(t) \/ ReleasePermit(t)

NotifierProgress ==
  /\ NotifierStep
  /\ UNCHANGED notifierFrame

-----------------------------------------------------------------------------
(***************************************************************************)
(* What the application calls through a live clone or a handle.            *)
(***************************************************************************)
Goto(m, point) == mgr' = [mgr EXCEPT ![m] = point]

\* The next turn of a loop over the shards or the join handles, or its end.
Turn(m, after) ==
  IF at[m] + 1 < LaneCount
  THEN at' = [at EXCEPT ![m] = @ + 1] /\ UNCHANGED mgr
  ELSE at' = [at EXCEPT ![m] = 0] /\ Goto(m, after)

HandleCancel(t) ==
  /\ send[t] = "ok"
  /\ ~cancelled[t]
  /\ cancelled' = [cancelled EXCEPT ![t] = TRUE]
  /\ UNCHANGED <<loopFrame, managerVars>>

CancelByLabels(m, labels) ==
  /\ mgr[m] = "idle"
  /\ labels # {}
  /\ want' = [want EXCEPT ![m] = labels]
  /\ Goto(m, "label_collect")
  /\ UNCHANGED <<loopFrame, first, at, todo, joinHandles, cancelled>>

\* Label cancel and forceful shutdown collect the cores shard by shard, each
\* under its own read lock, before they cancel the first.
Collect(m) ==
  /\ mgr[m] \in {"label_collect", "shutdown_collect"}
  /\ LET found == IF mgr[m] = "label_collect" THEN ShardTokensMatching(at[m], want[m])
                  ELSE ShardTokens(at[m])
         after == IF mgr[m] = "label_collect" THEN "label_cancel" ELSE "shutdown_cancelling"
     IN  todo' = [todo EXCEPT ![m] = @ \cup found] /\ Turn(m, after)
  /\ UNCHANGED <<loopFrame, first, want, joinHandles, cancelled>>

\* The order in which the loop visits the cores is left open.
CancelCollected(m) ==
  /\ mgr[m] \in {"label_cancel", "shutdown_cancelling"}
  /\ IF todo[m] # {}
     THEN \E t \in todo[m] :
            /\ cancelled' = [cancelled EXCEPT ![t] = TRUE]
            /\ todo' = [todo EXCEPT ![m] = @ \ {t}]
            /\ UNCHANGED <<mgr, want>>
     ELSE /\ Goto(m, IF mgr[m] = "label_cancel" THEN "idle" ELSE "shutdown_count")
          /\ want' = [want EXCEPT ![m] = {}]
          /\ UNCHANGED <<todo, cancelled>>
  /\ UNCHANGED <<loopFrame, first, at, joinHandles>>

AddCompletionHandler(h) ==
  /\ mgr[Registrar[h]] \in Live
  /\ AddHandlerInit(h)
  /\ UNCHANGED notifierFrame

FinishAddHandler(h) ==
  /\ AddHandlerPush(h)
  /\ UNCHANGED notifierFrame

Clone(m, n) ==
  /\ mgr[m] \in Live
  /\ mgr[n] = "absent"
  /\ Goto(n, "idle")
  /\ producers' = producers \cup {n}
  /\ UNCHANGED <<callFrame, notifierVars, loopVars, shutdownToken, cancelled>>

\* Nothing borrows the clone, so it can be consumed or dropped.
Unborrowed(m) ==
  /\ mgr[m] = "idle"
  /\ \A t \in Tasks : Submitter[t] = m => send[t] \notin SubmitPoints
  /\ \A h \in Handlers : Registrar[h] = m => adding[h] # "initialized"

-----------------------------------------------------------------------------
(***************************************************************************)
(* shutdown(self, mode).  The mode matters only after the close.           *)
(***************************************************************************)
ShutdownBegin(m) ==
  /\ Unborrowed(m)
  /\ first' = [first EXCEPT ![m] = ~shutdownToken]
  /\ Goto(m, IF shutdownToken THEN "shutdown_count" ELSE "shutdown_cancel")
  /\ UNCHANGED <<loopFrame, at, want, todo, joinHandles, cancelled>>

\* shutdown and drop cancel the token and then close the senders.
SignalShutdown(m) ==
  /\ mgr[m] \in {"shutdown_cancel", "drop_cancel"}
  /\ shutdownToken' = TRUE
  /\ Goto(m, IF mgr[m] = "shutdown_cancel" THEN "shutdown_close" ELSE "drop_close")
  /\ UNCHANGED <<callFrame, notifierVars, loopVars, producers, cancelled>>

CloseQueue(m) ==
  /\ mgr[m] \in {"shutdown_close", "drop_close"}
  /\ producers' = producers \ {m}
  /\ \E mode \in ShutdownModes :
       Goto(m, IF mgr[m] = "drop_close" THEN "drop_sink"
               ELSE IF mode = "ForcefulCancel" THEN "shutdown_collect" ELSE "shutdown_count")
  /\ UNCHANGED <<callFrame, notifierVars, loopVars, shutdownToken, cancelled>>

\* active_task_count adds up the shards one after another; one that is not zero
\* settles it.  The first sum decides whether to wait, a later one ends the wait.
ShutdownCount(m) ==
  /\ mgr[m] \in {"shutdown_count", "shutdown_wait"}
  /\ IF inFlight[at[m]] > 0
     THEN at' = [at EXCEPT ![m] = 0] /\ Goto(m, "shutdown_wait")
     ELSE Turn(m, "shutdown_take")
  /\ UNCHANGED <<loopFrame, first, want, todo, joinHandles, cancelled>>

\* The handles are drained; a later caller finds none.
ShutdownTake(m) ==
  /\ mgr[m] = "shutdown_take"
  /\ joinHandles' = FALSE
  /\ Goto(m, IF joinHandles THEN "shutdown_join" ELSE "shutdown_sink")
  /\ UNCHANGED <<loopFrame, first, at, want, todo, cancelled>>

\* Mutant: one handle is joined and the others are dropped.
ShutdownJoinOne(m) ==
  /\ mgr[m] = "shutdown_join"
  /\ disp[at[m]] = "exited"
  /\ Goto(m, "shutdown_sink")
  /\ UNCHANGED <<loopFrame, loopVars, cancelled>>

ShutdownJoin(m) ==
  /\ mgr[m] = "shutdown_join"
  /\ disp[at[m]] = "exited"
  /\ Turn(m, "shutdown_sink")
  /\ UNCHANGED <<loopFrame, first, want, todo, joinHandles, cancelled>>

ShutdownSink(m) ==
  /\ mgr[m] = "shutdown_sink"
  /\ IF first[m] THEN CloseSink ELSE UNCHANGED notifierVars
  /\ Goto(m, "shutdown_notifier")
  /\ UNCHANGED <<callFrame, loopVars, shutdownToken, producers, cancelled>>

ShutdownNotifier(m) ==
  /\ mgr[m] = "shutdown_notifier"
  /\ TakeNotifierHandle
  /\ Goto(m, IF notifierHandle THEN "shutdown_notifier_join" ELSE "shutdown_return")
  /\ UNCHANGED <<callFrame, loopVars, shutdownToken, producers, cancelled>>

ShutdownNotifierJoined(m) ==
  /\ mgr[m] = "shutdown_notifier_join"
  /\ nworker = "stopped"
  /\ Goto(m, "shutdown_return")
  /\ UNCHANGED <<loopFrame, loopVars, cancelled>>

\* Mutant: the wait for the active tasks has no timeout.
ShutdownTimeoutJoinsOnly(m) ==
  /\ TimeoutsFire
  /\ \/ mgr[m] = "shutdown_join" /\ Turn(m, "shutdown_sink")
     \/ mgr[m] = "shutdown_notifier_join" /\ Goto(m, "shutdown_return") /\ UNCHANGED at
  /\ UNCHANGED <<loopFrame, first, want, todo, joinHandles, cancelled>>

\* The 30 s wait for tasks and the 5 s joins give up and go on.
ShutdownTimeout(m) ==
  /\ TimeoutsFire
  /\ \/ /\ mgr[m] = "shutdown_wait"
        /\ at' = [at EXCEPT ![m] = 0]
        /\ Goto(m, "shutdown_take")
     \/ mgr[m] = "shutdown_join" /\ Turn(m, "shutdown_sink")
     \/ mgr[m] = "shutdown_notifier_join" /\ Goto(m, "shutdown_return") /\ UNCHANGED at
  /\ UNCHANGED <<loopFrame, first, want, todo, joinHandles, cancelled>>

ShutdownStep(m) ==
  \/ ShutdownCount(m) \/ ShutdownTake(m) \/ ShutdownJoin(m) \/ ShutdownSink(m)
  \/ ShutdownNotifier(m) \/ ShutdownNotifierJoined(m) \/ ShutdownTimeout(m)

-----------------------------------------------------------------------------
(***************************************************************************)
(* Drop.  Every clone ends by dropping its fields; the sink goes with its  *)
(* last owner, a clone or a dispatcher.                                    *)
(***************************************************************************)
DropBegin(m) ==
  /\ Unborrowed(m)
  /\ Goto(m, IF StrongCount > 1 \/ shutdownToken THEN "drop_fields" ELSE "drop_cancel")
  /\ UNCHANGED <<loopFrame, loopVars, cancelled>>

DropSink(m) ==
  /\ mgr[m] = "drop_sink"
  /\ CloseSink
  /\ Goto(m, "drop_fields")
  /\ UNCHANGED <<callFrame, loopVars, shutdownToken, producers, cancelled>>

DropFields(m) ==
  /\ mgr[m] \in {"drop_fields", "shutdown_return"}
  /\ producers' = producers \ {m}
  /\ IF StrongCount = 1 /\ \A l \in Lanes : disp[l] = "exited"
     THEN CloseSink ELSE UNCHANGED notifierVars
  /\ Goto(m, IF mgr[m] = "shutdown_return" THEN "shut" ELSE "dropped")
  /\ UNCHANGED <<callFrame, loopVars, shutdownToken, cancelled>>

\* The rest of a call that a manager clone has begun.
ManagerStep(m) ==
  \/ Collect(m) \/ CancelCollected(m) \/ SignalShutdown(m) \/ CloseQueue(m)
  \/ ShutdownStep(m) \/ DropSink(m) \/ DropFields(m)

UserStep ==
  \/ \E t \in Tasks : Submit(t) \/ AbandonSubmit(t) \/ HandleCancel(t)
  \/ \E h \in Handlers : AddCompletionHandler(h)
  \/ \E m \in Managers, labels \in SUBSET Labels : CancelByLabels(m, labels)
  \/ \E m, n \in Managers : Clone(m, n)
  \/ \E m \in Managers : ShutdownBegin(m) \/ DropBegin(m)

\* Everything has stopped and nobody can start anything again.
Terminated ==
  /\ \A m \in Managers : mgr[m] \in Gone
  /\ \A l \in Lanes : disp[l] = "exited"
  /\ \A t \in Tasks : phase[t] \in {"none", "done"}
  /\ nworker \in {"none", "stopped"}
  /\ UNCHANGED vars

Next ==
  \/ UserStep
  \/ \E t \in Tasks : SubmitStep(t) \/ TaskStep(t)
  \/ \E t \in Tasks, outcome \in FutureOutcomes : FutureReady(t, outcome)
  \/ \E h \in Handlers : FinishAddHandler(h)
  \/ \E m \in Managers : ManagerStep(m)
  \/ \E l \in Lanes : DispatchStep(l)
  \/ NotifierProgress
  \/ Terminated

Spec == Init /\ [][Next]_vars

\* As for the strict pool: what the runtime polls is fair, what the application
\* starts is not.  That futures end by themselves is no part of it: the
\* properties that need it say so.
RlxdFairness ==
  /\ WF_vars(NotifierProgress)
  /\ \A l \in Lanes : WF_vars(DispatchStep(l))
  /\ \A t \in Tasks : WF_vars(SubmitStep(t)) /\ WF_vars(TaskStep(t))
  /\ \A h \in Handlers : WF_vars(FinishAddHandler(h))
  /\ \A m \in Managers : WF_vars(ManagerStep(m))

FairSpec == Spec /\ RlxdFairness

FuturesEnd ==
  \A t \in Tasks : WF_vars(\E outcome \in FutureOutcomes : FutureReady(t, outcome))

-----------------------------------------------------------------------------
Running == {t \in Tasks : phase[t] = "running"}
Decided == {t \in Tasks : phase[t] \in Statuses}

(***************************************************************************)
(* Every concurrency permit is free, held by a dispatcher that has just    *)
(* taken it, or held by one task that is being spawned, runs or is         *)
(* finishing; a dispatcher that waits for a task or for capacity holds     *)
(* none, so an idle lane takes nothing from the others.                    *)
(***************************************************************************)
RunPermitConservation ==
  cPermits + Cardinality({t \in Tasks : phase[t] \notin {"none", "done"}})
           + Cardinality({l \in Lanes : disp[l] = "recheck"}) = ConcurrencyPermits

(***************************************************************************)
(* The gate over all lanes: every permit is free, held by a sending call,  *)
(* or travels with one message, in whichever lane; a send that failed has  *)
(* released one too many.  With receivers alive the lanes together hold at *)
(* most queue_capacity tasks.                                              *)
(***************************************************************************)
Queued == {t \in Tasks : \E l \in Lanes : \E i \in DOMAIN lanes[l] : lanes[l][i] = t}

LanePermitAccounting ==
  permits + Cardinality({t \in Tasks : send[t] = "holding"}) + Cardinality(Queued)
          + Cardinality({l \in Lanes : disp[l] = "got"})
    = QueuePermits + Cardinality({t \in Tasks : send[t] = "QueueSendChannelClosed"})

(***************************************************************************)
(* An accepted task without a result is in exactly one place that will     *)
(* produce it: its own lane, that lane's dispatcher or a spawned future;   *)
(* any other task is in none.                                              *)
(***************************************************************************)
TaskInOnePlace ==
  \A t \in Tasks :
    Cardinality({i \in 1..Cardinality(Tasks) : /\ i \in DOMAIN lanes[lane[t]]
                                               /\ lanes[lane[t]][i] = t})
      + Cardinality({l \in Lanes : dtask[l] = t /\ disp[l] # "prenotify"})
      + Cardinality({t} \cap (Running \cup Decided))
    = IF send[t] = "ok" /\ result[t] = "pending" THEN 1 ELSE 0

(***************************************************************************)
(* A lane whose dispatcher has left strands nothing, although the other    *)
(* lanes may go on and submits may still be routed to it.                  *)
(***************************************************************************)
LaneLeavesNothing ==
  \A t \in Tasks :
    send[t] = "ok" /\ result[t] = "pending" /\ ~Receiving(lane[t])
      => t \in Running \cup Decided

(***************************************************************************)
(* A running task can be found, whatever is swept and inserted around it:  *)
(* a label cancel or a forceful shutdown that reads its shard gets its     *)
(* token, and the shard's count is not zero.                               *)
(***************************************************************************)
RunningTaskFound ==
  \A t \in Running : t \in ShardTokens(lane[t]) /\ inFlight[lane[t]] > 0

(***************************************************************************)
(* Lazy reclamation never costs memory: a task is marked finished before   *)
(* its permit is released, so an insert always finds a slot to sweep and   *)
(* no shard's array outgrows the capacity it was created with.             *)
(***************************************************************************)
SlotsWithinLimit == \A l \in Lanes : Len(shardSlots[l]) <= ConcurrencyPermits

(***************************************************************************)
(* When a shutdown returns and no timeout fired, every dispatcher has      *)
(* exited, or the caller that drained the join handles is still joining    *)
(* them; a later caller does not make the handles disappear.  The shutdown *)
(* of a pool's only clone has joined the notifier as well, and every       *)
(* completion was delivered, also of a task that was spawned in a shard    *)
(* the count had already passed.                                           *)
(***************************************************************************)
ShutdownJoinsAll ==
  \A m \in Managers : ~TimeoutsFire /\ mgr[m] = "shut" =>
    /\ \/ \A l \in Lanes : disp[l] = "exited"
       \/ \E n \in Managers : mgr[n] = "shutdown_join"
    /\ (\A n \in Managers \ {m} : mgr[n] = "absent") =>
         nworker \in {"none", "stopped"} /\ nqueue = <<>> /\ txs = {}

(***************************************************************************)
(* The relaxed pool keeps the promises of the strict one about every task: *)
(* it implements the same abstract life of a task.                         *)
(***************************************************************************)
LifeStage(t) ==
  CASE send[t] \in Refusals -> "refused"
    [] result[t] # "pending" -> "ended"
    [] phase[t] = "running" -> "running"
    [] phase[t] \in Statuses -> "decided"
    [] send[t] = "ok" /\ result[t] = "pending" /\ t \notin Running \cup Decided -> "accepted"
    [] OTHER -> "new"

LifeOutcome(t) == IF phase[t] \in Statuses THEN phase[t] ELSE result[t]

Life == INSTANCE TaskLifecycle WITH
  Limit <- ConcurrencyPermits,
  stage <- [t \in Tasks |-> LifeStage(t)],
  asked <- cancelled,
  outcome <- [t \in Tasks |-> LifeOutcome(t)],
  closing <- shutdownToken

RlxdImplementsLifecycle == Life!LifeSpec

(***************************************************************************)
(* If futures end, every handle resolves, whichever path its task took and *)
(* without any shutdown to flush it out.                                   *)
(***************************************************************************)
RlxdHandlesResolve == FuturesEnd => \A t \in Tasks : send[t] = "ok" ~> result[t] # "pending"

(***************************************************************************)
(* If futures end, every submit call returns, even to a pool whose sizes   *)
(* were all given as zero.                                                 *)
(***************************************************************************)
RlxdSubmitReturns ==
  FuturesEnd => \A t \in Tasks : send[t] \in SubmitPoints ~> send[t] \notin SubmitPoints

(***************************************************************************)
(* A shutdown that has begun returns, by its timeouts even if some future  *)
(* never ends.                                                             *)
(***************************************************************************)
RlxdShutdownReturns == \A m \in Managers : mgr[m] \in InShutdown ~> mgr[m] = "shut"

(***************************************************************************)
(* Once the last clone is gone, by shutdown or by drop, every dispatcher,  *)
(* every task and the notifier come to an end, if futures end.             *)
(***************************************************************************)
RlxdWindsDown ==
  FuturesEnd =>
    ((\A m \in Managers : mgr[m] \in Gone)
       ~> /\ \A l \in Lanes : disp[l] = "exited"
          /\ nworker \in {"none", "stopped"}
          /\ \A t \in Tasks : phase[t] \in {"none", "done"})
=============================================================================
