-------------------------- MODULE FuturePoolManager --------------------------
(***************************************************************************)
(* The strict pool: the task queue, the registry of active tasks and the   *)
(* completion notifier, put together by the manager's clones, the single   *)
(* worker loop and the spawned tasks.  An action of the pool is the action *)
(* of each component it calls, conjoined with what the pool itself does,   *)
(* so the pool implements every component's specification.                 *)
(***************************************************************************)
EXTENDS TaskQueue, ActiveSlots, CompletionNotifier

CONSTANTS
  FutureOutcomes,  \* what the submitted futures may end with
  ShutdownModes,   \* the modes `shutdown` is called with
  TimeoutsFire     \* FALSE: tasks and handlers finish within the timeouts

ASSUME PoolAssumption ==
  /\ FutureOutcomes \subseteq {"Success", "Panicked"}
  /\ ShutdownModes \subseteq {"Graceful", "ForcefulCancel"}
  /\ TimeoutsFire \in BOOLEAN
  /\ Managers # {}

VARIABLES
  mgr,           \* where each manager clone is
  first,         \* the clone's shutdown found the token clear
  mode,          \* the mode its shutdown was called with
  todo,          \* the cores it has collected and not yet cancelled
  timedOut,      \* a timeout of its shutdown has fired
  workerHandle,  \* the worker's join handle has not been taken
  worker,        \* where the worker loop is
  wtask,         \* the task the worker has dequeued
  cPermits,      \* free permits of the concurrency gate
  phase,         \* where each spawned task is
  cancelled,     \* each TaskCore's cancellation flag
  result         \* what each task's result channel delivers

callVars == <<first, mode, todo, timedOut, workerHandle>>
managerVars == <<mgr, callVars>>
workerVars == <<worker, wtask>>
taskVars == <<phase, cancelled, result>>
execVars == <<workerVars, cPermits, taskVars>>
poolVars == <<managerVars, execVars>>
vars == <<queueVars, slotsVars, notifierVars, poolVars>>

-----------------------------------------------------------------------------
(***************************************************************************)
(* Manager clones.  "idle" and "labelling" are live values; the shutdown_* *)
(* and drop_* points are inside `shutdown` and `drop`; the last two are    *)
(* clones that are gone.                                                   *)
(***************************************************************************)
Live == {"idle", "labelling"}
InShutdown == {"shutdown_cancel", "shutdown_close", "shutdown_sweep",
               "shutdown_cancelling", "shutdown_probe", "shutdown_wait",
               "shutdown_take", "shutdown_join", "shutdown_sink",
               "shutdown_notifier", "shutdown_notifier_join", "shutdown_return"}
InDrop == {"drop_cancel", "drop_close", "drop_sink", "drop_fields"}
Gone == {"shut", "dropped"}

\* Worker points at which the loop body owns a concurrency permit.
WorkerHolds == {"recheck", "recv", "got", "cancelcheck", "prenotify", "insert", "spawn"}
WorkerPoints == {"top", "acquire", "exiting", "exited"} \cup WorkerHolds

\* The results that are sent, and the sender dropped without sending.
Outcomes == Statuses \cup {"Closed"}

\* Phases in which a spawned task owns a permit, and those before it ends.  A
\* task whose outcome is decided and not yet sent is in the phase of that name.
PermitPhases == {"running"} \cup Statuses \cup {"resulted", "notified"}
SpawnedPhases == PermitPhases \cup {"released"}

ManagersTypeOK ==
  /\ mgr \in [Managers -> {"absent"} \cup Live \cup InShutdown \cup InDrop \cup Gone]
  /\ first \in [Managers -> BOOLEAN]
  /\ mode \in [Managers -> ShutdownModes \cup {"none"}]
  /\ todo \in [Managers -> SUBSET Tasks]
  /\ timedOut \in [Managers -> BOOLEAN]
  /\ workerHandle \in BOOLEAN

WorkerTypeOK ==
  /\ worker \in WorkerPoints
  /\ wtask \in Tasks \cup {NoTask}
  /\ cPermits \in Nat

TasksTypeOK ==
  /\ phase \in [Tasks -> {"none", "done"} \cup SpawnedPhases]
  /\ cancelled \in [Tasks -> BOOLEAN]
  /\ result \in [Tasks -> {"pending"} \cup Outcomes]

TypeOK ==
  /\ QueueTypeOK /\ SlotsTypeOK /\ NotifierTypeOK
  /\ ManagersTypeOK /\ WorkerTypeOK /\ TasksTypeOK

\* FuturePoolManager::new, which also spawns the worker loop.
Init ==
  /\ QueueInit /\ SlotsInit /\ NotifierInit
  /\ mgr = [m \in Managers |-> IF m \in producers THEN "idle" ELSE "absent"]
  /\ first = [m \in Managers |-> FALSE]
  /\ mode = [m \in Managers |-> "none"]
  /\ todo = [m \in Managers |-> {}]
  /\ timedOut = [m \in Managers |-> FALSE]
  /\ workerHandle = TRUE
  /\ worker = "top"
  /\ wtask = NoTask
  /\ cPermits = ConcurrencyPermits
  /\ phase = [t \in Tasks |-> "none"]
  /\ cancelled = [t \in Tasks |-> FALSE]
  /\ result = [t \in Tasks |-> "pending"]

-----------------------------------------------------------------------------
(***************************************************************************)
(* What the application calls through a live clone.                        *)
(***************************************************************************)
Submit(t) ==
  /\ mgr[Submitter[t]] \in Live
  /\ SubmitCheck(t)
  /\ UNCHANGED <<slotsVars, notifierVars, poolVars>>

SubmitProgress(t) ==
  /\ SubmitStep(t)
  /\ UNCHANGED <<slotsVars, notifierVars, poolVars>>

SubmitDropped(t) ==
  /\ AbandonSubmit(t)
  /\ UNCHANGED <<slotsVars, notifierVars, poolVars>>

\* TaskHandle::cancel, through the handle a successful submit returned.
HandleCancel(t) ==
  /\ send[t] = "ok"
  /\ ~cancelled[t]
  /\ cancelled' = [cancelled EXCEPT ![t] = TRUE]
  /\ UNCHANGED <<queueVars, slotsVars, notifierVars, managerVars, workerVars, cPermits,
                 phase, result>>

\* cancel_tasks_by_labels: the matching cores are collected under the read
\* lock; an empty label set returns at once.
CancelByLabels(m, labels) ==
  /\ mgr[m] = "idle"
  /\ labels # {}
  /\ TokensMatching(labels) # {}
  /\ mgr' = [mgr EXCEPT ![m] = "labelling"]
  /\ todo' = [todo EXCEPT ![m] = TokensMatching(labels)]
  /\ UNCHANGED <<queueVars, slotsVars, notifierVars, first, mode, timedOut, workerHandle,
                 execVars>>

\* The loop over the collected cores, shared by cancel-by-label and the
\* forceful shutdown; the order in which it visits them is left open.
CancelCollected(m, t) ==
  /\ mgr[m] \in {"labelling", "shutdown_cancelling"}
  /\ t \in todo[m]
  /\ cancelled' = [cancelled EXCEPT ![t] = TRUE]
  /\ todo' = [todo EXCEPT ![m] = @ \ {t}]
  /\ mgr' = [mgr EXCEPT ![m] = IF todo[m] # {t} THEN @
                               ELSE IF @ = "labelling" THEN "idle" ELSE "shutdown_probe"]
  /\ UNCHANGED <<queueVars, slotsVars, notifierVars, first, mode, timedOut, workerHandle,
                 workerVars, cPermits, phase, result>>

AddCompletionHandler(h) ==
  /\ mgr[Registrar[h]] \in Live
  /\ AddHandlerInit(h)
  /\ UNCHANGED <<queueVars, slotsVars, poolVars>>

FinishAddHandler(h) ==
  /\ AddHandlerPush(h)
  /\ UNCHANGED <<queueVars, slotsVars, poolVars>>

Clone(m, n) ==
  /\ mgr[m] \in Live
  /\ mgr[n] = "absent"
  /\ mgr' = [mgr EXCEPT ![n] = "idle"]
  /\ CloneProducer(m, n)
  /\ UNCHANGED <<slotsVars, notifierVars, callVars, execVars>>

\* Nothing borrows the clone, so it can be consumed or dropped.
Unborrowed(m) ==
  /\ mgr[m] = "idle"
  /\ NoCallThrough(m)
  /\ \A h \in Handlers : Registrar[h] = m => adding[h] # "initialized"

-----------------------------------------------------------------------------
(***************************************************************************)
(* shutdown(self, mode).                                                   *)
(***************************************************************************)
Goto(m, point) == mgr' = [mgr EXCEPT ![m] = point]

ShutdownBegin(m, shutdownMode) ==
  /\ Unborrowed(m)
  /\ first' = [first EXCEPT ![m] = ~shutdownToken]
  /\ mode' = [mode EXCEPT ![m] = shutdownMode]
  /\ Goto(m, IF shutdownToken THEN "shutdown_probe" ELSE "shutdown_cancel")
  /\ UNCHANGED <<queueVars, slotsVars, notifierVars, todo, timedOut, workerHandle,
                 execVars>>

ShutdownCancel(m) ==
  /\ mgr[m] = "shutdown_cancel"
  /\ CancelShutdownToken
  /\ Goto(m, "shutdown_close")
  /\ UNCHANGED <<slotsVars, notifierVars, callVars, execVars>>

ShutdownClose(m) ==
  /\ mgr[m] = "shutdown_close"
  /\ CloseProducer(m)
  /\ Goto(m, IF mode[m] = "ForcefulCancel" THEN "shutdown_sweep" ELSE "shutdown_probe")
  /\ UNCHANGED <<slotsVars, notifierVars, callVars, execVars>>

ShutdownSweep(m) ==
  /\ mgr[m] = "shutdown_sweep"
  /\ todo' = [todo EXCEPT ![m] = ActiveTokens]
  /\ Goto(m, IF ActiveTokens = {} THEN "shutdown_probe" ELSE "shutdown_cancelling")
  /\ UNCHANGED <<queueVars, slotsVars, notifierVars, first, mode, timedOut, workerHandle,
                 execVars>>

\* The first look at the registry decides whether to wait at all.
ShutdownProbe(m) ==
  /\ mgr[m] = "shutdown_probe"
  /\ Goto(m, IF ActiveLen > 0 THEN "shutdown_wait" ELSE "shutdown_take")
  /\ UNCHANGED <<queueVars, slotsVars, notifierVars, callVars, execVars>>

\* Mutant: the loop is not left when the registry is empty.
ShutdownWaitedNoBreak(m) ==
  /\ mgr[m] = "shutdown_wait"
  /\ ActiveLen = 0
  /\ UNCHANGED vars

ShutdownWaited(m) ==
  /\ mgr[m] = "shutdown_wait"
  /\ ActiveLen = 0
  /\ Goto(m, "shutdown_take")
  /\ UNCHANGED <<queueVars, slotsVars, notifierVars, callVars, execVars>>

\* Mutant: the join handle is taken and dropped.
ShutdownTakeDetaches(m) ==
  /\ mgr[m] = "shutdown_take"
  /\ workerHandle' = FALSE
  /\ Goto(m, "shutdown_sink")
  /\ UNCHANGED <<queueVars, slotsVars, notifierVars, first, mode, todo, timedOut, execVars>>

\* The worker's join handle is taken; a later caller finds none.
ShutdownTake(m) ==
  /\ mgr[m] = "shutdown_take"
  /\ workerHandle' = FALSE
  /\ Goto(m, IF workerHandle THEN "shutdown_join" ELSE "shutdown_sink")
  /\ UNCHANGED <<queueVars, slotsVars, notifierVars, first, mode, todo, timedOut, execVars>>

ShutdownJoined(m) ==
  /\ mgr[m] = "shutdown_join"
  /\ worker = "exited"
  /\ Goto(m, "shutdown_sink")
  /\ UNCHANGED <<queueVars, slotsVars, notifierVars, callVars, execVars>>

ShutdownSink(m) ==
  /\ mgr[m] = "shutdown_sink"
  /\ IF first[m] THEN CloseSink ELSE UNCHANGED notifierVars
  /\ Goto(m, "shutdown_notifier")
  /\ UNCHANGED <<queueVars, slotsVars, callVars, execVars>>

ShutdownNotifier(m) ==
  /\ mgr[m] = "shutdown_notifier"
  /\ TakeNotifierHandle
  /\ Goto(m, IF notifierHandle THEN "shutdown_notifier_join" ELSE "shutdown_return")
  /\ UNCHANGED <<queueVars, slotsVars, callVars, execVars>>

ShutdownNotifierJoined(m) ==
  /\ mgr[m] = "shutdown_notifier_join"
  /\ nworker = "stopped"
  /\ Goto(m, "shutdown_return")
  /\ UNCHANGED <<queueVars, slotsVars, notifierVars, callVars, execVars>>

\* The 30 s wait for tasks and the two 5 s joins give up and go on.
AfterTimeout(point) ==
  CASE point = "shutdown_wait" -> "shutdown_take"
    [] point = "shutdown_join" -> "shutdown_sink"
    [] point = "shutdown_notifier_join" -> "shutdown_return"

ShutdownTimeout(m) ==
  /\ TimeoutsFire
  /\ mgr[m] \in {"shutdown_wait", "shutdown_join", "shutdown_notifier_join"}
  /\ timedOut' = [timedOut EXCEPT ![m] = TRUE]
  /\ Goto(m, AfterTimeout(mgr[m]))
  /\ UNCHANGED <<queueVars, slotsVars, notifierVars, first, mode, todo, workerHandle,
                 execVars>>

-----------------------------------------------------------------------------
(***************************************************************************)
(* Drop.  Every clone, consumed by shutdown or not, ends by dropping its   *)
(* fields; the sink goes when its last owner (a clone or the worker) does. *)
(***************************************************************************)
StrongCount == Cardinality({m \in Managers : mgr[m] \notin {"absent"} \cup Gone})

DropBegin(m) ==
  /\ Unborrowed(m)
  /\ Goto(m, IF StrongCount > 1 \/ shutdownToken THEN "drop_fields" ELSE "drop_cancel")
  /\ UNCHANGED <<queueVars, slotsVars, notifierVars, callVars, execVars>>

DropCancel(m) ==
  /\ mgr[m] = "drop_cancel"
  /\ CancelShutdownToken
  /\ Goto(m, "drop_close")
  /\ UNCHANGED <<slotsVars, notifierVars, callVars, execVars>>

DropClose(m) ==
  /\ mgr[m] = "drop_close"
  /\ CloseProducer(m)
  /\ Goto(m, "drop_sink")
  /\ UNCHANGED <<slotsVars, notifierVars, callVars, execVars>>

DropSink(m) ==
  /\ mgr[m] = "drop_sink"
  /\ CloseSink
  /\ Goto(m, "drop_fields")
  /\ UNCHANGED <<queueVars, slotsVars, callVars, execVars>>

DropFields(m) ==
  /\ mgr[m] \in {"drop_fields", "shutdown_return"}
  /\ CloseProducer(m)
  /\ IF StrongCount = 1 /\ worker = "exited" THEN CloseSink ELSE UNCHANGED notifierVars
  /\ Goto(m, IF mgr[m] = "shutdown_return" THEN "shut" ELSE "dropped")
  /\ UNCHANGED <<slotsVars, callVars, execVars>>

-----------------------------------------------------------------------------
(***************************************************************************)
(* run_worker_loop.  Leaving the loop body drops the permit it owns.       *)
(***************************************************************************)
WorkerTop ==
  /\ worker = "top"
  /\ worker' = IF shutdownToken THEN "exiting" ELSE "acquire"
  /\ UNCHANGED <<queueVars, slotsVars, notifierVars, managerVars, wtask, cPermits,
                 taskVars>>

\* Mutant: the loop goes on without waiting for a permit.
WorkerAcquireUncounted ==
  /\ worker = "acquire"
  /\ cPermits' = cPermits - 1
  /\ worker' = "recheck"
  /\ UNCHANGED <<queueVars, slotsVars, notifierVars, managerVars, wtask, taskVars>>

WorkerAcquire ==
  /\ worker = "acquire"
  /\ cPermits > 0
  /\ cPermits' = cPermits - 1
  /\ worker' = "recheck"
  /\ UNCHANGED <<queueVars, slotsVars, notifierVars, managerVars, wtask, taskVars>>

\* The token arm of either select.
WorkerStop ==
  /\ worker \in {"acquire", "recv"}
  /\ shutdownToken
  /\ worker' = "exiting"
  /\ cPermits' = IF worker = "recv" THEN cPermits + 1 ELSE cPermits
  /\ UNCHANGED <<queueVars, slotsVars, notifierVars, managerVars, wtask, taskVars>>

\* Mutant: the permit is not returned when the recheck breaks the loop.
WorkerRecheckLeaks ==
  /\ worker = "recheck"
  /\ worker' = IF shutdownToken THEN "exiting" ELSE "recv"
  /\ UNCHANGED <<queueVars, slotsVars, notifierVars, managerVars, wtask, cPermits,
                 taskVars>>

WorkerRecheck ==
  /\ worker = "recheck"
  /\ IF shutdownToken
     THEN worker' = "exiting" /\ cPermits' = cPermits + 1
     ELSE worker' = "recv" /\ UNCHANGED cPermits
  /\ UNCHANGED <<queueVars, slotsVars, notifierVars, managerVars, wtask, taskVars>>

WorkerRecv ==
  /\ worker = "recv"
  /\ Dequeue
  /\ wtask' = Head(queue)
  /\ worker' = "got"
  /\ UNCHANGED <<slotsVars, notifierVars, managerVars, cPermits, taskVars>>

\* Mutant: the loop goes on after the queue has disconnected.
WorkerDisconnectedRetries ==
  /\ worker = "recv"
  /\ Disconnected
  /\ worker' = "top"
  /\ cPermits' = cPermits + 1
  /\ UNCHANGED <<queueVars, slotsVars, notifierVars, managerVars, wtask, taskVars>>

WorkerDisconnected ==
  /\ worker = "recv"
  /\ Disconnected
  /\ worker' = "exiting"
  /\ cPermits' = cPermits + 1
  /\ UNCHANGED <<queueVars, slotsVars, notifierVars, managerVars, wtask, taskVars>>

\* A task received after shutdown began is dropped with its result sender.
WorkerGot ==
  /\ worker = "got"
  /\ IF shutdownToken
     THEN /\ result' = [result EXCEPT ![wtask] = "Closed"]
          /\ wtask' = NoTask
          /\ worker' = "exiting"
          /\ cPermits' = cPermits + 1
     ELSE /\ worker' = "cancelcheck"
          /\ UNCHANGED <<result, wtask, cPermits>>
  /\ UNCHANGED <<queueVars, slotsVars, notifierVars, managerVars, phase, cancelled>>

WorkerCancelCheck ==
  /\ worker = "cancelcheck"
  /\ IF cancelled[wtask]
     THEN /\ result' = [result EXCEPT ![wtask] = "Cancelled"]
          /\ worker' = "prenotify"
     ELSE /\ worker' = "insert"
          /\ UNCHANGED result
  /\ UNCHANGED <<queueVars, slotsVars, notifierVars, managerVars, wtask, cPermits, phase,
                 cancelled>>

WorkerPreNotify ==
  /\ worker = "prenotify"
  /\ SendPreCancelled(wtask)
  /\ wtask' = NoTask
  /\ cPermits' = cPermits + 1
  /\ worker' = "top"
  /\ UNCHANGED <<queueVars, slotsVars, managerVars, taskVars>>

WorkerInsert ==
  /\ worker = "insert"
  /\ InsertSlot(wtask)
  /\ worker' = "spawn"
  /\ UNCHANGED <<queueVars, notifierVars, managerVars, wtask, cPermits, taskVars>>

\* The task leaves with the permit and, if the sink is open, with a sender.
WorkerSpawn ==
  /\ worker = "spawn"
  /\ CaptureSender(wtask)
  /\ phase' = [phase EXCEPT ![wtask] = "running"]
  /\ wtask' = NoTask
  /\ worker' = "top"
  /\ UNCHANGED <<queueVars, slotsVars, managerVars, cPermits, cancelled, result>>

\* Mutant: the queued tasks' result senders outlive the consumer.
WorkerExitLeaks ==
  /\ worker = "exiting"
  /\ worker' = "exited"
  /\ DropReceiver
  /\ IF StrongCount = 0 THEN CloseSink ELSE UNCHANGED notifierVars
  /\ UNCHANGED <<slotsVars, managerVars, wtask, cPermits, taskVars>>

\* The loop's future is dropped: consumer, queued tasks and sink with it.
WorkerExit ==
  /\ worker = "exiting"
  /\ worker' = "exited"
  /\ DropReceiver
  /\ result' = [t \in Tasks |-> IF \E i \in DOMAIN queue : queue[i] = t
                                THEN "Closed" ELSE result[t]]
  /\ IF StrongCount = 0 THEN CloseSink ELSE UNCHANGED notifierVars
  /\ UNCHANGED <<slotsVars, managerVars, wtask, cPermits, phase, cancelled>>

WorkerStep ==
  \/ WorkerTop \/ WorkerAcquire \/ WorkerStop \/ WorkerRecheck \/ WorkerRecv
  \/ WorkerDisconnected \/ WorkerGot \/ WorkerCancelCheck \/ WorkerPreNotify
  \/ WorkerInsert \/ WorkerSpawn \/ WorkerExit

-----------------------------------------------------------------------------
(***************************************************************************)
(* A spawned task.                                                         *)
(***************************************************************************)
\* The select of the spawned future ends; its result is not sent yet.
Decide(t, outcome) ==
  /\ phase[t] = "running"
  /\ phase' = [phase EXCEPT ![t] = outcome]
  /\ UNCHANGED <<queueVars, slotsVars, notifierVars, managerVars, workerVars, cPermits,
                 cancelled, result>>

\* The future is ready (or has panicked); a set flag still wins.
FutureReady(t, outcome) == Decide(t, IF cancelled[t] THEN "Cancelled" ELSE outcome)

\* Mutant: the arm waits for the pool's token instead of the task's.
CancelArmPoolToken(t) == shutdownToken /\ Decide(t, "Cancelled")

\* The future is pending and the cancellation arm is ready.
CancelArm(t) == cancelled[t] /\ Decide(t, "Cancelled")

\* Mutant: the flag is read once more when the result is sent.
SendResultFromFlag(t) ==
  /\ phase[t] \in Statuses
  /\ result' = [result EXCEPT ![t] = IF cancelled[t] THEN "Cancelled" ELSE phase[t]]
  /\ phase' = [phase EXCEPT ![t] = "resulted"]
  /\ UNCHANGED <<queueVars, slotsVars, notifierVars, managerVars, workerVars, cPermits,
                 cancelled>>

\* What was decided is sent, whatever has become of the flag since.
SendResult(t) ==
  /\ phase[t] \in Statuses
  /\ result' = [result EXCEPT ![t] = phase[t]]
  /\ phase' = [phase EXCEPT ![t] = "resulted"]
  /\ UNCHANGED <<queueVars, slotsVars, notifierVars, managerVars, workerVars, cPermits,
                 cancelled>>

\* Mutant: the status is read from the flag when the message is sent.
NotifyCompletionFromFlag(t) ==
  /\ phase[t] = "resulted"
  /\ SendCompletion(t, IF cancelled[t] THEN "Cancelled" ELSE result[t])
  /\ phase' = [phase EXCEPT ![t] = "notified"]
  /\ UNCHANGED <<queueVars, slotsVars, managerVars, workerVars, cPermits, cancelled,
                 result>>

\* Mutant: the sink is consulted again when the task ends.
NotifyCompletionIfOpen(t) ==
  /\ phase[t] = "resulted"
  /\ IF sink = "open" THEN SendCompletion(t, result[t])
     ELSE /\ txs' = txs \ {t}
          /\ UNCHANGED <<sink, adding, handlers, nqueue, nworker, ncur, ncalls,
                         notifierHandle, seen>>
  /\ phase' = [phase EXCEPT ![t] = "notified"]
  /\ UNCHANGED <<queueVars, slotsVars, managerVars, workerVars, cPermits, cancelled,
                 result>>

NotifyCompletion(t) ==
  /\ phase[t] = "resulted"
  /\ SendCompletion(t, result[t])
  /\ phase' = [phase EXCEPT ![t] = "notified"]
  /\ UNCHANGED <<queueVars, slotsVars, managerVars, workerVars, cPermits, cancelled,
                 result>>

\* The permit goes with the task's locals, before the slot.
ReleasePermit(t) ==
  /\ phase[t] = "notified"
  /\ cPermits' = cPermits + 1
  /\ phase' = [phase EXCEPT ![t] = "released"]
  /\ UNCHANGED <<queueVars, slotsVars, notifierVars, managerVars, workerVars, cancelled,
                 result>>

\* Mutant: the task ends without giving its slot back.
RemoveActiveLeaks(t) ==
  /\ phase[t] = "released"
  /\ phase' = [phase EXCEPT ![t] = "done"]
  /\ UNCHANGED <<queueVars, slotsVars, notifierVars, managerVars, workerVars, cPermits,
                 cancelled, result>>

RemoveActive(t) ==
  /\ phase[t] = "released"
  /\ RemoveSlot(t)
  /\ phase' = [phase EXCEPT ![t] = "done"]
  /\ UNCHANGED <<queueVars, notifierVars, managerVars, workerVars, cPermits, cancelled,
                 result>>

FinishStep(t) ==
  \/ CancelArm(t) \/ SendResult(t) \/ NotifyCompletion(t) \/ ReleasePermit(t)
  \/ RemoveActive(t)

NotifierProgress ==
  /\ NotifierStep
  /\ UNCHANGED <<queueVars, slotsVars, poolVars>>

-----------------------------------------------------------------------------
ShutdownStep(m) ==
  \/ ShutdownCancel(m) \/ ShutdownClose(m) \/ ShutdownSweep(m) \/ ShutdownProbe(m)
  \/ ShutdownWaited(m) \/ ShutdownTake(m) \/ ShutdownJoined(m) \/ ShutdownSink(m)
  \/ ShutdownNotifier(m) \/ ShutdownNotifierJoined(m) \/ ShutdownTimeout(m)

DropStep(m) == DropCancel(m) \/ DropClose(m) \/ DropSink(m) \/ DropFields(m)

\* The rest of a call that a manager clone has begun.
ManagerStep(m) ==
  \/ \E t \in Tasks : CancelCollected(m, t)
  \/ ShutdownStep(m)
  \/ DropStep(m)

UserStep ==
  \/ \E t \in Tasks : Submit(t) \/ SubmitDropped(t) \/ HandleCancel(t)
  \/ \E h \in Handlers : AddCompletionHandler(h)
  \/ \E m \in Managers, labels \in SUBSET Labels : CancelByLabels(m, labels)
  \/ \E m, n \in Managers : Clone(m, n)
  \/ \E m \in Managers, shutdownMode \in ShutdownModes : ShutdownBegin(m, shutdownMode)
  \/ \E m \in Managers : DropBegin(m)

\* Everything has stopped and nobody can start anything again.
Terminated ==
  /\ \A m \in Managers : mgr[m] \in {"absent"} \cup Gone
  /\ worker = "exited"
  /\ \A t \in Tasks : phase[t] \in {"none", "done"}
  /\ nworker \in {"none", "stopped"}
  /\ UNCHANGED vars

Next ==
  \/ UserStep
  \/ \E t \in Tasks : SubmitProgress(t) \/ FinishStep(t)
  \/ \E t \in Tasks, outcome \in FutureOutcomes : FutureReady(t, outcome)
  \/ \E h \in Handlers : FinishAddHandler(h)
  \/ \E m \in Managers : ManagerStep(m)
  \/ WorkerStep
  \/ NotifierProgress
  \/ Terminated

Spec == Init /\ [][Next]_vars

(***************************************************************************)
(* Tokio polls every spawned task and every submit or shutdown in progress *)
(* whenever it can move, timers fire, and the notifier's lock is handed    *)
(* on.  That futures end by themselves is an assumption about the          *)
(* application, kept apart; what the application starts is never assumed.  *)
(***************************************************************************)
PoolFairness ==
  /\ WF_vars(WorkerStep)
  /\ WF_vars(NotifierProgress)
  /\ \A t \in Tasks : WF_vars(SubmitProgress(t)) /\ WF_vars(FinishStep(t))
  /\ \A h \in Handlers : WF_vars(FinishAddHandler(h))
  /\ \A m \in Managers : WF_vars(ManagerStep(m))

FuturesEnd ==
  \A t \in Tasks : WF_vars(\E outcome \in FutureOutcomes : FutureReady(t, outcome))

FairSpec == Spec /\ PoolFairness

FairSpecFuturesEnd == FairSpec /\ FuturesEnd

-----------------------------------------------------------------------------
Queued(t) == \E i \in DOMAIN queue : queue[i] = t
Running == {t \in Tasks : phase[t] = "running"}
Decided == {t \in Tasks : phase[t] \in Statuses}
PermitHolders == {t \in Tasks : phase[t] \in PermitPhases}

(***************************************************************************)
(* Every concurrency permit is free, held by the worker loop, or held by   *)
(* exactly one task that was spawned and has not released it, on every     *)
(* path out of the loop body.                                              *)
(***************************************************************************)
PermitConservation ==
  cPermits + Cardinality(PermitHolders) + (IF worker \in WorkerHolds THEN 1 ELSE 0)
    = ConcurrencyPermits

(***************************************************************************)
(* The pool never runs more futures than its concurrency limit allows.     *)
(***************************************************************************)
ConcurrencyLimited == Cardinality(Running) <= ConcurrencyPermits

(***************************************************************************)
(* The registry holds exactly the tasks that are spawned, or about to be,  *)
(* and not finished.  A running task can therefore always be found by      *)
(* cancel-by-label and by a forceful shutdown, and a shutdown that sees    *)
(* len() = 0 has seen every task spawned so far finish.                    *)
(***************************************************************************)
RegistryExact ==
  Owners = {t \in Tasks : phase[t] \in SpawnedPhases}
             \cup (IF worker = "spawn" THEN {wtask} ELSE {})

(***************************************************************************)
(* An accepted task is in one place only, and until its result is known    *)
(* that place is one that will produce it: the queue, the worker's hands   *)
(* or a spawned future.  So no handle waits on a sender nobody holds.      *)
(***************************************************************************)
AcceptedTaskAccounted ==
  /\ \A i, j \in DOMAIN queue : queue[i] = queue[j] => i = j
  /\ \A t \in Tasks :
       /\ Queued(t) => wtask # t /\ phase[t] = "none" /\ result[t] = "pending"
       /\ wtask = t => phase[t] = "none" /\ (result[t] = "pending" <=> worker # "prenotify")
       /\ t \in Running \cup Decided => result[t] = "pending"
       /\ (send[t] = "ok" /\ result[t] = "pending")
            <=> \/ Queued(t) \/ (wtask = t /\ worker # "prenotify")
                \/ t \in Running \cup Decided

(***************************************************************************)
(* Nothing is stranded behind a worker that has left, whichever clone shut *)
(* the pool down and whichever clone was submitting meanwhile: an accepted *)
(* task without a result is running or about to send it.                   *)
(***************************************************************************)
NoTaskLeftBehind ==
  worker = "exited" =>
    \A t \in Tasks : send[t] = "ok" /\ result[t] = "pending" => t \in Running \cup Decided

(***************************************************************************)
(* What the handlers are told is what the task's handle gets, once: every  *)
(* message about a task, queued or delivered, carries the task's result,   *)
(* and a task that still holds a sender has not been reported.             *)
(***************************************************************************)
Reported(t, messages) == \E i \in DOMAIN messages : messages[i].task = t

ReportsMatchResults ==
  /\ \A i \in DOMAIN nqueue : nqueue[i].status = result[nqueue[i].task]
  /\ \A h \in Handlers : \A i, j \in DOMAIN seen[h] :
       /\ seen[h][i].status = result[seen[h][i].task]
       /\ seen[h][i].task = seen[h][j].task => i = j
  /\ \A t \in txs : /\ phase[t] \in {"running", "resulted"} \cup Statuses
                     /\ ~Reported(t, nqueue)
                     /\ \A h \in Handlers : ~Reported(t, seen[h])

(***************************************************************************)
(* The shutdown of a pool's only clone joins what it started: if no        *)
(* timeout fired, the worker loop has exited, the notifier has stopped and *)
(* every completion was delivered when `shutdown` returns, even for tasks  *)
(* the worker spawned after shutdown first looked at the registry.         *)
(***************************************************************************)
SoleShutdownJoins ==
  \A m \in Managers :
    (mgr[m] = "shut" /\ ~timedOut[m] /\ \A n \in Managers \ {m} : mgr[n] = "absent")
      => /\ worker = "exited"
         /\ nworker \in {"none", "stopped"}
         /\ nqueue = <<>> /\ txs = {}

(***************************************************************************)
(* Cancellation wins over completion: once a task's flag is set, no step   *)
(* decides for a success or a panic, although the future's arm of the      *)
(* task's select is polled first; and what was decided is what is sent, so *)
(* that a later cancellation does not change it.                           *)
(***************************************************************************)
CancelWins ==
  [][\A t \in Tasks :
       /\ cancelled[t] /\ phase[t] \notin Statuses => phase'[t] \notin {"Success", "Panicked"}
       /\ result'[t] # result[t] =>
            \/ phase[t] \in Statuses /\ result'[t] = phase[t]
            \/ phase[t] = "none" /\ result'[t] = "Cancelled" /\ cancelled[t]
            \/ phase[t] = "none" /\ result'[t] = "Closed"]_vars

(***************************************************************************)
(* A result is delivered once and never changes; a task never runs again.  *)
(***************************************************************************)
ResultIsFinal ==
  [][\A t \in Tasks :
       /\ result[t] # "pending" => result'[t] = result[t]
       /\ phase[t] # "none" => phase'[t] # "none"
       /\ phase[t] \notin {"none", "running"} => phase'[t] # "running"]_vars

(***************************************************************************)
(* The pool implements the abstract life of a task: a submit is refused or *)
(* accepted once, starts wait for the limit, a cancellation requested      *)
(* before the outcome is decided decides it, what was decided is           *)
(* delivered, and tasks are discarded only if they have not started and    *)
(* shutdown was signalled, whatever the worker, the tasks and the clones   *)
(* interleave.                                                             *)
(***************************************************************************)
LifeStage(t) ==
  CASE send[t] \in ReturnedPoints \ {"ok"} -> "refused"
    [] result[t] # "pending" -> "ended"
    [] phase[t] = "running" -> "running"
    [] phase[t] \in Statuses -> "decided"
    [] send[t] = "ok" /\ result[t] = "pending" /\ t \notin Running \cup Decided -> "accepted"
    [] OTHER -> "new"

LifeOutcome(t) == IF phase[t] \in Statuses THEN phase[t] ELSE result[t]

Life == INSTANCE TaskLifecycle WITH
  Limit <- ConcurrencyPermits,
  stage <- [t \in Tasks |-> LifeStage(t)],
  asked <- cancelled,
  outcome <- [t \in Tasks |-> LifeOutcome(t)],
  closing <- shutdownToken

ImplementsLifecycle == Life!LifeSpec

(***************************************************************************)
(* Every handle resolves: whatever is cancelled, dropped or shut down, and *)
(* whenever, an accepted task gets a result or a closed channel.           *)
(***************************************************************************)
EveryHandleResolves == \A t \in Tasks : send[t] = "ok" ~> result[t] # "pending"

(***************************************************************************)
(* Cancelling a running task ends it, even if its future never would.      *)
(***************************************************************************)
CancelTakesEffect ==
  \A t \in Tasks : (cancelled[t] /\ phase[t] = "running") ~> phase[t] = "done"

(***************************************************************************)
(* A shutdown that has begun returns.                                      *)
(***************************************************************************)
ShutdownReturns == \A m \in Managers : mgr[m] \in InShutdown ~> mgr[m] = "shut"

(***************************************************************************)
(* Once the last clone is gone, however it went, the worker loop, the      *)
(* tasks and the notifier all come to an end, unless some future never     *)
(* does.                                                                   *)
(***************************************************************************)
PoolWindsDown ==
  (\A m \in Managers : mgr[m] \in {"absent"} \cup Gone)
    ~> \/ Running # {}
       \/ /\ worker = "exited"
          /\ nworker \in {"none", "stopped"}
          /\ \A t \in Tasks : phase[t] \in {"none", "done"}

(***************************************************************************)
(* A task that was given a sender while a handler was registered is        *)
(* reported to that handler, across shutdown and drop.                     *)
(***************************************************************************)
CompletionReported ==
  \A t \in Tasks, h \in Handlers :
    (t \in txs /\ adding[h] = "yes") ~> Reported(t, seen[h])

-----------------------------------------------------------------------------
(***************************************************************************)
(* "ensure the pool is gracefully shut down when the last                  *)
(* FuturePoolManager instance goes out of scope ... by signaling all       *)
(* workers" (manager.rs:643-646): with every clone gone the token is set.  *)
(***************************************************************************)
LastDropSignals ==
  (\A m \in Managers : mgr[m] \in {"absent"} \cup Gone) => shutdownToken

(***************************************************************************)
(* shutdown "waits for tasks to finish" (manager.rs:254-255): when it      *)
(* returns and no timeout fired, no task is running.                       *)
(***************************************************************************)
ShutdownWaitsForTasks ==
  \A m \in Managers : mgr[m] = "shut" /\ ~timedOut[m] => Running = {}
=============================================================================
