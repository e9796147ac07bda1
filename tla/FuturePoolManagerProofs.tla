----------------------- MODULE FuturePoolManagerProofs -----------------------
(***************************************************************************)
(* Proofs about the strict pool, for every number of tasks, clones and     *)
(* handlers, every queue capacity and every concurrency limit.             *)
(***************************************************************************)
EXTENDS FuturePoolManager, TaskQueueProofs, ActiveSlotsProofs, CompletionNotifierProofs

(***************************************************************************)
(* The pool's inductive invariant: the components' invariants and          *)
(*   - the worker has a task in hand exactly between recv and the end of   *)
(*     the loop body;                                                      *)
(*   - the consumer lives as long as the worker loop, which starts to exit *)
(*     only on the token or on a disconnected queue;                       *)
(*   - only accepted tasks are anywhere in the pool or have a result, and  *)
(*     a task that has sent its result has one a handler can be told.      *)
(* They are what makes the permits and the registry add up: a task that is *)
(* spawned is new to both.                                                 *)
(***************************************************************************)
TaskPoints == {"got", "cancelcheck", "prenotify", "insert", "spawn"}

WorkerHasTask == worker \in TaskPoints <=> wtask \in Tasks

WorkerLeaves ==
  /\ rxAlive <=> worker # "exited"
  /\ worker = "exiting" => shutdownToken \/ Disconnected

OnlyAcceptedPlaced ==
  \A t \in Tasks :
    /\ (Queued(t) \/ wtask = t \/ phase[t] # "none" \/ result[t] # "pending")
         => send[t] = "ok"
    /\ phase[t] \notin {"none", "running"} \cup Statuses => result[t] \in Statuses

PoolInv ==
  /\ QueueInv /\ SlotsInv /\ NotifierInv
  /\ ManagersTypeOK /\ WorkerTypeOK /\ TasksTypeOK
  /\ WorkerHasTask /\ WorkerLeaves
  /\ OnlyAcceptedPlaced /\ AcceptedTaskAccounted
  /\ RegistryExact
  /\ PermitConservation

-----------------------------------------------------------------------------
(***************************************************************************)
(* The tasks that own a concurrency permit are finitely many.              *)
(***************************************************************************)
LEMMA FiniteHolders ==
  IsFiniteSet(PermitHolders) /\ Cardinality(PermitHolders) \in Nat
<1>1. PermitHolders \in SUBSET Tasks
  BY DEF PermitHolders
<1> QED
  BY <1>1, TasksAssumption, FS_Subset, FS_CardinalityType

(***************************************************************************)
(* `new` establishes the invariant.                                        *)
(***************************************************************************)
LEMMA PoolInitInv == Init => PoolInv
<1> SUFFICES ASSUME Init PROVE PoolInv
  OBVIOUS
<1>1. QueueInv /\ SlotsInv /\ NotifierInv
  BY QueueInitInv, SlotsInitInv, NotifierInitInv DEF Init
<1>2. ManagersTypeOK
  BY DEF Init, ManagersTypeOK, Live
<1>3. WorkerTypeOK
  BY SizesAssumption DEF Init, WorkerTypeOK, WorkerPoints, ConcurrencyPermits
<1>4. TasksTypeOK
  BY DEF Init, TasksTypeOK
<1>5. WorkerHasTask
  BY TasksAssumption DEF Init, WorkerHasTask, TaskPoints
<1>6. WorkerLeaves
  BY DEF Init, QueueInit, WorkerLeaves
<1>7. DOMAIN queue = {} /\ \A t \in Tasks : ~Queued(t)
  BY DEF Init, QueueInit, Queued
<1>8. OnlyAcceptedPlaced /\ AcceptedTaskAccounted
  BY <1>7, TasksAssumption
     DEF Init, QueueInit, OnlyAcceptedPlaced, AcceptedTaskAccounted, Running, Decided, Statuses
<1>9. RegistryExact
  BY DEF Init, SlotsInit, RegistryExact, Owners, SpawnedPhases, PermitPhases, Running, Decided,
         Statuses
<1>10. PermitConservation
  <2>1. PermitHolders = {}
    BY DEF Init, PermitHolders, PermitPhases, Statuses
  <2>2. Cardinality(PermitHolders) = 0
    BY <2>1, FS_EmptySet
  <2>3. ConcurrencyPermits \in Nat
    BY SizesAssumption DEF ConcurrencyPermits
  <2> QED
    BY <2>2, <2>3 DEF Init, PermitConservation, WorkerHolds
<1> QED
  BY <1>1, <1>2, <1>3, <1>4, <1>5, <1>6, <1>8, <1>9, <1>10 DEF PoolInv

-----------------------------------------------------------------------------
(***************************************************************************)
(* The steps of the pool by the actor that takes them: the clones with the *)
(* notifier, the submit calls, the spawned tasks, the worker loop.         *)
(***************************************************************************)
ManagerSide ==
  \/ \E t \in Tasks : HandleCancel(t)
  \/ \E h \in Handlers : AddCompletionHandler(h) \/ FinishAddHandler(h)
  \/ \E m \in Managers, labels \in SUBSET Labels : CancelByLabels(m, labels)
  \/ \E m, n \in Managers : Clone(m, n)
  \/ \E m \in Managers, shutdownMode \in ShutdownModes : ShutdownBegin(m, shutdownMode)
  \/ \E m \in Managers : DropBegin(m)
  \/ \E m \in Managers : ManagerStep(m)
  \/ NotifierProgress
  \/ UNCHANGED vars

SubmitSide == \E t \in Tasks : Submit(t) \/ SubmitProgress(t) \/ SubmitDropped(t)

TaskSide ==
  \E t \in Tasks : FinishStep(t) \/ \E outcome \in FutureOutcomes : FutureReady(t, outcome)

(***************************************************************************)
(* Every step of the pool is a step of one of these actors.                *)
(***************************************************************************)
LEMMA NextByActor ==
  [Next]_vars => ManagerSide \/ SubmitSide \/ TaskSide \/ WorkerStep
  BY DEF Next, UserStep, Terminated, ManagerSide, SubmitSide, TaskSide

(***************************************************************************)
(* What the clones and the notifier leave alone.  They touch the queue     *)
(* only by setting the token and by opening and closing producers.         *)
(***************************************************************************)
LEMMA ManagerSideFrame ==
  ASSUME ManagerSide
  PROVE  /\ UNCHANGED <<worker, wtask, cPermits, phase, result, slotsVars>>
         /\ [QueueNext]_queueVars
         /\ UNCHANGED <<permits, waiters, send, queue, rxAlive>>
         /\ shutdownToken => shutdownToken'
         /\ producers = {} => producers' = {}
<1> USE DEF managerVars, callVars, workerVars, taskVars, poolVars, execVars, queueVars,
            slotsVars
<1>1. ASSUME NEW t \in Tasks, HandleCancel(t)
      PROVE  UNCHANGED <<queueVars, slotsVars, worker, wtask, cPermits, phase, result>>
  BY <1>1 DEF HandleCancel
<1>2. ASSUME NEW h \in Handlers, AddCompletionHandler(h) \/ FinishAddHandler(h)
      PROVE  UNCHANGED <<queueVars, slotsVars, worker, wtask, cPermits, phase, result>>
  BY <1>2 DEF AddCompletionHandler, FinishAddHandler
<1>3. ASSUME NEW m \in Managers, NEW labels \in SUBSET Labels, CancelByLabels(m, labels)
      PROVE  UNCHANGED <<queueVars, slotsVars, worker, wtask, cPermits, phase, result>>
  BY <1>3 DEF CancelByLabels
<1>4. ASSUME NEW m \in Managers, NEW n \in Managers, Clone(m, n)
      PROVE  /\ UNCHANGED <<slotsVars, worker, wtask, cPermits, phase, result>>
             /\ CloneProducer(m, n)
  BY <1>4 DEF Clone
<1>5. ASSUME NEW m \in Managers, NEW shutdownMode \in ShutdownModes,
             ShutdownBegin(m, shutdownMode)
      PROVE  UNCHANGED <<queueVars, slotsVars, worker, wtask, cPermits, phase, result>>
  BY <1>5 DEF ShutdownBegin
<1>6. ASSUME NEW m \in Managers, DropBegin(m)
      PROVE  UNCHANGED <<queueVars, slotsVars, worker, wtask, cPermits, phase, result>>
  BY <1>6 DEF DropBegin
<1>7. ASSUME NEW m \in Managers, ManagerStep(m)
      PROVE  /\ UNCHANGED <<slotsVars, worker, wtask, cPermits, phase, result>>
             /\ UNCHANGED queueVars \/ CancelShutdownToken \/ CloseProducer(m)
  <2>1. CASE \E t \in Tasks : CancelCollected(m, t)
    BY <2>1 DEF CancelCollected
  <2>2. CASE ShutdownStep(m)
    BY <2>2 DEF ShutdownStep, ShutdownCancel, ShutdownClose, ShutdownSweep, ShutdownProbe,
                ShutdownWaited, ShutdownTake, ShutdownJoined, ShutdownSink, ShutdownNotifier,
                ShutdownNotifierJoined, ShutdownTimeout
  <2>3. CASE DropStep(m)
    BY <2>3 DEF DropStep, DropCancel, DropClose, DropSink, DropFields
  <2> QED
    BY <1>7, <2>1, <2>2, <2>3 DEF ManagerStep
<1>8. ASSUME NotifierProgress
      PROVE  UNCHANGED <<queueVars, slotsVars, worker, wtask, cPermits, phase, result>>
  BY <1>8 DEF NotifierProgress
<1>9. ASSUME UNCHANGED vars
      PROVE  UNCHANGED <<queueVars, slotsVars, worker, wtask, cPermits, phase, result>>
  BY <1>9 DEF vars
<1>10. UNCHANGED <<slotsVars, worker, wtask, cPermits, phase, result>>
  BY <1>1, <1>2, <1>3, <1>4, <1>5, <1>6, <1>7, <1>8, <1>9 DEF ManagerSide
<1>11. \/ UNCHANGED queueVars
       \/ CancelShutdownToken
       \/ \E m \in Managers : CloseProducer(m)
       \/ \E m, n \in Managers : CloneProducer(m, n)
  BY <1>1, <1>2, <1>3, <1>4, <1>5, <1>6, <1>7, <1>8, <1>9 DEF ManagerSide
<1>12. [QueueNext]_queueVars
  BY <1>11 DEF QueueNext, QueueEnvironment
<1>13. /\ UNCHANGED <<permits, waiters, send, queue, rxAlive>>
       /\ shutdownToken => shutdownToken'
       /\ producers = {} => producers' = {}
  BY <1>11 DEF CancelShutdownToken, CloseProducer, CloneProducer
<1> QED
  BY <1>10, <1>12, <1>13

(***************************************************************************)
(* Every step of the pool is a step of the queue or leaves it alone.       *)
(***************************************************************************)
LEMMA PoolQueueStep == PoolInv /\ [Next]_vars => [QueueNext]_queueVars
<1> SUFFICES ASSUME PoolInv, [Next]_vars PROVE [QueueNext]_queueVars
  OBVIOUS
<1>1. CASE SubmitSide
  BY <1>1 DEF SubmitSide, Submit, SubmitProgress, SubmitDropped, QueueNext
<1>2. CASE TaskSide
  BY <1>2 DEF TaskSide, FinishStep, CancelArm, FutureReady, Decide, SendResult, NotifyCompletion,
              ReleasePermit, RemoveActive, queueVars
<1>3. CASE WorkerStep
  <2>1. CASE WorkerRecv
    BY <2>1 DEF WorkerRecv, QueueNext, QueueEnvironment
  <2>2. CASE WorkerExit
    BY <2>2 DEF WorkerExit, PoolInv, WorkerLeaves, QueueNext, QueueEnvironment
  <2>3. CASE \/ WorkerTop \/ WorkerAcquire \/ WorkerStop \/ WorkerRecheck
             \/ WorkerDisconnected \/ WorkerGot \/ WorkerCancelCheck \/ WorkerPreNotify
             \/ WorkerInsert \/ WorkerSpawn
    BY <2>3 DEF WorkerTop, WorkerAcquire, WorkerStop, WorkerRecheck, WorkerDisconnected,
                WorkerGot, WorkerCancelCheck, WorkerPreNotify, WorkerInsert, WorkerSpawn,
                queueVars
  <2> QED
    BY <1>3, <2>1, <2>2, <2>3 DEF WorkerStep
<1> QED
  BY <1>1, <1>2, <1>3, NextByActor, ManagerSideFrame

(***************************************************************************)
(* Every step of the pool is a step of the registry or leaves it alone:    *)
(* the worker inserts a task that has no slot, a task removes one it has.  *)
(***************************************************************************)
LEMMA PoolSlotsStep == PoolInv /\ [Next]_vars => [SlotsNext]_slotsVars
<1> SUFFICES ASSUME PoolInv, [Next]_vars PROVE [SlotsNext]_slotsVars
  OBVIOUS
<1>1. CASE SubmitSide
  BY <1>1 DEF SubmitSide, Submit, SubmitProgress, SubmitDropped
<1>2. CASE TaskSide
  <2>1. ASSUME NEW t \in Tasks, RemoveActive(t) PROVE SlotsNext
    <3>1. slotOf[t] # 0
      BY <2>1 DEF RemoveActive, PoolInv, RegistryExact, Owners, SpawnedPhases
    <3> QED
      BY <2>1, <3>1 DEF RemoveActive, SlotsNext
  <2>2. ASSUME NEW t \in Tasks,
               \/ CancelArm(t) \/ SendResult(t) \/ NotifyCompletion(t) \/ ReleasePermit(t)
               \/ \E outcome \in FutureOutcomes : FutureReady(t, outcome)
        PROVE  UNCHANGED slotsVars
    BY <2>2 DEF CancelArm, FutureReady, Decide, SendResult, NotifyCompletion, ReleasePermit
  <2> QED
    BY <1>2, <2>1, <2>2 DEF TaskSide, FinishStep
<1>3. CASE WorkerStep
  <2>1. CASE WorkerInsert
    <3>1. wtask \in Tasks /\ phase[wtask] = "none" /\ worker # "spawn"
      BY <2>1 DEF WorkerInsert, PoolInv, WorkerHasTask, TaskPoints, AcceptedTaskAccounted
    <3>2. slotOf[wtask] = 0
      BY <3>1
         DEF PoolInv, RegistryExact, Owners, SpawnedPhases, PermitPhases, Running, Decided,
             Statuses
    <3> QED
      BY <2>1, <3>1, <3>2 DEF WorkerInsert, SlotsNext
  <2>2. CASE \/ WorkerTop \/ WorkerAcquire \/ WorkerStop \/ WorkerRecheck \/ WorkerRecv
             \/ WorkerDisconnected \/ WorkerGot \/ WorkerCancelCheck \/ WorkerPreNotify
             \/ WorkerSpawn \/ WorkerExit
    BY <2>2 DEF WorkerTop, WorkerAcquire, WorkerStop, WorkerRecheck, WorkerRecv,
                WorkerDisconnected, WorkerGot, WorkerCancelCheck, WorkerPreNotify,
                WorkerSpawn, WorkerExit
  <2> QED
    BY <1>3, <2>1, <2>2 DEF WorkerStep
<1> QED
  BY <1>1, <1>2, <1>3, NextByActor, ManagerSideFrame

(***************************************************************************)
(* Every step of the pool is a step of the notifier or leaves it alone.    *)
(***************************************************************************)
LEMMA PoolNotifierStep == PoolInv /\ [Next]_vars => [NotifierNext]_notifierVars
<1> SUFFICES ASSUME PoolInv, [Next]_vars PROVE [NotifierNext]_notifierVars
  OBVIOUS
<1>1. CASE SubmitSide
  BY <1>1 DEF SubmitSide, Submit, SubmitProgress, SubmitDropped
<1>2. CASE TaskSide
  <2>1. ASSUME NEW t \in Tasks, NotifyCompletion(t) PROVE NotifierNext
    <3>1. result[t] \in Statuses
      BY <2>1 DEF NotifyCompletion, PoolInv, OnlyAcceptedPlaced, Running, Decided, Statuses
    <3> QED
      BY <2>1, <3>1 DEF NotifyCompletion, NotifierNext, NotifierEnvironment
  <2>2. ASSUME NEW t \in Tasks,
               \/ CancelArm(t) \/ SendResult(t) \/ RemoveActive(t) \/ ReleasePermit(t)
               \/ \E outcome \in FutureOutcomes : FutureReady(t, outcome)
        PROVE  UNCHANGED notifierVars
    BY <2>2 DEF CancelArm, FutureReady, Decide, SendResult, RemoveActive, ReleasePermit
  <2> QED
    BY <1>2, <2>1, <2>2 DEF TaskSide, FinishStep
<1>3. CASE WorkerStep
  <2>1. CASE WorkerPreNotify \/ WorkerSpawn
    <3>1. wtask \in Tasks
      BY <2>1 DEF WorkerPreNotify, WorkerSpawn, PoolInv, WorkerHasTask, TaskPoints
    <3> QED
      BY <2>1, <3>1 DEF WorkerPreNotify, WorkerSpawn, NotifierNext, NotifierEnvironment
  <2>2. CASE WorkerExit
    BY <2>2 DEF WorkerExit, NotifierNext, NotifierEnvironment
  <2>3. CASE \/ WorkerTop \/ WorkerAcquire \/ WorkerStop \/ WorkerRecheck \/ WorkerRecv
             \/ WorkerDisconnected \/ WorkerGot \/ WorkerCancelCheck \/ WorkerInsert
    BY <2>3 DEF WorkerTop, WorkerAcquire, WorkerStop, WorkerRecheck, WorkerRecv,
                WorkerDisconnected, WorkerGot, WorkerCancelCheck, WorkerInsert
  <2> QED
    BY <1>3, <2>1, <2>2, <2>3 DEF WorkerStep
<1>4. CASE ManagerSide
  <2>1. ASSUME NEW h \in Handlers, AddCompletionHandler(h) \/ FinishAddHandler(h)
        PROVE  NotifierNext
    BY <2>1 DEF AddCompletionHandler, FinishAddHandler, NotifierNext
  <2>2. ASSUME NEW m \in Managers, ManagerStep(m)
        PROVE  UNCHANGED notifierVars \/ CloseSink \/ TakeNotifierHandle
    BY <2>2 DEF ManagerStep, CancelCollected, ShutdownStep, ShutdownCancel, ShutdownClose,
                ShutdownSweep, ShutdownProbe, ShutdownWaited, ShutdownTake, ShutdownJoined,
                ShutdownSink, ShutdownNotifier, ShutdownNotifierJoined, ShutdownTimeout,
                DropStep, DropCancel, DropClose, DropSink, DropFields
  <2>3. CASE NotifierProgress
    BY <2>3 DEF NotifierProgress, NotifierNext
  <2>4. CASE \/ \E t \in Tasks : HandleCancel(t)
             \/ \E m \in Managers, labels \in SUBSET Labels : CancelByLabels(m, labels)
             \/ \E m, n \in Managers : Clone(m, n)
             \/ \E m \in Managers, shutdownMode \in ShutdownModes :
                   ShutdownBegin(m, shutdownMode)
             \/ \E m \in Managers : DropBegin(m)
             \/ UNCHANGED vars
    BY <2>4 DEF HandleCancel, CancelByLabels, Clone, ShutdownBegin, DropBegin, vars
  <2> QED
    BY <1>4, <2>1, <2>2, <2>3, <2>4 DEF ManagerSide, NotifierNext, NotifierEnvironment
<1> QED
  BY <1>1, <1>2, <1>3, <1>4, NextByActor

-----------------------------------------------------------------------------
(***************************************************************************)
(* Types.  The clones' own variables, then the worker's and the tasks'.    *)
(***************************************************************************)
LEMMA ManagersTypeStep == PoolInv /\ [Next]_vars => ManagersTypeOK'
<1> SUFFICES ASSUME PoolInv, [Next]_vars PROVE ManagersTypeOK'
  OBVIOUS
<1> USE DEF PoolInv, ManagersTypeOK, Live, InShutdown, InDrop, Gone, managerVars, callVars,
            poolVars, execVars
<1>1. CASE SubmitSide
  BY <1>1 DEF SubmitSide, Submit, SubmitProgress, SubmitDropped
<1>2. CASE TaskSide
  BY <1>2 DEF TaskSide, FinishStep, CancelArm, FutureReady, Decide, SendResult, NotifyCompletion,
              ReleasePermit, RemoveActive
<1>3. CASE WorkerStep
  BY <1>3 DEF WorkerStep, WorkerTop, WorkerAcquire, WorkerStop, WorkerRecheck, WorkerRecv,
              WorkerDisconnected, WorkerGot, WorkerCancelCheck, WorkerPreNotify, WorkerInsert,
              WorkerSpawn, WorkerExit
<1>4. CASE ManagerSide
  <2>1. ASSUME NEW t \in Tasks, HandleCancel(t) PROVE UNCHANGED managerVars
    BY <2>1 DEF HandleCancel
  <2>2. ASSUME NEW h \in Handlers, AddCompletionHandler(h) \/ FinishAddHandler(h)
        PROVE  UNCHANGED managerVars
    BY <2>2 DEF AddCompletionHandler, FinishAddHandler
  <2>3. ASSUME NEW m \in Managers, NEW labels \in SUBSET Labels, CancelByLabels(m, labels)
        PROVE  ManagersTypeOK'
    BY <2>3 DEF CancelByLabels, TokensMatching, ActiveTokens
  <2>4. ASSUME NEW m \in Managers, NEW n \in Managers, Clone(m, n)
        PROVE  ManagersTypeOK'
    BY <2>4 DEF Clone
  <2>5. ASSUME NEW m \in Managers, NEW shutdownMode \in ShutdownModes,
               ShutdownBegin(m, shutdownMode)
        PROVE  ManagersTypeOK'
    BY <2>5 DEF ShutdownBegin, Goto, QueueInv, QueueTypeOK
  <2>6. ASSUME NEW m \in Managers, DropBegin(m) PROVE ManagersTypeOK'
    BY <2>6 DEF DropBegin, Goto
  <2>7. ASSUME NEW m \in Managers, ManagerStep(m) PROVE ManagersTypeOK'
    <3>1. ASSUME NEW t \in Tasks, CancelCollected(m, t) PROVE ManagersTypeOK'
      BY <3>1 DEF CancelCollected
    <3>2. CASE \/ ShutdownCancel(m) \/ ShutdownClose(m) \/ ShutdownProbe(m)
               \/ ShutdownWaited(m) \/ ShutdownJoined(m) \/ ShutdownSink(m)
               \/ ShutdownNotifier(m) \/ ShutdownNotifierJoined(m)
      BY <3>2 DEF Goto, ShutdownCancel, ShutdownClose, ShutdownProbe, ShutdownWaited,
                  ShutdownJoined, ShutdownSink, ShutdownNotifier, ShutdownNotifierJoined
    <3>3. CASE ShutdownSweep(m)
      BY <3>3 DEF Goto, ShutdownSweep, ActiveTokens
    <3>4. CASE ShutdownTake(m)
      BY <3>4 DEF Goto, ShutdownTake
    <3>5. CASE ShutdownTimeout(m)
      BY <3>5 DEF Goto, ShutdownTimeout, AfterTimeout
    <3>6. CASE DropStep(m)
      BY <3>6 DEF Goto, DropStep, DropCancel, DropClose, DropSink, DropFields
    <3> QED
      BY <2>7, <3>1, <3>2, <3>3, <3>4, <3>5, <3>6 DEF ManagerStep, ShutdownStep
  <2>8. CASE NotifierProgress
    BY <2>8 DEF NotifierProgress
  <2>9. CASE UNCHANGED vars
    BY <2>9 DEF vars
  <2> QED
    BY <1>4, <2>1, <2>2, <2>3, <2>4, <2>5, <2>6, <2>7, <2>8, <2>9 DEF ManagerSide
<1> QED
  BY <1>1, <1>2, <1>3, <1>4, NextByActor

(***************************************************************************)
(* The worker's and the tasks' variables.                                  *)
(***************************************************************************)
LEMMA WorkerTypeStep == PoolInv /\ [Next]_vars => WorkerTypeOK'
<1> SUFFICES ASSUME PoolInv, [Next]_vars PROVE WorkerTypeOK'
  OBVIOUS
<1> USE DEF PoolInv, WorkerTypeOK, WorkerPoints, WorkerHolds, workerVars, poolVars, execVars
<1>1. CASE SubmitSide
  BY <1>1 DEF SubmitSide, Submit, SubmitProgress, SubmitDropped
<1>2. CASE TaskSide
  BY <1>2 DEF TaskSide, FinishStep, CancelArm, FutureReady, Decide, SendResult, NotifyCompletion,
              ReleasePermit, RemoveActive
<1>3. CASE WorkerStep
  <2>1. CASE WorkerRecv
    <3>1. Head(queue) \in Tasks
      BY <2>1 DEF WorkerRecv, Dequeue, QueueInv, QueueTypeOK
    <3> QED
      BY <2>1, <3>1 DEF WorkerRecv
  <2>2. CASE WorkerAcquire
    BY <2>2 DEF WorkerAcquire
  <2>3. CASE WorkerTop \/ WorkerStop \/ WorkerRecheck \/ WorkerDisconnected
    BY <2>3 DEF WorkerTop, WorkerStop, WorkerRecheck, WorkerDisconnected
  <2>4. CASE \/ WorkerGot \/ WorkerCancelCheck \/ WorkerPreNotify \/ WorkerInsert
             \/ WorkerSpawn \/ WorkerExit
    BY <2>4 DEF WorkerGot, WorkerCancelCheck, WorkerPreNotify, WorkerInsert, WorkerSpawn,
                WorkerExit
  <2> QED
    BY <1>3, <2>1, <2>2, <2>3, <2>4 DEF WorkerStep
<1> QED
  BY <1>1, <1>2, <1>3, NextByActor, ManagerSideFrame

(***************************************************************************)
(* A task's cancellation flag, result and phase stay in their ranges.      *)
(***************************************************************************)
LEMMA TasksTypeStep == PoolInv /\ [Next]_vars => TasksTypeOK'
<1> SUFFICES ASSUME PoolInv, [Next]_vars PROVE TasksTypeOK'
  OBVIOUS
<1> USE DEF PoolInv, TasksTypeOK, SpawnedPhases, PermitPhases, Outcomes, Statuses, taskVars,
            poolVars, execVars
<1>1. CASE SubmitSide
  BY <1>1 DEF SubmitSide, Submit, SubmitProgress, SubmitDropped
<1>2. CASE TaskSide
  <2>1. ASSUME NEW t \in Tasks, FinishStep(t) PROVE TasksTypeOK'
    BY <2>1 DEF FinishStep, CancelArm, Decide, SendResult, NotifyCompletion, ReleasePermit,
                RemoveActive
  <2>2. ASSUME NEW t \in Tasks, NEW outcome \in FutureOutcomes, FutureReady(t, outcome)
        PROVE  TasksTypeOK'
    BY <2>2, PoolAssumption DEF FutureReady, Decide
  <2> QED
    BY <1>2, <2>1, <2>2 DEF TaskSide
<1>3. CASE WorkerStep
  <2>1. CASE WorkerExit
    BY <2>1 DEF WorkerExit
  <2>2. CASE WorkerGot \/ WorkerCancelCheck \/ WorkerSpawn
    BY <2>2 DEF WorkerGot, WorkerCancelCheck, WorkerSpawn
  <2>3. CASE \/ WorkerTop \/ WorkerAcquire \/ WorkerStop \/ WorkerRecheck \/ WorkerRecv
             \/ WorkerDisconnected \/ WorkerPreNotify \/ WorkerInsert
    BY <2>3 DEF WorkerTop, WorkerAcquire, WorkerStop, WorkerRecheck, WorkerRecv,
                WorkerDisconnected, WorkerPreNotify, WorkerInsert
  <2> QED
    BY <1>3, <2>1, <2>2, <2>3 DEF WorkerStep
<1>4. CASE ManagerSide
  <2>1. UNCHANGED <<phase, result>>
    BY <1>4, ManagerSideFrame
  <2>2. cancelled' \in [Tasks -> BOOLEAN]
    <3>1. ASSUME NEW t \in Tasks, cancelled' = [cancelled EXCEPT ![t] = TRUE]
          PROVE  cancelled' \in [Tasks -> BOOLEAN]
      BY <3>1
    <3>2. UNCHANGED cancelled \/ \E t \in Tasks : cancelled' = [cancelled EXCEPT ![t] = TRUE]
      BY <1>4 DEF ManagerSide, HandleCancel, AddCompletionHandler, FinishAddHandler,
           CancelByLabels, Clone, ShutdownBegin, DropBegin, ManagerStep, CancelCollected,
           ShutdownStep, ShutdownCancel, ShutdownClose, ShutdownSweep, ShutdownProbe,
           ShutdownWaited, ShutdownTake, ShutdownJoined, ShutdownSink, ShutdownNotifier,
           ShutdownNotifierJoined, ShutdownTimeout, DropStep, DropCancel, DropClose, DropSink,
           DropFields, NotifierProgress, vars
    <3> QED
      BY <3>1, <3>2
  <2> QED
    BY <2>1, <2>2
<1> QED
  BY <1>1, <1>2, <1>3, <1>4, NextByActor

-----------------------------------------------------------------------------
(***************************************************************************)
(* Where the tasks are, and what the worker and the gates hold.            *)
(***************************************************************************)
Placement ==
  /\ WorkerHasTask /\ WorkerLeaves
  /\ OnlyAcceptedPlaced /\ AcceptedTaskAccounted
  /\ RegistryExact
  /\ PermitConservation

(***************************************************************************)
(* What the channel holds after a send and after a recv.                   *)
(***************************************************************************)
LEMMA QueuedAfterAppend ==
  ASSUME queue \in Seq(Tasks), NEW t \in Tasks, queue' = Append(queue, t), ~Queued(t),
         \A i, j \in DOMAIN queue : queue[i] = queue[j] => i = j
  PROVE  /\ \A u \in Tasks : Queued(u)' <=> (Queued(u) \/ u = t)
         /\ \A i, j \in DOMAIN queue' : queue'[i] = queue'[j] => i = j
<1>1. /\ Len(queue) \in Nat /\ DOMAIN queue = 1..Len(queue)
      /\ DOMAIN queue' = 1..(Len(queue) + 1)
      /\ \A i \in 1..Len(queue) : queue'[i] = queue[i]
      /\ queue'[Len(queue) + 1] = t
  OBVIOUS
<1>2. \A i \in DOMAIN queue' : i \in DOMAIN queue \/ i = Len(queue) + 1
  BY <1>1
<1> QED
  BY <1>1, <1>2 DEF Queued

(***************************************************************************)
(* recv takes the oldest task, and only that one, out of the channel.      *)
(***************************************************************************)
LEMMA QueuedAfterTail ==
  ASSUME queue \in Seq(Tasks), queue # <<>>, queue' = Tail(queue),
         \A i, j \in DOMAIN queue : queue[i] = queue[j] => i = j
  PROVE  /\ Head(queue) \in Tasks /\ Queued(Head(queue))
         /\ \A u \in Tasks : Queued(u)' <=> (Queued(u) /\ u # Head(queue))
         /\ \A i, j \in DOMAIN queue' : queue'[i] = queue'[j] => i = j
<1>1. /\ Len(queue) \in Nat /\ Len(queue) > 0 /\ DOMAIN queue = 1..Len(queue)
      /\ DOMAIN queue' = 1..(Len(queue) - 1)
      /\ \A i \in 1..(Len(queue) - 1) : queue'[i] = queue[i + 1]
      /\ Head(queue) = queue[1] /\ Head(queue) \in Tasks
  OBVIOUS
<1>2. \A i \in DOMAIN queue' : i + 1 \in DOMAIN queue /\ i + 1 # 1
  BY <1>1
<1>3. \A i \in DOMAIN queue : i = 1 \/ (i - 1 \in DOMAIN queue' /\ queue'[i - 1] = queue[i])
  BY <1>1
<1>4. \A i, j \in DOMAIN queue' : queue'[i] = queue'[j] => i = j
  <2> SUFFICES ASSUME NEW i \in DOMAIN queue', NEW j \in DOMAIN queue', queue'[i] = queue'[j]
               PROVE  i = j
    OBVIOUS
  <2>1. i + 1 = j + 1
    BY <1>1, <1>2
  <2> QED
    BY <1>1, <2>1
<1>5. ASSUME NEW u \in Tasks
      PROVE  Queued(u)' <=> (Queued(u) /\ u # Head(queue))
  <2>1. ASSUME Queued(u)' PROVE Queued(u) /\ u # Head(queue)
    <3>1. PICK i \in DOMAIN queue' : queue'[i] = u
      BY <2>1 DEF Queued
    <3>2. i + 1 \in DOMAIN queue /\ queue[i + 1] = u /\ i + 1 # 1 /\ 1 \in DOMAIN queue
      BY <1>1, <1>2, <3>1
    <3> QED
      BY <1>1, <3>2 DEF Queued
  <2>2. ASSUME Queued(u), u # Head(queue) PROVE Queued(u)'
    BY <1>1, <1>3, <2>2 DEF Queued
  <2> QED
    BY <2>1, <2>2
<1> QED
  BY <1>1, <1>4, <1>5 DEF Queued

(***************************************************************************)
(* The clones and the notifier move no task.                               *)
(***************************************************************************)
LEMMA ManagerSidePlacement ==
  ASSUME PoolInv, ManagerSide
  PROVE  Placement'
<1>1. /\ UNCHANGED <<worker, wtask, cPermits, phase, result, slotsVars>>
      /\ UNCHANGED <<send, queue, rxAlive>>
      /\ shutdownToken => shutdownToken'
      /\ producers = {} => producers' = {}
  BY ManagerSideFrame
<1>2. WorkerHasTask' /\ WorkerLeaves'
  BY <1>1 DEF PoolInv, WorkerHasTask, WorkerLeaves, Disconnected
<1>3. OnlyAcceptedPlaced' /\ AcceptedTaskAccounted'
  BY <1>1
     DEF PoolInv, OnlyAcceptedPlaced, AcceptedTaskAccounted, Queued, Running, Decided, Statuses
<1>4. RegistryExact'
  BY <1>1 DEF PoolInv, RegistryExact, Owners, slotsVars
<1>5. PermitConservation'
  BY <1>1 DEF PoolInv, PermitConservation, PermitHolders
<1> QED
  BY <1>2, <1>3, <1>4, <1>5 DEF Placement

(***************************************************************************)
(* A submit call places its task once, in the queue, when it succeeds.     *)
(***************************************************************************)
LEMMA SubmitSidePlacement ==
  ASSUME PoolInv, NEW t \in Tasks, Submit(t) \/ SubmitProgress(t) \/ SubmitDropped(t)
  PROVE  Placement'
<1> USE DEF PoolInv
<1>1. /\ UNCHANGED <<worker, wtask, cPermits, phase, result, slotsVars>>
      /\ UNCHANGED <<shutdownToken, producers, rxAlive>>
  BY DEF Submit, SubmitProgress, SubmitDropped, SubmitCheck, SubmitStep, PollShutdown,
         PollGate, Enqueue, AbandonSubmit, poolVars, execVars, workerVars, taskVars
<1>2. RegistryExact' /\ PermitConservation' /\ WorkerHasTask'
  BY <1>1 DEF RegistryExact, Owners, slotsVars, PermitConservation, PermitHolders,
              WorkerHasTask
<1>3. CASE UNCHANGED queue /\ send[t] # "ok" /\ send'[t] # "ok"
           /\ \A u \in Tasks : u # t => send'[u] = send[u]
  <2>1. WorkerLeaves'
    BY <1>1, <1>3 DEF WorkerLeaves, Disconnected
  <2>2. OnlyAcceptedPlaced' /\ AcceptedTaskAccounted'
    BY <1>1, <1>3
       DEF OnlyAcceptedPlaced, AcceptedTaskAccounted, Queued, Running, Decided, Statuses
  <2> QED
    BY <1>2, <2>1, <2>2 DEF Placement
<1>4. CASE Enqueue(t) /\ rxAlive
  <2>1. /\ queue' = Append(queue, t) /\ send[t] = "holding" /\ send'[t] = "ok"
        /\ \A u \in Tasks : u # t => send'[u] = send[u]
    BY <1>4 DEF Enqueue, QueueInv, QueueTypeOK
  <2>2. ~Queued(t) /\ wtask # t /\ phase[t] = "none" /\ result[t] = "pending"
    BY <2>1 DEF OnlyAcceptedPlaced
  <2>3. /\ \A u \in Tasks : Queued(u)' <=> (Queued(u) \/ u = t)
        /\ \A i, j \in DOMAIN queue' : queue'[i] = queue'[j] => i = j
    BY <2>1, <2>2, QueuedAfterAppend DEF QueueInv, QueueTypeOK, AcceptedTaskAccounted
  <2>4. producers # {}
    BY <2>1 DEF QueueInv, CallsHoldProducers, InFlight, InFlightPoints
  <2>5. WorkerLeaves'
    BY <1>1, <2>4 DEF WorkerLeaves, Disconnected
  <2>6. OnlyAcceptedPlaced'
    BY <1>1, <2>1, <2>2, <2>3 DEF OnlyAcceptedPlaced
  <2>7. AcceptedTaskAccounted'
    BY <1>1, <2>1, <2>2, <2>3 DEF AcceptedTaskAccounted, Running, Decided, Statuses
  <2> QED
    BY <1>2, <2>5, <2>6, <2>7 DEF Placement
<1>5. \/ Enqueue(t) /\ rxAlive
      \/ UNCHANGED queue /\ send[t] # "ok" /\ send'[t] # "ok"
         /\ \A u \in Tasks : u # t => send'[u] = send[u]
  BY DEF Submit, SubmitProgress, SubmitDropped, SubmitCheck, SubmitStep, PollShutdown,
         PollGate, Enqueue, AbandonSubmit, QueueInv, QueueTypeOK
<1> QED
  BY <1>3, <1>4, <1>5

(***************************************************************************)
(* A spawned task keeps its permit until it releases it and its slot until *)
(* it removes it.                                                          *)
(***************************************************************************)
LEMMA TaskSidePlacement ==
  ASSUME PoolInv, NEW t \in Tasks,
         FinishStep(t) \/ \E outcome \in FutureOutcomes : FutureReady(t, outcome)
  PROVE  Placement'
<1> USE DEF PoolInv
<1>1. /\ UNCHANGED <<worker, wtask, queueVars>>
      /\ \A u \in Tasks : u # t => phase'[u] = phase[u] /\ result'[u] = result[u]
  BY DEF FinishStep, CancelArm, FutureReady, Decide, SendResult, NotifyCompletion, ReleasePermit,
         RemoveActive, workerVars, TasksTypeOK
<1>2. UNCHANGED <<send, queue, rxAlive, shutdownToken, producers>>
  BY <1>1 DEF queueVars
<1>3. WorkerHasTask' /\ WorkerLeaves'
  BY <1>1, <1>2 DEF WorkerHasTask, WorkerLeaves, Disconnected
<1>4. /\ phase[t] # "none" /\ phase'[t] # "none" /\ phase'[t] # "running"
      /\ send[t] = "ok" /\ wtask # t /\ ~Queued(t)
      /\ IF phase'[t] \in Statuses THEN result'[t] = "pending" ELSE result'[t] \in Statuses
  <2>1. phase[t] # "none"
    BY DEF FinishStep, CancelArm, FutureReady, Decide, SendResult, NotifyCompletion,
           ReleasePermit, RemoveActive, Statuses
  <2>2. send[t] = "ok" /\ wtask # t /\ ~Queued(t)
    BY <2>1 DEF OnlyAcceptedPlaced, AcceptedTaskAccounted
  <2>3. CASE CancelArm(t) \/ \E outcome \in FutureOutcomes : FutureReady(t, outcome)
    <3>1. result'[t] = result[t] /\ phase[t] = "running"
      BY <2>3 DEF CancelArm, FutureReady, Decide
    <3>2. \E o \in Statuses : phase' = [phase EXCEPT ![t] = o]
      BY <2>3, PoolAssumption DEF CancelArm, FutureReady, Decide, Statuses
    <3> QED
      BY <2>2, <3>1, <3>2 DEF AcceptedTaskAccounted, Running, TasksTypeOK, Statuses
  <2>4. CASE SendResult(t)
    BY <2>2, <2>4 DEF SendResult, TasksTypeOK, Statuses
  <2>5. CASE NotifyCompletion(t) \/ ReleasePermit(t) \/ RemoveActive(t)
    BY <2>2, <2>5
       DEF NotifyCompletion, ReleasePermit, RemoveActive, TasksTypeOK, OnlyAcceptedPlaced, Statuses
  <2> QED
    BY <2>1, <2>2, <2>3, <2>4, <2>5 DEF FinishStep
<1>5. result'[t] = "pending" <=> phase'[t] \in Statuses
  BY <1>4 DEF Statuses
<1>6. OnlyAcceptedPlaced'
  BY <1>1, <1>2, <1>4 DEF OnlyAcceptedPlaced, Queued
<1>7. AcceptedTaskAccounted'
  BY <1>1, <1>2, <1>4, <1>5 DEF AcceptedTaskAccounted, Queued, Running, Decided
<1>8. CASE RemoveActive(t)
  <2>1. phase[t] = "released" /\ phase' = [phase EXCEPT ![t] = "done"] /\ UNCHANGED cPermits
    BY <1>8 DEF RemoveActive
  <2>2. slotOf[t] # 0
    BY <2>1 DEF RegistryExact, Owners, SpawnedPhases
  <2>3. Owners' = Owners \ {t}
    BY <1>8, <2>2, RemoveInv DEF RemoveActive
  <2>4. RegistryExact'
    BY <1>1, <1>4, <2>1, <2>3
       DEF RegistryExact, TasksTypeOK, SpawnedPhases, PermitPhases, Statuses
  <2>5. PermitHolders' = PermitHolders
    BY <2>1 DEF PermitHolders, PermitPhases, TasksTypeOK, Statuses
  <2>6. PermitConservation'
    BY <1>1, <2>1, <2>5 DEF PermitConservation
  <2> QED
    BY <1>3, <1>6, <1>7, <2>4, <2>6 DEF Placement
<1>9. CASE ReleasePermit(t)
  <2>1. /\ phase[t] = "notified" /\ phase' = [phase EXCEPT ![t] = "released"]
        /\ cPermits' = cPermits + 1 /\ UNCHANGED slotsVars
    BY <1>9 DEF ReleasePermit
  <2>2. RegistryExact'
    BY <1>1, <2>1 DEF RegistryExact, Owners, slotsVars, TasksTypeOK, SpawnedPhases,
                      PermitPhases
  <2>3. PermitHolders' = PermitHolders \ {t} /\ t \in PermitHolders
    BY <2>1 DEF PermitHolders, PermitPhases, TasksTypeOK, Statuses
  <2>4. Cardinality(PermitHolders') = Cardinality(PermitHolders) - 1
    BY <2>3, FiniteHolders, FS_RemoveElement
  <2>5. cPermits \in Nat /\ Cardinality(PermitHolders) \in Nat
    BY FiniteHolders DEF WorkerTypeOK
  <2>6. PermitConservation'
    BY <1>1, <2>1, <2>4, <2>5 DEF PermitConservation
  <2> QED
    BY <1>3, <1>6, <1>7, <2>2, <2>6 DEF Placement
<1>10. CASE \/ CancelArm(t) \/ SendResult(t) \/ NotifyCompletion(t)
            \/ \E outcome \in FutureOutcomes : FutureReady(t, outcome)
  <2>1. /\ phase[t] \in PermitPhases
        /\ \E p \in PermitPhases : phase' = [phase EXCEPT ![t] = p]
        /\ UNCHANGED <<cPermits, slotsVars>>
    BY <1>10, PoolAssumption DEF CancelArm, SendResult, NotifyCompletion, FutureReady, Decide,
                                 PermitPhases, Statuses
  <2>2. RegistryExact'
    BY <1>1, <2>1 DEF RegistryExact, Owners, slotsVars, TasksTypeOK, SpawnedPhases,
                      PermitPhases, Statuses
  <2>3. PermitHolders' = PermitHolders
    BY <2>1 DEF PermitHolders, TasksTypeOK
  <2>4. PermitConservation'
    BY <1>1, <2>1, <2>3 DEF PermitConservation
  <2> QED
    BY <1>3, <1>6, <1>7, <2>2, <2>4 DEF Placement
<1> QED
  BY <1>8, <1>9, <1>10 DEF FinishStep

(***************************************************************************)
(* The worker without a task in hand: it takes a permit and gives it back  *)
(* on every way out.                                                       *)
(***************************************************************************)
LEMMA WorkerIdlePlacement ==
  ASSUME PoolInv,
         WorkerTop \/ WorkerAcquire \/ WorkerStop \/ WorkerRecheck \/ WorkerDisconnected
  PROVE  Placement'
<1> USE DEF PoolInv
<1>1. UNCHANGED <<wtask, queueVars, slotsVars, phase, result>>
  BY DEF WorkerTop, WorkerAcquire, WorkerStop, WorkerRecheck, WorkerDisconnected, taskVars
<1>2. UNCHANGED <<send, queue, rxAlive, shutdownToken, producers, slotOf>>
  BY <1>1 DEF queueVars, slotsVars
<1>3. /\ worker \in {"top", "acquire", "recheck", "recv"}
      /\ worker' \in {"acquire", "recheck", "recv", "exiting"}
      /\ worker' = "exiting" => shutdownToken \/ Disconnected
  BY DEF WorkerTop, WorkerAcquire, WorkerStop, WorkerRecheck, WorkerDisconnected
<1>4. wtask \notin Tasks
  BY <1>3 DEF WorkerHasTask, TaskPoints
<1>5. WorkerHasTask' /\ WorkerLeaves'
  BY <1>1, <1>2, <1>3, <1>4 DEF WorkerHasTask, TaskPoints, WorkerLeaves, Disconnected
<1>6. OnlyAcceptedPlaced' /\ AcceptedTaskAccounted'
  BY <1>1, <1>2, <1>4
     DEF OnlyAcceptedPlaced, AcceptedTaskAccounted, Queued, Running, Decided, Statuses
<1>7. RegistryExact'
  BY <1>1, <1>2, <1>3 DEF RegistryExact, Owners
<1>8. PermitConservation'
  <2>1. PermitHolders' = PermitHolders
    BY <1>1 DEF PermitHolders
  <2>2. cPermits \in Nat /\ Cardinality(PermitHolders) \in Nat
    BY FiniteHolders DEF WorkerTypeOK
  <2> QED
    BY <2>1, <2>2 DEF PermitConservation, WorkerHolds, WorkerTop, WorkerAcquire, WorkerStop,
                      WorkerRecheck, WorkerDisconnected
<1> QED
  BY <1>5, <1>6, <1>7, <1>8 DEF Placement

(***************************************************************************)
(* The worker takes a task from the queue into its hands.                  *)
(***************************************************************************)
LEMMA WorkerRecvPlacement ==
  ASSUME PoolInv, WorkerRecv
  PROVE  Placement'
<1> USE DEF PoolInv
<1>1. /\ worker = "recv" /\ worker' = "got" /\ wtask' = Head(queue)
      /\ queue # <<>> /\ queue' = Tail(queue)
      /\ UNCHANGED <<send, rxAlive, slotsVars, cPermits, phase, result>>
  BY DEF WorkerRecv, Dequeue, taskVars
<1>2. /\ Head(queue) \in Tasks /\ Queued(Head(queue))
      /\ \A u \in Tasks : Queued(u)' <=> (Queued(u) /\ u # Head(queue))
      /\ \A i, j \in DOMAIN queue' : queue'[i] = queue'[j] => i = j
  BY <1>1, QueuedAfterTail DEF QueueInv, QueueTypeOK, AcceptedTaskAccounted
<1>3. wtask \notin Tasks
  BY <1>1 DEF WorkerHasTask, TaskPoints
<1>4. WorkerHasTask' /\ WorkerLeaves'
  BY <1>1, <1>2 DEF WorkerHasTask, TaskPoints, WorkerLeaves
<1>5. OnlyAcceptedPlaced'
  BY <1>1, <1>2 DEF OnlyAcceptedPlaced
<1>6. AcceptedTaskAccounted'
  BY <1>1, <1>2, <1>3 DEF AcceptedTaskAccounted, Running, Decided, Statuses
<1>7. RegistryExact'
  BY <1>1 DEF RegistryExact, Owners, slotsVars
<1>8. PermitConservation'
  BY <1>1 DEF PermitConservation, PermitHolders, WorkerHolds
<1> QED
  BY <1>4, <1>5, <1>6, <1>7, <1>8 DEF Placement

(***************************************************************************)
(* The worker disposes of a task it will not run: dropped on shutdown, or  *)
(* reported as cancelled.  Either way the permit goes back.                *)
(***************************************************************************)
LEMMA WorkerDisposePlacement ==
  ASSUME PoolInv, WorkerGot \/ WorkerCancelCheck \/ WorkerPreNotify
  PROVE  Placement'
<1> USE DEF PoolInv
<1>1. /\ UNCHANGED <<queueVars, slotsVars, phase>>
      /\ worker \in {"got", "cancelcheck", "prenotify"}
      /\ worker' \in {"exiting", "cancelcheck", "prenotify", "insert", "top"}
      /\ worker' = "exiting" => shutdownToken
  BY DEF WorkerGot, WorkerCancelCheck, WorkerPreNotify, taskVars
<1>2. UNCHANGED <<send, queue, rxAlive, shutdownToken, producers, slotOf>>
  BY <1>1 DEF queueVars, slotsVars
<1>3. /\ wtask \in Tasks /\ ~Queued(wtask) /\ phase[wtask] = "none"
      /\ send[wtask] = "ok" /\ (result[wtask] = "pending" <=> worker # "prenotify")
  BY <1>1 DEF WorkerHasTask, TaskPoints, AcceptedTaskAccounted, OnlyAcceptedPlaced
<1>4. \A u \in Tasks : u # wtask => result'[u] = result[u]
  BY DEF WorkerGot, WorkerCancelCheck, WorkerPreNotify, taskVars, TasksTypeOK
<1>5. \/ /\ wtask' = NoTask /\ worker' \in {"exiting", "top"}
         /\ result'[wtask] # "pending"
         /\ cPermits' = cPermits + 1
      \/ /\ wtask' = wtask /\ worker' \in {"cancelcheck", "prenotify", "insert"}
         /\ (result'[wtask] = "pending" <=> worker' # "prenotify")
         /\ cPermits' = cPermits
  BY <1>3 DEF WorkerGot, WorkerCancelCheck, WorkerPreNotify, taskVars, TasksTypeOK
<1>6. WorkerHasTask' /\ WorkerLeaves'
  BY <1>1, <1>2, <1>3, <1>5, TasksAssumption DEF WorkerHasTask, TaskPoints, WorkerLeaves
<1>7. OnlyAcceptedPlaced'
  BY <1>1, <1>2, <1>3, <1>4, <1>5, TasksAssumption DEF OnlyAcceptedPlaced, Queued
<1>8. AcceptedTaskAccounted'
  BY <1>1, <1>2, <1>3, <1>4, <1>5, TasksAssumption
     DEF AcceptedTaskAccounted, Queued, Running, Decided, Statuses
<1>9. RegistryExact'
  BY <1>1, <1>2 DEF RegistryExact, Owners
<1>10. PermitConservation'
  <2>1. PermitHolders' = PermitHolders
    BY <1>1 DEF PermitHolders
  <2>2. cPermits \in Nat /\ Cardinality(PermitHolders) \in Nat
    BY FiniteHolders DEF WorkerTypeOK
  <2> QED
    BY <1>1, <1>5, <2>1, <2>2 DEF PermitConservation, WorkerHolds
<1> QED
  BY <1>6, <1>7, <1>8, <1>9, <1>10 DEF Placement

(***************************************************************************)
(* The worker registers its task, then hands it the permit.                *)
(***************************************************************************)
LEMMA WorkerStartPlacement ==
  ASSUME PoolInv, WorkerInsert \/ WorkerSpawn
  PROVE  Placement'
<1> USE DEF PoolInv
<1>1. /\ UNCHANGED <<queueVars, cPermits, result>>
      /\ worker \in {"insert", "spawn"}
  BY DEF WorkerInsert, WorkerSpawn, taskVars
<1>2. UNCHANGED <<send, queue, rxAlive, shutdownToken, producers>>
  BY <1>1 DEF queueVars
<1>3. /\ wtask \in Tasks /\ ~Queued(wtask) /\ phase[wtask] = "none"
      /\ send[wtask] = "ok" /\ result[wtask] = "pending"
  BY <1>1 DEF WorkerHasTask, TaskPoints, AcceptedTaskAccounted, OnlyAcceptedPlaced
<1>4. CASE WorkerInsert
  <2>1. worker = "insert" /\ worker' = "spawn" /\ UNCHANGED <<wtask, phase>>
    BY <1>4 DEF WorkerInsert, taskVars
  <2>2. slotOf[wtask] = 0
    BY <1>3, <2>1
       DEF RegistryExact, Owners, SpawnedPhases, PermitPhases, Statuses
  <2>3. Owners' = Owners \cup {wtask}
    BY <1>3, <1>4, <2>2, InsertInv DEF WorkerInsert
  <2>4. RegistryExact'
    BY <2>1, <2>3 DEF RegistryExact
  <2>5. WorkerHasTask' /\ WorkerLeaves'
    BY <1>2, <1>3, <2>1 DEF WorkerHasTask, TaskPoints, WorkerLeaves
  <2>6. OnlyAcceptedPlaced' /\ AcceptedTaskAccounted'
    BY <1>1, <1>2, <2>1
       DEF OnlyAcceptedPlaced, AcceptedTaskAccounted, Queued, Running, Decided, Statuses
  <2>7. PermitConservation'
    BY <1>1, <2>1 DEF PermitConservation, PermitHolders, WorkerHolds
  <2> QED
    BY <2>4, <2>5, <2>6, <2>7 DEF Placement
<1>5. CASE WorkerSpawn
  <2>1. /\ worker = "spawn" /\ worker' = "top" /\ wtask' = NoTask
        /\ phase' = [phase EXCEPT ![wtask] = "running"] /\ UNCHANGED slotsVars
    BY <1>5 DEF WorkerSpawn
  <2>2. /\ phase'[wtask] = "running"
        /\ \A u \in Tasks : u # wtask => phase'[u] = phase[u]
    BY <1>3, <2>1 DEF TasksTypeOK
  <2>3. WorkerHasTask' /\ WorkerLeaves'
    BY <1>2, <2>1, TasksAssumption DEF WorkerHasTask, TaskPoints, WorkerLeaves
  <2>4. OnlyAcceptedPlaced'
    BY <1>1, <1>2, <1>3, <2>1, <2>2, TasksAssumption DEF OnlyAcceptedPlaced, Queued
  <2>5. AcceptedTaskAccounted'
    BY <1>1, <1>2, <1>3, <2>1, <2>2, TasksAssumption
       DEF AcceptedTaskAccounted, Queued, Running, Decided, Statuses
  <2>6. RegistryExact'
    BY <1>3, <2>1, <2>2 DEF RegistryExact, Owners, slotsVars, SpawnedPhases, PermitPhases
  <2>7. PermitHolders' = PermitHolders \cup {wtask} /\ wtask \notin PermitHolders
    BY <1>3, <2>2 DEF PermitHolders, PermitPhases, Statuses
  <2>8. Cardinality(PermitHolders') = Cardinality(PermitHolders) + 1
    BY <2>7, FiniteHolders, FS_AddElement
  <2>9. cPermits \in Nat /\ Cardinality(PermitHolders) \in Nat
    BY FiniteHolders DEF WorkerTypeOK
  <2>10. PermitConservation'
    BY <1>1, <2>1, <2>8, <2>9 DEF PermitConservation, WorkerHolds
  <2> QED
    BY <2>3, <2>4, <2>5, <2>6, <2>10 DEF Placement
<1> QED
  BY <1>4, <1>5

(***************************************************************************)
(* The worker leaves and closes the result channels of what is queued.     *)
(***************************************************************************)
LEMMA WorkerExitPlacement ==
  ASSUME PoolInv, WorkerExit
  PROVE  Placement'
<1> USE DEF PoolInv
<1>1. /\ worker = "exiting" /\ worker' = "exited"
      /\ queue' = <<>> /\ rxAlive' = FALSE
      /\ result' = [t \in Tasks |-> IF Queued(t) THEN "Closed" ELSE result[t]]
      /\ UNCHANGED <<send, slotsVars, wtask, cPermits, phase>>
  BY DEF WorkerExit, DropReceiver, Queued
<1>2. wtask \notin Tasks
  BY <1>1 DEF WorkerHasTask, TaskPoints
<1>3. DOMAIN queue' = {} /\ \A t \in Tasks : ~Queued(t)'
  BY <1>1 DEF Queued
<1>4. WorkerHasTask' /\ WorkerLeaves'
  BY <1>1, <1>2 DEF WorkerHasTask, TaskPoints, WorkerLeaves
<1>5. OnlyAcceptedPlaced'
  BY <1>1, <1>2, <1>3 DEF OnlyAcceptedPlaced, AcceptedTaskAccounted
<1>6. AcceptedTaskAccounted'
  BY <1>1, <1>2, <1>3 DEF AcceptedTaskAccounted, Running, Decided, Statuses
<1>7. RegistryExact'
  BY <1>1 DEF RegistryExact, Owners, slotsVars
<1>8. PermitConservation'
  BY <1>1 DEF PermitConservation, PermitHolders, WorkerHolds
<1> QED
  BY <1>4, <1>5, <1>6, <1>7, <1>8 DEF Placement

-----------------------------------------------------------------------------
(***************************************************************************)
(* Every step of the pool preserves the invariant.                         *)
(***************************************************************************)
LEMMA PoolNextInv == PoolInv /\ [Next]_vars => PoolInv'
<1> SUFFICES ASSUME PoolInv, [Next]_vars PROVE PoolInv'
  OBVIOUS
<1>1. QueueInv' /\ SlotsInv' /\ NotifierInv'
  BY PoolQueueStep, PoolSlotsStep, PoolNotifierStep, QueueNextInv, SlotsNextInv,
     NotifierNextInv DEF PoolInv
<1>2. ManagersTypeOK' /\ WorkerTypeOK' /\ TasksTypeOK'
  BY ManagersTypeStep, WorkerTypeStep, TasksTypeStep
<1>3. Placement'
  <2>1. CASE ManagerSide
    BY <2>1, ManagerSidePlacement
  <2>2. CASE SubmitSide
    BY <2>2, SubmitSidePlacement DEF SubmitSide
  <2>3. CASE TaskSide
    BY <2>3, TaskSidePlacement DEF TaskSide
  <2>4. CASE WorkerStep
    BY <2>4, WorkerIdlePlacement, WorkerRecvPlacement, WorkerDisposePlacement,
       WorkerStartPlacement, WorkerExitPlacement DEF WorkerStep
  <2> QED
    BY <2>1, <2>2, <2>3, <2>4, NextByActor
<1> QED
  BY <1>1, <1>2, <1>3 DEF PoolInv, Placement

(***************************************************************************)
(* The invariant holds in every state of the pool.                         *)
(***************************************************************************)
THEOREM PoolInvariant == Spec => []PoolInv
  BY PoolInitInv, PoolNextInv, PTL DEF Spec

(***************************************************************************)
(* Type correctness of the pool.                                           *)
(***************************************************************************)
THEOREM PoolTypeOK == Spec => []TypeOK
<1>1. PoolInv => TypeOK
  BY DEF PoolInv, TypeOK, QueueInv, SlotsInv, NotifierInv
<1> QED
  BY <1>1, PoolInvariant, PTL

(***************************************************************************)
(* Concurrency permits are conserved (run_worker_loop, manager.rs:437-639):*)
(* no path through the worker loop or a task loses or duplicates one.      *)
(***************************************************************************)
THEOREM PoolPermitConservation == Spec => []PermitConservation
<1>1. PoolInv => PermitConservation
  BY DEF PoolInv
<1> QED
  BY <1>1, PoolInvariant, PTL

(***************************************************************************)
(* The pool never runs more futures than its concurrency limit.            *)
(***************************************************************************)
THEOREM PoolConcurrencyLimited == Spec => []ConcurrencyLimited
<1>1. PoolInv => ConcurrencyLimited
  <2> SUFFICES ASSUME PoolInv PROVE Cardinality(Running) <= ConcurrencyPermits
    BY DEF ConcurrencyLimited
  <2>1. Running \in SUBSET PermitHolders
    BY DEF Running, PermitHolders, PermitPhases
  <2>2. Cardinality(Running) \in Nat /\ Cardinality(Running) <= Cardinality(PermitHolders)
    BY <2>1, FiniteHolders, FS_Subset, FS_CardinalityType
  <2>3. cPermits \in Nat /\ Cardinality(PermitHolders) \in Nat /\ ConcurrencyPermits \in Nat
    BY FiniteHolders, SizesAssumption DEF PoolInv, WorkerTypeOK, ConcurrencyPermits
  <2> QED
    BY <2>2, <2>3 DEF PoolInv, PermitConservation
<1> QED
  BY <1>1, PoolInvariant, PTL

(***************************************************************************)
(* The registry that shutdown and cancel-by-label read holds exactly the   *)
(* tasks that are spawned, or about to be, and not finished.               *)
(***************************************************************************)
THEOREM PoolRegistryExact == Spec => []RegistryExact
<1>1. PoolInv => RegistryExact
  BY DEF PoolInv
<1> QED
  BY <1>1, PoolInvariant, PTL

(***************************************************************************)
(* An accepted task without a result is in exactly one place that will     *)
(* produce the result.                                                     *)
(***************************************************************************)
THEOREM PoolAcceptedTaskAccounted == Spec => []AcceptedTaskAccounted
<1>1. PoolInv => AcceptedTaskAccounted
  BY DEF PoolInv
<1> QED
  BY <1>1, PoolInvariant, PTL

(***************************************************************************)
(* No accepted task is stranded behind a worker loop that has left,        *)
(* whatever clones were shutting down, dropping or submitting meanwhile.   *)
(***************************************************************************)
THEOREM PoolNoTaskLeftBehind == Spec => []NoTaskLeftBehind
<1>1. PoolInv => NoTaskLeftBehind
  <2> SUFFICES ASSUME PoolInv, worker = "exited", NEW t \in Tasks,
                      send[t] = "ok", result[t] = "pending"
               PROVE  t \in Running \cup Decided
    BY DEF NoTaskLeftBehind
  <2>1. queue = <<>>
    BY DEF PoolInv, WorkerLeaves, QueueInv, PermitAccounting
  <2>2. ~Queued(t)
    BY <2>1 DEF Queued
  <2>3. wtask # t
    BY DEF PoolInv, WorkerHasTask, TaskPoints
  <2> QED
    BY <2>2, <2>3 DEF PoolInv, AcceptedTaskAccounted
<1> QED
  BY <1>1, PoolInvariant, PTL

-----------------------------------------------------------------------------
(***************************************************************************)
(* The pool implements its three components' specifications, so what is    *)
(* proved of them holds of the pool.                                       *)
(***************************************************************************)
THEOREM PoolImplementsQueue == Spec => QueueSpec
<1>1. Init => QueueInit
  BY DEF Init
<1> QED
  BY <1>1, PoolQueueStep, PoolInvariant, PTL DEF Spec, QueueSpec

(***************************************************************************)
(* The registry's lock-protected operations are used as its own            *)
(* specification allows: insert only without a slot, remove only with one. *)
(***************************************************************************)
THEOREM PoolImplementsSlots == Spec => SlotsSpec
<1>1. Init => SlotsInit
  BY DEF Init
<1> QED
  BY <1>1, PoolSlotsStep, PoolInvariant, PTL DEF Spec, SlotsSpec

(***************************************************************************)
(* The pool's use of the notifier is one its specification allows.         *)
(***************************************************************************)
THEOREM PoolImplementsNotifier == Spec => NotifierSpec
<1>1. Init => NotifierInit
  BY DEF Init
<1> QED
  BY <1>1, PoolNotifierStep, PoolInvariant, PTL DEF Spec, NotifierSpec

(***************************************************************************)
(* Backpressure in the pool: the clones together never queue more tasks    *)
(* than queue_capacity while the worker's consumer exists.                 *)
(***************************************************************************)
THEOREM PoolBackpressure == Spec => []Backpressure
  BY PoolImplementsQueue, QueueBackpressure, PTL

-----------------------------------------------------------------------------
(***************************************************************************)
(* What a step may do to a task's result and phase.                        *)
(***************************************************************************)
ResultStep(t) ==
  /\ result[t] # "pending" => result'[t] = result[t]
  /\ cancelled[t] /\ phase[t] \notin Statuses => phase'[t] \notin {"Success", "Panicked"}
  /\ result'[t] # result[t] =>
       \/ phase[t] \in Statuses /\ result'[t] = phase[t]
       \/ phase[t] = "none" /\ result'[t] = "Cancelled" /\ cancelled[t]
       \/ phase[t] = "none" /\ result'[t] = "Closed"
  /\ phase[t] # "none" => phase'[t] # "none"
  /\ phase[t] \notin {"none", "running"} => phase'[t] # "running"

(***************************************************************************)
(* Every step of the pool is such a step: a result is written only by the  *)
(* worker that holds the task, by its drop, or by the task that has        *)
(* decided it, and in each place the result is still open.                 *)
(***************************************************************************)
LEMMA PoolResultStep == PoolInv /\ [Next]_vars => \A t \in Tasks : ResultStep(t)
<1> SUFFICES ASSUME PoolInv, [Next]_vars, NEW t \in Tasks PROVE ResultStep(t)
  OBVIOUS
<1> USE DEF PoolInv, ResultStep, TasksTypeOK, taskVars, poolVars, execVars, Statuses
<1>1. CASE UNCHANGED <<phase, result>>
  BY <1>1
<1>2. CASE SubmitSide
  BY <1>1, <1>2 DEF SubmitSide, Submit, SubmitProgress, SubmitDropped
<1>3. CASE TaskSide
  <2>1. PICK u \in Tasks : FinishStep(u) \/ \E outcome \in FutureOutcomes : FutureReady(u, outcome)
    BY <1>3 DEF TaskSide
  <2>2. CASE NotifyCompletion(u) \/ ReleasePermit(u) \/ RemoveActive(u)
    BY <2>2 DEF NotifyCompletion, ReleasePermit, RemoveActive
  <2>3. CASE CancelArm(u) \/ \E outcome \in FutureOutcomes : FutureReady(u, outcome)
    <3>1. PICK status \in Statuses :
             Decide(u, status) /\ (cancelled[u] => status = "Cancelled")
      BY <2>3, PoolAssumption DEF CancelArm, FutureReady
    <3> QED
      BY <3>1 DEF Decide
  <2>4. CASE SendResult(u)
    <3>1. phase[u] \in Statuses /\ result[u] = "pending"
      BY <2>4 DEF SendResult, AcceptedTaskAccounted, Decided
    <3> QED
      BY <2>4, <3>1 DEF SendResult
  <2> QED
    BY <2>1, <2>2, <2>3, <2>4 DEF FinishStep
<1>4. CASE WorkerStep
  <2>1. CASE WorkerGot \/ WorkerCancelCheck
    <3>1. wtask \in Tasks /\ result[wtask] = "pending" /\ phase[wtask] = "none"
      BY <2>1 DEF WorkerGot, WorkerCancelCheck, WorkerHasTask, TaskPoints,
                  AcceptedTaskAccounted
    <3> QED
      BY <2>1, <3>1 DEF WorkerGot, WorkerCancelCheck
  <2>2. CASE WorkerSpawn
    <3>1. wtask \in Tasks /\ phase[wtask] = "none"
      BY <2>2 DEF WorkerSpawn, WorkerHasTask, TaskPoints, AcceptedTaskAccounted
    <3> QED
      BY <2>2, <3>1 DEF WorkerSpawn
  <2>3. CASE WorkerExit
    <3>1. Queued(t) => result[t] = "pending" /\ phase[t] = "none"
      BY DEF AcceptedTaskAccounted
    <3>2. result'[t] = IF Queued(t) THEN "Closed" ELSE result[t]
      BY <2>3 DEF WorkerExit, Queued
    <3>3. UNCHANGED phase
      BY <2>3 DEF WorkerExit
    <3> QED
      BY <3>1, <3>2, <3>3
  <2>4. CASE \/ WorkerTop \/ WorkerAcquire \/ WorkerStop \/ WorkerRecheck \/ WorkerRecv
             \/ WorkerDisconnected \/ WorkerPreNotify \/ WorkerInsert
    BY <2>4 DEF WorkerTop, WorkerAcquire, WorkerStop, WorkerRecheck, WorkerRecv,
                WorkerDisconnected, WorkerPreNotify, WorkerInsert
  <2> QED
    BY <1>4, <2>1, <2>2, <2>3, <2>4 DEF WorkerStep
<1> QED
  BY <1>1, <1>2, <1>3, <1>4, NextByActor, ManagerSideFrame

(***************************************************************************)
(* Cancellation wins over completion (manager.rs:548-583): once a task's   *)
(* flag is set its select does not end as a success or a panic; and what   *)
(* the select ended with is what is sent (manager.rs:587-590), also if the *)
(* flag is set between the two.                                            *)
(***************************************************************************)
THEOREM PoolCancelWins == Spec => CancelWins
<1>1. PoolInv /\ [Next]_vars =>
        [\A t \in Tasks :
           /\ cancelled[t] /\ phase[t] \notin Statuses
                => phase'[t] \notin {"Success", "Panicked"}
           /\ result'[t] # result[t] =>
                \/ phase[t] \in Statuses /\ result'[t] = phase[t]
                \/ phase[t] = "none" /\ result'[t] = "Cancelled" /\ cancelled[t]
                \/ phase[t] = "none" /\ result'[t] = "Closed"]_vars
  BY PoolResultStep DEF ResultStep
<1> QED
  BY <1>1, PoolInvariant, PTL DEF Spec, CancelWins

(***************************************************************************)
(* A result is delivered once and never changes, and no task runs twice.   *)
(***************************************************************************)
THEOREM PoolResultIsFinal == Spec => ResultIsFinal
<1>1. PoolInv /\ [Next]_vars =>
        [\A t \in Tasks :
           /\ result[t] # "pending" => result'[t] = result[t]
           /\ phase[t] # "none" => phase'[t] # "none"
           /\ phase[t] \notin {"none", "running"} => phase'[t] # "running"]_vars
  BY PoolResultStep DEF ResultStep
<1> QED
  BY <1>1, PoolInvariant, PTL DEF Spec, ResultIsFinal

-----------------------------------------------------------------------------
(***************************************************************************)
(* The abstract stages and outcomes of all tasks, and what they say of the *)
(* pool.                                                                   *)
(***************************************************************************)
Stages == [t \in Tasks |-> LifeStage(t)]
LifeOutcomes == [t \in Tasks |-> LifeOutcome(t)]

(***************************************************************************)
(* What the stage read off a task's call, phase and result says of them.   *)
(***************************************************************************)
LEMMA StageMeaning ==
  ASSUME PoolInv, NEW t \in Tasks
  PROVE  /\ LifeStage(t) = "running" <=> phase[t] = "running"
         /\ phase[t] \in Statuses => LifeStage(t) = "decided"
         /\ phase[t] \in {"running"} \cup Statuses => send[t] = "ok" /\ result[t] = "pending"
         /\ result[t] # "pending" => send[t] = "ok"
         /\ send[t] \notin ReturnedPoints => LifeStage(t) = "new"
         /\ (send[t] = "ok" /\ result[t] = "pending" /\ phase[t] \notin {"running"} \cup Statuses)
              => LifeStage(t) = "accepted"
<1>1. /\ phase[t] \in {"running"} \cup Statuses => send[t] = "ok" /\ result[t] = "pending"
      /\ result[t] # "pending" => send[t] = "ok"
  BY DEF PoolInv, OnlyAcceptedPlaced, AcceptedTaskAccounted, Running, Decided, Statuses
<1>2. t \in Running \cup Decided <=> phase[t] \in {"running"} \cup Statuses
  BY DEF Running, Decided
<1> QED
  BY <1>1, <1>2 DEF LifeStage, ReturnedPoints, Statuses

(***************************************************************************)
(* A step that concerns one task moves that task's stage and outcome only. *)
(***************************************************************************)
LEMMA StagesMove ==
  ASSUME NEW t \in Tasks,
         \A u \in Tasks : u # t => /\ send'[u] = send[u] /\ result'[u] = result[u]
                                   /\ phase'[u] = phase[u]
  PROVE  /\ Stages' = [Stages EXCEPT ![t] = LifeStage(t)']
         /\ LifeOutcomes' = [LifeOutcomes EXCEPT ![t] = LifeOutcome(t)']
<1>1. \A u \in Tasks : u # t => LifeStage(u)' = LifeStage(u) /\ LifeOutcome(u)' = LifeOutcome(u)
  BY DEF LifeStage, LifeOutcome, Running, Decided
<1> QED
  BY <1>1 DEF Stages, LifeOutcomes

(***************************************************************************)
(* A step that leaves calls, results and the running and decided tasks     *)
(* alone moves no stage and no outcome.                                    *)
(***************************************************************************)
LEMMA StagesStay ==
  ASSUME UNCHANGED <<send, result>>,
         \A u \in Tasks : \/ phase'[u] = phase[u]
                          \/ /\ phase[u] \notin {"running"} \cup Statuses
                             /\ phase'[u] \notin {"running"} \cup Statuses
  PROVE  Stages' = Stages /\ LifeOutcomes' = LifeOutcomes
<1>1. \A u \in Tasks : LifeStage(u)' = LifeStage(u) /\ LifeOutcome(u)' = LifeOutcome(u)
  BY DEF LifeStage, LifeOutcome, Running, Decided
<1> QED
  BY <1>1 DEF Stages, LifeOutcomes

(***************************************************************************)
(* A submit call is refused or accepted once, or still under way.          *)
(***************************************************************************)
LEMMA SubmitLifeStep ==
  ASSUME PoolInv, SubmitSide
  PROVE  [Life!LifeNext]_(Life!lifeVars)
<1>1. PICK t \in Tasks : Submit(t) \/ SubmitProgress(t) \/ SubmitDropped(t)
  BY DEF SubmitSide
<1>2. UNCHANGED <<phase, cancelled, result, shutdownToken>>
  BY <1>1 DEF Submit, SubmitProgress, SubmitDropped, SubmitCheck, SubmitStep, PollShutdown,
              PollGate, Enqueue, AbandonSubmit, poolVars, execVars, taskVars
<1>3. send[t] \notin ReturnedPoints /\ \E x : send' = [send EXCEPT ![t] = x]
  BY <1>1 DEF Submit, SubmitProgress, SubmitDropped, SubmitCheck, SubmitStep, PollShutdown,
              PollGate, Enqueue, AbandonSubmit, ReturnedPoints
<1>4. send \in [Tasks -> {"idle"} \cup InFlightPoints \cup ReturnedPoints]
  BY DEF PoolInv, QueueInv, QueueTypeOK
<1>5. \A u \in Tasks : u # t => send'[u] = send[u]
  BY <1>3, <1>4
<1>6. Stages' = [Stages EXCEPT ![t] = LifeStage(t)'] /\ LifeOutcomes' = LifeOutcomes
  BY <1>2, <1>5, StagesMove DEF LifeOutcomes, LifeOutcome
<1>7. /\ LifeStage(t) = "new" /\ result[t] = "pending"
      /\ phase[t] \notin {"running"} \cup Statuses
  BY <1>3, StageMeaning DEF ReturnedPoints
<1>8. LifeStage(t)' \in {"new", "refused", "accepted"}
  BY <1>2, <1>7 DEF LifeStage
<1>9. CASE LifeStage(t)' = "new"
  <2>1. Stages' = Stages
    BY <1>6, <1>7, <1>9 DEF Stages
  <2> QED
    BY <1>2, <1>6, <2>1 DEF Life!lifeVars, Stages, LifeOutcomes
<1>10. CASE LifeStage(t)' = "refused"
  <2>1. Life!Refuse(t)
    BY <1>2, <1>6, <1>7, <1>10 DEF Life!Refuse, Life!Move, Stages, LifeOutcomes
  <2> QED
    BY <2>1 DEF Life!LifeNext
<1>11. CASE LifeStage(t)' = "accepted"
  <2>1. Life!Accept(t)
    BY <1>2, <1>6, <1>7, <1>11 DEF Life!Accept, Life!Move, Stages, LifeOutcomes
  <2> QED
    BY <2>1 DEF Life!LifeNext
<1> QED
  BY <1>8, <1>9, <1>10, <1>11

(***************************************************************************)
(* The clones and the notifier may only signal the pool's shutdown or ask  *)
(* for one task's cancellation.                                            *)
(***************************************************************************)
LEMMA ManagerLifeStep ==
  ASSUME PoolInv, ManagerSide
  PROVE  [Life!LifeNext]_(Life!lifeVars)
<1>1. UNCHANGED <<send, phase, result>> /\ (shutdownToken => shutdownToken')
  BY ManagerSideFrame
<1>2. Stages' = Stages /\ LifeOutcomes' = LifeOutcomes
  BY <1>1, StagesStay
<1>t. shutdownToken \in BOOLEAN /\ shutdownToken' \in BOOLEAN
  BY ManagerSideFrame, QueueNextInv DEF PoolInv, QueueInv, QueueTypeOK
<1>3. \/ UNCHANGED cancelled
      \/ /\ UNCHANGED shutdownToken
         /\ \E t \in Tasks : cancelled' = [cancelled EXCEPT ![t] = TRUE]
  <2> USE DEF managerVars, callVars, workerVars, taskVars, poolVars, execVars, queueVars
  <2>1. ASSUME NEW t \in Tasks, HandleCancel(t)
        PROVE  UNCHANGED shutdownToken /\ cancelled' = [cancelled EXCEPT ![t] = TRUE]
    BY <2>1 DEF HandleCancel
  <2>2. ASSUME NEW h \in Handlers, AddCompletionHandler(h) \/ FinishAddHandler(h)
        PROVE  UNCHANGED cancelled
    BY <2>2 DEF AddCompletionHandler, FinishAddHandler
  <2>3. ASSUME NEW m \in Managers, NEW labels \in SUBSET Labels, CancelByLabels(m, labels)
        PROVE  UNCHANGED cancelled
    BY <2>3 DEF CancelByLabels
  <2>4. ASSUME NEW m \in Managers, NEW n \in Managers, Clone(m, n)
        PROVE  UNCHANGED cancelled
    BY <2>4 DEF Clone
  <2>5. ASSUME NEW m \in Managers, NEW shutdownMode \in ShutdownModes,
               ShutdownBegin(m, shutdownMode)
        PROVE  UNCHANGED cancelled
    BY <2>5 DEF ShutdownBegin
  <2>6. ASSUME NEW m \in Managers, DropBegin(m)
        PROVE  UNCHANGED cancelled
    BY <2>6 DEF DropBegin
  <2>7. ASSUME NEW m \in Managers, ManagerStep(m)
        PROVE  \/ UNCHANGED cancelled
               \/ /\ UNCHANGED shutdownToken
                  /\ \E t \in Tasks : cancelled' = [cancelled EXCEPT ![t] = TRUE]
    <3>1. CASE \E t \in Tasks : CancelCollected(m, t)
      BY <3>1 DEF CancelCollected
    <3>2. CASE ShutdownStep(m)
      BY <3>2 DEF ShutdownStep, ShutdownCancel, ShutdownClose, ShutdownSweep, ShutdownProbe,
                  ShutdownWaited, ShutdownTake, ShutdownJoined, ShutdownSink,
                  ShutdownNotifier, ShutdownNotifierJoined, ShutdownTimeout
    <3>3. CASE DropStep(m)
      BY <3>3 DEF DropStep, DropCancel, DropClose, DropSink, DropFields
    <3> QED
      BY <2>7, <3>1, <3>2, <3>3 DEF ManagerStep
  <2>8. ASSUME NotifierProgress \/ UNCHANGED vars
        PROVE  UNCHANGED cancelled
    BY <2>8 DEF NotifierProgress, vars
  <2> QED
    BY <2>1, <2>2, <2>3, <2>4, <2>5, <2>6, <2>7, <2>8 DEF ManagerSide
<1>4. CASE UNCHANGED cancelled
  <2>1. CASE UNCHANGED shutdownToken
    BY <1>2, <1>4, <2>1 DEF Life!lifeVars, Stages, LifeOutcomes
  <2>2. CASE shutdownToken' = TRUE
    <3>1. Life!Close
      BY <1>2, <1>4, <2>2 DEF Life!Close, Stages, LifeOutcomes
    <3> QED
      BY <3>1 DEF Life!LifeNext
  <2> QED
    BY <1>1, <1>t, <2>1, <2>2
<1>5. ASSUME NEW t \in Tasks, cancelled' = [cancelled EXCEPT ![t] = TRUE],
             UNCHANGED shutdownToken
      PROVE  [Life!LifeNext]_(Life!lifeVars)
  <2>1. cancelled \in [Tasks -> BOOLEAN]
    BY DEF PoolInv, TasksTypeOK
  <2>2. CASE cancelled[t]
    <3>1. cancelled' = cancelled
      BY <1>5, <2>1, <2>2
    <3> QED
      BY <1>4, <3>1
  <2>3. CASE ~cancelled[t]
    <3>1. Life!Ask(t)
      BY <1>1, <1>2, <1>5, <2>3 DEF Life!Ask, Stages, LifeOutcomes
    <3> QED
      BY <3>1 DEF Life!LifeNext
  <2> QED
    BY <2>2, <2>3
<1> QED
  BY <1>3, <1>4, <1>5

(***************************************************************************)
(* A running task's outcome is decided, as its flag says, and then         *)
(* delivered; what the task does after is invisible.                       *)
(***************************************************************************)
LEMMA TaskLifeStep ==
  ASSUME PoolInv, TaskSide
  PROVE  [Life!LifeNext]_(Life!lifeVars)
<1>1. PICK t \in Tasks :
        FinishStep(t) \/ \E outcome \in FutureOutcomes : FutureReady(t, outcome)
  BY DEF TaskSide
<1>2. /\ phase \in [Tasks -> {"none", "done"} \cup SpawnedPhases]
      /\ result \in [Tasks -> {"pending"} \cup Outcomes]
  BY DEF PoolInv, TasksTypeOK
<1>3. CASE NotifyCompletion(t) \/ ReleasePermit(t) \/ RemoveActive(t)
  <2>1. UNCHANGED <<send, result, cancelled, shutdownToken>>
    BY <1>3 DEF NotifyCompletion, ReleasePermit, RemoveActive, queueVars
  <2>2. \A u \in Tasks : \/ phase'[u] = phase[u]
                         \/ /\ phase[u] \notin {"running"} \cup Statuses
                            /\ phase'[u] \notin {"running"} \cup Statuses
    BY <1>2, <1>3 DEF NotifyCompletion, ReleasePermit, RemoveActive, Statuses
  <2>3. Stages' = Stages /\ LifeOutcomes' = LifeOutcomes
    BY <2>1, <2>2, StagesStay
  <2> QED
    BY <2>1, <2>3 DEF Life!lifeVars, Stages, LifeOutcomes
<1>4. CASE CancelArm(t) \/ \E outcome \in FutureOutcomes : FutureReady(t, outcome)
  <2>1. PICK o \in IF cancelled[t] THEN {"Cancelled"} ELSE {"Success", "Panicked"} :
          Decide(t, o)
    BY <1>4, PoolAssumption DEF CancelArm, FutureReady
  <2>2. /\ phase[t] = "running" /\ phase' = [phase EXCEPT ![t] = o]
        /\ UNCHANGED <<send, cancelled, result, shutdownToken>>
    BY <2>1 DEF Decide, queueVars
  <2>3. /\ Stages' = [Stages EXCEPT ![t] = LifeStage(t)']
        /\ LifeOutcomes' = [LifeOutcomes EXCEPT ![t] = LifeOutcome(t)']
    BY <1>2, <2>2, StagesMove
  <2>4. LifeStage(t) = "running" /\ send[t] = "ok" /\ result[t] = "pending"
    BY <2>2, StageMeaning
  <2>5. o \in Statuses /\ phase'[t] = o /\ phase'[t] # "running"
    BY <1>2, <2>1, <2>2 DEF Statuses
  <2>6. LifeStage(t)' = "decided" /\ LifeOutcome(t)' = o
    BY <2>2, <2>4, <2>5 DEF LifeStage, LifeOutcome, ReturnedPoints, Running, Decided, Statuses
  <2>7. Life!Decide(t)
    BY <2>1, <2>2, <2>3, <2>4, <2>6 DEF Life!Decide, Life!Move, Stages, LifeOutcomes
  <2> QED
    BY <2>7 DEF Life!LifeNext
<1>5. CASE SendResult(t)
  <2>1. /\ phase[t] \in Statuses /\ result' = [result EXCEPT ![t] = phase[t]]
        /\ phase' = [phase EXCEPT ![t] = "resulted"]
        /\ UNCHANGED <<send, cancelled, shutdownToken>>
    BY <1>5 DEF SendResult, queueVars
  <2>2. /\ Stages' = [Stages EXCEPT ![t] = LifeStage(t)']
        /\ LifeOutcomes' = [LifeOutcomes EXCEPT ![t] = LifeOutcome(t)']
    BY <1>2, <2>1, StagesMove
  <2>3. LifeStage(t) = "decided" /\ LifeOutcome(t) = phase[t] /\ send[t] = "ok"
    BY <2>1, StageMeaning DEF LifeOutcome
  <2>4. /\ result'[t] = phase[t] /\ result'[t] # "pending"
        /\ phase'[t] \notin {"running"} \cup Statuses /\ send'[t] = "ok"
    BY <1>2, <2>1, <2>3 DEF Statuses
  <2>5. LifeStage(t)' = "ended" /\ LifeOutcome(t)' = LifeOutcome(t)
    BY <2>3, <2>4 DEF LifeStage, LifeOutcome, ReturnedPoints
  <2>6. LifeOutcomes' = LifeOutcomes
    BY <2>2, <2>5 DEF LifeOutcomes
  <2>7. Life!Deliver(t)
    BY <2>1, <2>2, <2>3, <2>5, <2>6 DEF Life!Deliver, Life!Move, Stages, LifeOutcomes
  <2> QED
    BY <2>7 DEF Life!LifeNext
<1> QED
  BY <1>1, <1>3, <1>4, <1>5 DEF FinishStep

(***************************************************************************)
(* The worker starts a task within the limit, skips a cancelled one, and   *)
(* discards only what was never started, once the pool is closing.         *)
(***************************************************************************)
LEMMA WorkerLifeStep ==
  ASSUME PoolInv, WorkerStep
  PROVE  [Life!LifeNext]_(Life!lifeVars)
<1> USE DEF taskVars, queueVars
<1>0. UNCHANGED shutdownToken
  BY DEF WorkerStep, WorkerTop, WorkerAcquire, WorkerStop, WorkerRecheck, WorkerRecv,
         WorkerDisconnected, WorkerGot, WorkerCancelCheck, WorkerPreNotify, WorkerInsert,
         WorkerSpawn, WorkerExit, Dequeue, DropReceiver
<1>1. ASSUME UNCHANGED <<send, phase, cancelled, result>>
      PROVE  [Life!LifeNext]_(Life!lifeVars)
  <2>1. Stages' = Stages /\ LifeOutcomes' = LifeOutcomes
    BY <1>1, StagesStay
  <2> QED
    BY <1>0, <1>1, <2>1 DEF Life!lifeVars, Stages, LifeOutcomes
<1>2. /\ phase \in [Tasks -> {"none", "done"} \cup SpawnedPhases]
      /\ result \in [Tasks -> {"pending"} \cup Outcomes]
  BY DEF PoolInv, TasksTypeOK
<1>3. ASSUME worker \in TaskPoints, worker # "prenotify"
      PROVE  \E t \in Tasks : /\ wtask = t /\ send[t] = "ok" /\ result[t] = "pending"
                              /\ phase[t] = "none" /\ LifeStage(t) = "accepted"
  <2>1. PICK t \in Tasks : wtask = t
    BY <1>3 DEF PoolInv, WorkerHasTask
  <2>2. send[t] = "ok" /\ result[t] = "pending" /\ phase[t] = "none"
    BY <1>3, <2>1 DEF PoolInv, OnlyAcceptedPlaced, AcceptedTaskAccounted
  <2> QED
    BY <2>1, <2>2, StageMeaning DEF Running, Decided, Statuses
<1>4. CASE \/ WorkerTop \/ WorkerAcquire \/ WorkerStop \/ WorkerRecheck \/ WorkerDisconnected
           \/ WorkerPreNotify \/ WorkerInsert
  BY <1>1, <1>4 DEF WorkerTop, WorkerAcquire, WorkerStop, WorkerRecheck, WorkerDisconnected,
                    WorkerPreNotify, WorkerInsert
<1>5. CASE WorkerRecv
  BY <1>1, <1>5 DEF WorkerRecv, Dequeue
<1>6. CASE WorkerGot
  <2>1. CASE ~shutdownToken
    BY <1>1, <1>6, <2>1 DEF WorkerGot
  <2>2. CASE shutdownToken
    <3>1. PICK t \in Tasks : /\ wtask = t /\ send[t] = "ok" /\ phase[t] = "none"
                             /\ LifeStage(t) = "accepted"
      BY <1>3, <1>6 DEF WorkerGot, TaskPoints
    <3>2. result' = [result EXCEPT ![t] = "Closed"] /\ UNCHANGED <<send, phase, cancelled>>
      BY <1>6, <2>2, <3>1 DEF WorkerGot
    <3>3. /\ Stages' = [Stages EXCEPT ![t] = LifeStage(t)']
          /\ LifeOutcomes' = [LifeOutcomes EXCEPT ![t] = LifeOutcome(t)']
      BY <1>2, <3>2, StagesMove
    <3>4. LifeStage(t)' = "ended" /\ LifeOutcome(t)' = "Closed"
      BY <1>2, <3>1, <3>2 DEF LifeStage, LifeOutcome, Statuses, ReturnedPoints
    <3>5. Life!Discard({t})
      BY <1>0, <2>2, <3>1, <3>2, <3>3, <3>4 DEF Life!Discard, Stages, LifeOutcomes
    <3> QED
      BY <3>5 DEF Life!LifeNext
  <2> QED
    BY <2>1, <2>2
<1>7. CASE WorkerCancelCheck
  <2>1. CASE ~cancelled[wtask]
    BY <1>1, <1>7, <2>1 DEF WorkerCancelCheck
  <2>2. CASE cancelled[wtask]
    <3>1. PICK t \in Tasks : /\ wtask = t /\ send[t] = "ok" /\ phase[t] = "none"
                             /\ LifeStage(t) = "accepted"
      BY <1>3, <1>7 DEF WorkerCancelCheck, TaskPoints
    <3>2. result' = [result EXCEPT ![t] = "Cancelled"] /\ UNCHANGED <<send, phase, cancelled>>
      BY <1>7, <2>2, <3>1 DEF WorkerCancelCheck
    <3>3. /\ Stages' = [Stages EXCEPT ![t] = LifeStage(t)']
          /\ LifeOutcomes' = [LifeOutcomes EXCEPT ![t] = LifeOutcome(t)']
      BY <1>2, <3>2, StagesMove
    <3>4. LifeStage(t)' = "ended" /\ LifeOutcome(t)' = "Cancelled"
      BY <1>2, <3>1, <3>2 DEF LifeStage, LifeOutcome, Statuses, ReturnedPoints
    <3>5. Life!Skip(t)
      BY <1>0, <2>2, <3>1, <3>2, <3>3, <3>4 DEF Life!Skip, Life!Move, Stages, LifeOutcomes
    <3> QED
      BY <3>5 DEF Life!LifeNext
  <2> QED
    BY <2>1, <2>2
<1>8. CASE WorkerSpawn
  <2>1. PICK t \in Tasks : /\ wtask = t /\ send[t] = "ok" /\ result[t] = "pending"
                           /\ phase[t] = "none" /\ LifeStage(t) = "accepted"
    BY <1>3, <1>8 DEF WorkerSpawn, TaskPoints
  <2>2. phase' = [phase EXCEPT ![t] = "running"] /\ UNCHANGED <<send, cancelled, result>>
    BY <1>8, <2>1 DEF WorkerSpawn
  <2>3. /\ Stages' = [Stages EXCEPT ![t] = LifeStage(t)']
        /\ LifeOutcomes' = [LifeOutcomes EXCEPT ![t] = LifeOutcome(t)']
    BY <1>2, <2>2, StagesMove
  <2>4. LifeStage(t)' = "running" /\ LifeOutcome(t)' = LifeOutcome(t)
    BY <1>2, <2>1, <2>2 DEF LifeStage, LifeOutcome, Statuses, ReturnedPoints, Running, Decided
  <2>o. LifeOutcomes' = LifeOutcomes
    BY <2>3, <2>4 DEF LifeOutcomes
  <2>5. {u \in Tasks : Stages[u] = "running"} = Running
    BY StageMeaning DEF Stages, Running
  <2>6. Cardinality(Running) < ConcurrencyPermits
    <3>1. Running \in SUBSET PermitHolders
      BY DEF Running, PermitHolders, PermitPhases
    <3>2. Cardinality(Running) \in Nat /\ Cardinality(Running) <= Cardinality(PermitHolders)
      BY <3>1, FiniteHolders, FS_Subset, FS_CardinalityType
    <3>3. cPermits \in Nat /\ Cardinality(PermitHolders) \in Nat /\ ConcurrencyPermits \in Nat
      BY FiniteHolders, SizesAssumption DEF PoolInv, WorkerTypeOK, ConcurrencyPermits
    <3>4. worker \in WorkerHolds
      BY <1>8 DEF WorkerSpawn, WorkerHolds
    <3> QED
      BY <3>2, <3>3, <3>4 DEF PoolInv, PermitConservation
  <2>7. Life!Start(t)
    BY <1>0, <2>1, <2>2, <2>3, <2>4, <2>5, <2>6, <2>o
       DEF Life!Start, Life!Move, Stages, LifeOutcomes, Life!Cardinality, Cardinality
  <2> QED
    BY <2>7 DEF Life!LifeNext
<1>9. CASE WorkerExit
  <2> DEFINE S == {t \in Tasks : Queued(t)}
  <2>1. /\ result' = [t \in Tasks |-> IF t \in S THEN "Closed" ELSE result[t]]
        /\ UNCHANGED <<send, phase, cancelled>>
    BY <1>9 DEF WorkerExit, DropReceiver, Queued
  <2>2. \A t \in S : send[t] = "ok" /\ phase[t] = "none" /\ LifeStage(t) = "accepted"
    <3>1. \A t \in S : send[t] = "ok" /\ result[t] = "pending" /\ phase[t] = "none"
      BY DEF PoolInv, OnlyAcceptedPlaced, AcceptedTaskAccounted
    <3> QED
      BY <3>1, StageMeaning DEF Running, Decided, Statuses
  <2>3. \A t \in Tasks :
          /\ LifeStage(t)' = IF t \in S THEN "ended" ELSE LifeStage(t)
          /\ LifeOutcome(t)' = IF t \in S THEN "Closed" ELSE LifeOutcome(t)
    <3>1. \A t \in S : send'[t] = "ok" /\ result'[t] = "Closed" /\ phase'[t] = "none"
      BY <2>1, <2>2
    <3>2. \A t \in Tasks \ S : send'[t] = send[t] /\ result'[t] = result[t]
                               /\ phase'[t] = phase[t]
      BY <2>1
    <3>3. \A t \in S : LifeStage(t)' = "ended" /\ LifeOutcome(t)' = "Closed"
      BY <3>1 DEF LifeStage, LifeOutcome, Statuses, ReturnedPoints
    <3>4. \A t \in Tasks \ S : /\ LifeStage(t)' = LifeStage(t)
                               /\ LifeOutcome(t)' = LifeOutcome(t)
      BY <3>2 DEF LifeStage, LifeOutcome, Running, Decided
    <3> QED
      BY <3>3, <3>4
  <2>4. CASE shutdownToken
    <3>1. Life!Discard(S)
      BY <1>0, <2>1, <2>2, <2>3, <2>4 DEF Life!Discard
    <3>2. S \in SUBSET Tasks
      OBVIOUS
    <3> QED
      BY <3>1, <3>2 DEF Life!LifeNext
  <2>5. CASE ~shutdownToken
    <3>1. queue = <<>>
      BY <1>9, <2>5 DEF WorkerExit, PoolInv, WorkerLeaves, Disconnected
    <3>2. S = {}
      BY <3>1 DEF Queued
    <3>3. result' = result
      BY <1>2, <2>1, <3>2
    <3> QED
      BY <1>1, <2>1, <3>3
  <2> QED
    BY <2>4, <2>5
<1> QED
  BY <1>4, <1>5, <1>6, <1>7, <1>8, <1>9 DEF WorkerStep

(***************************************************************************)
(* The pool implements the abstract life of a task, whatever its clones,   *)
(* worker, tasks and notifier interleave: the concurrency limit, final     *)
(* results, a cancellation that decides only what the select has not       *)
(* decided (manager.rs:546-590), refused tasks that never run, nothing     *)
(* discarded before shutdown is signalled.                                 *)
(***************************************************************************)
THEOREM PoolImplementsLifecycle == Spec => ImplementsLifecycle
<1>1. Init => Life!LifeInit
  <2> SUFFICES ASSUME Init PROVE Life!LifeInit
    OBVIOUS
  <2>1. \A t \in Tasks : LifeStage(t) = "new"
    BY DEF Init, QueueInit, LifeStage, ReturnedPoints, Running, Decided, Statuses
  <2>2. \A t \in Tasks : LifeOutcome(t) = "pending"
    BY DEF Init, LifeOutcome, Statuses
  <2> QED
    BY <2>1, <2>2 DEF Init, QueueInit, Life!LifeInit
<1>2. PoolInv /\ [Next]_vars => [Life!LifeNext]_(Life!lifeVars)
  BY NextByActor, SubmitLifeStep, ManagerLifeStep, TaskLifeStep, WorkerLifeStep
<1> QED
  BY <1>1, <1>2, PoolInvariant, PTL DEF Spec, ImplementsLifecycle, Life!LifeSpec

-----------------------------------------------------------------------------
(***************************************************************************)
(* What the shutdown of the pool's only clone has established by each      *)
(* point.  With no other clone about, the token is clear until the clone   *)
(* itself sets it, so its shutdown is the first and finds both handles: it *)
(* joins the worker loop, closes the sink and joins the notifier, which    *)
(* nobody can start again.  Only a timeout goes past a join without it.    *)
(***************************************************************************)
Sole(m) == \A n \in Managers \ {m} : mgr[n] = "absent"

PastNotifier == {"shutdown_return", "shut"}
PastSink == {"shutdown_notifier", "shutdown_notifier_join"} \cup PastNotifier
PastJoin == {"shutdown_sink"} \cup PastSink
PastTake == {"shutdown_join"} \cup PastJoin

SoleShutdown(m) ==
  Sole(m) =>
    /\ shutdownToken => mgr[m] \in {"absent"} \cup InShutdown \cup InDrop \cup Gone
    /\ mgr[m] \in InShutdown \cup {"shut"} => first[m]
    /\ ~workerHandle => mgr[m] \in PastTake
    /\ mgr[m] \in PastJoin /\ ~timedOut[m] => worker = "exited"
    /\ mgr[m] \in PastSink => sink # "open"
    /\ nworker # "none" /\ ~notifierHandle =>
         mgr[m] \in PastNotifier \cup {"shutdown_notifier_join"}
    /\ mgr[m] \in PastNotifier /\ ~timedOut[m] => nworker \in {"none", "stopped"}

ShutdownInv == \A m \in Managers : SoleShutdown(m)

(***************************************************************************)
(* A step of nobody's clone keeps what a shutdown has established: the     *)
(* worker loop may leave, the notifier may go on or stop, and a new        *)
(* channel for completions needs a live clone.                             *)
(***************************************************************************)
LEMMA ShutdownUntouched ==
  ASSUME NEW m \in Managers, SoleShutdown(m),
         mgr \in [Managers -> {"absent"} \cup Live \cup InShutdown \cup InDrop \cup Gone],
         UNCHANGED <<mgr, first, timedOut, workerHandle, shutdownToken>>,
         worker = "exited" => worker' = "exited",
         \/ /\ sink' = "open" => sink = "open"
            /\ nworker \in {"none", "stopped"} => nworker' = nworker
         \/ \E n \in Managers : mgr[n] \in Live,
         nworker' # "none" /\ ~notifierHandle' => nworker # "none" /\ ~notifierHandle
  PROVE  SoleShutdown(m)'
<1>1. Sole(m)' <=> Sole(m)
  BY DEF Sole
<1>2. Sole(m) /\ mgr[m] \in PastSink =>
        /\ sink' = "open" => sink = "open"
        /\ nworker \in {"none", "stopped"} => nworker' = nworker
  BY DEF Sole, Live, PastSink, PastNotifier
<1> QED
  BY <1>1, <1>2 DEF SoleShutdown, PastSink, PastNotifier

(***************************************************************************)
(* The steps of the submit calls, the tasks, the worker loop and the       *)
(* notifier are of that kind.                                              *)
(***************************************************************************)
LEMMA OthersKeepShutdown ==
  ASSUME PoolInv, NEW m \in Managers, SoleShutdown(m),
         \/ SubmitSide \/ TaskSide \/ WorkerStep \/ NotifierProgress \/ UNCHANGED vars
         \/ \E h \in Handlers : AddCompletionHandler(h) \/ FinishAddHandler(h)
  PROVE  SoleShutdown(m)'
<1> USE DEF poolVars, managerVars, callVars, execVars, workerVars
<1>0. /\ mgr \in [Managers -> {"absent"} \cup Live \cup InShutdown \cup InDrop \cup Gone]
      /\ Registrar \in [Handlers -> Managers]
  BY CallersAssumption DEF PoolInv, ManagersTypeOK
<1>1. CASE SubmitSide \/ UNCHANGED vars
  <2>1. UNCHANGED <<poolVars, sink, nworker, notifierHandle, shutdownToken>>
    BY <1>1 DEF SubmitSide, Submit, SubmitProgress, SubmitDropped, vars, notifierVars, queueVars,
                SubmitCheck, SubmitStep, AbandonSubmit, PollShutdown, PollGate, Enqueue
  <2> QED
    BY <1>0, <2>1, ShutdownUntouched
<1>2. CASE TaskSide
  <2>1. UNCHANGED <<managerVars, worker, sink, nworker, notifierHandle, shutdownToken>>
    BY <1>2 DEF TaskSide, FinishStep, CancelArm, FutureReady, Decide, SendResult, NotifyCompletion,
                ReleasePermit, RemoveActive, notifierVars, queueVars, SendCompletion
  <2> QED
    BY <1>0, <2>1, ShutdownUntouched
<1>3. CASE WorkerStep
  <2>1. worker # "exited"
    BY <1>3 DEF WorkerStep, WorkerTop, WorkerAcquire, WorkerStop, WorkerRecheck, WorkerRecv,
                WorkerDisconnected, WorkerGot, WorkerCancelCheck, WorkerPreNotify, WorkerInsert,
                WorkerSpawn, WorkerExit
  <2>2. UNCHANGED <<managerVars, nworker, notifierHandle, shutdownToken>>
    BY <1>3 DEF WorkerStep, WorkerTop, WorkerAcquire, WorkerStop, WorkerRecheck, WorkerRecv,
                WorkerDisconnected, WorkerGot, WorkerCancelCheck, WorkerPreNotify, WorkerInsert,
                WorkerSpawn, WorkerExit, notifierVars, queueVars, Dequeue, DropReceiver,
                SendPreCancelled, CaptureSender, CloseSink
  <2>3. sink' = "open" => sink = "open"
    BY <1>3 DEF WorkerStep, WorkerTop, WorkerAcquire, WorkerStop, WorkerRecheck, WorkerRecv,
                WorkerDisconnected, WorkerGot, WorkerCancelCheck, WorkerPreNotify, WorkerInsert,
                WorkerSpawn, WorkerExit, notifierVars, SendPreCancelled, CaptureSender,
                CloseSink
  <2> QED
    BY <1>0, <2>1, <2>2, <2>3, ShutdownUntouched
<1>4. ASSUME NEW h \in Handlers, AddCompletionHandler(h) PROVE SoleShutdown(m)'
  <2>1. UNCHANGED <<poolVars, shutdownToken>> /\ \E n \in Managers : mgr[n] \in Live
    BY <1>0, <1>4 DEF AddCompletionHandler, queueVars
  <2>2. nworker' # "none" /\ ~notifierHandle' => nworker # "none" /\ ~notifierHandle
    BY <1>4 DEF AddCompletionHandler, AddHandlerInit
  <2> QED
    BY <1>0, <2>1, <2>2, ShutdownUntouched
<1>5. ASSUME NEW h \in Handlers, FinishAddHandler(h) PROVE SoleShutdown(m)'
  <2>1. UNCHANGED <<poolVars, sink, nworker, notifierHandle, shutdownToken>>
    BY <1>5 DEF FinishAddHandler, AddHandlerPush, queueVars
  <2> QED
    BY <1>0, <2>1, ShutdownUntouched
<1>6. CASE NotifierProgress
  <2>1. /\ UNCHANGED <<poolVars, sink, notifierHandle, shutdownToken>>
        /\ nworker \in {"none", "stopped"} => nworker' = nworker
        /\ nworker' # "none" => nworker # "none"
    BY <1>6 DEF NotifierProgress, NotifierStep, NotifierRecv, NotifierCall, NotifierStop,
                queueVars
  <2> QED
    BY <1>0, <2>1, ShutdownUntouched
<1> QED
  BY <1>1, <1>2, <1>3, <1>4, <1>5, <1>6

(***************************************************************************)
(* A clone's own step changes the place of no other clone, and the clone   *)
(* was there before and is there, or has ended, after.                     *)
(***************************************************************************)
OwnStep(n) ==
  \/ \E labels \in SUBSET Labels : CancelByLabels(n, labels)
  \/ \E shutdownMode \in ShutdownModes : ShutdownBegin(n, shutdownMode)
  \/ DropBegin(n) \/ ManagerStep(n)

(***************************************************************************)
(* The other clones, whose calls are futures of their own, stay put.       *)
(***************************************************************************)
LEMMA OwnStepMoves ==
  ASSUME PoolInv, NEW n \in Managers, OwnStep(n)
  PROVE  /\ \A k \in Managers \ {n} : mgr'[k] = mgr[k]
         /\ mgr[n] # "absent" /\ mgr'[n] # "absent"
<1> USE DEF Goto
<1>0. mgr \in [Managers -> {"absent"} \cup Live \cup InShutdown \cup InDrop \cup Gone]
  BY DEF PoolInv, ManagersTypeOK
<1>1. CASE (\E shutdownMode \in ShutdownModes : ShutdownBegin(n, shutdownMode)) \/ DropBegin(n)
  BY <1>0, <1>1 DEF ShutdownBegin, DropBegin, Unborrowed
<1>2. CASE \E labels \in SUBSET Labels : CancelByLabels(n, labels)
  BY <1>0, <1>2 DEF CancelByLabels
<1>3. CASE \E t \in Tasks : CancelCollected(n, t)
  BY <1>0, <1>3 DEF CancelCollected
<1>4. CASE DropStep(n)
  BY <1>0, <1>4 DEF DropStep, DropCancel, DropClose, DropSink, DropFields
<1>5. CASE ShutdownTimeout(n)
  BY <1>0, <1>5 DEF ShutdownTimeout, AfterTimeout
<1>6. CASE ShutdownStep(n) /\ ~ShutdownTimeout(n)
  BY <1>0, <1>6 DEF ShutdownStep, ShutdownCancel, ShutdownClose, ShutdownSweep, ShutdownProbe,
                    ShutdownWaited, ShutdownTake, ShutdownJoined, ShutdownSink,
                    ShutdownNotifier, ShutdownNotifierJoined
<1> QED
  BY <1>1, <1>2, <1>3, <1>4, <1>5, <1>6 DEF OwnStep, ManagerStep

(***************************************************************************)
(* A step of the only clone: each leads from what was established to what  *)
(* the point it comes to asks for.                                         *)
(***************************************************************************)
LEMMA OwnKeepsShutdown ==
  ASSUME PoolInv, NEW m \in Managers, SoleShutdown(m), Sole(m)' <=> Sole(m), OwnStep(m)
  PROVE  SoleShutdown(m)'
<1> USE DEF callVars, poolVars, execVars, workerVars, queueVars, notifierVars, Goto
<1> USE DEF Live, InShutdown, InDrop, Gone, PastTake, PastJoin, PastSink, PastNotifier
<1>0. /\ mgr \in [Managers -> {"absent"} \cup Live \cup InShutdown \cup InDrop \cup Gone]
      /\ first \in [Managers -> BOOLEAN] /\ timedOut \in [Managers -> BOOLEAN]
  BY DEF PoolInv, ManagersTypeOK
<1>1. CASE \E labels \in SUBSET Labels : CancelByLabels(m, labels)
  BY <1>0, <1>1 DEF SoleShutdown, CancelByLabels
<1>2. ASSUME NEW shutdownMode \in ShutdownModes, ShutdownBegin(m, shutdownMode)
      PROVE  SoleShutdown(m)'
  BY <1>0, <1>2 DEF SoleShutdown, ShutdownBegin, Unborrowed
<1>3. CASE DropBegin(m)
  BY <1>0, <1>3 DEF SoleShutdown, DropBegin, Unborrowed
<1>4. CASE \E t \in Tasks : CancelCollected(m, t)
  BY <1>0, <1>4 DEF SoleShutdown, CancelCollected
<1>5. CASE ShutdownCancel(m) \/ DropCancel(m)
  BY <1>0, <1>5 DEF SoleShutdown, ShutdownCancel, DropCancel, CancelShutdownToken
<1>6. CASE ShutdownClose(m) \/ DropClose(m)
  BY <1>0, <1>6 DEF SoleShutdown, ShutdownClose, DropClose, CloseProducer
<1>7. CASE ShutdownSweep(m) \/ ShutdownProbe(m) \/ ShutdownWaited(m)
  BY <1>0, <1>7 DEF SoleShutdown, ShutdownSweep, ShutdownProbe, ShutdownWaited
<1>8. CASE ShutdownTake(m) \/ ShutdownJoined(m)
  BY <1>0, <1>8 DEF SoleShutdown, ShutdownTake, ShutdownJoined
<1>9. CASE ShutdownSink(m)
  BY <1>0, <1>9 DEF SoleShutdown, ShutdownSink, CloseSink
<1>10. CASE ShutdownNotifier(m) \/ ShutdownNotifierJoined(m)
  BY <1>0, <1>10 DEF SoleShutdown, ShutdownNotifier, ShutdownNotifierJoined, TakeNotifierHandle
<1>11. CASE ShutdownTimeout(m)
  BY <1>0, <1>11 DEF SoleShutdown, ShutdownTimeout, AfterTimeout
<1>12. CASE DropSink(m) \/ DropFields(m)
  BY <1>0, <1>12 DEF SoleShutdown, DropSink, DropFields, CloseSink, CloseProducer
<1> QED
  BY <1>1, <1>2, <1>3, <1>4, <1>5, <1>6, <1>7, <1>8, <1>9, <1>10, <1>11, <1>12
     DEF OwnStep, ManagerStep, ShutdownStep, DropStep

(***************************************************************************)
(* It holds of a new pool and every step keeps it; a step of another clone *)
(* or the making of one shows that this is not the only one.               *)
(***************************************************************************)
LEMMA ShutdownInvHolds ==
  /\ Init => ShutdownInv
  /\ PoolInv /\ ShutdownInv /\ [Next]_vars => ShutdownInv'
<1>1. Init => ShutdownInv
  BY DEF Init, QueueInit, NotifierInit, ShutdownInv, SoleShutdown, InShutdown, PastTake, PastJoin,
         PastSink, PastNotifier
<1>2. ASSUME PoolInv, NEW m \in Managers, SoleShutdown(m), ManagerSide
      PROVE  SoleShutdown(m)'
  <2>0. mgr \in [Managers -> {"absent"} \cup Live \cup InShutdown \cup InDrop \cup Gone]
    BY <1>2 DEF PoolInv, ManagersTypeOK
  <2>1. ASSUME NEW t \in Tasks, HandleCancel(t) PROVE SoleShutdown(m)'
    <3>1. UNCHANGED <<managerVars, worker, shutdownToken, sink, nworker, notifierHandle>>
      BY <2>1 DEF HandleCancel, queueVars, notifierVars, workerVars
    <3> QED
      BY <1>2, <2>0, <3>1, ShutdownUntouched DEF managerVars, callVars
  <2>2. ASSUME NEW k \in Managers, NEW n \in Managers, Clone(k, n) PROVE SoleShutdown(m)'
    <3>1. k # n /\ mgr'[n] = "idle" /\ mgr'[k] \in Live
      BY <2>0, <2>2 DEF Clone, Live
    <3>2. ~Sole(m)'
      BY <3>1 DEF Sole, Live
    <3> QED
      BY <3>2 DEF SoleShutdown
  <2>3. ASSUME NEW n \in Managers, OwnStep(n) PROVE SoleShutdown(m)'
    <3>1. CASE m = n
      <4>1. Sole(m)' <=> Sole(m)
        BY <1>2, <2>3, <3>1, OwnStepMoves DEF Sole
      <4> QED
        BY <1>2, <2>3, <3>1, <4>1, OwnKeepsShutdown
    <3>2. CASE m # n
      <4>1. ~Sole(m)'
        BY <1>2, <2>3, <3>2, OwnStepMoves DEF Sole
      <4> QED
        BY <4>1 DEF SoleShutdown
    <3> QED
      BY <3>1, <3>2
  <2> QED
    BY <1>2, <2>1, <2>2, <2>3, OthersKeepShutdown DEF ManagerSide, OwnStep
<1>3. PoolInv /\ ShutdownInv /\ [Next]_vars => ShutdownInv'
  BY <1>2, NextByActor, OthersKeepShutdown DEF ShutdownInv
<1> QED
  BY <1>1, <1>3

(***************************************************************************)
(* A shutdown of the only clone there is, in which no timeout fired,       *)
(* returns with the worker loop and the notifier joined and nothing left   *)
(* undelivered, whatever was queued or running when it was called          *)
(* (manager.rs:255-369).                                                   *)
(***************************************************************************)
THEOREM PoolSoleShutdownJoins == Spec => []SoleShutdownJoins
<1>1. PoolInv /\ ShutdownInv => SoleShutdownJoins
  <2> SUFFICES ASSUME PoolInv, ShutdownInv,
                      NEW m \in Managers, mgr[m] = "shut", ~timedOut[m], Sole(m)
               PROVE  /\ worker = "exited" /\ nworker \in {"none", "stopped"}
                      /\ nqueue = <<>> /\ txs = {}
    BY DEF SoleShutdownJoins, Sole
  <2>1. worker = "exited" /\ nworker \in {"none", "stopped"}
    BY DEF ShutdownInv, SoleShutdown, PastJoin, PastSink, PastNotifier
  <2>2. nqueue = <<>> /\ txs = {}
    BY <2>1 DEF PoolInv, NotifierInv, StopsDrained, SinkHasWorker
  <2> QED
    BY <2>1, <2>2
<1> QED
  BY <1>1, ShutdownInvHolds, PoolInvariant, PTL DEF Spec

-----------------------------------------------------------------------------
(***************************************************************************)
(* Which messages exist and what they say.  A task is told of when a       *)
(* message about it is queued, in delivery or delivered.  A task with a    *)
(* sender, and one the worker is about to report, is not told of; a queued *)
(* message has reached no handler, and the one in delivery only those      *)
(* before the position the notifier has come to.                           *)
(***************************************************************************)
ToldOf(t) ==
  \/ Reported(t, nqueue)
  \/ nworker = "calling" /\ ncur.task = t
  \/ \E h \in Handlers : Reported(t, seen[h])

QueueReports ==
  /\ \A i \in DOMAIN nqueue :
       /\ nqueue[i].status = result[nqueue[i].task]
       /\ \A h \in Handlers : ~Reported(nqueue[i].task, seen[h])
  /\ \A i, j \in DOMAIN nqueue : nqueue[i].task = nqueue[j].task => i = j

DeliveryReports ==
  nworker = "calling" =>
    /\ ncur.status = result[ncur.task]
    /\ ~Reported(ncur.task, nqueue)
    /\ \A k \in DOMAIN handlers : k >= ncalls => ~Reported(ncur.task, seen[handlers[k]])

SeenReports ==
  \A h \in Handlers : \A i, j \in DOMAIN seen[h] :
    /\ seen[h][i].status = result[seen[h][i].task]
    /\ seen[h][i].task = seen[h][j].task => i = j

SenderPhases == {"running", "resulted"} \cup Statuses

SenderReports == \A t \in txs : phase[t] \in SenderPhases /\ ~ToldOf(t)

WorkerReports == worker = "prenotify" => result[wtask] = "Cancelled" /\ ~ToldOf(wtask)

ReportInv == QueueReports /\ DeliveryReports /\ SeenReports /\ SenderReports /\ WorkerReports

(***************************************************************************)
(* The messages there are, by type: each is about a task and carries a     *)
(* status, never the mark of an open result.                               *)
(***************************************************************************)
LEMMA MessageTypes ==
  ASSUME PoolInv
  PROVE  /\ nqueue \in Seq(Messages) /\ seen \in [Handlers -> Seq(Messages)]
         /\ handlers \in Seq(Handlers) /\ txs \subseteq Tasks
         /\ nworker = "calling" => ncur \in Messages /\ ncalls \in DOMAIN handlers
         /\ \A x \in Messages : x.task \in Tasks /\ x.status \in Statuses
                                /\ x.status # "pending"
         /\ \A i \in DOMAIN nqueue : nqueue[i] \in Messages
         /\ \A h \in Handlers : \A i \in DOMAIN seen[h] : seen[h][i] \in Messages
<1>1. /\ nqueue \in Seq(Messages) /\ seen \in [Handlers -> Seq(Messages)]
      /\ handlers \in Seq(Handlers) /\ txs \subseteq Tasks
      /\ nworker = "calling" => ncur \in Messages /\ ncalls \in DOMAIN handlers
  BY DEF PoolInv, NotifierInv, NotifierTypeOK, DeliveryInRange
<1>2. \A x \in Messages : /\ x.task \in Tasks /\ x.status \in Statuses
                          /\ x.status # "pending"
  BY DEF Messages, Statuses
<1>3. \A i \in DOMAIN nqueue : nqueue[i] \in Messages
  BY <1>1
<1>4. \A h \in Handlers : \A i \in DOMAIN seen[h] : seen[h][i] \in Messages
  BY <1>1
<1> QED
  BY <1>1, <1>2, <1>3, <1>4

(***************************************************************************)
(* Only a task with a result is told of.                                   *)
(***************************************************************************)
LEMMA OpenNotTold ==
  ASSUME PoolInv, ReportInv, NEW t \in Tasks, result[t] = "pending"
  PROVE  ~ToldOf(t)
<1>1. ~Reported(t, nqueue)
  BY MessageTypes DEF ReportInv, QueueReports, Reported
<1>2. ~(nworker = "calling" /\ ncur.task = t)
  BY MessageTypes DEF ReportInv, DeliveryReports
<1>3. \A h \in Handlers : ~Reported(t, seen[h])
  BY MessageTypes DEF ReportInv, SeenReports, Reported
<1> QED
  BY <1>1, <1>2, <1>3 DEF ToldOf

(***************************************************************************)
(* What a sequence of messages reports after a message is appended, and    *)
(* after the first is taken.                                               *)
(***************************************************************************)
LEMMA ReportedAfterAppend ==
  ASSUME NEW s \in Seq(Messages), NEW x \in Messages
  PROVE  \A t : Reported(t, Append(s, x)) <=> Reported(t, s) \/ t = x.task
<1>1. /\ Append(s, x) \in Seq(Messages) /\ DOMAIN s = 1..Len(s) /\ Len(s) \in Nat
      /\ DOMAIN Append(s, x) = 1..(Len(s) + 1)
      /\ \A i \in 1..Len(s) : Append(s, x)[i] = s[i]
      /\ Append(s, x)[Len(s) + 1] = x
  OBVIOUS
<1>2. Len(s) + 1 \in 1..(Len(s) + 1) /\ \A i \in 1..Len(s) : i \in 1..(Len(s) + 1)
  BY <1>1
<1>3. \A i \in 1..(Len(s) + 1) : i \in 1..Len(s) \/ i = Len(s) + 1
  BY <1>1
<1> QED
  BY <1>1, <1>2, <1>3 DEF Reported

(***************************************************************************)
(* Taking the first message reports nothing new; the rest moves up one.    *)
(***************************************************************************)
LEMMA ReportedAfterTail ==
  ASSUME NEW s \in Seq(Messages), s # <<>>
  PROVE  /\ 1 \in DOMAIN s /\ Head(s) = s[1] /\ Head(s) \in Messages
         /\ Tail(s) \in Seq(Messages)
         /\ \A i \in DOMAIN Tail(s) : i + 1 \in DOMAIN s /\ i + 1 # 1 /\ Tail(s)[i] = s[i + 1]
         /\ \A i, j \in DOMAIN Tail(s) : i + 1 = j + 1 => i = j
         /\ \A t : Reported(t, Tail(s)) => Reported(t, s)
<1>1. Len(s) \in Nat \ {0} /\ DOMAIN s = 1..Len(s) /\ s[1] \in Messages /\ Head(s) = s[1]
  OBVIOUS
<1>2. /\ Tail(s) \in Seq(Messages) /\ DOMAIN Tail(s) = 1..(Len(s) - 1)
      /\ \A i \in 1..(Len(s) - 1) : Tail(s)[i] = s[i + 1]
  OBVIOUS
<1>3. \A i \in DOMAIN Tail(s) : i + 1 \in DOMAIN s /\ i + 1 # 1 /\ Tail(s)[i] = s[i + 1]
  BY <1>1, <1>2
<1>4. \A i, j \in DOMAIN Tail(s) : i + 1 = j + 1 => i = j
  BY <1>1, <1>2
<1>5. \A t : Reported(t, Tail(s)) => Reported(t, s)
  BY <1>3 DEF Reported
<1>6. 1 \in DOMAIN s
  BY <1>1
<1> QED
  BY <1>1, <1>2, <1>3, <1>4, <1>5, <1>6

(***************************************************************************)
(* A step that moves no message keeps the invariant if it changes no       *)
(* result there is, extends the handler list between two deliveries only,  *)
(* and gives no sender to a task that is told of.                          *)
(***************************************************************************)
LEMMA QuietReports ==
  ASSUME PoolInv, ReportInv,
         \A t \in Tasks : result[t] # "pending" => result'[t] = result[t],
         UNCHANGED <<nqueue, ncur, ncalls, seen>>,
         nworker' = "calling" <=> nworker = "calling",
         nworker = "calling" => handlers' = handlers,
         \A t \in txs' : phase'[t] \in SenderPhases /\ ~ToldOf(t),
         WorkerReports'
  PROVE  ReportInv'
<1>1. \A t : Reported(t, nqueue)' <=> Reported(t, nqueue)
  BY DEF Reported
<1>2. \A h \in Handlers : \A t : Reported(t, seen[h])' <=> Reported(t, seen[h])
  BY DEF Reported
<1>3. QueueReports'
  BY <1>2, MessageTypes DEF ReportInv, QueueReports
<1>4. DeliveryReports'
  <2> SUFFICES ASSUME nworker' = "calling" PROVE DeliveryReports'
    BY DEF DeliveryReports
  <2>1. nworker = "calling" /\ handlers' = handlers
    OBVIOUS
  <2>2. \A k \in DOMAIN handlers : handlers[k] \in Handlers
    BY MessageTypes
  <2>3. \A k \in DOMAIN handlers : k >= ncalls => ~Reported(ncur.task, seen[handlers[k]])'
    BY <2>1, <2>2, <1>2 DEF ReportInv, DeliveryReports
  <2>4. ncur'.status = result'[ncur'.task] /\ ~Reported(ncur.task, nqueue)'
    BY <2>1, <1>1, MessageTypes DEF ReportInv, DeliveryReports
  <2> QED
    BY <2>1, <2>3, <2>4 DEF DeliveryReports
<1>5. SeenReports'
  BY MessageTypes DEF ReportInv, SeenReports
<1>6. SenderReports'
  BY <1>1, <1>2 DEF SenderReports, ToldOf
<1> QED
  BY <1>3, <1>4, <1>5, <1>6 DEF ReportInv

(***************************************************************************)
(* So does the send of a task's result, once the task is not told of and   *)
(* gives up its sender.                                                    *)
(***************************************************************************)
LEMMA SentReports ==
  ASSUME PoolInv, ReportInv, NEW x \in Messages,
         x.status = result[x.task], ~ToldOf(x.task),
         nqueue' = Append(nqueue, x),
         UNCHANGED <<result, nworker, ncur, ncalls, seen, handlers>>,
         x.task \notin txs', txs' \subseteq txs,
         \A t \in txs' : phase'[t] \in SenderPhases,
         worker' = "prenotify" => worker = "prenotify" /\ wtask' = wtask /\ wtask # x.task
  PROVE  ReportInv'
<1>0. nqueue \in Seq(Messages)
  BY MessageTypes
<1>1. \A t : Reported(t, nqueue)' <=> Reported(t, nqueue) \/ t = x.task
  BY <1>0, ReportedAfterAppend DEF Reported
<1>2. \A h \in Handlers : \A t : Reported(t, seen[h])' <=> Reported(t, seen[h])
  BY DEF Reported
<1>3. \A t : ToldOf(t)' <=> ToldOf(t) \/ t = x.task
  BY <1>1, <1>2 DEF ToldOf
<1>4. QueueReports'
  <2>1. /\ DOMAIN nqueue' = 1..(Len(nqueue) + 1) /\ Len(nqueue) \in Nat
        /\ DOMAIN nqueue = 1..Len(nqueue)
        /\ \A i \in 1..Len(nqueue) : nqueue'[i] = nqueue[i]
        /\ nqueue'[Len(nqueue) + 1] = x
    BY <1>0
  <2>2. \A i \in DOMAIN nqueue' : i \in DOMAIN nqueue \/ i = Len(nqueue) + 1
    BY <2>1
  <2>3. \A i \in DOMAIN nqueue : nqueue[i].task # x.task
    BY DEF ToldOf, Reported
  <2>4. \A h \in Handlers : ~Reported(x.task, seen[h])
    BY DEF ToldOf
  <2>5. \A i \in DOMAIN nqueue' :
          /\ nqueue'[i].status = result'[nqueue'[i].task]
          /\ \A h \in Handlers : ~Reported(nqueue'[i].task, seen'[h])
    BY <1>2, <2>1, <2>2, <2>4 DEF ReportInv, QueueReports
  <2>6. \A i, j \in DOMAIN nqueue' : nqueue'[i].task = nqueue'[j].task => i = j
    BY <2>1, <2>2, <2>3 DEF ReportInv, QueueReports
  <2> QED
    BY <2>5, <2>6 DEF QueueReports
<1>5. DeliveryReports'
  <2> SUFFICES ASSUME nworker = "calling" PROVE DeliveryReports'
    BY DEF DeliveryReports
  <2>1. ncur.task # x.task
    BY DEF ToldOf
  <2>2. \A k \in DOMAIN handlers : handlers[k] \in Handlers
    BY MessageTypes
  <2>3. \A k \in DOMAIN handlers : k >= ncalls => ~Reported(ncur.task, seen[handlers[k]])'
    BY <2>2, <1>2 DEF ReportInv, DeliveryReports
  <2>4. ~Reported(ncur.task, nqueue)'
    BY <2>1, <1>1 DEF ReportInv, DeliveryReports
  <2> QED
    BY <2>3, <2>4 DEF ReportInv, DeliveryReports
<1>6. SeenReports'
  BY DEF ReportInv, SeenReports
<1>7. SenderReports'
  BY <1>3 DEF ReportInv, SenderReports
<1>8. WorkerReports'
  <2>1. worker' = "prenotify" => result'[wtask'] = "Cancelled" /\ ~ToldOf(wtask)'
    BY <1>3 DEF ReportInv, WorkerReports
  <2> QED
    BY <2>1 DEF WorkerReports, ToldOf
<1> QED
  BY <1>4, <1>5, <1>6, <1>7, <1>8 DEF ReportInv

(***************************************************************************)
(* recv moves the oldest message from the queue into delivery, or drops it *)
(* when no handler is there to be called.                                  *)
(***************************************************************************)
LEMMA RecvReports ==
  ASSUME PoolInv, ReportInv, NotifierRecv,
         UNCHANGED <<result, phase, worker, wtask>>
  PROVE  ReportInv'
<1>0. /\ nqueue \in Seq(Messages) /\ nqueue # <<>> /\ nqueue' = Tail(nqueue)
      /\ nworker = "waiting" /\ UNCHANGED <<seen, handlers, txs>>
      /\ nworker' = "calling" => ncur' = Head(nqueue)
      /\ nworker' # "calling" => nworker' = "waiting"
  BY MessageTypes DEF NotifierRecv
<1>1. /\ 1 \in DOMAIN nqueue /\ Head(nqueue) = nqueue[1] /\ Head(nqueue) \in Messages
      /\ \A i \in DOMAIN nqueue' :
           i + 1 \in DOMAIN nqueue /\ i + 1 # 1 /\ nqueue'[i] = nqueue[i + 1]
      /\ \A i, j \in DOMAIN nqueue' : i + 1 = j + 1 => i = j
      /\ \A t : Reported(t, Tail(nqueue)) => Reported(t, nqueue)
  BY <1>0, ReportedAfterTail
<1>2. \A h \in Handlers : \A t : Reported(t, seen[h])' <=> Reported(t, seen[h])
  BY <1>0 DEF Reported
<1>3. /\ \A t : Reported(t, nqueue)' => Reported(t, nqueue)
      /\ Reported(Head(nqueue).task, nqueue)
  BY <1>0, <1>1 DEF Reported
<1>4. \A t : ToldOf(t)' => ToldOf(t)
  BY <1>0, <1>2, <1>3 DEF ToldOf
<1>5. QueueReports'
  <2>1. \A i \in DOMAIN nqueue' :
          /\ nqueue'[i].status = result'[nqueue'[i].task]
          /\ \A h \in Handlers : ~Reported(nqueue'[i].task, seen'[h])
    BY <1>1, <1>2 DEF ReportInv, QueueReports
  <2>2. \A i, j \in DOMAIN nqueue' : nqueue'[i].task = nqueue'[j].task => i = j
    <3> SUFFICES ASSUME NEW i \in DOMAIN nqueue', NEW j \in DOMAIN nqueue',
                        nqueue'[i].task = nqueue'[j].task
                 PROVE  i = j
      OBVIOUS
    <3>1. nqueue[i + 1].task = nqueue[j + 1].task
      BY <1>1
    <3>2. i + 1 = j + 1
      BY <1>1, <3>1 DEF ReportInv, QueueReports
    <3> QED
      BY <1>1, <3>2
  <2> QED
    BY <2>1, <2>2 DEF QueueReports
<1>6. DeliveryReports'
  <2> SUFFICES ASSUME nworker' = "calling" PROVE DeliveryReports'
    BY DEF DeliveryReports
  <2>1. ncur' = nqueue[1]
    BY <1>0, <1>1
  <2>2. ncur'.status = result'[ncur'.task]
    BY <1>1, <2>1 DEF ReportInv, QueueReports
  <2>3. ~Reported(ncur.task, nqueue)'
    BY <1>1, <2>1 DEF ReportInv, QueueReports, Reported
  <2>4. \A k \in DOMAIN handlers : handlers[k] \in Handlers
    BY MessageTypes
  <2>5. \A k \in DOMAIN handlers' : ~Reported(ncur.task, seen[handlers[k]])'
    BY <1>0, <1>1, <1>2, <2>1, <2>4 DEF ReportInv, QueueReports
  <2> QED
    BY <2>2, <2>3, <2>5 DEF DeliveryReports
<1>7. SeenReports'
  BY <1>0 DEF ReportInv, SeenReports
<1>8. SenderReports'
  BY <1>0, <1>4 DEF ReportInv, SenderReports
<1>9. WorkerReports'
  BY <1>4 DEF ReportInv, WorkerReports, ToldOf
<1> QED
  BY <1>5, <1>6, <1>7, <1>8, <1>9 DEF ReportInv

(***************************************************************************)
(* A handler is called with a message it has not seen, and no later one    *)
(* has.                                                                    *)
(***************************************************************************)
LEMMA CallReports ==
  ASSUME PoolInv, ReportInv, NotifierCall,
         UNCHANGED <<result, phase, worker, wtask>>
  PROVE  ReportInv'
<1>h. PICK h : h = handlers[ncalls]
  OBVIOUS
<1>s. PICK s : s = seen[h]
  OBVIOUS
<1>0. /\ nworker = "calling" /\ ncur \in Messages /\ ncalls \in DOMAIN handlers
      /\ seen' = [seen EXCEPT ![h] = Append(@, ncur)]
      /\ UNCHANGED <<nqueue, handlers, txs>>
      /\ nworker' = "calling" => ncalls' = ncalls + 1 /\ ncur' = ncur
  BY <1>h, MessageTypes DEF NotifierCall
<1>1. /\ h \in Handlers /\ s \in Seq(Messages) /\ ncalls \in Nat /\ DOMAIN handlers \subseteq Nat
      /\ \A k \in DOMAIN handlers : handlers[k] \in Handlers
      /\ \A k \in DOMAIN handlers : k >= ncalls + 1 => handlers[k] # h /\ k >= ncalls
  <2>1. /\ h \in Handlers /\ DOMAIN handlers = 1..Len(handlers) /\ Len(handlers) \in Nat
        /\ \A k \in DOMAIN handlers : handlers[k] \in Handlers
    BY <1>0, <1>h, MessageTypes
  <2>2. s \in Seq(Messages)
    BY <2>1, <1>s, MessageTypes
  <2>3. \A k \in DOMAIN handlers : handlers[k] = h => k = ncalls
    BY <1>0, <1>h DEF PoolInv, NotifierInv, DeliveryInRange
  <2>4. \A k \in DOMAIN handlers : k >= ncalls + 1 => k # ncalls /\ k >= ncalls
    BY <1>0, <2>1
  <2>5. ncalls \in Nat /\ DOMAIN handlers \subseteq Nat
    BY <1>0, <2>1
  <2> QED
    BY <2>1, <2>2, <2>3, <2>4, <2>5
<1>2. /\ seen'[h] = Append(s, ncur) /\ \A g \in Handlers \ {h} : seen'[g] = seen[g]
      /\ seen[h] = s
  BY <1>0, <1>1, <1>s, MessageTypes
<1>3. /\ \A t : Reported(t, seen[h])' <=> Reported(t, seen[h]) \/ t = ncur.task
      /\ \A g \in Handlers \ {h} : \A t : Reported(t, seen[g])' <=> Reported(t, seen[g])
  <2>1. \A t : Reported(t, Append(s, ncur)) <=> Reported(t, s) \/ t = ncur.task
    BY <1>0, <1>1, ReportedAfterAppend
  <2> QED
    BY <2>1, <1>2 DEF Reported
<1>4. \A t : Reported(t, nqueue)' <=> Reported(t, nqueue)
  BY <1>0 DEF Reported
<1>5. \A t : ToldOf(t)' => ToldOf(t)
  <2> SUFFICES ASSUME NEW t, ToldOf(t)' PROVE ToldOf(t)
    OBVIOUS
  <2>1. CASE Reported(t, nqueue)' \/ (nworker' = "calling" /\ ncur'.task = t)
    BY <1>0, <1>4, <2>1 DEF ToldOf
  <2>2. ASSUME NEW g \in Handlers, Reported(t, seen[g])' PROVE ToldOf(t)
    BY <1>0, <1>3, <2>2 DEF ToldOf
  <2> QED
    BY <2>1, <2>2 DEF ToldOf
<1>6. ~Reported(ncur.task, seen[h]) /\ ~Reported(ncur.task, nqueue)
      /\ ncur.status = result[ncur.task]
  BY <1>0, <1>1, <1>h DEF ReportInv, DeliveryReports
<1>7. QueueReports'
  <2>1. \A i \in DOMAIN nqueue : nqueue[i].task # ncur.task
    BY <1>6 DEF Reported
  <2>2. \A i \in DOMAIN nqueue' : \A g \in Handlers : ~Reported(nqueue'[i].task, seen'[g])
    <3> SUFFICES ASSUME NEW i \in DOMAIN nqueue, NEW g \in Handlers
                 PROVE  ~Reported(nqueue[i].task, seen'[g])
      BY <1>0
    <3>1. ~Reported(nqueue[i].task, seen[g])
      BY DEF ReportInv, QueueReports
    <3>2. PICK u : u = nqueue[i].task
      OBVIOUS
    <3>3. ~Reported(u, seen[g])'
      BY <1>1, <1>3, <2>1, <3>1, <3>2
    <3> QED
      BY <3>2, <3>3 DEF Reported
  <2> QED
    BY <1>0, <2>2 DEF ReportInv, QueueReports
<1>8. DeliveryReports'
  <2> SUFFICES ASSUME nworker' = "calling" PROVE DeliveryReports'
    BY DEF DeliveryReports
  <2>1. \A k \in DOMAIN handlers' : k >= ncalls' => ~Reported(ncur.task, seen[handlers[k]])'
    BY <1>0, <1>1, <1>3 DEF ReportInv, DeliveryReports
  <2> QED
    BY <1>0, <1>4, <1>6, <2>1 DEF DeliveryReports
<1>9. SeenReports'
  <2>1. /\ DOMAIN seen'[h] = 1..(Len(s) + 1) /\ Len(s) \in Nat
        /\ DOMAIN seen[h] = 1..Len(s)
        /\ \A i \in 1..Len(s) : seen'[h][i] = seen[h][i]
        /\ seen'[h][Len(s) + 1] = ncur
    BY <1>0, <1>1, <1>2
  <2>2. \A i \in DOMAIN seen'[h] : i \in DOMAIN seen[h] \/ i = Len(s) + 1
    BY <2>1
  <2>3. \A i \in DOMAIN seen[h] : seen[h][i].task # ncur.task
    BY <1>6 DEF Reported
  <2>4. \A i, j \in DOMAIN seen'[h] :
          /\ seen'[h][i].status = result[seen'[h][i].task]
          /\ seen'[h][i].task = seen'[h][j].task => i = j
    BY <1>1, <1>6, <2>1, <2>2, <2>3 DEF ReportInv, SeenReports
  <2> QED
    BY <1>2, <2>4 DEF ReportInv, SeenReports
<1>10. SenderReports'
  BY <1>0, <1>5 DEF ReportInv, SenderReports
<1>11. WorkerReports'
  BY <1>5 DEF ReportInv, WorkerReports, ToldOf
<1> QED
  BY <1>7, <1>8, <1>9, <1>10, <1>11 DEF ReportInv

(***************************************************************************)
(* The spawned tasks: an outcome is new, a task that sends it has a sender *)
(* and gives it up, and the rest of a task's end touches no message.       *)
(***************************************************************************)
LEMMA TaskReports ==
  ASSUME PoolInv, ReportInv, TaskSide,
         \A t \in Tasks : result[t] # "pending" => result'[t] = result[t]
  PROVE  ReportInv'
<1>0. /\ phase \in [Tasks -> {"none", "done"} \cup SpawnedPhases] /\ txs \subseteq Tasks
      /\ UNCHANGED <<worker, wtask>>
      /\ worker = "prenotify" => result[wtask] # "pending"
  BY MessageTypes DEF PoolInv, TasksTypeOK, TaskSide, FinishStep, CancelArm, FutureReady,
                      Decide, SendResult, NotifyCompletion, ReleasePermit, RemoveActive, workerVars,
                      ReportInv, WorkerReports
<1>1. PICK t \in Tasks : FinishStep(t) \/ \E outcome \in FutureOutcomes : FutureReady(t, outcome)
  BY DEF TaskSide
<1>2. phase[t] # "none" /\ (worker = "prenotify" => wtask # t)
  <2>1. phase[t] # "none"
    BY <1>1 DEF FinishStep, CancelArm, FutureReady, Decide, SendResult, NotifyCompletion,
                ReleasePermit, RemoveActive, Statuses
  <2> QED
    BY <2>1 DEF PoolInv, AcceptedTaskAccounted
<1>3. CASE UNCHANGED notifierVars /\ ~NotifyCompletion(t)
  <2>1. UNCHANGED <<nqueue, nworker, ncur, ncalls, seen, handlers, txs>>
    BY <1>3 DEF notifierVars
  <2>2. \A u \in txs : phase'[u] \in SenderPhases /\ ~ToldOf(u)
    <3>1. \A u \in Tasks \ {t} : phase'[u] = phase[u]
      BY <1>0, <1>1 DEF FinishStep, CancelArm, FutureReady, Decide, SendResult, NotifyCompletion,
                        ReleasePermit, RemoveActive
    <3>2. t \in txs => phase'[t] \in SenderPhases
      BY <1>0, <1>1, <1>3, PoolAssumption
         DEF FinishStep, CancelArm, FutureReady, Decide, SendResult, ReleasePermit,
             RemoveActive, ReportInv, SenderReports, SenderPhases, Statuses
    <3> QED
      BY <1>0, <3>1, <3>2 DEF ReportInv, SenderReports
  <2>3. worker' = "prenotify" => result'[wtask'] = "Cancelled" /\ ~ToldOf(wtask)'
    <3>1. ToldOf(wtask)' <=> ToldOf(wtask)
      BY <1>0, <2>1 DEF ToldOf, Reported
    <3>2. worker = "prenotify" => wtask \in Tasks /\ result'[wtask] = result[wtask]
      BY <1>0 DEF PoolInv, WorkerHasTask, TaskPoints
    <3> QED
      BY <1>0, <3>1, <3>2 DEF ReportInv, WorkerReports
  <2>4. WorkerReports'
    BY <2>3 DEF WorkerReports, ToldOf
  <2> QED
    BY <2>1, <2>2, <2>4, QuietReports
<1>4. CASE NotifyCompletion(t)
  <2>1. /\ phase[t] = "resulted" /\ txs' = txs \ {t} /\ phase' = [phase EXCEPT ![t] = "notified"]
        /\ UNCHANGED <<result, nworker, ncur, ncalls, seen, handlers, worker, wtask>>
    BY <1>4 DEF NotifyCompletion, SendCompletion, workerVars
  <2>2. \A u \in txs' : phase'[u] \in SenderPhases /\ ~ToldOf(u)
    BY <1>0, <2>1 DEF ReportInv, SenderReports
  <2>3. CASE t \in txs
    <3>1. PICK x : x = [task |-> t, status |-> result[t]]
      OBVIOUS
    <3>2. x \in Messages /\ x.task = t /\ x.status = result[x.task]
      BY <3>1, <2>1, MessageLemma DEF PoolInv, OnlyAcceptedPlaced, Running, Decided, Statuses
    <3>3. nqueue' = Append(nqueue, x)
      BY <1>4, <2>3, <3>1 DEF NotifyCompletion, SendCompletion
    <3>4. ~ToldOf(x.task) /\ x.task \notin txs' /\ txs' \subseteq txs
      BY <2>1, <2>3, <3>2 DEF ReportInv, SenderReports
    <3>5. \A u \in txs' : phase'[u] \in SenderPhases
      BY <2>2
    <3>6. worker' = "prenotify" => worker = "prenotify" /\ wtask' = wtask /\ wtask # x.task
      BY <1>2, <2>1, <3>2
    <3> QED
      BY <2>1, <3>2, <3>3, <3>4, <3>5, <3>6, SentReports
  <2>4. CASE t \notin txs
    <3>1. nqueue' = nqueue
      BY <1>4, <2>4 DEF NotifyCompletion, SendCompletion
    <3>2. WorkerReports'
      BY <2>1, <3>1 DEF ReportInv, WorkerReports, ToldOf, Reported
    <3> QED
      BY <2>1, <2>2, <3>1, <3>2, QuietReports
  <2> QED
    BY <2>3, <2>4
<1> QED
  BY <1>1, <1>3, <1>4 DEF FinishStep, CancelArm, FutureReady, Decide, SendResult, NotifyCompletion,
                          ReleasePermit, RemoveActive

(***************************************************************************)
(* The worker loop: it reports a task that was cancelled in the queue, for *)
(* the first time, and gives a sender only to a task whose result is open. *)
(***************************************************************************)
LEMMA WorkerSideReports ==
  ASSUME PoolInv, ReportInv, WorkerStep,
         \A t \in Tasks : result[t] # "pending" => result'[t] = result[t]
  PROVE  ReportInv'
<1>0. /\ txs \subseteq Tasks /\ phase \in [Tasks -> {"none", "done"} \cup SpawnedPhases]
      /\ result \in [Tasks -> {"pending"} \cup Outcomes]
  BY MessageTypes DEF PoolInv, TasksTypeOK
<1>1. CASE WorkerPreNotify
  <2>1. /\ worker = "prenotify" /\ worker' = "top"
        /\ UNCHANGED <<result, phase, nworker, ncur, ncalls, seen, handlers, txs>>
        /\ nqueue' = IF sink = "open"
                     THEN Append(nqueue, [task |-> wtask, status |-> "Cancelled"]) ELSE nqueue
    BY <1>1 DEF WorkerPreNotify, SendPreCancelled, taskVars
  <2>2. result[wtask] = "Cancelled" /\ ~ToldOf(wtask)
    BY <2>1 DEF ReportInv, WorkerReports
  <2>3. wtask \in Tasks /\ wtask \notin txs
    BY <1>0, <2>1
       DEF PoolInv, WorkerHasTask, TaskPoints, AcceptedTaskAccounted, ReportInv, SenderReports,
           SenderPhases, Statuses
  <2>4. \A u \in txs' : phase'[u] \in SenderPhases /\ ~ToldOf(u)
    BY <2>1 DEF ReportInv, SenderReports
  <2>5. CASE sink = "open"
    <3>1. PICK x : x = [task |-> wtask, status |-> "Cancelled"]
      OBVIOUS
    <3>2. x \in Messages /\ x.task = wtask /\ x.status = result[x.task]
      BY <2>2, <2>3, <3>1 DEF Messages, Statuses
    <3> QED
      BY <2>1, <2>2, <2>3, <2>4, <2>5, <3>1, <3>2, SentReports
  <2>6. CASE sink # "open"
    BY <2>1, <2>4, <2>6, QuietReports DEF WorkerReports
  <2> QED
    BY <2>5, <2>6
<1>2. CASE WorkerSpawn
  <2>1. /\ worker = "spawn" /\ worker' = "top" /\ wtask \in Tasks
        /\ UNCHANGED <<nqueue, nworker, ncur, ncalls, seen, handlers>>
        /\ txs' \subseteq txs \cup {wtask} /\ phase' = [phase EXCEPT ![wtask] = "running"]
    BY <1>2 DEF WorkerSpawn, CaptureSender, PoolInv, WorkerHasTask, TaskPoints
  <2>2. ~ToldOf(wtask)
    BY <2>1, OpenNotTold DEF PoolInv, AcceptedTaskAccounted
  <2>3. \A u \in txs' : phase'[u] \in SenderPhases /\ ~ToldOf(u)
    BY <1>0, <2>1, <2>2 DEF ReportInv, SenderReports, SenderPhases
  <2> QED
    BY <2>1, <2>3, QuietReports DEF WorkerReports
<1>3. CASE WorkerCancelCheck
  <2>1. /\ worker = "cancelcheck" /\ wtask \in Tasks /\ result[wtask] = "pending"
        /\ UNCHANGED <<wtask, phase, nqueue, nworker, ncur, ncalls, seen, handlers, txs>>
        /\ worker' = "prenotify" => result' = [result EXCEPT ![wtask] = "Cancelled"]
    BY <1>3 DEF WorkerCancelCheck, PoolInv, WorkerHasTask, TaskPoints, AcceptedTaskAccounted,
                notifierVars
  <2>2. ~ToldOf(wtask)
    BY <2>1, OpenNotTold
  <2>3. ToldOf(wtask)' <=> ToldOf(wtask)
    BY <2>1 DEF ToldOf, Reported
  <2>4. worker' = "prenotify" => result'[wtask'] = "Cancelled" /\ ~ToldOf(wtask)'
    BY <1>0, <2>1, <2>2, <2>3
  <2>5. WorkerReports'
    BY <2>4 DEF WorkerReports, ToldOf
  <2> QED
    BY <2>1, <2>5, QuietReports DEF ReportInv, SenderReports
<1>4. CASE \/ WorkerTop \/ WorkerAcquire \/ WorkerStop \/ WorkerRecheck \/ WorkerRecv
           \/ WorkerDisconnected \/ WorkerGot \/ WorkerInsert \/ WorkerExit
  <2>1. /\ worker' # "prenotify"
        /\ UNCHANGED <<phase, nqueue, nworker, ncur, ncalls, seen, handlers, txs>>
    BY <1>4 DEF WorkerTop, WorkerAcquire, WorkerStop, WorkerRecheck, WorkerRecv,
                WorkerDisconnected, WorkerGot, WorkerInsert, WorkerExit, taskVars, notifierVars,
                CloseSink
  <2> QED
    BY <2>1, QuietReports DEF ReportInv, SenderReports, WorkerReports
<1> QED
  BY <1>1, <1>2, <1>3, <1>4 DEF WorkerStep

(***************************************************************************)
(* The notifier receives, calls and stops; nothing else there moves a      *)
(* message, and a handler is added between two deliveries.                 *)
(***************************************************************************)
LEMMA OtherSideReports ==
  ASSUME PoolInv, ReportInv, ManagerSide \/ SubmitSide
  PROVE  ReportInv'
<1>0. UNCHANGED <<result, phase, worker, wtask>>
  <2>1. CASE ManagerSide
    BY <2>1, ManagerSideFrame
  <2>2. CASE SubmitSide
    BY <2>2 DEF SubmitSide, Submit, SubmitProgress, SubmitDropped, poolVars, execVars, taskVars,
                workerVars
  <2> QED
    BY <2>1, <2>2
<1>1. CASE NotifierRecv
  BY <1>0, <1>1, RecvReports
<1>2. CASE NotifierCall
  BY <1>0, <1>2, CallReports
<1>3. CASE /\ UNCHANGED <<nqueue, ncur, ncalls, seen, txs>>
           /\ nworker' = "calling" <=> nworker = "calling"
           /\ nworker = "calling" => handlers' = handlers
  <2>1. WorkerReports'
    BY <1>0, <1>3 DEF ReportInv, WorkerReports, ToldOf, Reported
  <2> QED
    BY <1>0, <1>3, <2>1, QuietReports DEF ReportInv, SenderReports
<1>4. \/ NotifierRecv \/ NotifierCall
      \/ /\ UNCHANGED <<nqueue, ncur, ncalls, seen, txs>>
         /\ nworker' = "calling" <=> nworker = "calling"
         /\ nworker = "calling" => handlers' = handlers
  <2>1. CASE SubmitSide
    BY <2>1 DEF SubmitSide, Submit, SubmitProgress, SubmitDropped, notifierVars
  <2>2. ASSUME NEW h \in Handlers, AddCompletionHandler(h) \/ FinishAddHandler(h)
        PROVE  /\ UNCHANGED <<nqueue, ncur, ncalls, seen, txs>>
               /\ nworker' = "calling" <=> nworker = "calling"
               /\ nworker = "calling" => handlers' = handlers
    <3>1. nworker = "calling" => sink # "unset"
      BY DEF PoolInv, NotifierInv, SinkHasWorker
    <3> QED
      BY <2>2, <3>1 DEF AddCompletionHandler, FinishAddHandler, AddHandlerInit, AddHandlerPush
  <2>3. CASE NotifierProgress
    BY <2>3 DEF NotifierProgress, NotifierStep, NotifierStop
  <2>4. ASSUME NEW m \in Managers, ManagerStep(m)
        PROVE  UNCHANGED notifierVars \/ CloseSink \/ TakeNotifierHandle
    BY <2>4 DEF ManagerStep, CancelCollected, ShutdownStep, ShutdownCancel, ShutdownClose,
                ShutdownSweep, ShutdownProbe, ShutdownWaited, ShutdownTake, ShutdownJoined,
                ShutdownSink, ShutdownNotifier, ShutdownNotifierJoined, ShutdownTimeout,
                DropStep, DropCancel, DropClose, DropSink, DropFields
  <2>5. CASE \/ \E t \in Tasks : HandleCancel(t)
             \/ \E m \in Managers, labels \in SUBSET Labels : CancelByLabels(m, labels)
             \/ \E m, n \in Managers : Clone(m, n)
             \/ \E m \in Managers, shutdownMode \in ShutdownModes :
                   ShutdownBegin(m, shutdownMode)
             \/ \E m \in Managers : DropBegin(m)
             \/ UNCHANGED vars
    BY <2>5 DEF HandleCancel, CancelByLabels, Clone, ShutdownBegin, DropBegin, vars, notifierVars
  <2> QED
    BY <2>1, <2>2, <2>3, <2>4, <2>5
       DEF ManagerSide, notifierVars, CloseSink, TakeNotifierHandle
<1> QED
  BY <1>1, <1>2, <1>3, <1>4

(***************************************************************************)
(* What the handlers are told is what the task's handle gets, once         *)
(* (manager.rs:446-455, 585-596; notifier.rs): a result is sent by the     *)
(* task or the worker that has just decided it and is final, so neither    *)
(* the queue nor a delivery can make it stale or tell it twice.            *)
(***************************************************************************)
THEOREM PoolReportsMatchResults == Spec => []ReportsMatchResults
<1>1. Init => ReportInv
  BY DEF Init, NotifierInit, ReportInv, QueueReports, DeliveryReports, SeenReports,
         SenderReports, WorkerReports
<1>2. PoolInv /\ ReportInv /\ [Next]_vars => ReportInv'
  BY NextByActor, PoolResultStep, TaskReports, WorkerSideReports, OtherSideReports DEF ResultStep
<1>3. ReportInv => ReportsMatchResults
  BY DEF ReportInv, QueueReports, SeenReports, SenderReports, SenderPhases, ToldOf,
         ReportsMatchResults
<1> QED
  BY <1>1, <1>2, <1>3, PoolInvariant, PTL DEF Spec
=============================================================================
