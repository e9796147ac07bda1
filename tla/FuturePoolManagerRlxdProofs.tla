--------------------- MODULE FuturePoolManagerRlxdProofs ---------------------
(***************************************************************************)
(* Proofs about the relaxed pool, for every number of tasks, lanes, clones *)
(* and handlers, every queue capacity and every concurrency limit.         *)
(***************************************************************************)
EXTENDS FuturePoolManagerRlxd, DeferredRegistryProofs, CompletionNotifierProofs

(***************************************************************************)
(* The pool's inductive invariant: the invariants of the registry and of   *)
(* the notifier, the types, the two permit accounts, and where tasks are.  *)
(*   - A lane holds tasks that were routed to it, each once, and nothing   *)
(*     once its dispatcher has left.                                       *)
(*   - A dispatcher has a task in hand, of its own lane, exactly between   *)
(*     recv and the end of the loop body.                                  *)
(*   - A task is queued, in hand, spawned by its submit call or spawned    *)
(*     already, and its call, phase and result agree with the place.       *)
(*   - Its registry entry follows its phase.                               *)
(* The last two are what makes the accounts add up: a task that takes a    *)
(* permit is new to the gate and to its shard.                             *)
(***************************************************************************)
InHandPoints == {"got", "cancelcheck", "prenotify", "acquire", "waiting", "recheck", "spawning"}

InLane(l, t) == \E i \in DOMAIN lanes[l] : lanes[l][i] = t

InHand(t) == dtask[lane[t]] = t

LanesHold ==
  \A l \in Lanes :
    /\ \A i, j \in DOMAIN lanes[l] : lanes[l][i] = lanes[l][j] => i = j
    /\ \A t \in Tasks : InLane(l, t) => lane[t] = l
    /\ disp[l] = "exited" => lanes[l] = <<>>

DispatchersHold ==
  \A l \in Lanes :
    /\ disp[l] \in InHandPoints <=> dtask[l] \in Tasks
    /\ \A t \in Tasks : dtask[l] = t => lane[t] = l

TaskPlaced(t) ==
  /\ InLane(lane[t], t) =>
       send[t] = "ok" /\ phase[t] = "none" /\ result[t] = "pending" /\ ~InHand(t)
  /\ InHand(t) =>
       /\ send[t] = "ok"
       /\ phase[t] = IF disp[lane[t]] = "spawning" THEN "spawning" ELSE "none"
       /\ result[t] = IF disp[lane[t]] = "prenotify" THEN "Cancelled" ELSE "pending"
  /\ phase[t] = "spawning" => send[t] = "dispatching" \/ InHand(t)
  /\ send[t] = "dispatching" => phase[t] = "spawning"
  /\ phase[t] \in {"running", "resulted", "notified", "done"} \cup Statuses => send[t] = "ok"
  /\ phase[t] \in {"running"} \cup Statuses => result[t] = "pending"
  /\ phase[t] \in {"resulted", "notified", "done"} => result[t] \in Statuses
  /\ result[t] # "pending" => send[t] = "ok"
  /\ send[t] = "ok" /\ result[t] = "pending" =>
       InLane(lane[t], t) \/ InHand(t) \/ phase[t] \in {"running"} \cup Statuses

TasksPlaced == \A t \in Tasks : TaskPlaced(t)

EntryPhases(t) ==
  /\ phase[t] = "none" => entry[t] = "out"
  /\ phase[t] = "spawning" => entry[t] \in {"out", "counted", "listed"}
  /\ phase[t] \in {"running", "resulted"} \cup Statuses => entry[t] = "listed"
  /\ phase[t] = "notified" => entry[t] \in {"listed", "finished", "left"}
  /\ phase[t] = "done" => entry[t] = "left"
  /\ entry[t] # "out" => shardOf[t] = lane[t]

EntriesFollow == \A t \in Tasks : EntryPhases(t)

RlxdInv ==
  /\ DeferredInv /\ NotifierInv /\ RlxdTypeOK
  /\ LanesHold /\ DispatchersHold /\ TasksPlaced /\ EntriesFollow
  /\ RunPermitConservation /\ LanePermitAccounting

(***************************************************************************)
(* Types: the clones' variables, then those of the submit calls, the       *)
(* dispatchers and the tasks.                                              *)
(***************************************************************************)
ManagerTypes ==
  /\ shutdownToken \in BOOLEAN /\ joinHandles \in BOOLEAN
  /\ producers \subseteq Managers
  /\ mgr \in [Managers -> Live \cup InShutdown \cup InDrop \cup Gone]
  /\ first \in [Managers -> BOOLEAN] /\ at \in [Managers -> Lanes]
  /\ want \in [Managers -> SUBSET Labels] /\ todo \in [Managers -> SUBSET Tasks]
  /\ cancelled \in [Tasks -> BOOLEAN]

GateTypes ==
  /\ permits \in Nat /\ waiters \in Seq(Tasks)
  /\ cPermits \in Nat /\ cWaiters \in Seq(Lanes)
  /\ lane \in [Tasks -> Lanes] /\ nextLane \in Lanes
  /\ lanes \in [Lanes -> Seq(Tasks)]

PlaceTypes ==
  /\ send \in [Tasks -> {"idle", "ok"} \cup SubmitPoints \cup Refusals]
  /\ disp \in [Lanes -> DispatcherPoints]
  /\ dtask \in [Lanes -> Tasks \cup {NoTask}]
  /\ phase \in [Tasks -> Phases]
  /\ result \in [Tasks -> {"pending", "Closed"} \cup Statuses]

Placement ==
  /\ GateTypes /\ PlaceTypes
  /\ LanesHold /\ DispatchersHold /\ TasksPlaced /\ EntriesFollow
  /\ RunPermitConservation /\ LanePermitAccounting

(***************************************************************************)
(* The parts of the invariant in which the proofs of the steps speak.      *)
(***************************************************************************)
LEMMA RlxdInvParts ==
  RlxdInv <=> DeferredInv /\ NotifierInv /\ ManagerTypes /\ Placement
  BY DEF RlxdInv, RlxdTypeOK, DeferredInv, NotifierInv, ManagerTypes, Placement, GateTypes,
         PlaceTypes

-----------------------------------------------------------------------------
(***************************************************************************)
(* What the two permit accounts count, and that it can be counted.         *)
(***************************************************************************)
PermitTasks == {t \in Tasks : phase[t] \notin {"none", "done"}}
Deciding == {l \in Lanes : disp[l] = "recheck"}
Sending == {t \in Tasks : send[t] = "holding"}
Received == {l \in Lanes : disp[l] = "got"}
FailedSends == {t \in Tasks : send[t] = "QueueSendChannelClosed"}

(***************************************************************************)
(* Any set of tasks is finite, so the permits it holds can be counted.     *)
(***************************************************************************)
LEMMA FiniteTaskSets ==
  \A S \in SUBSET Tasks : IsFiniteSet(S) /\ Cardinality(S) \in Nat
  BY TasksAssumption, FS_Subset, FS_CardinalityType

(***************************************************************************)
(* There are finitely many lanes, at least one.                            *)
(***************************************************************************)
LEMMA LanesFinite ==
  /\ LaneCount \in Nat \ {0}
  /\ \A S \in SUBSET Lanes : IsFiniteSet(S) /\ Cardinality(S) \in Nat
<1>1. LaneCount \in Nat \ {0}
  BY DispatchersAssumption DEF LaneCount
<1>2. IsFiniteSet(Lanes)
  BY <1>1, FS_Interval DEF Lanes
<1> QED
  BY <1>1, <1>2, FS_Subset, FS_CardinalityType

(***************************************************************************)
(* The account of the concurrency gate after a step that leaves what it    *)
(* counts as it was.                                                       *)
(***************************************************************************)
LEMMA RunAccountStays ==
  ASSUME RunPermitConservation, cPermits' = cPermits, PermitTasks' = PermitTasks,
         Deciding' = Deciding
  PROVE  RunPermitConservation'
  BY DEF RunPermitConservation, PermitTasks, Deciding

(***************************************************************************)
(* The same for the gate over the lanes.                                   *)
(***************************************************************************)
LEMMA LaneAccountStays ==
  ASSUME LanePermitAccounting, permits' = permits, Sending' = Sending, Queued' = Queued,
         Received' = Received, FailedSends' = FailedSends
  PROVE  LanePermitAccounting'
  BY DEF LanePermitAccounting, Sending, Received, FailedSends

(***************************************************************************)
(* A waiter that leaves a gate leaves a list of waiters.                   *)
(***************************************************************************)
LEMMA WithoutType ==
  ASSUME NEW S, NEW w \in Seq(S), NEW x
  PROVE  Without(w, x) \in Seq(S)
<1>1. CASE ~Waits(w, x)
  BY <1>1 DEF Without
<1>2. CASE Waits(w, x)
  <2> DEFINE k == CHOOSE i \in DOMAIN w : w[i] = x
             n == Len(w) - 1
             v == [i \in 1..n |-> w[IF i < k THEN i ELSE i + 1]]
  <2>1. k \in DOMAIN w
    BY <1>2 DEF Waits
  <2>2. DOMAIN w = 1..Len(w) /\ Len(w) \in Nat
    OBVIOUS
  <2>3. n \in Nat /\ k \in 1..Len(w)
    BY <2>1, <2>2
  <2>4. Without(w, x) = v
    BY <1>2 DEF Without
  <2> HIDE DEF k, n
  <2>5. \A i \in 1..n : (IF i < k THEN i ELSE i + 1) \in 1..Len(w)
    BY <2>2, <2>3 DEF n
  <2>6. \A i \in 1..n : v[i] \in S
    BY <2>2, <2>5
  <2>7. v \in Seq(S)
    BY <2>3, <2>6
  <2> QED
    BY <2>4, <2>7
<1> QED
  BY <1>1, <1>2

(***************************************************************************)
(* The round-robin counter names a lane after it wraps.                    *)
(***************************************************************************)
LEMMA NextLaneType ==
  ASSUME NEW n \in Lanes
  PROVE  (n + 1) % LaneCount \in Lanes
<1>1. LaneCount \in Nat \ {0} /\ n \in Nat
  BY LanesFinite DEF Lanes
<1> QED
  BY <1>1 DEF Lanes

(***************************************************************************)
(* A task that a step does not concern stays where it is.                  *)
(***************************************************************************)
LEMMA OtherTask ==
  ASSUME NEW u \in Tasks, TaskPlaced(u), EntryPhases(u),
         send'[u] = send[u], lane'[u] = lane[u], phase'[u] = phase[u], result'[u] = result[u],
         entry'[u] = entry[u], shardOf'[u] = shardOf[u],
         InLane(lane[u], u)' <=> InLane(lane[u], u),
         InHand(u)' <=> InHand(u),
         InHand(u) => disp'[lane[u]] = disp[lane[u]]
  PROVE  TaskPlaced(u)' /\ EntryPhases(u)'
<1>1. TaskPlaced(u)'
  BY DEF TaskPlaced
<1>2. EntryPhases(u)'
  BY DEF EntryPhases
<1> QED
  BY <1>1, <1>2

-----------------------------------------------------------------------------
(***************************************************************************)
(* The steps of the pool by the actor that takes them: the clones with the *)
(* notifier, the submit calls, the spawned tasks, the dispatcher loops.    *)
(***************************************************************************)
ManagerCall ==
  \/ \E t \in Tasks : HandleCancel(t)
  \/ \E m \in Managers, labels \in SUBSET Labels : CancelByLabels(m, labels)
  \/ \E m, n \in Managers : Clone(m, n)
  \/ \E m \in Managers : ShutdownBegin(m) \/ DropBegin(m) \/ ManagerStep(m)

NotifierSide ==
  \/ \E h \in Handlers : AddCompletionHandler(h) \/ FinishAddHandler(h)
  \/ NotifierProgress

SubmitSide == \E t \in Tasks : Submit(t) \/ SubmitStep(t) \/ AbandonSubmit(t)

TaskSide ==
  \E t \in Tasks : TaskStep(t) \/ \E outcome \in FutureOutcomes : FutureReady(t, outcome)

DispatchSide == \E l \in Lanes : DispatchStep(l)

(***************************************************************************)
(* Every step of the pool is a step of one of these actors.                *)
(***************************************************************************)
LEMMA NextByActor ==
  [Next]_vars => \/ ManagerCall \/ NotifierSide \/ SubmitSide \/ TaskSide \/ DispatchSide
                 \/ UNCHANGED vars
  BY DEF Next, UserStep, Terminated, ManagerCall, NotifierSide, SubmitSide, TaskSide,
         DispatchSide

(***************************************************************************)
(* What the clones do to the rest of the pool: they set the token, open or *)
(* close producers, set a cancellation flag, close the sink or take the    *)
(* notifier's handle.                                                      *)
(***************************************************************************)
LEMMA ManagerFrame ==
  ASSUME ManagerCall
  PROVE  /\ UNCHANGED callFrame
         /\ UNCHANGED notifierVars \/ CloseSink \/ TakeNotifierHandle
         /\ shutdownToken => shutdownToken'
<1> USE DEF loopFrame, managerVars, loopVars
<1> DEFINE Quiet == /\ UNCHANGED callFrame
                    /\ UNCHANGED notifierVars \/ CloseSink \/ TakeNotifierHandle
                    /\ shutdownToken => shutdownToken'
<1>1. ASSUME NEW t \in Tasks, HandleCancel(t) PROVE Quiet
  BY <1>1 DEF HandleCancel
<1>2. ASSUME NEW m \in Managers, NEW labels \in SUBSET Labels, CancelByLabels(m, labels)
      PROVE  Quiet
  BY <1>2 DEF CancelByLabels
<1>3. ASSUME NEW m \in Managers, NEW n \in Managers, Clone(m, n) PROVE Quiet
  BY <1>3 DEF Clone
<1>4. ASSUME NEW m \in Managers, ShutdownBegin(m) \/ DropBegin(m) PROVE Quiet
  BY <1>4 DEF ShutdownBegin, DropBegin
<1>5. ASSUME NEW m \in Managers, ManagerStep(m) PROVE Quiet
  <2>1. CASE Collect(m) \/ CancelCollected(m)
    BY <2>1 DEF Collect, CancelCollected
  <2>2. CASE SignalShutdown(m) \/ CloseQueue(m)
    BY <2>2 DEF SignalShutdown, CloseQueue
  <2>3. CASE ShutdownCount(m) \/ ShutdownTake(m) \/ ShutdownJoin(m) \/ ShutdownNotifierJoined(m)
    BY <2>3 DEF ShutdownCount, ShutdownTake, ShutdownJoin, ShutdownNotifierJoined
  <2>4. CASE ShutdownSink(m) \/ ShutdownNotifier(m)
    BY <2>4 DEF ShutdownSink, ShutdownNotifier
  <2>5. CASE ShutdownTimeout(m)
    BY <2>5 DEF ShutdownTimeout
  <2>6. CASE DropSink(m) \/ DropFields(m)
    BY <2>6 DEF DropSink, DropFields
  <2> QED
    BY <1>5, <2>1, <2>2, <2>3, <2>4, <2>5, <2>6 DEF ManagerStep, ShutdownStep
<1> QED
  BY <1>1, <1>2, <1>3, <1>4, <1>5 DEF ManagerCall

(***************************************************************************)
(* Every step of the pool is a step of the registry or leaves it alone.    *)
(***************************************************************************)
LEMMA RlxdRegistryStep == RlxdInv /\ [Next]_vars => [DeferredNext]_registryVars
<1> SUFFICES ASSUME RlxdInv, [Next]_vars PROVE [DeferredNext]_registryVars
  OBVIOUS
<1>1. CASE ManagerCall
  BY <1>1, ManagerFrame DEF callFrame
<1>2. CASE NotifierSide
  BY <1>2 DEF NotifierSide, AddCompletionHandler, FinishAddHandler, NotifierProgress,
              notifierFrame
<1>3. CASE SubmitSide
  BY <1>3 DEF SubmitSide, Submit, SubmitStep, AbandonSubmit, ProbeLane, TryDirect, SendCheck,
              PollGate, PollToken, LaneSend, submitFrame
<1>4. CASE DispatchSide
  BY <1>4 DEF DispatchSide, DispatchStep, DispatchTop, DispatchRecv, DispatchStop, DispatchGot,
              DispatchCancelCheck, DispatchPreNotify, DispatchAcquire, DispatchGiveUp,
              DispatchRecheck, DispatchExit, dispatchFrame
<1>5. CASE TaskSide
  <2>1. PICK t \in Tasks : TaskStep(t) \/ \E outcome \in FutureOutcomes : FutureReady(t, outcome)
    BY <1>5 DEF TaskSide
  <2>2. CASE SpawnInsert(t)
    <3>1. lane[t] \in Lanes
      BY DEF RlxdInv, RlxdTypeOK
    <3> QED
      BY <2>2, <3>1 DEF SpawnInsert, DeferredNext
  <2>3. CASE Deregister(t)
    BY <2>3 DEF Deregister, DeferredNext
  <2>4. CASE \/ Spawn(t) \/ CancelArm(t) \/ SendResult(t) \/ NotifyCompletion(t)
             \/ ReleasePermit(t)
             \/ \E outcome \in FutureOutcomes : FutureReady(t, outcome)
    BY <2>4 DEF Spawn, CancelArm, NotifyCompletion, ReleasePermit, FutureReady, Decide, SendResult
  <2> QED
    BY <2>1, <2>2, <2>3, <2>4 DEF TaskStep
<1>6. CASE UNCHANGED vars
  BY <1>6 DEF vars
<1> QED
  BY <1>1, <1>2, <1>3, <1>4, <1>5, <1>6, NextByActor

(***************************************************************************)
(* Every step of the pool is a step of the notifier or leaves it alone.    *)
(***************************************************************************)
LEMMA RlxdNotifierStep == RlxdInv /\ [Next]_vars => [NotifierNext]_notifierVars
<1> SUFFICES ASSUME RlxdInv, [Next]_vars PROVE [NotifierNext]_notifierVars
  OBVIOUS
<1>1. CASE ManagerCall
  BY <1>1, ManagerFrame DEF NotifierNext, NotifierEnvironment
<1>2. CASE NotifierSide
  BY <1>2 DEF NotifierSide, AddCompletionHandler, FinishAddHandler, NotifierProgress,
              NotifierNext
<1>3. CASE SubmitSide
  BY <1>3 DEF SubmitSide, Submit, SubmitStep, AbandonSubmit, ProbeLane, TryDirect, SendCheck,
              PollGate, PollToken, LaneSend, submitFrame
<1>4. CASE DispatchSide
  <2>1. PICK l \in Lanes : DispatchStep(l)
    BY <1>4 DEF DispatchSide
  <2>2. CASE DispatchPreNotify(l)
    <3>1. dtask[l] \in Tasks
      BY <2>2 DEF DispatchPreNotify, RlxdInv, DispatchersHold, InHandPoints
    <3> QED
      BY <2>2, <3>1 DEF DispatchPreNotify, NotifierNext, NotifierEnvironment
  <2>3. CASE DispatchExit(l)
    BY <2>3 DEF DispatchExit, NotifierNext, NotifierEnvironment
  <2>4. CASE \/ DispatchTop(l) \/ DispatchRecv(l) \/ DispatchStop(l) \/ DispatchGot(l)
             \/ DispatchCancelCheck(l) \/ DispatchAcquire(l) \/ DispatchGiveUp(l)
             \/ DispatchRecheck(l)
    BY <2>4 DEF DispatchTop, DispatchRecv, DispatchStop, DispatchGot, DispatchCancelCheck,
                DispatchAcquire, DispatchGiveUp, DispatchRecheck
  <2> QED
    BY <2>1, <2>2, <2>3, <2>4 DEF DispatchStep
<1>5. CASE TaskSide
  <2>1. PICK t \in Tasks : TaskStep(t) \/ \E outcome \in FutureOutcomes : FutureReady(t, outcome)
    BY <1>5 DEF TaskSide
  <2>2. CASE Spawn(t)
    BY <2>2 DEF Spawn, NotifierNext, NotifierEnvironment
  <2>3. CASE NotifyCompletion(t)
    <3>1. result[t] \in Statuses
      BY <2>3 DEF NotifyCompletion, RlxdInv, TasksPlaced, TaskPlaced
    <3> QED
      BY <2>3, <3>1 DEF NotifyCompletion, NotifierNext, NotifierEnvironment
  <2>4. CASE \/ SpawnInsert(t) \/ CancelArm(t) \/ SendResult(t) \/ Deregister(t)
             \/ ReleasePermit(t)
             \/ \E outcome \in FutureOutcomes : FutureReady(t, outcome)
    BY <2>4 DEF SpawnInsert, CancelArm, Deregister, ReleasePermit, FutureReady, Decide, SendResult
  <2> QED
    BY <2>1, <2>2, <2>3, <2>4 DEF TaskStep
<1>6. CASE UNCHANGED vars
  BY <1>6 DEF vars
<1> QED
  BY <1>1, <1>2, <1>3, <1>4, <1>5, <1>6, NextByActor

(***************************************************************************)
(* The variables of the clones stay in their ranges.                       *)
(***************************************************************************)
LEMMA ManagerTypesStep == RlxdInv /\ [Next]_vars => ManagerTypes'
<1> SUFFICES ASSUME RlxdInv, [Next]_vars PROVE ManagerTypes'
  OBVIOUS
<1>0. ManagerTypes /\ LaneCount \in Nat \ {0} /\ Lanes = 0..(LaneCount - 1)
  BY RlxdInvParts, LanesFinite DEF Lanes
<1> DEFINE Still == UNCHANGED <<shutdownToken, producers, managerVars, cancelled>>
<1> USE DEF managerVars, loopVars
<1>1. CASE Still
  BY <1>0, <1>1 DEF ManagerTypes
<1>2. ASSUME NotifierSide \/ SubmitSide \/ UNCHANGED vars PROVE Still
  BY <1>2 DEF NotifierSide, AddCompletionHandler, FinishAddHandler, NotifierProgress,
              notifierFrame, queueVars, taskVars, vars,
              SubmitSide, Submit, SubmitStep, AbandonSubmit, ProbeLane, TryDirect, SendCheck,
              PollGate, PollToken, LaneSend, submitFrame
<1>3. ASSUME DispatchSide PROVE Still
  BY <1>3 DEF DispatchSide, DispatchStep, DispatchTop, DispatchRecv, DispatchStop, DispatchGot,
              DispatchCancelCheck, DispatchPreNotify, DispatchAcquire, DispatchGiveUp,
              DispatchRecheck, DispatchExit, dispatchFrame
<1>4. ASSUME TaskSide PROVE Still
  BY <1>4 DEF TaskSide, TaskStep, SpawnInsert, Spawn, CancelArm, NotifyCompletion, Deregister,
              ReleasePermit, FutureReady, Decide, SendResult, taskFrame, taskVars
<1>5. CASE ManagerCall
  <2> USE <1>0 DEF ManagerTypes, Live, InShutdown, InDrop, Gone, Goto, loopFrame
  <2>1. ASSUME NEW t \in Tasks, HandleCancel(t) PROVE ManagerTypes'
    BY <2>1 DEF HandleCancel
  <2>2. ASSUME NEW m \in Managers, NEW labels \in SUBSET Labels, CancelByLabels(m, labels)
        PROVE  ManagerTypes'
    BY <2>2 DEF CancelByLabels
  <2>3. ASSUME NEW m \in Managers, NEW n \in Managers, Clone(m, n) PROVE ManagerTypes'
    BY <2>3 DEF Clone
  <2>4. ASSUME NEW m \in Managers, ShutdownBegin(m) \/ DropBegin(m) PROVE ManagerTypes'
    BY <2>4 DEF ShutdownBegin, DropBegin
  <2>5. ASSUME NEW m \in Managers, ManagerStep(m) PROVE ManagerTypes'
    <3>1. \A after \in Live \cup InShutdown \cup InDrop \cup Gone : Turn(m, after) =>
            /\ mgr' \in [Managers -> Live \cup InShutdown \cup InDrop \cup Gone]
            /\ at' \in [Managers -> Lanes]
      BY DEF Turn
    <3>2. CASE Collect(m)
      <4>1. /\ Turn(m, "label_cancel") \/ Turn(m, "shutdown_cancelling")
            /\ UNCHANGED <<shutdownToken, producers, first, want, joinHandles, cancelled>>
        BY <3>2 DEF Collect
      <4>2. todo' \in [Managers -> SUBSET Tasks]
        BY <3>2 DEF Collect, ShardTokensMatching, ShardTokens, Occupants
      <4> QED
        BY <3>1, <4>1, <4>2
    <3>3. CASE CancelCollected(m)
      <4>1. CASE todo[m] # {}
        <5>1. PICK t \in todo[m] : /\ cancelled' = [cancelled EXCEPT ![t] = TRUE]
                                   /\ todo' = [todo EXCEPT ![m] = @ \ {t}]
                                   /\ UNCHANGED <<mgr, want>>
          BY <3>3, <4>1 DEF CancelCollected
        <5>2. t \in Tasks /\ UNCHANGED <<shutdownToken, producers, first, at, joinHandles>>
          BY <3>3 DEF CancelCollected
        <5> QED
          BY <5>1, <5>2
      <4>2. CASE todo[m] = {}
        BY <3>3, <4>2 DEF CancelCollected
      <4> QED
        BY <4>1, <4>2
    <3>4. CASE SignalShutdown(m) \/ CloseQueue(m)
      BY <3>4 DEF SignalShutdown, CloseQueue
    <3>5. CASE ShutdownCount(m)
      BY <3>1, <3>5, LaneZero DEF ShutdownCount
    <3>6. CASE ShutdownJoin(m)
      BY <3>1, <3>6 DEF ShutdownJoin
    <3>7. CASE ShutdownTake(m) \/ ShutdownNotifierJoined(m)
      BY <3>7 DEF ShutdownTake, ShutdownNotifierJoined
    <3>8. CASE ShutdownSink(m) \/ ShutdownNotifier(m)
      BY <3>8 DEF ShutdownSink, ShutdownNotifier
    <3>9. CASE ShutdownTimeout(m)
      BY <3>1, <3>9, LaneZero DEF ShutdownTimeout
    <3>10. CASE DropSink(m) \/ DropFields(m)
      BY <3>10 DEF DropSink, DropFields
    <3> QED
      BY <2>5, <3>2, <3>3, <3>4, <3>5, <3>6, <3>7, <3>8, <3>9, <3>10
         DEF ManagerStep, ShutdownStep
  <2> QED
    BY <1>5, <2>1, <2>2, <2>3, <2>4, <2>5 DEF ManagerCall
<1> QED
  BY <1>1, <1>2, <1>3, <1>4, <1>5, NextByActor

-----------------------------------------------------------------------------
(***************************************************************************)
(* The clones and the notifier move no task.                               *)
(***************************************************************************)
LEMMA CallPlacement ==
  ASSUME Placement, UNCHANGED callFrame
  PROVE  Placement'
<1> USE DEF callFrame, gateVars, routeVars, runGateVars, dispVars, registryVars
<1>1. GateTypes' /\ PlaceTypes'
  BY DEF Placement, GateTypes, PlaceTypes
<1>2. LanesHold' /\ DispatchersHold'
  BY DEF Placement, LanesHold, DispatchersHold, InLane
<1>3. TasksPlaced' /\ EntriesFollow'
  BY DEF Placement, TasksPlaced, EntriesFollow, TaskPlaced, EntryPhases, InLane, InHand
<1>4. RunPermitConservation' /\ LanePermitAccounting'
  BY DEF Placement, RunPermitConservation, LanePermitAccounting, Queued
<1> QED
  BY <1>1, <1>2, <1>3, <1>4 DEF Placement

-----------------------------------------------------------------------------
(***************************************************************************)
(* A task whose submit call is under way is in no lane, in no hand and in  *)
(* no shard, unless the call itself is spawning it.                        *)
(***************************************************************************)
LEMMA NotYetPlaced ==
  ASSUME Placement, NEW t \in Tasks, send[t] \notin {"ok", "dispatching"}
  PROVE  /\ phase[t] = "none" /\ result[t] = "pending" /\ entry[t] = "out"
         /\ \A l \in Lanes : ~InLane(l, t) /\ dtask[l] # t
<1>1. TaskPlaced(t) /\ EntryPhases(t) /\ lane[t] \in Lanes
  BY DEF Placement, TasksPlaced, EntriesFollow, GateTypes
<1>2. ~InHand(t) /\ ~InLane(lane[t], t) /\ phase[t] = "none" /\ result[t] = "pending"
  BY <1>1 DEF TaskPlaced, Placement, PlaceTypes, Statuses, Phases
<1>3. \A l \in Lanes : (InLane(l, t) => lane[t] = l) /\ (dtask[l] = t => lane[t] = l)
  BY DEF Placement, LanesHold, DispatchersHold
<1> QED
  BY <1>1, <1>2, <1>3 DEF EntryPhases, InHand

(***************************************************************************)
(* A submit call that neither spawns nor enqueues its task places nothing, *)
(* whichever lane it looks at or is routed to.                             *)
(***************************************************************************)
LEMMA CallUnderWay ==
  ASSUME Placement, NEW t \in Tasks, send[t] \notin {"ok", "dispatching"},
         send'[t] \notin {"ok", "dispatching"},
         \A u \in Tasks : u # t => send'[u] = send[u] /\ lane'[u] = lane[u],
         lane'[t] \in Lanes,
         UNCHANGED <<lanes, disp, dtask, phase, result, entry, shardOf>>
  PROVE  LanesHold' /\ DispatchersHold' /\ TasksPlaced' /\ EntriesFollow'
<1>1. /\ phase[t] = "none" /\ result[t] = "pending" /\ entry[t] = "out"
      /\ \A l \in Lanes : ~InLane(l, t) /\ dtask[l] # t
  BY NotYetPlaced
<1>2. \A l \in Lanes, u \in Tasks : InLane(l, u)' <=> InLane(l, u)
  BY DEF InLane
<1>3. LanesHold' /\ DispatchersHold'
  <2>1. LanesHold'
    BY <1>1, <1>2 DEF Placement, LanesHold
  <2>2. DispatchersHold'
    BY <1>1 DEF Placement, DispatchersHold
  <2> QED
    BY <2>1, <2>2
<1>4. ASSUME NEW u \in Tasks, u # t PROVE TaskPlaced(u)' /\ EntryPhases(u)'
  <2>1. InLane(lane[u], u)' <=> InLane(lane[u], u)
    BY <1>2, <1>4 DEF InLane
  <2>2. InHand(u)' <=> InHand(u)
    BY <1>4 DEF InHand
  <2>3. TaskPlaced(u) /\ EntryPhases(u)
    BY DEF Placement, TasksPlaced, EntriesFollow
  <2> QED
    BY <1>4, <2>1, <2>2, <2>3, OtherTask
<1>5. TaskPlaced(t)' /\ EntryPhases(t)'
  <2>1. ~InLane(lane[t], t)' /\ ~InHand(t)'
    BY <1>1 DEF InLane, InHand
  <2> QED
    BY <1>1, <2>1 DEF TaskPlaced, EntryPhases, Statuses
<1> QED
  BY <1>3, <1>4, <1>5 DEF TasksPlaced, EntriesFollow

(***************************************************************************)
(* The submit steps that take no permit and send nothing.                  *)
(***************************************************************************)
LEMMA SubmitWaitPlacement ==
  ASSUME Placement, NEW t \in Tasks,
         \/ Submit(t) \/ ProbeLane(t) \/ SendCheck(t) \/ PollToken(t) \/ AbandonSubmit(t)
         \/ TryDirect(t) /\ send'[t] = "queueing"
         \/ PollGate(t) /\ send'[t] = "token"
  PROVE  Placement'
<1> USE DEF submitFrame, dispVars, registryVars, gateVars, routeVars
<1>0. GateTypes /\ PlaceTypes /\ LaneCount \in Nat \ {0}
  BY LanesFinite DEF Placement
<1>1. /\ UNCHANGED <<lanes, disp, dtask, phase, result, entry, shardOf, permits, cPermits,
                     cWaiters, nextLane>>
      /\ \E x \in {"PoolShuttingDown", "probe", "queueing", "direct", "gate", "parked",
                   "abandoned", "token"} : send' = [send EXCEPT ![t] = x]
      /\ send[t] \in {"idle", "probe", "direct", "queueing", "gate", "token", "parked"}
  <2>1. CASE Submit(t) \/ SendCheck(t) \/ PollToken(t) \/ AbandonSubmit(t)
    BY <2>1 DEF Submit, SendCheck, PollToken, AbandonSubmit, SendTo
  <2>2. CASE ProbeLane(t)
    <3>1. send = [send EXCEPT ![t] = send[t]]
      BY <1>0 DEF PlaceTypes
    <3> QED
      BY <2>2, <3>1 DEF ProbeLane, SendTo
  <2>3. CASE TryDirect(t) /\ send'[t] = "queueing"
    BY <1>0, <2>3 DEF TryDirect, SendTo, PlaceTypes
  <2>4. CASE PollGate(t) /\ send'[t] = "token"
    BY <1>0, <2>4 DEF PollGate, SendTo, PlaceTypes
  <2> QED
    BY <2>1, <2>2, <2>3, <2>4
<1>2. /\ lane' \in [Tasks -> Lanes]
      /\ \A u \in Tasks : u # t => lane'[u] = lane[u]
  <2>1. CASE ~ProbeLane(t)
    <3>1. UNCHANGED lane
      BY <1>0, <2>1 DEF Submit, SendCheck, PollToken, AbandonSubmit, TryDirect, PollGate,
                        SendTo, PlaceTypes
    <3> QED
      BY <1>0, <3>1 DEF GateTypes
  <2>2. CASE ProbeLane(t)
    <3>1. lane \in [Tasks -> Lanes] /\ lane[t] \in Lanes
      BY <1>0 DEF GateTypes
    <3>2. lane[t] + 1 < LaneCount => lane[t] + 1 \in Lanes
      BY <1>0, <3>1 DEF Lanes
    <3>3. \/ UNCHANGED lane
          \/ lane[t] + 1 < LaneCount /\ lane' = [lane EXCEPT ![t] = @ + 1]
      BY <2>2 DEF ProbeLane
    <3> QED
      BY <3>1, <3>2, <3>3
  <2> QED
    BY <2>1, <2>2
<1>3. waiters' \in Seq(Tasks)
  <2>1. waiters \in Seq(Tasks) /\ Without(waiters, t) \in Seq(Tasks)
    BY <1>0, WithoutType DEF GateTypes
  <2>2. Joined(waiters, t) \in Seq(Tasks)
    BY <2>1 DEF Joined
  <2>3. waiters' \in {waiters, Without(waiters, t), Joined(waiters, t)}
    BY DEF Submit, ProbeLane, SendCheck, PollToken, AbandonSubmit, TryDirect, PollGate
  <2> QED
    BY <2>1, <2>2, <2>3
<1>4. GateTypes' /\ PlaceTypes'
  BY <1>0, <1>1, <1>2, <1>3 DEF GateTypes, PlaceTypes, SubmitPoints, Refusals
<1>5. /\ send'[t] \notin {"ok", "dispatching", "holding", "QueueSendChannelClosed"}
      /\ \A u \in Tasks : u # t => send'[u] = send[u]
  BY <1>0, <1>1 DEF PlaceTypes
<1>6. LanesHold' /\ DispatchersHold' /\ TasksPlaced' /\ EntriesFollow'
  BY <1>1, <1>2, <1>5, CallUnderWay
<1>7. RunPermitConservation'
  BY <1>1, RunAccountStays DEF Placement, PermitTasks, Deciding
<1>8. LanePermitAccounting'
  <2>1. Sending' = Sending /\ FailedSends' = FailedSends
    BY <1>1, <1>5 DEF Sending, FailedSends
  <2> QED
    BY <1>1, <2>1, LaneAccountStays DEF Placement, Queued, Received
<1> QED
  BY <1>4, <1>6, <1>7, <1>8 DEF Placement

(***************************************************************************)
(* try_acquire_owned succeeds: submit has a concurrency permit and will    *)
(* spawn the task itself.                                                  *)
(***************************************************************************)
LEMMA TryDirectPlacement ==
  ASSUME Placement, NEW t \in Tasks, TryDirect(t), send'[t] # "queueing"
  PROVE  Placement'
<1> USE DEF submitFrame, dispVars, registryVars, gateVars, routeVars
<1>0. GateTypes /\ PlaceTypes
  BY DEF Placement
<1>1. /\ cPermits > 0 /\ cPermits' = cPermits - 1
      /\ send[t] = "direct" /\ send' = [send EXCEPT ![t] = "dispatching"]
      /\ phase' = [phase EXCEPT ![t] = "spawning"]
      /\ lane' = [lane EXCEPT ![t] = nextLane] /\ nextLane' = (nextLane + 1) % LaneCount
      /\ UNCHANGED <<lanes, disp, dtask, result, entry, shardOf, permits, waiters, cWaiters>>
  BY <1>0 DEF TryDirect, SendTo, Route, PlaceTypes
<1>2. /\ phase[t] = "none" /\ result[t] = "pending" /\ entry[t] = "out"
      /\ \A l \in Lanes : ~InLane(l, t) /\ dtask[l] # t
  BY <1>1, NotYetPlaced
<1>3. GateTypes' /\ PlaceTypes'
  <2>1. nextLane' \in Lanes
    BY <1>0, <1>1, NextLaneType DEF GateTypes
  <2>2. GateTypes'
    BY <1>0, <1>1, <2>1 DEF GateTypes
  <2>3. PlaceTypes'
    BY <1>0, <1>1 DEF PlaceTypes, SubmitPoints, Phases, Statuses
  <2> QED
    BY <2>2, <2>3
<1>4. \A u \in Tasks : u # t => /\ send'[u] = send[u] /\ lane'[u] = lane[u]
                                /\ phase'[u] = phase[u]
  BY <1>0, <1>1 DEF PlaceTypes, GateTypes
<1>5. /\ send'[t] = "dispatching" /\ phase'[t] = "spawning" /\ lane'[t] \in Lanes
  BY <1>0, <1>1, <1>3 DEF PlaceTypes, GateTypes
<1>6. \A l \in Lanes, u \in Tasks : InLane(l, u)' <=> InLane(l, u)
  BY <1>1 DEF InLane
<1>7. LanesHold' /\ DispatchersHold'
  <2>1. LanesHold'
    BY <1>1, <1>2, <1>4, <1>6 DEF Placement, LanesHold
  <2>2. DispatchersHold'
    BY <1>1, <1>2, <1>4 DEF Placement, DispatchersHold
  <2> QED
    BY <2>1, <2>2
<1>8. ASSUME NEW u \in Tasks, u # t PROVE TaskPlaced(u)' /\ EntryPhases(u)'
  <2>1. InLane(lane[u], u)' <=> InLane(lane[u], u)
    BY <1>1, <1>4, <1>8 DEF InLane
  <2>2. InHand(u)' <=> InHand(u)
    BY <1>1, <1>4, <1>8 DEF InHand
  <2>3. TaskPlaced(u) /\ EntryPhases(u)
    BY DEF Placement, TasksPlaced, EntriesFollow
  <2> QED
    BY <1>1, <1>4, <1>8, <2>1, <2>2, <2>3, OtherTask
<1>9. TaskPlaced(t)' /\ EntryPhases(t)'
  <2>1. ~InLane(lane[t], t)' /\ ~InHand(t)'
    BY <1>1, <1>2, <1>5 DEF InLane, InHand
  <2> QED
    BY <1>1, <1>2, <1>5, <2>1 DEF TaskPlaced, EntryPhases, Statuses
<1>10. RunPermitConservation'
  <2>1. PermitTasks' = PermitTasks \cup {t} /\ t \notin PermitTasks
    BY <1>2, <1>4, <1>5 DEF PermitTasks
  <2>2. PermitTasks \in SUBSET Tasks /\ Deciding \in SUBSET Lanes
    BY DEF PermitTasks, Deciding
  <2>3. Cardinality(PermitTasks') = Cardinality(PermitTasks) + 1
    BY <2>1, <2>2, FiniteTaskSets, FS_AddElement
  <2>4. Cardinality(PermitTasks) \in Nat /\ Cardinality(Deciding) \in Nat /\ cPermits \in Nat
    BY <1>0, <2>2, FiniteTaskSets, LanesFinite DEF GateTypes
  <2>5. Deciding' = Deciding
    BY <1>1 DEF Deciding
  <2>6. cPermits + Cardinality(PermitTasks) + Cardinality(Deciding) = ConcurrencyPermits
    BY DEF Placement, RunPermitConservation, PermitTasks, Deciding
  <2>7. cPermits' + Cardinality(PermitTasks') + Cardinality(Deciding') = ConcurrencyPermits
    BY <1>1, <2>3, <2>4, <2>5, <2>6
  <2> QED
    BY <2>7 DEF RunPermitConservation, PermitTasks, Deciding
<1>11. LanePermitAccounting'
  <2>1. Sending' = Sending /\ FailedSends' = FailedSends
    BY <1>1, <1>4, <1>5 DEF Sending, FailedSends
  <2> QED
    BY <1>1, <2>1, LaneAccountStays DEF Placement, Queued, Received
<1> QED
  BY <1>3, <1>7, <1>8, <1>9, <1>10, <1>11 DEF Placement, TasksPlaced, EntriesFollow


(***************************************************************************)
(* The sets that the gate over the lanes counts are finite.                *)
(***************************************************************************)
LEMMA LaneAccountFinite ==
  /\ Sending \in SUBSET Tasks /\ IsFiniteSet(Sending) /\ Cardinality(Sending) \in Nat
  /\ Queued \in SUBSET Tasks /\ IsFiniteSet(Queued) /\ Cardinality(Queued) \in Nat
  /\ FailedSends \in SUBSET Tasks /\ IsFiniteSet(FailedSends)
  /\ Cardinality(FailedSends) \in Nat
  /\ Received \in SUBSET Lanes /\ IsFiniteSet(Received) /\ Cardinality(Received) \in Nat
  /\ QueuePermits \in Nat
<1>1. /\ Sending \in SUBSET Tasks /\ Queued \in SUBSET Tasks /\ FailedSends \in SUBSET Tasks
      /\ Received \in SUBSET Lanes
  BY DEF Sending, Queued, FailedSends, Received
<1> QED
  BY <1>1, FiniteTaskSets, LanesFinite, SizesAssumption DEF QueuePermits

(***************************************************************************)
(* The gate grants a call its permit; the call is routed to a lane.        *)
(***************************************************************************)
LEMMA PollGatePlacement ==
  ASSUME Placement, NEW t \in Tasks, PollGate(t), send'[t] # "token"
  PROVE  Placement'
<1> USE DEF submitFrame, dispVars, registryVars, gateVars, routeVars
<1>0. GateTypes /\ PlaceTypes
  BY DEF Placement
<1>1. /\ permits > 0 /\ permits' = permits - 1 /\ waiters' = Without(waiters, t)
      /\ send[t] \in {"gate", "parked"} /\ send' = [send EXCEPT ![t] = "holding"]
      /\ lane' = [lane EXCEPT ![t] = nextLane] /\ nextLane' = (nextLane + 1) % LaneCount
      /\ UNCHANGED <<lanes, disp, dtask, phase, result, entry, shardOf, cPermits, cWaiters>>
  BY <1>0 DEF PollGate, MayAcquire, SendTo, Route, PlaceTypes
<1>2. /\ send'[t] = "holding" /\ lane'[t] \in Lanes
      /\ \A u \in Tasks : u # t => send'[u] = send[u] /\ lane'[u] = lane[u]
  BY <1>0, <1>1 DEF PlaceTypes, GateTypes
<1>3. LanesHold' /\ DispatchersHold' /\ TasksPlaced' /\ EntriesFollow'
  BY <1>1, <1>2, CallUnderWay
<1>4. GateTypes' /\ PlaceTypes'
  <2>1. nextLane' \in Lanes /\ waiters' \in Seq(Tasks)
    BY <1>0, <1>1, NextLaneType, WithoutType DEF GateTypes
  <2>2. GateTypes'
    BY <1>0, <1>1, <2>1 DEF GateTypes
  <2>3. PlaceTypes'
    BY <1>0, <1>1 DEF PlaceTypes, SubmitPoints
  <2> QED
    BY <2>2, <2>3
<1>5. RunPermitConservation'
  BY <1>1, RunAccountStays DEF Placement, PermitTasks, Deciding
<1>6. LanePermitAccounting'
  <2>1. Sending' = Sending \cup {t} /\ t \notin Sending
    BY <1>1, <1>2 DEF Sending
  <2>2. FailedSends' = FailedSends /\ Queued' = Queued /\ Received' = Received
    BY <1>1, <1>2 DEF FailedSends, Queued, Received
  <2>3. Cardinality(Sending') = Cardinality(Sending) + 1
    BY <2>1, LaneAccountFinite, FS_AddElement
  <2>4. permits + Cardinality(Sending) + Cardinality(Queued) + Cardinality(Received)
          = QueuePermits + Cardinality(FailedSends)
    BY DEF Placement, LanePermitAccounting, Sending, Received, FailedSends
  <2>5. permits' + Cardinality(Sending') + Cardinality(Queued') + Cardinality(Received')
          = QueuePermits + Cardinality(FailedSends')
    BY <1>0, <1>1, <2>2, <2>3, <2>4, LaneAccountFinite DEF GateTypes
  <2> QED
    BY <2>5 DEF LanePermitAccounting, Sending, Received, FailedSends
<1> QED
  BY <1>3, <1>4, <1>5, <1>6 DEF Placement

(***************************************************************************)
(* What a lane's channel holds after a send: the task sent is in that lane *)
(* and in no other, and nothing else has changed.                          *)
(***************************************************************************)
LEMMA LaneAfterSend ==
  ASSUME lanes \in [Lanes -> Seq(Tasks)], NEW l \in Lanes, NEW t \in Tasks,
         lanes' = [lanes EXCEPT ![l] = Append(@, t)], \A k \in Lanes : ~InLane(k, t),
         \A k \in Lanes : \A i, j \in DOMAIN lanes[k] : lanes[k][i] = lanes[k][j] => i = j
  PROVE  /\ lanes' \in [Lanes -> Seq(Tasks)]
         /\ \A k \in Lanes, u \in Tasks :
              InLane(k, u)' <=> InLane(k, u) \/ (k = l /\ u = t)
         /\ \A k \in Lanes : \A i, j \in DOMAIN lanes'[k] : lanes'[k][i] = lanes'[k][j] => i = j
<1> DEFINE q == lanes[l]
           r == lanes'[l]
<1>1. q \in Seq(Tasks) /\ r = Append(q, t) /\ \A k \in Lanes : k # l => lanes'[k] = lanes[k]
  OBVIOUS
<1>2. /\ Len(q) \in Nat /\ DOMAIN q = 1..Len(q) /\ DOMAIN r = 1..(Len(q) + 1)
      /\ \A i \in 1..Len(q) : r[i] = q[i]
      /\ r[Len(q) + 1] = t
  BY <1>1
<1>3. \A i \in DOMAIN r : i \in DOMAIN q \/ i = Len(q) + 1
  BY <1>2
<1>4. ASSUME NEW u \in Tasks
      PROVE  InLane(l, u)' <=> InLane(l, u) \/ u = t
  <2>1. ASSUME InLane(l, u) \/ u = t PROVE InLane(l, u)'
    <3>1. Len(q) + 1 \in DOMAIN r /\ \A i \in DOMAIN q : i \in DOMAIN r /\ r[i] = q[i]
      BY <1>2
    <3> QED
      BY <1>2, <2>1, <3>1 DEF InLane
  <2>2. ASSUME InLane(l, u)' PROVE InLane(l, u) \/ u = t
    <3>1. PICK i \in DOMAIN r : r[i] = u
      BY <2>2 DEF InLane
    <3> QED
      BY <1>2, <1>3, <3>1 DEF InLane
  <2> QED
    BY <2>1, <2>2
<1>5. \A i, j \in DOMAIN r : r[i] = r[j] => i = j
  <2>1. \A i \in DOMAIN q : q[i] # t
    BY DEF InLane
  <2> QED
    BY <1>2, <1>3, <2>1
<1>6. ASSUME NEW k \in Lanes, k # l
      PROVE  /\ \A u \in Tasks : InLane(k, u)' <=> InLane(k, u)
             /\ \A i, j \in DOMAIN lanes'[k] : lanes'[k][i] = lanes'[k][j] => i = j
  BY <1>1, <1>6 DEF InLane
<1>7. lanes' \in [Lanes -> Seq(Tasks)]
  BY <1>1
<1> QED
  BY <1>4, <1>5, <1>6, <1>7

(***************************************************************************)
(* The lane accepts the task: the permit now travels with the message.     *)
(***************************************************************************)
LEMMA LaneSendPlacement ==
  ASSUME Placement, NEW t \in Tasks, LaneSend(t), Receiving(lane[t])
  PROVE  Placement'
<1> USE DEF submitFrame, dispVars, registryVars, gateVars, routeVars
<1>0. GateTypes /\ PlaceTypes /\ LanesHold /\ lane[t] \in Lanes
  BY DEF Placement, GateTypes
<1> DEFINE l == lane[t]
<1>1. /\ lanes' = [lanes EXCEPT ![l] = Append(@, t)] /\ disp[l] # "exited"
      /\ send[t] = "holding" /\ send' = [send EXCEPT ![t] = "ok"]
      /\ UNCHANGED <<permits, waiters, lane, nextLane, disp, dtask, phase, result, entry,
                     shardOf, cPermits, cWaiters>>
  BY DEF LaneSend, SendTo, Receiving
<1>2. /\ phase[t] = "none" /\ result[t] = "pending" /\ entry[t] = "out"
      /\ \A k \in Lanes : ~InLane(k, t) /\ dtask[k] # t
  BY <1>1, NotYetPlaced
<1>3. /\ lanes' \in [Lanes -> Seq(Tasks)]
      /\ \A k \in Lanes, u \in Tasks : InLane(k, u)' <=> InLane(k, u) \/ (k = l /\ u = t)
      /\ \A k \in Lanes : \A i, j \in DOMAIN lanes'[k] : lanes'[k][i] = lanes'[k][j] => i = j
  BY <1>0, <1>1, <1>2, LaneAfterSend DEF GateTypes, LanesHold
<1>4. GateTypes' /\ PlaceTypes'
  <2>1. GateTypes'
    BY <1>0, <1>1, <1>3 DEF GateTypes
  <2>2. PlaceTypes'
    BY <1>0, <1>1 DEF PlaceTypes
  <2> QED
    BY <2>1, <2>2
<1>5. send'[t] = "ok" /\ \A u \in Tasks : u # t => send'[u] = send[u]
  BY <1>0, <1>1 DEF PlaceTypes
<1>6. LanesHold'
  <2>1. \A k \in Lanes : k # l => lanes'[k] = lanes[k]
    BY <1>0, <1>1 DEF GateTypes
  <2> QED
    BY <1>0, <1>1, <1>3, <2>1 DEF LanesHold
<1>7. DispatchersHold'
  BY <1>1 DEF Placement, DispatchersHold
<1>8. ASSUME NEW u \in Tasks, u # t PROVE TaskPlaced(u)' /\ EntryPhases(u)'
  <2>1. lane'[u] = lane[u] /\ lane[u] \in Lanes
    BY <1>0, <1>1 DEF GateTypes
  <2>2. InLane(lane[u], u)' <=> InLane(lane[u], u)
    BY <1>3, <1>8, <2>1 DEF InLane
  <2>3. InHand(u)' <=> InHand(u)
    BY <1>1 DEF InHand
  <2>4. TaskPlaced(u) /\ EntryPhases(u)
    BY DEF Placement, TasksPlaced, EntriesFollow
  <2> QED
    BY <1>1, <1>5, <1>8, <2>2, <2>3, <2>4, OtherTask
<1>9. TaskPlaced(t)' /\ EntryPhases(t)'
  <2>1. InLane(lane[t], t)' /\ ~InHand(t)'
    BY <1>0, <1>1, <1>2, <1>3 DEF InLane, InHand
  <2> QED
    BY <1>1, <1>2, <1>5, <2>1 DEF TaskPlaced, EntryPhases, Statuses
<1>10. RunPermitConservation'
  BY <1>1, RunAccountStays DEF Placement, PermitTasks, Deciding
<1>11. LanePermitAccounting'
  <2>1. Sending' = Sending \ {t} /\ t \in Sending
    BY <1>1, <1>5 DEF Sending
  <2>2. Queued' = Queued \cup {t} /\ t \notin Queued
    <3>1. \A u \in Tasks : u \in Queued <=> \E k \in Lanes : InLane(k, u)
      BY DEF Queued, InLane
    <3>2. \A u \in Tasks : u \in Queued' <=> \E k \in Lanes : InLane(k, u)'
      BY DEF Queued, InLane
    <3>3. Queued \in SUBSET Tasks /\ Queued' \in SUBSET Tasks
      BY DEF Queued
    <3> QED
      BY <1>0, <1>2, <1>3, <3>1, <3>2, <3>3
  <2>3. FailedSends' = FailedSends /\ Received' = Received
    BY <1>1, <1>5 DEF FailedSends, Received
  <2>4. Cardinality(Sending') = Cardinality(Sending) - 1
    BY <2>1, LaneAccountFinite, FS_RemoveElement
  <2>5. Cardinality(Queued') = Cardinality(Queued) + 1
    BY <2>2, LaneAccountFinite, FS_AddElement
  <2>6. permits + Cardinality(Sending) + Cardinality(Queued) + Cardinality(Received)
          = QueuePermits + Cardinality(FailedSends)
    BY DEF Placement, LanePermitAccounting, Sending, Received, FailedSends
  <2>7. permits' + Cardinality(Sending') + Cardinality(Queued') + Cardinality(Received')
          = QueuePermits + Cardinality(FailedSends')
    BY <1>0, <1>1, <2>3, <2>4, <2>5, <2>6, LaneAccountFinite DEF GateTypes
  <2> QED
    BY <2>7 DEF LanePermitAccounting, Sending, Received, FailedSends
<1> QED
  BY <1>4, <1>6, <1>7, <1>8, <1>9, <1>10, <1>11 DEF Placement, TasksPlaced, EntriesFollow

(***************************************************************************)
(* The lane's receiver is gone: the gate is released twice.                *)
(***************************************************************************)
LEMMA SendFailsPlacement ==
  ASSUME Placement, NEW t \in Tasks, LaneSend(t), ~Receiving(lane[t])
  PROVE  Placement'
<1> USE DEF submitFrame, dispVars, registryVars, gateVars, routeVars
<1>0. GateTypes /\ PlaceTypes
  BY DEF Placement
<1>1. /\ permits' = permits + 2
      /\ send[t] = "holding" /\ send' = [send EXCEPT ![t] = "QueueSendChannelClosed"]
      /\ UNCHANGED <<lanes, waiters, lane, nextLane, disp, dtask, phase, result, entry,
                     shardOf, cPermits, cWaiters>>
  BY DEF LaneSend, SendTo
<1>2. /\ send'[t] = "QueueSendChannelClosed" /\ lane'[t] \in Lanes
      /\ \A u \in Tasks : u # t => send'[u] = send[u] /\ lane'[u] = lane[u]
  BY <1>0, <1>1 DEF PlaceTypes, GateTypes
<1>3. LanesHold' /\ DispatchersHold' /\ TasksPlaced' /\ EntriesFollow'
  BY <1>1, <1>2, CallUnderWay
<1>4. GateTypes' /\ PlaceTypes'
  <2>1. GateTypes'
    BY <1>0, <1>1 DEF GateTypes
  <2>2. PlaceTypes'
    BY <1>0, <1>1 DEF PlaceTypes, Refusals
  <2> QED
    BY <2>1, <2>2
<1>5. RunPermitConservation'
  BY <1>1, RunAccountStays DEF Placement, PermitTasks, Deciding
<1>6. LanePermitAccounting'
  <2>1. Sending' = Sending \ {t} /\ t \in Sending
    BY <1>1, <1>2 DEF Sending
  <2>2. FailedSends' = FailedSends \cup {t} /\ t \notin FailedSends
    BY <1>1, <1>2 DEF FailedSends
  <2>3. Queued' = Queued /\ Received' = Received
    BY <1>1 DEF Queued, Received
  <2>4. Cardinality(Sending') = Cardinality(Sending) - 1
    BY <2>1, LaneAccountFinite, FS_RemoveElement
  <2>5. Cardinality(FailedSends') = Cardinality(FailedSends) + 1
    BY <2>2, LaneAccountFinite, FS_AddElement
  <2>6. permits + Cardinality(Sending) + Cardinality(Queued) + Cardinality(Received)
          = QueuePermits + Cardinality(FailedSends)
    BY DEF Placement, LanePermitAccounting, Sending, Received, FailedSends
  <2>7. /\ permits \in Nat /\ Cardinality(Sending) \in Nat /\ Cardinality(Queued) \in Nat
        /\ Cardinality(Received) \in Nat /\ Cardinality(FailedSends) \in Nat
        /\ QueuePermits \in Nat
    BY <1>0, LaneAccountFinite DEF GateTypes
  <2>8. permits' + Cardinality(Sending') + Cardinality(Queued') + Cardinality(Received')
          = QueuePermits + Cardinality(FailedSends')
    BY <1>1, <2>3, <2>4, <2>5, <2>6, <2>7
  <2> QED
    BY <2>8 DEF LanePermitAccounting, Sending, Received, FailedSends
<1> QED
  BY <1>3, <1>4, <1>5, <1>6 DEF Placement

(***************************************************************************)
(* Every step of a submit call keeps the placement.                        *)
(***************************************************************************)
LEMMA SubmitSidePlacement == Placement /\ SubmitSide => Placement'
  BY SubmitWaitPlacement, TryDirectPlacement, PollGatePlacement, LaneSendPlacement,
     SendFailsPlacement DEF SubmitSide, SubmitStep

-----------------------------------------------------------------------------
(***************************************************************************)
(* A registry step of one task's own, insert or finish, moves that task's  *)
(* entry only.                                                             *)
(***************************************************************************)
LEMMA EntryMoves ==
  ASSUME Placement, NEW t \in Tasks,
         UNCHANGED <<permits, waiters, send, lane, nextLane, lanes, cPermits, cWaiters, disp,
                     dtask, phase, result>>,
         \A u \in Tasks : u # t => entry'[u] = entry[u] /\ shardOf'[u] = shardOf[u],
         EntryPhases(t)'
  PROVE  Placement'
<1>1. GateTypes' /\ PlaceTypes'
  BY DEF Placement, GateTypes, PlaceTypes
<1>2. LanesHold' /\ DispatchersHold'
  BY DEF Placement, LanesHold, DispatchersHold, InLane
<1>3. TasksPlaced'
  BY DEF Placement, TasksPlaced, TaskPlaced, InLane, InHand
<1>4. EntriesFollow'
  BY DEF Placement, EntriesFollow, EntryPhases
<1>5. RunPermitConservation' /\ LanePermitAccounting'
  BY DEF Placement, RunPermitConservation, LanePermitAccounting, Queued
<1> QED
  BY <1>1, <1>2, <1>3, <1>4, <1>5 DEF Placement

(***************************************************************************)
(* spawn_task counts the task in and lists its core; the spawned task      *)
(* marks the core finished and counts itself out.                          *)
(***************************************************************************)
LEMMA RegistryPlacement ==
  ASSUME Placement, RegistryTypeOK, NEW t \in Tasks, SpawnInsert(t) \/ Deregister(t)
  PROVE  Placement'
<1>1. UNCHANGED <<permits, waiters, send, lane, nextLane, lanes, cPermits, cWaiters, disp,
                  dtask, phase, result>>
  BY DEF SpawnInsert, Deregister, taskFrame, taskVars, dispVars, gateVars, routeVars
<1>2. /\ entry \in [Tasks -> EntryPoints] /\ shardOf \in [Tasks -> Lanes]
      /\ lane[t] \in Lanes /\ EntryPhases(t)
  BY DEF RegistryTypeOK, Placement, GateTypes, EntriesFollow
<1>3. ASSUME phase[t] = "spawning", CountIn(lane[t], t)
      PROVE  /\ EntryPhases(t)'
             /\ \A u \in Tasks : u # t => entry'[u] = entry[u] /\ shardOf'[u] = shardOf[u]
  <2>1. entry'[t] = "counted" /\ shardOf'[t] = lane[t]
    BY <1>2, <1>3 DEF CountIn
  <2>2. \A u \in Tasks : u # t => entry'[u] = entry[u] /\ shardOf'[u] = shardOf[u]
    BY <1>2, <1>3 DEF CountIn
  <2> QED
    BY <1>1, <1>3, <2>1, <2>2 DEF EntryPhases, Statuses
<1>4. ASSUME phase[t] = "spawning", InsertCore(lane[t], t)
      PROVE  /\ EntryPhases(t)'
             /\ \A u \in Tasks : u # t => entry'[u] = entry[u] /\ shardOf'[u] = shardOf[u]
  <2>1. entry' = [entry EXCEPT ![t] = "listed"] /\ shardOf' = shardOf /\ shardOf[t] = lane[t]
    BY <1>4 DEF InsertCore
  <2> QED
    BY <1>1, <1>2, <1>4, <2>1 DEF EntryPhases
<1>5. ASSUME phase[t] = "notified", MarkFinished(t) \/ CountOut(t)
      PROVE  /\ EntryPhases(t)'
             /\ \A u \in Tasks : u # t => entry'[u] = entry[u] /\ shardOf'[u] = shardOf[u]
  <2>1. \E x \in {"finished", "left"} : entry' = [entry EXCEPT ![t] = x]
    BY <1>5 DEF MarkFinished, CountOut
  <2>2. shardOf' = shardOf /\ entry[t] # "out"
    BY <1>5 DEF MarkFinished, CountOut
  <2> QED
    BY <1>1, <1>2, <1>5, <2>1, <2>2 DEF EntryPhases, Statuses
<1>6. /\ EntryPhases(t)'
      /\ \A u \in Tasks : u # t => entry'[u] = entry[u] /\ shardOf'[u] = shardOf[u]
  BY <1>3, <1>4, <1>5 DEF SpawnInsert, Deregister
<1> QED
  BY <1>1, <1>6, EntryMoves

(***************************************************************************)
(* Where a task is while spawn_task works on it: in its dispatcher's hand  *)
(* or with its submit call.                                                *)
(***************************************************************************)
LEMMA SpawningPlaced ==
  ASSUME Placement, NEW t \in Tasks, phase[t] = "spawning"
  PROVE  /\ result[t] = "pending" /\ lane[t] \in Lanes
         /\ \A l \in Lanes : ~InLane(l, t) /\ (dtask[l] = t => l = lane[t])
         /\ \/ send[t] = "dispatching" /\ ~InHand(t)
            \/ send[t] = "ok" /\ InHand(t) /\ disp[lane[t]] = "spawning"
<1>1. TaskPlaced(t) /\ lane[t] \in Lanes
  BY DEF Placement, TasksPlaced, GateTypes
<1>2. /\ ~InLane(lane[t], t)
      /\ \/ send[t] = "dispatching" /\ ~InHand(t)
         \/ send[t] = "ok" /\ InHand(t) /\ disp[lane[t]] = "spawning"
  BY <1>1 DEF TaskPlaced
<1>3. result[t] = "pending"
  BY <1>1, <1>2 DEF TaskPlaced
<1>4. \A l \in Lanes : (InLane(l, t) => lane[t] = l) /\ (dtask[l] = t => lane[t] = l)
  BY DEF Placement, LanesHold, DispatchersHold
<1> QED
  BY <1>1, <1>2, <1>3, <1>4

(***************************************************************************)
(* The task is spawned and leaves its dispatcher or its submit call.       *)
(***************************************************************************)
LEMMA SpawnPlacement ==
  ASSUME Placement, NEW t \in Tasks, Spawn(t)
  PROVE  Placement'
<1> USE DEF taskFrame, gateVars, routeVars, registryVars, dispVars
<1>0. GateTypes /\ PlaceTypes /\ NoTask \notin Tasks
  BY TasksAssumption DEF Placement
<1>1. /\ phase[t] = "spawning" /\ entry[t] = "listed"
      /\ phase' = [phase EXCEPT ![t] = "running"]
      /\ UNCHANGED <<permits, waiters, lane, nextLane, lanes, cPermits, cWaiters, result, entry,
                     shardOf>>
  BY DEF Spawn, Become
<1>2. /\ result[t] = "pending" /\ lane[t] \in Lanes
      /\ \A l \in Lanes : ~InLane(l, t) /\ (dtask[l] = t => l = lane[t])
      /\ \/ send[t] = "dispatching" /\ ~InHand(t)
         \/ send[t] = "ok" /\ InHand(t) /\ disp[lane[t]] = "spawning"
  BY <1>1, SpawningPlaced
<1>3. phase'[t] = "running" /\ \A u \in Tasks : u # t => phase'[u] = phase[u]
  BY <1>0, <1>1 DEF PlaceTypes
<1>4. /\ send' \in [Tasks -> {"idle", "ok"} \cup SubmitPoints \cup Refusals]
      /\ send'[t] = "ok" /\ \A u \in Tasks : u # t => send'[u] = send[u]
      /\ send[t] \notin {"holding", "QueueSendChannelClosed"}
  BY <1>0, <1>2 DEF Spawn, SendTo, PlaceTypes
<1>5. /\ disp' \in [Lanes -> DispatcherPoints] /\ dtask' \in [Lanes -> Tasks \cup {NoTask}]
      /\ \A l \in Lanes : \/ disp'[l] = disp[l] /\ dtask'[l] = dtask[l] /\ dtask[l] # t
                          \/ /\ disp[l] = "spawning" /\ disp'[l] = "top"
                             /\ dtask[l] = t /\ dtask'[l] = NoTask
  <2>1. CASE send[t] = "dispatching"
    <3>1. UNCHANGED <<disp, dtask>>
      BY <2>1 DEF Spawn
    <3> QED
      BY <1>0, <1>2, <2>1, <3>1 DEF PlaceTypes, InHand
  <2>2. CASE send[t] # "dispatching"
    <3>1. /\ disp' = [disp EXCEPT ![lane[t]] = "top"]
          /\ dtask' = [dtask EXCEPT ![lane[t]] = NoTask]
      BY <2>2 DEF Spawn, Step
    <3> QED
      BY <1>0, <1>2, <2>2, <3>1 DEF PlaceTypes, InHand, DispatcherPoints
  <2> QED
    BY <2>1, <2>2
<1>6. GateTypes' /\ PlaceTypes'
  <2>1. GateTypes'
    BY <1>0, <1>1 DEF GateTypes
  <2>2. PlaceTypes'
    BY <1>0, <1>1, <1>4, <1>5 DEF PlaceTypes, Phases, Statuses
  <2> QED
    BY <2>1, <2>2
<1>7. LanesHold'
  <2>1. \A l \in Lanes : disp'[l] = "exited" => disp[l] = "exited"
    BY <1>5
  <2> QED
    BY <1>1, <2>1 DEF Placement, LanesHold, InLane
<1>8. DispatchersHold'
  <2>1. \A l \in Lanes : (disp[l] \in InHandPoints <=> dtask[l] \in Tasks)
                         /\ \A u \in Tasks : dtask[l] = u => lane[u] = l
    BY DEF Placement, DispatchersHold
  <2> QED
    BY <1>0, <1>1, <1>5, <2>1 DEF DispatchersHold, InHandPoints
<1>9. ASSUME NEW u \in Tasks, u # t PROVE TaskPlaced(u)' /\ EntryPhases(u)'
  <2>1. lane[u] \in Lanes /\ lane'[u] = lane[u]
    BY <1>0, <1>1 DEF GateTypes
  <2>2. InLane(lane[u], u)' <=> InLane(lane[u], u)
    BY <1>1 DEF InLane
  <2>3. /\ InHand(u)' <=> InHand(u)
        /\ InHand(u) => disp'[lane[u]] = disp[lane[u]]
    BY <1>0, <1>5, <1>9, <2>1 DEF InHand
  <2>4. TaskPlaced(u) /\ EntryPhases(u)
    BY DEF Placement, TasksPlaced, EntriesFollow
  <2> QED
    BY <1>1, <1>3, <1>4, <1>9, <2>2, <2>3, <2>4, OtherTask
<1>10. TaskPlaced(t)' /\ EntryPhases(t)'
  <2>1. ~InLane(lane[t], t)' /\ ~InHand(t)'
    BY <1>0, <1>1, <1>2, <1>5 DEF InLane, InHand
  <2>2. TaskPlaced(t)'
    BY <1>1, <1>2, <1>3, <1>4, <2>1 DEF TaskPlaced
  <2>3. EntryPhases(t)'
    BY <1>1, <1>3 DEF Placement, EntriesFollow, EntryPhases
  <2> QED
    BY <2>2, <2>3
<1>11. RunPermitConservation'
  <2>1. PermitTasks' = PermitTasks
    BY <1>1, <1>3 DEF PermitTasks
  <2>2. Deciding' = Deciding
    BY <1>5 DEF Deciding
  <2> QED
    BY <1>1, <2>1, <2>2, RunAccountStays DEF Placement
<1>12. LanePermitAccounting'
  <2>1. Sending' = Sending /\ FailedSends' = FailedSends
    BY <1>4 DEF Sending, FailedSends
  <2>2. Received' = Received /\ Queued' = Queued
    BY <1>1, <1>5 DEF Received, Queued
  <2> QED
    BY <1>1, <2>1, <2>2, LaneAccountStays DEF Placement
<1> QED
  BY <1>6, <1>7, <1>8, <1>9, <1>10, <1>11, <1>12 DEF Placement, TasksPlaced, EntriesFollow

(***************************************************************************)
(* A spawned task goes through its outcome, its notification and its end;  *)
(* it holds its permit until the last.                                     *)
(***************************************************************************)
LEMMA ExecutionPlacement ==
  ASSUME Placement, NEW t \in Tasks,
         \/ CancelArm(t) \/ SendResult(t) \/ NotifyCompletion(t) \/ ReleasePermit(t)
         \/ \E outcome \in FutureOutcomes : FutureReady(t, outcome)
  PROVE  Placement'
<1> USE DEF taskFrame, gateVars, routeVars, registryVars, dispVars
<1>0. GateTypes /\ PlaceTypes /\ TaskPlaced(t) /\ EntryPhases(t)
  BY DEF Placement, TasksPlaced, EntriesFollow
<1>1. UNCHANGED <<permits, waiters, send, lane, nextLane, lanes, cWaiters, disp, dtask, entry,
                  shardOf>>
  BY DEF CancelArm, NotifyCompletion, ReleasePermit, FutureReady, Decide, SendResult
<1> DEFINE Goes(p) ==
      /\ phase' = [phase EXCEPT ![t] = p]
      /\ p \in Statuses => phase[t] = "running" /\ cPermits' = cPermits /\ result' = result
      /\ p = "resulted" => /\ phase[t] \in Statuses /\ cPermits' = cPermits
                           /\ result' = [result EXCEPT ![t] = phase[t]]
      /\ p = "notified" => phase[t] = "resulted" /\ cPermits' = cPermits /\ result' = result
      /\ p = "done" => /\ phase[t] = "notified" /\ entry[t] = "left" /\ result' = result
                       /\ cPermits' = cPermits + 1
<1>2. \E p \in {"resulted", "notified", "done"} \cup Statuses : Goes(p)
  <2>1. CASE CancelArm(t)
    <3>1. Goes("Cancelled")
      BY <2>1 DEF CancelArm, Decide, Become, Statuses
    <3> QED
      BY <3>1 DEF Statuses
  <2>2. ASSUME NEW outcome \in FutureOutcomes, FutureReady(t, outcome)
        PROVE  \E p \in Statuses : Goes(p)
    <3>1. PICK o \in Statuses : Decide(t, o)
      BY <2>2, RlxdAssumption DEF FutureReady, Statuses
    <3>2. Goes(o)
      BY <3>1 DEF Decide, Become, Statuses
    <3> QED
      BY <3>2
  <2>3. CASE SendResult(t)
    <3>1. Goes("resulted")
      BY <2>3 DEF SendResult, Become, Statuses
    <3> QED
      BY <3>1
  <2>4. CASE NotifyCompletion(t)
    <3>1. Goes("notified")
      BY <2>4 DEF NotifyCompletion, Become, Statuses
    <3> QED
      BY <3>1
  <2>5. CASE ReleasePermit(t)
    <3>1. Goes("done")
      BY <2>5 DEF ReleasePermit, Become, Statuses
    <3> QED
      BY <3>1
  <2> QED
    BY <2>1, <2>2, <2>3, <2>4, <2>5
<1> HIDE DEF Goes
<1>a. PICK p \in {"resulted", "notified", "done"} \cup Statuses : Goes(p)
  BY <1>2
<1>3. /\ result' \in [Tasks -> {"pending", "Closed"} \cup Statuses]
      /\ p \in {"resulted", "notified", "done"} => result'[t] \in Statuses
      /\ p \in Statuses => result'[t] = "pending"
      /\ \A u \in Tasks : u # t => result'[u] = result[u]
  BY <1>0, <1>a DEF Goes, PlaceTypes, TaskPlaced, Statuses
<1>4. /\ phase'[t] = p
      /\ phase[t] \in {"running", "resulted", "notified"} \cup Statuses
      /\ \A u \in Tasks : u # t => phase'[u] = phase[u]
  BY <1>0, <1>a DEF Goes, PlaceTypes, Statuses
<1>5. GateTypes' /\ PlaceTypes'
  <2>1. cPermits' \in Nat
    BY <1>0, <1>a DEF Goes, GateTypes, Statuses
  <2>2. GateTypes'
    BY <1>0, <1>1, <2>1 DEF GateTypes
  <2>3. PlaceTypes'
    BY <1>0, <1>1, <1>a, <1>3 DEF Goes, PlaceTypes, Phases
  <2> QED
    BY <2>2, <2>3
<1>6. LanesHold' /\ DispatchersHold'
  BY <1>1 DEF Placement, LanesHold, DispatchersHold, InLane
<1>7. ASSUME NEW u \in Tasks, u # t PROVE TaskPlaced(u)' /\ EntryPhases(u)'
  <2>1. InLane(lane[u], u)' <=> InLane(lane[u], u)
    BY <1>1 DEF InLane
  <2>2. InHand(u)' <=> InHand(u)
    BY <1>1 DEF InHand
  <2>3. TaskPlaced(u) /\ EntryPhases(u)
    BY DEF Placement, TasksPlaced, EntriesFollow
  <2> QED
    BY <1>1, <1>3, <1>4, <1>7, <2>1, <2>2, <2>3, OtherTask
<1>8. TaskPlaced(t)'
  <2>1. ~InLane(lane[t], t) /\ ~InHand(t) /\ send[t] = "ok"
    BY <1>0, <1>4 DEF TaskPlaced, Statuses
  <2>2. ~InLane(lane[t], t)' /\ ~InHand(t)' /\ send'[t] = "ok"
    BY <1>1, <2>1 DEF InLane, InHand
  <2> QED
    BY <1>3, <1>4, <2>2 DEF TaskPlaced, Statuses
<1>9. EntryPhases(t)'
  BY <1>0, <1>1, <1>a, <1>4 DEF Goes, EntryPhases, Statuses
<1>10. RunPermitConservation'
  <2>1. CASE phase'[t] # "done"
    <3>1. PermitTasks' = PermitTasks /\ Deciding' = Deciding
      BY <1>1, <1>4, <2>1 DEF PermitTasks, Deciding, Statuses
    <3>2. cPermits' = cPermits
      BY <1>4, <1>a, <2>1 DEF Goes, Statuses
    <3> QED
      BY <3>1, <3>2, RunAccountStays DEF Placement
  <2>2. CASE phase'[t] = "done"
    <3>1. PermitTasks' = PermitTasks \ {t} /\ t \in PermitTasks /\ Deciding' = Deciding
      BY <1>1, <1>4, <2>2 DEF PermitTasks, Deciding, Statuses
    <3>2. cPermits' = cPermits + 1 /\ cPermits \in Nat
      BY <1>0, <1>4, <1>a, <2>2 DEF Goes, GateTypes
    <3>3. PermitTasks \in SUBSET Tasks /\ Deciding \in SUBSET Lanes
      BY DEF PermitTasks, Deciding
    <3>4. Cardinality(PermitTasks') = Cardinality(PermitTasks) - 1
      BY <3>1, <3>3, FiniteTaskSets, FS_RemoveElement
    <3>5. Cardinality(PermitTasks) \in Nat /\ Cardinality(Deciding) \in Nat
      BY <3>3, FiniteTaskSets, LanesFinite
    <3>6. cPermits + Cardinality(PermitTasks) + Cardinality(Deciding) = ConcurrencyPermits
      BY DEF Placement, RunPermitConservation, PermitTasks, Deciding
    <3>7. cPermits' + Cardinality(PermitTasks') + Cardinality(Deciding') = ConcurrencyPermits
      BY <3>1, <3>2, <3>4, <3>5, <3>6
    <3> QED
      BY <3>7 DEF RunPermitConservation, PermitTasks, Deciding
  <2> QED
    BY <2>1, <2>2
<1>11. LanePermitAccounting'
  BY <1>1, LaneAccountStays DEF Placement, Sending, Queued, Received, FailedSends
<1> QED
  BY <1>5, <1>6, <1>7, <1>8, <1>9, <1>10, <1>11 DEF Placement, TasksPlaced, EntriesFollow

(***************************************************************************)
(* Every step of a task keeps the placement.                               *)
(***************************************************************************)
LEMMA TaskSidePlacement == Placement /\ RegistryTypeOK /\ TaskSide => Placement'
  BY RegistryPlacement, SpawnPlacement, ExecutionPlacement DEF TaskSide, TaskStep

-----------------------------------------------------------------------------
(***************************************************************************)
(* What a dispatcher holds in its hand between recv and the end of its     *)
(* loop body: a task of its own lane that is nowhere else.                 *)
(***************************************************************************)
LEMMA HandPlaced ==
  ASSUME Placement, NEW l \in Lanes, disp[l] \in InHandPoints
  PROVE  \E t \in Tasks :
           /\ dtask[l] = t /\ lane[t] = l /\ InHand(t) /\ send[t] = "ok"
           /\ phase[t] = IF disp[l] = "spawning" THEN "spawning" ELSE "none"
           /\ result[t] = IF disp[l] = "prenotify" THEN "Cancelled" ELSE "pending"
           /\ EntryPhases(t)
           /\ \A k \in Lanes : ~InLane(k, t) /\ (dtask[k] = t => k = l)
<1>1. PICK t \in Tasks : dtask[l] = t /\ lane[t] = l
  BY DEF Placement, DispatchersHold
<1>2. TaskPlaced(t) /\ InHand(t) /\ EntryPhases(t)
  BY <1>1 DEF Placement, TasksPlaced, EntriesFollow, InHand
<1>3. \A k \in Lanes : (InLane(k, t) => lane[t] = k) /\ (dtask[k] = t => lane[t] = k)
  BY DEF Placement, LanesHold, DispatchersHold
<1>4. ~InLane(lane[t], t)
  BY <1>2 DEF TaskPlaced
<1>5. /\ send[t] = "ok"
      /\ phase[t] = IF disp[l] = "spawning" THEN "spawning" ELSE "none"
      /\ result[t] = IF disp[l] = "prenotify" THEN "Cancelled" ELSE "pending"
  BY <1>1, <1>2 DEF TaskPlaced
<1> QED
  BY <1>1, <1>2, <1>3, <1>4, <1>5

(***************************************************************************)
(* A dispatcher that goes on with the task in its hand, or is done with    *)
(* it, disturbs no other task.                                             *)
(***************************************************************************)
LEMMA HandMoves ==
  ASSUME Placement, NEW l \in Lanes, NEW t \in Tasks, dtask[l] = t,
         NEW p \in DispatcherPoints \ {"exited"}, disp' = [disp EXCEPT ![l] = p],
         \/ p \in InHandPoints /\ dtask' = dtask
         \/ p \notin InHandPoints /\ dtask' = [dtask EXCEPT ![l] = NoTask],
         \A u \in Tasks : u # t => phase'[u] = phase[u] /\ result'[u] = result[u],
         UNCHANGED <<send, lane, lanes, entry, shardOf>>,
         TaskPlaced(t)', EntryPhases(t)'
  PROVE  LanesHold' /\ DispatchersHold' /\ TasksPlaced' /\ EntriesFollow'
<1>0. GateTypes /\ PlaceTypes /\ NoTask \notin Tasks
  BY TasksAssumption DEF Placement
<1>1. /\ disp'[l] = p /\ dtask'[l] = (IF p \in InHandPoints THEN t ELSE NoTask)
      /\ \A k \in Lanes : k # l => disp'[k] = disp[k] /\ dtask'[k] = dtask[k]
  BY <1>0 DEF PlaceTypes
<1>2. \A k \in Lanes, u \in Tasks : InLane(k, u)' <=> InLane(k, u)
  BY DEF InLane
<1>3. LanesHold'
  <2>1. \A k \in Lanes : disp'[k] = "exited" => disp[k] = "exited"
    BY <1>1
  <2> QED
    BY <1>2, <2>1 DEF Placement, LanesHold
<1>4. DispatchersHold'
  BY <1>0, <1>1 DEF Placement, DispatchersHold
<1>5. ASSUME NEW u \in Tasks, u # t PROVE TaskPlaced(u)' /\ EntryPhases(u)'
  <2>1. lane[u] \in Lanes /\ lane'[u] = lane[u]
    BY <1>0 DEF GateTypes
  <2>2. InLane(lane[u], u)' <=> InLane(lane[u], u)
    BY DEF InLane
  <2>3. /\ InHand(u)' <=> InHand(u)
        /\ InHand(u) => disp'[lane[u]] = disp[lane[u]]
    BY <1>0, <1>1, <1>5, <2>1 DEF InHand
  <2>4. TaskPlaced(u) /\ EntryPhases(u)
    BY DEF Placement, TasksPlaced, EntriesFollow
  <2> QED
    BY <1>5, <2>1, <2>2, <2>3, <2>4, OtherTask
<1> QED
  BY <1>3, <1>4, <1>5 DEF TasksPlaced, EntriesFollow

(***************************************************************************)
(* The top of the loop and the ways to leave it without a task.            *)
(***************************************************************************)
LEMMA DispatchIdlePlacement ==
  ASSUME Placement, NEW l \in Lanes, DispatchTop(l) \/ DispatchStop(l)
  PROVE  Placement'
<1> USE DEF dispatchFrame, routeVars, registryVars, runGateVars
<1>0. GateTypes /\ PlaceTypes /\ NoTask \notin Tasks
  BY TasksAssumption DEF Placement
<1>1. /\ disp[l] \in {"top", "recv"}
      /\ \E p \in {"recv", "exiting"} : disp' = [disp EXCEPT ![l] = p]
      /\ UNCHANGED <<permits, waiters, send, lane, nextLane, lanes, cPermits, cWaiters, dtask,
                     phase, result, entry, shardOf>>
  BY DEF DispatchTop, DispatchStop, Step
<1>2. disp'[l] \in {"recv", "exiting"} /\ \A k \in Lanes : k # l => disp'[k] = disp[k]
  BY <1>0, <1>1 DEF PlaceTypes
<1>3. dtask[l] \notin Tasks
  BY <1>1 DEF Placement, DispatchersHold, InHandPoints
<1>4. GateTypes' /\ PlaceTypes'
  BY <1>0, <1>1 DEF GateTypes, PlaceTypes, DispatcherPoints
<1>5. LanesHold'
  <2>1. \A k \in Lanes : disp'[k] = "exited" => disp[k] = "exited"
    BY <1>2
  <2> QED
    BY <1>1, <2>1 DEF Placement, LanesHold, InLane
<1>6. DispatchersHold'
  BY <1>1, <1>2, <1>3 DEF Placement, DispatchersHold, InHandPoints
<1>7. ASSUME NEW u \in Tasks PROVE TaskPlaced(u)' /\ EntryPhases(u)'
  <2>1. lane[u] \in Lanes
    BY <1>0 DEF GateTypes
  <2>2. InLane(lane[u], u)' <=> InLane(lane[u], u)
    BY <1>1 DEF InLane
  <2>3. /\ InHand(u)' <=> InHand(u)
        /\ InHand(u) => disp'[lane[u]] = disp[lane[u]]
    BY <1>1, <1>2, <1>3, <2>1 DEF InHand
  <2>4. TaskPlaced(u) /\ EntryPhases(u)
    BY DEF Placement, TasksPlaced, EntriesFollow
  <2> QED
    BY <1>1, <2>2, <2>3, <2>4, OtherTask
<1>8. RunPermitConservation'
  <2>1. Deciding' = Deciding
    BY <1>1, <1>2 DEF Deciding
  <2> QED
    BY <1>1, <2>1, RunAccountStays DEF Placement, PermitTasks
<1>9. LanePermitAccounting'
  <2>1. Received' = Received
    BY <1>1, <1>2 DEF Received
  <2> QED
    BY <1>1, <2>1, LaneAccountStays DEF Placement, Sending, Queued, FailedSends
<1> QED
  BY <1>4, <1>5, <1>6, <1>7, <1>8, <1>9 DEF Placement, TasksPlaced, EntriesFollow

(***************************************************************************)
(* What a lane's channel holds after recv: the oldest task has left it.    *)
(***************************************************************************)
LEMMA LaneAfterRecv ==
  ASSUME lanes \in [Lanes -> Seq(Tasks)], NEW l \in Lanes, lanes[l] # <<>>,
         lanes' = [lanes EXCEPT ![l] = Tail(@)],
         \A k \in Lanes : \A i, j \in DOMAIN lanes[k] : lanes[k][i] = lanes[k][j] => i = j
  PROVE  /\ lanes' \in [Lanes -> Seq(Tasks)]
         /\ Head(lanes[l]) \in Tasks /\ InLane(l, Head(lanes[l]))
         /\ \A k \in Lanes, u \in Tasks :
              InLane(k, u)' <=> InLane(k, u) /\ ~(k = l /\ u = Head(lanes[l]))
         /\ \A k \in Lanes : \A i, j \in DOMAIN lanes'[k] : lanes'[k][i] = lanes'[k][j] => i = j
<1> DEFINE q == lanes[l]
           r == lanes'[l]
<1>1. q \in Seq(Tasks) /\ r = Tail(q) /\ \A k \in Lanes : k # l => lanes'[k] = lanes[k]
  OBVIOUS
<1>2. /\ Len(q) \in Nat /\ Len(q) > 0 /\ DOMAIN q = 1..Len(q)
      /\ DOMAIN r = 1..(Len(q) - 1) /\ r \in Seq(Tasks)
      /\ \A i \in 1..(Len(q) - 1) : r[i] = q[i + 1]
      /\ Head(q) = q[1] /\ Head(q) \in Tasks
  BY <1>1
<1>3. \A i \in DOMAIN r : i + 1 \in DOMAIN q /\ i + 1 # 1 /\ i \in Int
  BY <1>2
<1>4. \A i \in DOMAIN q : i = 1 \/ (i - 1 \in DOMAIN r /\ r[i - 1] = q[i])
  BY <1>2
<1>5. \A i, j \in DOMAIN q : q[i] = q[j] => i = j
  OBVIOUS
<1>6. 1 \in DOMAIN q /\ lanes' \in [Lanes -> Seq(Tasks)]
  BY <1>1, <1>2
<1> HIDE DEF q, r
<1>7. \A i, j \in DOMAIN r : r[i] = r[j] => i = j
  <2> SUFFICES ASSUME NEW i \in DOMAIN r, NEW j \in DOMAIN r, r[i] = r[j]
               PROVE  i = j
    OBVIOUS
  <2>1. i + 1 = j + 1
    BY <1>2, <1>3, <1>5
  <2> QED
    BY <1>3, <2>1
<1>8. ASSUME NEW u \in Tasks
      PROVE  (\E i \in DOMAIN r : r[i] = u) <=> ((\E i \in DOMAIN q : q[i] = u) /\ u # Head(q))
  <2>1. ASSUME NEW i \in DOMAIN r, r[i] = u
        PROVE  (\E j \in DOMAIN q : q[j] = u) /\ u # Head(q)
    <3>1. i + 1 \in DOMAIN q /\ q[i + 1] = u /\ i + 1 # 1
      BY <1>2, <1>3, <2>1
    <3> QED
      BY <1>2, <1>5, <1>6, <3>1
  <2>2. ASSUME NEW i \in DOMAIN q, q[i] = u, u # Head(q)
        PROVE  \E j \in DOMAIN r : r[j] = u
    BY <1>2, <1>4, <2>2
  <2> QED
    BY <2>1, <2>2
<1>9. \A u \in Tasks : InLane(l, u)' <=> InLane(l, u) /\ u # Head(q)
  BY <1>8 DEF InLane, q, r
<1>10. \A k \in Lanes : k # l => \A u \in Tasks : InLane(k, u)' <=> InLane(k, u)
  BY <1>1 DEF InLane
<1>11. InLane(l, Head(q)) /\ Head(q) \in Tasks
  BY <1>2, <1>6 DEF InLane, q
<1>12. \A k \in Lanes : \A i, j \in DOMAIN lanes'[k] : lanes'[k][i] = lanes'[k][j] => i = j
  BY <1>1, <1>7 DEF r
<1> QED
  BY <1>6, <1>9, <1>10, <1>11, <1>12 DEF q

(***************************************************************************)
(* A dispatcher takes the oldest task of its lane into its hand.           *)
(***************************************************************************)
LEMMA DispatchRecvPlacement ==
  ASSUME Placement, NEW l \in Lanes, DispatchRecv(l)
  PROVE  Placement'
<1> USE DEF dispatchFrame, routeVars, registryVars, runGateVars
<1>0. GateTypes /\ PlaceTypes /\ LanesHold /\ NoTask \notin Tasks
  BY TasksAssumption DEF Placement
<1>1. /\ disp[l] = "recv" /\ disp' = [disp EXCEPT ![l] = "got"] /\ lanes[l] # <<>>
      /\ dtask' = [dtask EXCEPT ![l] = Head(lanes[l])]
      /\ lanes' = [lanes EXCEPT ![l] = Tail(@)]
      /\ UNCHANGED <<permits, waiters, send, lane, nextLane, cPermits, cWaiters,
                     phase, result, entry, shardOf>>
  BY DEF DispatchRecv, Step
<1>2. /\ lanes' \in [Lanes -> Seq(Tasks)]
      /\ Head(lanes[l]) \in Tasks /\ InLane(l, Head(lanes[l]))
      /\ \A k \in Lanes, u \in Tasks :
           InLane(k, u)' <=> InLane(k, u) /\ ~(k = l /\ u = Head(lanes[l]))
      /\ \A k \in Lanes : \A i, j \in DOMAIN lanes'[k] : lanes'[k][i] = lanes'[k][j] => i = j
  BY <1>0, <1>1, LaneAfterRecv DEF GateTypes, LanesHold
<1>3. PICK t \in Tasks : t = Head(lanes[l])
  BY <1>2
<1>4. /\ lane[t] = l /\ send[t] = "ok" /\ phase[t] = "none" /\ result[t] = "pending"
      /\ EntryPhases(t)
  BY <1>0, <1>2, <1>3 DEF Placement, LanesHold, TasksPlaced, TaskPlaced, EntriesFollow
<1>5. /\ disp'[l] = "got" /\ dtask'[l] = t
      /\ \A k \in Lanes : k # l => disp'[k] = disp[k] /\ dtask'[k] = dtask[k]
  BY <1>0, <1>1, <1>3 DEF PlaceTypes
<1>6. dtask[l] \notin Tasks
  BY <1>1 DEF Placement, DispatchersHold, InHandPoints
<1>7. GateTypes' /\ PlaceTypes'
  <2>1. GateTypes'
    BY <1>0, <1>1, <1>2 DEF GateTypes
  <2>2. PlaceTypes'
    BY <1>0, <1>1, <1>2 DEF PlaceTypes, DispatcherPoints
  <2> QED
    BY <2>1, <2>2
<1>8. LanesHold'
  <2>1. \A k \in Lanes : disp'[k] = "exited" => k # l /\ disp[k] = "exited"
    BY <1>5
  <2>2. \A k \in Lanes : k # l => lanes'[k] = lanes[k]
    BY <1>0, <1>1 DEF GateTypes
  <2> QED
    BY <1>0, <1>1, <1>2, <2>1, <2>2 DEF LanesHold
<1>9. DispatchersHold'
  BY <1>1, <1>4, <1>5 DEF Placement, DispatchersHold, InHandPoints
<1>10. ASSUME NEW u \in Tasks, u # t PROVE TaskPlaced(u)' /\ EntryPhases(u)'
  <2>1. lane[u] \in Lanes /\ lane'[u] = lane[u]
    BY <1>0, <1>1 DEF GateTypes
  <2>2. InLane(lane[u], u)' <=> InLane(lane[u], u)
    BY <1>2, <1>3, <1>10, <2>1 DEF InLane
  <2>3. /\ InHand(u)' <=> InHand(u)
        /\ InHand(u) => disp'[lane[u]] = disp[lane[u]]
    BY <1>1, <1>5, <1>6, <1>10, <2>1 DEF InHand
  <2>4. TaskPlaced(u) /\ EntryPhases(u)
    BY DEF Placement, TasksPlaced, EntriesFollow
  <2> QED
    BY <1>1, <1>10, <2>1, <2>2, <2>3, <2>4, OtherTask
<1>11. TaskPlaced(t)' /\ EntryPhases(t)'
  <2>1. ~InLane(lane[t], t)' /\ InHand(t)'
    BY <1>1, <1>2, <1>3, <1>4, <1>5 DEF InLane, InHand
  <2> QED
    BY <1>1, <1>4, <1>5, <2>1 DEF TaskPlaced, EntryPhases
<1>12. RunPermitConservation'
  <2>1. Deciding' = Deciding
    BY <1>1, <1>5 DEF Deciding
  <2> QED
    BY <1>1, <2>1, RunAccountStays DEF Placement, PermitTasks
<1>13. LanePermitAccounting'
  <2>1. Received' = Received \cup {l} /\ l \notin Received
    BY <1>1, <1>5 DEF Received
  <2>2. Queued' = Queued \ {t} /\ t \in Queued
    <3>1. \A u \in Tasks : u \in Queued <=> \E k \in Lanes : InLane(k, u)
      BY DEF Queued, InLane
    <3>2. \A u \in Tasks : u \in Queued' <=> \E k \in Lanes : InLane(k, u)'
      BY DEF Queued, InLane
    <3>3. Queued \in SUBSET Tasks /\ Queued' \in SUBSET Tasks
      BY DEF Queued
    <3>4. \A k \in Lanes : InLane(k, t) => k = l
      BY <1>0, <1>4 DEF LanesHold
    <3> QED
      BY <1>2, <1>3, <3>1, <3>2, <3>3, <3>4
  <2>3. FailedSends' = FailedSends /\ Sending' = Sending
    BY <1>1 DEF FailedSends, Sending
  <2>4. Cardinality(Received') = Cardinality(Received) + 1
    BY <2>1, LaneAccountFinite, FS_AddElement
  <2>5. Cardinality(Queued') = Cardinality(Queued) - 1
    BY <2>2, LaneAccountFinite, FS_RemoveElement
  <2>6. permits + Cardinality(Sending) + Cardinality(Queued) + Cardinality(Received)
          = QueuePermits + Cardinality(FailedSends)
    BY DEF Placement, LanePermitAccounting, Sending, Received, FailedSends
  <2>7. permits' + Cardinality(Sending') + Cardinality(Queued') + Cardinality(Received')
          = QueuePermits + Cardinality(FailedSends')
    BY <1>0, <1>1, <2>3, <2>4, <2>5, <2>6, LaneAccountFinite DEF GateTypes
  <2> QED
    BY <2>7 DEF LanePermitAccounting, Sending, Received, FailedSends
<1> QED
  BY <1>7, <1>8, <1>9, <1>10, <1>11, <1>12, <1>13 DEF Placement, TasksPlaced, EntriesFollow

-----------------------------------------------------------------------------
(***************************************************************************)
(* One turn of the loop body with a task in hand.  The loop keeps the      *)
(* task, hands it to spawn_task, or is done with it, having set its result *)
(* or closed its channel; the queue permit goes back when the message is   *)
(* taken apart, and a concurrency permit is taken, returned or handed on.  *)
(***************************************************************************)
HandStep(l, p) ==
  /\ disp[l] \in InHandPoints \ {"spawning"}
  /\ disp' = [disp EXCEPT ![l] = p]
  /\ disp[l] = "recheck" => p \in {"spawning", "exiting"}
  /\ disp[l] = "prenotify" <=> p = "top"
  /\ p \in InHandPoints \cup {"top", "exiting"}
  /\ p \in InHandPoints => dtask' = dtask
  /\ p \notin InHandPoints => dtask' = [dtask EXCEPT ![l] = NoTask]
  /\ phase' = IF p = "spawning" THEN [phase EXCEPT ![dtask[l]] = "spawning"] ELSE phase
  /\ result' = IF p = "exiting" THEN [result EXCEPT ![dtask[l]] = "Closed"]
               ELSE IF p = "prenotify" THEN [result EXCEPT ![dtask[l]] = "Cancelled"]
               ELSE result
  /\ permits' = IF disp[l] = "got" THEN permits + 1 ELSE permits
  /\ cPermits' \in Nat
  /\ cPermits' + (IF p \in {"recheck", "spawning"} THEN 1 ELSE 0)
       = cPermits + (IF disp[l] = "recheck" THEN 1 ELSE 0)
  /\ cWaiters' \in Seq(Lanes)
  /\ UNCHANGED <<waiters, send, lane, nextLane, lanes, entry, shardOf>>

(***************************************************************************)
(* It leaves every task in its place and both accounts balanced.           *)
(***************************************************************************)
LEMMA HandStepPlacement ==
  ASSUME Placement, NEW l \in Lanes, NEW p \in DispatcherPoints \ {"got", "exited"},
         HandStep(l, p)
  PROVE  Placement'
<1> USE DEF HandStep
<1>0. GateTypes /\ PlaceTypes
  BY DEF Placement
<1>1. PICK t \in Tasks :
        /\ dtask[l] = t /\ lane[t] = l /\ InHand(t) /\ send[t] = "ok"
        /\ phase[t] = IF disp[l] = "spawning" THEN "spawning" ELSE "none"
        /\ result[t] = IF disp[l] = "prenotify" THEN "Cancelled" ELSE "pending"
        /\ EntryPhases(t)
        /\ \A k \in Lanes : ~InLane(k, t) /\ (dtask[k] = t => k = l)
  BY HandPlaced
<1>2. /\ disp'[l] = p /\ \A k \in Lanes : k # l => disp'[k] = disp[k]
      /\ dtask'[l] = IF p \in InHandPoints THEN t ELSE NoTask
  BY <1>0, <1>1 DEF PlaceTypes
<1>3. /\ phase'[t] = IF p = "spawning" THEN "spawning" ELSE "none"
      /\ \A u \in Tasks : u # t => phase'[u] = phase[u]
  BY <1>0, <1>1 DEF PlaceTypes
<1>4. /\ result'[t] = IF p = "exiting" THEN "Closed"
                      ELSE IF p \in {"prenotify", "top"} THEN "Cancelled" ELSE "pending"
      /\ \A u \in Tasks : u # t => result'[u] = result[u]
  BY <1>0, <1>1 DEF PlaceTypes
<1>5. GateTypes' /\ PlaceTypes'
  <2>1. GateTypes'
    BY <1>0 DEF GateTypes
  <2>2. /\ send' \in [Tasks -> {"idle", "ok"} \cup SubmitPoints \cup Refusals]
        /\ disp' \in [Lanes -> DispatcherPoints]
        /\ dtask' \in [Lanes -> Tasks \cup {NoTask}]
    BY <1>0 DEF PlaceTypes
  <2>3. /\ phase' \in [Tasks -> Phases]
        /\ result' \in [Tasks -> {"pending", "Closed"} \cup Statuses]
    BY <1>0, <1>1 DEF PlaceTypes, Statuses, Phases
  <2> QED
    BY <2>1, <2>2, <2>3 DEF PlaceTypes
<1>6. TaskPlaced(t)' /\ EntryPhases(t)'
  <2>1. ~InLane(lane[t], t)' /\ lane'[t] = l /\ send'[t] = "ok"
    BY <1>1 DEF InLane
  <2>2. InHand(t)' <=> p \in InHandPoints
    BY <1>1, <1>2, <2>1, TasksAssumption DEF InHand
  <2>3. TaskPlaced(t)'
    BY <1>2, <1>3, <1>4, <2>1, <2>2 DEF TaskPlaced, InHandPoints, Statuses
  <2>4. EntryPhases(t)'
    BY <1>1, <1>3 DEF EntryPhases, Statuses
  <2> QED
    BY <2>3, <2>4
<1>7. LanesHold' /\ DispatchersHold' /\ TasksPlaced' /\ EntriesFollow'
  <2>1. \A u \in Tasks : u # t => phase'[u] = phase[u] /\ result'[u] = result[u]
    BY <1>3, <1>4
  <2>2. p \in DispatcherPoints \ {"exited"}
    OBVIOUS
  <2> QED
    BY <1>1, <1>6, <2>1, <2>2, HandMoves
<1>8. RunPermitConservation'
  <2>1. PermitTasks \in SUBSET Tasks /\ IsFiniteSet(PermitTasks) /\ Cardinality(PermitTasks) \in Nat
    BY FiniteTaskSets DEF PermitTasks
  <2>2. Deciding \in SUBSET Lanes /\ IsFiniteSet(Deciding) /\ Cardinality(Deciding) \in Nat
    BY LanesFinite DEF Deciding
  <2>3. Cardinality(PermitTasks') = Cardinality(PermitTasks) + (IF p = "spawning" THEN 1 ELSE 0)
    <3>1. CASE p = "spawning"
      <4>1. PermitTasks' = PermitTasks \cup {t} /\ t \notin PermitTasks
        BY <1>1, <1>3, <3>1 DEF PermitTasks
      <4> QED
        BY <2>1, <3>1, <4>1, FS_AddElement
    <3>2. CASE p # "spawning"
      <4>1. PermitTasks' = PermitTasks
        BY <1>0, <1>1, <1>3, <3>2 DEF PermitTasks
      <4> QED
        BY <2>1, <3>2, <4>1
    <3> QED
      BY <3>1, <3>2
  <2>4. Cardinality(Deciding') = Cardinality(Deciding) + (IF p = "recheck" THEN 1 ELSE 0)
                                   - (IF disp[l] = "recheck" THEN 1 ELSE 0)
    <3>1. CASE p = "recheck"
      <4>1. Deciding' = Deciding \cup {l} /\ l \notin Deciding /\ disp[l] # "recheck"
        BY <1>2, <3>1 DEF Deciding
      <4>2. Cardinality(Deciding') = Cardinality(Deciding) + 1
        BY <2>2, <4>1, FS_AddElement
      <4> QED
        BY <2>2, <3>1, <4>1, <4>2
    <3>2. CASE disp[l] = "recheck"
      <4>1. Deciding' = Deciding \ {l} /\ l \in Deciding /\ p # "recheck"
        BY <1>2, <3>2 DEF Deciding
      <4>2. Cardinality(Deciding') = Cardinality(Deciding) - 1
        BY <2>2, <4>1, FS_RemoveElement
      <4> QED
        BY <2>2, <3>2, <4>1, <4>2
    <3>3. CASE p # "recheck" /\ disp[l] # "recheck"
      <4>1. Deciding' = Deciding
        BY <1>2, <3>3 DEF Deciding
      <4> QED
        BY <2>2, <3>3, <4>1
    <3> QED
      BY <3>1, <3>2, <3>3
  <2>5. cPermits + Cardinality(PermitTasks) + Cardinality(Deciding) = ConcurrencyPermits
    BY DEF Placement, RunPermitConservation, PermitTasks, Deciding
  <2>6. cPermits \in Nat
    BY <1>0 DEF GateTypes
  <2>7. cPermits' + Cardinality(PermitTasks') + Cardinality(Deciding') = ConcurrencyPermits
    <3> DEFINE a == IF p = "spawning" THEN 1 ELSE 0
               b == IF p = "recheck" THEN 1 ELSE 0
               c == IF disp[l] = "recheck" THEN 1 ELSE 0
    <3>1. a \in Nat /\ b \in Nat /\ c \in Nat
      OBVIOUS
    <3>4. \E e \in Nat : e = a + b /\ cPermits' + e = cPermits + c
      OBVIOUS
    <3>5. cPermits' \in Nat
      OBVIOUS
    <3>2. /\ Cardinality(PermitTasks') = Cardinality(PermitTasks) + a
          /\ Cardinality(Deciding') = Cardinality(Deciding) + b - c
      BY <2>3, <2>4
    <3> HIDE DEF a, b, c, HandStep
    <3> HIDE DEF a, b, c, HandStep
    <3>6. PICK w \in Nat : w = cPermits'
      BY <3>5
    <3>7. PICK v \in Nat : v = cPermits
      BY <2>6
    <3>8. w = v + c - (a + b)
      <4>1. w + (a + b) = v + c
        BY <3>4, <3>6, <3>7
      <4> QED
        BY <3>1, <4>1
    <3>9. Cardinality(PermitTasks) + a + (Cardinality(Deciding) + b - c)
            = Cardinality(PermitTasks) + Cardinality(Deciding) + (a + b) - c
      BY <2>1, <2>2, <3>1
    <3> QED
      BY <2>1, <2>2, <2>5, <3>1, <3>2, <3>6, <3>7, <3>8, <3>9
  <2> QED
    BY <2>7 DEF RunPermitConservation, PermitTasks, Deciding
<1>9. LanePermitAccounting'
  <2>1. Cardinality(Received') = Cardinality(Received) - (IF disp[l] = "got" THEN 1 ELSE 0)
    <3>1. CASE disp[l] = "got"
      <4>1. Received' = Received \ {l} /\ l \in Received
        BY <1>2, <3>1 DEF Received
      <4> QED
        BY <3>1, <4>1, LaneAccountFinite, FS_RemoveElement
    <3>2. CASE disp[l] # "got"
      <4>1. Received' = Received
        BY <1>2, <3>2 DEF Received
      <4> QED
        BY <3>2, <4>1, LaneAccountFinite
    <3> QED
      BY <3>1, <3>2
  <2>2. Sending' = Sending /\ FailedSends' = FailedSends /\ Queued' = Queued
    BY DEF Sending, FailedSends, Queued
  <2>3. permits + Cardinality(Sending) + Cardinality(Queued) + Cardinality(Received)
          = QueuePermits + Cardinality(FailedSends)
    BY DEF Placement, LanePermitAccounting, Sending, Received, FailedSends
  <2>4. permits' + Cardinality(Sending') + Cardinality(Queued') + Cardinality(Received')
          = QueuePermits + Cardinality(FailedSends')
    <3> DEFINE d == IF disp[l] = "got" THEN 1 ELSE 0
    <3>1. d \in Nat /\ permits' = permits + d /\ Cardinality(Received') = Cardinality(Received) - d
      BY <2>1
    <3>2. permits \in Nat
      BY <1>0 DEF GateTypes
    <3> HIDE DEF d, HandStep
    <3> QED
      BY <2>2, <2>3, <3>1, <3>2, LaneAccountFinite
  <2> QED
    BY <2>4 DEF LanePermitAccounting, Sending, Received, FailedSends
<1> QED
  BY <1>5, <1>7, <1>8, <1>9 DEF Placement

(***************************************************************************)
(* The turns of run_worker_loop between recv and spawn_task.               *)
(***************************************************************************)
LEMMA DispatchHandPlacement ==
  ASSUME Placement, NEW l \in Lanes,
         \/ DispatchGot(l) \/ DispatchCancelCheck(l) \/ DispatchPreNotify(l)
         \/ DispatchAcquire(l) \/ DispatchGiveUp(l) \/ DispatchRecheck(l)
  PROVE  Placement'
<1> USE DEF dispatchFrame, routeVars, registryVars, runGateVars, Step, DropTask, KeepTask,
            DispatcherPoints, InHandPoints
<1>0. GateTypes
  BY DEF Placement
<1>1. CASE DispatchGot(l)
  <2>1. CASE shutdownToken
    <3>1. HandStep(l, "exiting")
      BY <1>0, <1>1, <2>1 DEF DispatchGot, GateTypes, HandStep
    <3> QED
      BY <3>1, HandStepPlacement
  <2>2. CASE ~shutdownToken
    <3>1. HandStep(l, "cancelcheck")
      BY <1>0, <1>1, <2>2 DEF DispatchGot, GateTypes, HandStep
    <3> QED
      BY <3>1, HandStepPlacement
  <2> QED
    BY <2>1, <2>2
<1>2. CASE DispatchCancelCheck(l)
  <2>1. CASE cancelled[dtask[l]]
    <3>1. HandStep(l, "prenotify")
      BY <1>0, <1>2, <2>1 DEF DispatchCancelCheck, GateTypes, HandStep
    <3> QED
      BY <3>1, HandStepPlacement
  <2>2. CASE ~cancelled[dtask[l]]
    <3>1. HandStep(l, "acquire")
      BY <1>0, <1>2, <2>2 DEF DispatchCancelCheck, GateTypes, HandStep
    <3> QED
      BY <3>1, HandStepPlacement
  <2> QED
    BY <2>1, <2>2
<1>3. CASE DispatchPreNotify(l)
  <2>1. HandStep(l, "top")
    BY <1>0, <1>3 DEF DispatchPreNotify, GateTypes, HandStep
  <2> QED
    BY <2>1, HandStepPlacement
<1>4. CASE DispatchAcquire(l)
  <2>1. CASE MayRun(l)
    <3>1. cPermits > 0 /\ cPermits' = cPermits - 1 /\ cPermits \in Nat
      BY <1>0, <1>4, <2>1 DEF DispatchAcquire, MayRun, GateTypes
    <3>2. cWaiters' \in Seq(Lanes)
      BY <1>0, <1>4, <2>1, WithoutType DEF DispatchAcquire, GateTypes
    <3>3. HandStep(l, "recheck")
      BY <1>4, <2>1, <3>1, <3>2 DEF DispatchAcquire, HandStep
    <3> QED
      BY <3>3, HandStepPlacement
  <2>2. CASE ~MayRun(l)
    <3>1. cWaiters' \in Seq(Lanes) /\ cPermits \in Nat
      <4>1. cWaiters \in Seq(Lanes) /\ cPermits \in Nat
        BY <1>0 DEF GateTypes
      <4>2. cWaiters' = Append(cWaiters, l)
        BY <1>4, <2>2 DEF DispatchAcquire
      <4>3. Append(cWaiters, l) \in Seq(Lanes)
        BY <4>1
      <4> QED
        BY <4>1, <4>2, <4>3
    <3>2. HandStep(l, "waiting")
      BY <1>4, <2>2, <3>1 DEF DispatchAcquire, HandStep
    <3> QED
      BY <3>2, HandStepPlacement
  <2> QED
    BY <2>1, <2>2
<1>5. CASE DispatchGiveUp(l)
  <2>1. cWaiters' \in Seq(Lanes)
    BY <1>0, <1>5, WithoutType DEF DispatchGiveUp, GateTypes
  <2>2. HandStep(l, "exiting")
    BY <1>0, <1>5, <2>1 DEF DispatchGiveUp, GateTypes, HandStep
  <2> QED
    BY <2>2, HandStepPlacement
<1>6. CASE DispatchRecheck(l)
  <2>1. CASE shutdownToken
    <3>1. HandStep(l, "exiting")
      BY <1>0, <1>6, <2>1 DEF DispatchRecheck, GateTypes, HandStep
    <3> QED
      BY <3>1, HandStepPlacement
  <2>2. CASE ~shutdownToken
    <3>1. HandStep(l, "spawning")
      BY <1>0, <1>6, <2>2 DEF DispatchRecheck, GateTypes, HandStep
    <3> QED
      BY <3>1, HandStepPlacement
  <2> QED
    BY <2>1, <2>2
<1> QED
  BY <1>1, <1>2, <1>3, <1>4, <1>5, <1>6

-----------------------------------------------------------------------------
(***************************************************************************)
(* A channel or an array whose elements are distinct tasks holds as many   *)
(* tasks as it has elements.                                               *)
(***************************************************************************)
LEMMA DistinctElements ==
  ASSUME NEW q \in Seq(Tasks), \A i, j \in DOMAIN q : q[i] = q[j] => i = j
  PROVE  Cardinality({t \in Tasks : \E i \in DOMAIN q : q[i] = t}) = Len(q)
<1> DEFINE n == Len(q)
           S == {t \in Tasks : \E i \in DOMAIN q : q[i] = t}
<1>1. n \in Nat /\ DOMAIN q = 1..n /\ q \in [1..n -> Tasks]
  OBVIOUS
<1>2. \A t \in S : \E i \in DOMAIN q : q[i] = t
  OBVIOUS
<1>3. \A i \in DOMAIN q : q[i] \in S
  BY <1>1
<1> HIDE DEF n, S
<1>4. q \in [1..n -> S]
  BY <1>1, <1>3
<1>5. q \in Bijection(1..n, S)
  BY <1>1, <1>2, <1>4 DEF Bijection, Injection, IsInjective, Surjection
<1>6. ExistsBijection(1..n, S)
  BY <1>5 DEF ExistsBijection
<1>7. Cardinality(S) = n
  BY <1>1, <1>6, FS_CountingElements
<1> QED
  BY <1>7 DEF n, S

LaneTasks(l) == {t \in Tasks : InLane(l, t)}

(***************************************************************************)
(* A lane's channel holds as many tasks as messages.                       *)
(***************************************************************************)
LEMMA LaneTasksCount ==
  ASSUME NEW l \in Lanes, lanes[l] \in Seq(Tasks),
         \A i, j \in DOMAIN lanes[l] : lanes[l][i] = lanes[l][j] => i = j
  PROVE  Cardinality(LaneTasks(l)) = Len(lanes[l])
  BY DistinctElements DEF LaneTasks, InLane

(***************************************************************************)
(* A leaving loop drops its receiver with the queued messages: their       *)
(* permits go back and their result channels are closed.                   *)
(***************************************************************************)
LEMMA DispatchExitPlacement ==
  ASSUME Placement, NEW l \in Lanes, DispatchExit(l)
  PROVE  Placement'
<1> USE DEF dispatchFrame, routeVars, registryVars, runGateVars
<1>0. GateTypes /\ PlaceTypes /\ LanesHold /\ DispatchersHold
  BY DEF Placement
<1>1. /\ disp[l] = "exiting" /\ disp' = [disp EXCEPT ![l] = "exited"]
      /\ permits' = permits + Len(lanes[l])
      /\ lanes' = [lanes EXCEPT ![l] = <<>>]
      /\ result' = [t \in Tasks |-> IF InLane(l, t) THEN "Closed" ELSE result[t]]
      /\ UNCHANGED <<waiters, send, lane, nextLane, cPermits, cWaiters, dtask, phase, entry,
                     shardOf>>
  BY DEF DispatchExit, Step, InLane
<1>2. /\ disp'[l] = "exited" /\ lanes'[l] = <<>>
      /\ \A k \in Lanes : k # l => disp'[k] = disp[k] /\ lanes'[k] = lanes[k]
  BY <1>0, <1>1 DEF GateTypes, PlaceTypes
<1>3. dtask[l] \notin Tasks
  BY <1>0, <1>1 DEF DispatchersHold, InHandPoints
<1>4. \A u \in Tasks : result'[u] = IF InLane(l, u) THEN "Closed" ELSE result[u]
  BY <1>1
<1>5. Len(lanes[l]) \in Nat
  BY <1>0 DEF GateTypes
<1>6. GateTypes' /\ PlaceTypes'
  <2>1. GateTypes'
    BY <1>0, <1>1, <1>5 DEF GateTypes
  <2>2. disp' \in [Lanes -> DispatcherPoints]
    BY <1>0, <1>1 DEF PlaceTypes, DispatcherPoints
  <2>3. result' \in [Tasks -> {"pending", "Closed"} \cup Statuses]
    BY <1>0, <1>1 DEF PlaceTypes
  <2> QED
    BY <1>0, <1>1, <2>1, <2>2, <2>3 DEF PlaceTypes
<1>7. \A k \in Lanes, u \in Tasks : InLane(k, u)' <=> InLane(k, u) /\ k # l
  BY <1>2 DEF InLane
<1>8. LanesHold'
  <2> SUFFICES ASSUME NEW k \in Lanes
               PROVE  /\ \A i, j \in DOMAIN lanes'[k] : lanes'[k][i] = lanes'[k][j] => i = j
                      /\ \A t \in Tasks : InLane(k, t)' => lane'[t] = k
                      /\ disp'[k] = "exited" => lanes'[k] = <<>>
    BY DEF LanesHold
  <2>1. \A t \in Tasks : InLane(k, t)' => lane'[t] = k
    BY <1>0, <1>1, <1>7 DEF LanesHold
  <2>2. CASE k = l
    BY <1>2, <2>1, <2>2
  <2>3. CASE k # l
    BY <1>0, <1>2, <2>1, <2>3 DEF LanesHold
  <2> QED
    BY <2>2, <2>3
<1>9. DispatchersHold'
  BY <1>0, <1>1, <1>2, <1>3 DEF DispatchersHold, InHandPoints
<1>10. ASSUME NEW u \in Tasks PROVE TaskPlaced(u)' /\ EntryPhases(u)'
  <2>1. lane[u] \in Lanes /\ lane'[u] = lane[u] /\ (InLane(l, u) => lane[u] = l)
    BY <1>0, <1>1 DEF GateTypes, LanesHold
  <2>2. TaskPlaced(u) /\ EntryPhases(u)
    BY DEF Placement, TasksPlaced, EntriesFollow
  <2>3. /\ InHand(u)' <=> InHand(u)
        /\ InHand(u) => disp'[lane[u]] = disp[lane[u]]
    BY <1>1, <1>2, <1>3, <2>1 DEF InHand
  <2>4. CASE InLane(l, u)
    <3>1. /\ send[u] = "ok" /\ phase[u] = "none" /\ ~InHand(u) /\ result'[u] = "Closed"
      BY <1>4, <2>1, <2>2, <2>4 DEF TaskPlaced
    <3>2. ~InLane(lane[u], u)'
      BY <1>2, <2>1, <2>4 DEF InLane
    <3>3. TaskPlaced(u)'
      BY <1>1, <2>3, <3>1, <3>2 DEF TaskPlaced, Statuses
    <3>4. EntryPhases(u)'
      BY <1>1, <2>2 DEF EntryPhases
    <3> QED
      BY <3>3, <3>4
  <2>5. CASE ~InLane(l, u)
    <3>1. InLane(lane[u], u)' <=> InLane(lane[u], u)
      BY <1>2, <2>1, <2>5 DEF InLane
    <3> QED
      BY <1>1, <1>4, <2>1, <2>2, <2>3, <2>5, <3>1, OtherTask
  <2> QED
    BY <2>4, <2>5
<1>11. RunPermitConservation'
  <2>1. Deciding' = Deciding
    BY <1>1, <1>2 DEF Deciding
  <2> QED
    BY <1>1, <2>1, RunAccountStays DEF Placement, PermitTasks
<1>12. LanePermitAccounting'
  <2>1. Received' = Received
    BY <1>1, <1>2 DEF Received
  <2>2. Queued' = Queued \ LaneTasks(l) /\ Queued \cap LaneTasks(l) = LaneTasks(l)
    <3>1. \A u \in Tasks : u \in Queued <=> \E k \in Lanes : InLane(k, u)
      BY DEF Queued, InLane
    <3>2. \A u \in Tasks : u \in Queued' <=> \E k \in Lanes : InLane(k, u)'
      BY DEF Queued, InLane
    <3>3. /\ Queued \in SUBSET Tasks /\ Queued' \in SUBSET Tasks
          /\ LaneTasks(l) \in SUBSET Tasks /\ \A u \in Tasks : u \in LaneTasks(l) <=> InLane(l, u)
      BY DEF Queued, LaneTasks
    <3>4. \A k \in Lanes, u \in Tasks : InLane(l, u) /\ InLane(k, u) => k = l
      BY <1>0 DEF LanesHold
    <3> QED
      BY <1>7, <3>1, <3>2, <3>3, <3>4
  <2>3. FailedSends' = FailedSends /\ Sending' = Sending
    BY <1>1 DEF FailedSends, Sending
  <2>4. Cardinality(LaneTasks(l)) = Len(lanes[l])
    BY <1>0, LaneTasksCount DEF GateTypes, LanesHold
  <2>5. Cardinality(Queued') = Cardinality(Queued) - Len(lanes[l])
    <3>1. Cardinality(Queued \ LaneTasks(l))
            = Cardinality(Queued) - Cardinality(Queued \cap LaneTasks(l))
      BY LaneAccountFinite, FS_Difference
    <3> QED
      BY <2>2, <2>4, <3>1
  <2>6. permits + Cardinality(Sending) + Cardinality(Queued) + Cardinality(Received)
          = QueuePermits + Cardinality(FailedSends)
    BY DEF Placement, LanePermitAccounting, Sending, Received, FailedSends
  <2>7. permits' + Cardinality(Sending') + Cardinality(Queued') + Cardinality(Received')
          = QueuePermits + Cardinality(FailedSends')
    BY <1>0, <1>1, <1>5, <2>1, <2>3, <2>5, <2>6, LaneAccountFinite DEF GateTypes
  <2> QED
    BY <2>7 DEF LanePermitAccounting, Sending, Received, FailedSends
<1> QED
  BY <1>6, <1>8, <1>9, <1>10, <1>11, <1>12 DEF Placement, TasksPlaced, EntriesFollow

(***************************************************************************)
(* Every turn of a dispatcher loop keeps tasks and permits accounted for.  *)
(***************************************************************************)
LEMMA DispatchSidePlacement == Placement /\ DispatchSide => Placement'
  BY DispatchIdlePlacement, DispatchRecvPlacement, DispatchHandPlacement, DispatchExitPlacement
     DEF DispatchSide, DispatchStep

-----------------------------------------------------------------------------
(***************************************************************************)
(* The new pool satisfies the invariant.                                   *)
(***************************************************************************)
LEMMA RlxdInitInv == Init => RlxdInv
<1> SUFFICES ASSUME Init PROVE RlxdInv
  OBVIOUS
<1>1. DeferredInv /\ NotifierInv
  BY DeferredInitInv, NotifierInitInv DEF Init
<1>2. ManagerTypes
  BY LaneZero DEF Init, ManagerTypes, Live, Gone
<1>3. QueuePermits \in Nat /\ ConcurrencyPermits \in Nat
  BY SizesAssumption DEF QueuePermits, ConcurrencyPermits
<1>4. GateTypes /\ PlaceTypes
  <2>1. GateTypes
    BY <1>3, LaneZero DEF Init, GateTypes
  <2>2. PlaceTypes
    BY DEF Init, PlaceTypes, DispatcherPoints, Phases, Statuses
  <2> QED
    BY <2>1, <2>2
<1>5. /\ \A l \in Lanes : lanes[l] = <<>> /\ disp[l] = "top" /\ dtask[l] = NoTask
      /\ \A t \in Tasks : /\ send[t] = "idle" /\ phase[t] = "none" /\ result[t] = "pending"
                          /\ entry[t] = "out" /\ lane[t] \in Lanes
  BY <1>4 DEF Init, DeferredInit, GateTypes
<1>6. \A l \in Lanes : \A t \in Tasks : ~InLane(l, t)
  BY <1>5 DEF InLane
<1>7. LanesHold
  BY <1>5, <1>6 DEF LanesHold
<1>8. DispatchersHold
  BY <1>5, TasksAssumption DEF DispatchersHold, InHandPoints
<1>9. \A t \in Tasks : ~InHand(t)
  BY <1>5, TasksAssumption DEF InHand
<1>10. TasksPlaced /\ EntriesFollow
  BY <1>5, <1>6, <1>9 DEF TasksPlaced, TaskPlaced, EntriesFollow, EntryPhases, Statuses
<1>11. RunPermitConservation
  <2>1. PermitTasks = {} /\ Deciding = {}
    BY <1>5 DEF PermitTasks, Deciding
  <2>2. cPermits = ConcurrencyPermits
    BY DEF Init
  <2>3. cPermits + Cardinality(PermitTasks) + Cardinality(Deciding) = ConcurrencyPermits
    BY <1>3, <2>1, <2>2, FS_EmptySet
  <2> QED
    BY <2>3 DEF RunPermitConservation, PermitTasks, Deciding
<1>12. LanePermitAccounting
  <2>1. Sending = {} /\ Received = {} /\ FailedSends = {} /\ Queued = {}
    BY <1>5 DEF Sending, Received, FailedSends, Queued
  <2>2. permits = QueuePermits
    BY DEF Init
  <2>3. permits + Cardinality(Sending) + Cardinality(Queued) + Cardinality(Received)
          = QueuePermits + Cardinality(FailedSends)
    BY <1>3, <2>1, <2>2, FS_EmptySet
  <2> QED
    BY <2>3 DEF LanePermitAccounting, Sending, Received, FailedSends
<1> QED
  BY <1>1, <1>2, <1>4, <1>7, <1>8, <1>10, <1>11, <1>12, RlxdInvParts DEF Placement

(***************************************************************************)
(* Every step of the pool preserves it, whoever takes the step.            *)
(***************************************************************************)
LEMMA RlxdNextInv == RlxdInv /\ [Next]_vars => RlxdInv'
<1> SUFFICES ASSUME RlxdInv, [Next]_vars PROVE RlxdInv'
  OBVIOUS
<1>1. DeferredInv' /\ NotifierInv'
  BY RlxdInvParts, RlxdRegistryStep, RlxdNotifierStep, DeferredNextInv, NotifierNextInv
<1>2. ManagerTypes'
  BY ManagerTypesStep
<1>3. Placement /\ RegistryTypeOK
  BY RlxdInvParts DEF DeferredInv
<1>4. ASSUME SubmitSide \/ TaskSide \/ DispatchSide PROVE Placement'
  BY <1>3, <1>4, SubmitSidePlacement, TaskSidePlacement, DispatchSidePlacement
<1>5. ASSUME ManagerCall \/ NotifierSide \/ UNCHANGED vars PROVE Placement'
  <2>1. UNCHANGED callFrame
    <3>1. CASE ManagerCall
      BY <3>1, ManagerFrame
    <3>2. CASE NotifierSide
      BY <3>2 DEF NotifierSide, AddCompletionHandler, FinishAddHandler, NotifierProgress,
                  notifierFrame, callFrame, queueVars, taskVars
    <3>3. CASE UNCHANGED vars
      BY <3>3 DEF vars, callFrame, queueVars, taskVars
    <3> QED
      BY <1>5, <3>1, <3>2, <3>3
  <2> QED
    BY <1>3, <2>1, CallPlacement
<1>6. Placement'
  BY <1>4, <1>5, NextByActor
<1> QED
  BY <1>1, <1>2, <1>6 DEF RlxdInv, RlxdTypeOK, DeferredInv, NotifierInv, ManagerTypes, Placement,
                          GateTypes, PlaceTypes

(***************************************************************************)
(* The invariant of the relaxed pool: wherever the submit calls, the       *)
(* dispatchers, the tasks and the clones are, the two gates, the lanes and *)
(* the registry account for every permit and every task.                   *)
(***************************************************************************)
THEOREM RlxdInvariant == Spec => []RlxdInv
<1>1. Init => RlxdInv
  BY RlxdInitInv
<1>2. RlxdInv /\ [Next]_vars => RlxdInv'
  BY RlxdNextInv
<1> QED
  BY <1>1, <1>2, PTL DEF Spec

-----------------------------------------------------------------------------
(***************************************************************************)
(* The variables of the relaxed pool stay in their ranges; in particular   *)
(* no count and neither gate underflows.                                   *)
(***************************************************************************)
THEOREM RlxdTypeCorrect == Spec => []RlxdTypeOK
<1>1. RlxdInv => RlxdTypeOK
  BY DEF RlxdInv
<1> QED
  BY <1>1, RlxdInvariant, PTL

(***************************************************************************)
(* No concurrency permit is lost or doubled, on the fast path of submit    *)
(* and through a dispatcher alike.                                         *)
(***************************************************************************)
THEOREM RunPermitsConserved == Spec => []RunPermitConservation
<1>1. RlxdInv => RunPermitConservation
  BY DEF RlxdInv
<1> QED
  BY <1>1, RlxdInvariant, PTL

(***************************************************************************)
(* The gate over the lanes accounts for every queued task, except for the  *)
(* second release of a failed send.                                        *)
(***************************************************************************)
THEOREM LanePermitsAccounted == Spec => []LanePermitAccounting
<1>1. RlxdInv => LanePermitAccounting
  BY DEF RlxdInv
<1> QED
  BY <1>1, RlxdInvariant, PTL

(***************************************************************************)
(* A dispatcher that leaves its lane strands no accepted task.             *)
(***************************************************************************)
THEOREM LanesLeaveNothing == Spec => []LaneLeavesNothing
<1>1. RlxdInv => LaneLeavesNothing
  <2> SUFFICES ASSUME RlxdInv, NEW t \in Tasks, send[t] = "ok", result[t] = "pending",
                      disp[lane[t]] = "exited"
               PROVE  phase[t] \in {"running"} \cup Statuses
    BY DEF LaneLeavesNothing, Receiving, Running, Decided
  <2>1. lane[t] \in Lanes /\ TaskPlaced(t)
    BY DEF RlxdInv, RlxdTypeOK, TasksPlaced
  <2>2. ~InLane(lane[t], t)
    BY <2>1 DEF RlxdInv, LanesHold, InLane
  <2>3. ~InHand(t)
    BY <2>1 DEF RlxdInv, DispatchersHold, InHandPoints, InHand
  <2> QED
    BY <2>1, <2>2, <2>3 DEF TaskPlaced
<1> QED
  BY <1>1, RlxdInvariant, PTL

(***************************************************************************)
(* A running task can be cancelled: its core is in a slot of its lane's    *)
(* shard, unfinished, and the shard's count does not say it is empty.      *)
(***************************************************************************)
THEOREM RunningTasksFound == Spec => []RunningTaskFound
<1>1. RlxdInv => RunningTaskFound
  <2> SUFFICES ASSUME RlxdInv, NEW t \in Tasks, phase[t] = "running"
               PROVE  t \in ShardTokens(lane[t]) /\ inFlight[lane[t]] > 0
    BY DEF RunningTaskFound, Running
  <2>1. lane[t] \in Lanes /\ entry[t] = "listed" /\ shardOf[t] = lane[t]
    BY DEF RlxdInv, RlxdTypeOK, EntriesFollow, EntryPhases
  <2>2. t \in ShardTokens(lane[t])
    BY <2>1 DEF RlxdInv, DeferredInv, ListedTaskKept
  <2>3. inFlight[lane[t]] = Cardinality(Counted(lane[t]))
    BY <2>1 DEF RlxdInv, DeferredInv, InFlightExact
  <2>4. t \in Counted(lane[t])
    BY <2>1 DEF Counted
  <2>5. /\ IsFiniteSet(Counted(lane[t])) /\ Cardinality(Counted(lane[t])) \in Nat
        /\ Cardinality(Counted(lane[t])) # 0
    BY <2>1, <2>4, CountedFinite, FS_EmptySet
  <2> QED
    BY <2>2, <2>3, <2>5
<1> QED
  BY <1>1, RlxdInvariant, PTL

(***************************************************************************)
(* An accepted task without a result is in its lane, in its dispatcher's   *)
(* hand or running, its outcome decided or not, in one of them and once;   *)
(* any other task is nowhere.                                              *)
(***************************************************************************)
THEOREM TasksInOnePlace == Spec => []TaskInOnePlace
<1>1. RlxdInv => TaskInOnePlace
  <2> SUFFICES ASSUME RlxdInv, NEW t \in Tasks
               PROVE
      Cardinality({i \in 1..Cardinality(Tasks) : /\ i \in DOMAIN lanes[lane[t]]
                                                 /\ lanes[lane[t]][i] = t})
        + Cardinality({l \in Lanes : dtask[l] = t /\ disp[l] # "prenotify"})
        + Cardinality({t} \cap (Running \cup Decided))
      = IF send[t] = "ok" /\ result[t] = "pending" THEN 1 ELSE 0
    BY DEF TaskInOnePlace
  <2> DEFINE l == lane[t]
             q == lanes[l]
             Q == {i \in 1..Cardinality(Tasks) : i \in DOMAIN q /\ q[i] = t}
             D == {k \in Lanes : dtask[k] = t /\ disp[k] # "prenotify"}
             R == {t} \cap (Running \cup Decided)
  <2>1. /\ l \in Lanes /\ q \in Seq(Tasks) /\ TaskPlaced(t)
        /\ \A i, j \in DOMAIN q : q[i] = q[j] => i = j
    BY DEF RlxdInv, RlxdTypeOK, TasksPlaced, LanesHold
  <2>2. Cardinality(Q) = IF InLane(l, t) THEN 1 ELSE 0
    <3>1. CASE InLane(l, t)
      <4>1. PICK i \in DOMAIN q : q[i] = t
        BY <3>1 DEF InLane
      <4>2. Cardinality(LaneTasks(l)) = Len(q)
        BY <2>1, LaneTasksCount
      <4>3. LaneTasks(l) \in SUBSET Tasks
        BY DEF LaneTasks
      <4>4. Cardinality(LaneTasks(l)) <= Cardinality(Tasks)
        BY <4>3, TasksAssumption, FS_Subset
      <4>5. Cardinality(Tasks) \in Nat /\ Len(q) \in Nat /\ DOMAIN q = 1..Len(q)
        BY <2>1, TasksAssumption, FS_CardinalityType
      <4>6. i \in 1..Cardinality(Tasks)
        BY <4>2, <4>4, <4>5
      <4>7. Q = {i}
        BY <2>1, <4>1, <4>6
      <4> QED
        BY <3>1, <4>7, FS_Singleton
    <3>2. CASE ~InLane(l, t)
      <4>1. Q = {}
        BY <3>2 DEF InLane
      <4> QED
        BY <3>2, <4>1, FS_EmptySet
    <3> QED
      BY <3>1, <3>2
  <2>3. Cardinality(D) = IF InHand(t) /\ disp[l] # "prenotify" THEN 1 ELSE 0
    <3>1. \A k \in Lanes : dtask[k] = t => k = l
      BY DEF RlxdInv, DispatchersHold
    <3>2. CASE InHand(t) /\ disp[l] # "prenotify"
      <4>1. D = {l}
        BY <2>1, <3>1, <3>2 DEF InHand
      <4> QED
        BY <3>2, <4>1, FS_Singleton
    <3>3. CASE ~(InHand(t) /\ disp[l] # "prenotify")
      <4>1. D = {}
        BY <2>1, <3>1, <3>3 DEF InHand
      <4> QED
        BY <3>3, <4>1, FS_EmptySet
    <3> QED
      BY <3>2, <3>3
  <2>4. Cardinality(R) = IF phase[t] \in {"running"} \cup Statuses THEN 1 ELSE 0
    <3>1. CASE phase[t] \in {"running"} \cup Statuses
      <4>1. R = {t}
        BY <3>1 DEF Running, Decided
      <4> QED
        BY <3>1, <4>1, FS_Singleton
    <3>2. CASE phase[t] \notin {"running"} \cup Statuses
      <4>1. R = {}
        BY <3>2 DEF Running, Decided
      <4> QED
        BY <3>2, <4>1, FS_EmptySet
    <3> QED
      BY <3>1, <3>2
  <2> HIDE DEF Q, D, R
  <2>5. Cardinality(Q) + Cardinality(D) + Cardinality(R)
          = IF send[t] = "ok" /\ result[t] = "pending" THEN 1 ELSE 0
    <3>1. CASE InLane(l, t)
      BY <2>1, <2>2, <2>3, <2>4, <3>1 DEF TaskPlaced, Statuses
    <3>2. CASE ~InLane(l, t) /\ InHand(t)
      BY <2>1, <2>2, <2>3, <2>4, <3>2 DEF TaskPlaced, Statuses
    <3>3. CASE ~InLane(l, t) /\ ~InHand(t)
      BY <2>1, <2>2, <2>3, <2>4, <3>3 DEF TaskPlaced, Statuses
    <3> QED
      BY <3>1, <3>2, <3>3
  <2> QED
    BY <2>5 DEF Q, D, R
<1> QED
  BY <1>1, RlxdInvariant, PTL

-----------------------------------------------------------------------------
(***************************************************************************)
(* The pool uses each shard of the registry as the registry's own          *)
(* specification allows, so it inherits what is proved of it: the count    *)
(* shutdown waits on is exact and a listed task keeps its slot.            *)
(***************************************************************************)
THEOREM RlxdUsesRegistry == Spec => DeferredSpec
<1>1. Init => DeferredInit
  BY DEF Init
<1>2. RlxdInv /\ [Next]_vars => [DeferredNext]_registryVars
  BY RlxdRegistryStep
<1> QED
  BY <1>1, <1>2, RlxdInvariant, PTL DEF Spec, DeferredSpec

(***************************************************************************)
(* The pool uses the notifier as the notifier's specification allows.      *)
(***************************************************************************)
THEOREM RlxdUsesNotifier == Spec => NotifierSpec
<1>1. Init => NotifierInit
  BY DEF Init
<1>2. RlxdInv /\ [Next]_vars => [NotifierNext]_notifierVars
  BY RlxdNotifierStep
<1> QED
  BY <1>1, <1>2, RlxdInvariant, PTL DEF Spec, NotifierSpec

(***************************************************************************)
(* In the relaxed pool every shard implements the registry its readers     *)
(* rely on.                                                                *)
(***************************************************************************)
THEOREM RlxdImplementsRegistry == Spec => ImplementsRegistry
  BY RlxdUsesRegistry, RegistryRefinement, PTL

-----------------------------------------------------------------------------
(***************************************************************************)
(* A shard's array grows only to make room for a task that holds a permit  *)
(* beside as many others as the array has slots.                           *)
(***************************************************************************)
LEMMA InsertWithinLimit ==
  ASSUME RlxdInv, SlotsWithinLimit, NEW t \in Tasks, phase[t] = "spawning",
         NEW l \in Lanes, InsertCore(l, t)
  PROVE  SlotsWithinLimit'
<1> DEFINE q == shardSlots[l]
           S == Occupants(l)
<1>1. /\ \A k \in Lanes \ {l} : shardSlots'[k] = shardSlots[k]
      /\ Len(shardSlots'[l]) = Len(q) \/ (Len(shardSlots'[l]) = Len(q) + 1 /\ AllUnfinished(l))
  BY InsertedCore DEF RlxdInv, CoreAt
<1>2. /\ q \in Seq(Tasks \cup {NoTask}) /\ entry[t] = "counted" /\ entry \in [Tasks -> EntryPoints]
      /\ \A i \in DOMAIN q : q[i] # NoTask => entry[q[i]] \in {"listed", "finished", "left"}
      /\ \A i, j \in DOMAIN q : q[i] = q[j] /\ q[i] # NoTask => i = j
  BY DEF RlxdInv, DeferredInv, RegistryTypeOK, OccupantsBelong, ListedTaskKept, InsertCore
<1>3. CASE Len(shardSlots'[l]) = Len(q) + 1 /\ AllUnfinished(l)
  <2>1. \A i \in DOMAIN q : /\ q[i] \in Tasks /\ entry[q[i]] = "listed"
    BY <1>2, <1>3 DEF AllUnfinished, IsFinished
  <2>2. q \in Seq(Tasks)
    <3>1. Len(q) \in Nat /\ DOMAIN q = 1..Len(q) /\ q = [i \in 1..Len(q) |-> q[i]]
      BY <1>2
    <3>2. q \in [1..Len(q) -> Tasks]
      BY <2>1, <3>1
    <3> QED
      BY <3>1, <3>2
  <2>3. Cardinality(S) = Len(q)
    BY <1>2, <2>1, <2>2, DistinctElements, TasksAssumption DEF Occupants
  <2>4. \A u \in S : u \in PermitTasks
    <3> SUFFICES ASSUME NEW u \in S PROVE u \in PermitTasks
      OBVIOUS
    <3>1. u \in Tasks /\ entry[u] = "listed"
      BY <2>1 DEF Occupants
    <3> QED
      BY <3>1 DEF RlxdInv, EntriesFollow, EntryPhases, PermitTasks
  <2>5. t \in PermitTasks /\ t \notin S
    BY <1>2, <2>1 DEF PermitTasks, Occupants
  <2>6. IsFiniteSet(PermitTasks) /\ Cardinality(PermitTasks) \in Nat
    BY FiniteTaskSets DEF PermitTasks
  <2>7. S \in SUBSET Tasks /\ IsFiniteSet(S)
    BY FiniteTaskSets DEF Occupants
  <2> HIDE DEF S
  <2>8. Cardinality(S \cup {t}) = Cardinality(S) + 1
    BY <2>5, <2>7, FS_AddElement
  <2>9. S \cup {t} \in SUBSET PermitTasks
    BY <2>4, <2>5
  <2>10. Cardinality(S \cup {t}) <= Cardinality(PermitTasks)
    BY <2>6, <2>9, FS_Subset
  <2>11. Cardinality(PermitTasks) <= ConcurrencyPermits
    <3>1. Deciding \in SUBSET Lanes /\ cPermits \in Nat
      BY DEF RlxdInv, RlxdTypeOK, Deciding
    <3>2. Cardinality(Deciding) \in Nat
      BY <3>1, LanesFinite
    <3>3. cPermits + Cardinality(PermitTasks) + Cardinality(Deciding) = ConcurrencyPermits
      BY DEF RlxdInv, RunPermitConservation, PermitTasks, Deciding
    <3> QED
      BY <2>6, <3>1, <3>2, <3>3
  <2>12. Len(q) + 1 <= ConcurrencyPermits
    <3>1. Len(q) \in Nat /\ ConcurrencyPermits \in Nat
      BY <2>2, SizesAssumption DEF ConcurrencyPermits
    <3> QED
      BY <2>3, <2>6, <2>8, <2>10, <2>11, <3>1
  <2> QED
    BY <1>1, <1>3, <2>12 DEF SlotsWithinLimit
<1>4. CASE Len(shardSlots'[l]) = Len(q)
  BY <1>1, <1>4 DEF SlotsWithinLimit
<1> QED
  BY <1>1, <1>3, <1>4

(***************************************************************************)
(* Lazy reclamation never costs memory: no shard's array outgrows the      *)
(* capacity DeferredRegistry::new gave it, because a task is marked        *)
(* finished before it releases its permit.                                 *)
(***************************************************************************)
THEOREM SlotsStayWithinLimit == Spec => []SlotsWithinLimit
<1>1. Init => SlotsWithinLimit
  BY SizesAssumption DEF Init, DeferredInit, SlotsWithinLimit, ConcurrencyPermits
<1>2. RlxdInv /\ SlotsWithinLimit /\ [Next]_vars => SlotsWithinLimit'
  <2> SUFFICES ASSUME RlxdInv, SlotsWithinLimit, [Next]_vars PROVE SlotsWithinLimit'
    OBVIOUS
  <2>1. CASE UNCHANGED shardSlots
    BY <2>1 DEF SlotsWithinLimit
  <2>2. CASE TaskSide
    <3>1. PICK t \in Tasks :
            TaskStep(t) \/ \E outcome \in FutureOutcomes : FutureReady(t, outcome)
      BY <2>2 DEF TaskSide
    <3>2. CASE SpawnInsert(t)
      <4>1. lane[t] \in Lanes /\ phase[t] = "spawning"
        BY <3>2 DEF RlxdInv, RlxdTypeOK, SpawnInsert
      <4>2. CASE InsertCore(lane[t], t)
        BY <4>1, <4>2, InsertWithinLimit
      <4>3. CASE CountIn(lane[t], t)
        BY <2>1, <4>3 DEF CountIn
      <4> QED
        BY <3>2, <4>2, <4>3 DEF SpawnInsert
    <3>3. CASE ~SpawnInsert(t)
      <4>1. UNCHANGED shardSlots
        BY <3>1, <3>3 DEF TaskStep, Spawn, CancelArm, NotifyCompletion, Deregister, ReleasePermit,
                          FutureReady, Decide, SendResult, MarkFinished, CountOut, registryVars
      <4> QED
        BY <2>1, <4>1
    <3> QED
      BY <3>2, <3>3
  <2>3. CASE ManagerCall
    BY <2>1, <2>3, ManagerFrame DEF callFrame, registryVars
  <2>4. CASE NotifierSide
    BY <2>1, <2>4 DEF NotifierSide, AddCompletionHandler, FinishAddHandler, NotifierProgress,
                      notifierFrame, registryVars
  <2>5. CASE SubmitSide
    BY <2>1, <2>5 DEF SubmitSide, Submit, SubmitStep, AbandonSubmit, ProbeLane, TryDirect,
                      SendCheck, PollGate, PollToken, LaneSend, submitFrame, registryVars
  <2>6. CASE DispatchSide
    BY <2>1, <2>6 DEF DispatchSide, DispatchStep, DispatchTop, DispatchRecv, DispatchStop,
                      DispatchGot, DispatchCancelCheck, DispatchPreNotify, DispatchAcquire,
                      DispatchGiveUp, DispatchRecheck, DispatchExit, dispatchFrame, registryVars
  <2>7. CASE UNCHANGED vars
    BY <2>1, <2>7 DEF vars, registryVars
  <2> QED
    BY <2>2, <2>3, <2>4, <2>5, <2>6, <2>7, NextByActor
<1> QED
  BY <1>1, <1>2, RlxdInvariant, PTL DEF Spec

-----------------------------------------------------------------------------
(***************************************************************************)
(* Why a loop may leave: the token is set, or no sender is left and its    *)
(* lane is empty.  The second lasts, because a submit call that is under   *)
(* way borrows its clone, a live clone is a producer, and only a live      *)
(* clone is cloned.                                                        *)
(***************************************************************************)
CallersLive == \A t \in Tasks : send[t] \in SubmitPoints => mgr[Submitter[t]] \in Live

LivesProduce == \A m \in Managers : mgr[m] \in Live => m \in producers

LoopsLeave ==
  \A l \in Lanes : disp[l] = "exiting" => shutdownToken \/ (producers = {} /\ lanes[l] = <<>>)

LoopsInv == CallersLive /\ LivesProduce /\ LoopsLeave

(***************************************************************************)
(* A clone's calls keep the reasons: it stops producing only when no call  *)
(* borrows it, and a clone is made by one that produces.                   *)
(***************************************************************************)
LEMMA ManagerLoops ==
  ASSUME RlxdInv, LoopsInv, ManagerCall
  PROVE  LoopsInv'
<1> USE DEF callFrame, loopFrame, managerVars, loopVars, Goto, Live, dispVars
<1>0. /\ mgr \in [Managers -> Live \cup InShutdown \cup InDrop \cup Gone]
      /\ producers \subseteq Managers
  BY DEF RlxdInv, RlxdTypeOK
<1>1. UNCHANGED <<send, disp, lanes>> /\ (shutdownToken => shutdownToken')
  BY ManagerFrame
<1>2. ASSUME NEW m \in Managers,
             \A n \in Managers : n # m => /\ mgr'[n] = mgr[n]
                                          /\ n \in producers' <=> n \in producers,
             producers' \subseteq producers \/ mgr'[m] \in Live,
             producers' \subseteq producers \/ producers # {},
             mgr'[m] \in Live => m \in producers',
             mgr[m] \in Live => \/ mgr'[m] \in Live
                                \/ \A t \in Tasks : Submitter[t] = m => send[t] \notin SubmitPoints
      PROVE  LoopsInv'
  <2>1. CallersLive'
    BY <1>1, <1>2, CallersAssumption DEF LoopsInv, CallersLive
  <2>2. LivesProduce'
    BY <1>2 DEF LoopsInv, LivesProduce
  <2>3. LoopsLeave'
    BY <1>1, <1>2 DEF LoopsInv, LoopsLeave
  <2> QED
    BY <2>1, <2>2, <2>3 DEF LoopsInv
<1>3. CASE UNCHANGED <<mgr, producers>>
  BY <1>1, <1>3 DEF LoopsInv, CallersLive, LivesProduce, LoopsLeave
<1>4. ASSUME NEW t \in Tasks, HandleCancel(t) PROVE LoopsInv'
  BY <1>3, <1>4 DEF HandleCancel
<1>5. ASSUME NEW m \in Managers, NEW labels \in SUBSET Labels, CancelByLabels(m, labels)
      PROVE  LoopsInv'
  BY <1>0, <1>2, <1>5 DEF CancelByLabels, LoopsInv, LivesProduce
<1>6. ASSUME NEW m \in Managers, NEW n \in Managers, Clone(m, n) PROVE LoopsInv'
  <2>1. m \in producers
    BY <1>6 DEF Clone, LoopsInv, LivesProduce
  <2>2. n # m /\ mgr[n] \notin Live
    BY <1>6 DEF Clone
  <2> QED
    BY <1>0, <1>2, <1>6, <2>1, <2>2 DEF Clone
<1>7. ASSUME NEW m \in Managers, ShutdownBegin(m) \/ DropBegin(m) PROVE LoopsInv'
  BY <1>0, <1>2, <1>7 DEF ShutdownBegin, DropBegin, Unborrowed
<1>8. ASSUME NEW m \in Managers, ManagerStep(m) PROVE LoopsInv'
  <2>1. CASE Collect(m)
    BY <1>0, <1>2, <2>1 DEF Collect, Turn, LoopsInv, LivesProduce
  <2>2. CASE CancelCollected(m)
    BY <1>0, <1>2, <2>2 DEF CancelCollected, LoopsInv, LivesProduce
  <2>3. CASE SignalShutdown(m) \/ CloseQueue(m)
    BY <1>0, <1>2, <2>3 DEF SignalShutdown, CloseQueue
  <2>4. CASE ShutdownCount(m) \/ ShutdownTake(m) \/ ShutdownJoin(m) \/ ShutdownNotifierJoined(m)
    BY <1>0, <1>2, <2>4 DEF ShutdownCount, ShutdownTake, ShutdownJoin, ShutdownNotifierJoined, Turn
  <2>5. CASE ShutdownSink(m) \/ ShutdownNotifier(m)
    BY <1>0, <1>2, <2>5 DEF ShutdownSink, ShutdownNotifier
  <2>6. CASE ShutdownTimeout(m)
    BY <1>0, <1>2, <2>6 DEF ShutdownTimeout, Turn
  <2>7. CASE DropSink(m) \/ DropFields(m)
    BY <1>0, <1>2, <2>7 DEF DropSink, DropFields
  <2> QED
    BY <1>8, <2>1, <2>2, <2>3, <2>4, <2>5, <2>6, <2>7 DEF ManagerStep, ShutdownStep
<1> QED
  BY <1>4, <1>5, <1>6, <1>7, <1>8 DEF ManagerCall

(***************************************************************************)
(* A submit call begins through a live clone and enqueues through one.     *)
(***************************************************************************)
LEMMA SubmitLoops ==
  ASSUME RlxdInv, LoopsInv, SubmitSide
  PROVE  LoopsInv'
<1>0. /\ send \in [Tasks -> {"idle", "ok"} \cup SubmitPoints \cup Refusals]
      /\ Submitter \in [Tasks -> Managers]
  BY CallersAssumption DEF RlxdInv, RlxdTypeOK
<1>1. PICK t \in Tasks : Submit(t) \/ SubmitStep(t) \/ AbandonSubmit(t)
  BY DEF SubmitSide
<1>2. UNCHANGED <<disp, mgr, producers, shutdownToken>>
  BY <1>1 DEF Submit, SubmitStep, AbandonSubmit, ProbeLane, TryDirect, SendCheck, PollGate,
              PollToken, LaneSend, submitFrame, dispVars, managerVars
<1>3. \A u \in Tasks : u # t => send'[u] = send[u]
  BY <1>0, <1>1 DEF Submit, SubmitStep, AbandonSubmit, ProbeLane, TryDirect, SendCheck, PollGate,
                    PollToken, LaneSend, SendTo
<1>4. mgr[Submitter[t]] \in Live
  <2>1. CASE Submit(t)
    BY <2>1 DEF Submit
  <2>2. CASE SubmitStep(t) \/ AbandonSubmit(t)
    BY <2>2 DEF SubmitStep, AbandonSubmit, ProbeLane, TryDirect, SendCheck, PollGate, PollToken,
                LaneSend, SubmitPoints, LoopsInv, CallersLive
  <2> QED
    BY <1>1, <2>1, <2>2
<1>5. producers # {}
  BY <1>0, <1>4 DEF LoopsInv, LivesProduce
<1>6. CallersLive'
  BY <1>2, <1>3, <1>4 DEF LoopsInv, CallersLive
<1>7. LivesProduce' /\ LoopsLeave'
  BY <1>2, <1>5 DEF LoopsInv, LivesProduce, LoopsLeave
<1> QED
  BY <1>6, <1>7 DEF LoopsInv

(***************************************************************************)
(* A spawned task at most lets its dispatcher or its submit call go on.    *)
(***************************************************************************)
LEMMA TaskLoops ==
  ASSUME RlxdInv, LoopsInv, TaskSide
  PROVE  LoopsInv'
<1>0. /\ send \in [Tasks -> {"idle", "ok"} \cup SubmitPoints \cup Refusals]
      /\ disp \in [Lanes -> DispatcherPoints]
  BY DEF RlxdInv, RlxdTypeOK
<1>1. PICK t \in Tasks : TaskStep(t) \/ \E outcome \in FutureOutcomes : FutureReady(t, outcome)
  BY DEF TaskSide
<1>2. UNCHANGED <<mgr, producers, shutdownToken, lanes>>
  BY <1>1 DEF TaskStep, SpawnInsert, Spawn, CancelArm, NotifyCompletion, Deregister,
              ReleasePermit, FutureReady, Decide, SendResult, taskFrame, managerVars
<1>3. /\ \A u \in Tasks : send'[u] = send[u] \/ send'[u] = "ok"
      /\ \A l \in Lanes : disp'[l] = disp[l] \/ disp'[l] = "top"
  <2>1. CASE Spawn(t)
    BY <1>0, <2>1 DEF Spawn, Step, SendTo, dispVars
  <2>2. CASE ~Spawn(t)
    BY <1>1, <2>2 DEF TaskStep, SpawnInsert, CancelArm, NotifyCompletion, Deregister,
                      ReleasePermit, FutureReady, Decide, SendResult, dispVars
  <2> QED
    BY <2>1, <2>2
<1>4. CallersLive'
  BY <1>2, <1>3 DEF LoopsInv, CallersLive, SubmitPoints
<1>5. LivesProduce' /\ LoopsLeave'
  BY <1>2, <1>3 DEF LoopsInv, LivesProduce, LoopsLeave
<1> QED
  BY <1>4, <1>5 DEF LoopsInv

(***************************************************************************)
(* Every break of run_worker_loop but the closed channel's has read the    *)
(* token, and that one finds the lane empty.                               *)
(***************************************************************************)
LEMMA DispatchLoops ==
  ASSUME RlxdInv, LoopsInv, DispatchSide
  PROVE  LoopsInv'
<1> USE DEF dispatchFrame, managerVars
<1>0. /\ disp \in [Lanes -> DispatcherPoints] /\ lanes \in [Lanes -> Seq(Tasks)]
  BY DEF RlxdInv, RlxdTypeOK
<1>1. PICK l \in Lanes : DispatchStep(l)
  BY DEF DispatchSide
<1>2. UNCHANGED <<send, mgr, producers, shutdownToken>>
  BY <1>1 DEF DispatchStep, DispatchTop, DispatchRecv, DispatchStop, DispatchGot,
              DispatchCancelCheck, DispatchPreNotify, DispatchAcquire, DispatchGiveUp,
              DispatchRecheck, DispatchExit
<1>3. \A k \in Lanes : k # l => disp'[k] = disp[k] /\ lanes'[k] = lanes[k]
  BY <1>0, <1>1
     DEF DispatchStep, DispatchTop, DispatchRecv, DispatchStop, DispatchGot,
         DispatchCancelCheck, DispatchPreNotify, DispatchAcquire, DispatchGiveUp,
         DispatchRecheck, DispatchExit, Step
<1>4. disp'[l] = "exiting" =>
        shutdownToken \/ (producers = {} /\ lanes[l] = <<>> /\ lanes' = lanes)
  BY <1>0, <1>1
     DEF DispatchStep, DispatchTop, DispatchRecv, DispatchStop, DispatchGot,
         DispatchCancelCheck, DispatchPreNotify, DispatchAcquire, DispatchGiveUp,
         DispatchRecheck, DispatchExit, Step
<1>5. CallersLive' /\ LivesProduce'
  BY <1>2 DEF LoopsInv, CallersLive, LivesProduce
<1>6. LoopsLeave'
  BY <1>2, <1>3, <1>4 DEF LoopsInv, LoopsLeave
<1> QED
  BY <1>5, <1>6 DEF LoopsInv

(***************************************************************************)
(* In every behaviour a loop leaves for one of the two reasons.            *)
(***************************************************************************)
LEMMA LoopsInvHolds == Spec => []LoopsInv
<1>1. Init => LoopsInv
  BY DEF Init, LoopsInv, CallersLive, LivesProduce, LoopsLeave, SubmitPoints, Live
<1>2. RlxdInv /\ LoopsInv /\ [Next]_vars => LoopsInv'
  <2> SUFFICES ASSUME RlxdInv, LoopsInv, [Next]_vars PROVE LoopsInv'
    OBVIOUS
  <2>1. CASE NotifierSide \/ UNCHANGED vars
    <3>1. UNCHANGED <<send, mgr, producers, shutdownToken, disp, lanes>>
      BY <2>1 DEF NotifierSide, AddCompletionHandler, FinishAddHandler, NotifierProgress,
                  notifierFrame, queueVars, dispVars, managerVars, vars
    <3> QED
      BY <3>1 DEF LoopsInv, CallersLive, LivesProduce, LoopsLeave
  <2> QED
    BY <2>1, NextByActor, ManagerLoops, SubmitLoops, TaskLoops, DispatchLoops
<1> QED
  BY <1>1, <1>2, RlxdInvariant, PTL DEF Spec

-----------------------------------------------------------------------------
(***************************************************************************)
(* The abstract stages and outcomes of all tasks.                          *)
(***************************************************************************)
Stages == [t \in Tasks |-> LifeStage(t)]
LifeOutcomes == [t \in Tasks |-> LifeOutcome(t)]

(***************************************************************************)
(* What the stages say of the pool: a call on its way, on the fast path    *)
(* too, has a new task; only an accepted task runs or has a result.        *)
(***************************************************************************)
LEMMA StageMeaning ==
  ASSUME RlxdInv, NEW t \in Tasks
  PROVE  /\ LifeStage(t) = "running" <=> phase[t] = "running"
         /\ phase[t] \in Statuses => LifeStage(t) = "decided"
         /\ phase[t] \in {"running"} \cup Statuses => send[t] = "ok" /\ result[t] = "pending"
         /\ result[t] # "pending" => send[t] = "ok"
         /\ send[t] \notin {"ok"} \cup Refusals => LifeStage(t) = "new"
         /\ (send[t] = "ok" /\ result[t] = "pending" /\ phase[t] \notin {"running"} \cup Statuses)
              => LifeStage(t) = "accepted"
<1>1. /\ phase[t] \in {"running"} \cup Statuses => send[t] = "ok" /\ result[t] = "pending"
      /\ result[t] # "pending" => send[t] = "ok"
  BY DEF RlxdInv, TasksPlaced, TaskPlaced
<1>2. t \in Running \cup Decided <=> phase[t] \in {"running"} \cup Statuses
  BY DEF Running, Decided
<1> QED
  BY <1>1, <1>2 DEF LifeStage, Refusals, Statuses

(***************************************************************************)
(* A step that concerns one task moves that task's stage and outcome only. *)
(***************************************************************************)
LEMMA StagesMove ==
  ASSUME NEW t \in Tasks,
         \A u \in Tasks : u # t => /\ send'[u] = send[u] /\ result'[u] = result[u]
                                   /\ phase'[u] = phase[u]
  PROVE  /\ Stages' = [Stages EXCEPT ![t] = LifeStage(t)']
         /\ LifeOutcomes' = [LifeOutcomes EXCEPT ![t] = LifeOutcome(t)']
<1>1. \A u \in Tasks : u # t => LifeStage(u)' = LifeStage(u) /\ LifeOutcome(u)' = LifeOutcome(u)
  BY DEF LifeStage, LifeOutcome, Running, Decided
<1> QED
  BY <1>1 DEF Stages, LifeOutcomes

(***************************************************************************)
(* A step that leaves calls, results and the running and decided tasks     *)
(* alone moves no stage and no outcome.                                    *)
(***************************************************************************)
LEMMA StagesStay ==
  ASSUME UNCHANGED <<send, result>>,
         \A u \in Tasks : \/ phase'[u] = phase[u]
                          \/ /\ phase[u] \notin {"running"} \cup Statuses
                             /\ phase'[u] \notin {"running"} \cup Statuses
  PROVE  Stages' = Stages /\ LifeOutcomes' = LifeOutcomes
<1>1. \A u \in Tasks : LifeStage(u)' = LifeStage(u) /\ LifeOutcome(u)' = LifeOutcome(u)
  BY DEF LifeStage, LifeOutcome, Running, Decided
<1> QED
  BY <1>1 DEF Stages, LifeOutcomes

(***************************************************************************)
(* What the steps of a submit call are to the task's life.                 *)
(***************************************************************************)
LEMMA SubmitLifeStep ==
  ASSUME RlxdInv, SubmitSide
  PROVE  [Life!LifeNext]_(Life!lifeVars)
<1>0. /\ send \in [Tasks -> {"idle", "ok"} \cup SubmitPoints \cup Refusals]
      /\ phase \in [Tasks -> Phases]
  BY DEF RlxdInv, RlxdTypeOK
<1>1. PICK t \in Tasks : Submit(t) \/ SubmitStep(t) \/ AbandonSubmit(t)
  BY DEF SubmitSide
<1>2. UNCHANGED <<cancelled, result, shutdownToken>>
  BY <1>1 DEF Submit, SubmitStep, AbandonSubmit, ProbeLane, TryDirect, SendCheck, PollGate,
              PollToken, LaneSend, submitFrame
<1>3. send[t] \notin {"ok"} \cup Refusals
  BY <1>1 DEF Submit, SubmitStep, AbandonSubmit, ProbeLane, TryDirect, SendCheck, PollGate,
              PollToken, LaneSend, Refusals
<1>4. \E x : send' = [send EXCEPT ![t] = x] \/ send' = send
  BY <1>1 DEF Submit, SubmitStep, AbandonSubmit, ProbeLane, TryDirect, SendCheck, PollGate,
              PollToken, LaneSend, SendTo
<1>5. phase' = phase \/ phase' = [phase EXCEPT ![t] = "spawning"]
  BY <1>1 DEF Submit, SubmitStep, AbandonSubmit, ProbeLane, TryDirect, SendCheck, PollGate,
              PollToken, LaneSend
<1>6. /\ LifeStage(t) = "new" /\ result[t] = "pending"
      /\ phase[t] \notin {"running"} \cup Statuses
  BY <1>3, StageMeaning
<1>7. /\ phase'[t] \notin {"running"} \cup Statuses
      /\ \A u \in Tasks : u # t => phase'[u] = phase[u]
  BY <1>0, <1>5, <1>6 DEF Statuses
<1>8. Stages' = [Stages EXCEPT ![t] = LifeStage(t)'] /\ LifeOutcomes' = LifeOutcomes
  <2>1. \A u \in Tasks : u # t => send'[u] = send[u]
    BY <1>0, <1>4
  <2>2. LifeOutcome(t)' = LifeOutcome(t)
    BY <1>2, <1>6, <1>7 DEF LifeOutcome
  <2> QED
    BY <1>2, <1>7, <2>1, <2>2, StagesMove DEF LifeOutcomes
<1>9. LifeStage(t)' \in {"new", "refused", "accepted"}
  BY <1>2, <1>6, <1>7 DEF LifeStage
<1>10. CASE LifeStage(t)' = "new"
  <2>1. Stages' = Stages
    BY <1>6, <1>8, <1>10 DEF Stages
  <2> QED
    BY <1>2, <1>8, <2>1 DEF Life!lifeVars, Stages, LifeOutcomes
<1>11. CASE LifeStage(t)' = "refused"
  <2>1. Life!Refuse(t)
    BY <1>2, <1>6, <1>8, <1>11 DEF Life!Refuse, Life!Move, Stages, LifeOutcomes
  <2> QED
    BY <2>1 DEF Life!LifeNext
<1>12. CASE LifeStage(t)' = "accepted"
  <2>1. Life!Accept(t)
    BY <1>2, <1>6, <1>8, <1>12 DEF Life!Accept, Life!Move, Stages, LifeOutcomes
  <2> QED
    BY <2>1 DEF Life!LifeNext
<1> QED
  BY <1>9, <1>10, <1>11, <1>12

(***************************************************************************)
(* The clones and the notifier may only signal the pool's shutdown or ask  *)
(* for one task's cancellation.                                            *)
(***************************************************************************)
LEMMA ManagerLifeStep ==
  ASSUME RlxdInv, [Next]_vars, ManagerCall \/ NotifierSide \/ UNCHANGED vars
  PROVE  [Life!LifeNext]_(Life!lifeVars)
<1>1. UNCHANGED <<send, phase, result>> /\ (shutdownToken => shutdownToken')
  <2>1. CASE ManagerCall
    BY <2>1, ManagerFrame DEF callFrame
  <2>2. CASE NotifierSide \/ UNCHANGED vars
    BY <2>2 DEF NotifierSide, AddCompletionHandler, FinishAddHandler, NotifierProgress,
                notifierFrame, queueVars, taskVars, vars
  <2> QED
    BY <2>1, <2>2
<1>2. Stages' = Stages /\ LifeOutcomes' = LifeOutcomes
  BY <1>1, StagesStay
<1>t. shutdownToken \in BOOLEAN /\ shutdownToken' \in BOOLEAN
  <2>1. ManagerTypes'
    BY ManagerTypesStep
  <2> QED
    BY <2>1 DEF RlxdInv, RlxdTypeOK, ManagerTypes
<1>3. \/ UNCHANGED cancelled
      \/ /\ UNCHANGED shutdownToken
         /\ \E t \in Tasks : cancelled' = [cancelled EXCEPT ![t] = TRUE]
  <2> USE DEF loopFrame, managerVars, loopVars
  <2>1. CASE NotifierSide \/ UNCHANGED vars
    BY <2>1 DEF NotifierSide, AddCompletionHandler, FinishAddHandler, NotifierProgress,
                notifierFrame, taskVars, vars
  <2>2. ASSUME NEW t \in Tasks, HandleCancel(t)
        PROVE  UNCHANGED shutdownToken /\ cancelled' = [cancelled EXCEPT ![t] = TRUE]
    BY <2>2 DEF HandleCancel
  <2>3. ASSUME NEW m \in Managers, NEW labels \in SUBSET Labels, CancelByLabels(m, labels)
        PROVE  UNCHANGED cancelled
    BY <2>3 DEF CancelByLabels
  <2>4. ASSUME NEW m \in Managers, NEW n \in Managers, Clone(m, n)
        PROVE  UNCHANGED cancelled
    BY <2>4 DEF Clone
  <2>5. ASSUME NEW m \in Managers, ShutdownBegin(m) \/ DropBegin(m)
        PROVE  UNCHANGED cancelled
    BY <2>5 DEF ShutdownBegin, DropBegin
  <2>6. ASSUME NEW m \in Managers, ManagerStep(m)
        PROVE  \/ UNCHANGED cancelled
               \/ /\ UNCHANGED shutdownToken
                  /\ \E t \in Tasks : cancelled' = [cancelled EXCEPT ![t] = TRUE]
    <3>1. CASE CancelCollected(m)
      <4>1. todo[m] \in SUBSET Tasks
        BY DEF RlxdInv, RlxdTypeOK
      <4> QED
        BY <3>1, <4>1 DEF CancelCollected
    <3>2. CASE Collect(m) \/ SignalShutdown(m) \/ CloseQueue(m) \/ DropSink(m) \/ DropFields(m)
      BY <3>2 DEF Collect, SignalShutdown, CloseQueue, DropSink, DropFields
    <3>3. CASE ShutdownStep(m)
      BY <3>3 DEF ShutdownStep, ShutdownCount, ShutdownTake, ShutdownJoin, ShutdownSink,
                  ShutdownNotifier, ShutdownNotifierJoined, ShutdownTimeout
    <3> QED
      BY <2>6, <3>1, <3>2, <3>3 DEF ManagerStep
  <2> QED
    BY <2>1, <2>2, <2>3, <2>4, <2>5, <2>6 DEF ManagerCall
<1>4. CASE UNCHANGED cancelled
  <2>1. CASE UNCHANGED shutdownToken
    BY <1>2, <1>4, <2>1 DEF Life!lifeVars, Stages, LifeOutcomes
  <2>2. CASE shutdownToken' = TRUE
    <3>1. Life!Close
      BY <1>2, <1>4, <2>2 DEF Life!Close, Stages, LifeOutcomes
    <3> QED
      BY <3>1 DEF Life!LifeNext
  <2> QED
    BY <1>1, <1>t, <2>1, <2>2
<1>5. ASSUME NEW t \in Tasks, cancelled' = [cancelled EXCEPT ![t] = TRUE],
             UNCHANGED shutdownToken
      PROVE  [Life!LifeNext]_(Life!lifeVars)
  <2>1. cancelled \in [Tasks -> BOOLEAN]
    BY DEF RlxdInv, RlxdTypeOK
  <2>2. CASE cancelled[t]
    <3>1. cancelled' = cancelled
      BY <1>5, <2>1, <2>2
    <3> QED
      BY <1>4, <3>1
  <2>3. CASE ~cancelled[t]
    <3>1. Life!Ask(t)
      BY <1>1, <1>2, <1>5, <2>3 DEF Life!Ask, Stages, LifeOutcomes
    <3> QED
      BY <3>1 DEF Life!LifeNext
  <2> QED
    BY <2>2, <2>3
<1> QED
  BY <1>3, <1>4, <1>5

(***************************************************************************)
(* A step that changes nothing of calls, phases, flags and results is      *)
(* invisible.                                                              *)
(***************************************************************************)
LEMMA LifeStutter ==
  ASSUME UNCHANGED <<send, cancelled, result, shutdownToken>>,
         \A u \in Tasks : \/ phase'[u] = phase[u]
                          \/ /\ phase[u] \notin {"running"} \cup Statuses
                             /\ phase'[u] \notin {"running"} \cup Statuses
  PROVE  [Life!LifeNext]_(Life!lifeVars)
<1>1. Stages' = Stages /\ LifeOutcomes' = LifeOutcomes
  BY StagesStay
<1> QED
  BY <1>1 DEF Life!lifeVars, Stages, LifeOutcomes

(***************************************************************************)
(* No more tasks hold a permit than the concurrency limit allows, so while *)
(* one of them has yet to start, fewer than that run.                      *)
(***************************************************************************)
LEMMA RunningLeavesRoom ==
  ASSUME RlxdInv
  PROVE  /\ Cardinality(Running) <= ConcurrencyPermits
         /\ \A t \in Tasks : phase[t] = "spawning" => Cardinality(Running) < ConcurrencyPermits
<1>1. PermitTasks \in SUBSET Tasks /\ Running \in SUBSET Tasks /\ Running \in SUBSET PermitTasks
  BY DEF PermitTasks, Running
<1>2. /\ IsFiniteSet(PermitTasks) /\ Cardinality(PermitTasks) \in Nat
      /\ IsFiniteSet(Running) /\ Cardinality(Running) \in Nat
  BY <1>1, FiniteTaskSets
<1>3. Cardinality(Running) <= Cardinality(PermitTasks)
  BY <1>1, <1>2, FS_Subset
<1>4. Cardinality(PermitTasks) <= ConcurrencyPermits /\ ConcurrencyPermits \in Nat
  <2>1. Deciding \in SUBSET Lanes /\ cPermits \in Nat
    BY DEF RlxdInv, RlxdTypeOK, Deciding
  <2>2. Cardinality(Deciding) \in Nat
    BY <2>1, LanesFinite
  <2>3. cPermits + Cardinality(PermitTasks) + Cardinality(Deciding) = ConcurrencyPermits
    BY DEF RlxdInv, RunPermitConservation, PermitTasks, Deciding
  <2> QED
    BY <1>2, <2>1, <2>2, <2>3
<1>5. ASSUME NEW t \in Tasks, phase[t] = "spawning"
      PROVE  Cardinality(Running) < ConcurrencyPermits
  <2>1. t \in PermitTasks /\ t \notin Running
    BY <1>5 DEF PermitTasks, Running
  <2>2. Cardinality(Running) # Cardinality(PermitTasks)
    BY <1>1, <1>2, <2>1, FS_Subset
  <2> QED
    BY <1>2, <1>3, <1>4, <2>2
<1> QED
  BY <1>2, <1>3, <1>4, <1>5

(***************************************************************************)
(* A spawned task leaves the rest of the pool a permit short of the limit, *)
(* on either path; its outcome is decided once, as its flag says, and      *)
(* delivered; what it does after that is invisible.                        *)
(***************************************************************************)
LEMMA TaskLifeStep ==
  ASSUME RlxdInv, TaskSide
  PROVE  [Life!LifeNext]_(Life!lifeVars)
<1> USE DEF taskVars, taskFrame
<1>0. /\ send \in [Tasks -> {"idle", "ok"} \cup SubmitPoints \cup Refusals]
      /\ phase \in [Tasks -> Phases]
      /\ result \in [Tasks -> {"pending", "Closed"} \cup Statuses]
  BY DEF RlxdInv, RlxdTypeOK
<1>1. PICK t \in Tasks : TaskStep(t) \/ \E outcome \in FutureOutcomes : FutureReady(t, outcome)
  BY DEF TaskSide
<1>2. CASE SpawnInsert(t) \/ Deregister(t)
  BY <1>2, LifeStutter DEF SpawnInsert, Deregister
<1>3. CASE NotifyCompletion(t) \/ ReleasePermit(t)
  <2>1. \A u \in Tasks : \/ phase'[u] = phase[u]
                         \/ /\ phase[u] \notin {"running"} \cup Statuses
                            /\ phase'[u] \notin {"running"} \cup Statuses
    BY <1>0, <1>3 DEF NotifyCompletion, ReleasePermit, Become, Statuses
  <2> QED
    BY <1>3, <2>1, LifeStutter DEF NotifyCompletion, ReleasePermit
<1>4. CASE CancelArm(t) \/ \E outcome \in FutureOutcomes : FutureReady(t, outcome)
  <2>1. PICK o \in IF cancelled[t] THEN {"Cancelled"} ELSE {"Success", "Panicked"} :
          Decide(t, o)
    BY <1>4, RlxdAssumption DEF CancelArm, FutureReady
  <2>2. /\ phase[t] = "running" /\ phase' = [phase EXCEPT ![t] = o]
        /\ UNCHANGED <<send, cancelled, result, shutdownToken>>
    BY <2>1 DEF Decide, Become
  <2>3. /\ Stages' = [Stages EXCEPT ![t] = LifeStage(t)']
        /\ LifeOutcomes' = [LifeOutcomes EXCEPT ![t] = LifeOutcome(t)']
    BY <1>0, <2>2, StagesMove
  <2>4. LifeStage(t) = "running" /\ send[t] = "ok" /\ result[t] = "pending"
    BY <2>2, StageMeaning
  <2>5. o \in Statuses /\ phase'[t] = o /\ phase'[t] # "running"
    BY <1>0, <2>1, <2>2 DEF Statuses
  <2>6. LifeStage(t)' = "decided" /\ LifeOutcome(t)' = o
    BY <2>2, <2>4, <2>5 DEF LifeStage, LifeOutcome, Refusals, Running, Decided, Statuses
  <2>7. Life!Decide(t)
    BY <2>1, <2>2, <2>3, <2>4, <2>6 DEF Life!Decide, Life!Move, Stages, LifeOutcomes
  <2> QED
    BY <2>7 DEF Life!LifeNext
<1>6. CASE SendResult(t)
  <2>1. /\ phase[t] \in Statuses /\ result' = [result EXCEPT ![t] = phase[t]]
        /\ phase' = [phase EXCEPT ![t] = "resulted"]
        /\ UNCHANGED <<send, cancelled, shutdownToken>>
    BY <1>6 DEF SendResult, Become
  <2>2. /\ Stages' = [Stages EXCEPT ![t] = LifeStage(t)']
        /\ LifeOutcomes' = [LifeOutcomes EXCEPT ![t] = LifeOutcome(t)']
    BY <1>0, <2>1, StagesMove
  <2>3. LifeStage(t) = "decided" /\ LifeOutcome(t) = phase[t] /\ send[t] = "ok"
    BY <2>1, StageMeaning DEF LifeOutcome
  <2>4. /\ result'[t] = phase[t] /\ result'[t] # "pending"
        /\ phase'[t] \notin {"running"} \cup Statuses /\ send'[t] = "ok"
    BY <1>0, <2>1, <2>3 DEF Statuses
  <2>5. LifeStage(t)' = "ended" /\ LifeOutcome(t)' = LifeOutcome(t)
    BY <2>3, <2>4 DEF LifeStage, LifeOutcome, Refusals
  <2>6. LifeOutcomes' = LifeOutcomes
    BY <2>2, <2>5 DEF LifeOutcomes
  <2>7. Life!Deliver(t)
    BY <2>1, <2>2, <2>3, <2>5, <2>6 DEF Life!Deliver, Life!Move, Stages, LifeOutcomes
  <2> QED
    BY <2>7 DEF Life!LifeNext
<1>5. CASE Spawn(t)
  <2>1. /\ phase[t] = "spawning" /\ phase' = [phase EXCEPT ![t] = "running"]
        /\ UNCHANGED <<cancelled, result, shutdownToken>>
    BY <1>5 DEF Spawn, Become
  <2>2. /\ send'[t] = "ok" /\ result[t] = "pending"
        /\ LifeStage(t) \in {"new", "accepted"}
        /\ \A u \in Tasks : u # t => send'[u] = send[u]
    <3>1. CASE send[t] = "dispatching"
      <4>1. send' = [send EXCEPT ![t] = "ok"]
        BY <1>5, <3>1 DEF Spawn, SendTo
      <4> QED
        BY <1>0, <3>1, <4>1, StageMeaning DEF Refusals
    <3>2. CASE send[t] # "dispatching"
      <4>1. UNCHANGED send
        BY <1>5, <3>2 DEF Spawn
      <4>2. send[t] = "ok" /\ result[t] = "pending"
        BY <2>1, <3>2, SpawningPlaced, RlxdInvParts
      <4> QED
        BY <2>1, <4>1, <4>2, StageMeaning DEF Statuses
    <3> QED
      BY <3>1, <3>2
  <2>3. phase'[t] = "running" /\ \A u \in Tasks : u # t => phase'[u] = phase[u]
    BY <1>0, <2>1
  <2>4. /\ Stages' = [Stages EXCEPT ![t] = LifeStage(t)']
        /\ LifeOutcomes' = [LifeOutcomes EXCEPT ![t] = LifeOutcome(t)']
    BY <2>1, <2>2, <2>3, StagesMove
  <2>5. LifeStage(t)' = "running" /\ LifeOutcomes' = LifeOutcomes
    BY <2>1, <2>2, <2>3, <2>4
       DEF LifeStage, LifeOutcome, LifeOutcomes, Refusals, Statuses, Running, Decided
  <2>6. {u \in Tasks : Stages[u] = "running"} = Running
    BY StageMeaning DEF Stages, Running
  <2>7. Cardinality(Running) < ConcurrencyPermits
    BY <2>1, RunningLeavesRoom
  <2>8. Life!Start(t)
    BY <2>1, <2>2, <2>4, <2>5, <2>6, <2>7
       DEF Life!Start, Life!Move, Stages, LifeOutcomes, Life!Cardinality, Cardinality
  <2> QED
    BY <2>8 DEF Life!LifeNext
<1> QED
  BY <1>1, <1>2, <1>3, <1>4, <1>5, <1>6 DEF TaskStep

(***************************************************************************)
(* A dispatcher that drops the task in its hand: at the last look at the   *)
(* token, when it gives up its wait, or when it took the task too late.    *)
(***************************************************************************)
LEMMA DropLifeStep ==
  ASSUME RlxdInv, NEW l \in Lanes, disp[l] \in InHandPoints \ {"prenotify", "spawning"},
         shutdownToken, DropTask(l), UNCHANGED <<send, phase, cancelled, shutdownToken>>
  PROVE  [Life!LifeNext]_(Life!lifeVars)
<1>1. PICK t \in Tasks : /\ dtask[l] = t /\ send[t] = "ok" /\ phase[t] = "none"
                         /\ result[t] = "pending"
  BY HandPlaced, RlxdInvParts
<1>2. result \in [Tasks -> {"pending", "Closed"} \cup Statuses]
  BY DEF RlxdInv, RlxdTypeOK
<1>3. result' = [result EXCEPT ![t] = "Closed"]
  BY <1>1 DEF DropTask
<1>4. LifeStage(t) = "accepted"
  BY <1>1, StageMeaning DEF Statuses
<1>5. /\ Stages' = [Stages EXCEPT ![t] = LifeStage(t)']
      /\ LifeOutcomes' = [LifeOutcomes EXCEPT ![t] = LifeOutcome(t)']
  BY <1>2, <1>3, StagesMove
<1>6. LifeStage(t)' = "ended" /\ LifeOutcome(t)' = "Closed"
  BY <1>1, <1>2, <1>3 DEF LifeStage, LifeOutcome, Refusals, Statuses
<1>7. Life!Discard({t})
  BY <1>4, <1>5, <1>6 DEF Life!Discard, Stages, LifeOutcomes
<1> QED
  BY <1>7 DEF Life!LifeNext

(***************************************************************************)
(* A dispatcher skips a cancelled task and discards only what was never    *)
(* started, once the pool is closing; the rest of its loop is invisible.   *)
(***************************************************************************)
LEMMA DispatchLifeStep ==
  ASSUME RlxdInv, LoopsInv, DispatchSide
  PROVE  [Life!LifeNext]_(Life!lifeVars)
<1> USE DEF dispatchFrame
<1>0. /\ phase \in [Tasks -> Phases]
      /\ result \in [Tasks -> {"pending", "Closed"} \cup Statuses]
  BY DEF RlxdInv, RlxdTypeOK
<1>1. PICK l \in Lanes : DispatchStep(l)
  BY DEF DispatchSide
<1>2. CASE \/ DispatchTop(l) \/ DispatchRecv(l) \/ DispatchStop(l) \/ DispatchPreNotify(l)
           \/ DispatchAcquire(l)
  BY <1>2, LifeStutter DEF DispatchTop, DispatchRecv, DispatchStop, DispatchPreNotify,
                           DispatchAcquire
<1>3. CASE DispatchGot(l)
  <2>1. CASE shutdownToken
    BY <1>3, <2>1, DropLifeStep DEF DispatchGot, InHandPoints
  <2>2. CASE ~shutdownToken
    BY <1>3, <2>2, LifeStutter DEF DispatchGot, KeepTask
  <2> QED
    BY <2>1, <2>2
<1>4. CASE DispatchGiveUp(l)
  BY <1>4, DropLifeStep DEF DispatchGiveUp, InHandPoints
<1>5. CASE DispatchCancelCheck(l)
  <2>1. CASE cancelled[dtask[l]]
    <3>1. PICK t \in Tasks : /\ dtask[l] = t /\ send[t] = "ok" /\ phase[t] = "none"
                             /\ result[t] = "pending"
      BY <1>5, HandPlaced, RlxdInvParts DEF DispatchCancelCheck, InHandPoints
    <3>2. /\ result' = [result EXCEPT ![t] = "Cancelled"]
          /\ UNCHANGED <<send, phase, cancelled, shutdownToken>>
      BY <1>5, <2>1, <3>1 DEF DispatchCancelCheck
    <3>3. /\ Stages' = [Stages EXCEPT ![t] = LifeStage(t)']
          /\ LifeOutcomes' = [LifeOutcomes EXCEPT ![t] = LifeOutcome(t)']
      BY <1>0, <3>2, StagesMove
    <3>4. LifeStage(t) = "accepted"
      BY <3>1, StageMeaning DEF Statuses
    <3>5. LifeStage(t)' = "ended" /\ LifeOutcome(t)' = "Cancelled"
      BY <1>0, <3>1, <3>2 DEF LifeStage, LifeOutcome, Refusals, Statuses
    <3>6. Life!Skip(t)
      BY <2>1, <3>1, <3>2, <3>3, <3>4, <3>5 DEF Life!Skip, Life!Move, Stages, LifeOutcomes
    <3> QED
      BY <3>6 DEF Life!LifeNext
  <2>2. CASE ~cancelled[dtask[l]]
    BY <1>5, <2>2, LifeStutter DEF DispatchCancelCheck
  <2> QED
    BY <2>1, <2>2
<1>6. CASE DispatchRecheck(l)
  <2>1. CASE shutdownToken
    BY <1>6, <2>1, DropLifeStep DEF DispatchRecheck, InHandPoints
  <2>2. CASE ~shutdownToken
    <3>1. PICK t \in Tasks : dtask[l] = t /\ phase[t] = "none"
      BY <1>6, HandPlaced, RlxdInvParts DEF DispatchRecheck, InHandPoints
    <3>2. \A u \in Tasks : \/ phase'[u] = phase[u]
                           \/ /\ phase[u] \notin {"running"} \cup Statuses
                              /\ phase'[u] \notin {"running"} \cup Statuses
      BY <1>0, <1>6, <2>2, <3>1 DEF DispatchRecheck, Statuses
    <3> QED
      BY <1>6, <2>2, <3>2, LifeStutter DEF DispatchRecheck, KeepTask
  <2> QED
    BY <2>1, <2>2
<1>7. CASE DispatchExit(l)
  <2> DEFINE S == LaneTasks(l)
  <2>1. /\ result' = [t \in Tasks |-> IF t \in S THEN "Closed" ELSE result[t]]
        /\ UNCHANGED <<send, phase, cancelled, shutdownToken>>
    BY <1>7 DEF DispatchExit, LaneTasks, InLane
  <2>2. S \in SUBSET Tasks
    BY DEF LaneTasks
  <2>3. \A t \in S : send[t] = "ok" /\ phase[t] = "none" /\ LifeStage(t) = "accepted"
    <3> SUFFICES ASSUME NEW t \in S
                 PROVE  send[t] = "ok" /\ phase[t] = "none" /\ LifeStage(t) = "accepted"
      OBVIOUS
    <3>1. t \in Tasks /\ InLane(l, t) /\ lane[t] = l /\ TaskPlaced(t)
      BY DEF LaneTasks, RlxdInv, LanesHold, TasksPlaced
    <3>2. send[t] = "ok" /\ result[t] = "pending" /\ phase[t] = "none"
      BY <3>1 DEF TaskPlaced
    <3> QED
      BY <3>1, <3>2, StageMeaning DEF Statuses
  <2>e. shutdownToken \/ S = {}
    <3>1. shutdownToken \/ lanes[l] = <<>>
      BY <1>7 DEF DispatchExit, LoopsInv, LoopsLeave
    <3> QED
      BY <3>1 DEF LaneTasks, InLane
  <2> HIDE DEF S
  <2>4. \A t \in Tasks : /\ LifeStage(t)' = IF t \in S THEN "ended" ELSE LifeStage(t)
                         /\ LifeOutcome(t)' = IF t \in S THEN "Closed" ELSE LifeOutcome(t)
    <3>1. \A t \in S : send'[t] = "ok" /\ result'[t] = "Closed" /\ phase'[t] = "none"
      BY <2>1, <2>2, <2>3
    <3>2. \A t \in Tasks \ S : send'[t] = send[t] /\ result'[t] = result[t]
                               /\ phase'[t] = phase[t]
      BY <2>1
    <3>3. \A t \in S : LifeStage(t)' = "ended" /\ LifeOutcome(t)' = "Closed"
      BY <3>1 DEF LifeStage, LifeOutcome, Refusals, Statuses
    <3>4. \A t \in Tasks \ S : LifeStage(t)' = LifeStage(t) /\ LifeOutcome(t)' = LifeOutcome(t)
      BY <3>2 DEF LifeStage, LifeOutcome, Running, Decided
    <3> QED
      BY <3>3, <3>4
  <2>5. CASE shutdownToken
    <3>1. Life!Discard(S)
      BY <2>1, <2>2, <2>3, <2>4, <2>5 DEF Life!Discard
    <3> QED
      BY <2>2, <3>1 DEF Life!LifeNext
  <2>6. CASE ~shutdownToken
    <3>1. result' = result
      BY <1>0, <2>1, <2>6, <2>e
    <3> QED
      BY <2>1, <3>1, LifeStutter
  <2> QED
    BY <2>5, <2>6
<1> QED
  BY <1>1, <1>2, <1>3, <1>4, <1>5, <1>6, <1>7 DEF DispatchStep

(***************************************************************************)
(* The relaxed pool implements the abstract life of a task, whichever path *)
(* the task takes and however many dispatchers there are: the concurrency  *)
(* limit, final results, a cancellation that wins if it comes before the   *)
(* outcome is decided, refused tasks that never run, and nothing discarded *)
(* that has started or before the pool is closing.                         *)
(***************************************************************************)
THEOREM RlxdLifecycleRefinement == Spec => RlxdImplementsLifecycle
<1>1. Init => Life!LifeInit
  <2> SUFFICES ASSUME Init PROVE Life!LifeInit
    OBVIOUS
  <2>1. \A t \in Tasks : LifeStage(t) = "new"
    BY DEF Init, LifeStage, Refusals, Statuses, Running, Decided
  <2>2. \A t \in Tasks : LifeOutcome(t) = "pending"
    BY DEF Init, LifeOutcome, Statuses
  <2> QED
    BY <2>1, <2>2 DEF Init, Life!LifeInit
<1>2. RlxdInv /\ LoopsInv /\ [Next]_vars => [Life!LifeNext]_(Life!lifeVars)
  BY NextByActor, SubmitLifeStep, ManagerLifeStep, TaskLifeStep, DispatchLifeStep
<1> QED
  BY <1>1, <1>2, RlxdInvariant, LoopsInvHolds, PTL
     DEF Spec, RlxdImplementsLifecycle, Life!LifeSpec

-----------------------------------------------------------------------------
(***************************************************************************)
(* What the shutdown of the pool's only clone has established by each      *)
(* point.  With no other clone about, the token is clear until the clone   *)
(* itself sets it, so its shutdown is the first and finds every handle:    *)
(* it joins the dispatchers in turn, closes the sink and then joins the    *)
(* notifier, which nobody can start again.  Every loop begins at lane 0.   *)
(***************************************************************************)
Sole(m) == \A n \in Managers \ {m} : mgr[n] = "absent"

LoopPoints == {"label_collect", "shutdown_collect", "shutdown_count", "shutdown_wait",
               "shutdown_join"}
PastNotifier == {"shutdown_return", "shut"}
PastSink == {"shutdown_notifier", "shutdown_notifier_join"} \cup PastNotifier
PastJoin == {"shutdown_sink"} \cup PastSink
PastTake == {"shutdown_join"} \cup PastJoin

SoleShutdown(m) ==
  /\ mgr[m] \notin LoopPoints => at[m] = 0
  /\ Sole(m) =>
       /\ shutdownToken => mgr[m] \in InShutdown \cup InDrop \cup Gone
       /\ mgr[m] \in InShutdown \cup {"shut"} => first[m]
       /\ ~joinHandles => mgr[m] \in PastTake \cup {"dropped"}
       /\ mgr[m] = "shutdown_join" => \A l \in Lanes : l < at[m] => disp[l] = "exited"
       /\ mgr[m] \in PastJoin => \A l \in Lanes : disp[l] = "exited"
       /\ mgr[m] \in PastSink => sink # "open"
       /\ nworker # "none" /\ ~notifierHandle =>
            mgr[m] \in PastNotifier \cup {"shutdown_notifier_join"}
       /\ mgr[m] \in PastNotifier => nworker \in {"none", "stopped"}

ShutdownInv == ~TimeoutsFire => \A m \in Managers : SoleShutdown(m)

(***************************************************************************)
(* A dispatcher that has left stays away.                                  *)
(***************************************************************************)
LEMMA ExitedStays ==
  ASSUME RlxdInv, SubmitSide \/ TaskSide \/ DispatchSide \/ UNCHANGED vars
  PROVE  \A l \in Lanes : disp[l] = "exited" => disp'[l] = "exited"
<1>0. disp \in [Lanes -> DispatcherPoints]
  BY DEF RlxdInv, RlxdTypeOK
<1>1. CASE SubmitSide \/ UNCHANGED vars
  BY <1>1 DEF SubmitSide, Submit, SubmitStep, AbandonSubmit, ProbeLane, TryDirect, SendCheck,
              PollGate, PollToken, LaneSend, submitFrame, dispVars, vars
<1>2. CASE TaskSide
  <2>1. PICK t \in Tasks : TaskStep(t) \/ \E outcome \in FutureOutcomes : FutureReady(t, outcome)
    BY <1>2 DEF TaskSide
  <2>2. CASE Spawn(t)
    <3>1. CASE send[t] = "dispatching"
      BY <2>2, <3>1 DEF Spawn, dispVars
    <3>2. CASE send[t] # "dispatching"
      <4>1. lane[t] \in Lanes /\ disp[lane[t]] = "spawning"
        BY <2>2, <3>2, SpawningPlaced, RlxdInvParts DEF Spawn
      <4>2. disp' = [disp EXCEPT ![lane[t]] = "top"]
        BY <2>2, <3>2 DEF Spawn, Step
      <4> QED
        BY <1>0, <4>1, <4>2
    <3> QED
      BY <3>1, <3>2
  <2>3. CASE ~Spawn(t)
    BY <2>1, <2>3 DEF TaskStep, SpawnInsert, CancelArm, NotifyCompletion, Deregister,
                      ReleasePermit, FutureReady, Decide, SendResult, dispVars
  <2> QED
    BY <2>2, <2>3
<1>3. CASE DispatchSide
  <2>1. PICK l \in Lanes : DispatchStep(l)
    BY <1>3 DEF DispatchSide
  <2>2. disp[l] # "exited" /\ \E p : disp' = [disp EXCEPT ![l] = p]
    BY <2>1 DEF DispatchStep, DispatchTop, DispatchRecv, DispatchStop, DispatchGot,
                DispatchCancelCheck, DispatchPreNotify, DispatchAcquire, DispatchGiveUp,
                DispatchRecheck, DispatchExit, Step
  <2> QED
    BY <1>0, <2>2
<1> QED
  BY <1>1, <1>2, <1>3

(***************************************************************************)
(* A step of nobody's clone keeps what a shutdown has established: a       *)
(* dispatcher may leave, the notifier may go on or stop, and a new channel *)
(* for completions needs a live clone.                                     *)
(***************************************************************************)
LEMMA ShutdownUntouched ==
  ASSUME NEW m \in Managers, SoleShutdown(m),
         mgr \in [Managers -> Live \cup InShutdown \cup InDrop \cup Gone],
         UNCHANGED <<mgr, first, at, joinHandles, shutdownToken>>,
         \A l \in Lanes : disp[l] = "exited" => disp'[l] = "exited",
         \/ /\ sink' = "open" => sink = "open"
            /\ nworker \in {"none", "stopped"} => nworker' = nworker
         \/ \E n \in Managers : mgr[n] \in Live,
         nworker' # "none" /\ ~notifierHandle' => nworker # "none" /\ ~notifierHandle
  PROVE  SoleShutdown(m)'
<1>1. Sole(m)' <=> Sole(m)
  BY DEF Sole
<1>2. Sole(m) /\ mgr[m] \in PastSink =>
        /\ sink' = "open" => sink = "open"
        /\ nworker \in {"none", "stopped"} => nworker' = nworker
  BY DEF Sole, Live, PastSink, PastNotifier
<1> QED
  BY <1>1, <1>2 DEF SoleShutdown, PastSink, PastNotifier

(***************************************************************************)
(* The steps of the submit calls, the tasks, the dispatchers and the       *)
(* notifier are of that kind.                                              *)
(***************************************************************************)
LEMMA OthersKeepShutdown ==
  ASSUME RlxdInv, NEW m \in Managers, SoleShutdown(m),
         SubmitSide \/ TaskSide \/ DispatchSide \/ NotifierSide \/ UNCHANGED vars
  PROVE  SoleShutdown(m)'
<1> USE DEF managerVars, loopVars
<1>0. /\ mgr \in [Managers -> Live \cup InShutdown \cup InDrop \cup Gone]
      /\ Registrar \in [Handlers -> Managers]
  BY CallersAssumption DEF RlxdInv, RlxdTypeOK
<1>1. CASE SubmitSide \/ UNCHANGED vars
  <2>1. UNCHANGED <<mgr, first, at, joinHandles, shutdownToken, sink, nworker, notifierHandle>>
    BY <1>1 DEF SubmitSide, Submit, SubmitStep, AbandonSubmit, ProbeLane, TryDirect, SendCheck,
                PollGate, PollToken, LaneSend, submitFrame, vars, queueVars, notifierVars
  <2> QED
    BY <1>0, <1>1, <2>1, ExitedStays, ShutdownUntouched
<1>2. CASE TaskSide
  <2>1. UNCHANGED <<mgr, first, at, joinHandles, shutdownToken, sink, nworker, notifierHandle>>
    BY <1>2 DEF TaskSide, TaskStep, SpawnInsert, Spawn, CancelArm, NotifyCompletion, Deregister,
                ReleasePermit, FutureReady, Decide, SendResult, taskFrame, notifierVars,
                CaptureSender, SendCompletion
  <2> QED
    BY <1>0, <1>2, <2>1, ExitedStays, ShutdownUntouched
<1>3. CASE DispatchSide
  <2>1. /\ UNCHANGED <<mgr, first, at, joinHandles, shutdownToken, nworker, notifierHandle>>
        /\ sink' = "open" => sink = "open"
    BY <1>3 DEF DispatchSide, DispatchStep, DispatchTop, DispatchRecv, DispatchStop, DispatchGot,
                DispatchCancelCheck, DispatchPreNotify, DispatchAcquire, DispatchGiveUp,
                DispatchRecheck, DispatchExit, dispatchFrame, notifierVars, SendPreCancelled,
                CloseSink
  <2> QED
    BY <1>0, <1>3, <2>1, ExitedStays, ShutdownUntouched
<1>4. CASE NotifierSide
  <2>1. UNCHANGED <<mgr, first, at, joinHandles, shutdownToken, disp>>
    BY <1>4 DEF NotifierSide, AddCompletionHandler, FinishAddHandler, NotifierProgress,
                notifierFrame, queueVars, dispVars
  <2>2. ASSUME NEW h \in Handlers, AddCompletionHandler(h) PROVE SoleShutdown(m)'
    <3>1. \E n \in Managers : mgr[n] \in Live
      BY <1>0, <2>2 DEF AddCompletionHandler
    <3>2. nworker' # "none" /\ ~notifierHandle' => nworker # "none" /\ ~notifierHandle
      BY <2>2 DEF AddCompletionHandler, AddHandlerInit
    <3> QED
      BY <1>0, <2>1, <3>1, <3>2, ShutdownUntouched
  <2>3. ASSUME NEW h \in Handlers, FinishAddHandler(h) PROVE SoleShutdown(m)'
    <3>1. UNCHANGED <<sink, nworker, notifierHandle>>
      BY <2>3 DEF FinishAddHandler, AddHandlerPush
    <3> QED
      BY <1>0, <2>1, <3>1, ShutdownUntouched
  <2>4. CASE NotifierProgress
    <3>1. /\ UNCHANGED <<sink, notifierHandle>>
          /\ nworker \in {"none", "stopped"} => nworker' = nworker
          /\ nworker' # "none" => nworker # "none"
      BY <2>4 DEF NotifierProgress, NotifierStep, NotifierRecv, NotifierCall, NotifierStop
    <3> QED
      BY <1>0, <2>1, <3>1, ShutdownUntouched
  <2> QED
    BY <1>4, <2>2, <2>3, <2>4 DEF NotifierSide
<1> QED
  BY <1>1, <1>2, <1>3, <1>4

-----------------------------------------------------------------------------
(***************************************************************************)
(* A clone's own step changes the place of no other clone, and the clone   *)
(* was there before and is there, or has ended, after.                     *)
(***************************************************************************)
OwnStep(n) ==
  \/ \E labels \in SUBSET Labels : CancelByLabels(n, labels)
  \/ ShutdownBegin(n) \/ DropBegin(n) \/ ManagerStep(n)

(***************************************************************************)
(* The other clones, whose calls are futures of their own, stay put.       *)
(***************************************************************************)
LEMMA OwnStepMoves ==
  ASSUME RlxdInv, NEW n \in Managers, OwnStep(n)
  PROVE  /\ \A k \in Managers \ {n} : mgr'[k] = mgr[k] /\ at'[k] = at[k]
         /\ mgr[n] # "absent" /\ mgr'[n] # "absent"
<1> USE DEF loopVars, loopFrame, Goto
<1>0. mgr \in [Managers -> Live \cup InShutdown \cup InDrop \cup Gone] /\ at \in [Managers -> Lanes]
  BY DEF RlxdInv, RlxdTypeOK
<1>1. CASE ShutdownBegin(n) \/ DropBegin(n)
  BY <1>0, <1>1 DEF ShutdownBegin, DropBegin, Unborrowed
<1>2. ASSUME NEW labels \in SUBSET Labels, CancelByLabels(n, labels)
      PROVE  /\ \A k \in Managers \ {n} : mgr'[k] = mgr[k] /\ at'[k] = at[k]
             /\ mgr[n] # "absent" /\ mgr'[n] # "absent"
  BY <1>0, <1>2 DEF CancelByLabels
<1>3. CASE Collect(n)
  BY <1>0, <1>3 DEF Collect, Turn
<1>4. CASE CancelCollected(n)
  BY <1>0, <1>4 DEF CancelCollected
<1>5. CASE SignalShutdown(n) \/ CloseQueue(n) \/ DropSink(n) \/ DropFields(n)
  BY <1>0, <1>5 DEF SignalShutdown, CloseQueue, DropSink, DropFields
<1>6. CASE ShutdownCount(n) \/ ShutdownJoin(n) \/ ShutdownTimeout(n)
  BY <1>0, <1>6 DEF ShutdownCount, ShutdownJoin, ShutdownTimeout, Turn
<1>7. CASE ShutdownTake(n) \/ ShutdownSink(n) \/ ShutdownNotifier(n) \/ ShutdownNotifierJoined(n)
  BY <1>0, <1>7 DEF ShutdownTake, ShutdownSink, ShutdownNotifier, ShutdownNotifierJoined
<1> QED
  BY <1>1, <1>2, <1>3, <1>4, <1>5, <1>6, <1>7 DEF OwnStep, ManagerStep, ShutdownStep

(***************************************************************************)
(* Up to the end of the wait for the active tasks: the token is set by the *)
(* clone itself, so its shutdown is the first.                             *)
(***************************************************************************)
LEMMA SignalKeepsShutdown ==
  ASSUME RlxdInv, NEW m \in Managers, SoleShutdown(m), Sole(m)' <=> Sole(m),
         \/ \E labels \in SUBSET Labels : CancelByLabels(m, labels)
         \/ ShutdownBegin(m) \/ DropBegin(m) \/ SignalShutdown(m) \/ CloseQueue(m)
         \/ Collect(m) \/ CancelCollected(m) \/ ShutdownCount(m)
  PROVE  SoleShutdown(m)'
<1> USE DEF loopVars, loopFrame, callFrame, dispVars, notifierVars, Goto
<1> USE DEF Live, InShutdown, InDrop, Gone, LoopPoints, PastTake, PastJoin, PastSink,
            PastNotifier
<1>0. /\ mgr \in [Managers -> Live \cup InShutdown \cup InDrop \cup Gone]
      /\ at \in [Managers -> Lanes] /\ first \in [Managers -> BOOLEAN]
      /\ 0 \in Lanes
  BY LanesFinite DEF RlxdInv, RlxdTypeOK, Lanes
<1>1. ASSUME NEW labels \in SUBSET Labels, CancelByLabels(m, labels)
      PROVE  SoleShutdown(m)'
  BY <1>0, <1>1 DEF SoleShutdown, CancelByLabels
<1>2. CASE ShutdownBegin(m)
  BY <1>0, <1>2 DEF SoleShutdown, ShutdownBegin, Unborrowed
<1>3. CASE DropBegin(m)
  BY <1>0, <1>3 DEF SoleShutdown, DropBegin, Unborrowed
<1>4. CASE SignalShutdown(m)
  BY <1>0, <1>4 DEF SoleShutdown, SignalShutdown
<1>5. CASE CloseQueue(m)
  BY <1>0, <1>5 DEF SoleShutdown, CloseQueue
<1>6. CASE Collect(m)
  BY <1>0, <1>6 DEF SoleShutdown, Collect, Turn
<1>7. CASE CancelCollected(m)
  BY <1>0, <1>7 DEF SoleShutdown, CancelCollected
<1>8. CASE ShutdownCount(m)
  BY <1>0, <1>8 DEF SoleShutdown, ShutdownCount, Turn
<1> QED
  BY <1>1, <1>2, <1>3, <1>4, <1>5, <1>6, <1>7, <1>8

(***************************************************************************)
(* From there on: the handles are all there, each join finds its           *)
(* dispatcher gone and adds it to those already joined, the last leads to  *)
(* the sink, and the worker whose handle was taken is waited for.          *)
(***************************************************************************)
LEMMA JoinKeepsShutdown ==
  ASSUME RlxdInv, NEW m \in Managers, SoleShutdown(m), Sole(m)' <=> Sole(m),
         \/ ShutdownTake(m) \/ ShutdownJoin(m) \/ ShutdownSink(m) \/ ShutdownNotifier(m)
         \/ ShutdownNotifierJoined(m) \/ DropSink(m) \/ DropFields(m)
  PROVE  SoleShutdown(m)'
<1> USE DEF loopVars, loopFrame, callFrame, dispVars, notifierVars, Goto
<1> USE DEF Live, InShutdown, InDrop, Gone, LoopPoints, PastTake, PastJoin, PastSink,
            PastNotifier
<1>0. /\ mgr \in [Managers -> Live \cup InShutdown \cup InDrop \cup Gone]
      /\ at \in [Managers -> Lanes] /\ first \in [Managers -> BOOLEAN]
      /\ 0 \in Lanes
  BY LanesFinite DEF RlxdInv, RlxdTypeOK, Lanes
<1>1. CASE ShutdownTake(m)
  <2>1. /\ mgr[m] = "shutdown_take" /\ at' = at /\ first' = first /\ ~joinHandles'
        /\ UNCHANGED <<disp, shutdownToken, sink, nworker, notifierHandle>>
    BY <1>1 DEF ShutdownTake
  <2>2. mgr'[m] = IF joinHandles THEN "shutdown_join" ELSE "shutdown_sink"
    BY <1>0, <1>1 DEF ShutdownTake
  <2>3. at[m] = 0 /\ \A l \in Lanes : ~(l < at[m])
    BY <1>0, <2>1 DEF SoleShutdown, Lanes
  <2>4. Sole(m) => joinHandles
    BY <2>1 DEF SoleShutdown
  <2> QED
    BY <2>1, <2>2, <2>3, <2>4 DEF SoleShutdown
<1>2. CASE ShutdownJoin(m)
  <2>1. mgr[m] = "shutdown_join" /\ disp[at[m]] = "exited" /\ at[m] \in Lanes
    BY <1>0, <1>2 DEF ShutdownJoin
  <2>2. /\ \A l \in Lanes : l < at[m] + 1 => l < at[m] \/ l = at[m]
        /\ at[m] + 1 >= LaneCount => \A l \in Lanes : l < at[m] + 1
    BY <2>1, LanesFinite DEF Lanes
  <2>3. Sole(m) => \A l \in Lanes : l < at[m] + 1 => disp[l] = "exited"
    BY <2>1, <2>2 DEF SoleShutdown
  <2>4. CASE at[m] + 1 < LaneCount
    <3>1. at'[m] = at[m] + 1 /\ mgr' = mgr
      BY <1>0, <1>2, <2>4 DEF ShutdownJoin, Turn
    <3> QED
      BY <1>2, <2>1, <2>3, <3>1 DEF SoleShutdown, ShutdownJoin
  <2>5. CASE ~(at[m] + 1 < LaneCount)
    <3>1. at'[m] = 0 /\ mgr'[m] = "shutdown_sink"
      BY <1>0, <1>2, <2>5 DEF ShutdownJoin, Turn
    <3>2. at[m] + 1 >= LaneCount
      BY <2>1, <2>5, LanesFinite DEF Lanes
    <3> QED
      BY <1>2, <2>1, <2>2, <2>3, <3>1, <3>2 DEF SoleShutdown, ShutdownJoin
  <2> QED
    BY <2>4, <2>5
<1>3. CASE ShutdownSink(m)
  BY <1>0, <1>3 DEF SoleShutdown, ShutdownSink, CloseSink
<1>4. CASE ShutdownNotifier(m)
  BY <1>0, <1>4 DEF SoleShutdown, ShutdownNotifier, TakeNotifierHandle
<1>5. CASE ShutdownNotifierJoined(m)
  BY <1>0, <1>5 DEF SoleShutdown, ShutdownNotifierJoined
<1>6. CASE DropSink(m)
  BY <1>0, <1>6 DEF SoleShutdown, DropSink, CloseSink
<1>7. CASE DropFields(m)
  BY <1>0, <1>7 DEF SoleShutdown, DropFields, CloseSink
<1> QED
  BY <1>1, <1>2, <1>3, <1>4, <1>5, <1>6, <1>7

(***************************************************************************)
(* A clone's own step keeps what its shutdown and the others' have         *)
(* established: once it is there, no other clone is the only one.          *)
(***************************************************************************)
LEMMA OwnKeepsShutdown ==
  ASSUME RlxdInv, ~TimeoutsFire, NEW m \in Managers, SoleShutdown(m),
         NEW n \in Managers, OwnStep(n)
  PROVE  SoleShutdown(m)'
<1>1. /\ \A k \in Managers \ {n} : mgr'[k] = mgr[k] /\ at'[k] = at[k]
      /\ mgr[n] # "absent" /\ mgr'[n] # "absent"
  BY OwnStepMoves
<1>2. CASE m # n
  <2>1. ~Sole(m)'
    BY <1>1, <1>2 DEF Sole
  <2>2. mgr'[m] = mgr[m] /\ at'[m] = at[m]
    BY <1>1, <1>2
  <2> QED
    BY <2>1, <2>2 DEF SoleShutdown
<1>3. CASE m = n
  <2>1. Sole(m)' <=> Sole(m)
    BY <1>1, <1>3 DEF Sole
  <2>2. ~ShutdownTimeout(m)
    BY DEF ShutdownTimeout
  <2> QED
    BY <1>3, <2>1, <2>2, SignalKeepsShutdown, JoinKeepsShutdown
       DEF OwnStep, ManagerStep, ShutdownStep
<1> QED
  BY <1>2, <1>3

(***************************************************************************)
(* What the application calls on a clone or a handle keeps it too; after a *)
(* clone is made none of the two is the only one.                          *)
(***************************************************************************)
LEMMA CallKeepsShutdown ==
  ASSUME RlxdInv, ~TimeoutsFire, NEW m \in Managers, SoleShutdown(m), ManagerCall
  PROVE  SoleShutdown(m)'
<1>0. mgr \in [Managers -> Live \cup InShutdown \cup InDrop \cup Gone]
  BY DEF RlxdInv, RlxdTypeOK
<1>1. ASSUME NEW t \in Tasks, HandleCancel(t) PROVE SoleShutdown(m)'
  <2>1. UNCHANGED <<mgr, first, at, joinHandles, shutdownToken, disp, sink, nworker,
                    notifierHandle>>
    BY <1>1 DEF HandleCancel, loopFrame, callFrame, dispVars, notifierVars, managerVars,
                loopVars
  <2> QED
    BY <1>0, <2>1, ShutdownUntouched
<1>2. ASSUME NEW k \in Managers, NEW n \in Managers, Clone(k, n) PROVE SoleShutdown(m)'
  <2>1. /\ k # n /\ mgr'[n] = "idle" /\ mgr'[k] = mgr[k] /\ mgr[k] \in Live
        /\ \A i \in Managers \ {n} : mgr'[i] = mgr[i]
    BY <1>0, <1>2 DEF Clone, Goto, Live
  <2>2. ~Sole(m)'
    BY <2>1 DEF Sole, Live
  <2>3. at' = at /\ mgr[n] = "absent"
    BY <1>2 DEF Clone, loopVars
  <2>4. mgr'[m] \notin LoopPoints => mgr[m] \notin LoopPoints
    BY <2>1, <2>3 DEF LoopPoints
  <2> QED
    BY <2>2, <2>3, <2>4 DEF SoleShutdown
<1>3. ASSUME NEW n \in Managers, OwnStep(n) PROVE SoleShutdown(m)'
  BY <1>3, OwnKeepsShutdown
<1> QED
  BY <1>1, <1>2, <1>3 DEF ManagerCall, OwnStep

(***************************************************************************)
(* It holds of a new pool and every step keeps it.                         *)
(***************************************************************************)
LEMMA ShutdownInvHolds ==
  /\ Init => ShutdownInv
  /\ RlxdInv /\ ShutdownInv /\ [Next]_vars => ShutdownInv'
<1>1. Init => ShutdownInv
  BY DEF Init, NotifierInit, ShutdownInv, SoleShutdown, LoopPoints, InShutdown, PastTake, PastJoin,
         PastSink, PastNotifier
<1>2. ASSUME RlxdInv, ShutdownInv, [Next]_vars, ~TimeoutsFire, NEW m \in Managers
      PROVE  SoleShutdown(m)'
  <2>1. SoleShutdown(m)
    BY <1>2 DEF ShutdownInv
  <2> QED
    BY <1>2, <2>1, NextByActor, CallKeepsShutdown, OthersKeepShutdown
<1>3. RlxdInv /\ ShutdownInv /\ [Next]_vars => ShutdownInv'
  BY <1>2 DEF ShutdownInv
<1> QED
  BY <1>1, <1>3

-----------------------------------------------------------------------------
(***************************************************************************)
(* With several clones, the first shutdown to come to the join handles     *)
(* drains them: once they are drained, every dispatcher has exited or that *)
(* shutdown is still joining, with those before its lane gone already.     *)
(***************************************************************************)
JoinsUnderWay ==
  \/ \A l \in Lanes : disp[l] = "exited"
  \/ \E n \in Managers : /\ mgr[n] = "shutdown_join"
                         /\ \A l \in Lanes : l < at[n] => disp[l] = "exited"

JoinsHandedOver ==
  ~TimeoutsFire =>
    /\ \A m \in Managers : mgr[m] \in PastTake => ~joinHandles
    /\ ~joinHandles => JoinsUnderWay

(***************************************************************************)
(* A step that neither drains the handles nor joins one keeps that.        *)
(***************************************************************************)
LEMMA HandlesUntouched ==
  ASSUME JoinsHandedOver, UNCHANGED joinHandles,
         \A l \in Lanes : disp[l] = "exited" => disp'[l] = "exited",
         \A n \in Managers : \/ mgr'[n] = mgr[n] /\ at'[n] = at[n]
                             \/ /\ mgr[n] # "shutdown_join"
                                /\ mgr'[n] \in PastTake => mgr[n] \in PastTake
  PROVE  JoinsHandedOver'
<1>1. JoinsUnderWay => JoinsUnderWay'
  BY DEF JoinsUnderWay
<1>2. \A m \in Managers : mgr'[m] \in PastTake => mgr[m] \in PastTake
  OBVIOUS
<1> QED
  BY <1>1, <1>2 DEF JoinsHandedOver

(***************************************************************************)
(* Whoever drains the handles begins with the first; a later caller finds  *)
(* none and leaves the joining to it.                                      *)
(***************************************************************************)
LEMMA TakeHandsOver ==
  ASSUME RlxdInv, ~TimeoutsFire, JoinsHandedOver, NEW n \in Managers, SoleShutdown(n),
         ShutdownTake(n)
  PROVE  JoinsHandedOver'
<1>1. mgr \in [Managers -> Live \cup InShutdown \cup InDrop \cup Gone]
  BY DEF RlxdInv, RlxdTypeOK
<1>2. /\ mgr[n] = "shutdown_take" /\ ~joinHandles' /\ at' = at /\ disp' = disp
      /\ mgr' = [mgr EXCEPT ![n] = IF joinHandles THEN "shutdown_join" ELSE "shutdown_sink"]
  BY DEF ShutdownTake, Goto, loopFrame, callFrame, dispVars
<1>3. CASE joinHandles
  <2>1. at[n] = 0 /\ \A l \in Lanes : ~(l < at[n])
    BY <1>2 DEF SoleShutdown, LoopPoints, Lanes
  <2>2. mgr'[n] = "shutdown_join"
    BY <1>1, <1>2, <1>3
  <2>3. JoinsUnderWay'
    BY <1>2, <2>1, <2>2 DEF JoinsUnderWay
  <2> QED
    BY <1>2, <2>3 DEF JoinsHandedOver
<1>4. CASE ~joinHandles
  <2>1. JoinsUnderWay
    BY <1>4 DEF JoinsHandedOver
  <2>2. \A k \in Managers : mgr[k] = "shutdown_join" => mgr'[k] = "shutdown_join"
    BY <1>1, <1>2
  <2>3. JoinsUnderWay'
    BY <1>2, <2>1, <2>2 DEF JoinsUnderWay
  <2> QED
    BY <1>2, <2>3 DEF JoinsHandedOver
<1> QED
  BY <1>3, <1>4

(***************************************************************************)
(* A join goes on to the next handle or was the last.                      *)
(***************************************************************************)
LEMMA JoinHandsOver ==
  ASSUME RlxdInv, ~TimeoutsFire, JoinsHandedOver, NEW n \in Managers, ShutdownJoin(n)
  PROVE  JoinsHandedOver'
<1>1. /\ mgr \in [Managers -> Live \cup InShutdown \cup InDrop \cup Gone]
      /\ at \in [Managers -> Lanes]
  BY DEF RlxdInv, RlxdTypeOK
<1>2. mgr[n] = "shutdown_join" /\ disp[at[n]] = "exited" /\ disp' = disp
      /\ joinHandles' = joinHandles
  BY DEF ShutdownJoin, loopFrame, callFrame, dispVars
<1>3. ~joinHandles /\ JoinsUnderWay
  BY <1>2 DEF JoinsHandedOver, PastTake
<1>4. \A k \in Managers \ {n} : mgr'[k] = mgr[k] /\ at'[k] = at[k]
  BY OwnStepMoves DEF OwnStep, ManagerStep, ShutdownStep
<1>5. CASE \A l \in Lanes : disp[l] = "exited"
  BY <1>2, <1>3, <1>5 DEF JoinsHandedOver, JoinsUnderWay
<1>6. ASSUME NEW k \in Managers, mgr[k] = "shutdown_join",
             \A l \in Lanes : l < at[k] => disp[l] = "exited"
      PROVE  JoinsUnderWay'
  <2>1. CASE k # n
    BY <1>2, <1>4, <1>6, <2>1 DEF JoinsUnderWay
  <2>2. CASE k = n
    <3>1. \A l \in Lanes : l < at[n] + 1 => l < at[n] \/ l = at[n]
      BY <1>1 DEF Lanes
    <3>2. \A l \in Lanes : l < at[n] + 1 => disp[l] = "exited"
      BY <1>2, <1>6, <2>2, <3>1
    <3>3. CASE at[n] + 1 < LaneCount
      <4>1. at'[n] = at[n] + 1 /\ mgr'[n] = "shutdown_join"
        BY <1>1, <1>2, <3>3 DEF ShutdownJoin, Turn
      <4> QED
        BY <1>2, <3>2, <4>1 DEF JoinsUnderWay
    <3>4. CASE ~(at[n] + 1 < LaneCount)
      <4>1. \A l \in Lanes : l < at[n] + 1
        BY <1>1, <3>4, LanesFinite DEF Lanes
      <4> QED
        BY <1>2, <3>2, <4>1 DEF JoinsUnderWay
    <3> QED
      BY <3>3, <3>4
  <2> QED
    BY <2>1, <2>2
<1>7. JoinsUnderWay'
  BY <1>2, <1>3, <1>5, <1>6 DEF JoinsUnderWay
<1> QED
  BY <1>2, <1>3, <1>7 DEF JoinsHandedOver

(***************************************************************************)
(* No other step of a clone comes near the handles.                        *)
(***************************************************************************)
LEMMA CallsHandOver ==
  ASSUME RlxdInv, ShutdownInv, ~TimeoutsFire, JoinsHandedOver, ManagerCall
  PROVE  JoinsHandedOver'
<1> USE DEF loopVars, loopFrame, Goto
<1> USE DEF Live, InShutdown, InDrop, Gone, PastTake, PastJoin, PastSink, PastNotifier
<1>0. mgr \in [Managers -> Live \cup InShutdown \cup InDrop \cup Gone]
  BY DEF RlxdInv, RlxdTypeOK
<1>1. disp' = disp
  BY ManagerFrame DEF callFrame, dispVars
<1>2. ASSUME NEW t \in Tasks, HandleCancel(t) PROVE JoinsHandedOver'
  BY <1>1, <1>2, HandlesUntouched DEF HandleCancel, managerVars
<1>3. ASSUME NEW k \in Managers, NEW n \in Managers, Clone(k, n) PROVE JoinsHandedOver'
  BY <1>0, <1>1, <1>3, HandlesUntouched DEF Clone
<1>4. ASSUME NEW n \in Managers, OwnStep(n), UNCHANGED joinHandles,
             mgr[n] # "shutdown_join", mgr'[n] \in PastTake => mgr[n] \in PastTake
      PROVE  JoinsHandedOver'
  BY <1>1, <1>4, OwnStepMoves, HandlesUntouched
<1>5. ASSUME NEW n \in Managers, OwnStep(n) PROVE JoinsHandedOver'
  <2>1. CASE \E labels \in SUBSET Labels : CancelByLabels(n, labels)
    BY <1>0, <1>4, <1>5, <2>1 DEF CancelByLabels
  <2>2. CASE ShutdownBegin(n) \/ DropBegin(n)
    BY <1>0, <1>4, <1>5, <2>2 DEF ShutdownBegin, DropBegin, Unborrowed
  <2>3. CASE Collect(n)
    BY <1>0, <1>4, <1>5, <2>3 DEF Collect, Turn
  <2>4. CASE CancelCollected(n)
    BY <1>0, <1>4, <1>5, <2>4 DEF CancelCollected
  <2>5. CASE SignalShutdown(n) \/ CloseQueue(n) \/ DropSink(n) \/ DropFields(n)
    BY <1>0, <1>4, <1>5, <2>5 DEF SignalShutdown, CloseQueue, DropSink, DropFields
  <2>6. CASE ShutdownCount(n)
    BY <1>0, <1>4, <1>5, <2>6 DEF ShutdownCount, Turn
  <2>7. CASE ShutdownTake(n)
    BY <2>7, TakeHandsOver DEF ShutdownInv
  <2>8. CASE ShutdownJoin(n)
    BY <2>8, JoinHandsOver
  <2>9. CASE ShutdownSink(n) \/ ShutdownNotifier(n) \/ ShutdownNotifierJoined(n)
    BY <1>0, <1>4, <1>5, <2>9 DEF ShutdownSink, ShutdownNotifier, ShutdownNotifierJoined
  <2>10. ~ShutdownTimeout(n)
    BY DEF ShutdownTimeout
  <2> QED
    BY <1>5, <2>1, <2>2, <2>3, <2>4, <2>5, <2>6, <2>7, <2>8, <2>9, <2>10
       DEF OwnStep, ManagerStep, ShutdownStep
<1> QED
  BY <1>2, <1>3, <1>5 DEF ManagerCall, OwnStep

(***************************************************************************)
(* It holds of a new pool and every step keeps it.                         *)
(***************************************************************************)
LEMMA HandOverHolds ==
  /\ Init => JoinsHandedOver
  /\ RlxdInv /\ ShutdownInv /\ JoinsHandedOver /\ [Next]_vars => JoinsHandedOver'
<1>1. Init => JoinsHandedOver
  BY DEF Init, JoinsHandedOver, PastTake, PastJoin, PastSink, PastNotifier
<1>2. ASSUME RlxdInv, ShutdownInv, JoinsHandedOver, [Next]_vars, ~TimeoutsFire
      PROVE  JoinsHandedOver'
  <2> USE DEF managerVars, loopVars
  <2>1. CASE SubmitSide \/ UNCHANGED vars
    <3>1. UNCHANGED <<mgr, at, joinHandles>>
      BY <2>1 DEF SubmitSide, Submit, SubmitStep, AbandonSubmit, ProbeLane, TryDirect, SendCheck,
                  PollGate, PollToken, LaneSend, submitFrame, vars
    <3> QED
      BY <1>2, <2>1, <3>1, ExitedStays, HandlesUntouched
  <2>2. CASE TaskSide
    <3>1. UNCHANGED <<mgr, at, joinHandles>>
      BY <2>2 DEF TaskSide, TaskStep, SpawnInsert, Spawn, CancelArm, NotifyCompletion, Deregister,
                  ReleasePermit, FutureReady, Decide, SendResult, taskFrame
    <3> QED
      BY <1>2, <2>2, <3>1, ExitedStays, HandlesUntouched
  <2>3. CASE DispatchSide
    <3>1. UNCHANGED <<mgr, at, joinHandles>>
      BY <2>3 DEF DispatchSide, DispatchStep, DispatchTop, DispatchRecv, DispatchStop, DispatchGot,
                  DispatchCancelCheck, DispatchPreNotify, DispatchAcquire, DispatchGiveUp,
                  DispatchRecheck, DispatchExit, dispatchFrame
    <3> QED
      BY <1>2, <2>3, <3>1, ExitedStays, HandlesUntouched
  <2>4. CASE NotifierSide
    <3>1. UNCHANGED <<mgr, at, joinHandles, disp>>
      BY <2>4 DEF NotifierSide, AddCompletionHandler, FinishAddHandler, NotifierProgress,
                  notifierFrame, dispVars
    <3> QED
      BY <1>2, <3>1, HandlesUntouched
  <2> QED
    BY <1>2, <2>1, <2>2, <2>3, <2>4, NextByActor, CallsHandOver
<1>3. RlxdInv /\ ShutdownInv /\ JoinsHandedOver /\ [Next]_vars => JoinsHandedOver'
  BY <1>2 DEF JoinsHandedOver
<1> QED
  BY <1>1, <1>3

(***************************************************************************)
(* A shutdown returns, unless a timeout fires, with every dispatcher gone  *)
(* or the caller that drained their handles still joining them.  The       *)
(* shutdown of the only clone there is has joined the notifier too, and    *)
(* nothing is left undelivered: by then the worker has drained its channel *)
(* or there never was one.                                                 *)
(***************************************************************************)
THEOREM ShutdownsJoinAll == Spec => []ShutdownJoinsAll
<1>1. RlxdInv /\ ShutdownInv /\ JoinsHandedOver => ShutdownJoinsAll
  <2> SUFFICES ASSUME RlxdInv, ShutdownInv, JoinsHandedOver, ~TimeoutsFire,
                      NEW m \in Managers, mgr[m] = "shut"
               PROVE  /\ \/ \A l \in Lanes : disp[l] = "exited"
                         \/ \E n \in Managers : mgr[n] = "shutdown_join"
                      /\ Sole(m) => nworker \in {"none", "stopped"} /\ nqueue = <<>> /\ txs = {}
    BY DEF ShutdownJoinsAll, Sole
  <2>1. JoinsUnderWay
    BY DEF JoinsHandedOver, PastTake, PastJoin, PastSink, PastNotifier
  <2>2. ASSUME Sole(m)
        PROVE  nworker \in {"none", "stopped"} /\ nqueue = <<>> /\ txs = {}
    <3>1. nworker \in {"none", "stopped"}
      BY <2>2 DEF ShutdownInv, SoleShutdown, PastNotifier
    <3>2. nqueue = <<>> /\ txs = {}
      BY <3>1 DEF RlxdInv, NotifierInv, StopsDrained, SinkHasWorker
    <3> QED
      BY <3>1, <3>2
  <2> QED
    BY <2>1, <2>2 DEF JoinsUnderWay
<1> QED
  BY <1>1, ShutdownInvHolds, HandOverHolds, RlxdInvariant, PTL DEF Spec
=============================================================================
