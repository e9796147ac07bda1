# A TLA+ model of futures_orchestra

`futures_orchestra` is a Rust library that runs submitted futures on Tokio with
a bounded queue, a concurrency limit, cancellation, completion handlers and two
kinds of shutdown.  This directory holds models of its two pools, the strict
`FuturePoolManager` and the relaxed `FuturePoolManagerRlxd`, and of every
component they are built from; the TLC configurations that check them on small
instances; and TLAPS proofs of the main safety properties for instances of any
size.
All source paths below are relative to the repository root.

## 1. Inventory

| component | state | operations | talks to |
|---|---|---|---|
| `TaskQueue` (`src/task_queue.rs`) | gate permits and wait list, channel, producer handles, consumer | `send`, `close`, `clone`, `recv`, `Permit::drop`, drop of the consumer | `CapacityGate`, the shutdown token |
| `CapacityGate` (`src/capacity_gate.rs`) | a fair semaphore | `acquire`, `acquire_owned`, `try_acquire_owned`, `release` | used by queue and pools |
| `ActiveSlots` (`src/active.rs`) | slot array, free stack, the index each task keeps | `insert`, `remove`, `len`, `all_tokens`, `tokens_matching` | behind a `RwLock` in the pool |
| `DeferredRegistry` (`src/active.rs`) | slots, `in_flight`, finished flags | `insert` with its sweep, `finish`, `len`, `all_tokens`, `tokens_matching` | one per lane of the relaxed pool |
| `CompletionNotifier`, `CompletionSink` (`src/notifier.rs`) | sink in a `OnceLock`, handler list, message queue, worker, join handle | `add_handler`, `sender`, `close`, worker loop, `await_shutdown` | tasks send, shutdown closes and joins |
| `CancelState`, `CancellationToken` (`src/token.rs`) | a flag and a `Notify` | `cancel`, `is_cancelled`, `cancelled` | everyone |
| `TaskCore`, `ManagedTaskInternal`, `TaskHandle`, `PoolError` (`src/task.rs`, `src/handle.rs`, `src/error.rs`) | labels, flag, result channel | `cancel`, `await_result`, `detach` | application |
| `FuturePoolManager` (`src/manager.rs`) | clones, worker loop, spawned tasks, join handle | `submit`, `cancel_tasks_by_label(s)`, `add_completion_handler`, `clone`, `shutdown`, `drop` | all of the above |
| `FuturePoolManagerRlxd` (`src/rlxd.rs`) | lanes under one gate, a concurrency gate, a dispatcher loop and a registry shard per lane, join handles | as above, with direct dispatch | all of the above but `TaskQueue` and the strict use of `ActiveSlots` |

How they interact.  A clone's `submit` waits at the queue's gate and sends the
task into the channel.  The single worker loop takes a concurrency permit, then a
task, registers it, and spawns it with the permit and a sender to the notifier.
The spawned task runs the future against its cancellation flag, delivers the
result, sends the completion, releases the permit, and only then frees its slot.
`shutdown` and `drop` cancel the token, close the queue and the sink, and
`shutdown` also waits for the registry to empty and joins worker and notifier,
each with a timeout.

The relaxed pool has a lane, a dispatcher loop and a registry shard per
dispatcher.  Its `submit` first looks whether all lanes are empty and a
concurrency permit is free; if so it spawns the task itself, otherwise it takes a
place at the gate over all lanes and sends to the next lane in turn.  A dispatcher
dequeues first and asks for the concurrency permit afterwards.  A finishing task
marks its core and decrements its shard's counter without any lock; the slot is
reclaimed by a later insert.  `shutdown` waits for the sum of the counters and
joins every dispatcher.

What is hard, and what has to hold:

* **Queue.**  A permit has two owners during `send`; calls are rejected,
  abandoned, parked and granted in any order.  Must hold: backpressure, no lost
  wakeup, no failure without shutdown.
* **Registry.**  Slots are released after permits, so occupancy exceeds the limit
  and indices are reused.  Must hold: an index names its owner's slot, `len`
  counts exactly the active tasks.
* **Notifier.**  Handlers are added during delivery, the sink is closed while
  tasks still hold senders.  Must hold: every handler sees every message sent after
  it was added once and in order; the worker stops only when nothing can be lost.
* **Token.**  A `cancel` may land between the check of the flag and the
  registration with `Notify`; a `select!` drops and remakes the waiting call.
  Must hold: no cancel is missed, no stale entry takes a wake-up.
* **Deferred registry.**  Counter, finished flag and slot array are written
  separately by different threads.  Must hold: a running task keeps its slot and
  is found, the counter covers it, the array does not grow without bound.
* **Relaxed pool.**  A task reaches the runtime by two paths; permits travel
  through submit, dispatcher and task; lanes stop one after another while submits
  are still routed to them.  Must hold: what holds of the strict pool, and a lane
  that has stopped strands nothing.
* **Pool.**  Submits, both selects of the worker, several concurrent shutdowns
  and drops, and cancellations interleave.  Must hold: permits are conserved,
  accepted tasks are never lost, a cancellation decides what is not decided yet and
  changes nothing after that, handles resolve, the pool winds down.

`PROJECT.json` lists every place in the code where one of these bites
(`hazards`) with the properties that cover it.

## 2. Modules

| module | models |
|---|---|
| `PoolParameters` | constants shared by all modules, with their assumptions |
| `TaskQueue` | the bounded queue; own specification `QueueSpec`, `FairQueueSpec` |
| `ActiveSlots` | the registry; own specification `SlotsSpec` |
| `CompletionNotifier` | sink, handler list, notification worker; own specification `NotifierSpec` |
| `FuturePoolManager` | clones, worker loop and tasks, composing the three |
| `CancelToken` | the flag, `cancel()` and the wait loop of `cancelled()`; own specification `TokenSpec`, `TokenFairSpec` |
| `CancelLatch` | abstract: a latch whose waiters return only once it is set |
| `DeferredRegistry` | the sharded registry of the relaxed pool; own specification `DeferredSpec` |
| `ActiveRegistry` | abstract: the set of active tasks and the count a reader of one shard sees |
| `FuturePoolManagerRlxd` | clones, submit, dispatchers and tasks, composing `DeferredRegistry` and `CompletionNotifier` |
| `TaskLifecycle` | abstract: the life of a submitted task, for both pools |
| `CompletionHistory` | the notifier with history variables: everything sent, and how much of it when each handler was pushed |
| `MC*` | instances for TLC; `MCRlxdOvertake` adds history variables |
| `*Proofs` | TLAPS theorems about the module of the same name; `CompletionOrderProofs` about `CompletionHistory` |

`FuturePoolManager` EXTENDS the three components.  Each pool action *is* the
action of the component it calls, conjoined with what the pool does and with
UNCHANGED for the rest.  A component's own specification states what it promises
against an environment that may do more than the pool ever does (for example
close the sink at any moment).  That the pool implements each of them (`QueueSpec`,
`SlotsSpec`, `NotifierSpec`) is proved; the refinement mapping is the identity on
the component's variables.  `FuturePoolManagerRlxd` composes `DeferredRegistry` and
`CompletionNotifier` in the same way; its lanes and gates are its own, as in the
code.

Three abstract specifications say what is promised, with refinement mappings:

* `CancelToken` implements `CancelLatch` (`ImplementsLatch`): the latch is the
  flag, the waiting callers are those inside the loop, at whatever point of it.
  The pools therefore treat a token as a flag and a waiter on it as an action
  the flag enables.
* Every shard of `DeferredRegistry` implements `ActiveRegistry`
  (`ImplementsRegistry`): the active tasks are those a reader gets, occupants
  whose finished flag is clear; a sweep is a stutter; the count is never below
  the number of active tasks.
* Both pools implement `TaskLifecycle` (`ImplementsLifecycle`,
  `RlxdImplementsLifecycle`): the stage of a task is computed from the point of
  its submit call, its execution and its result.  It says in one place that at
  most `Limit` tasks run, that a refused task never runs, that a cancellation
  requested before the outcome of a running task is decided decides it, that one
  requested later changes nothing, that what was decided is delivered and final, and
  that an accepted task which was never started is skipped only if its cancellation
  was asked for, and discarded only once shutdown was signalled (`closing`).

### State and actions against the code

**TaskQueue.**  `permits` and `waiters` are the semaphore; `send[t]` is the point
of the submit call that creates task `t`; `queue` the channel; `producers` the
live sender handles.  `SubmitCheck` is the head of `submit` and `send`;
`PollShutdown` and `PollGate` are the two arms of `send`'s biased select, as two
steps because the token may be cancelled between them; `Enqueue` the channel
send with its success and failure paths; `AbandonSubmit` the drop of a waiting
submit future; `Dequeue`, `DropReceiver`, `CloseProducer`, `CloneProducer` the
handles' operations.

**ActiveSlots.**  `slots`, `free` and `slotOf` (the index the task's closure
keeps).  `InsertSlot` pops the free stack or grows the array; `RemoveSlot`
is the guarded `remove`.

**CompletionNotifier.**  `sink` has the three states the code distinguishes.
`AddHandlerInit` is `get_or_init`, `AddHandlerPush` the push under the write
lock, which a delivery in progress excludes.  `NotifierRecv`, `NotifierCall` (one
per handler call) and `NotifierStop` are the worker; `CaptureSender`,
`SendCompletion`, `SendPreCancelled`, `CloseSink`, `TakeNotifierHandle` what the
pool calls.

**FuturePoolManager.**  `mgr[m]` is the program point of clone `m`, `worker` that
of the worker loop, `phase[t]` that of the spawned task.  Every `await`, lock
release and separate access to shared state in `shutdown`, `drop`, the worker loop
and the spawned future ends a step, so the model has a `Shutdown*`, `Drop*`,
`Worker*` or task action for each stretch between two of them; the exceptions are
listed under the modelling decisions.  In particular the spawned future decides its
outcome in one step (`FutureReady` with its look at the flag, or `CancelArm`, both a
`Decide`), sends it in the next (`SendResult`) and reports it in a third
(`NotifyCompletion`); a `cancel()` may come between any two.  Until it is sent, the
decided outcome is the task's `phase`.  `result[t]` is what the task's handle gets;
`"Closed"` is the result sender dropped without a value.

**CancelToken.**  `StoreFlag` and `NotifyWaiters` are the two halves of
`cancel()`; `CheckFlag`, `Enable`, `Recheck` and `Wake` the stretches of the loop
in `cancelled()`; `DropCall` the losing arm of a `select!`, which can only drop a
call that is asleep.

**DeferredRegistry.**  `inFlight`, `shardSlots` and `shardFree` are one shard's
fields; `entry[t]` is where task `t` is between the increment and the decrement.
`CountIn` and `InsertCore` are the two parts of `insert`, the second with the
sweep under the same write lock; `MarkFinished` and `CountOut` the two lock-free
steps at the end of a task.

**FuturePoolManagerRlxd.**  `send[t]`, `disp[l]`, `phase[t]` and `mgr[m]` are the
program points of submit calls, dispatcher loops, spawned tasks and clones.
`Submit`, `ProbeLane`, `TryDirect`, then `SendCheck`, `PollGate`, `PollToken` and
`LaneSend` are `submit_inner` and `send`; `Dispatch*` is `run_worker_loop`;
`SpawnInsert` and `Spawn` are `spawn_task`, called from either; `FutureReady`,
`CancelArm`, `SendResult`, `NotifyCompletion`, `Deregister` and `ReleasePermit` the
spawned future, in the same steps as in the strict pool; `Collect`, `CancelCollected`, `Shutdown*` and `Drop*` the calls of a
clone.

### Modelling decisions

* A task is one `submit` call with the core, future and channel it creates; a
  clone that is gone is not reused, neither is a handler.  `NoTask` is `None`.
* Rust's borrow rules are guards: a clone is consumed by `shutdown` or dropped
  only when no `submit`, label cancellation or `add_completion_handler` borrows
  it (`Unborrowed`, `NoCallThrough`).  A clone runs one label cancellation at a
  time.
* The checks of `submit` and of `send` are one step: they read the same two
  monotone flags and fail with the same error.
* Where both arms of a select of the worker are ready, either may be taken: the
  token can be set after the productive arm was polled.  `WorkerGot` and
  `WorkerRecheck` are the explicit checks that follow.
* `drop`'s reads of the strong count and of the token are one step, and so is the
  drop of a clone's fields.  `get_or_init` is one step (the `OnceLock` blocks
  other initialisers).  `NotifierRecv` includes taking the read lock.  The
  notification of a pre-cancelled task and the release of its permit are one
  step of the worker.
* The loop over collected cores (`CancelCollected`) cancels one core per step in
  any order.  A label set that matches nothing changes nothing and is no step.
* A submit future is dropped only at its one suspension point, the select; that a
  `shutdown` future is dropped half-way is not modelled.
* A timeout is a step that may happen at any moment of the wait when
  `TimeoutsFire` holds; with `TimeoutsFire = FALSE` the runs show what holds if
  tasks and handlers are faster than the timeouts.
* In the notifier's instance the statuses a task may end with are narrowed
  (`CarriedStatuses`), because the status is only carried along there.
* A handler's panic is caught by the worker and has no effect on the state.
* Relaxed pool: the lane is chosen together with the permit being taken (nothing
  is awaited in between); the round-robin counter is kept modulo the number of
  lanes, so its wrap at 2^64, where the order of lanes may jump once, is left out.
  `len()` and `active_task_count` read lane by lane, shard by shard; a lane's
  length and a shard's counter are each one atomic read.  Closing a clone's
  senders and reading `is_closed` over all lanes are one step each.  The shutdown
  mode is chosen when it is first looked at.
* A sweep is one step under the write lock.  A task that marks itself finished
  while the pass is under way is swept or not, as if it had marked itself just
  before or just after the pass; no other state depends on which.
* `Notify` is taken at its weakest: a waiter is registered from `enable()` on.
* Logging, names, ids, times and the two read-only counters are left out.

### External code

Modelled from how the repository uses it, and trusted:

* **fibre channels**: a send fails exactly when the receiver was dropped; `recv`
  fails exactly when nothing is queued and every sender handle is closed or
  dropped; dropping the receiver drops the queued messages; `close` closes one
  handle; `is_closed` of an open producer tells whether the receiver is gone.
* **futures-intrusive's fair semaphore**: a permit goes to the oldest registered
  waiter, newcomers get one only if nobody waits, a dropped acquire future leaves
  the wait list; `try_acquire` fails while somebody waits.
* **Tokio's `Notify`**: `notify_waiters` wakes exactly the registered waiters; a
  dropped `Notified` future is no longer registered and its wake-up is gone.
* **Tokio**: spawned tasks are polled when they can move, a join handle resolves
  when its task has ended, timers fire.

## 3. Runs

| run | instance | what it shows |
|---|---|---|
| `task_queue` | 4 tasks, 2 producers, capacity 2 | backpressure, failures only on shutdown, an exact wait list; every submit call returns |
| `notifier` | 3 tasks, 2 handlers | every handler sees every message sent after it was pushed once and in order; the worker stops drained; closing the sink ends the worker |
| `pool` | 1 clone, 2 tasks, 1 handler, 1 permit, both modes | accepted tasks accounted for; permits conserved; registry and slot indices exact; reports match results; a sole shutdown joins everything; the pool implements `TaskLifecycle`, whenever a cancellation lands |
| `pool_live` | 1 clone, 2 tasks, 1 handler, no timeouts | handles resolve, shutdown returns, completions are reported |
| `pool_wind_down` | 2 clones, 1 task, 1 handler, labels, forceful, timeouts | a submit that races the worker's exit strands no task; everything ends once the clones are gone, unless a future never does; a cancelled running task ends although its future may never |
| `cancel_token` | 3 waiters, 2 cancellers | no cancel is missed, the `Notify` list is exact, every waiting call ends after a cancel; the loop implements `CancelLatch` |
| `rlxd` | 2 clones, 3 tasks, 1 handler, 2 lanes, 1 permit, 1 queue place, both modes | concurrency permits and the queue gate's add up, past a failed send too; a task is in one place; a stopped lane strands nothing; a shutdown returns only with the dispatchers gone or being joined, the only clone's also with the notifier joined; the pool implements `TaskLifecycle` |
| `rlxd_registry` | 1 clone, 3 tasks, a label, 1 lane, 2 permits, 1 queue place, both modes | a listed task keeps its slot while the shard is swept and indices are reused, and a running one is found; the slot array stays within the limit; the shard implements `ActiveRegistry` |
| `rlxd_live` | 1 clone, 3 tasks, 1 handler, all sizes given as 0, timeouts | handles resolve, parked submits return, shutdown returns although futures never end, the pool winds down |

The properties of a component that are proved for every instance and add nothing
to a run (the components' types, the queue's `PermitAccounting`, the free list and
`len` of `ActiveSlots`, `SinkHasWorker`, `ConcurrencyLimited`, `CancelWins`,
`ResultIsFinal`) are left to the proofs of section 5, which also keep the deferred
registry's counter exact (`InFlightExact`, a part of its invariant).

Three runs look for, and find, a disagreement between the code and what its
comments or documentation say (section 4).

**Why these bounds.**  Each run has the smallest numbers at which its cases
happen.  The queue needs two parked calls behind a full queue, so that a
rejected or abandoned call has a neighbour in the wait list.  Two handlers and
three messages put a registration before, inside and after a delivery.  In the
pool, two tasks with one permit and one queue place give a running and a queued
task, or a queued task and a parked submit; a task releases its permit before its slot, so the
second is inserted while the first still occupies one.  Two clones give every race between two
shutdowns, two drops, and a submit or registration against either.  Three waiters
and two cancellers give a cancel that wakes some waiters while another registers.
In the relaxed pool, two lanes are what it takes for one to stop before the other
and for a sum over lanes to be out of date, two clones for a submit to race a
shutdown or drop, and three tasks for a submit to wait at the gate while one task
runs and another is queued; that is `rlxd`, in which a send also fails because its
lane stopped after the submit had its permit.  To keep that instance small, a
behaviour has either a third task or cancellations, and a handler only with a single
clone and two tasks (`MCBound`, an action constraint on what the application
starts; it restrains no step of the pool).  A sweep meets a running task only when two tasks of one shard run:
`rlxd_registry` has one lane with a limit of two, and its third task is inserted,
by sweep and reused index, while one of the first two runs.  The tasks of both runs
are interchangeable, so they are explored up to symmetry.  `rlxd_live` passes 0 for every
size to go through the clamps of `new`, which leaves one lane, one permit and one
queue place, so that a third task's submit parks; symmetry is not sound for
liveness, and its tasks are submitted in turn instead.  What a second lane or clone
adds to liveness (dispatchers competing for permits, a submit racing a shutdown)
is not in that run.
What the bounds leave out in size, the proofs cover for every safety
property (section 5); for liveness the bounds are what there is.

Deadlock is checked in every run.  The pools' `Terminated` disjunct allows
stuttering only when every clone, worker or dispatcher, task and the notifier have
ended, so a state in which they wait for one another is an error.

**Fairness.**  `PoolFairness` is weak fairness of the worker, of the notifier, of
each submit call in progress, of each clone's call in progress, of each
`add_handler` waiting for the lock and of each task's steps after its future:
Tokio polls a woken task.  One `WF` covers all steps of an actor, since an actor
is a single sequential future.  `FuturesEnd` is an assumption about the
application, used only in `FairSpecFuturesEnd`; `pool_wind_down` does without it.
Nothing the application may start (submit, cancel, shutdown, drop) is ever
assumed to happen.  `FairQueueSpec` assumes a consumer that goes on receiving,
which the worker loop does as long as permits come back.  `RlxdFairness` is the
same for the relaxed pool, one `WF` per dispatcher; there `FuturesEnd` is the
hypothesis of the properties that need it, so that `RlxdShutdownReturns` is shown
without it, by the timeouts alone.  `TokenFairSpec` lets a `cancel()` that has
begun finish and a caller that was woken be polled, and nothing else.

**Mutants.**  Next to many definitions stands a variant marked `Mutant`: the
definition with a plausible bug (a dropped guard, a permit kept or released
twice, a missing reset).  With the variant in place the property named in
`PROJECT.json` is violated, so each property depends on that piece of code.

## 4. Findings

* `LastDropSignals` (`pool_last_drop`): two clones dropped concurrently both read
  a strong count of two and neither signals shutdown.  The pool still winds down
  (`PoolWindsDown`), through the disconnected queue, after running what is queued.
* `ShutdownWaitsForTasks` (`pool_quiescence`): a worker past its token check
  registers and spawns a task after `shutdown` has seen an empty registry, and
  `shutdown` returns while it runs, with no timeout involved.
* `NeverOvertaken` (`rlxd_overtake`): a task that a dispatcher has dequeued and
  not yet asked a permit for is neither in a lane nor at the gate; a later submit
  finds the lanes empty and a permit free and starts its task first, contrary to
  `src/rlxd.rs:330-331`, even with a single dispatcher.

Seen while modelling, and part of the models, but without a run of their own:

* A send that fails because the receiver is gone releases its permit twice, by the
  message and by the guard (`src/task_queue.rs:153-157`, and `src/rlxd.rs:137-145`
  likewise), where the comment of `task_queue.rs:154-157` speaks of one release.
  `PermitAccounting` and `LanePermitAccounting` state it.  In the strict pool
  it does not weaken backpressure, since a send fails only once there is no consumer;
  in the relaxed pool one lane may have stopped while another still receives, but
  only after shutdown was signalled.
* The documentation says of a handler that it will only observe tasks that complete
  after its registration (`src/manager.rs:245-247`, `src/rlxd.rs:393-394`,
  `README.USAGE.md:177` and `:325`, `API_REFERENCE.md:91`).  The worker looks at the
  handler list when it delivers (`src/notifier.rs:217`), so a handler is also called
  for a completion that was queued before it was pushed.  `EveryMessageOnceInOrder`
  therefore demands the messages sent after the push and says nothing of earlier ones.
* A second `shutdown` finds the join handles taken and returns without waiting for
  worker or dispatchers (`src/manager.rs:341`, `src/rlxd.rs:450`).
* A sink that was never opened is not marked closed by `shutdown`, and a handler
  registered afterwards through another clone creates channel and worker
  (`src/manager.rs:373`); a shutdown that then joins this worker waits for its own
  timeout, because it owns the sink itself (the relaxed pool likewise).
* The relaxed pool shares the race of the last two drops and the window in which
  `shutdown` misses a task that is about to be counted.

## 5. Proofs

All theorems hold for every finite set of tasks, every nonempty set of clones,
every set of handlers and labels, every queue capacity (zero included) and every
concurrency limit, which are the assumptions `TasksAssumption`,
`CallersAssumption`, `SizesAssumption` and `PoolAssumption` (`RlxdAssumption` for
the relaxed pool) and nothing more; those
about the deferred registry and the relaxed pool for every number of dispatchers
(`DispatchersAssumption`), those about the token for any sets of waiters and
cancellers.

* **TaskQueueProofs.**  `QueueInv` joins types, the wait list, the permit
  accounting, `FailsOnlyOnShutdown`, and two facts the properties lack: a call
  in progress keeps its producer (`CallsHoldProducers`), and the consumer leaves
  only after shutdown was signalled or with no producer left
  (`ConsumerLeavesLast`).  The accounting is what makes backpressure
  inductive: a call may take a permit only because free permits, held permits
  and queued messages add up.  The lemmas about `Without` (removing a waiter
  keeps the others, once each) carry `WaitListExact`.  `FailsOnlyOnShutdown`
  needs the two extra facts: with a call in progress the consumer cannot have left
  on a disconnected channel.
* **ActiveSlotsProofs.**  `SlotsInv` says that the free stack lists exactly the
  empty slots, once each, and that owners and occupied slots correspond one to
  one, so that an insert or a remove changes `len` by exactly one, and with it
  the number of owners.
* **CompletionNotifierProofs.**  `NotifierInv` relates sink, worker, senders and
  queue: a worker stops only with a closed sink and no senders, and none of the
  three can come back.
* **CompletionOrderProofs.**  `EveryMessageOnceInOrder` compares sequences put
  together by concatenation; `HistoryInv` says the same position by position, which
  a step can be followed through.  The queue is the last part of what was sent
  (`QueueIsRest`), the message in delivery is the one before it (`InDelivery`), and
  a handler has seen everything from some message on, at the latest the first one
  sent after its push (`since`), to there, less the message in
  delivery while its call is still due (`SeenSoFar`).  The step that matters is the
  push of a handler: the write lock keeps it out of a delivery, so its first
  message is the head of the queue.  `OrderFromPositions` puts the sequence back
  together.
* **CancelTokenProofs.**  `TokenInv` is the two safety properties and the types:
  `ListedWhileWaiting` is what makes `NoMissedCancel` inductive, because it tells
  that a caller which falls asleep is listed, and the second check that the flag
  was clear then.  `TokenImplementsLatch` maps each step of the loop to a step of
  the latch or a stutter.
* **DeferredRegistryProofs.**  `DeferredInv` adds to `InFlightExact` and
  `ListedTaskKept` that an occupied slot holds a task of that shard which went
  through `insert` (`OccupantsBelong`); without it an insert might meet its own
  task in the array.  The work is in `insert`: `SweptIndices` says that a sweep
  pushes indices of finished tasks, each once, and `InsertedCore` that the slot
  taken was free, new or swept, and no running task's.  `RegistryRefinement` maps
  the four steps to the four abstract ones; `VisibleBelowCount` gives the slack
  the abstract steps demand between the visible tasks and the count.
* **FuturePoolManagerProofs.**  First, every pool step is a step of each
  component or leaves its variables alone (`PoolImplementsQueue`, `-Slots`,
  `-Notifier`), so the components' invariants hold in the pool.  On top of them
  `PoolInv` adds the pool's types and `Placement`: permit conservation, an exact
  registry, `AcceptedTaskAccounted`, and three facts that make them inductive.
  The worker holds a task exactly at the points between dequeue and spawn
  (`WorkerHasTask`); it leaves only after shutdown or on a disconnected queue
  (`WorkerLeaves`); and only accepted tasks are placed anywhere
  (`OnlyAcceptedPlaced`).  Together they give, for instance, that the task the
  worker is about to insert was never spawned and owns no slot.  The induction step is split
  by actor (clones, worker, tasks, notifier).  From `PoolInv` follow
  `PermitConservation`, `ConcurrencyLimited`, `RegistryExact`,
  `AcceptedTaskAccounted`, `NoTaskLeftBehind`, and the action properties
  `CancelWins` and `ResultIsFinal`.  `PoolImplementsLifecycle` shows each actor's
  steps to be steps of `TaskLifecycle`, with the decision of a task's outcome and
  its delivery as two steps, and with shutdown signalled whenever the worker drops
  what is queued: `StageMeaning` reads the stage off the
  invariant, `StagesMove` says that a step about one task moves one stage, and the
  permit the worker holds when it spawns leaves fewer than the limit running.
  Two more inductive invariants rest on `PoolInv`.  `ReportInv` is for
  `ReportsMatchResults`: a task is told of when a message about it is queued, in
  delivery or delivered (`ToldOf`); a task with a sender, and one the worker is
  about to report, is not; and the message in delivery has reached only the
  handlers before the notifier's position.  Without the last two facts a second
  report could not be excluded.  `ShutdownInv` is for `SoleShutdownJoins`: it says
  how far a sole clone's shutdown has come and what that has established
  (`SoleShutdown`), because the property speaks only of its end; from the sink's
  closing on nobody is left to open a new channel.
* **FuturePoolManagerRlxdProofs.**  `RlxdInv` joins the invariants of the registry
  and of the notifier, the types, and where everything is.  The two permit accounts
  are not inductive alone: a task that takes a permit must not have been counted
  yet, and one that returns it must have been.  So the invariant also says
  what a lane holds (`LanesHold`), between which points a dispatcher has a task in
  hand (`DispatchersHold`), that call, phase and result of a task agree with its
  place (`TasksPlaced`), and that its registry entry follows its phase
  (`EntriesFollow`).  The step is split by actor (clones and notifier, submit calls,
  dispatchers, tasks).  From it follow `RunPermitConservation`,
  `LanePermitAccounting`, `LaneLeavesNothing`, `RunningTaskFound` and
  `TaskInOnePlace`.  Every step is a step of the registry and of the notifier
  (`RlxdUsesRegistry`, `RlxdUsesNotifier`), so that, by
  `RegistryRefinement`, the pool implements `ActiveRegistry` as well
  (`RlxdImplementsRegistry`).  `SlotsStayWithinLimit` counts: the array grows only
  when no slot is free and none is occupied by a finished task, so every occupant
  and the newcomer hold a permit.  `RlxdLifecycleRefinement` maps the steps of
  both paths to `TaskLifecycle`; the limit on running tasks comes from the account
  of the concurrency gate.  A dispatcher that drops its lane has seen shutdown
  signalled or every producer gone, and no call in progress is left without a
  producer (`LoopsInv`); that is why tasks are discarded only by a closing pool.
  `ShutdownsJoinAll` speaks of every clone: the caller that drained the join handles
  is still in its loop over them, with the dispatchers before the one awaited gone,
  or all are gone (`JoinsUnderWay`, `JoinsHandedOver`); of a sole clone's shutdown it
  follows in addition the notifier, as in the strict pool.
  Timeouts are a constant here
  (`TimeoutsFire`), so this theorem is about shutdowns in which none fires; the
  strict pool's `timedOut` makes the same distinction per call.

Every safety property that a run checks, invariants and action properties and
the refinements, is thus stated by a theorem.  Only model-checked are the liveness
properties, since fairness is out of the prover's reach: `SubmitReturns`,
`CloseTerminatesWorker`, `CancelReachesWaiters`, `EveryHandleResolves`,
`ShutdownReturns`, `CompletionReported`, `PoolWindsDown`, `CancelTakesEffect`,
`RlxdHandlesResolve`, `RlxdSubmitReturns`, `RlxdShutdownReturns` and
`RlxdWindsDown`; and the three disagreements of section 4, which are
counterexamples.

## 6. Not modelled, and the plan

Not modelled: `await_result` and `detach`, which only read or drop the receiver of
a result channel; handlers that call back into the pool (a handler that registers
another one asks for the write lock its own worker holds for reading); dropping a
`shutdown` future half-way; the two read-only counters as calls of their own (the
relaxed pool's are modelled where the pool itself uses them); `lib.rs`, which only
re-exports.

Plan, in order:

1. *Done:* the queue, the registry, the notifier, the strict pool, their
   invariants and the implementation proofs.
2. *Done:* `CancelToken` and `DeferredRegistry` with their abstract
   specifications, checked and proved.
3. *Done:* `FuturePoolManagerRlxd`, the abstract life of a task and both pools'
   implementation of it, checked and proved.
4. *Done:* proofs of the relaxed pool's invariants, of its use of registry and
   notifier, of `ReportsMatchResults`, `SoleShutdownJoins`,
   `ShutdownJoinsAll` and `EveryMessageOnceInOrder`.
5. Left: for the relaxed pool, that its reports match its results, as
   `ReportInv` shows for the strict one; lemmas towards liveness that are safety
   facts, such as that a parked submit always has somebody who will release a permit.
