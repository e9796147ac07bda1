------------------------------ MODULE TaskQueue ------------------------------
(***************************************************************************)
(* The bounded task queue: a CapacityGate (a fair semaphore) in front of   *)
(* an unbounded channel.  `submit` checks for shutdown, waits for a permit *)
(* in a biased select against the shutdown token and sends the task with   *)
(* the permit; the consumer releases the permit when it dequeues.          *)
(*                                                                         *)
(* The module has its own specification (QueueSpec), in which the consumer *)
(* and the owners of the producer handles are an environment.  The pool    *)
(* (FuturePoolManager) uses the same actions and implements QueueSpec.     *)
(***************************************************************************)
EXTENDS PoolParameters, Sequences

VARIABLES
  shutdownToken,  \* the flag of the pool-wide CancellationToken
  permits,        \* free permits of the queue's gate
  waiters,        \* acquire futures registered with the semaphore, oldest first
  send,           \* where each submit call is
  queue,          \* tasks in the channel, oldest first
  producers,      \* QueueProducers whose sender is neither closed nor dropped
  rxAlive         \* the QueueConsumer exists

queueVars == <<shutdownToken, permits, waiters, send, queue, producers, rxAlive>>

(***************************************************************************)
(* The points of a submit call.  "select": about to poll the select for    *)
(* the first time; "gate": the shutdown arm was pending, the gate's arm is *)
(* polled next; "parked": both arms are pending; "holding": a permit is    *)
(* held and the message not yet sent.  The others are returned results.    *)
(***************************************************************************)
InFlightPoints == {"select", "gate", "parked", "holding"}
ReturnedPoints == {"ok", "PoolShuttingDown", "QueueSendChannelClosed", "abandoned"}

InFlight(t) == send[t] \in InFlightPoints
NoCallThrough(m) == \A t \in Tasks : Submitter[t] = m => ~InFlight(t)

Holding == {t \in Tasks : send[t] = "holding"}
Failed == {t \in Tasks : send[t] = "QueueSendChannelClosed"}

QueueTypeOK ==
  /\ shutdownToken \in BOOLEAN
  /\ permits \in Nat
  /\ waiters \in Seq(Tasks)
  /\ send \in [Tasks -> {"idle"} \cup InFlightPoints \cup ReturnedPoints]
  /\ queue \in Seq(Tasks)
  /\ producers \subseteq Managers
  /\ rxAlive \in BOOLEAN

QueueInit ==
  /\ shutdownToken = FALSE
  /\ permits = QueueCapacity
  /\ waiters = <<>>
  /\ send = [t \in Tasks |-> "idle"]
  /\ queue = <<>>
  /\ \E m \in Managers : producers = {m}
  /\ rxAlive = TRUE

-----------------------------------------------------------------------------
(***************************************************************************)
(* The fair semaphore.  A permit goes to the oldest registered waiter; a   *)
(* newcomer gets one only when nobody waits.  Dropping an acquire future   *)
(* takes it out of the wait list.                                          *)
(***************************************************************************)
MayAcquire(t) ==
  /\ permits > 0
  /\ waiters = <<>> \/ Head(waiters) = t

Registered(t) == \E i \in DOMAIN waiters : waiters[i] = t

Without(t) ==
  IF Registered(t)
  THEN LET k == CHOOSE j \in DOMAIN waiters : waiters[j] = t
       IN  [i \in 1..(Len(waiters) - 1) |-> waiters[IF i < k THEN i ELSE i + 1]]
  ELSE waiters

-----------------------------------------------------------------------------
(***************************************************************************)
(* The checks at the head of `submit` and again at the head of `send`.     *)
(* They read the same two monotone flags and fail with the same error, so  *)
(* one step stands for both.                                               *)
(***************************************************************************)
SubmitCheck(t) ==
  /\ send[t] = "idle"
  /\ Submitter[t] \in producers
  /\ send' = [send EXCEPT ![t] = IF shutdownToken \/ ~rxAlive
                                 THEN "PoolShuttingDown" ELSE "select"]
  /\ UNCHANGED <<shutdownToken, permits, waiters, queue, producers, rxAlive>>

\* The first arm of send's biased select: the shutdown token.  A parked call
\* is polled again when the token is cancelled or the gate wakes it.
PollShutdown(t) ==
  /\ \/ send[t] = "select"
     \/ send[t] = "parked" /\ (shutdownToken \/ MayAcquire(t))
  /\ IF shutdownToken
     THEN /\ send' = [send EXCEPT ![t] = "PoolShuttingDown"]
          /\ waiters' = Without(t)
     ELSE /\ send' = [send EXCEPT ![t] = "gate"]
          /\ UNCHANGED waiters
  /\ UNCHANGED <<shutdownToken, permits, queue, producers, rxAlive>>

\* The second arm: the gate's acquire future takes a permit or registers.
PollGate(t) ==
  /\ send[t] = "gate"
  /\ IF MayAcquire(t)
     THEN /\ permits' = permits - 1
          /\ waiters' = Without(t)
          /\ send' = [send EXCEPT ![t] = "holding"]
     ELSE /\ waiters' = IF Registered(t) THEN waiters ELSE Append(waiters, t)
          /\ send' = [send EXCEPT ![t] = "parked"]
          /\ UNCHANGED permits
  /\ UNCHANGED <<shutdownToken, queue, producers, rxAlive>>

\* Mutant: a dropped acquire future stays in the wait list.
AbandonSubmitStaysQueued(t) ==
  /\ send[t] = "parked"
  /\ send' = [send EXCEPT ![t] = "abandoned"]
  /\ UNCHANGED <<shutdownToken, permits, waiters, queue, producers, rxAlive>>

\* The caller drops the future of a submit that is waiting (a timeout or a
\* select of its own): the acquire future leaves the wait list.
AbandonSubmit(t) ==
  /\ send[t] = "parked"
  /\ send' = [send EXCEPT ![t] = "abandoned"]
  /\ waiters' = Without(t)
  /\ UNCHANGED <<shutdownToken, permits, queue, producers, rxAlive>>

\* Mutant: the temporary guard is not forgotten when the send succeeds.
EnqueueKeepsGuard(t) ==
  /\ send[t] = "holding"
  /\ permits' = permits + (IF rxAlive THEN 1 ELSE 2)
  /\ queue' = IF rxAlive THEN Append(queue, t) ELSE queue
  /\ send' = [send EXCEPT ![t] = IF rxAlive THEN "ok" ELSE "QueueSendChannelClosed"]
  /\ UNCHANGED <<shutdownToken, waiters, producers, rxAlive>>

\* The send itself.  On success the permit travels with the message and the
\* temporary guard is forgotten.  On failure the message is dropped, which
\* releases its Permit, and the temporary guard releases once more.
Enqueue(t) ==
  /\ send[t] = "holding"
  /\ IF rxAlive
     THEN /\ queue' = Append(queue, t)
          /\ send' = [send EXCEPT ![t] = "ok"]
          /\ UNCHANGED permits
     ELSE /\ permits' = permits + 2
          /\ send' = [send EXCEPT ![t] = "QueueSendChannelClosed"]
          /\ UNCHANGED queue
  /\ UNCHANGED <<shutdownToken, waiters, producers, rxAlive>>

-----------------------------------------------------------------------------
\* QueueConsumer::recv: take the oldest message and drop its permit.
Dequeue ==
  /\ rxAlive
  /\ queue # <<>>
  /\ queue' = Tail(queue)
  /\ permits' = permits + 1
  /\ UNCHANGED <<shutdownToken, waiters, send, producers, rxAlive>>

\* Mutant: an empty channel counts as a disconnected one.
DisconnectedWhenEmpty == queue = <<>>

\* recv fails once every sender is closed or dropped and nothing is queued.
Disconnected == producers = {} /\ queue = <<>>

\* The consumer goes out of scope: the messages still queued are dropped with
\* it, and each releases its permit.
DropReceiver ==
  /\ rxAlive
  /\ rxAlive' = FALSE
  /\ queue' = <<>>
  /\ permits' = permits + Len(queue)
  /\ UNCHANGED <<shutdownToken, waiters, send, producers>>

\* Cancelling the pool-wide token.
CancelShutdownToken ==
  /\ shutdownToken' = TRUE
  /\ UNCHANGED <<permits, waiters, send, queue, producers, rxAlive>>

\* QueueProducer::close, and the drop of the producer's sender.
CloseProducer(m) ==
  /\ NoCallThrough(m)
  /\ producers' = producers \ {m}
  /\ UNCHANGED <<shutdownToken, permits, waiters, send, queue, rxAlive>>

\* A clone of a live producer (part of cloning the manager).
CloneProducer(m, n) ==
  /\ m \in producers
  /\ producers' = producers \cup {n}
  /\ UNCHANGED <<shutdownToken, permits, waiters, send, queue, rxAlive>>

-----------------------------------------------------------------------------
SubmitStep(t) ==
  PollShutdown(t) \/ PollGate(t) \/ Enqueue(t)

\* What the rest of the pool does to the queue: the worker loop drops the
\* consumer only after shutdown was signalled or recv has failed.
QueueEnvironment ==
  \/ Dequeue
  \/ DropReceiver /\ (shutdownToken \/ Disconnected)
  \/ CancelShutdownToken
  \/ \E m \in Managers : CloseProducer(m)
  \/ \E m, n \in Managers : CloneProducer(m, n)

QueueNext ==
  \/ \E t \in Tasks : SubmitCheck(t) \/ SubmitStep(t) \/ AbandonSubmit(t)
  \/ QueueEnvironment

QueueSpec == QueueInit /\ [][QueueNext]_queueVars

\* A submit call in progress is polled whenever it can move, and the consumer
\* goes on receiving.
QueueFairness ==
  /\ \A t \in Tasks : WF_queueVars(SubmitStep(t))
  /\ WF_queueVars(Dequeue)

FairQueueSpec == QueueSpec /\ QueueFairness

-----------------------------------------------------------------------------
(***************************************************************************)
(* Every permit of the gate is free, held by a call, or travelling with a  *)
(* queued message, and each failed send has added one permit too many      *)
(* (task_queue.rs:153-159).  Only a dropped consumer makes sends fail, and *)
(* by then the queue is empty.                                             *)
(***************************************************************************)
PermitAccounting ==
  /\ permits + Cardinality(Holding) + Len(queue) = QueueCapacity + Cardinality(Failed)
  /\ Failed # {} => ~rxAlive
  /\ ~rxAlive => queue = <<>>

(***************************************************************************)
(* Backpressure: as long as the consumer exists, the tasks queued and the  *)
(* calls about to queue one never exceed the capacity, whatever calls are  *)
(* rejected, abandoned or parked in between.                               *)
(***************************************************************************)
Backpressure ==
  rxAlive => Len(queue) + Cardinality(Holding) <= QueueCapacity

(***************************************************************************)
(* A submit fails only because of shutdown: neither error is returned      *)
(* while the pool's token is still clear, although `send` can also fail on *)
(* a consumer that left because the channel disconnected.                  *)
(***************************************************************************)
FailsOnlyOnShutdown ==
  \A t \in Tasks :
    send[t] \in {"PoolShuttingDown", "QueueSendChannelClosed"} => shutdownToken

(***************************************************************************)
(* No lost wakeup: a parked call is registered with the gate exactly once, *)
(* and calls that left the select (rejected, abandoned, granted) are not,  *)
(* so a released permit is never handed to a call that is gone.            *)
(***************************************************************************)
WaitListExact ==
  /\ \A i, j \in DOMAIN waiters : waiters[i] = waiters[j] => i = j
  /\ \A t \in Tasks : send[t] = "parked" => Registered(t)
  /\ \A t \in Tasks : Registered(t) => send[t] \in {"parked", "gate"}

(***************************************************************************)
(* Every submit call returns: it gets its slot or its error, because the   *)
(* consumer frees slots and the gate hands them on in order.               *)
(***************************************************************************)
SubmitReturns == \A t \in Tasks : InFlight(t) ~> send[t] \in ReturnedPoints
=============================================================================
