-------------------------- MODULE CompletionNotifier --------------------------
(***************************************************************************)
(* Completion notifications: the sink (a sender in a OnceLock, created by  *)
(* the first add_handler), the queue of completion messages, the handler   *)
(* list behind a RwLock, and the worker that calls every handler for every *)
(* message.  The worker's other select arm, the shutdown token, only logs. *)
(*                                                                         *)
(* In the module's own specification (NotifierSpec) the pool's tasks and   *)
(* its shutdown are an environment that captures senders, sends, closes    *)
(* the sink and takes the join handle at any moment.                       *)
(***************************************************************************)
EXTENDS PoolParameters, Sequences

VARIABLES
  sink,            \* the OnceLock<CompletionSink>: "unset", "open", "closed"
  adding,          \* where each add_handler call is
  handlers,        \* the handler list, in registration order
  txs,             \* tasks holding a sender clone
  nqueue,          \* completion messages, oldest first
  nworker,         \* where the notification worker is
  ncur,            \* the message the worker is delivering
  ncalls,          \* the position in `handlers` it calls next
  notifierHandle,  \* the worker's join handle has not been taken
  seen             \* what each handler was called with, in order

notifierVars ==
  <<sink, adding, handlers, txs, nqueue, nworker, ncur, ncalls, notifierHandle, seen>>

Statuses == {"Success", "Cancelled", "Panicked"}
Messages == [task : Tasks, status : Statuses]
NoMessage == [task |-> NoTask, status |-> "none"]

NotifierTypeOK ==
  /\ sink \in {"unset", "open", "closed"}
  /\ adding \in [Handlers -> {"no", "initialized", "yes"}]
  /\ handlers \in Seq(Handlers)
  /\ txs \subseteq Tasks
  /\ nqueue \in Seq(Messages)
  /\ nworker \in {"none", "waiting", "calling", "stopped"}
  /\ ncur \in Messages \cup {NoMessage}
  /\ ncalls \in Nat
  /\ notifierHandle \in BOOLEAN
  /\ seen \in [Handlers -> Seq(Messages)]

NotifierInit ==
  /\ sink = "unset"
  /\ adding = [h \in Handlers |-> "no"]
  /\ handlers = <<>>
  /\ txs = {}
  /\ nqueue = <<>>
  /\ nworker = "none"
  /\ ncur = NoMessage
  /\ ncalls = 0
  /\ notifierHandle = FALSE
  /\ seen = [h \in Handlers |-> <<>>]

-----------------------------------------------------------------------------
(***************************************************************************)
(* add_handler, first part: get_or_init.  The first call ever creates the  *)
(* channel, spawns the worker and stores its join handle; a closed sink is *)
(* an initialized cell and stays closed.                                   *)
(***************************************************************************)
AddHandlerInit(h) ==
  /\ adding[h] = "no"
  /\ adding' = [adding EXCEPT ![h] = "initialized"]
  /\ IF sink = "unset"
     THEN sink' = "open" /\ nworker' = "waiting" /\ notifierHandle' = TRUE
     ELSE UNCHANGED <<sink, nworker, notifierHandle>>
  /\ UNCHANGED <<handlers, txs, nqueue, ncur, ncalls, seen>>

\* Second part: push under the write lock, which the worker excludes while it
\* is calling handlers.
AddHandlerPush(h) ==
  /\ adding[h] = "initialized"
  /\ nworker # "calling"
  /\ adding' = [adding EXCEPT ![h] = "yes"]
  /\ handlers' = Append(handlers, h)
  /\ UNCHANGED <<sink, txs, nqueue, nworker, ncur, ncalls, notifierHandle, seen>>

-----------------------------------------------------------------------------
\* The worker loop gives the task it spawns a sender, if the sink is open.
CaptureSender(t) ==
  /\ txs' = IF sink = "open" THEN txs \cup {t} ELSE txs
  /\ UNCHANGED <<sink, adding, handlers, nqueue, nworker, ncur, ncalls,
                 notifierHandle, seen>>

\* A finished task sends its completion, if it has a sender, and drops it.
SendCompletion(t, status) ==
  /\ nqueue' = IF t \in txs
               THEN Append(nqueue, [task |-> t, status |-> status]) ELSE nqueue
  /\ txs' = txs \ {t}
  /\ UNCHANGED <<sink, adding, handlers, nworker, ncur, ncalls, notifierHandle, seen>>

\* The worker loop reports a task that was cancelled while it was queued.
SendPreCancelled(t) ==
  /\ nqueue' = IF sink = "open"
               THEN Append(nqueue, [task |-> t, status |-> "Cancelled"]) ELSE nqueue
  /\ UNCHANGED <<sink, adding, handlers, txs, nworker, ncur, ncalls,
                 notifierHandle, seen>>

\* CompletionSink::close, on a cell that may still be unset.  The last owner of
\* the cell has the same effect when it drops it.
CloseSink ==
  /\ sink' = IF sink = "open" THEN "closed" ELSE sink
  /\ UNCHANGED <<adding, handlers, txs, nqueue, nworker, ncur, ncalls,
                 notifierHandle, seen>>

\* await_shutdown takes the join handle, once.
TakeNotifierHandle ==
  /\ notifierHandle' = FALSE
  /\ UNCHANGED <<sink, adding, handlers, txs, nqueue, nworker, ncur, ncalls, seen>>

-----------------------------------------------------------------------------
\* The worker receives a message and takes the read lock; with no handler
\* registered the message is dropped.
NotifierRecv ==
  /\ nworker = "waiting"
  /\ nqueue # <<>>
  /\ nqueue' = Tail(nqueue)
  /\ IF handlers = <<>>
     THEN UNCHANGED <<nworker, ncur, ncalls>>
     ELSE nworker' = "calling" /\ ncur' = Head(nqueue) /\ ncalls' = 1
  /\ UNCHANGED <<sink, adding, handlers, txs, notifierHandle, seen>>

\* Mutant: a panic in a handler ends the delivery for the ones after it.
NotifierCallPanicEnds ==
  /\ nworker = "calling"
  /\ seen' = [seen EXCEPT ![handlers[ncalls]] = Append(@, ncur)]
  /\ ncalls' = 0 /\ nworker' = "waiting" /\ ncur' = NoMessage
  /\ UNCHANGED <<sink, adding, handlers, txs, nqueue, notifierHandle>>

\* It calls the handlers in turn (a panic in one is caught) and releases the
\* lock after the last.
NotifierCall ==
  /\ nworker = "calling"
  /\ seen' = [seen EXCEPT ![handlers[ncalls]] = Append(@, ncur)]
  /\ IF ncalls < Len(handlers)
     THEN ncalls' = ncalls + 1 /\ UNCHANGED <<nworker, ncur>>
     ELSE ncalls' = 0 /\ nworker' = "waiting" /\ ncur' = NoMessage
  /\ UNCHANGED <<sink, adding, handlers, txs, nqueue, notifierHandle>>

\* Mutant: the worker leaves as soon as the sink is closed.
NotifierStopUndrained ==
  /\ nworker = "waiting"
  /\ sink # "open"
  /\ nworker' = "stopped"
  /\ UNCHANGED <<sink, adding, handlers, txs, nqueue, ncur, ncalls, notifierHandle, seen>>

\* Mutant: the worker goes round its loop again when recv fails.
NotifierStopRetries ==
  /\ nworker = "waiting"
  /\ nqueue = <<>>
  /\ sink # "open"
  /\ txs = {}
  /\ UNCHANGED notifierVars

\* recv fails when nothing is queued and every sender is gone.
NotifierStop ==
  /\ nworker = "waiting"
  /\ nqueue = <<>>
  /\ sink # "open"
  /\ txs = {}
  /\ nworker' = "stopped"
  /\ UNCHANGED <<sink, adding, handlers, txs, nqueue, ncur, ncalls, notifierHandle, seen>>

NotifierStep == NotifierRecv \/ NotifierCall \/ NotifierStop

-----------------------------------------------------------------------------
NotifierEnvironment ==
  \/ \E t \in Tasks : CaptureSender(t) \/ SendPreCancelled(t)
  \/ \E t \in Tasks, status \in Statuses : SendCompletion(t, status)
  \/ CloseSink
  \/ TakeNotifierHandle

NotifierNext ==
  \/ NotifierStep
  \/ \E h \in Handlers : AddHandlerInit(h) \/ AddHandlerPush(h)
  \/ NotifierEnvironment

NotifierSpec == NotifierInit /\ [][NotifierNext]_notifierVars

-----------------------------------------------------------------------------
(***************************************************************************)
(* The worker stops only when nothing can arrive any more: once it has     *)
(* stopped, no message is queued, no task holds a sender and none can get  *)
(* one, so no completion is silently lost in a queue nobody reads.         *)
(***************************************************************************)
StopsDrained ==
  nworker = "stopped" => nqueue = <<>> /\ txs = {} /\ sink = "closed"

(***************************************************************************)
(* A sender exists only while a worker does: a channel is never created    *)
(* without its consumer, and never a second one after the first is closed. *)
(***************************************************************************)
SinkHasWorker ==
  /\ sink = "unset" <=> nworker = "none"
  /\ sink = "unset" => txs = {} /\ nqueue = <<>> /\ handlers = <<>>
  /\ sink = "open" \/ txs # {} \/ nqueue # <<>> => nworker \in {"waiting", "calling"}

(***************************************************************************)
(* The handler list changes only outside a delivery, so the position the   *)
(* worker goes on from always names a handler, and each handler is called  *)
(* at most once per message.                                               *)
(***************************************************************************)
DeliveryInRange ==
  /\ nworker = "calling" => ncalls \in DOMAIN handlers /\ ncur # NoMessage
  /\ \A i, j \in DOMAIN handlers : handlers[i] = handlers[j] => i = j
=============================================================================
