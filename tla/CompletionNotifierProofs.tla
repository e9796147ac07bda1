----------------------- MODULE CompletionNotifierProofs -----------------------
(***************************************************************************)
(* Proofs about the completion notifier, for every set of tasks and        *)
(* handlers.                                                               *)
(***************************************************************************)
EXTENDS CompletionNotifier, TLAPS

(***************************************************************************)
(* The inductive invariant: the handler list holds exactly the handlers    *)
(* whose registration is finished, and a registration that has begun has   *)
(* initialized the sink.                                                   *)
(***************************************************************************)
HandlersRegistered ==
  /\ \A i \in DOMAIN handlers : adding[handlers[i]] = "yes"
  /\ \A h \in Handlers : adding[h] # "no" => sink # "unset"

NotifierInv ==
  /\ NotifierTypeOK
  /\ StopsDrained
  /\ SinkHasWorker
  /\ DeliveryInRange
  /\ HandlersRegistered

-----------------------------------------------------------------------------
\* NoMessage is not the message of any task.
(***************************************************************************)
(* The placeholder for "no message in delivery" is not a message.          *)
(***************************************************************************)
LEMMA NoMessageLemma == NoMessage \notin Messages
  BY TasksAssumption DEF NoMessage, Messages

(***************************************************************************)
(* What a task sends on completion is a message.                           *)
(***************************************************************************)
LEMMA MessageLemma ==
  ASSUME NEW t \in Tasks, NEW status \in Statuses
  PROVE  [task |-> t, status |-> status] \in Messages
  BY DEF Messages

(***************************************************************************)
(* A new notifier, whose sink is unset, satisfies the invariant.           *)
(***************************************************************************)
LEMMA NotifierInitInv == NotifierInit => NotifierInv
<1> SUFFICES ASSUME NotifierInit PROVE NotifierInv
  OBVIOUS
<1>1. NotifierTypeOK
  <2>1. handlers \in Seq(Handlers) /\ nqueue \in Seq(Messages)
    BY DEF NotifierInit
  <2>2. seen \in [Handlers -> Seq(Messages)]
    BY DEF NotifierInit
  <2> QED
    BY <2>1, <2>2 DEF NotifierInit, NotifierTypeOK
<1>2. StopsDrained /\ SinkHasWorker /\ DeliveryInRange /\ HandlersRegistered
  BY DEF NotifierInit, StopsDrained, SinkHasWorker, DeliveryInRange, HandlersRegistered
<1> QED
  BY <1>1, <1>2 DEF NotifierInv

(***************************************************************************)
(* add_handler (notifier.rs:154-186): the two parts of a registration.     *)
(***************************************************************************)
LEMMA AddHandlerInitInv ==
  ASSUME NotifierInv, NEW h \in Handlers, AddHandlerInit(h)
  PROVE  NotifierInv'
<1> USE DEF NotifierInv
<1>1. NotifierTypeOK'
  BY DEF AddHandlerInit, NotifierTypeOK
<1>2. UNCHANGED <<handlers, txs, nqueue, ncur, ncalls>>
  BY DEF AddHandlerInit
<1>3. \/ UNCHANGED <<sink, nworker>> /\ sink # "unset"
      \/ sink = "unset" /\ sink' = "open" /\ nworker' = "waiting"
  BY DEF AddHandlerInit
<1>4. StopsDrained' /\ SinkHasWorker' /\ DeliveryInRange'
  BY <1>2, <1>3 DEF StopsDrained, SinkHasWorker, DeliveryInRange
<1>5. HandlersRegistered'
  <2>1. \A g \in Handlers : adding'[g] = IF g = h THEN "initialized" ELSE adding[g]
    BY DEF AddHandlerInit, NotifierTypeOK
  <2>2. \A i \in DOMAIN handlers : handlers[i] \in Handlers /\ handlers[i] # h
    BY DEF AddHandlerInit, HandlersRegistered, NotifierTypeOK
  <2> QED
    BY <1>2, <1>3, <2>1, <2>2 DEF HandlersRegistered
<1> QED
  BY <1>1, <1>4, <1>5

(***************************************************************************)
(* Pushing a handler under the write lock.  The worker is not calling.     *)
(***************************************************************************)
LEMMA AddHandlerPushInv ==
  ASSUME NotifierInv, NEW h \in Handlers, AddHandlerPush(h)
  PROVE  NotifierInv'
<1> USE DEF NotifierInv
<1>1. NotifierTypeOK'
  BY DEF AddHandlerPush, NotifierTypeOK
<1>2. sink # "unset"
  BY DEF AddHandlerPush, HandlersRegistered
<1>3. StopsDrained' /\ SinkHasWorker'
  BY <1>2 DEF AddHandlerPush, StopsDrained, SinkHasWorker
<1>4. /\ DOMAIN handlers' = 1..(Len(handlers) + 1) /\ Len(handlers) \in Nat
      /\ DOMAIN handlers = 1..Len(handlers)
      /\ \A i \in DOMAIN handlers : handlers'[i] = handlers[i] /\ handlers[i] \in Handlers
      /\ handlers'[Len(handlers) + 1] = h
  BY DEF AddHandlerPush, NotifierTypeOK
<1>5. \A i \in DOMAIN handlers' : i \in DOMAIN handlers \/ i = Len(handlers) + 1
  BY <1>4
<1>6. \A i \in DOMAIN handlers : handlers[i] # h
  BY DEF AddHandlerPush, HandlersRegistered
<1>7. DeliveryInRange'
  <2>1. \A i, j \in DOMAIN handlers' : handlers'[i] = handlers'[j] => i = j
    BY <1>4, <1>5, <1>6 DEF DeliveryInRange
  <2> QED
    BY <2>1 DEF AddHandlerPush, DeliveryInRange
<1>8. HandlersRegistered'
  <2>1. \A g \in Handlers : adding'[g] = IF g = h THEN "yes" ELSE adding[g]
    BY DEF AddHandlerPush, NotifierTypeOK
  <2>2. \A i \in DOMAIN handlers' : adding'[handlers'[i]] = "yes"
    BY <1>4, <1>5, <2>1 DEF HandlersRegistered
  <2> QED
    BY <1>2, <2>1, <2>2 DEF AddHandlerPush, HandlersRegistered
<1> QED
  BY <1>1, <1>3, <1>7, <1>8

(***************************************************************************)
(* The worker loop (notifier.rs:200-263).                                  *)
(***************************************************************************)
LEMMA NotifierStepInv == NotifierInv /\ NotifierStep => NotifierInv'
<1> SUFFICES ASSUME NotifierInv, NotifierStep PROVE NotifierInv'
  OBVIOUS
<1> USE DEF NotifierInv
<1>1. UNCHANGED <<sink, adding, handlers, txs>>
  BY DEF NotifierStep, NotifierRecv, NotifierCall, NotifierStop
<1>2. HandlersRegistered'
  BY <1>1 DEF HandlersRegistered
<1>3. CASE NotifierRecv
  <2>1. Head(nqueue) \in Messages /\ nqueue' \in Seq(Messages) /\ nqueue # <<>>
    BY <1>3 DEF NotifierRecv, NotifierTypeOK
  <2>2. NotifierTypeOK'
    BY <1>1, <1>3, <2>1 DEF NotifierRecv, NotifierTypeOK
  <2>3. StopsDrained' /\ SinkHasWorker'
    BY <1>1, <1>3 DEF NotifierRecv, StopsDrained, SinkHasWorker
  <2>4. DeliveryInRange'
    <3>1. handlers # <<>> => 1 \in DOMAIN handlers
      BY DEF NotifierTypeOK
    <3> QED
      BY <1>1, <1>3, <2>1, <3>1, NoMessageLemma DEF NotifierRecv, DeliveryInRange
  <2> QED
    BY <1>2, <2>2, <2>3, <2>4
<1>4. CASE NotifierCall
  <2>1. ncur \in Messages /\ ncalls \in DOMAIN handlers
    BY <1>4 DEF NotifierCall, NotifierTypeOK, DeliveryInRange
  <2>2. seen' \in [Handlers -> Seq(Messages)]
    BY <1>4, <2>1 DEF NotifierCall, NotifierTypeOK
  <2>3. NotifierTypeOK'
    BY <1>1, <1>4, <2>2 DEF NotifierCall, NotifierTypeOK
  <2>4. StopsDrained' /\ SinkHasWorker'
    BY <1>1, <1>4 DEF NotifierCall, StopsDrained, SinkHasWorker
  <2>5. ncalls < Len(handlers) => ncalls + 1 \in DOMAIN handlers
    BY <2>1 DEF NotifierTypeOK
  <2>6. DeliveryInRange'
    BY <1>1, <1>4, <2>5 DEF NotifierCall, DeliveryInRange
  <2> QED
    BY <1>2, <2>3, <2>4, <2>6
<1>5. CASE NotifierStop
  <2>1. NotifierTypeOK'
    BY <1>5 DEF NotifierStop, NotifierTypeOK
  <2>2. StopsDrained' /\ SinkHasWorker' /\ DeliveryInRange'
    BY <1>5 DEF NotifierStop, StopsDrained, SinkHasWorker, DeliveryInRange, NotifierTypeOK
  <2> QED
    BY <1>2, <2>1, <2>2
<1> QED
  BY <1>3, <1>4, <1>5 DEF NotifierStep

(***************************************************************************)
(* What the pool does to the notifier: senders captured, messages sent,    *)
(* the sink closed and the join handle taken, in any order.                *)
(***************************************************************************)
LEMMA NotifierEnvironmentInv == NotifierInv /\ NotifierEnvironment => NotifierInv'
<1> SUFFICES ASSUME NotifierInv, NotifierEnvironment PROVE NotifierInv'
  OBVIOUS
<1> USE DEF NotifierInv
<1>1. UNCHANGED <<adding, handlers, nworker, ncur, ncalls, seen>>
  BY DEF NotifierEnvironment, CaptureSender, SendPreCancelled, SendCompletion, CloseSink,
         TakeNotifierHandle
<1>2. DeliveryInRange'
  BY <1>1 DEF DeliveryInRange
<1>3. ASSUME UNCHANGED sink PROVE HandlersRegistered'
  BY <1>1, <1>3 DEF HandlersRegistered
<1>4. ASSUME NEW t \in Tasks, CaptureSender(t) PROVE NotifierInv'
  <2>1. NotifierTypeOK'
    BY <1>4 DEF CaptureSender, NotifierTypeOK
  <2>2. StopsDrained' /\ SinkHasWorker'
    BY <1>4 DEF CaptureSender, StopsDrained, SinkHasWorker
  <2> QED
    BY <1>2, <1>3, <1>4, <2>1, <2>2 DEF CaptureSender
<1>5. ASSUME NEW t \in Tasks, SendPreCancelled(t) PROVE NotifierInv'
  <2>1. nqueue' \in Seq(Messages)
    <3>1. [task |-> t, status |-> "Cancelled"] \in Messages
      BY MessageLemma DEF Statuses
    <3> QED
      BY <1>5, <3>1 DEF SendPreCancelled, NotifierTypeOK
  <2>2. NotifierTypeOK'
    BY <1>5, <2>1 DEF SendPreCancelled, NotifierTypeOK
  <2>3. sink # "open" => UNCHANGED nqueue
    BY <1>5 DEF SendPreCancelled
  <2>4. StopsDrained' /\ SinkHasWorker'
    BY <1>1, <1>5, <2>3 DEF SendPreCancelled, StopsDrained, SinkHasWorker
  <2> QED
    BY <1>2, <1>3, <1>5, <2>2, <2>4 DEF SendPreCancelled
<1>6. ASSUME NEW t \in Tasks, NEW status \in Statuses, SendCompletion(t, status)
      PROVE  NotifierInv'
  <2>1. nqueue' \in Seq(Messages) /\ txs' \subseteq Tasks
    <3>1. [task |-> t, status |-> status] \in Messages
      BY MessageLemma
    <3> QED
      BY <1>6, <3>1 DEF SendCompletion, NotifierTypeOK
  <2>2. NotifierTypeOK'
    BY <1>6, <2>1 DEF SendCompletion, NotifierTypeOK
  <2>3. /\ t \notin txs => UNCHANGED nqueue
        /\ txs' = txs \ {t} /\ UNCHANGED sink
    BY <1>6 DEF SendCompletion
  <2>4. StopsDrained' /\ SinkHasWorker'
    BY <1>1, <2>3 DEF StopsDrained, SinkHasWorker
  <2> QED
    BY <1>2, <1>3, <2>2, <2>3, <2>4
<1>7. CASE CloseSink
  <2>1. NotifierTypeOK' /\ HandlersRegistered'
    BY <1>7 DEF CloseSink, NotifierTypeOK, HandlersRegistered
  <2>2. StopsDrained' /\ SinkHasWorker'
    BY <1>7 DEF CloseSink, StopsDrained, SinkHasWorker, NotifierTypeOK
  <2> QED
    BY <1>2, <2>1, <2>2
<1>8. CASE TakeNotifierHandle
  <2>1. NotifierTypeOK' /\ HandlersRegistered'
    BY <1>8 DEF TakeNotifierHandle, NotifierTypeOK, HandlersRegistered
  <2>2. StopsDrained' /\ SinkHasWorker'
    BY <1>8 DEF TakeNotifierHandle, StopsDrained, SinkHasWorker
  <2> QED
    BY <1>2, <2>1, <2>2
<1> QED
  BY <1>4, <1>5, <1>6, <1>7, <1>8 DEF NotifierEnvironment

-----------------------------------------------------------------------------
(***************************************************************************)
(* Every step of the notifier preserves the invariant.                     *)
(***************************************************************************)
LEMMA NotifierNextInv == NotifierInv /\ [NotifierNext]_notifierVars => NotifierInv'
<1>1. ASSUME NotifierInv, UNCHANGED notifierVars
      PROVE  NotifierInv'
  BY <1>1 DEF notifierVars, NotifierInv, NotifierTypeOK, StopsDrained, SinkHasWorker,
              DeliveryInRange, HandlersRegistered
<1> QED
  BY <1>1, NotifierStepInv, NotifierEnvironmentInv, AddHandlerInitInv, AddHandlerPushInv
     DEF NotifierNext

(***************************************************************************)
(* The notification worker stops only when no completion can arrive any    *)
(* more, whatever the order of registrations, sends and the close.         *)
(***************************************************************************)
THEOREM NotifierStopsDrained == NotifierSpec => []StopsDrained
<1>1. NotifierInv => StopsDrained
  BY DEF NotifierInv
<1> QED
  BY <1>1, NotifierInitInv, NotifierNextInv, PTL DEF NotifierSpec

(***************************************************************************)
(* A channel always has its consumer while anybody can send.               *)
(***************************************************************************)
THEOREM NotifierSinkHasWorker == NotifierSpec => []SinkHasWorker
<1>1. NotifierInv => SinkHasWorker
  BY DEF NotifierInv
<1> QED
  BY <1>1, NotifierInitInv, NotifierNextInv, PTL DEF NotifierSpec
=============================================================================
