--------------------------- MODULE TaskQueueProofs ---------------------------
(***************************************************************************)
(* Proofs about the task queue, for every number of tasks, clones and      *)
(* every capacity.                                                         *)
(***************************************************************************)
EXTENDS TaskQueue, FiniteSetTheorems, TLAPS

(***************************************************************************)
(* The inductive invariant.  Two facts join the properties: a call in      *)
(* progress keeps its clone's producer open, and the consumer leaves only  *)
(* after the token is set or when no producer is left.  Together they say  *)
(* why a call that finds the consumer gone is failing on a shutdown.       *)
(***************************************************************************)
CallsHoldProducers == \A t \in Tasks : InFlight(t) => Submitter[t] \in producers
ConsumerLeavesLast == ~rxAlive => shutdownToken \/ producers = {}

QueueInv ==
  /\ QueueTypeOK
  /\ PermitAccounting
  /\ WaitListExact
  /\ FailsOnlyOnShutdown
  /\ CallsHoldProducers
  /\ ConsumerLeavesLast

-----------------------------------------------------------------------------
(***************************************************************************)
(* Dropping an acquire future takes exactly that call out of the wait list *)
(* and keeps the list free of repetitions (the semaphore's wait list).     *)
(***************************************************************************)
LEMMA WithoutLemma ==
  ASSUME NEW t \in Tasks, waiters \in Seq(Tasks),
         \A i, j \in DOMAIN waiters : waiters[i] = waiters[j] => i = j
  PROVE  /\ Without(t) \in Seq(Tasks)
         /\ \A i, j \in DOMAIN Without(t) : Without(t)[i] = Without(t)[j] => i = j
         /\ \A u \in Tasks : (\E i \in DOMAIN Without(t) : Without(t)[i] = u)
                               <=> (u # t /\ Registered(u))
<1>1. CASE ~Registered(t)
  BY <1>1 DEF Without, Registered
<1>2. CASE Registered(t)
  <2> DEFINE k == CHOOSE j \in DOMAIN waiters : waiters[j] = t
             n == Len(waiters) - 1
             w == [i \in 1..n |-> waiters[IF i < k THEN i ELSE i + 1]]
  <2>1. k \in DOMAIN waiters /\ waiters[k] = t
    BY <1>2 DEF Registered
  <2>2. Without(t) = w
    BY <1>2 DEF Without
  <2>3. DOMAIN waiters = 1..Len(waiters) /\ Len(waiters) \in Nat
    OBVIOUS
  <2>4. n \in Nat /\ k \in 1..Len(waiters)
    BY <2>1, <2>3
  <2> HIDE DEF k, n
  <2>5. \A i \in 1..n : (IF i < k THEN i ELSE i + 1) \in 1..Len(waiters)
    BY <2>3, <2>4 DEF n
  <2>6. w \in Seq(Tasks)
    <3>1. \A i \in 1..n : w[i] \in Tasks
      BY <2>5, <2>3
    <3> QED
      BY <3>1, <2>4
  <2>7. DOMAIN w = 1..n
    OBVIOUS
  <2>8. ASSUME NEW i \in 1..n, NEW j \in 1..n, w[i] = w[j]
        PROVE  i = j
    BY <2>8, <2>5, <2>3, <2>4
  <2>9. ASSUME NEW u \in Tasks
        PROVE  (\E i \in DOMAIN w : w[i] = u) <=> (u # t /\ Registered(u))
    <3>1. ASSUME NEW i \in DOMAIN w, w[i] = u
          PROVE  u # t /\ Registered(u)
      <4>1. (IF i < k THEN i ELSE i + 1) \in DOMAIN waiters
        BY <2>5, <2>7, <2>3
      <4>2. (IF i < k THEN i ELSE i + 1) # k
        BY <2>7, <2>4
      <4> QED
        BY <4>1, <4>2, <3>1, <2>1, <2>7 DEF Registered
    <3>2. ASSUME u # t, Registered(u)
          PROVE  \E i \in DOMAIN w : w[i] = u
      <4>1. PICK j \in DOMAIN waiters : waiters[j] = u
        BY <3>2 DEF Registered
      <4>2. j # k
        BY <4>1, <3>2, <2>1
      <4>3. CASE j < k
        <5>1. j \in 1..n
          BY <4>3, <2>3, <2>4 DEF n
        <5> QED
          BY <5>1, <4>3, <4>1, <2>7
      <4>4. CASE j > k
        <5>1. j - 1 \in 1..n
          BY <4>4, <2>3, <2>4 DEF n
        <5>2. ~(j - 1 < k) /\ (j - 1) + 1 = j
          BY <4>4, <2>3, <2>4
        <5>3. w[j - 1] = u
          BY <5>1, <5>2, <4>1
        <5> QED
          BY <5>1, <5>3, <2>7
      <4> QED
        BY <4>2, <4>3, <4>4, <2>3, <2>4
    <3> QED
      BY <3>1, <3>2
  <2> HIDE DEF w
  <2>10. \A i, j \in DOMAIN w : w[i] = w[j] => i = j
    BY <2>7, <2>8
  <2>11. \A u \in Tasks : (\E i \in DOMAIN w : w[i] = u) <=> (u # t /\ Registered(u))
    BY <2>9
  <2> QED
    BY <2>2, <2>6, <2>10, <2>11
<1> QED
  BY <1>1, <1>2

-----------------------------------------------------------------------------
(***************************************************************************)
(* How the sets that the accounting counts change when one call moves.     *)
(***************************************************************************)
LEMMA FiniteCalls ==
  /\ IsFiniteSet(Holding) /\ Cardinality(Holding) \in Nat
  /\ IsFiniteSet(Failed) /\ Cardinality(Failed) \in Nat
<1>1. Holding \in SUBSET Tasks /\ Failed \in SUBSET Tasks
  BY DEF Holding, Failed
<1> QED
  BY <1>1, TasksAssumption, FS_Subset, FS_CardinalityType

(***************************************************************************)
(* The queue starts in the invariant (TaskQueue::new).                     *)
(***************************************************************************)
LEMMA QueueInitInv == QueueInit => QueueInv
<1> SUFFICES ASSUME QueueInit PROVE QueueInv
  OBVIOUS
<1>1. Holding = {} /\ Failed = {}
  BY DEF QueueInit, Holding, Failed
<1>2. Cardinality({}) = 0
  BY FS_EmptySet
<1>3. PermitAccounting
  BY <1>1, <1>2, SizesAssumption DEF QueueInit, PermitAccounting
<1>4. QueueTypeOK
  <2>1. waiters \in Seq(Tasks) /\ queue \in Seq(Tasks)
    BY DEF QueueInit
  <2>2. permits \in Nat /\ producers \subseteq Managers
    BY SizesAssumption DEF QueueInit
  <2>3. send \in [Tasks -> {"idle"} \cup InFlightPoints \cup ReturnedPoints]
    BY DEF QueueInit
  <2>4. shutdownToken \in BOOLEAN /\ rxAlive \in BOOLEAN
    BY DEF QueueInit
  <2> QED
    BY <2>1, <2>2, <2>3, <2>4 DEF QueueTypeOK
<1>5. WaitListExact
  BY DEF QueueInit, WaitListExact, Registered
<1> QED
  BY <1>3, <1>4, <1>5
     DEF QueueInv, QueueInit, FailsOnlyOnShutdown, CallsHoldProducers, ConsumerLeavesLast,
         InFlight, InFlightPoints

-----------------------------------------------------------------------------
(***************************************************************************)
(* One lemma per operation of `send` and of the consumer: each keeps the   *)
(* invariant.                                                              *)
(***************************************************************************)
LEMMA SubmitCheckInv ==
  ASSUME QueueInv, NEW t \in Tasks, SubmitCheck(t)
  PROVE  QueueInv'
<1> USE DEF QueueInv
<1>1. Holding' = Holding /\ Failed' = Failed
  BY DEF SubmitCheck, Holding, Failed, QueueTypeOK
<1>2. PermitAccounting'
  BY <1>1 DEF PermitAccounting, SubmitCheck
<1>3. QueueTypeOK'
  <2>1. send' \in [Tasks -> {"idle"} \cup InFlightPoints \cup ReturnedPoints]
    BY DEF SubmitCheck, QueueTypeOK, InFlightPoints, ReturnedPoints
  <2> QED
    BY <2>1 DEF SubmitCheck, QueueTypeOK
<1>4. WaitListExact'
  BY DEF SubmitCheck, WaitListExact, Registered, QueueTypeOK
<1>5. FailsOnlyOnShutdown'
  BY DEF SubmitCheck, FailsOnlyOnShutdown, ConsumerLeavesLast, QueueTypeOK
<1>6. CallsHoldProducers'
  BY DEF SubmitCheck, CallsHoldProducers, InFlight, InFlightPoints, QueueTypeOK
<1>7. ConsumerLeavesLast'
  BY DEF SubmitCheck, ConsumerLeavesLast
<1> QED
  BY <1>2, <1>3, <1>4, <1>5, <1>6, <1>7

(***************************************************************************)
(* The token arm of the select.  A rejected call leaves the wait list.     *)
(***************************************************************************)
LEMMA PollShutdownInv ==
  ASSUME QueueInv, NEW t \in Tasks, PollShutdown(t)
  PROVE  QueueInv'
<1> USE DEF QueueInv
<1>1. Holding' = Holding /\ Failed' = Failed
  BY DEF PollShutdown, Holding, Failed, QueueTypeOK
<1>2. PermitAccounting'
  BY <1>1 DEF PermitAccounting, PollShutdown
<1>a. /\ Without(t) \in Seq(Tasks)
      /\ \A i, j \in DOMAIN Without(t) : Without(t)[i] = Without(t)[j] => i = j
      /\ \A u \in Tasks : (\E i \in DOMAIN Without(t) : Without(t)[i] = u)
                            <=> (u # t /\ Registered(u))
  BY WithoutLemma DEF QueueTypeOK, WaitListExact
<1>3. QueueTypeOK'
  <2>1. send' \in [Tasks -> {"idle"} \cup InFlightPoints \cup ReturnedPoints]
    BY DEF PollShutdown, QueueTypeOK, InFlightPoints, ReturnedPoints
  <2> QED
    BY <2>1, <1>a DEF PollShutdown, QueueTypeOK
<1>4. WaitListExact'
  <2>1. CASE shutdownToken
    BY <2>1, <1>a DEF PollShutdown, WaitListExact, Registered, QueueTypeOK
  <2>2. CASE ~shutdownToken
    BY <2>2 DEF PollShutdown, WaitListExact, Registered, QueueTypeOK
  <2> QED
    BY <2>1, <2>2
<1>5. FailsOnlyOnShutdown'
  BY DEF PollShutdown, FailsOnlyOnShutdown, QueueTypeOK
<1>6. CallsHoldProducers'
  BY DEF PollShutdown, CallsHoldProducers, InFlight, InFlightPoints, QueueTypeOK
<1>7. ConsumerLeavesLast'
  BY DEF PollShutdown, ConsumerLeavesLast
<1> QED
  BY <1>2, <1>3, <1>4, <1>5, <1>6, <1>7

(***************************************************************************)
(* The gate's arm.  A call takes a permit or registers, never both.        *)
(***************************************************************************)
LEMMA PollGateInv ==
  ASSUME QueueInv, NEW t \in Tasks, PollGate(t)
  PROVE  QueueInv'
<1> USE DEF QueueInv
<1>a. /\ Without(t) \in Seq(Tasks)
      /\ \A i, j \in DOMAIN Without(t) : Without(t)[i] = Without(t)[j] => i = j
      /\ \A u \in Tasks : (\E i \in DOMAIN Without(t) : Without(t)[i] = u)
                            <=> (u # t /\ Registered(u))
  BY WithoutLemma DEF QueueTypeOK, WaitListExact
<1>5. FailsOnlyOnShutdown' /\ ConsumerLeavesLast'
  BY DEF PollGate, FailsOnlyOnShutdown, ConsumerLeavesLast, QueueTypeOK
<1>6. CallsHoldProducers'
  BY DEF PollGate, CallsHoldProducers, InFlight, InFlightPoints, QueueTypeOK
<1>7. send' \in [Tasks -> {"idle"} \cup InFlightPoints \cup ReturnedPoints]
  BY DEF PollGate, QueueTypeOK, InFlightPoints, ReturnedPoints
<1>b. CASE MayAcquire(t)
  <2>1. Holding' = Holding \cup {t} /\ t \notin Holding /\ Failed' = Failed
    BY <1>b DEF PollGate, Holding, Failed, QueueTypeOK
  <2>2. Cardinality(Holding') = Cardinality(Holding) + 1
    BY <2>1, FiniteCalls, FS_AddElement
  <2>3. permits' = permits - 1 /\ permits' \in Nat /\ UNCHANGED <<queue, rxAlive>>
    BY <1>b DEF PollGate, MayAcquire, QueueTypeOK
  <2>4. PermitAccounting'
    BY <2>1, <2>2, <2>3, FiniteCalls DEF PermitAccounting, QueueTypeOK
  <2>5. QueueTypeOK'
    BY <1>a, <1>b, <1>7, <2>3 DEF PollGate, QueueTypeOK
  <2>6. WaitListExact'
    <3>1. \A u \in Tasks : Registered(u)' <=> (u # t /\ Registered(u))
      BY <1>a, <1>b DEF PollGate, Registered
    <3>2. \A u \in Tasks : send'[u] = IF u = t THEN "holding" ELSE send[u]
      BY <1>b DEF PollGate, QueueTypeOK
    <3>3. \A i, j \in DOMAIN waiters' : waiters'[i] = waiters'[j] => i = j
      BY <1>a, <1>b DEF PollGate
    <3> QED
      BY <3>1, <3>2, <3>3 DEF WaitListExact
  <2> QED
    BY <1>5, <1>6, <2>4, <2>5, <2>6
<1>c. CASE ~MayAcquire(t)
  <2>1. Holding' = Holding /\ Failed' = Failed
    BY <1>c DEF PollGate, Holding, Failed, QueueTypeOK
  <2>2. PermitAccounting'
    BY <1>c, <2>1 DEF PollGate, PermitAccounting
  <2>3. QueueTypeOK'
    BY <1>c, <1>7 DEF PollGate, QueueTypeOK
  <2>4. WaitListExact'
    <3>1. CASE Registered(t)
      BY <3>1, <1>c DEF PollGate, WaitListExact, Registered, QueueTypeOK
    <3>2. CASE ~Registered(t)
      <4>1. waiters' = Append(waiters, t) /\ waiters \in Seq(Tasks)
        BY <3>2, <1>c DEF PollGate, QueueTypeOK
      <4>2. /\ DOMAIN waiters' = 1..(Len(waiters) + 1) /\ Len(waiters) \in Nat
            /\ DOMAIN waiters = 1..Len(waiters)
            /\ \A i \in 1..Len(waiters) : waiters'[i] = waiters[i]
            /\ waiters'[Len(waiters) + 1] = t
        BY <4>1
      <4>3. \A i, j \in DOMAIN waiters' : waiters'[i] = waiters'[j] => i = j
        BY <4>2, <3>2 DEF WaitListExact, Registered
      <4>4. \A u \in Tasks : Registered(u)' <=> (u = t \/ Registered(u))
        BY <4>2 DEF Registered
      <4>5. \A u \in Tasks : send'[u] = IF u = t THEN "parked" ELSE send[u]
        BY <1>c DEF PollGate, QueueTypeOK
      <4> QED
        BY <4>3, <4>4, <4>5 DEF WaitListExact
    <3> QED
      BY <3>1, <3>2
  <2> QED
    BY <1>5, <1>6, <2>2, <2>3, <2>4
<1> QED
  BY <1>b, <1>c

(***************************************************************************)
(* A caller drops a parked submit.  It leaves the wait list.               *)
(***************************************************************************)
LEMMA AbandonSubmitInv ==
  ASSUME QueueInv, NEW t \in Tasks, AbandonSubmit(t)
  PROVE  QueueInv'
<1> USE DEF QueueInv
<1>1. Holding' = Holding /\ Failed' = Failed
  BY DEF AbandonSubmit, Holding, Failed, QueueTypeOK
<1>2. PermitAccounting'
  BY <1>1 DEF PermitAccounting, AbandonSubmit
<1>3. /\ Without(t) \in Seq(Tasks)
      /\ \A i, j \in DOMAIN Without(t) : Without(t)[i] = Without(t)[j] => i = j
      /\ \A u \in Tasks : (\E i \in DOMAIN Without(t) : Without(t)[i] = u)
                            <=> (u # t /\ Registered(u))
  BY WithoutLemma DEF QueueTypeOK, WaitListExact
<1>4. QueueTypeOK'
  <2>1. send' \in [Tasks -> {"idle"} \cup InFlightPoints \cup ReturnedPoints]
    BY DEF AbandonSubmit, QueueTypeOK, InFlightPoints, ReturnedPoints
  <2> QED
    BY <2>1, <1>3 DEF AbandonSubmit, QueueTypeOK
<1>5. WaitListExact'
  <2>1. \A u \in Tasks : Registered(u)' <=> (u # t /\ Registered(u))
    BY <1>3 DEF AbandonSubmit, Registered
  <2>2. \A u \in Tasks : send'[u] = IF u = t THEN "abandoned" ELSE send[u]
    BY DEF AbandonSubmit, QueueTypeOK
  <2>3. \A i, j \in DOMAIN waiters' : waiters'[i] = waiters'[j] => i = j
    BY <1>3 DEF AbandonSubmit
  <2> QED
    BY <2>1, <2>2, <2>3 DEF WaitListExact
<1>6. FailsOnlyOnShutdown' /\ ConsumerLeavesLast'
  BY DEF AbandonSubmit, FailsOnlyOnShutdown, ConsumerLeavesLast, QueueTypeOK
<1>7. CallsHoldProducers'
  BY DEF AbandonSubmit, CallsHoldProducers, InFlight, InFlightPoints, QueueTypeOK
<1> QED
  BY <1>2, <1>4, <1>5, <1>6, <1>7

(***************************************************************************)
(* The send.  A failed one adds a permit, but then the consumer is gone.   *)
(***************************************************************************)
LEMMA EnqueueInv ==
  ASSUME QueueInv, NEW t \in Tasks, Enqueue(t)
  PROVE  QueueInv'
<1> USE DEF QueueInv
<1>1. Holding' = Holding \ {t} /\ t \in Holding
  BY DEF Enqueue, Holding, QueueTypeOK
<1>2. Cardinality(Holding') = Cardinality(Holding) - 1
  BY <1>1, FiniteCalls, FS_RemoveElement
<1>3. send' \in [Tasks -> {"idle"} \cup InFlightPoints \cup ReturnedPoints]
  BY DEF Enqueue, QueueTypeOK, InFlightPoints, ReturnedPoints
<1>4. WaitListExact'
  BY DEF Enqueue, WaitListExact, Registered, QueueTypeOK
<1>5. ConsumerLeavesLast'
  BY DEF Enqueue, ConsumerLeavesLast
<1>6. CallsHoldProducers'
  BY DEF Enqueue, CallsHoldProducers, InFlight, InFlightPoints, QueueTypeOK
<1>7. CASE rxAlive
  <2>1. Failed' = Failed
    BY <1>7 DEF Enqueue, Failed, QueueTypeOK
  <2>2. queue' \in Seq(Tasks) /\ Len(queue') = Len(queue) + 1 /\ UNCHANGED <<permits, rxAlive>>
    BY <1>7 DEF Enqueue, QueueTypeOK
  <2>3. PermitAccounting'
    <3>1. Len(queue) \in Nat /\ permits \in Nat
      BY DEF QueueTypeOK
    <3>2. permits + Cardinality(Holding) + Len(queue) = QueueCapacity + Cardinality(Failed)
      BY DEF PermitAccounting
    <3>3. permits' + Cardinality(Holding') + Len(queue') = QueueCapacity + Cardinality(Failed')
      BY <1>2, <2>1, <2>2, <3>1, <3>2, FiniteCalls, SizesAssumption
    <3>4. rxAlive' /\ Failed' = {}
      BY <1>7, <2>1, <2>2 DEF PermitAccounting
    <3> QED
      BY <3>3, <3>4 DEF PermitAccounting
  <2>4. QueueTypeOK'
    BY <1>3, <1>7, <2>2 DEF Enqueue, QueueTypeOK
  <2>5. FailsOnlyOnShutdown'
    BY <1>7 DEF Enqueue, FailsOnlyOnShutdown, QueueTypeOK
  <2> QED
    BY <1>4, <1>5, <1>6, <2>3, <2>4, <2>5
<1>8. CASE ~rxAlive
  <2>1. Failed' = Failed \cup {t} /\ t \notin Failed
    BY <1>8 DEF Enqueue, Failed, QueueTypeOK
  <2>2. Cardinality(Failed') = Cardinality(Failed) + 1
    BY <2>1, FiniteCalls, FS_AddElement
  <2>3. permits' = permits + 2 /\ permits' \in Nat /\ UNCHANGED <<queue, rxAlive>>
    BY <1>8 DEF Enqueue, QueueTypeOK
  <2>4. PermitAccounting'
    <3>1. Len(queue) \in Nat /\ permits \in Nat
      BY DEF QueueTypeOK
    <3>2. permits + Cardinality(Holding) + Len(queue) = QueueCapacity + Cardinality(Failed)
      BY DEF PermitAccounting
    <3>3. permits' + Cardinality(Holding') + Len(queue') = QueueCapacity + Cardinality(Failed')
      BY <1>2, <2>2, <2>3, <3>1, <3>2, FiniteCalls, SizesAssumption
    <3>4. ~rxAlive' /\ queue' = <<>>
      BY <1>8, <2>3 DEF PermitAccounting
    <3> QED
      BY <3>3, <3>4 DEF PermitAccounting
  <2>5. QueueTypeOK'
    BY <1>3, <1>8, <2>3 DEF Enqueue, QueueTypeOK
  <2>6. FailsOnlyOnShutdown'
    \* The call holds its producer, so the consumer left on the token.
    <3>1. Submitter[t] \in producers
      BY DEF Enqueue, CallsHoldProducers, InFlight, InFlightPoints
    <3>2. shutdownToken
      BY <3>1, <1>8 DEF ConsumerLeavesLast
    <3> QED
      BY <3>2 DEF Enqueue, FailsOnlyOnShutdown
  <2> QED
    BY <1>4, <1>5, <1>6, <2>4, <2>5, <2>6
<1> QED
  BY <1>7, <1>8

-----------------------------------------------------------------------------
(***************************************************************************)
(* The steps of the consumer and of the owners of the producers keep the   *)
(* invariant.                                                              *)
(***************************************************************************)
LEMMA QueueEnvironmentInv == QueueInv /\ QueueEnvironment => QueueInv'
<1> SUFFICES ASSUME QueueInv, QueueEnvironment PROVE QueueInv'
  OBVIOUS
<1> USE DEF QueueInv
<1>1. UNCHANGED <<waiters, send>>
  BY DEF QueueEnvironment, Dequeue, DropReceiver, CancelShutdownToken, CloseProducer,
         CloneProducer
<1>2. Holding' = Holding /\ Failed' = Failed
  BY <1>1 DEF Holding, Failed
<1>3. WaitListExact'
  BY <1>1 DEF WaitListExact, Registered
<1>4. CASE Dequeue
  <2>1. /\ queue' \in Seq(Tasks) /\ Len(queue') = Len(queue) - 1 /\ Len(queue) \in Nat
        /\ permits' = permits + 1 /\ permits' \in Nat
        /\ UNCHANGED <<shutdownToken, producers, rxAlive>> /\ rxAlive
    BY <1>4 DEF Dequeue, QueueTypeOK
  <2>2. PermitAccounting'
    BY <1>2, <2>1, FiniteCalls DEF PermitAccounting, QueueTypeOK
  <2> QED
    BY <1>1, <1>3, <2>1, <2>2
       DEF QueueTypeOK, FailsOnlyOnShutdown, CallsHoldProducers, ConsumerLeavesLast, InFlight
<1>5. CASE DropReceiver /\ (shutdownToken \/ Disconnected)
  <2>1. /\ queue' = <<>> /\ queue' \in Seq(Tasks) /\ Len(queue') = 0 /\ Len(queue) \in Nat
        /\ permits' = permits + Len(queue) /\ permits' \in Nat
        /\ UNCHANGED <<shutdownToken, producers>> /\ rxAlive' = FALSE
    BY <1>5 DEF DropReceiver, QueueTypeOK
  <2>2. PermitAccounting'
    BY <1>2, <2>1, FiniteCalls DEF PermitAccounting, QueueTypeOK
  <2>3. ConsumerLeavesLast'
    BY <1>5, <2>1 DEF ConsumerLeavesLast, Disconnected
  <2> QED
    BY <1>1, <1>3, <2>1, <2>2, <2>3
       DEF QueueTypeOK, FailsOnlyOnShutdown, CallsHoldProducers, InFlight
<1>6. CASE CancelShutdownToken
  <2>1. PermitAccounting'
    BY <1>2, <1>6 DEF PermitAccounting, CancelShutdownToken
  <2> QED
    BY <1>1, <1>3, <1>6, <2>1
       DEF CancelShutdownToken, QueueTypeOK, FailsOnlyOnShutdown, CallsHoldProducers,
           ConsumerLeavesLast, InFlight
<1>7. ASSUME NEW m \in Managers, CloseProducer(m)
      PROVE  QueueInv'
  <2>1. PermitAccounting'
    BY <1>2, <1>7 DEF PermitAccounting, CloseProducer
  <2>2. CallsHoldProducers'
    BY <1>1, <1>7 DEF CloseProducer, NoCallThrough, CallsHoldProducers, InFlight
  <2> QED
    BY <1>1, <1>3, <1>7, <2>1, <2>2
       DEF CloseProducer, QueueTypeOK, FailsOnlyOnShutdown, ConsumerLeavesLast
<1>8. ASSUME NEW m \in Managers, NEW n \in Managers, CloneProducer(m, n)
      PROVE  QueueInv'
  <2>1. PermitAccounting'
    BY <1>2, <1>8 DEF PermitAccounting, CloneProducer
  <2> QED
    BY <1>1, <1>3, <1>8, <2>1
       DEF CloneProducer, QueueTypeOK, FailsOnlyOnShutdown, CallsHoldProducers,
           ConsumerLeavesLast, InFlight
<1> QED
  BY <1>4, <1>5, <1>6, <1>7, <1>8 DEF QueueEnvironment

(***************************************************************************)
(* Every step of the queue, and every step that leaves it alone, keeps the *)
(* invariant.                                                              *)
(***************************************************************************)
LEMMA QueueNextInv == QueueInv /\ [QueueNext]_queueVars => QueueInv'
<1>1. ASSUME QueueInv, UNCHANGED queueVars
      PROVE  QueueInv'
  BY <1>1 DEF queueVars, QueueInv, QueueTypeOK, PermitAccounting, WaitListExact,
              FailsOnlyOnShutdown, CallsHoldProducers, ConsumerLeavesLast,
              Holding, Failed, InFlight, Registered
<1>2. ASSUME QueueInv, NEW t \in Tasks, SubmitCheck(t) \/ SubmitStep(t) \/ AbandonSubmit(t)
      PROVE  QueueInv'
  BY <1>2, SubmitCheckInv, PollShutdownInv, PollGateInv, EnqueueInv, AbandonSubmitInv
     DEF SubmitStep
<1> QED
  BY <1>1, <1>2, QueueEnvironmentInv DEF QueueNext

-----------------------------------------------------------------------------
(***************************************************************************)
(* The invariant holds throughout, for every capacity and set of calls.    *)
(***************************************************************************)
THEOREM QueueInvariant == QueueSpec => []QueueInv
  BY QueueInitInv, QueueNextInv, PTL DEF QueueSpec

(***************************************************************************)
(* Backpressure (send, task_queue.rs:111-160): the queue never holds more  *)
(* than queue_capacity tasks, counting those about to be sent.             *)
(***************************************************************************)
THEOREM QueueBackpressure == QueueSpec => []Backpressure
<1>1. QueueInv => Backpressure
  <2> SUFFICES ASSUME QueueInv, rxAlive
               PROVE  Len(queue) + Cardinality(Holding) <= QueueCapacity
    BY DEF Backpressure
  <2>1. Failed = {}
    BY DEF QueueInv, PermitAccounting
  <2>2. Cardinality(Failed) = 0
    BY <2>1, FS_EmptySet
  <2> QED
    BY <2>2, FiniteCalls, SizesAssumption DEF QueueInv, PermitAccounting, QueueTypeOK
<1> QED
  BY <1>1, QueueInvariant, PTL

(***************************************************************************)
(* A submit that fails does so because the pool is shutting down.          *)
(***************************************************************************)
THEOREM QueueFailsOnlyOnShutdown == QueueSpec => []FailsOnlyOnShutdown
<1>1. QueueInv => FailsOnlyOnShutdown
  BY DEF QueueInv
<1> QED
  BY <1>1, QueueInvariant, PTL

(***************************************************************************)
(* No parked call is missing from the gate's wait list and no other call   *)
(* is in it, so no released permit is wasted.                              *)
(***************************************************************************)
THEOREM QueueWaitListExact == QueueSpec => []WaitListExact
<1>1. QueueInv => WaitListExact
  BY DEF QueueInv
<1> QED
  BY <1>1, QueueInvariant, PTL
=============================================================================
