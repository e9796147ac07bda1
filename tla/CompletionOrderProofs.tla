------------------------ MODULE CompletionOrderProofs ------------------------
(***************************************************************************)
(* Proof that every handler sees every message once and in sending order,  *)
(* for every number of tasks, handlers and messages.                       *)
(***************************************************************************)
EXTENDS CompletionHistory, CompletionNotifierProofs, SequenceTheorems

(***************************************************************************)
(* The inductive invariant, position by position.  The queue is the last   *)
(* part of what was sent, the message in delivery is the one before it,    *)
(* and a handler has seen everything from some position on to there,       *)
(* without the message in delivery if its call is still due; that position *)
(* is no later than its push.  A handler is in the list exactly from its   *)
(* push, and was not called before.                                        *)
(***************************************************************************)
Taken == Len(sent) - Len(nqueue)

Due(h) ==
  nworker = "calling" /\ \E k \in DOMAIN handlers : k >= ncalls /\ handlers[k] = h

QueueIsRest ==
  /\ Len(nqueue) <= Len(sent)
  /\ \A i \in 1..Len(nqueue) : nqueue[i] = sent[Taken + i]

InDelivery == nworker = "calling" => Taken >= 1 /\ ncur = sent[Taken]

SeenFrom(h, b) ==
  /\ b + Len(seen[h]) + (IF Due(h) THEN 1 ELSE 0) = Taken
  /\ \A i \in 1..Len(seen[h]) : seen[h][i] = sent[b + i]

SeenSoFar(h) == \E b \in 0..since[h] : SeenFrom(h, b)

PushedOnce(h) ==
  IF adding[h] = "yes" THEN \E k \in DOMAIN handlers : handlers[k] = h
                       ELSE seen[h] = <<>>

HistoryTypeOK == sent \in Seq(Messages) /\ since \in [Handlers -> Nat]

HistoryInv ==
  /\ HistoryTypeOK /\ QueueIsRest /\ InDelivery
  /\ \A h \in Handlers : PushedOnce(h) /\ (adding[h] = "yes" => SeenSoFar(h))

-----------------------------------------------------------------------------
(***************************************************************************)
(* The types of what the notifier moves and of the history.                *)
(***************************************************************************)
LEMMA HistoryTypes ==
  ASSUME NotifierInv, HistoryInv
  PROVE  /\ sent \in Seq(Messages) /\ Len(sent) \in Nat
         /\ nqueue \in Seq(Messages) /\ Len(nqueue) \in Nat
         /\ since \in [Handlers -> Nat]
         /\ seen \in [Handlers -> Seq(Messages)]
         /\ \A h \in Handlers : Len(seen[h]) \in Nat /\ since[h] \in Nat
         /\ handlers \in Seq(Handlers) /\ Len(handlers) \in Nat
         /\ DOMAIN handlers = 1..Len(handlers)
         /\ Taken \in Nat /\ Taken + Len(nqueue) = Len(sent)
         /\ nworker = "calling" => ncalls \in DOMAIN handlers /\ ncur \in Messages
         /\ \A i, j \in DOMAIN handlers : handlers[i] = handlers[j] => i = j
<1>1. /\ sent \in Seq(Messages) /\ since \in [Handlers -> Nat]
      /\ nqueue \in Seq(Messages) /\ seen \in [Handlers -> Seq(Messages)]
      /\ handlers \in Seq(Handlers) /\ Len(nqueue) <= Len(sent)
  BY DEF HistoryInv, HistoryTypeOK, QueueIsRest, NotifierInv, NotifierTypeOK
<1>2. /\ Len(sent) \in Nat /\ Len(nqueue) \in Nat /\ Len(handlers) \in Nat
      /\ DOMAIN handlers = 1..Len(handlers)
  BY <1>1
<1>3. \A h \in Handlers : Len(seen[h]) \in Nat /\ since[h] \in Nat
  BY <1>1
<1>4. Taken \in Nat /\ Taken + Len(nqueue) = Len(sent)
  BY <1>1, <1>2 DEF Taken
<1>5. /\ nworker = "calling" => ncalls \in DOMAIN handlers /\ ncur \in Messages
      /\ \A i, j \in DOMAIN handlers : handlers[i] = handlers[j] => i = j
  BY DEF NotifierInv, DeliveryInRange, NotifierTypeOK
<1> QED
  BY <1>1, <1>2, <1>3, <1>4, <1>5

(***************************************************************************)
(* A message sent comes last in the queue and in what was sent.            *)
(***************************************************************************)
LEMMA SendOrder ==
  ASSUME NotifierInv, HistoryInv, NEW x \in Messages,
         nqueue' = Append(nqueue, x), sent' = Append(sent, x),
         UNCHANGED <<nworker, ncur, ncalls, seen, handlers, adding, since>>
  PROVE  HistoryInv'
<1>1. /\ sent' \in Seq(Messages) /\ Len(sent') = Len(sent) + 1
      /\ \A i \in 1..Len(sent) : sent'[i] = sent[i]
      /\ sent'[Len(sent) + 1] = x
  BY HistoryTypes
<1>2. /\ Len(nqueue') = Len(nqueue) + 1
      /\ \A i \in 1..Len(nqueue) : nqueue'[i] = nqueue[i]
      /\ nqueue'[Len(nqueue) + 1] = x
  BY HistoryTypes
<1>3. Taken' = Taken
  BY <1>1, <1>2, HistoryTypes DEF Taken
<1>4. QueueIsRest'
  <2>1. \A i \in 1..Len(nqueue) : Taken + i \in 1..Len(sent)
    BY HistoryTypes
  <2>2. \A i \in 1..Len(nqueue) : nqueue'[i] = sent'[Taken + i]
    BY <1>1, <1>2, <2>1 DEF HistoryInv, QueueIsRest
  <2>3. Taken + (Len(nqueue) + 1) = Len(sent) + 1
    BY HistoryTypes
  <2>4. \A i \in 1..(Len(nqueue) + 1) : i \in 1..Len(nqueue) \/ i = Len(nqueue) + 1
    BY HistoryTypes
  <2>5. \A i \in 1..Len(nqueue') : nqueue'[i] = sent'[Taken + i]
    BY <1>1, <1>2, <2>2, <2>3, <2>4
  <2>6. Len(nqueue') <= Len(sent')
    BY <1>1, <1>2, HistoryTypes
  <2> QED
    BY <1>3, <2>5, <2>6 DEF QueueIsRest
<1>5. InDelivery'
  <2>1. Taken >= 1 => Taken \in 1..Len(sent)
    BY HistoryTypes
  <2> QED
    BY <1>1, <1>3, <2>1 DEF HistoryInv, InDelivery
<1>6. ASSUME NEW h \in Handlers, adding[h] = "yes" PROVE SeenSoFar(h)'
  <2>1. Due(h)' <=> Due(h)
    BY DEF Due
  <2>2. PICK b \in 0..since[h] : SeenFrom(h, b)
    BY <1>6 DEF HistoryInv, SeenSoFar
  <2>3. \A i \in 1..Len(seen[h]) : b + i \in 1..Len(sent)
    BY <2>2, HistoryTypes DEF SeenFrom
  <2>4. SeenFrom(h, b)'
    BY <1>1, <1>3, <2>1, <2>2, <2>3 DEF SeenFrom
  <2> QED
    BY <2>4 DEF SeenSoFar
<1>7. \A h \in Handlers : PushedOnce(h)'
  BY DEF HistoryInv, PushedOnce
<1> QED
  BY <1>1, <1>4, <1>5, <1>6, <1>7 DEF HistoryInv, HistoryTypeOK

(***************************************************************************)
(* A step that moves no message, calls no handler and pushes none.         *)
(***************************************************************************)
LEMMA QuietOrder ==
  ASSUME NotifierInv, HistoryInv,
         UNCHANGED <<nqueue, sent, since, ncur, ncalls, seen, handlers>>,
         nworker' = "calling" <=> nworker = "calling",
         \A h \in Handlers : adding'[h] = "yes" <=> adding[h] = "yes"
  PROVE  HistoryInv'
<1>1. Taken' = Taken
  BY DEF Taken
<1>2. \A h : Due(h)' <=> Due(h)
  BY DEF Due
<1>3. HistoryTypeOK' /\ QueueIsRest' /\ InDelivery'
  BY <1>1 DEF HistoryInv, HistoryTypeOK, QueueIsRest, InDelivery
<1>4. \A h \in Handlers : PushedOnce(h)' /\ (adding'[h] = "yes" => SeenSoFar(h)')
  BY <1>1, <1>2 DEF HistoryInv, PushedOnce, SeenSoFar, SeenFrom
<1> QED
  BY <1>3, <1>4 DEF HistoryInv

(***************************************************************************)
(* recv: every handler that was pushed is due for the message received.    *)
(***************************************************************************)
LEMMA RecvOrder ==
  ASSUME NotifierInv, HistoryInv, NotifierRecv, UNCHANGED <<sent, since>>
  PROVE  HistoryInv'
<1>0. /\ nworker = "waiting" /\ nqueue # <<>> /\ nqueue' = Tail(nqueue)
      /\ UNCHANGED <<seen, handlers, adding>>
      /\ IF handlers = <<>> THEN nworker' = "waiting"
                            ELSE nworker' = "calling" /\ ncur' = Head(nqueue) /\ ncalls' = 1
  BY DEF NotifierRecv
<1>1. /\ Len(nqueue) >= 1 /\ Head(nqueue) = nqueue[1] /\ Len(nqueue') + 1 = Len(nqueue)
      /\ Len(nqueue') \in Nat
      /\ \A i \in 1..Len(nqueue') : nqueue'[i] = nqueue[i + 1]
  BY <1>0, HistoryTypes
<1>2. Taken' = Taken + 1
  <2>1. PICK k \in Nat, n \in Nat, taken \in Nat :
             k = Len(nqueue') /\ n = Len(sent) /\ taken = Taken
    BY <1>1, HistoryTypes
  <2>2. taken + (k + 1) = n /\ Taken' = n - k
    BY <1>1, <2>1, HistoryTypes DEF Taken
  <2>3. n - k = taken + 1
    BY <2>2
  <2> QED
    BY <2>1, <2>2, <2>3
<1>3. QueueIsRest'
  <2>0. PICK k \in Nat, taken \in Nat : k = Len(nqueue') /\ taken = Taken
    BY <1>1, HistoryTypes
  <2>1. \A i \in 1..k : i + 1 \in 1..(k + 1) /\ taken + (i + 1) = (taken + 1) + i
    OBVIOUS
  <2>2. \A i \in 1..Len(nqueue') : nqueue'[i] = sent[(Taken + 1) + i]
    BY <1>1, <2>0, <2>1 DEF HistoryInv, QueueIsRest
  <2>3. Len(nqueue') <= Len(sent)
    BY <1>1, HistoryTypes
  <2> QED
    BY <1>2, <2>2, <2>3 DEF QueueIsRest
<1>4. InDelivery'
  <2>1. 1 \in 1..Len(nqueue)
    BY <1>1, HistoryTypes
  <2>2. Head(nqueue) = sent[Taken + 1]
    BY <1>1, <2>1 DEF HistoryInv, QueueIsRest
  <2>3. Taken + 1 >= 1
    BY HistoryTypes
  <2> QED
    BY <1>0, <1>2, <2>2, <2>3 DEF InDelivery
<1>5. ASSUME NEW h \in Handlers, adding[h] = "yes" PROVE SeenSoFar(h)'
  <2>0. PICK b \in 0..since[h] : SeenFrom(h, b)
    BY <1>5 DEF HistoryInv, SeenSoFar
  <2>1. ~Due(h)
    BY <1>0 DEF Due
  <2>2. PICK k \in DOMAIN handlers : handlers[k] = h
    BY <1>5 DEF HistoryInv, PushedOnce
  <2>3. k >= 1 /\ handlers # <<>>
    BY <2>2, HistoryTypes
  <2>4. Due(h)'
    BY <1>0, <2>2, <2>3 DEF Due
  <2>5. b + Len(seen[h]) + 1 = Taken + 1
    BY <2>0, <2>1, HistoryTypes DEF SeenFrom
  <2>6. SeenFrom(h, b)'
    BY <1>0, <1>2, <2>0, <2>4, <2>5 DEF SeenFrom
  <2> QED
    BY <2>6 DEF SeenSoFar
<1>6. \A h \in Handlers : PushedOnce(h)'
  BY <1>0 DEF HistoryInv, PushedOnce
<1> QED
  BY <1>0, <1>3, <1>4, <1>5, <1>6 DEF HistoryInv, HistoryTypeOK

(***************************************************************************)
(* A call: the handler whose turn it is has seen the message in delivery   *)
(* after everything before it, and is not due again; the others' turns are *)
(* as they were.                                                           *)
(***************************************************************************)
LEMMA CallOrder ==
  ASSUME NotifierInv, HistoryInv, NotifierCall, UNCHANGED <<sent, since>>
  PROVE  HistoryInv'
<1>h. PICK h : h = handlers[ncalls]
  OBVIOUS
<1>0. /\ nworker = "calling" /\ seen' = [seen EXCEPT ![h] = Append(@, ncur)]
      /\ UNCHANGED <<nqueue, handlers, adding>>
      /\ IF ncalls < Len(handlers)
         THEN ncalls' = ncalls + 1 /\ nworker' = nworker /\ ncur' = ncur
         ELSE nworker' = "waiting"
  BY <1>h DEF NotifierCall
<1>1. /\ h \in Handlers /\ ncalls \in DOMAIN handlers /\ ncur \in Messages
      /\ adding[h] = "yes"
  BY <1>0, <1>h, HistoryTypes DEF NotifierInv, HandlersRegistered
<1>2. /\ Len(seen'[h]) = Len(seen[h]) + 1 /\ seen'[h][Len(seen[h]) + 1] = ncur
      /\ \A i \in 1..Len(seen[h]) : seen'[h][i] = seen[h][i]
      /\ \A g \in Handlers \ {h} : seen'[g] = seen[g]
  <2>1. PICK s \in Seq(Messages) : s = seen[h]
    BY <1>1, HistoryTypes
  <2>2. /\ Len(Append(s, ncur)) = Len(s) + 1 /\ Append(s, ncur)[Len(s) + 1] = ncur
        /\ \A i \in 1..Len(s) : Append(s, ncur)[i] = s[i]
    BY <1>1, <2>1
  <2>3. seen'[h] = Append(s, ncur) /\ \A g \in Handlers \ {h} : seen'[g] = seen[g]
    BY <1>0, <1>1, <2>1, HistoryTypes
  <2> QED
    BY <2>1, <2>2, <2>3
<1>3. Taken' = Taken
  BY <1>0 DEF Taken
<1>4. Due(h) /\ ~Due(h)'
  <2>1. Due(h)
    BY <1>0, <1>1, <1>h, HistoryTypes DEF Due
  <2>2. ASSUME NEW k \in DOMAIN handlers, k >= ncalls + 1, handlers[k] = h PROVE FALSE
    <3>1. k = ncalls
      BY <1>1, <1>h, <2>2, HistoryTypes
    <3> QED
      BY <1>1, <2>2, <3>1, HistoryTypes
  <2> QED
    BY <1>0, <2>1, <2>2 DEF Due
<1>5. ASSUME NEW g \in Handlers, g # h PROVE Due(g)' <=> Due(g)
  <2>1. ASSUME NEW k \in DOMAIN handlers, k >= ncalls, handlers[k] = g
        PROVE  ncalls < Len(handlers) /\ k >= ncalls + 1
    <3>1. k # ncalls
      BY <1>5, <1>h, <2>1
    <3> QED
      BY <1>1, <2>1, <3>1, HistoryTypes
  <2>2. ASSUME NEW k \in DOMAIN handlers, k >= ncalls + 1 PROVE k >= ncalls
    BY <1>1, <2>2, HistoryTypes
  <2> QED
    BY <1>0, <2>1, <2>2 DEF Due
<1>6. SeenSoFar(h)'
  <2>0. PICK b \in 0..since[h] : SeenFrom(h, b)
    BY <1>1 DEF HistoryInv, SeenSoFar
  <2>1. /\ b + Len(seen[h]) + 1 = Taken
        /\ \A i \in 1..Len(seen[h]) : seen[h][i] = sent[b + i]
    BY <1>4, <2>0 DEF SeenFrom
  <2>2. PICK n \in Nat, taken \in Nat : n = Len(seen[h]) /\ taken = Taken
    BY <1>1, HistoryTypes
  <2>3. b + (n + 1) = taken /\ b + (n + 1) + 0 = taken
    BY <2>1, <2>2
  <2>4. ncur = sent[b + (n + 1)]
    BY <1>0, <2>2, <2>3 DEF HistoryInv, InDelivery
  <2>5. \A i \in 1..(n + 1) : i \in 1..n \/ i = n + 1
    OBVIOUS
  <2>6. \A i \in 1..Len(seen'[h]) : seen'[h][i] = sent[b + i]
    BY <1>2, <2>1, <2>2, <2>4, <2>5
  <2>7. b + Len(seen'[h]) + 0 = Taken
    BY <1>2, <2>2, <2>3
  <2>8. SeenFrom(h, b)'
    BY <1>3, <1>4, <2>6, <2>7 DEF SeenFrom
  <2> QED
    BY <2>8 DEF SeenSoFar
<1>7. ASSUME NEW g \in Handlers, g # h, adding[g] = "yes" PROVE SeenSoFar(g)'
  <2>1. PICK b \in 0..since[g] : SeenFrom(g, b)
    BY <1>7 DEF HistoryInv, SeenSoFar
  <2>2. SeenFrom(g, b)'
    BY <1>2, <1>3, <1>5, <1>7, <2>1 DEF SeenFrom
  <2> QED
    BY <2>2 DEF SeenSoFar
<1>8. \A g \in Handlers : PushedOnce(g)'
  BY <1>0, <1>1, <1>2 DEF HistoryInv, PushedOnce
<1>9. QueueIsRest' /\ InDelivery'
  BY <1>0, <1>3 DEF HistoryInv, QueueIsRest, InDelivery
<1> QED
  BY <1>0, <1>6, <1>7, <1>8, <1>9 DEF HistoryInv, HistoryTypeOK

(***************************************************************************)
(* A push: the handler's first is the head of the queue.  The write lock   *)
(* keeps it out of a delivery, so it is not due for a message before that. *)
(***************************************************************************)
LEMMA PushOrder ==
  ASSUME NotifierInv, HistoryInv, NEW h \in Handlers, AddHandlerPush(h), Record
  PROVE  HistoryInv'
<1>0. /\ adding[h] # "yes" /\ nworker # "calling" /\ nworker' = nworker
      /\ adding' = [adding EXCEPT ![h] = "yes"] /\ handlers' = Append(handlers, h)
      /\ UNCHANGED <<nqueue, ncur, ncalls, seen>>
  BY DEF AddHandlerPush
<1>1. adding \in [Handlers -> {"no", "initialized", "yes"}]
  BY DEF NotifierInv, NotifierTypeOK
<1>2. sent' = sent
  BY <1>0, HistoryTypes DEF Record
<1>3. since' = [since EXCEPT ![h] = Len(sent)]
  BY <1>0, <1>1, HistoryTypes DEF Record
<1>4. Taken' = Taken
  BY <1>0, <1>2 DEF Taken
<1>5. HistoryTypeOK' /\ QueueIsRest' /\ InDelivery'
  BY <1>0, <1>2, <1>3, <1>4, HistoryTypes
     DEF HistoryInv, HistoryTypeOK, QueueIsRest, InDelivery
<1>6. \A g : ~Due(g) /\ ~Due(g)'
  BY <1>0 DEF Due
<1>7. \A g \in Handlers : PushedOnce(g)'
  <2>1. /\ DOMAIN handlers' = 1..(Len(handlers) + 1) /\ handlers'[Len(handlers) + 1] = h
        /\ Len(handlers) + 1 \in 1..(Len(handlers) + 1)
        /\ \A k \in DOMAIN handlers : k \in DOMAIN handlers' /\ handlers'[k] = handlers[k]
    BY <1>0, HistoryTypes
  <2>2. \E k \in DOMAIN handlers' : handlers'[k] = h
    BY <2>1
  <2>3. ASSUME NEW g \in Handlers, g # h PROVE PushedOnce(g)'
    <3>1. adding'[g] = adding[g] /\ seen' = seen
      BY <1>0, <1>1, <2>3
    <3>2. PushedOnce(g)
      BY DEF HistoryInv
    <3> QED
      BY <2>1, <3>1, <3>2 DEF PushedOnce
  <2> QED
    BY <1>0, <1>1, <2>2, <2>3 DEF PushedOnce
<1>8. SeenSoFar(h)'
  <2>1. seen[h] = <<>>
    BY <1>0 DEF HistoryInv, PushedOnce
  <2>2. Len(seen'[h]) = 0 /\ 1..Len(seen'[h]) = {}
    BY <1>0, <2>1
  <2>3. PICK b \in Nat : b = Taken
    BY HistoryTypes
  <2>4. b + Len(seen'[h]) + 0 = Taken
    BY <2>2, <2>3
  <2>5. SeenFrom(h, b)'
    BY <1>4, <1>6, <2>2, <2>4 DEF SeenFrom
  <2>6. since'[h] = Len(sent) /\ b \in 0..Len(sent)
    BY <1>3, <2>3, HistoryTypes
  <2> QED
    BY <2>5, <2>6 DEF SeenSoFar
<1>9. ASSUME NEW g \in Handlers, g # h, adding[g] = "yes" PROVE SeenSoFar(g)'
  <2>1. since'[g] = since[g]
    BY <1>3, <1>9, HistoryTypes
  <2> QED
    BY <1>0, <1>2, <1>4, <1>6, <1>9, <2>1 DEF HistoryInv, SeenSoFar, SeenFrom
<1>10. ASSUME NEW g \in Handlers, g # h PROVE adding'[g] = adding[g]
  BY <1>0, <1>1, <1>10
<1> QED
  BY <1>5, <1>7, <1>8, <1>9, <1>10 DEF HistoryInv

(***************************************************************************)
(* The invariant holds of a new notifier and every step keeps it.          *)
(***************************************************************************)
LEMMA HistoryInvHolds ==
  /\ HistoryInit => NotifierInv /\ HistoryInv
  /\ NotifierInv /\ HistoryInv /\ [HistoryNext]_historyVars => NotifierInv' /\ HistoryInv'
<1>1. HistoryInit => NotifierInv /\ HistoryInv
  <2> SUFFICES ASSUME HistoryInit PROVE NotifierInv /\ HistoryInv
    OBVIOUS
  <2>1. NotifierInv
    BY NotifierInitInv DEF HistoryInit
  <2>2. sent = <<>> /\ nqueue = <<>> /\ nworker = "none" /\ Len(sent) = 0 /\ Len(nqueue) = 0
    BY DEF HistoryInit, NotifierInit
  <2>3. HistoryTypeOK /\ QueueIsRest /\ InDelivery
    BY <2>2 DEF HistoryInit, HistoryTypeOK, QueueIsRest, InDelivery
  <2>4. \A h \in Handlers : PushedOnce(h) /\ adding[h] # "yes"
    BY DEF HistoryInit, NotifierInit, PushedOnce
  <2> QED
    BY <2>1, <2>3, <2>4 DEF HistoryInv
<1>2. ASSUME NotifierInv, HistoryInv, HistoryNext PROVE HistoryInv'
  <2>1. ASSUME UNCHANGED nqueue PROVE sent' = sent
    BY <1>2, <2>1, HistoryTypes DEF HistoryNext, Record
  <2>2. ASSUME \A h \in Handlers : adding'[h] = "yes" <=> adding[h] = "yes"
        PROVE  since' = since
    BY <1>2, <2>2, HistoryTypes DEF HistoryNext, Record
  <2>3. CASE NotifierRecv
    <3>1. sent' = sent
      <4>1. Len(nqueue') <= Len(nqueue) /\ Len(nqueue') \in Nat
        BY <1>2, <2>3, HistoryTypes DEF NotifierRecv
      <4> QED
        BY <1>2, <4>1, HistoryTypes DEF HistoryNext, Record
    <3>2. since' = since
      BY <2>2, <2>3 DEF NotifierRecv
    <3> QED
      BY <1>2, <2>3, <3>1, <3>2, RecvOrder
  <2>4. CASE NotifierCall
    <3>1. sent' = sent /\ since' = since
      BY <2>1, <2>2, <2>4 DEF NotifierCall
    <3> QED
      BY <1>2, <2>4, <3>1, CallOrder
  <2>5. CASE \E h \in Handlers : AddHandlerPush(h)
    BY <1>2, <2>5, PushOrder DEF HistoryNext
  <2>6. ASSUME NEW x \in Messages, nqueue' = Append(nqueue, x),
               UNCHANGED <<nworker, ncur, ncalls, seen, handlers, adding>>
        PROVE  HistoryInv'
    <3>1. Len(nqueue') > Len(nqueue) /\ nqueue'[Len(nqueue')] = x
      BY <1>2, <2>6, HistoryTypes
    <3>2. sent' = Append(sent, x) /\ since' = since
      BY <1>2, <2>2, <2>6, <3>1 DEF HistoryNext, Record
    <3> QED
      BY <1>2, <2>6, <3>2, SendOrder
  <2>7. ASSUME UNCHANGED <<nqueue, ncur, ncalls, seen, handlers>>,
               nworker' = "calling" <=> nworker = "calling",
               \A h \in Handlers : adding'[h] = "yes" <=> adding[h] = "yes"
        PROVE  HistoryInv'
    BY <1>2, <2>1, <2>2, <2>7, QuietOrder
  <2>8. ASSUME NEW t \in Tasks, NEW status \in Statuses,
               SendCompletion(t, status) \/ SendPreCancelled(t)
        PROVE  HistoryInv'
    <3>1. PICK x \in Messages :
               nqueue' = Append(nqueue, x) \/ nqueue' = nqueue
      BY <2>8, MessageLemma DEF SendCompletion, SendPreCancelled, Statuses
    <3>2. UNCHANGED <<nworker, ncur, ncalls, seen, handlers, adding>>
      BY <2>8 DEF SendCompletion, SendPreCancelled
    <3> QED
      BY <2>6, <2>7, <3>1, <3>2
  <2>9. ASSUME NEW h \in Handlers, AddHandlerInit(h) PROVE HistoryInv'
    <3>1. adding \in [Handlers -> {"no", "initialized", "yes"}]
      BY <1>2 DEF NotifierInv, NotifierTypeOK
    <3>2. nworker = "calling" => sink # "unset"
      BY <1>2 DEF NotifierInv, SinkHasWorker
    <3> QED
      BY <2>7, <2>9, <3>1, <3>2 DEF AddHandlerInit
  <2>10. CASE NotifierStop \/ CloseSink \/ TakeNotifierHandle \/ \E t \in Tasks : CaptureSender(t)
    BY <2>7, <2>10 DEF NotifierStop, CloseSink, TakeNotifierHandle, CaptureSender
  <2> QED
    BY <1>2, <2>3, <2>4, <2>5, <2>8, <2>9, <2>10
       DEF HistoryNext, NotifierNext, NotifierStep, NotifierEnvironment, Statuses
<1>3. ASSUME HistoryInv, UNCHANGED historyVars PROVE HistoryInv'
  <2>1. UNCHANGED <<nqueue, sent, since, ncur, ncalls, seen, handlers, nworker, adding>>
    BY <1>3 DEF historyVars, notifierVars
  <2>2. Taken' = Taken /\ \A h : Due(h)' <=> Due(h)
    BY <2>1 DEF Taken, Due
  <2>3. HistoryTypeOK' /\ QueueIsRest' /\ InDelivery'
    BY <1>3, <2>1, <2>2 DEF HistoryInv, HistoryTypeOK, QueueIsRest, InDelivery
  <2>4. \A h \in Handlers : PushedOnce(h)' /\ (adding'[h] = "yes" => SeenSoFar(h)')
    BY <1>3, <2>1, <2>2 DEF HistoryInv, PushedOnce, SeenSoFar, SeenFrom
  <2> QED
    BY <2>3, <2>4 DEF HistoryInv
<1>4. NotifierInv /\ [HistoryNext]_historyVars => NotifierInv'
  BY NotifierNextInv DEF HistoryNext, historyVars
<1> QED
  BY <1>1, <1>2, <1>3, <1>4

-----------------------------------------------------------------------------
(***************************************************************************)
(* A handler in the list is due for the message in delivery exactly if the *)
(* worker has not come past its position.                                  *)
(***************************************************************************)
LEMMA DueIsPending ==
  ASSUME NotifierInv, HistoryInv, NEW h \in Handlers, adding[h] = "yes"
  PROVE  Pending(h) = IF Due(h) THEN <<ncur>> ELSE <<>>
<1>1. PICK k \in DOMAIN handlers : handlers[k] = h
  BY DEF HistoryInv, PushedOnce
<1>2. Position(h) = k
  BY <1>1, HistoryTypes DEF Position
<1>3. Due(h) <=> nworker = "calling" /\ k >= ncalls
  BY <1>1, HistoryTypes DEF Due
<1>4. nworker = "calling" => (k >= ncalls <=> ncalls <= k)
  BY HistoryTypes
<1> QED
  BY <1>2, <1>3, <1>4 DEF Pending

(***************************************************************************)
(* Put together, the positions make up the sequence.                       *)
(***************************************************************************)
LEMMA OrderFromPositions ==
  ASSUME NotifierInv, HistoryInv, NEW h \in Handlers, adding[h] = "yes"
  PROVE  \E k \in 0..since[h] :
           seen[h] \o Pending(h) \o nqueue = SubSeq(sent, k + 1, Len(sent))
<1>0. PICK b \in Nat : b \in 0..since[h] /\ SeenFrom(h, b)
  <2>1. PICK k \in 0..since[h] : SeenFrom(h, k)
    BY DEF HistoryInv, SeenSoFar
  <2>2. k \in Nat
    BY HistoryTypes
  <2> QED
    BY <2>1, <2>2
<1>1. PICK s \in Seq(Messages), q \in Seq(Messages), all \in Seq(Messages),
           p \in Seq(Messages) :
             /\ s = seen[h] /\ q = nqueue /\ all = sent /\ p = Pending(h)
             /\ Len(p) = IF Due(h) THEN 1 ELSE 0
             /\ Due(h) => p[1] = ncur
  <2>1. Due(h) => ncur \in Messages
    BY HistoryTypes DEF Due
  <2>2. Pending(h) \in Seq(Messages)
    <3>1. CASE Due(h)
      <4>1. <<ncur>> \in Seq(Messages)
        BY <2>1, <3>1
      <4> QED
        BY <3>1, <4>1, DueIsPending
    <3>2. CASE ~Due(h)
      <4>1. Pending(h) = <<>>
        BY <3>2, DueIsPending
      <4>2. <<>> \in Seq(Messages)
        OBVIOUS
      <4> QED
        BY <4>1, <4>2
    <3> QED
      BY <3>1, <3>2
  <2>3. /\ Len(Pending(h)) = IF Due(h) THEN 1 ELSE 0
        /\ Due(h) => Pending(h)[1] = ncur
    BY DueIsPending
  <2> QED
    BY <2>2, <2>3, HistoryTypes
<1>2. PICK n \in Nat, c \in Nat, r \in Nat, total \in Nat :
             n = Len(s) /\ c = Len(p) /\ r = Len(q) /\ total = Len(all)
  OBVIOUS
<1>3. b + n + c = Taken /\ Taken + r = total /\ (c = 0 \/ c = 1)
  BY <1>0, <1>1, <1>2, HistoryTypes DEF SeenFrom
<1>4. /\ \A i \in 1..n : s[i] = all[b + i]
      /\ \A i \in 1..c : p[i] = all[b + n + i]
      /\ \A i \in 1..r : q[i] = all[b + n + c + i]
  <2>1. \A i \in 1..n : s[i] = all[b + i]
    BY <1>0, <1>1, <1>2 DEF SeenFrom
  <2>2. \A i \in 1..r : q[i] = all[b + n + c + i]
    BY <1>1, <1>2, <1>3 DEF HistoryInv, QueueIsRest
  <2>3. c = 1 => p[1] = all[b + n + 1]
    <3>1. SUFFICES ASSUME c = 1 PROVE p[1] = all[b + n + 1]
      OBVIOUS
    <3>2. Due(h)
      BY <1>1, <1>2, <3>1
    <3>3. ncur = sent[Taken]
      BY <3>2 DEF HistoryInv, InDelivery, Due
    <3>4. Taken = b + n + 1
      BY <1>3, <3>1
    <3> QED
      BY <1>1, <3>2, <3>3, <3>4
  <2>4. \A i \in 1..c : c = 1 /\ i = 1
    BY <1>3
  <2> QED
    BY <2>1, <2>2, <2>3, <2>4
<1>5. /\ s \o p \in Seq(Messages) /\ Len(s \o p) = n + c
      /\ \A i \in 1..(n + c) : (s \o p)[i] = IF i <= n THEN s[i] ELSE p[i - n]
  BY <1>2, ConcatProperties
<1>6. PICK u, w, z : /\ u \in Seq(Messages) /\ u = s \o p
                     /\ w = u \o q /\ z = SubSeq(all, b + 1, total)
  BY <1>5
<1>7. /\ w \in Seq(Messages) /\ Len(w) = n + c + r
      /\ \A i \in 1..(n + c) : w[i] = IF i <= n THEN s[i] ELSE p[i - n]
      /\ \A i \in 1..(n + c + r) : i > n + c => w[i] = q[i - (n + c)]
  <2>1. Len(u) = n + c /\ \A i \in 1..(n + c) : u[i] = IF i <= n THEN s[i] ELSE p[i - n]
    BY <1>5, <1>6
  <2>2. /\ u \o q \in Seq(Messages) /\ Len(u \o q) = Len(u) + Len(q)
        /\ \A i \in 1..(Len(u) + Len(q)) : (u \o q)[i] =
              IF i <= Len(u) THEN u[i] ELSE q[i - Len(u)]
    BY <1>6, ConcatProperties
  <2>3. /\ w \in Seq(Messages) /\ Len(w) = n + c + r
        /\ \A i \in 1..(n + c + r) : w[i] = IF i <= n + c THEN u[i] ELSE q[i - (n + c)]
    BY <1>2, <1>6, <2>1, <2>2
  <2>4. \A i \in 1..(n + c) : i \in 1..(n + c + r) /\ i <= n + c
    OBVIOUS
  <2>5. \A i \in 1..(n + c + r) : i > n + c => ~(i <= n + c)
    OBVIOUS
  <2> QED
    BY <2>1, <2>3, <2>4, <2>5
<1>8. /\ z \in Seq(Messages) /\ Len(z) = n + c + r
      /\ \A i \in 1..(n + c + r) : z[i] = all[b + i]
  <2>0. total = b + n + c + r
    BY <1>3
  <2>1. \A i \in (b + 1)..total : all[i] \in Messages
    BY <1>2
  <2>2. /\ z \in Seq(Messages)
        /\ Len(z) = IF b + 1 <= total THEN total - (b + 1) + 1 ELSE 0
        /\ \A i \in 1..(total - (b + 1) + 1) : z[i] = all[(b + 1) + i - 1]
    <3>1. b + 1 \in Int /\ total \in Int
      OBVIOUS
    <3>2. /\ SubSeq(all, b + 1, total) \in Seq(Messages)
          /\ Len(SubSeq(all, b + 1, total)) = IF b + 1 <= total THEN total - (b + 1) + 1 ELSE 0
          /\ \A i \in 1..(total - (b + 1) + 1) :
               SubSeq(all, b + 1, total)[i] = all[(b + 1) + i - 1]
      BY <2>1, <3>1, SubSeqProperties, SMTT(30)
    <3>3. z = SubSeq(all, b + 1, total)
      BY <1>6
    <3> QED
      BY <3>2, <3>3, Zenon
  <2>3. total - (b + 1) + 1 = n + c + r /\ (~(b + 1 <= total) => n + c + r = 0)
    BY <2>0
  <2>4. \A i \in 1..(n + c + r) : (b + 1) + i - 1 = b + i
    OBVIOUS
  <2>5. Len(z) = n + c + r
    BY <2>2, <2>3
  <2> QED
    BY <2>2, <2>3, <2>4, <2>5
<1>9. \A i \in 1..(n + c + r) : w[i] = all[b + i]
  <2> SUFFICES ASSUME NEW i \in 1..(n + c + r) PROVE w[i] = all[b + i]
    OBVIOUS
  <2>1. CASE i <= n
    <3>1. i \in 1..n /\ i \in 1..(n + c)
      BY <2>1
    <3> QED
      BY <1>4, <1>7, <2>1, <3>1
  <2>2. CASE i > n /\ i <= n + c
    <3>1. i \in 1..(n + c) /\ i - n \in 1..c /\ b + n + (i - n) = b + i /\ ~(i <= n)
      BY <2>2
    <3>2. p[i - n] = all[b + i]
      BY <1>4, <3>1
    <3> QED
      BY <1>7, <3>1, <3>2
  <2>3. CASE i > n + c
    <3>1. i - (n + c) \in 1..r /\ b + n + c + (i - (n + c)) = b + i
      BY <2>3
    <3>2. q[i - (n + c)] = all[b + i]
      BY <1>4, <3>1
    <3> QED
      BY <1>7, <2>3, <3>1, <3>2
  <2>4. i <= n \/ (i > n /\ i <= n + c) \/ i > n + c
    OBVIOUS
  <2> QED
    BY <2>1, <2>2, <2>3, <2>4
<1>10. w = z
  BY <1>7, <1>8, <1>9, SeqEqual
<1> QED
  BY <1>0, <1>1, <1>2, <1>6, <1>10

(***************************************************************************)
(* Every handler sees every message sent after its registration, once and  *)
(* in sending order (notifier.rs:200-265), whenever it is registered and   *)
(* whatever is queued or in delivery then.                                 *)
(***************************************************************************)
THEOREM HandlersSeeEveryMessage == HistorySpec => []EveryMessageOnceInOrder
<1>1. NotifierInv /\ HistoryInv => EveryMessageOnceInOrder
  BY OrderFromPositions DEF EveryMessageOnceInOrder
<1> QED
  BY <1>1, HistoryInvHolds, PTL DEF HistorySpec
=============================================================================
