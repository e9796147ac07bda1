-------------------------- MODULE CancelTokenProofs --------------------------
(***************************************************************************)
(* CancelToken: no cancel is missed, for any number of waiters and         *)
(* cancellers, and the wait loop implements the latch.                     *)
(***************************************************************************)
EXTENDS CancelToken, TLAPS

TokenInv == TokenTypeOK /\ ListedWhileWaiting /\ NoMissedCancel

\* The initial state satisfies the invariant: nobody waits.
LEMMA TokenInvInit == TokenInit => TokenInv
  BY DEF TokenInit, TokenInv, TokenTypeOK, ListedWhileWaiting, NoMissedCancel, InCall

\* Every step of a caller of cancelled() keeps the invariant: the list changes
\* with the caller's own position, and it falls asleep only with the flag clear.
LEMMA WaitKeepsInv ==
  ASSUME TokenInv, NEW w \in Waiters, CallCancelled(w) \/ WaitStep(w) \/ DropCall(w)
  PROVE  TokenInv'
<1> USE DEF TokenInv, TokenTypeOK, ListedWhileWaiting, NoMissedCancel, InCall
<1>1. CASE CallCancelled(w)
  BY <1>1 DEF CallCancelled
<1>2. CASE CheckFlag(w)
  BY <1>2 DEF CheckFlag
<1>3. CASE Enable(w)
  BY <1>3 DEF Enable
<1>4. CASE Recheck(w)
  BY <1>4 DEF Recheck
<1>5. CASE Wake(w)
  BY <1>5 DEF Wake
<1>6. CASE DropCall(w)
  BY <1>6 DEF DropCall
<1>7. QED
  BY <1>1, <1>2, <1>3, <1>4, <1>5, <1>6 DEF WaitStep

\* Both halves of cancel() keep the invariant: after the store this canceller
\* still has to notify, and the notification empties the list.
LEMMA CancelKeepsInv ==
  ASSUME TokenInv, NEW c \in Cancellers, StoreFlag(c) \/ NotifyWaiters(c)
  PROVE  TokenInv'
<1> USE DEF TokenInv, TokenTypeOK, ListedWhileWaiting, NoMissedCancel, InCall
<1>1. CASE StoreFlag(c)
  BY <1>1 DEF StoreFlag
<1>2. CASE NotifyWaiters(c)
  BY <1>2 DEF NotifyWaiters
<1>3. QED
  BY <1>1, <1>2

\* Every step keeps the invariant.
LEMMA TokenInvStep == TokenInv /\ [TokenNext]_tokenVars => TokenInv'
<1> SUFFICES ASSUME TokenInv, [TokenNext]_tokenVars PROVE TokenInv'
  OBVIOUS
<1>1. CASE UNCHANGED tokenVars
  BY <1>1 DEF TokenInv, TokenTypeOK, ListedWhileWaiting, NoMissedCancel, InCall, tokenVars
<1>2. CASE TokenNext
  BY <1>2, WaitKeepsInv, CancelKeepsInv DEF TokenNext
<1>3. QED
  BY <1>1, <1>2

\* The inductive invariant holds in every reachable state.
THEOREM TokenSafe == TokenSpec => []TokenInv
  BY TokenInvInit, TokenInvStep, PTL DEF TokenSpec

\* No caller sleeps through a cancel (token.rs:54-61).
THEOREM NeverMissesCancel == TokenSpec => []NoMissedCancel
<1>1. TokenInv => NoMissedCancel
  BY DEF TokenInv
<1>2. QED
  BY <1>1, TokenSafe, PTL

\* The Notify list holds exactly the callers between enable() and their return.
THEOREM ListIsExact == TokenSpec => []ListedWhileWaiting
<1>1. TokenInv => ListedWhileWaiting
  BY DEF TokenInv
<1>2. QED
  BY <1>1, TokenSafe, PTL

-----------------------------------------------------------------------------
CallsInProgress == {w \in Waiters : wait[w] \in InCall}
CallsReturned == {w \in Waiters : wait[w] = "returned"}
latchVars == <<flag, CallsInProgress, CallsReturned>>

\* A caller's step begins, resolves or gives up a call of the latch, or moves
\* inside the loop, which the latch does not see.
LEMMA WaitRefines ==
  ASSUME TokenInv, NEW w \in Waiters, CallCancelled(w) \/ WaitStep(w) \/ DropCall(w)
  PROVE  Latch!LatchNext \/ UNCHANGED latchVars
<1> USE DEF TokenInv, TokenTypeOK, InCall, CallsInProgress, CallsReturned, latchVars
<1>1. CASE CallCancelled(w)
  <2>1. Latch!Begin(w)
    BY <1>1 DEF CallCancelled, Latch!Begin
  <2>2. QED
    BY <2>1 DEF Latch!LatchNext
<1>2. CASE CheckFlag(w)
  <2>1. CASE flag
    <3>1. Latch!Resolve(w)
      BY <1>2, <2>1 DEF CheckFlag, Latch!Resolve
    <3>2. QED
      BY <3>1 DEF Latch!LatchNext
  <2>2. CASE ~flag
    BY <1>2, <2>2 DEF CheckFlag
  <2>3. QED
    BY <2>1, <2>2
<1>3. CASE Enable(w)
  BY <1>3 DEF Enable
<1>4. CASE Recheck(w)
  <2>1. CASE flag
    <3>1. Latch!Resolve(w)
      BY <1>4, <2>1 DEF Recheck, Latch!Resolve
    <3>2. QED
      BY <3>1 DEF Latch!LatchNext
  <2>2. CASE ~flag
    BY <1>4, <2>2 DEF Recheck
  <2>3. QED
    BY <2>1, <2>2
<1>5. CASE Wake(w)
  BY <1>5 DEF Wake
<1>6. CASE DropCall(w)
  <2>1. Latch!GiveUp(w)
    BY <1>6 DEF DropCall, Latch!GiveUp
  <2>2. QED
    BY <2>1 DEF Latch!LatchNext
<1>7. QED
  BY <1>1, <1>2, <1>3, <1>4, <1>5, <1>6 DEF WaitStep

\* The wait loop and cancel() implement the latch.
THEOREM TokenImplementsLatch == TokenSpec => ImplementsLatch
<1>1. TokenInit => Latch!LatchInit
  BY DEF TokenInit, Latch!LatchInit, InCall
<1>2. TokenInv /\ [TokenNext]_tokenVars => [Latch!LatchNext]_latchVars
  <2> SUFFICES ASSUME TokenInv, [TokenNext]_tokenVars
               PROVE  Latch!LatchNext \/ UNCHANGED latchVars
    OBVIOUS
  <2>1. ASSUME NEW c \in Cancellers, StoreFlag(c)
        PROVE  Latch!LatchNext
    BY <2>1 DEF StoreFlag, Latch!LatchNext, Latch!Raise
  <2>2. ASSUME NEW c \in Cancellers, NotifyWaiters(c)
        PROVE  UNCHANGED latchVars
    BY <2>2 DEF NotifyWaiters, latchVars, CallsInProgress, CallsReturned
  <2>3. CASE UNCHANGED tokenVars
    BY <2>3 DEF tokenVars, latchVars, CallsInProgress, CallsReturned
  <2>4. QED
    BY <2>1, <2>2, <2>3, WaitRefines DEF TokenNext
<1>3. QED
  BY <1>1, <1>2, TokenSafe, PTL
  DEF TokenSpec, ImplementsLatch, Latch!LatchSpec, latchVars, CallsInProgress, CallsReturned
=============================================================================
