----------------------------- MODULE CancelToken -----------------------------
(***************************************************************************)
(* CancelState, the flag and tokio Notify behind the pool-wide token and   *)
(* every TaskCore: cancel() stores the flag and then wakes the registered  *)
(* waiters; cancelled() checks, registers, checks again and sleeps.  The   *)
(* other modules use the token as a flag whose waiters are enabled; this   *)
(* one shows that the wait loop provides that.                             *)
(*                                                                         *)
(* Notify is external.  A waiter counts as registered from enable() on,    *)
(* the least that Notify guarantees.                                       *)
(***************************************************************************)
EXTENDS FiniteSets

CONSTANTS
  Waiters,    \* tasks that call cancelled()
  Cancellers  \* threads that call cancel()

VARIABLES
  flag,        \* the AtomicBool `cancelled`
  registered,  \* waiters in the Notify's list
  woken,       \* waiters that notify_waiters took out of the list
  wait,        \* where each call of cancelled() is
  cancel       \* where each call of cancel() is

tokenVars == <<flag, registered, woken, wait, cancel>>

InCall == {"check", "enable", "recheck", "asleep"}

TokenTypeOK ==
  /\ flag \in BOOLEAN
  /\ registered \subseteq Waiters
  /\ woken \subseteq Waiters
  /\ wait \in [Waiters -> {"idle", "returned"} \cup InCall]
  /\ cancel \in [Cancellers -> {"idle", "stored", "done"}]

TokenInit ==
  /\ flag = FALSE
  /\ registered = {}
  /\ woken = {}
  /\ wait = [w \in Waiters |-> "idle"]
  /\ cancel = [c \in Cancellers |-> "idle"]

-----------------------------------------------------------------------------
StoreFlag(c) ==
  /\ cancel[c] = "idle"
  /\ flag' = TRUE
  /\ cancel' = [cancel EXCEPT ![c] = "stored"]
  /\ UNCHANGED <<registered, woken, wait>>

\* Mutant: notify_one, which wakes a single waiter.
NotifyOne(c) ==
  /\ cancel[c] = "stored"
  /\ cancel' = [cancel EXCEPT ![c] = "done"]
  /\ IF registered = {} THEN UNCHANGED <<registered, woken>>
     ELSE \E w \in registered : registered' = registered \ {w} /\ woken' = woken \cup {w}
  /\ UNCHANGED <<flag, wait>>

NotifyWaiters(c) ==
  /\ cancel[c] = "stored"
  /\ cancel' = [cancel EXCEPT ![c] = "done"]
  /\ woken' = woken \cup registered
  /\ registered' = {}
  /\ UNCHANGED <<flag, wait>>

-----------------------------------------------------------------------------
CallCancelled(w) ==
  /\ wait[w] \notin InCall
  /\ wait' = [wait EXCEPT ![w] = "check"]
  /\ UNCHANGED <<flag, registered, woken, cancel>>

\* The check at the head of the loop.
CheckFlag(w) ==
  /\ wait[w] = "check"
  /\ wait' = [wait EXCEPT ![w] = IF flag THEN "returned" ELSE "enable"]
  /\ UNCHANGED <<flag, registered, woken, cancel>>

\* Mutant: the call sleeps as soon as it is registered.
EnableThenSleep(w) ==
  /\ wait[w] = "enable"
  /\ registered' = registered \cup {w}
  /\ wait' = [wait EXCEPT ![w] = "asleep"]
  /\ UNCHANGED <<flag, woken, cancel>>

Enable(w) ==
  /\ wait[w] = "enable"
  /\ registered' = registered \cup {w}
  /\ wait' = [wait EXCEPT ![w] = "recheck"]
  /\ UNCHANGED <<flag, woken, cancel>>

\* Mutant: the second check is inverted.
RecheckInverted(w) ==
  /\ wait[w] = "recheck"
  /\ wait' = [wait EXCEPT ![w] = IF flag THEN "asleep" ELSE "returned"]
  /\ registered' = IF flag THEN registered ELSE registered \ {w}
  /\ UNCHANGED <<flag, woken, cancel>>

\* Returning drops the Notified future.
Recheck(w) ==
  /\ wait[w] = "recheck"
  /\ IF flag
     THEN /\ wait' = [wait EXCEPT ![w] = "returned"]
          /\ registered' = registered \ {w}
          /\ woken' = woken \ {w}
     ELSE /\ wait' = [wait EXCEPT ![w] = "asleep"]
          /\ UNCHANGED <<registered, woken>>
  /\ UNCHANGED <<flag, cancel>>

Wake(w) ==
  /\ wait[w] = "asleep"
  /\ w \in woken
  /\ woken' = woken \ {w}
  /\ wait' = [wait EXCEPT ![w] = "check"]
  /\ UNCHANGED <<flag, registered, cancel>>

\* Mutant: the dropped call stays in the Notify's list.
DropCallStaysListed(w) ==
  /\ wait[w] = "asleep"
  /\ wait' = [wait EXCEPT ![w] = "idle"]
  /\ UNCHANGED <<flag, registered, woken, cancel>>

\* Another arm of the caller's select wins and the sleeping call is dropped.
DropCall(w) ==
  /\ wait[w] = "asleep"
  /\ wait' = [wait EXCEPT ![w] = "idle"]
  /\ registered' = registered \ {w}
  /\ woken' = woken \ {w}
  /\ UNCHANGED <<flag, cancel>>

WaitStep(w) == CheckFlag(w) \/ Enable(w) \/ Recheck(w) \/ Wake(w)

TokenNext ==
  \/ \E c \in Cancellers : StoreFlag(c) \/ NotifyWaiters(c)
  \/ \E w \in Waiters : CallCancelled(w) \/ WaitStep(w) \/ DropCall(w)

TokenSpec == TokenInit /\ [][TokenNext]_tokenVars

\* cancel() is a synchronous call that runs to its end, and tokio polls a woken
\* caller.  Nobody has to call either function.
TokenFairSpec ==
  /\ TokenSpec
  /\ \A c \in Cancellers : WF_tokenVars(NotifyWaiters(c))
  /\ \A w \in Waiters : WF_tokenVars(WaitStep(w))

-----------------------------------------------------------------------------
(***************************************************************************)
(* A caller is listed with Notify, or owed a wake-up by it, exactly while  *)
(* it is between enable() and its return or drop: no call leaves an entry  *)
(* behind that would consume or leak a later wake-up.                      *)
(***************************************************************************)
ListedWhileWaiting ==
  /\ registered \cap woken = {}
  /\ registered \cup woken = {w \in Waiters : wait[w] \in {"recheck", "asleep"}}

(***************************************************************************)
(* No cancel is missed: a caller that sleeps although the flag is set has  *)
(* been woken, or is registered with a cancel() still to notify.  This is  *)
(* what the second check after enable() is for.                            *)
(***************************************************************************)
NoMissedCancel ==
  \A w \in Waiters : flag /\ wait[w] = "asleep"
    => w \in woken \/ (w \in registered /\ \E c \in Cancellers : cancel[c] = "stored")

(***************************************************************************)
(* A call of cancelled() that is in progress when the token is cancelled,  *)
(* or begins later, comes to an end, however often calls are dropped and   *)
(* made again in a select.                                                 *)
(***************************************************************************)
CancelReachesWaiters ==
  \A w \in Waiters : (flag /\ wait[w] \in InCall) ~> wait[w] \notin InCall

(***************************************************************************)
(* The wait loop implements the latch: the flag never clears and a call    *)
(* returns, rather than being dropped, only after the flag was set.        *)
(***************************************************************************)
Latch == INSTANCE CancelLatch WITH
  raised <- flag,
  waiting <- {w \in Waiters : wait[w] \in InCall},
  told <- {w \in Waiters : wait[w] = "returned"}

ImplementsLatch == Latch!LatchSpec
=============================================================================
