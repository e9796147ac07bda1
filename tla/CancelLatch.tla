----------------------------- MODULE CancelLatch -----------------------------
(***************************************************************************)
(* What CancelState promises its users: a flag that is set once and for    *)
(* all, and calls of cancelled() that return only after it is set.  A call *)
(* may be given up and made again, as `select!` does with its losing arm.  *)
(***************************************************************************)
CONSTANT Waiters

VARIABLES
  raised,   \* the cancellation flag
  waiting,  \* callers with a call of cancelled() in progress
  told      \* callers whose last call returned

LatchInit == raised = FALSE /\ waiting = {} /\ told = {}

Raise == raised' = TRUE /\ UNCHANGED <<waiting, told>>

Begin(w) ==
  /\ w \notin waiting
  /\ waiting' = waiting \cup {w}
  /\ told' = told \ {w}
  /\ UNCHANGED raised

Resolve(w) ==
  /\ raised
  /\ w \in waiting
  /\ waiting' = waiting \ {w}
  /\ told' = told \cup {w}
  /\ UNCHANGED raised

GiveUp(w) ==
  /\ w \in waiting
  /\ waiting' = waiting \ {w}
  /\ UNCHANGED <<raised, told>>

LatchNext == Raise \/ \E w \in Waiters : Begin(w) \/ Resolve(w) \/ GiveUp(w)

LatchSpec == LatchInit /\ [][LatchNext]_<<raised, waiting, told>>
=============================================================================
