---------------------------- MODULE TaskLifecycle ----------------------------
(***************************************************************************)
(* What either pool promises about the life of a submitted task.  A submit *)
(* is refused, or the task is accepted and then started while fewer than   *)
(* Limit tasks run (or started at once).  A cancellation asked for before  *)
(* the outcome of a running task is decided decides it; asked for later it *)
(* changes nothing.  What was decided is delivered.  An accepted task that *)
(* is never started is skipped if its cancellation was asked for, or       *)
(* discarded, but only once the pool is closing.                           *)
(***************************************************************************)
EXTENDS Naturals, FiniteSets

CONSTANTS Tasks, Limit

VARIABLES
  stage,    \* where each task is in its life
  asked,    \* its cancellation was requested
  outcome,  \* what was decided for it, and what its handle yields once it ended
  closing   \* the pool's shutdown was signalled

lifeVars == <<stage, asked, outcome, closing>>

LifeInit ==
  /\ stage = [t \in Tasks |-> "new"]
  /\ asked = [t \in Tasks |-> FALSE]
  /\ outcome = [t \in Tasks |-> "pending"]
  /\ closing = FALSE

Move(t, from, to) == stage[t] \in from /\ stage' = [stage EXCEPT ![t] = to]

Refuse(t) == Move(t, {"new"}, "refused") /\ UNCHANGED <<asked, outcome, closing>>

Accept(t) == Move(t, {"new"}, "accepted") /\ UNCHANGED <<asked, outcome, closing>>

Start(t) ==
  /\ Cardinality({u \in Tasks : stage[u] = "running"}) < Limit
  /\ Move(t, {"new", "accepted"}, "running")
  /\ UNCHANGED <<asked, outcome, closing>>

Ask(t) ==
  /\ ~asked[t]
  /\ asked' = [asked EXCEPT ![t] = TRUE]
  /\ UNCHANGED <<stage, outcome, closing>>

Decide(t) ==
  /\ Move(t, {"running"}, "decided")
  /\ \E o \in IF asked[t] THEN {"Cancelled"} ELSE {"Success", "Panicked"} :
       outcome' = [outcome EXCEPT ![t] = o]
  /\ UNCHANGED <<asked, closing>>

Deliver(t) == Move(t, {"decided"}, "ended") /\ UNCHANGED <<asked, outcome, closing>>

Skip(t) ==
  /\ asked[t]
  /\ Move(t, {"accepted"}, "ended")
  /\ outcome' = [outcome EXCEPT ![t] = "Cancelled"]
  /\ UNCHANGED <<asked, closing>>

Close == closing' = TRUE /\ UNCHANGED <<stage, asked, outcome>>

Discard(S) ==
  /\ closing
  /\ \A t \in S : stage[t] = "accepted"
  /\ stage' = [t \in Tasks |-> IF t \in S THEN "ended" ELSE stage[t]]
  /\ outcome' = [t \in Tasks |-> IF t \in S THEN "Closed" ELSE outcome[t]]
  /\ UNCHANGED <<asked, closing>>

LifeNext ==
  \/ Close
  \/ \E S \in SUBSET Tasks : Discard(S)
  \/ \E t \in Tasks : \/ Refuse(t) \/ Accept(t) \/ Start(t) \/ Ask(t)
                      \/ Decide(t) \/ Deliver(t) \/ Skip(t)

LifeSpec == LifeInit /\ [][LifeNext]_lifeVars
=============================================================================
