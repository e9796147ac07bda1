----------------------- MODULE MCFuturePoolManagerRlxd -----------------------
(***************************************************************************)
(* Instances of FuturePoolManagerRlxd for TLC.  All tasks are submitted    *)
(* through one clone and carry the same labels, so nothing tells them      *)
(* apart; the other clone shuts down, drops, cancels and clones.           *)
(***************************************************************************)
EXTENDS FuturePoolManagerRlxd, TLC

CONSTANTS t1, t2, t3, m1, m2, h1, red

MCSubmitter == [t \in Tasks |-> m1]
MCRegistrar == [h \in Handlers |-> m1]
MCTaskLabels == [t \in Tasks |-> Labels]

\* Sound for safety only.
TaskSymmetry == Permutations(Tasks)

-----------------------------------------------------------------------------
(***************************************************************************)
(* Bounds on what the application starts, as action constraints of the     *)
(* configurations.  A behaviour has either a third task, which finds the   *)
(* pool full, or cancellations (by handle, label or forceful shutdown);    *)
(* and a handler only with a single clone and two tasks.  No step of the   *)
(* pool itself is restrained.                                              *)
(***************************************************************************)
Submitted == {t \in Tasks : send[t] # "idle"}
FewTasks == Cardinality(Submitted) <= 2
NobodyCancels ==
  /\ \A t \in Tasks : ~cancelled[t]
  /\ \A m \in Managers : mgr[m] \notin {"shutdown_collect", "shutdown_cancelling"}
SingleClone == Cardinality({m \in Managers : mgr[m] # "absent"}) = 1
WithHandler == \E h \in Handlers : adding[h] # "no"

MCBound == (FewTasks \/ NobodyCancels)' /\ (WithHandler => SingleClone /\ FewTasks)'

\* For liveness, where symmetry is not sound, the tasks are submitted in turn.
TasksInTurn == Submitted' \in {{}, {t1}, {t1, t2}, {t1, t2, t3}}
=============================================================================
