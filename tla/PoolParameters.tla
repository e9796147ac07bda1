--------------------------- MODULE PoolParameters ---------------------------
(***************************************************************************)
(* The parameters shared by every component of the futures_orchestra pool. *)
(* A task stands for one call of `submit` together with the TaskCore,      *)
(* future and result channel that call creates; a manager stands for one   *)
(* clone of FuturePoolManager; a handler for one registered completion     *)
(* handler.                                                                *)
(***************************************************************************)
EXTENDS Naturals, FiniteSets

CONSTANTS
  Tasks,             \* submissions, each with its own TaskCore
  NoTask,            \* the None of Option<Arc<TaskCore>>
  Managers,          \* the clones of the manager that may come to exist
  Handlers,          \* completion handlers the application may register
  Labels,            \* TaskLabel values
  TaskLabels,        \* the labels each task is submitted with
  Submitter,         \* the manager clone each task is submitted through
  Registrar,         \* the manager clone each handler is registered through
  QueueCapacity,     \* queue_capacity argument of FuturePoolManager::new
  ConcurrencyLimit   \* concurrency_limit argument of FuturePoolManager::new

ASSUME TasksAssumption ==
  /\ IsFiniteSet(Tasks)
  /\ NoTask \notin Tasks

ASSUME CallersAssumption ==
  /\ Submitter \in [Tasks -> Managers]
  /\ Registrar \in [Handlers -> Managers]
  /\ TaskLabels \in [Tasks -> SUBSET Labels]

ASSUME SizesAssumption ==
  /\ QueueCapacity \in Nat
  /\ ConcurrencyLimit \in Nat

(***************************************************************************)
(* `new` clamps the concurrency limit to at least one permit; the queue's  *)
(* capacity is used as it is given.                                        *)
(***************************************************************************)
ConcurrencyPermits == IF ConcurrencyLimit = 0 THEN 1 ELSE ConcurrencyLimit
=============================================================================
