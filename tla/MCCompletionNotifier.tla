------------------------ MODULE MCCompletionNotifier ------------------------
(***************************************************************************)
(* Instance of CompletionHistory for TLC.  Each task completes once, as in *)
(* the pool.                                                               *)
(***************************************************************************)
EXTENDS CompletionHistory

CONSTANTS t1, t2, t3, h1, h2, m1

MCSubmitter == [t \in Tasks |-> m1]
MCRegistrar == [h \in Handlers |-> m1]
MCTaskLabels == [t \in Tasks |-> {}]

SentTasks(s) == {s[i].task : i \in DOMAIN s}

\* No task completes twice, or captures a sender after it has completed.
OneCompletionEach ==
  /\ Cardinality(SentTasks(sent')) = Len(sent')
  /\ txs' \cap SentTasks(sent') = {}

\* A bound on the data: the status is only carried along, so t1 ends in any way,
\* t2 does not panic and t3 is cancelled.
CarriedStatuses ==
  \A i \in DOMAIN sent' :
    /\ sent'[i].status = "Panicked" => sent'[i].task = t1
    /\ sent'[i].status = "Success" => sent'[i].task # t3

MCNext == HistoryNext /\ OneCompletionEach /\ CarriedStatuses

MCSpec == HistoryInit /\ [][MCNext]_historyVars

\* The worker is a spawned task that is polled whenever it can move.
MCFairSpec == MCSpec /\ WF_historyVars(NotifierStep /\ Record)

-----------------------------------------------------------------------------
(***************************************************************************)
(* Closing the sink terminates the worker once the per-task senders are    *)
(* gone (notifier.rs:78-79), which is what shutdown joins on.              *)
(***************************************************************************)
CloseTerminatesWorker == (sink = "closed" /\ txs = {}) ~> nworker = "stopped"
=============================================================================
