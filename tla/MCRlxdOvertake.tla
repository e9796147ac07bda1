---------------------------- MODULE MCRlxdOvertake ----------------------------
(***************************************************************************)
(* The relaxed pool with a history variable: the tasks that were accepted  *)
(* and not yet started when a submit call began.                           *)
(***************************************************************************)
EXTENDS MCFuturePoolManagerRlxd

VARIABLE ahead

Unstarted == {u \in Tasks : send[u] = "ok" /\ phase[u] = "none" /\ result[u] = "pending"}

HistoryInit == Init /\ ahead = [t \in Tasks |-> {}]

HistoryNext ==
  /\ Next
  /\ ahead' = [t \in Tasks |->
                 IF send[t] = "idle" /\ send'[t] # "idle" THEN Unstarted ELSE ahead[t]]

HistorySpec == HistoryInit /\ [][HistoryNext]_<<vars, ahead>>

(***************************************************************************)
(* "Bypassing only when the queue is empty means no queued task is ever    *)
(* overtaken" (rlxd.rs:330-331), and with one dispatcher the pool is       *)
(* "strictly FIFO too" (rlxd.rs:191): a task runs only when every task     *)
(* that was queued before its submit began has been started or has ended.  *)
(***************************************************************************)
NeverOvertaken == \A t \in Running : ahead[t] \cap Unstarted = {}
=============================================================================
