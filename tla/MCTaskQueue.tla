---------------------------- MODULE MCTaskQueue ----------------------------
(***************************************************************************)
(* Instances of TaskQueue for TLC.  Four tasks against a queue of two:     *)
(* with two messages queued, two more calls can be parked behind the gate, *)
(* so a rejected, abandoned or granted call always has a neighbour in the  *)
(* wait list.                                                              *)
(***************************************************************************)
EXTENDS TaskQueue

CONSTANTS t1, t2, t3, t4, m1, m2

MCSubmitter == [t \in Tasks |-> IF t \in {t1, t3} THEN m1 ELSE m2]
MCRegistrar == [h \in Handlers |-> m1]
MCTaskLabels == [t \in Tasks |-> {}]
=============================================================================
