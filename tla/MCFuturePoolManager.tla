------------------------- MODULE MCFuturePoolManager -------------------------
(***************************************************************************)
(* Instances of FuturePoolManager for TLC.                                 *)
(***************************************************************************)
EXTENDS FuturePoolManager

CONSTANTS t1, t2, t3, m1, m2, h1, red

\* Two tasks share a clone, so that one clone's calls compete for the gate.
MCSubmitter == [t \in Tasks |-> IF t = t2 /\ m2 \in Managers THEN m2 ELSE m1]
MCRegistrar == [h \in Handlers |-> IF m2 \in Managers THEN m2 ELSE m1]
MCTaskLabels == [t \in Tasks |-> IF t = t2 THEN {} ELSE Labels]
=============================================================================
