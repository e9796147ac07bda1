---------------------------- MODULE ActiveRegistry ----------------------------
(***************************************************************************)
(* What a shard of the relaxed pool's registry promises its readers: a set *)
(* of active tasks, the ones a label cancel or a forceful shutdown finds,  *)
(* and a count that is never below the size of that set.  A task joins     *)
(* once, after it was counted, and retires once, before it is discounted.  *)
(***************************************************************************)
EXTENDS Naturals, FiniteSets

CONSTANT Tasks

VARIABLES
  count,    \* what len() returns
  active,   \* what all_tokens() returns
  retired   \* tasks that were active and never will be again

RegistryInit == count = 0 /\ active = {} /\ retired = {}

Enter == count' = count + 1 /\ UNCHANGED <<active, retired>>

Join(t) ==
  /\ t \notin active \cup retired
  /\ Cardinality(active) < count
  /\ active' = active \cup {t}
  /\ UNCHANGED <<count, retired>>

Retire(t) ==
  /\ t \in active
  /\ active' = active \ {t}
  /\ retired' = retired \cup {t}
  /\ UNCHANGED count

Leave ==
  /\ Cardinality(active) < count
  /\ count' = count - 1
  /\ UNCHANGED <<active, retired>>

RegistryNext == Enter \/ Leave \/ \E t \in Tasks : Join(t) \/ Retire(t)

RegistrySpec == RegistryInit /\ [][RegistryNext]_<<count, active, retired>>
=============================================================================
