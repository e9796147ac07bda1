----------------------------- MODULE ActiveSlots -----------------------------
(***************************************************************************)
(* The registry of executing tasks: a slot array and a stack of free slot  *)
(* indices.  A task keeps the index `insert` gave it and passes it to      *)
(* `remove`.  Indices start at 1 here, so 0 stands for "no slot".  Every   *)
(* operation runs under the registry's RwLock and is one step.             *)
(*                                                                         *)
(* In the module's own specification (SlotsSpec) any task may come and go  *)
(* repeatedly; the pool inserts and removes each task once.                *)
(***************************************************************************)
EXTENDS PoolParameters, Sequences

VARIABLES
  slots,    \* Vec<Option<Arc<TaskCore>>>
  free,     \* Vec<usize>, the last element on top
  slotOf    \* the index each spawned task carries, 0 if none

slotsVars == <<slots, free, slotOf>>

SlotsTypeOK ==
  /\ slots \in Seq(Tasks \cup {NoTask})
  /\ free \in Seq(Nat \ {0})
  /\ slotOf \in [Tasks -> Nat]

SlotsInit ==
  /\ slots = <<>>
  /\ free = <<>>
  /\ slotOf = [t \in Tasks |-> 0]

\* Mutant: the index of a new slot is read after the push.
InsertSlotLateIndex(t) ==
  LET slot == IF free = <<>> THEN Len(slots) + 2 ELSE free[Len(free)]
  IN  /\ slots' = IF free = <<>> THEN Append(slots, t) ELSE [slots EXCEPT ![slot] = t]
      /\ free' = IF free = <<>> THEN free ELSE SubSeq(free, 1, Len(free) - 1)
      /\ slotOf' = [slotOf EXCEPT ![t] = slot]

InsertSlot(t) ==
  IF free # <<>>
  THEN LET slot == free[Len(free)]
       IN  /\ slots' = [slots EXCEPT ![slot] = t]
           /\ free' = SubSeq(free, 1, Len(free) - 1)
           /\ slotOf' = [slotOf EXCEPT ![t] = slot]
  ELSE /\ slots' = Append(slots, t)
       /\ slotOf' = [slotOf EXCEPT ![t] = Len(slots) + 1]
       /\ UNCHANGED free

\* The index is forgotten with the closure that owns it.
RemoveSlot(t) ==
  LET slot == slotOf[t]
  IN  /\ IF slot \in DOMAIN slots /\ slots[slot] # NoTask
         THEN /\ slots' = [slots EXCEPT ![slot] = NoTask]
              /\ free' = Append(free, slot)
         ELSE UNCHANGED <<slots, free>>
      /\ slotOf' = [slotOf EXCEPT ![t] = 0]

ActiveLen == Len(slots) - Len(free)

ActiveTokens == {t \in Tasks : \E i \in DOMAIN slots : slots[i] = t}

TokensMatching(labels) == {t \in ActiveTokens : TaskLabels[t] \cap labels # {}}

SlotsNext ==
  \E t \in Tasks : \/ slotOf[t] = 0 /\ InsertSlot(t)
                   \/ slotOf[t] # 0 /\ RemoveSlot(t)

SlotsSpec == SlotsInit /\ [][SlotsNext]_slotsVars

-----------------------------------------------------------------------------
Owners == {t \in Tasks : slotOf[t] # 0}

(***************************************************************************)
(* The free stack holds exactly the indices of the empty slots, each once: *)
(* no slot is handed out twice (which would overwrite a running task's     *)
(* entry) and none leaks.                                                  *)
(***************************************************************************)
FreeListExact ==
  /\ \A i, j \in DOMAIN free : free[i] = free[j] => i = j
  /\ \A i \in DOMAIN free : free[i] \in DOMAIN slots /\ slots[free[i]] = NoTask
  /\ \A k \in DOMAIN slots : slots[k] = NoTask => \E i \in DOMAIN free : free[i] = k

(***************************************************************************)
(* A task's index names the slot that holds the task's own core, so its    *)
(* removal never evicts another task and the tokens that shutdown and      *)
(* cancel-by-label collect are exactly the tasks inserted and not removed. *)
(***************************************************************************)
OwnSlot ==
  /\ \A t \in Owners : slotOf[t] \in DOMAIN slots /\ slots[slotOf[t]] = t
  /\ ActiveTokens = Owners

(***************************************************************************)
(* len() (slots minus free entries), which shutdown waits to reach zero    *)
(* and active_task_count reports, is the number of inserted tasks.         *)
(***************************************************************************)
LenCountsOwners == ActiveLen = Cardinality(Owners)

(***************************************************************************)
(* Slots are reused: however often tasks come and go, the array never      *)
(* outgrows the largest number of tasks that can be active at once.        *)
(***************************************************************************)
SlotsBounded == Len(slots) <= Cardinality(Tasks)
=============================================================================
