-------------------------- MODULE ActiveSlotsProofs --------------------------
(***************************************************************************)
(* Proofs about the slot registry, for every set of tasks.                 *)
(***************************************************************************)
EXTENDS ActiveSlots, FiniteSetTheorems, TLAPS

(***************************************************************************)
(* The inductive invariant: an owner's index names its slot, an occupied   *)
(* slot names its owner (so no task is entered twice), the free stack is   *)
(* exact, and the two counts agree.                                        *)
(***************************************************************************)
OwnerHasSlot == \A t \in Owners : slotOf[t] \in DOMAIN slots /\ slots[slotOf[t]] = t
SlotHasOwner == \A k \in DOMAIN slots : slots[k] # NoTask => slotOf[slots[k]] = k

SlotsInv ==
  /\ SlotsTypeOK
  /\ FreeListExact
  /\ OwnerHasSlot
  /\ SlotHasOwner
  /\ LenCountsOwners
  /\ SlotsBounded

(***************************************************************************)
(* The invariant gives the properties the pool relies on.                  *)
(***************************************************************************)
LEMMA SlotsInvImplies == SlotsInv => OwnSlot /\ LenCountsOwners /\ FreeListExact
<1> SUFFICES ASSUME SlotsInv PROVE OwnSlot
  BY DEF SlotsInv
<1>1. ASSUME NEW t \in Tasks, t \in ActiveTokens
      PROVE  t \in Owners
  <2>1. PICK k \in DOMAIN slots : slots[k] = t
    BY <1>1 DEF ActiveTokens
  <2>2. slotOf[t] = k /\ k # 0
    BY <2>1, TasksAssumption DEF SlotsInv, SlotHasOwner, SlotsTypeOK
  <2> QED
    BY <2>2 DEF Owners
<1>2. ASSUME NEW t \in Owners
      PROVE  t \in ActiveTokens
  BY DEF SlotsInv, OwnerHasSlot, ActiveTokens, Owners
<1> QED
  BY <1>1, <1>2 DEF OwnSlot, SlotsInv, OwnerHasSlot, Owners, ActiveTokens

(***************************************************************************)
(* The tasks with a slot are finitely many, so their number is defined.    *)
(***************************************************************************)
LEMMA FiniteOwners == IsFiniteSet(Owners) /\ Cardinality(Owners) \in Nat
<1>1. Owners \in SUBSET Tasks
  BY DEF Owners
<1> QED
  BY <1>1, TasksAssumption, FS_Subset, FS_CardinalityType

(***************************************************************************)
(* The empty registry satisfies the invariant.                             *)
(***************************************************************************)
LEMMA SlotsInitInv == SlotsInit => SlotsInv
<1> SUFFICES ASSUME SlotsInit PROVE SlotsInv
  OBVIOUS
<1>1. Owners = {}
  BY DEF SlotsInit, Owners
<1>2. Cardinality(Owners) = 0 /\ Cardinality(Tasks) \in Nat
  BY <1>1, FS_EmptySet, TasksAssumption, FS_CardinalityType
<1>3. SlotsTypeOK
  BY DEF SlotsInit, SlotsTypeOK
<1> QED
  BY <1>1, <1>2, <1>3
     DEF SlotsInit, SlotsInv, FreeListExact, OwnerHasSlot, SlotHasOwner, LenCountsOwners,
         ActiveLen, SlotsBounded

-----------------------------------------------------------------------------
(***************************************************************************)
(* insert (active.rs:30-41) keeps the invariant, whether it pops a free    *)
(* slot or grows the array.                                                *)
(***************************************************************************)
LEMMA InsertInv ==
  ASSUME SlotsInv, NEW t \in Tasks, slotOf[t] = 0, InsertSlot(t)
  PROVE  SlotsInv' /\ Owners' = Owners \cup {t}
<1> USE DEF SlotsInv
<1>1. /\ slots \in Seq(Tasks \cup {NoTask}) /\ free \in Seq(Nat \ {0})
      /\ slotOf \in [Tasks -> Nat]
      /\ Len(slots) \in Nat /\ DOMAIN slots = 1..Len(slots)
      /\ Len(free) \in Nat /\ DOMAIN free = 1..Len(free)
  BY DEF SlotsTypeOK
<1>2. t \notin Owners
  BY DEF Owners
<1>3. ASSUME NEW k \in Nat \ {0}, slotOf' = [slotOf EXCEPT ![t] = k]
      PROVE  /\ slotOf' \in [Tasks -> Nat]
             /\ Owners' = Owners \cup {t}
             /\ Cardinality(Owners') = Cardinality(Owners) + 1
             /\ Cardinality(Owners') <= Cardinality(Tasks)
  <2>1. Owners' = Owners \cup {t} /\ slotOf' \in [Tasks -> Nat]
    BY <1>1, <1>3 DEF Owners
  <2>2. Owners' \in SUBSET Tasks
    BY <2>1 DEF Owners
  <2> QED
    BY <1>2, <2>1, <2>2, FiniteOwners, FS_AddElement, FS_Subset, TasksAssumption
<1>4. CASE free # <<>>
  <2> DEFINE slot == free[Len(free)]
  <2>1. Len(free) \in 1..Len(free) /\ Len(free) - 1 \in Nat
    BY <1>1, <1>4
  <2>2. slot \in DOMAIN slots /\ slots[slot] = NoTask /\ slot \in Nat \ {0}
    BY <1>1, <2>1 DEF FreeListExact
  <2>3. /\ slots' = [slots EXCEPT ![slot] = t]
        /\ free' = SubSeq(free, 1, Len(free) - 1)
        /\ slotOf' = [slotOf EXCEPT ![t] = slot]
    BY <1>4 DEF InsertSlot
  <2> HIDE DEF slot
  <2>4. /\ slots' \in Seq(Tasks \cup {NoTask}) /\ Len(slots') = Len(slots)
        /\ DOMAIN slots' = DOMAIN slots
        /\ \A i \in DOMAIN slots : slots'[i] = IF i = slot THEN t ELSE slots[i]
    BY <1>1, <2>2, <2>3
  <2>5. /\ free' \in Seq(Nat \ {0}) /\ Len(free') = Len(free) - 1
        /\ DOMAIN free' = 1..(Len(free) - 1)
        /\ \A i \in DOMAIN free' : free'[i] = free[i] /\ i \in DOMAIN free /\ i # Len(free)
    BY <1>1, <2>1, <2>3
  <2>6. \A i \in DOMAIN free' : free[i] # slot
    BY <1>1, <2>1, <2>5 DEF slot, FreeListExact
  <2>7. FreeListExact'
    <3>1. \A i, j \in DOMAIN free' : free'[i] = free'[j] => i = j
      BY <2>5 DEF FreeListExact
    <3>2. \A i \in DOMAIN free' : free'[i] \in DOMAIN slots' /\ slots'[free'[i]] = NoTask
      BY <2>4, <2>5, <2>6 DEF FreeListExact
    <3>3. ASSUME NEW k \in DOMAIN slots', slots'[k] = NoTask
          PROVE  \E i \in DOMAIN free' : free'[i] = k
      <4>1. k # slot /\ slots[k] = NoTask
        BY <2>4, <3>3, TasksAssumption
      <4>2. PICK i \in DOMAIN free : free[i] = k
        BY <2>4, <4>1 DEF FreeListExact
      <4>3. i # Len(free)
        BY <4>1, <4>2 DEF slot
      <4>4. i \in DOMAIN free'
        BY <1>1, <2>5, <4>2, <4>3
      <4>5. free'[i] = k
        BY <2>5, <4>2, <4>4
      <4> QED
        BY <4>4, <4>5
    <3> QED
      BY <3>1, <3>2, <3>3 DEF FreeListExact
  <2>8. \A u \in Tasks : slotOf'[u] = IF u = t THEN slot ELSE slotOf[u]
    BY <1>1, <2>3
  <2>9. OwnerHasSlot'
    BY <2>2, <2>4, <2>8, TasksAssumption DEF OwnerHasSlot, Owners
  <2>10. SlotHasOwner'
    BY <1>1, <2>2, <2>4, <2>8 DEF SlotHasOwner, OwnerHasSlot, Owners
  <2>11. LenCountsOwners' /\ SlotsBounded' /\ Owners' = Owners \cup {t}
    <3>1. Owners' = Owners \cup {t} /\ Cardinality(Owners') = Cardinality(Owners) + 1
      BY <1>3, <2>2, <2>3
    <3>2. LenCountsOwners'
      BY <1>1, <2>4, <2>5, <3>1, FiniteOwners DEF LenCountsOwners, ActiveLen
    <3>3. SlotsBounded'
      BY <2>4 DEF SlotsBounded
    <3> QED
      BY <3>1, <3>2, <3>3
  <2>12. SlotsTypeOK'
    BY <1>3, <2>2, <2>3, <2>4, <2>5 DEF SlotsTypeOK
  <2> QED
    BY <2>7, <2>9, <2>10, <2>11, <2>12
<1>5. CASE free = <<>>
  <2>1. /\ slots' = Append(slots, t)
        /\ free' = free
        /\ slotOf' = [slotOf EXCEPT ![t] = Len(slots) + 1]
    BY <1>5 DEF InsertSlot
  <2>2. /\ slots' \in Seq(Tasks \cup {NoTask}) /\ Len(slots') = Len(slots) + 1
        /\ DOMAIN slots' = 1..(Len(slots) + 1)
        /\ \A i \in DOMAIN slots : slots'[i] = slots[i] /\ i \in DOMAIN slots'
        /\ slots'[Len(slots) + 1] = t
        /\ Len(slots) + 1 \in Nat \ {0}
    BY <1>1, <2>1
  <2>3. DOMAIN free = {} /\ Len(free) = 0
    BY <1>5
  <2>4. FreeListExact'
    <3>1. \A k \in DOMAIN slots' : slots'[k] # NoTask
      BY <1>1, <2>2, <2>3, TasksAssumption DEF FreeListExact
    <3> QED
      BY <2>1, <2>3, <3>1 DEF FreeListExact
  <2>5. \A u \in Tasks : slotOf'[u] = IF u = t THEN Len(slots) + 1 ELSE slotOf[u]
    BY <1>1, <2>1
  <2>6. OwnerHasSlot'
    BY <1>1, <2>2, <2>5 DEF OwnerHasSlot, Owners
  <2>7. SlotHasOwner'
    BY <1>1, <1>2, <2>2, <2>5, TasksAssumption DEF SlotHasOwner, Owners
  <2>8. Len(slots) = Cardinality(Owners)
    BY <1>1, <2>3 DEF LenCountsOwners, ActiveLen
  <2>9. LenCountsOwners' /\ SlotsBounded' /\ Owners' = Owners \cup {t}
    <3>1. /\ Owners' = Owners \cup {t} /\ Cardinality(Owners') = Cardinality(Owners) + 1
          /\ Cardinality(Owners') <= Cardinality(Tasks)
      BY <1>3, <2>1, <2>2
    <3>2. LenCountsOwners'
      BY <1>1, <2>1, <2>2, <2>3, <2>8, <3>1, FiniteOwners DEF LenCountsOwners, ActiveLen
    <3>3. SlotsBounded'
      BY <1>1, <2>2, <2>8, <3>1, FiniteOwners DEF SlotsBounded
    <3> QED
      BY <3>1, <3>2, <3>3
  <2>10. SlotsTypeOK'
    BY <1>1, <1>3, <2>1, <2>2 DEF SlotsTypeOK
  <2> QED
    BY <2>4, <2>6, <2>7, <2>9, <2>10
<1> QED
  BY <1>4, <1>5

(***************************************************************************)
(* remove (active.rs:43-48) keeps the invariant.  An owner's slot is never *)
(* found empty, so the guard in the code is not needed by the pool.        *)
(***************************************************************************)
LEMMA RemoveInv ==
  ASSUME SlotsInv, NEW t \in Tasks, slotOf[t] # 0, RemoveSlot(t)
  PROVE  SlotsInv' /\ Owners' = Owners \ {t}
<1> USE DEF SlotsInv
<1> DEFINE slot == slotOf[t]
<1>1. /\ slots \in Seq(Tasks \cup {NoTask}) /\ free \in Seq(Nat \ {0})
      /\ slotOf \in [Tasks -> Nat]
      /\ Len(slots) \in Nat /\ DOMAIN slots = 1..Len(slots)
      /\ Len(free) \in Nat /\ DOMAIN free = 1..Len(free)
  BY DEF SlotsTypeOK
<1>2. t \in Owners
  BY DEF Owners
<1>3. slot \in DOMAIN slots /\ slots[slot] = t /\ slot \in Nat \ {0}
  BY <1>1, <1>2 DEF OwnerHasSlot
<1>4. /\ slots' = [slots EXCEPT ![slot] = NoTask]
      /\ free' = Append(free, slot)
      /\ slotOf' = [slotOf EXCEPT ![t] = 0]
  BY <1>3, TasksAssumption DEF RemoveSlot
<1> HIDE DEF slot
<1>5. /\ slots' \in Seq(Tasks \cup {NoTask}) /\ Len(slots') = Len(slots)
      /\ DOMAIN slots' = DOMAIN slots
      /\ \A i \in DOMAIN slots : slots'[i] = IF i = slot THEN NoTask ELSE slots[i]
  BY <1>1, <1>3, <1>4
<1>6. /\ free' \in Seq(Nat \ {0}) /\ Len(free') = Len(free) + 1
      /\ DOMAIN free' = 1..(Len(free) + 1)
      /\ \A i \in DOMAIN free : free'[i] = free[i] /\ i \in DOMAIN free'
      /\ free'[Len(free) + 1] = slot
  BY <1>1, <1>3, <1>4
<1>7. \A u \in Tasks : slotOf'[u] = IF u = t THEN 0 ELSE slotOf[u]
  BY <1>1, <1>4
<1>8. \A i \in DOMAIN free : free[i] # slot
  BY <1>3, TasksAssumption DEF FreeListExact
<1>9. FreeListExact'
  <2>a. \A i \in DOMAIN free' : i \in DOMAIN free \/ i = Len(free) + 1
    BY <1>1, <1>6
  <2>1. \A i, j \in DOMAIN free' : free'[i] = free'[j] => i = j
    BY <1>6, <1>8, <2>a DEF FreeListExact
  <2>2. ASSUME NEW i \in DOMAIN free'
        PROVE  free'[i] \in DOMAIN slots' /\ slots'[free'[i]] = NoTask
    <3>1. CASE i \in DOMAIN free
      <4>1. free'[i] = free[i] /\ free[i] \in DOMAIN slots /\ slots[free[i]] = NoTask
        BY <1>6, <3>1 DEF FreeListExact
      <4> QED
        BY <1>5, <4>1
    <3>2. CASE i = Len(free) + 1
      BY <1>3, <1>5, <1>6, <3>2
    <3> QED
      BY <2>a, <3>1, <3>2
  <2>3. ASSUME NEW k \in DOMAIN slots', slots'[k] = NoTask
        PROVE  \E i \in DOMAIN free' : free'[i] = k
    <3>1. CASE k = slot
      <4>1. Len(free) + 1 \in DOMAIN free'
        BY <1>1, <1>6
      <4> QED
        BY <3>1, <4>1, <1>6
    <3>2. CASE k # slot
      BY <1>5, <1>6, <2>3, <3>2 DEF FreeListExact
    <3> QED
      BY <3>1, <3>2
  <2> QED
    BY <2>1, <2>2, <2>3 DEF FreeListExact
<1>10. OwnerHasSlot'
  <2> SUFFICES ASSUME NEW u \in Owners'
               PROVE  slotOf'[u] \in DOMAIN slots' /\ slots'[slotOf'[u]] = u
    BY DEF OwnerHasSlot
  <2>1. u \in Tasks /\ u # t /\ u \in Owners
    BY <1>7 DEF Owners
  <2>2. slotOf[u] \in DOMAIN slots /\ slots[slotOf[u]] = u
    BY <2>1 DEF OwnerHasSlot
  <2>3. slotOf[u] # slot
    BY <1>3, <2>1, <2>2
  <2> QED
    BY <1>5, <1>7, <2>1, <2>2, <2>3
<1>11. SlotHasOwner'
  <2> SUFFICES ASSUME NEW k \in DOMAIN slots', slots'[k] # NoTask
               PROVE  slotOf'[slots'[k]] = k
    BY DEF SlotHasOwner
  <2>1. k \in DOMAIN slots /\ k # slot /\ slots'[k] = slots[k] /\ slots[k] \in Tasks
    BY <1>1, <1>5
  <2>2. slotOf[slots[k]] = k
    BY <2>1, TasksAssumption DEF SlotHasOwner
  <2>3. slots[k] # t
    BY <2>1, <2>2 DEF slot
  <2> QED
    BY <1>7, <2>1, <2>2, <2>3
<1>12. Owners' = Owners \ {t} /\ slotOf' \in [Tasks -> Nat]
  BY <1>1, <1>4, <1>7 DEF Owners
<1>13. Cardinality(Owners') = Cardinality(Owners) - 1
  BY <1>2, <1>12, FiniteOwners, FS_RemoveElement
<1>14. LenCountsOwners' /\ SlotsBounded'
  BY <1>1, <1>5, <1>6, <1>13, FiniteOwners DEF LenCountsOwners, ActiveLen, SlotsBounded
<1>15. SlotsTypeOK'
  BY <1>5, <1>6, <1>12 DEF SlotsTypeOK
<1> QED
  BY <1>9, <1>10, <1>11, <1>12, <1>14, <1>15

-----------------------------------------------------------------------------
(***************************************************************************)
(* Insertions, removals and the pool's other steps keep the invariant.     *)
(***************************************************************************)
LEMMA SlotsNextInv == SlotsInv /\ [SlotsNext]_slotsVars => SlotsInv'
<1>1. ASSUME SlotsInv, UNCHANGED slotsVars
      PROVE  SlotsInv'
  BY <1>1 DEF slotsVars, SlotsInv, SlotsTypeOK, FreeListExact, OwnerHasSlot, SlotHasOwner,
              LenCountsOwners, ActiveLen, SlotsBounded, Owners
<1> QED
  BY <1>1, InsertInv, RemoveInv DEF SlotsNext

(***************************************************************************)
(* The registry (active.rs:17-67) holds exactly the tasks inserted and not *)
(* removed, each in the slot it was given.                                 *)
(***************************************************************************)
THEOREM SlotsOwnSlot == SlotsSpec => []OwnSlot
  BY SlotsInitInv, SlotsNextInv, SlotsInvImplies, PTL DEF SlotsSpec

(***************************************************************************)
(* len(), on which shutdown waits, counts exactly the inserted tasks.      *)
(***************************************************************************)
THEOREM SlotsLenCountsOwners == SlotsSpec => []LenCountsOwners
  BY SlotsInitInv, SlotsNextInv, SlotsInvImplies, PTL DEF SlotsSpec

(***************************************************************************)
(* Slots are reused: the array never outgrows the number of tasks.         *)
(***************************************************************************)
THEOREM SlotsStayBounded == SlotsSpec => []SlotsBounded
<1>1. SlotsInv => SlotsBounded
  BY DEF SlotsInv
<1> QED
  BY <1>1, SlotsInitInv, SlotsNextInv, PTL DEF SlotsSpec
=============================================================================
