------------------------ MODULE DeferredRegistryProofs ------------------------
(***************************************************************************)
(* Proofs about the registry with deferred removal, for every set of tasks *)
(* and every number of shards.                                             *)
(***************************************************************************)
EXTENDS DeferredRegistry, FiniteSetTheorems, TLAPS

(***************************************************************************)
(* What ListedTaskKept lacks to be inductive: an occupied slot holds a     *)
(* task of that very shard which went through insert, so a task that is    *)
(* about to be inserted is in no slot yet.                                 *)
(***************************************************************************)
OccupantsBelong ==
  \A l \in Lanes : \A i \in DOMAIN shardSlots[l] :
    shardSlots[l][i] # NoTask =>
      /\ shardOf[shardSlots[l][i]] = l
      /\ entry[shardSlots[l][i]] \in {"listed", "finished", "left"}

(***************************************************************************)
(* What bounds the arrays: the free list leaves no empty slot out.  So an  *)
(* insert that grows an array found every slot of it taken, and because it *)
(* swept first, taken by a task that is not finished.                      *)
(***************************************************************************)
FreeSlotsListed ==
  \A l \in Lanes : \A i \in DOMAIN shardSlots[l] :
    shardSlots[l][i] = NoTask => \E k \in DOMAIN shardFree[l] : shardFree[l][k] = i

DeferredInv ==
  /\ RegistryTypeOK
  /\ InFlightExact
  /\ ListedTaskKept
  /\ OccupantsBelong
  /\ FreeSlotsListed

(***************************************************************************)
(* The counted tasks of a shard are finitely many.                         *)
(***************************************************************************)
LEMMA CountedFinite ==
  \A l \in Lanes : IsFiniteSet(Counted(l)) /\ Cardinality(Counted(l)) \in Nat
<1> TAKE l \in Lanes
<1>1. Counted(l) \in SUBSET Tasks
  BY DEF Counted
<1> QED
  BY <1>1, TasksAssumption, FS_Subset, FS_CardinalityType

(***************************************************************************)
(* There is at least the shard 0.                                          *)
(***************************************************************************)
LEMMA LaneZero == 0 \in Lanes
  BY DispatchersAssumption DEF Lanes, LaneCount

(***************************************************************************)
(* The new registry satisfies the invariant.                               *)
(***************************************************************************)
LEMMA DeferredInitInv == DeferredInit => DeferredInv
<1> SUFFICES ASSUME DeferredInit PROVE DeferredInv
  OBVIOUS
<1>1. RegistryTypeOK
  BY LaneZero DEF DeferredInit, RegistryTypeOK, EntryPoints
<1>2. InFlightExact
  <2>1. \A l \in Lanes : Counted(l) = {}
    BY DEF DeferredInit, Counted
  <2> QED
    BY <2>1, FS_EmptySet DEF DeferredInit, InFlightExact
<1>3. ListedTaskKept /\ OccupantsBelong /\ FreeSlotsListed
  BY DEF DeferredInit, ListedTaskKept, OccupantsBelong, FreeSlotsListed
<1> QED
  BY <1>1, <1>2, <1>3 DEF DeferredInv

-----------------------------------------------------------------------------
(***************************************************************************)
(* What sweep_finished (active.rs:68-75) pushes: indices of slots whose    *)
(* tasks have finished, each once, and all of them if it runs.             *)
(***************************************************************************)
LEMMA SweptIndices ==
  ASSUME RegistryTypeOK, NEW l \in Lanes, NEW swept \in SweepFinished(l)
  PROVE  /\ swept \in Seq(Nat \ {0})
         /\ \A k \in DOMAIN swept : swept[k] \in Reclaimable(l)
         /\ \A j, k \in DOMAIN swept : swept[j] = swept[k] => j = k
         /\ shardFree[l] = <<>> =>
              \A i \in Reclaimable(l) : \E k \in DOMAIN swept : swept[k] = i
<1>1. CASE shardFree[l] # <<>>
  <2>1. swept = <<>>
    BY <1>1 DEF SweepFinished
  <2> QED
    BY <1>1, <2>1
<1>2. CASE swept \in InOrder(Reclaimable(l))
  <2> DEFINE S == Reclaimable(l)
  <2>1. shardSlots[l] \in Seq(Tasks \cup {NoTask})
    BY DEF RegistryTypeOK
  <2>2. S \in SUBSET (1..Len(shardSlots[l])) /\ Len(shardSlots[l]) \in Nat
    BY <2>1 DEF Reclaimable
  <2>3. S \in SUBSET (Nat \ {0}) /\ Cardinality(S) \in Nat
    <3>1. IsFiniteSet(1..Len(shardSlots[l]))
      BY <2>2, FS_Interval
    <3>2. Cardinality(S) \in Nat
      BY <2>2, <3>1, FS_Subset, FS_CardinalityType
    <3>3. S \in SUBSET (Nat \ {0})
      BY <2>2
    <3> QED
      BY <3>2, <3>3
  <2>4. /\ swept \in [1..Cardinality(S) -> S]
        /\ \A i, j \in DOMAIN swept : i < j => swept[i] < swept[j]
        /\ \A i \in S : \E k \in DOMAIN swept : swept[k] = i
    BY <1>2 DEF InOrder
  <2> HIDE DEF S
  <2>5. swept \in Seq(Nat \ {0}) /\ DOMAIN swept = 1..Cardinality(S)
    <3>1. swept \in [1..Cardinality(S) -> Nat \ {0}]
      BY <2>3, <2>4
    <3> QED
      BY <2>3, <3>1
  <2>6. \A i, j \in DOMAIN swept : swept[i] = swept[j] => i = j
    <3> SUFFICES ASSUME NEW i \in DOMAIN swept, NEW j \in DOMAIN swept,
                        swept[i] = swept[j], i # j
                 PROVE  FALSE
      OBVIOUS
    <3>1. i \in Nat /\ j \in Nat /\ swept[i] \in Nat /\ swept[j] \in Nat
      BY <2>3, <2>4, <2>5
    <3>2. i < j \/ j < i
      BY <3>1
    <3> QED
      BY <2>4, <3>1, <3>2
  <2> QED
    BY <2>4, <2>5, <2>6 DEF S
<1> QED
  BY <1>1, <1>2 DEF SweepFinished

(***************************************************************************)
(* The array and the free list after insert (active.rs:103-111): the core  *)
(* is in one slot that was free, new or swept; no slot of a running task   *)
(* was touched; the free list names what is free, all of it; the array is  *)
(* longer only if every slot had an unfinished task.                       *)
(***************************************************************************)
AllUnfinished(l) ==
  \A j \in DOMAIN shardSlots[l] : shardSlots[l][j] # NoTask /\ ~IsFinished(shardSlots[l][j])

CoreAt(l, t, i) ==
  /\ i \in DOMAIN shardSlots'[l] /\ shardSlots'[l][i] = t
  /\ \A j \in DOMAIN shardSlots'[l] : j # i =>
       j \in DOMAIN shardSlots[l] /\ shardSlots'[l][j] \in {NoTask, shardSlots[l][j]}
  /\ \A j \in DOMAIN shardSlots[l] :
       shardSlots[l][j] # NoTask /\ ~IsFinished(shardSlots[l][j]) =>
         j \in DOMAIN shardSlots'[l] /\ j # i /\ shardSlots'[l][j] = shardSlots[l][j]
  /\ \A k \in DOMAIN shardFree'[l] :
       /\ shardFree'[l][k] \in DOMAIN shardSlots'[l]
       /\ shardSlots'[l][shardFree'[l][k]] = NoTask
  /\ \A j, k \in DOMAIN shardFree'[l] : shardFree'[l][j] = shardFree'[l][k] => j = k
  /\ \A j \in DOMAIN shardSlots'[l] :
       shardSlots'[l][j] = NoTask => \E k \in DOMAIN shardFree'[l] : shardFree'[l][k] = j
  /\ \/ Len(shardSlots'[l]) = Len(shardSlots[l])
     \/ Len(shardSlots'[l]) = Len(shardSlots[l]) + 1 /\ AllUnfinished(l)

(***************************************************************************)
(* DeferredRegistry::insert, sweep included, keeps types, and leaves the   *)
(* array and the free list of its shard exact and the others alone.        *)
(***************************************************************************)
LEMMA InsertedCore ==
  ASSUME DeferredInv, NEW l \in Lanes, NEW t \in Tasks, InsertCore(l, t)
  PROVE  /\ RegistryTypeOK'
         /\ \A k \in Lanes \ {l} : /\ shardSlots'[k] = shardSlots[k]
                                   /\ shardFree'[k] = shardFree[k]
         /\ \E i \in Nat \ {0} : CoreAt(l, t, i)
<1> DEFINE S == shardSlots[l]
           F == shardFree[l]
<1>1. /\ S \in Seq(Tasks \cup {NoTask}) /\ F \in Seq(Nat \ {0})
      /\ shardSlots \in [Lanes -> Seq(Tasks \cup {NoTask})]
      /\ shardFree \in [Lanes -> Seq(Nat \ {0})]
      /\ entry \in [Tasks -> EntryPoints] /\ NoTask \notin Tasks
  BY TasksAssumption DEF DeferredInv, RegistryTypeOK
<1>2. PICK swept \in SweepFinished(l) :
        LET open == shardFree[l] \o swept
            kept == [i \in DOMAIN shardSlots[l] |->
                       IF \E k \in DOMAIN swept : swept[k] = i THEN NoTask
                       ELSE shardSlots[l][i]]
        IN  IF open = <<>>
            THEN /\ shardSlots' = [shardSlots EXCEPT ![l] = Append(kept, t)]
                 /\ UNCHANGED shardFree
            ELSE /\ shardSlots' = [shardSlots EXCEPT ![l] =
                                     [kept EXCEPT ![open[Len(open)]] = t]]
                 /\ shardFree' = [shardFree EXCEPT ![l] = SubSeq(open, 1, Len(open) - 1)]
  BY DEF InsertCore, Popped
<1> DEFINE open == F \o swept
           kept == [i \in DOMAIN S |->
                      IF \E k \in DOMAIN swept : swept[k] = i THEN NoTask ELSE S[i]]
<1>3. /\ swept \in Seq(Nat \ {0})
      /\ \A k \in DOMAIN swept :
           swept[k] \in DOMAIN S /\ S[swept[k]] # NoTask /\ IsFinished(S[swept[k]])
      /\ \A j, k \in DOMAIN swept : swept[j] = swept[k] => j = k
      /\ F = <<>> => \A i \in DOMAIN S : S[i] # NoTask /\ IsFinished(S[i]) =>
                       \E k \in DOMAIN swept : swept[k] = i
  BY SweptIndices DEF DeferredInv, Reclaimable
<1>4. /\ \A k \in DOMAIN F : F[k] \in DOMAIN S /\ S[F[k]] = NoTask
      /\ \A j, k \in DOMAIN F : F[j] = F[k] => j = k
      /\ \A i \in DOMAIN S : S[i] = NoTask => \E k \in DOMAIN F : F[k] = i
  BY DEF DeferredInv, ListedTaskKept, FreeSlotsListed
<1>5. /\ open = <<>> => /\ shardSlots' = [shardSlots EXCEPT ![l] = Append(kept, t)]
                        /\ shardFree' = shardFree
      /\ open # <<>> => /\ shardSlots' = [shardSlots EXCEPT ![l] =
                                            [kept EXCEPT ![open[Len(open)]] = t]]
                        /\ shardFree' = [shardFree EXCEPT ![l] =
                                           SubSeq(open, 1, Len(open) - 1)]
  BY <1>2
<1> HIDE DEF S, F
<1>6. /\ open \in Seq(Nat \ {0})
      /\ Len(open) = Len(F) + Len(swept) /\ DOMAIN open = 1..(Len(F) + Len(swept))
      /\ Len(F) \in Nat /\ DOMAIN F = 1..Len(F)
      /\ Len(swept) \in Nat /\ DOMAIN swept = 1..Len(swept)
      /\ \A k \in DOMAIN open :
           open[k] = IF k <= Len(F) THEN F[k] ELSE swept[k - Len(F)]
  BY <1>1, <1>3
<1>7. /\ kept \in Seq(Tasks \cup {NoTask}) /\ Len(kept) = Len(S)
      /\ DOMAIN kept = DOMAIN S /\ DOMAIN S = 1..Len(S) /\ Len(S) \in Nat
      /\ \A i \in DOMAIN S : kept[i] \in {NoTask, S[i]}
      /\ \A i \in DOMAIN S : S[i] # NoTask /\ ~IsFinished(S[i]) => kept[i] = S[i]
      /\ \A i \in DOMAIN S : S[i] = NoTask => kept[i] = NoTask
      /\ \A k \in DOMAIN swept : kept[swept[k]] = NoTask
      /\ \A i \in DOMAIN S :
           kept[i] = NoTask => S[i] = NoTask \/ \E k \in DOMAIN swept : swept[k] = i
  <2>1. DOMAIN S = 1..Len(S) /\ Len(S) \in Nat
    BY <1>1
  <2>2. kept \in [1..Len(S) -> Tasks \cup {NoTask}]
    BY <1>1, <2>1
  <2>3. kept \in Seq(Tasks \cup {NoTask}) /\ Len(kept) = Len(S)
    BY <2>1, <2>2
  <2>4. \A i \in DOMAIN S : S[i] # NoTask /\ ~IsFinished(S[i]) => kept[i] = S[i]
    BY <1>3
  <2> QED
    BY <1>3, <2>1, <2>3, <2>4
<1> HIDE DEF kept, open
<1>8. \A k \in DOMAIN open : open[k] \in DOMAIN S /\ kept[open[k]] = NoTask
  <2> SUFFICES ASSUME NEW k \in DOMAIN open
               PROVE  open[k] \in DOMAIN S /\ kept[open[k]] = NoTask
    OBVIOUS
  <2>1. CASE k <= Len(F)
    BY <1>4, <1>6, <1>7, <2>1
  <2>2. CASE ~(k <= Len(F))
    <3>1. k - Len(F) \in DOMAIN swept
      BY <1>6, <2>2
    <3> QED
      BY <1>3, <1>6, <1>7, <2>2, <3>1
  <2> QED
    BY <2>1, <2>2
<1>8a. \A i \in DOMAIN S : kept[i] = NoTask => \E k \in DOMAIN open : open[k] = i
  <2> SUFFICES ASSUME NEW i \in DOMAIN S, kept[i] = NoTask
               PROVE  \E k \in DOMAIN open : open[k] = i
    OBVIOUS
  <2>1. CASE S[i] = NoTask
    <3>1. PICK k \in DOMAIN F : F[k] = i
      BY <1>4, <2>1
    <3>2. k \in DOMAIN open /\ open[k] = i
      BY <1>6, <3>1
    <3> QED
      BY <3>2
  <2>2. CASE \E k \in DOMAIN swept : swept[k] = i
    <3>1. PICK k \in DOMAIN swept : swept[k] = i
      BY <2>2
    <3>2. /\ k + Len(F) \in DOMAIN open /\ ~(k + Len(F) <= Len(F))
          /\ (k + Len(F)) - Len(F) = k
      BY <1>6, <3>1
    <3>3. open[k + Len(F)] = i
      BY <1>6, <3>1, <3>2
    <3> QED
      BY <3>2, <3>3
  <2> QED
    BY <1>7, <2>1, <2>2
<1>9. \A j, k \in DOMAIN open : open[j] = open[k] => j = k
  <2> SUFFICES ASSUME NEW j \in DOMAIN open, NEW k \in DOMAIN open, open[j] = open[k]
               PROVE  j = k
    OBVIOUS
  <2>1. CASE j <= Len(F) /\ k <= Len(F)
    BY <1>4, <1>6, <2>1
  <2>2. CASE ~(j <= Len(F)) /\ ~(k <= Len(F))
    <3>1. j - Len(F) \in DOMAIN swept /\ k - Len(F) \in DOMAIN swept
      BY <1>6, <2>2
    <3>2. j - Len(F) = k - Len(F)
      BY <1>3, <1>6, <2>2, <3>1
    <3> QED
      BY <1>6, <3>2
  <2>3. CASE j <= Len(F) /\ ~(k <= Len(F))
    <3>1. j \in DOMAIN F /\ k - Len(F) \in DOMAIN swept
      BY <1>6, <2>3
    <3> QED
      BY <1>3, <1>4, <1>6, <2>3, <3>1
  <2>4. CASE ~(j <= Len(F)) /\ k <= Len(F)
    <3>1. k \in DOMAIN F /\ j - Len(F) \in DOMAIN swept
      BY <1>6, <2>4
    <3> QED
      BY <1>3, <1>4, <1>6, <2>4, <3>1
  <2> QED
    BY <2>1, <2>2, <2>3, <2>4
<1>10. /\ entry' = [entry EXCEPT ![t] = "listed"] /\ shardOf' = shardOf
       /\ inFlight' = inFlight /\ entry[t] = "counted"
  BY DEF InsertCore, Popped
<1>11. CASE open = <<>>
  <2>1. /\ shardSlots' = [shardSlots EXCEPT ![l] = Append(kept, t)]
        /\ shardFree' = shardFree
    BY <1>5, <1>11
  <2>2. /\ Append(kept, t) \in Seq(Tasks \cup {NoTask})
        /\ DOMAIN Append(kept, t) = 1..(Len(S) + 1)
        /\ Append(kept, t)[Len(S) + 1] = t
        /\ \A i \in 1..Len(S) : Append(kept, t)[i] = kept[i]
    BY <1>7
  <2>3. shardSlots'[l] = Append(kept, t) /\ shardFree'[l] = F
    BY <1>1, <2>1 DEF F
  <2>4. DOMAIN F = {}
    BY <1>6, <1>11
  <2>5. CoreAt(l, t, Len(S) + 1)
    <3>1. \A j \in DOMAIN shardSlots'[l] : j # Len(S) + 1 => j \in DOMAIN S
      BY <1>7, <2>2, <2>3
    <3>2. \A j \in DOMAIN S : j \in DOMAIN shardSlots'[l] /\ j # Len(S) + 1
      BY <1>7, <2>2, <2>3
    <3>3. \A j \in DOMAIN S : shardSlots'[l][j] = kept[j]
      BY <1>7, <2>2, <2>3
    <3>4. Len(S) + 1 \in DOMAIN shardSlots'[l] /\ shardSlots'[l][Len(S) + 1] = t
      BY <1>7, <2>2, <2>3
    <3>5. \A j \in DOMAIN shardSlots'[l] : shardSlots'[l][j] # NoTask
      <4>1. DOMAIN open = {}
        BY <1>11
      <4> QED
        BY <1>1, <1>8a, <3>1, <3>3, <3>4, <4>1
    <3>6. Len(shardSlots'[l]) = Len(S) + 1 /\ AllUnfinished(l)
      <4>1. F = <<>> /\ DOMAIN swept = {}
        BY <1>1, <1>3, <1>6, <1>11
      <4>2. \A j \in DOMAIN S : S[j] # NoTask /\ ~IsFinished(S[j])
        BY <1>3, <1>4, <2>4, <4>1
      <4> QED
        BY <1>7, <2>3, <4>2 DEF AllUnfinished, S
    <3> QED
      BY <1>7, <2>3, <2>4, <3>1, <3>2, <3>3, <3>4, <3>5, <3>6 DEF CoreAt, S
  <2>6. RegistryTypeOK'
    BY <1>1, <1>10, <2>1, <2>2 DEF DeferredInv, RegistryTypeOK, EntryPoints
  <2>7. \A k \in Lanes \ {l} : shardSlots'[k] = shardSlots[k] /\ shardFree'[k] = shardFree[k]
    BY <1>1, <2>1
  <2>8. Len(S) + 1 \in Nat \ {0}
    BY <1>7
  <2> QED
    BY <2>5, <2>6, <2>7, <2>8
<1>12. CASE open # <<>>
  <2> DEFINE top == open[Len(open)]
  <2>1. Len(open) \in DOMAIN open /\ Len(open) - 1 \in Nat
    BY <1>6, <1>12
  <2>2. top \in DOMAIN S /\ kept[top] = NoTask /\ top \in Nat \ {0}
    BY <1>6, <1>8, <2>1
  <2>3. /\ shardSlots' = [shardSlots EXCEPT ![l] = [kept EXCEPT ![top] = t]]
        /\ shardFree' = [shardFree EXCEPT ![l] = SubSeq(open, 1, Len(open) - 1)]
    BY <1>5, <1>12
  <2>4. \A k \in DOMAIN open : k # Len(open) => open[k] # top
    BY <1>9, <2>1
  <2> HIDE DEF top
  <2>5. /\ [kept EXCEPT ![top] = t] \in Seq(Tasks \cup {NoTask})
        /\ DOMAIN [kept EXCEPT ![top] = t] = DOMAIN S
        /\ \A i \in DOMAIN S : [kept EXCEPT ![top] = t][i] = IF i = top THEN t ELSE kept[i]
    BY <1>7, <2>2
  <2>6. /\ SubSeq(open, 1, Len(open) - 1) \in Seq(Nat \ {0})
        /\ DOMAIN SubSeq(open, 1, Len(open) - 1) = 1..(Len(open) - 1)
        /\ \A k \in 1..(Len(open) - 1) : SubSeq(open, 1, Len(open) - 1)[k] = open[k]
    BY <1>6, <2>1
  <2>7. /\ shardSlots'[l] = [kept EXCEPT ![top] = t]
        /\ shardFree'[l] = SubSeq(open, 1, Len(open) - 1)
    BY <1>1, <2>3
  <2>8. \A k \in DOMAIN shardFree'[l] :
          k \in DOMAIN open /\ k # Len(open) /\ shardFree'[l][k] = open[k]
    BY <1>6, <2>1, <2>6, <2>7
  <2>9. CoreAt(l, t, top)
    <3>1. top \in DOMAIN shardSlots'[l] /\ shardSlots'[l][top] = t
      BY <2>2, <2>5, <2>7
    <3>2. \A j \in DOMAIN S : j # top => shardSlots'[l][j] = kept[j]
      BY <2>5, <2>7
    <3>3. \A j \in DOMAIN S : S[j] # NoTask /\ ~IsFinished(S[j]) => j # top
      BY <1>7, <2>2
    <3>4. \A k \in DOMAIN shardFree'[l] :
            /\ shardFree'[l][k] \in DOMAIN shardSlots'[l]
            /\ shardSlots'[l][shardFree'[l][k]] = NoTask
      BY <1>8, <2>4, <2>5, <2>7, <2>8, <3>2
    <3>5. \A j, k \in DOMAIN shardFree'[l] : shardFree'[l][j] = shardFree'[l][k] => j = k
      BY <1>9, <2>8
    <3>6. DOMAIN shardSlots'[l] = DOMAIN S
      BY <2>5, <2>7
    <3>7. ASSUME NEW j \in DOMAIN S, shardSlots'[l][j] = NoTask
          PROVE  \E k \in DOMAIN shardFree'[l] : shardFree'[l][k] = j
      <4>1. j # top /\ kept[j] = NoTask
        BY <1>1, <3>1, <3>2, <3>7
      <4>2. PICK k \in DOMAIN open : open[k] = j
        BY <1>8a, <4>1
      <4>3. k # Len(open)
        BY <4>1, <4>2 DEF top
      <4>4. k \in 1..(Len(open) - 1)
        BY <1>6, <4>3
      <4> QED
        BY <2>6, <2>7, <4>2, <4>4
    <3>8. Len(shardSlots'[l]) = Len(S)
      BY <1>7, <2>2, <2>7
    <3> QED
      BY <1>7, <3>1, <3>2, <3>3, <3>4, <3>5, <3>6, <3>7, <3>8 DEF CoreAt, S
  <2>10. RegistryTypeOK'
    BY <1>1, <1>10, <2>3, <2>5, <2>6 DEF DeferredInv, RegistryTypeOK, EntryPoints
  <2>11. \A k \in Lanes \ {l} : shardSlots'[k] = shardSlots[k] /\ shardFree'[k] = shardFree[k]
    BY <1>1, <2>3
  <2> QED
    BY <2>2, <2>9, <2>10, <2>11
<1> QED
  BY <1>11, <1>12

-----------------------------------------------------------------------------
(***************************************************************************)
(* insert keeps the invariant: the new core takes no slot from a running   *)
(* task and is found in its own shard.                                     *)
(***************************************************************************)
LEMMA InsertCoreInv ==
  ASSUME DeferredInv, NEW l \in Lanes, NEW t \in Tasks, InsertCore(l, t)
  PROVE  DeferredInv'
<1>1. /\ RegistryTypeOK'
      /\ \A k \in Lanes \ {l} : shardSlots'[k] = shardSlots[k] /\ shardFree'[k] = shardFree[k]
  BY InsertedCore
<1>2. PICK p \in Nat \ {0} : CoreAt(l, t, p)
  BY InsertedCore
<1>3. /\ entry \in [Tasks -> EntryPoints] /\ entry[t] = "counted" /\ shardOf[t] = l
      /\ entry' = [entry EXCEPT ![t] = "listed"]
      /\ shardOf' = shardOf /\ inFlight' = inFlight
      /\ shardOf \in [Tasks -> Lanes] /\ NoTask \notin Tasks
  BY TasksAssumption DEF DeferredInv, RegistryTypeOK, InsertCore, Popped
<1>4. \A u \in Tasks : entry'[u] = IF u = t THEN "listed" ELSE entry[u]
  BY <1>3
<1>5. \A k \in Lanes : \A i \in DOMAIN shardSlots[k] : shardSlots[k][i] \in Tasks \cup {NoTask}
  BY DEF DeferredInv, RegistryTypeOK
<1>6. \A k \in Lanes : \A i \in DOMAIN shardSlots[k] : shardSlots[k][i] # t
  BY <1>3 DEF DeferredInv, OccupantsBelong
<1>7. InFlightExact'
  <2>1. \A k \in Lanes : Counted(k)' = Counted(k)
    BY <1>3, <1>4 DEF Counted
  <2> QED
    BY <1>3, <2>1 DEF DeferredInv, InFlightExact
<1>8. OccupantsBelong'
  <2> SUFFICES ASSUME NEW k \in Lanes, NEW i \in DOMAIN shardSlots'[k],
                      shardSlots'[k][i] # NoTask
               PROVE  /\ shardOf'[shardSlots'[k][i]] = k
                      /\ entry'[shardSlots'[k][i]] \in {"listed", "finished", "left"}
    BY DEF OccupantsBelong
  <2>1. CASE k = l /\ i = p
    BY <1>2, <1>3, <1>4, <2>1 DEF CoreAt
  <2>2. CASE ~(k = l /\ i = p)
    <3>1. i \in DOMAIN shardSlots[k] /\ shardSlots'[k][i] = shardSlots[k][i]
      BY <1>1, <1>2, <2>2 DEF CoreAt
    <3>2. shardSlots[k][i] \in Tasks /\ shardSlots[k][i] # t
      BY <1>5, <1>6, <3>1
    <3> QED
      BY <1>3, <1>4, <3>1, <3>2 DEF DeferredInv, OccupantsBelong
  <2> QED
    BY <2>1, <2>2
<1>9. ListedTaskKept'
  <2>1. ASSUME NEW u \in Tasks, entry'[u] = "listed"
        PROVE  u \in ShardTokens(shardOf[u])'
    <3>1. ~IsFinished(u)'
      BY <2>1 DEF IsFinished
    <3>2. CASE u = t
      BY <1>2, <1>3, <3>1, <3>2 DEF CoreAt, ShardTokens, Occupants
    <3>3. CASE u # t
      <4>1. entry[u] = "listed" /\ ~IsFinished(u)
        BY <1>4, <2>1, <3>3 DEF IsFinished
      <4>2. PICK i \in DOMAIN shardSlots[shardOf[u]] : shardSlots[shardOf[u]][i] = u
        BY <4>1 DEF DeferredInv, ListedTaskKept, ShardTokens, Occupants
      <4>3. shardOf[u] \in Lanes /\ u # NoTask
        BY <1>3
      <4>4. i \in DOMAIN shardSlots'[shardOf[u]] /\ shardSlots'[shardOf[u]][i] = u
        <5>1. CASE shardOf[u] = l
          BY <1>2, <4>1, <4>2, <4>3, <5>1 DEF CoreAt
        <5>2. CASE shardOf[u] # l
          BY <1>1, <4>2, <4>3, <5>2
        <5> QED
          BY <5>1, <5>2
      <4> QED
        BY <1>3, <3>1, <4>4 DEF ShardTokens, Occupants
    <3> QED
      BY <3>2, <3>3
  <2>2. ASSUME NEW k \in Lanes, NEW i \in DOMAIN shardSlots'[k], NEW j \in DOMAIN shardSlots'[k],
               shardSlots'[k][i] = shardSlots'[k][j], shardSlots'[k][i] # NoTask
        PROVE  i = j
    <3>1. CASE k # l
      BY <1>1, <2>2, <3>1 DEF DeferredInv, ListedTaskKept
    <3>2. CASE k = l
      <4>1. \A q \in DOMAIN shardSlots'[l] : q # p /\ shardSlots'[l][q] # NoTask =>
              /\ q \in DOMAIN shardSlots[l] /\ shardSlots'[l][q] = shardSlots[l][q]
              /\ shardSlots'[l][q] # t
        BY <1>2, <1>6 DEF CoreAt
      <4>2. shardSlots'[l][p] = t
        BY <1>2 DEF CoreAt
      <4> QED
        BY <2>2, <3>2, <4>1, <4>2 DEF DeferredInv, ListedTaskKept
    <3> QED
      BY <3>1, <3>2
  <2>3. ASSUME NEW k \in Lanes
        PROVE  /\ \A i \in DOMAIN shardFree'[k] :
                    /\ shardFree'[k][i] \in DOMAIN shardSlots'[k]
                    /\ shardSlots'[k][shardFree'[k][i]] = NoTask
               /\ \A i, j \in DOMAIN shardFree'[k] : shardFree'[k][i] = shardFree'[k][j] => i = j
    <3>1. CASE k = l
      BY <1>2, <3>1 DEF CoreAt
    <3>2. CASE k # l
      BY <1>1, <3>2 DEF DeferredInv, ListedTaskKept
    <3> QED
      BY <3>1, <3>2
  <2> QED
    BY <2>1, <2>2, <2>3 DEF ListedTaskKept
<1>10. FreeSlotsListed'
  <2> SUFFICES ASSUME NEW k \in Lanes, NEW i \in DOMAIN shardSlots'[k], shardSlots'[k][i] = NoTask
               PROVE  \E j \in DOMAIN shardFree'[k] : shardFree'[k][j] = i
    BY DEF FreeSlotsListed
  <2>1. CASE k = l
    BY <1>2, <2>1 DEF CoreAt
  <2>2. CASE k # l
    BY <1>1, <2>2 DEF DeferredInv, FreeSlotsListed
  <2> QED
    BY <2>1, <2>2
<1> QED
  BY <1>1, <1>7, <1>8, <1>9, <1>10 DEF DeferredInv

(***************************************************************************)
(* The steps that leave the arrays alone, the increment, mark_finished and *)
(* the decrement, keep the invariant if the counts stay exact.             *)
(***************************************************************************)
LEMMA SlotsUntouched ==
  ASSUME DeferredInv, RegistryTypeOK', InFlightExact', UNCHANGED <<shardSlots, shardFree>>,
         \A u \in Tasks : /\ entry'[u] = "listed" => entry[u] = "listed"
                          /\ entry[u] \in {"listed", "finished", "left"} =>
                               /\ entry'[u] \in {"listed", "finished", "left"}
                               /\ shardOf'[u] = shardOf[u]
  PROVE  DeferredInv'
<1>1. \A k \in Lanes : \A i \in DOMAIN shardSlots[k] : shardSlots[k][i] \in Tasks \cup {NoTask}
  BY DEF DeferredInv, RegistryTypeOK
<1>2. OccupantsBelong'
  BY <1>1 DEF DeferredInv, OccupantsBelong
<1>3. \A u \in Tasks : entry'[u] = "listed" => u \in ShardTokens(shardOf[u])'
  BY DEF DeferredInv, ListedTaskKept, ShardTokens, Occupants, IsFinished
<1>4. ListedTaskKept'
  BY <1>3 DEF DeferredInv, ListedTaskKept
<1>5. FreeSlotsListed'
  BY DEF DeferredInv, FreeSlotsListed
<1> QED
  BY <1>2, <1>4, <1>5 DEF DeferredInv

(***************************************************************************)
(* insert's increment counts one task of one shard.                        *)
(***************************************************************************)
LEMMA CountInInv ==
  ASSUME DeferredInv, NEW l \in Lanes, NEW t \in Tasks, CountIn(l, t)
  PROVE  DeferredInv'
<1>1. /\ entry \in [Tasks -> EntryPoints] /\ shardOf \in [Tasks -> Lanes]
      /\ inFlight \in [Lanes -> Nat] /\ entry[t] = "out"
      /\ entry' = [entry EXCEPT ![t] = "counted"] /\ shardOf' = [shardOf EXCEPT ![t] = l]
      /\ inFlight' = [inFlight EXCEPT ![l] = @ + 1]
      /\ UNCHANGED <<shardSlots, shardFree>>
  BY DEF DeferredInv, RegistryTypeOK, CountIn
<1>2. RegistryTypeOK'
  BY <1>1 DEF DeferredInv, RegistryTypeOK, EntryPoints
<1>3. InFlightExact'
  <2>1. Counted(l)' = Counted(l) \cup {t} /\ t \notin Counted(l)
    BY <1>1 DEF Counted
  <2>2. \A k \in Lanes \ {l} : Counted(k)' = Counted(k)
    BY <1>1 DEF Counted
  <2>3. Cardinality(Counted(l)') = Cardinality(Counted(l)) + 1
    BY <2>1, CountedFinite, FS_AddElement
  <2> QED
    BY <1>1, <2>2, <2>3 DEF DeferredInv, InFlightExact
<1> QED
  BY <1>1, <1>2, <1>3, SlotsUntouched

(***************************************************************************)
(* mark_finished changes no count.                                         *)
(***************************************************************************)
LEMMA MarkFinishedInv ==
  ASSUME DeferredInv, NEW t \in Tasks, MarkFinished(t)
  PROVE  DeferredInv'
<1>1. /\ entry \in [Tasks -> EntryPoints] /\ entry[t] = "listed"
      /\ entry' = [entry EXCEPT ![t] = "finished"]
      /\ UNCHANGED <<inFlight, shardSlots, shardFree, shardOf>>
  BY DEF DeferredInv, RegistryTypeOK, MarkFinished
<1>2. RegistryTypeOK'
  BY <1>1 DEF DeferredInv, RegistryTypeOK, EntryPoints
<1>3. \A k \in Lanes : Counted(k)' = Counted(k)
  BY <1>1 DEF Counted
<1>4. InFlightExact'
  BY <1>1, <1>3 DEF DeferredInv, InFlightExact
<1> QED
  BY <1>1, <1>2, <1>4, SlotsUntouched

(***************************************************************************)
(* finish discounts a task that is still counted, so the counter does not  *)
(* fall below zero.                                                        *)
(***************************************************************************)
LEMMA CountOutInv ==
  ASSUME DeferredInv, NEW t \in Tasks, CountOut(t)
  PROVE  DeferredInv' /\ inFlight[shardOf[t]] > 0
<1>0. PICK l \in Lanes : l = shardOf[t]
  BY DEF DeferredInv, RegistryTypeOK
<1>1. /\ entry \in [Tasks -> EntryPoints] /\ shardOf \in [Tasks -> Lanes]
      /\ inFlight \in [Lanes -> Nat] /\ entry[t] = "finished"
      /\ entry' = [entry EXCEPT ![t] = "left"]
      /\ inFlight' = [inFlight EXCEPT ![l] = @ - 1]
      /\ UNCHANGED <<shardSlots, shardFree, shardOf>>
  BY <1>0 DEF DeferredInv, RegistryTypeOK, CountOut
<1>2. Counted(l)' = Counted(l) \ {t} /\ t \in Counted(l)
  BY <1>0, <1>1 DEF Counted
<1>3. \A k \in Lanes \ {l} : Counted(k)' = Counted(k)
  BY <1>0, <1>1 DEF Counted
<1>4. /\ Cardinality(Counted(l)') = Cardinality(Counted(l)) - 1
      /\ Cardinality(Counted(l)) \in Nat /\ Cardinality(Counted(l)') \in Nat
  <2>1. IsFiniteSet(Counted(l)) /\ Cardinality(Counted(l)) \in Nat
    BY <1>1, CountedFinite
  <2>2. IsFiniteSet(Counted(l)') /\ Cardinality(Counted(l)') = Cardinality(Counted(l)) - 1
    BY <1>2, <2>1, FS_RemoveElement
  <2> QED
    BY <2>1, <2>2, FS_CardinalityType
<1>5. inFlight[l] = Cardinality(Counted(l)) /\ inFlight[l] > 0
  BY <1>1, <1>4 DEF DeferredInv, InFlightExact
<1>6. InFlightExact'
  BY <1>1, <1>3, <1>4, <1>5 DEF DeferredInv, InFlightExact
<1>7. RegistryTypeOK'
  BY <1>1, <1>5 DEF DeferredInv, RegistryTypeOK, EntryPoints
<1> QED
  BY <1>0, <1>1, <1>5, <1>6, <1>7, SlotsUntouched

-----------------------------------------------------------------------------
(***************************************************************************)
(* Every step of the registry keeps the invariant.                         *)
(***************************************************************************)
LEMMA DeferredNextInv == DeferredInv /\ [DeferredNext]_registryVars => DeferredInv'
<1> SUFFICES ASSUME DeferredInv, [DeferredNext]_registryVars PROVE DeferredInv'
  OBVIOUS
<1>1. CASE UNCHANGED registryVars
  BY <1>1 DEF DeferredInv, RegistryTypeOK, InFlightExact, Counted, ListedTaskKept, ShardTokens,
              Occupants, IsFinished, OccupantsBelong, FreeSlotsListed, registryVars
<1>2. ASSUME NEW l \in Lanes, NEW t \in Tasks, CountIn(l, t)
      PROVE  DeferredInv'
  BY <1>2, CountInInv
<1>3. ASSUME NEW l \in Lanes, NEW t \in Tasks, InsertCore(l, t)
      PROVE  DeferredInv'
  BY <1>3, InsertCoreInv
<1>4. ASSUME NEW t \in Tasks, MarkFinished(t)
      PROVE  DeferredInv'
  BY <1>4, MarkFinishedInv
<1>5. ASSUME NEW t \in Tasks, CountOut(t)
      PROVE  DeferredInv'
  BY <1>5, CountOutInv
<1> QED
  BY <1>1, <1>2, <1>3, <1>4, <1>5 DEF DeferredNext

(***************************************************************************)
(* The invariant holds in every state of DeferredSpec.                     *)
(***************************************************************************)
THEOREM DeferredInvariant == DeferredSpec => []DeferredInv
<1>1. DeferredInit => DeferredInv
  BY DeferredInitInv
<1>2. DeferredInv /\ [DeferredNext]_registryVars => DeferredInv'
  BY DeferredNextInv
<1> QED
  BY <1>1, <1>2, PTL DEF DeferredSpec

(***************************************************************************)
(* insert, mark_finished and finish keep the registry well typed; in       *)
(* particular the counter is never decremented below zero.                 *)
(***************************************************************************)
THEOREM RegistryTypeCorrect == DeferredSpec => []RegistryTypeOK
<1>1. DeferredInv => RegistryTypeOK
  BY DEF DeferredInv
<1> QED
  BY <1>1, DeferredInvariant, PTL

(***************************************************************************)
(* A listed task that has not finished keeps its slot through every sweep  *)
(* and every insert (active.rs:68-75, 103-111).                            *)
(***************************************************************************)
THEOREM ListedTaskAlwaysKept == DeferredSpec => []ListedTaskKept
<1>1. DeferredInv => ListedTaskKept
  BY DEF DeferredInv
<1> QED
  BY <1>1, DeferredInvariant, PTL

-----------------------------------------------------------------------------
(***************************************************************************)
(* The refinement.  While some task of the shard is counted but not        *)
(* visible, the readers see fewer tasks than the count says: the slack     *)
(* that the abstract Join and Leave require.                               *)
(***************************************************************************)
LEMMA VisibleBelowCount ==
  ASSUME DeferredInv, NEW l \in Lanes, NEW t \in Counted(l), t \notin ShardTokens(l)
  PROVE  Cardinality(ShardTokens(l)) < inFlight[l]
<1>1. ShardTokens(l) \in SUBSET Counted(l)
  <2> SUFFICES ASSUME NEW u \in ShardTokens(l) PROVE u \in Counted(l)
    OBVIOUS
  <2>1. PICK i \in DOMAIN shardSlots[l] : shardSlots[l][i] = u
    BY DEF ShardTokens, Occupants
  <2>2. u \in Tasks /\ u # NoTask /\ ~IsFinished(u)
    BY TasksAssumption DEF ShardTokens, Occupants
  <2>3. shardOf[u] = l /\ entry[u] \in {"listed", "finished", "left"}
    BY <2>1, <2>2 DEF DeferredInv, OccupantsBelong
  <2> QED
    BY <2>2, <2>3 DEF Counted, IsFinished
<1>2. ShardTokens(l) # Counted(l)
  OBVIOUS
<1>3. IsFiniteSet(Counted(l)) /\ Cardinality(Counted(l)) \in Nat
  BY CountedFinite
<1>4. /\ IsFiniteSet(ShardTokens(l))
      /\ Cardinality(ShardTokens(l)) <= Cardinality(Counted(l))
      /\ Cardinality(ShardTokens(l)) # Cardinality(Counted(l))
  BY <1>1, <1>2, <1>3, FS_Subset
<1>5. Cardinality(ShardTokens(l)) \in Nat
  BY <1>4, FS_CardinalityType
<1> QED
  BY <1>3, <1>4, <1>5 DEF DeferredInv, InFlightExact

ShardView(l) == <<inFlight[l], ShardTokens(l), Retired(l)>>

(***************************************************************************)
(* Each step of the registry is, for every shard, a step of ActiveRegistry *)
(* or a stutter.                                                           *)
(***************************************************************************)
LEMMA ShardStep ==
  ASSUME DeferredInv, [DeferredNext]_registryVars, NEW k \in Lanes
  PROVE  Shard(k)!RegistryNext \/ UNCHANGED ShardView(k)
<1>0. /\ entry \in [Tasks -> EntryPoints] /\ shardOf \in [Tasks -> Lanes]
      /\ inFlight \in [Lanes -> Nat] /\ NoTask \notin Tasks
  BY TasksAssumption DEF DeferredInv, RegistryTypeOK
<1>1. CASE UNCHANGED registryVars
  BY <1>1 DEF ShardView, ShardTokens, Occupants, Retired, IsFinished, registryVars
<1>2. ASSUME NEW l \in Lanes, NEW t \in Tasks, CountIn(l, t)
      PROVE  Shard(k)!RegistryNext \/ UNCHANGED ShardView(k)
  <2>1. \A u \in Tasks : IsFinished(u)' <=> IsFinished(u)
    BY <1>0, <1>2 DEF CountIn, IsFinished
  <2>2. ShardTokens(k)' = ShardTokens(k)
    BY <1>2, <2>1 DEF CountIn, ShardTokens, Occupants
  <2>3. Retired(k)' = Retired(k)
    BY <1>0, <1>2, <2>1 DEF CountIn, Retired, IsFinished
  <2>4. CASE k = l
    <3>1. inFlight'[k] = inFlight[k] + 1
      BY <1>0, <1>2, <2>4 DEF CountIn
    <3>2. Shard(k)!Enter
      BY <2>2, <2>3, <3>1 DEF Shard!Enter
    <3> QED
      BY <3>2 DEF Shard!RegistryNext
  <2>5. CASE k # l
    BY <1>0, <1>2, <2>2, <2>3, <2>5 DEF CountIn, ShardView
  <2> QED
    BY <2>4, <2>5
<1>3. ASSUME NEW l \in Lanes, NEW t \in Tasks, InsertCore(l, t)
      PROVE  Shard(k)!RegistryNext \/ UNCHANGED ShardView(k)
  <2>1. /\ entry[t] = "counted" /\ shardOf[t] = l /\ entry' = [entry EXCEPT ![t] = "listed"]
        /\ inFlight' = inFlight /\ shardOf' = shardOf
    BY <1>3 DEF InsertCore
  <2>2. /\ \A u \in Tasks : IsFinished(u)' <=> IsFinished(u)
        /\ ~IsFinished(t)
    BY <1>0, <2>1 DEF IsFinished
  <2>3. Retired(k)' = Retired(k) /\ t \notin Retired(k)
    BY <2>1, <2>2 DEF Retired
  <2>4. CASE k # l
    <3>1. shardSlots'[k] = shardSlots[k]
      BY <1>3, <2>4, InsertedCore
    <3>2. ShardTokens(k)' = ShardTokens(k)
      BY <2>2, <3>1 DEF ShardTokens, Occupants
    <3> QED
      BY <2>1, <2>3, <3>2 DEF ShardView
  <2>5. CASE k = l
    <3>1. PICK p \in Nat \ {0} : CoreAt(l, t, p)
      BY <1>3, InsertedCore
    <3>2. t \notin Occupants(l)
      BY <1>0, <2>1 DEF DeferredInv, OccupantsBelong, Occupants
    <3>3. \A u \in Tasks : u \in ShardTokens(l)' <=> u \in ShardTokens(l) \cup {t}
      <4> TAKE u \in Tasks
      <4>1. CASE u = t
        BY <2>2, <3>1, <4>1 DEF CoreAt, ShardTokens, Occupants
      <4>2. CASE u # t
        <5>1. ASSUME u \in ShardTokens(l)' PROVE u \in ShardTokens(l)
          <6>1. PICK i \in DOMAIN shardSlots'[l] : shardSlots'[l][i] = u
            BY <5>1 DEF ShardTokens, Occupants
          <6>2. i \in DOMAIN shardSlots[l] /\ shardSlots[l][i] = u
            BY <1>0, <3>1, <4>2, <6>1 DEF CoreAt
          <6> QED
            BY <2>2, <5>1, <6>2 DEF ShardTokens, Occupants
        <5>2. ASSUME u \in ShardTokens(l) PROVE u \in ShardTokens(l)'
          <6>1. PICK i \in DOMAIN shardSlots[l] : shardSlots[l][i] = u
            BY <5>2 DEF ShardTokens, Occupants
          <6>2. ~IsFinished(u)
            BY <5>2 DEF ShardTokens
          <6>3. i \in DOMAIN shardSlots'[l] /\ shardSlots'[l][i] = u
            BY <1>0, <3>1, <6>1, <6>2 DEF CoreAt
          <6> QED
            BY <2>2, <6>2, <6>3 DEF ShardTokens, Occupants
        <5> QED
          BY <4>2, <5>1, <5>2
      <4> QED
        BY <4>1, <4>2
    <3>4. ShardTokens(k)' = ShardTokens(k) \cup {t}
      BY <2>5, <3>3 DEF ShardTokens, Occupants
    <3>5. t \notin ShardTokens(k) /\ t \in Counted(k)
      BY <2>1, <2>5, <3>2 DEF ShardTokens, Counted
    <3>6. Cardinality(ShardTokens(k)) < inFlight[k]
      BY <3>5, VisibleBelowCount
    <3>7. Shard(k)!Join(t)
      BY <2>1, <2>3, <3>4, <3>5, <3>6 DEF Shard!Join, Shard!Cardinality, Cardinality
    <3> QED
      BY <3>7 DEF Shard!RegistryNext
  <2> QED
    BY <2>4, <2>5
<1>4. ASSUME NEW t \in Tasks, MarkFinished(t)
      PROVE  Shard(k)!RegistryNext \/ UNCHANGED ShardView(k)
  <2>1. /\ entry[t] = "listed" /\ entry' = [entry EXCEPT ![t] = "finished"]
        /\ UNCHANGED <<inFlight, shardSlots, shardFree, shardOf>>
    BY <1>4 DEF MarkFinished
  <2>2. \A u \in Tasks : IsFinished(u)' <=> (IsFinished(u) \/ u = t)
    BY <1>0, <2>1 DEF IsFinished
  <2>3. ShardTokens(k)' = ShardTokens(k) \ {t}
    BY <2>1, <2>2 DEF ShardTokens, Occupants
  <2>4. CASE k = shardOf[t]
    <3>1. Retired(k)' = Retired(k) \cup {t}
      BY <2>1, <2>2, <2>4 DEF Retired
    <3>2. t \in ShardTokens(k)
      BY <2>1, <2>4 DEF DeferredInv, ListedTaskKept
    <3>3. Shard(k)!Retire(t)
      BY <2>1, <2>3, <3>1, <3>2 DEF Shard!Retire
    <3> QED
      BY <3>3 DEF Shard!RegistryNext
  <2>5. CASE k # shardOf[t]
    <3>1. Retired(k)' = Retired(k)
      BY <2>1, <2>2, <2>5 DEF Retired
    <3>2. t \notin ShardTokens(k)
      BY <1>0, <2>5 DEF DeferredInv, OccupantsBelong, ShardTokens, Occupants
    <3> QED
      BY <2>1, <2>3, <3>1, <3>2 DEF ShardView
  <2> QED
    BY <2>4, <2>5
<1>5. ASSUME NEW t \in Tasks, CountOut(t)
      PROVE  Shard(k)!RegistryNext \/ UNCHANGED ShardView(k)
  <2>1. /\ entry[t] = "finished" /\ entry' = [entry EXCEPT ![t] = "left"]
        /\ inFlight' = [inFlight EXCEPT ![shardOf[t]] = @ - 1]
        /\ UNCHANGED <<shardSlots, shardFree, shardOf>>
    BY <1>5 DEF CountOut
  <2>2. \A u \in Tasks : IsFinished(u)' <=> IsFinished(u)
    BY <1>0, <2>1 DEF IsFinished
  <2>3. ShardTokens(k)' = ShardTokens(k) /\ Retired(k)' = Retired(k)
    BY <2>1, <2>2 DEF ShardTokens, Occupants, Retired
  <2>4. CASE k = shardOf[t]
    <3>1. t \in Counted(k) /\ t \notin ShardTokens(k)
      BY <2>1, <2>4 DEF Counted, ShardTokens, IsFinished
    <3>2. Cardinality(ShardTokens(k)) < inFlight[k]
      BY <3>1, VisibleBelowCount
    <3>3. inFlight'[k] = inFlight[k] - 1
      BY <1>0, <2>1, <2>4
    <3>4. Shard(k)!Leave
      BY <2>3, <3>2, <3>3 DEF Shard!Leave, Shard!Cardinality, Cardinality
    <3> QED
      BY <3>4 DEF Shard!RegistryNext
  <2>5. CASE k # shardOf[t]
    BY <1>0, <2>1, <2>3, <2>5 DEF ShardView
  <2> QED
    BY <2>4, <2>5
<1> QED
  BY <1>1, <1>2, <1>3, <1>4, <1>5 DEF DeferredNext

(***************************************************************************)
(* Each shard of the deferred registry implements ActiveRegistry: readers  *)
(* of all_tokens and of the counter (active.rs:118-142) see a set of       *)
(* active tasks that a task joins and leaves once, never larger than the   *)
(* count, although finished cores linger in the array.                     *)
(***************************************************************************)
THEOREM RegistryRefinement == DeferredSpec => ImplementsRegistry
<1>1. DeferredInit => \A l \in Lanes : Shard(l)!RegistryInit
  BY DEF DeferredInit, Shard!RegistryInit, ShardTokens, Occupants, Retired, IsFinished
<1>2. DeferredInv /\ [DeferredNext]_registryVars =>
        [\A l \in Lanes : [Shard(l)!RegistryNext]_<<inFlight[l], ShardTokens(l), Retired(l)>>
        ]_registryVars
  BY ShardStep DEF ShardView
<1> QED
  BY <1>1, <1>2, DeferredInvariant, PTL DEF DeferredSpec, ImplementsRegistry
=============================================================================
