--------------------------- MODULE DeferredRegistry ---------------------------
(***************************************************************************)
(* The relaxed pool's registry, one DeferredRegistry per lane: an atomic   *)
(* count of tasks in flight and a slot array from which nobody removes.  A *)
(* finishing task sets its core's finished flag and decrements the count;  *)
(* an inserter that finds the free list empty reclaims the finished slots. *)
(* Slot indices start at 1.                                                *)
(*                                                                         *)
(* In the module's own specification (DeferredSpec) tasks come and go at   *)
(* any time; each TaskCore is inserted once.                               *)
(***************************************************************************)
EXTENDS PoolParameters, Sequences

CONSTANT Dispatchers   \* dispatchers argument of FuturePoolManagerRlxd::new

ASSUME DispatchersAssumption == Dispatchers \in Nat

\* dispatchers.max(1)
LaneCount == IF Dispatchers = 0 THEN 1 ELSE Dispatchers

Lanes == 0..(LaneCount - 1)

VARIABLES
  inFlight,    \* the atomic counter of each shard
  shardSlots,  \* its slot array
  shardFree,   \* its stack of free indices, the last element on top
  entry,       \* where each task is; its core's finished flag is set from
               \* "finished" on
  shardOf      \* the shard a task was counted in

registryVars == <<inFlight, shardSlots, shardFree, entry, shardOf>>

EntryPoints == {"out", "counted", "listed", "finished", "left"}
IsFinished(t) == entry[t] \in {"finished", "left"}

RegistryTypeOK ==
  /\ inFlight \in [Lanes -> Nat]
  /\ shardSlots \in [Lanes -> Seq(Tasks \cup {NoTask})]
  /\ shardFree \in [Lanes -> Seq(Nat \ {0})]
  /\ entry \in [Tasks -> EntryPoints]
  /\ shardOf \in [Tasks -> Lanes]

DeferredInit ==
  /\ inFlight = [l \in Lanes |-> 0]
  /\ shardSlots = [l \in Lanes |-> <<>>]
  /\ shardFree = [l \in Lanes |-> <<>>]
  /\ entry = [t \in Tasks |-> "out"]
  /\ shardOf = [t \in Tasks |-> 0]

-----------------------------------------------------------------------------
\* insert, first part: the atomic increment.
CountIn(l, t) ==
  /\ entry[t] = "out"
  /\ entry' = [entry EXCEPT ![t] = "counted"]
  /\ shardOf' = [shardOf EXCEPT ![t] = l]
  /\ inFlight' = [inFlight EXCEPT ![l] = @ + 1]
  /\ UNCHANGED <<shardSlots, shardFree>>

Reclaimable(l) ==
  {i \in DOMAIN shardSlots[l] : shardSlots[l][i] # NoTask /\ IsFinished(shardSlots[l][i])}

\* The indices of a set in the order a pass over the array meets them.
InOrder(S) ==
  {q \in [1..Cardinality(S) -> S] :
     /\ \A i, j \in DOMAIN q : i < j => q[i] < q[j]
     /\ \A k \in S : \E i \in DOMAIN q : q[i] = k}

\* Mutant: the array is extended although finished slots could be reclaimed.
SweepFinishedNever(l) == {<<>>}

\* sweep_finished, called when the free list is empty: the indices it pushes.
SweepFinished(l) == IF shardFree[l] = <<>> THEN InOrder(Reclaimable(l)) ELSE {<<>>}

\* Mutant: the index is read off the stack and left there.
PoppedNot(stack) == stack

\* The free list after its top has been taken.
Popped(stack) == SubSeq(stack, 1, Len(stack) - 1)

\* Second part, under the write lock: sweep, then ActiveSlots::insert.
InsertCore(l, t) ==
  /\ entry[t] = "counted"
  /\ shardOf[t] = l
  /\ entry' = [entry EXCEPT ![t] = "listed"]
  /\ \E swept \in SweepFinished(l) :
       LET open == shardFree[l] \o swept
           kept == [i \in DOMAIN shardSlots[l] |->
                      IF \E k \in DOMAIN swept : swept[k] = i THEN NoTask
                      ELSE shardSlots[l][i]]
       IN  IF open = <<>>
           THEN /\ shardSlots' = [shardSlots EXCEPT ![l] = Append(kept, t)]
                /\ UNCHANGED shardFree
           ELSE /\ shardSlots' = [shardSlots EXCEPT ![l] =
                                    [kept EXCEPT ![open[Len(open)]] = t]]
                /\ shardFree' = [shardFree EXCEPT ![l] = Popped(open)]
  /\ UNCHANGED <<inFlight, shardOf>>

\* TaskCore::mark_finished.
MarkFinished(t) ==
  /\ entry[t] = "listed"
  /\ entry' = [entry EXCEPT ![t] = "finished"]
  /\ UNCHANGED <<inFlight, shardSlots, shardFree, shardOf>>

\* finish: the atomic decrement.
CountOut(t) ==
  /\ entry[t] = "finished"
  /\ entry' = [entry EXCEPT ![t] = "left"]
  /\ inFlight' = [inFlight EXCEPT ![shardOf[t]] = @ - 1]
  /\ UNCHANGED <<shardSlots, shardFree, shardOf>>

Occupants(l) == {t \in Tasks : \E i \in DOMAIN shardSlots[l] : shardSlots[l][i] = t}

\* Mutant: finished entries are not skipped.
ShardTokensAll(l) == Occupants(l)

\* all_tokens; tokens_matching also filters by label.
ShardTokens(l) == {t \in Occupants(l) : ~IsFinished(t)}

ShardTokensMatching(l, labels) == {t \in ShardTokens(l) : TaskLabels[t] \cap labels # {}}

DeferredNext ==
  \E t \in Tasks :
    \/ \E l \in Lanes : CountIn(l, t) \/ InsertCore(l, t)
    \/ MarkFinished(t)
    \/ CountOut(t)

DeferredSpec == DeferredInit /\ [][DeferredNext]_registryVars

-----------------------------------------------------------------------------
Counted(l) ==
  {t \in Tasks : shardOf[t] = l /\ entry[t] \in {"counted", "listed", "finished"}}

(***************************************************************************)
(* The counter shutdown waits on is the number of tasks between their      *)
(* increment and their decrement.                                          *)
(***************************************************************************)
InFlightExact == \A l \in Lanes : inFlight[l] = Cardinality(Counted(l))

(***************************************************************************)
(* A task that is listed and not finished is in one slot of its own shard  *)
(* and that slot is not free: no sweep and no insert into a recycled index *)
(* ever loses a running task, which could then not be cancelled.           *)
(***************************************************************************)
ListedTaskKept ==
  /\ \A t \in Tasks : entry[t] = "listed" => t \in ShardTokens(shardOf[t])
  /\ \A l \in Lanes :
       /\ \A i, j \in DOMAIN shardSlots[l] :
            shardSlots[l][i] = shardSlots[l][j] /\ shardSlots[l][i] # NoTask => i = j
       /\ \A i \in DOMAIN shardFree[l] :
            shardFree[l][i] \in DOMAIN shardSlots[l] /\ shardSlots[l][shardFree[l][i]] = NoTask
       /\ \A i, j \in DOMAIN shardFree[l] : shardFree[l][i] = shardFree[l][j] => i = j

(***************************************************************************)
(* Each shard implements the registry its readers rely on: the count       *)
(* covers every task they can find, a sweep is invisible to them, and a    *)
(* finished task never comes back although its core may stay in its slot.  *)
(***************************************************************************)
Retired(l) == {t \in Tasks : shardOf[t] = l /\ IsFinished(t)}

Shard(l) == INSTANCE ActiveRegistry WITH
  count <- inFlight[l],
  active <- ShardTokens(l),
  retired <- Retired(l)

ImplementsRegistry ==
  /\ \A l \in Lanes : Shard(l)!RegistryInit
  /\ [][\A l \in Lanes :
         [Shard(l)!RegistryNext]_<<inFlight[l], ShardTokens(l), Retired(l)>>]_registryVars
=============================================================================
