----------------------- MODULE InstanceManagerProofs ------------------------
(***************************************************************************)
(* Safety of InstanceManager for any finite set of create calls, any set   *)
(* of destroy calls and any limit.                                         *)
(***************************************************************************)
EXTENDS InstanceManager, FiniteSetTheorems, TLAPS

\* A listed id is one whose create reached its insert.
ListedPcs ==
  \A i \in Creates : status[i] # "absent" => cpc[i] \in {"listed", "accepted", "leaked"}

\* The mutex: one call at a time is between the read and the reservation.
OneCounting ==
  \A b, c \in Creates : cpc[b] = "counting" /\ cpc[c] = "counting" => b = c

\* What the stale `current` still guarantees: with the counter, which cannot
\* move while the mutex is held, it covers every slot that is taken.
SeenCovers ==
  \A c \in Creates : cpc[c] = "counting" => Cardinality(Occupied) <= seen[c] + pending

\* The inductive strengthening of CapacityBound.
CapacityInv ==
  /\ TypeOK
  /\ ReservationAccounting
  /\ CapacityBound
  /\ ListedPcs
  /\ OneCounting
  /\ SeenCovers

\* What every step does to the slots: a reservation takes one, nothing else
\* takes any.
TakesNoSlot ==
  /\ Counted' = Counted
  /\ Occupied' \subseteq Occupied
  /\ pending' = pending
  /\ \A c \in Creates : cpc'[c] = "counting" => cpc[c] = "counting" /\ seen'[c] = seen[c]

-----------------------------------------------------------------------------
LEMMA SlotSetsFinite ==
  ASSUME NEW S \in SUBSET Creates
  PROVE  IsFiniteSet(S) /\ Cardinality(S) \in Nat
BY CreatesAssumption, FS_Subset, FS_CardinalityType

\* Every action keeps the type invariant; only GiveBack needs the accounting,
\* for a counter that is at least 1 when it is lowered.
LEMMA TypeStep ==
  ASSUME TypeOK, ReservationAccounting, [Next]_vars
  PROVE  TypeOK'
<1> USE DEF TypeOK, createVars, workerVars, sweepVars, healthVars, Goto, SweepGoto
<1>1. ASSUME NEW c \in Creates, CreateStep(c) \/ AbandonCreate(c) PROVE TypeOK'
  <2> USE DEF CreatePcs, CountedPcs, HoldingPcs, SettledPcs, Statuses, ProcStates, LiveStates
  <2>1. CASE CountInstances(c)
    BY <2>1, SlotSetsFinite DEF CountInstances, Instances
  <2>2. CASE Reserve(c)
    BY <2>2 DEF Reserve
  <2>3. CASE Refuse(c)
    BY <2>3 DEF Refuse
  <2>4. CASE Spawn(c)
    BY <2>4 DEF Spawn
  <2>5. CASE SpawnFails(c)
    BY <2>5 DEF SpawnFails
  <2>6. CASE AdoptChild(c)
    BY <2>6 DEF AdoptChild
  <2>7. CASE SocketTimeout(c)
    BY <2>7 DEF SocketTimeout
  <2>8. CASE List(c)
    BY <2>8 DEF List
  <2>9. CASE GiveBack(c)
    <3>1. c \in Counted
      BY <2>9 DEF GiveBack, Counted
    <3>2. pending # 0
      BY <3>1, SlotSetsFinite, FS_EmptySet DEF ReservationAccounting, Counted
    <3>3. QED
      BY <2>9, <3>2 DEF GiveBack
  <2>10. CASE AbandonCreate(c)
    BY <2>10 DEF AbandonCreate
  <2>11. QED
    BY <1>1, <2>1, <2>2, <2>3, <2>4, <2>5, <2>6, <2>7, <2>8, <2>9, <2>10 DEF CreateStep
<1>2. ASSUME NEW d \in Sweeps,
             \/ \E i \in Creates : BeginDestroy(d, i)
             \/ BeginDestroyAll(d) \/ BeginReconstruct(d)
             \/ SweepStep(d) \/ AbandonDestroy(d)
      PROVE TypeOK'
  <2> USE DEF SweepPcs, SweepKinds, ProcStates, LiveStates
  <2>1. CASE \E i \in Creates : BeginDestroy(d, i)
    BY <2>1 DEF BeginDestroy, Begin
  <2>2. CASE BeginDestroyAll(d)
    BY <2>2 DEF BeginDestroyAll, Begin, Instances
  <2>3. CASE BeginReconstruct(d)
    BY <2>3 DEF BeginReconstruct, Begin
  <2>4. CASE \E i \in Creates : Pick(d, i)
    BY <2>4 DEF Pick
  <2>5. CASE TakeChild(d)
    BY <2>5 DEF TakeChild, Signalled
  <2>6. CASE Kill(d)
    BY <2>6 DEF Kill
  <2>7. CASE Reap(d)
    BY <2>7 DEF Reap
  <2>8. CASE Unlist(d)
    BY <2>8 DEF Unlist, Statuses
  <2>9. CASE Finish(d)
    BY <2>9 DEF Finish, Statuses
  <2>10. CASE AbandonDestroy(d)
    BY <2>10 DEF AbandonDestroy
  <2>11. QED
    BY <1>2, <2>1, <2>2, <2>3, <2>4, <2>5, <2>6, <2>7, <2>8, <2>9, <2>10 DEF SweepStep
<1>3. CASE HealthStep \/ StopHealth \/ CleanupSockets
  BY <1>3 DEF HealthStep, HealthSnapshot, Inspect, MarkError, MarkedError, Statuses,
              StopHealth, CleanupSockets
<1>4. ASSUME NEW i \in Creates, WorkerBinds(i) \/ WorkerExits(i) PROVE TypeOK'
  BY <1>4 DEF WorkerBinds, WorkerExits, ProcStates, LiveStates
<1>5. CASE UNCHANGED vars
  BY <1>5 DEF vars
<1>6. QED
  BY <1>1, <1>2, <1>3, <1>4, <1>5 DEF Next

LEMMA QuietStep ==
  ASSUME CapacityInv, TypeOK', ListedPcs', TakesNoSlot
  PROVE  CapacityInv'
<1> USE DEF CapacityInv, TakesNoSlot
<1>1. Occupied \in SUBSET Creates
  BY DEF Occupied
<1>2. /\ IsFiniteSet(Occupied) /\ Cardinality(Occupied) \in Nat
      /\ Cardinality(Occupied') \in Nat
      /\ Cardinality(Occupied') <= Cardinality(Occupied)
  BY <1>1, SlotSetsFinite, FS_Subset
<1>3. ReservationAccounting'
  BY DEF ReservationAccounting
<1>4. CapacityBound'
  BY <1>2, MaxAssumption DEF CapacityBound
<1>5. OneCounting'
  BY DEF OneCounting
<1>6. SeenCovers'
  BY <1>2 DEF SeenCovers, TypeOK
<1>7. QED
  BY <1>3, <1>4, <1>5, <1>6

\* Every action but the three that read the registry's length, take a slot or
\* lower the counter.
LEMMA QuietActions ==
  ASSUME CapacityInv, TypeOK',
         \/ \E c \in Creates : \/ Refuse(c) \/ Spawn(c) \/ SpawnFails(c) \/ AdoptChild(c)
                               \/ SocketTimeout(c) \/ List(c) \/ AbandonCreate(c)
         \/ \E d \in Sweeps : \/ \E i \in Creates : BeginDestroy(d, i)
                              \/ BeginDestroyAll(d) \/ BeginReconstruct(d)
                              \/ SweepStep(d) \/ AbandonDestroy(d)
         \/ HealthStep \/ StopHealth \/ CleanupSockets
         \/ \E i \in Creates : WorkerBinds(i) \/ WorkerExits(i)
         \/ UNCHANGED vars
  PROVE  TakesNoSlot /\ ListedPcs'
<1> USE DEF CapacityInv, TypeOK, TakesNoSlot, ListedPcs, Counted, Occupied,
            HoldingPcs, CountedPcs, createVars, Goto
<1>1. ASSUME NEW c \in Creates,
             \/ Refuse(c) \/ Spawn(c) \/ SpawnFails(c) \/ AdoptChild(c)
             \/ SocketTimeout(c) \/ List(c) \/ AbandonCreate(c)
      PROVE  TakesNoSlot /\ ListedPcs'
  <2>1. CASE Refuse(c)
    BY <2>1 DEF Refuse
  <2>2. CASE Spawn(c)
    BY <2>2 DEF Spawn
  <2>3. CASE SpawnFails(c)
    BY <2>3 DEF SpawnFails
  <2>4. CASE AdoptChild(c)
    BY <2>4 DEF AdoptChild
  <2>5. CASE SocketTimeout(c)
    BY <2>5 DEF SocketTimeout
  <2>6. CASE List(c)
    BY <2>6 DEF List
  <2>7. CASE AbandonCreate(c)
    BY <2>7 DEF AbandonCreate
  <2>8. QED
    BY <1>1, <2>1, <2>2, <2>3, <2>4, <2>5, <2>6, <2>7
<1>2. ASSUME UNCHANGED createVars,
             \A i \in Creates : status'[i] # "absent" => status[i] # "absent"
      PROVE  TakesNoSlot /\ ListedPcs'
  BY <1>2
<1>3. ASSUME NEW d \in Sweeps,
             \/ \E i \in Creates : BeginDestroy(d, i)
             \/ BeginDestroyAll(d) \/ BeginReconstruct(d)
             \/ SweepStep(d) \/ AbandonDestroy(d)
      PROVE  TakesNoSlot /\ ListedPcs'
  BY <1>2, <1>3 DEF BeginDestroy, BeginDestroyAll, BeginReconstruct, Begin, SweepStep, Pick,
     TakeChild, Kill, Reap, Unlist, Finish, AbandonDestroy
<1>4. CASE HealthStep \/ StopHealth \/ CleanupSockets
  BY <1>2, <1>4 DEF HealthStep, HealthSnapshot, Inspect, MarkError, MarkedError,
     StopHealth, CleanupSockets
<1>5. ASSUME NEW i \in Creates, WorkerBinds(i) \/ WorkerExits(i)
      PROVE  TakesNoSlot /\ ListedPcs'
  BY <1>2, <1>5 DEF WorkerBinds, WorkerExits
<1>6. CASE UNCHANGED vars
  BY <1>6 DEF vars
<1>7. QED
  BY <1>1, <1>3, <1>4, <1>5, <1>6

\* Reading the length under the mutex: with the counter it covers all slots.
LEMMA CountStep ==
  ASSUME CapacityInv, TypeOK', NEW c \in Creates, CountInstances(c)
  PROVE  CapacityInv'
<1> USE DEF CapacityInv, CountInstances, Goto
<1>1. /\ Counted' = Counted /\ Occupied' = Occupied /\ Instances' = Instances
      /\ pending' = pending
  BY DEF TypeOK, Counted, Occupied, Instances, HoldingPcs, CountedPcs
<1>2. /\ Instances \in SUBSET Creates /\ Counted \in SUBSET Creates
      /\ Occupied \in SUBSET Creates /\ Holding \in SUBSET Creates
      /\ Occupied = Instances \cup Holding /\ Holding \subseteq Counted
  BY DEF Counted, Occupied, Instances, Holding, CountedPcs
<1>3. Cardinality(Occupied) <= Cardinality(Instances) + Cardinality(Counted)
  <2>1. Cardinality(Holding) <= Cardinality(Counted)
    BY <1>2, SlotSetsFinite, FS_Subset
  <2>2. Cardinality(Occupied) =
          Cardinality(Instances) + Cardinality(Holding) - Cardinality(Instances \cap Holding)
    BY <1>2, SlotSetsFinite, FS_Union
  <2>3. Cardinality(Instances \cap Holding) \in Nat
    BY <1>2, SlotSetsFinite
  <2>4. QED
    BY <1>2, <2>1, <2>2, <2>3, SlotSetsFinite
<1>4. SeenCovers'
  BY <1>1, <1>3 DEF SeenCovers, MutexFree, ReservationAccounting, TypeOK
<1>5. ReservationAccounting' /\ CapacityBound'
  BY <1>1 DEF ReservationAccounting, CapacityBound
<1>6. ListedPcs' /\ OneCounting'
  BY DEF ListedPcs, OneCounting, MutexFree, TypeOK
<1>7. QED
  BY <1>4, <1>5, <1>6

\* The reservation: the comparison with the stale length leaves room for one.
LEMMA ReserveStep ==
  ASSUME CapacityInv, TypeOK', NEW c \in Creates, Reserve(c)
  PROVE  CapacityInv' /\ Cardinality(Occupied) < MaxInstances /\ c \notin Occupied
<1> USE DEF CapacityInv, Reserve, HasRoom, Goto
<1>1. c \notin Counted /\ c \notin Occupied
  BY DEF Counted, Occupied, CountedPcs, HoldingPcs, ListedPcs
<1>2. Counted' = Counted \cup {c} /\ Occupied' = Occupied \cup {c}
  BY DEF TypeOK, Counted, Occupied, CountedPcs, HoldingPcs
<1>3. Counted \in SUBSET Creates /\ Occupied \in SUBSET Creates
  BY DEF Counted, Occupied
<1>4. /\ Cardinality(Counted') = Cardinality(Counted) + 1
      /\ Cardinality(Occupied') = Cardinality(Occupied) + 1
  BY <1>1, <1>2, <1>3, SlotSetsFinite, FS_AddElement
<1>5. Cardinality(Occupied) \in Nat /\ Cardinality(Occupied) < MaxInstances
  BY <1>3, SlotSetsFinite, MaxAssumption DEF SeenCovers, TypeOK
<1>6. ReservationAccounting' /\ CapacityBound'
  BY <1>4, <1>5, MaxAssumption DEF ReservationAccounting, CapacityBound, TypeOK
<1>7. \A b \in Creates : cpc'[b] # "counting"
  BY DEF OneCounting, TypeOK
<1>8. ListedPcs' /\ OneCounting' /\ SeenCovers'
  BY <1>7 DEF ListedPcs, OneCounting, SeenCovers, TypeOK
<1>9. QED
  BY <1>1, <1>5, <1>6, <1>8

\* The decrement: it needs the mutex, so no stale length is in use.
LEMMA GiveBackStep ==
  ASSUME CapacityInv, TypeOK', NEW c \in Creates, GiveBack(c)
  PROVE  CapacityInv' /\ Occupied' = Occupied
<1> USE DEF CapacityInv, GiveBack, Goto
<1>1. c \in Counted /\ Counted' = Counted \ {c} /\ Occupied' = Occupied
  BY DEF TypeOK, Counted, Occupied, CountedPcs, HoldingPcs
<1>2. Cardinality(Counted') = Cardinality(Counted) - 1
  BY <1>1, SlotSetsFinite, FS_RemoveElement DEF Counted
<1>3. ReservationAccounting' /\ CapacityBound'
  BY <1>1, <1>2 DEF ReservationAccounting, CapacityBound
<1>4. \A b \in Creates : cpc'[b] # "counting"
  BY DEF MutexFree, TypeOK
<1>5. ListedPcs' /\ OneCounting' /\ SeenCovers'
  BY <1>4 DEF ListedPcs, OneCounting, SeenCovers, TypeOK
<1>6. QED
  BY <1>1, <1>3, <1>5

LEMMA CapacityStep ==
  ASSUME CapacityInv, [Next]_vars
  PROVE  CapacityInv'
<1>1. TypeOK'
  BY TypeStep DEF CapacityInv
<1>2. CASE \E c \in Creates : CountInstances(c)
  BY <1>1, <1>2, CountStep
<1>3. CASE \E c \in Creates : Reserve(c)
  BY <1>1, <1>3, ReserveStep
<1>4. CASE \E c \in Creates : GiveBack(c)
  BY <1>1, <1>4, GiveBackStep
<1>5. QED
  BY <1>1, <1>2, <1>3, <1>4, QuietActions, QuietStep DEF Next, CreateStep

LEMMA CapacityInit == Init => CapacityInv
<1> SUFFICES ASSUME Init PROVE CapacityInv
  OBVIOUS
<1> USE DEF Init
<1>1. TypeOK
  BY DEF TypeOK, CreatePcs, Statuses, ProcStates, SweepKinds, SweepPcs
<1>2. Counted = {} /\ Occupied = {}
  BY DEF Counted, Occupied, CountedPcs, HoldingPcs
<1>3. ReservationAccounting /\ CapacityBound
  BY <1>2, FS_EmptySet, MaxAssumption DEF ReservationAccounting, CapacityBound
<1>4. QED
  BY <1>1, <1>3 DEF CapacityInv, ListedPcs, OneCounting, SeenCovers

LEMMA CapacityInvariant == Spec => []CapacityInv
BY CapacityInit, CapacityStep, PTL DEF Spec

\* The registry and the creates that own a slot never exceed max_instances, for
\* any number of concurrent creates, destroys and dropped requests.
THEOREM CapacitySafe == Spec => []CapacityBound
BY CapacityInvariant, PTL DEF CapacityInv

\* The reservation counter is never off: it is the number of create calls that
\* reserved and have not given back.
THEOREM CounterExact == Spec => []ReservationAccounting
BY CapacityInvariant, PTL DEF CapacityInv

\* Every variable keeps its type; in particular pending_creates (a usize) never
\* goes below zero.
THEOREM TypeCorrect == Spec => []TypeOK
BY CapacityInvariant, PTL DEF CapacityInv

-----------------------------------------------------------------------------
(* Worker processes                                                         *)

WorkersInv == ListedWorkerManaged /\ OrphansComeFromFailedCreates

LEMMA WorkersStep ==
  ASSUME CapacityInv, WorkersInv, [Next]_vars
  PROVE  WorkersInv'
<1> USE DEF CapacityInv, WorkersInv, ListedWorkerManaged, OrphansComeFromFailedCreates,
            TypeOK, Instances, LiveStates, Goto, SweepGoto, createVars, workerVars
<1>1. ASSUME NEW c \in Creates, CreateStep(c) \/ AbandonCreate(c) PROVE WorkersInv'
  <2>1. CASE CountInstances(c)
    BY <2>1 DEF CountInstances
  <2>2. CASE Reserve(c) \/ Refuse(c)
    BY <2>2 DEF Reserve, Refuse
  <2>3. CASE Spawn(c)
    BY <2>3 DEF Spawn, ListedPcs
  <2>4. CASE SpawnFails(c) \/ SocketTimeout(c)
    BY <2>4 DEF SpawnFails, SocketTimeout
  <2>5. CASE AdoptChild(c)
    BY <2>5 DEF AdoptChild
  <2>6. CASE List(c)
    BY <2>6 DEF List
  <2>7. CASE GiveBack(c)
    BY <2>7 DEF GiveBack
  <2>8. CASE AbandonCreate(c)
    BY <2>8 DEF AbandonCreate
  <2>9. QED
    BY <1>1, <2>1, <2>2, <2>3, <2>4, <2>5, <2>6, <2>7, <2>8 DEF CreateStep
<1>2. ASSUME NEW d \in Sweeps,
             \/ \E i \in Creates : BeginDestroy(d, i)
             \/ BeginDestroyAll(d) \/ BeginReconstruct(d)
             \/ SweepStep(d) \/ AbandonDestroy(d)
      PROVE WorkersInv'
  <2>1. CASE \/ \E i \in Creates : BeginDestroy(d, i) \/ Pick(d, i)
             \/ BeginDestroyAll(d) \/ BeginReconstruct(d) \/ AbandonDestroy(d)
    BY <2>1 DEF BeginDestroy, BeginDestroyAll, BeginReconstruct, Begin, Pick, AbandonDestroy
  <2>2. CASE TakeChild(d)
    BY <2>2 DEF TakeChild, Signalled
  <2>3. CASE Kill(d)
    BY <2>3 DEF Kill
  <2>4. CASE Reap(d)
    BY <2>4 DEF Reap
  <2>5. CASE Unlist(d) \/ Finish(d)
    BY <2>5 DEF Unlist, Finish
  <2>6. QED
    BY <1>2, <2>1, <2>2, <2>3, <2>4, <2>5 DEF SweepStep
<1>3. CASE HealthStep \/ StopHealth \/ CleanupSockets
  BY <1>3 DEF HealthStep, HealthSnapshot, Inspect, MarkError, MarkedError,
              StopHealth, CleanupSockets
<1>4. ASSUME NEW i \in Creates, WorkerBinds(i) \/ WorkerExits(i) PROVE WorkersInv'
  BY <1>4 DEF WorkerBinds, WorkerExits
<1>5. CASE UNCHANGED vars
  BY <1>5 DEF vars
<1>6. QED
  BY <1>1, <1>2, <1>3, <1>4, <1>5 DEF Next

LEMMA WorkersInvariant == Spec => []WorkersInv
<1>1. Init => WorkersInv
  BY DEF Init, WorkersInv, ListedWorkerManaged, OrphansComeFromFailedCreates, Instances,
         LiveStates
<1>2. QED
  BY <1>1, WorkersStep, CapacityInvariant, PTL DEF Spec

\* Whatever destroys overlap or are interrupted, a listed worker without a
\* process handle has been told to stop.
THEOREM ListedWorkersManaged == Spec => []ListedWorkerManaged
BY WorkersInvariant, PTL DEF WorkersInv

\* A running worker that no handle reaches is the worker of a create that did
\* not succeed: a successful create is never orphaned.
THEOREM OrphansExplained == Spec => []OrphansComeFromFailedCreates
BY WorkersInvariant, PTL DEF WorkersInv

\* Late health verdicts and destroys never bring an instance back.
THEOREM NeverResurrected == Spec => NoResurrection
<1> DEFINE ListsOnce == \A i \in Creates : status[i] = "absent" /\ status'[i] # "absent"
                                           => cpc[i] = "built" /\ cpc'[i] = "listed"
<1>1. ASSUME CapacityInv, [Next]_vars PROVE [ListsOnce]_vars
  <2> USE DEF CapacityInv, TypeOK, Goto, createVars
  <2>1. ASSUME NEW c \in Creates, CreateStep(c) \/ AbandonCreate(c) PROVE ListsOnce
    BY <1>1, <2>1 DEF CreateStep, CountInstances, Reserve, Refuse, Spawn, SpawnFails, AdoptChild,
                SocketTimeout, List, GiveBack, AbandonCreate
  <2>2. ASSUME NEW d \in Sweeps,
               \/ \E i \in Creates : BeginDestroy(d, i)
               \/ BeginDestroyAll(d) \/ BeginReconstruct(d)
               \/ SweepStep(d) \/ AbandonDestroy(d)
        PROVE ListsOnce
    BY <2>2 DEF BeginDestroy, BeginDestroyAll, BeginReconstruct, Begin, SweepStep, Pick,
                TakeChild, Kill, Reap, Unlist, Finish, AbandonDestroy
  <2>3. CASE HealthStep \/ StopHealth \/ CleanupSockets
    BY <2>3 DEF HealthStep, HealthSnapshot, Inspect, MarkError, MarkedError,
                StopHealth, CleanupSockets
  <2>4. ASSUME NEW i \in Creates, WorkerBinds(i) \/ WorkerExits(i) PROVE ListsOnce
    BY <2>4 DEF WorkerBinds, WorkerExits
  <2>5. QED
    BY <1>1, <2>1, <2>2, <2>3, <2>4 DEF Next
<1>2. QED
  BY <1>1, CapacityInvariant, PTL DEF Spec, NoResurrection

-----------------------------------------------------------------------------
(* Refinement                                                               *)

\* Every step of the manager is a step of the bounded pool, or leaves the pool
\* as it is: the mutex and the counter implement the pool's guard.
THEOREM PoolRefinement == Spec => ImplementsPool
<1>1. Init => Pool!Init
  BY DEF Init, Pool!Init, Holding, Instances, HoldingPcs
<1>2. ASSUME CapacityInv, [Next]_vars PROVE [Pool!Next]_<<Holding, Instances>>
  <2> USE DEF CapacityInv, TypeOK, Holding, Instances, HoldingPcs, Goto, createVars
  <2>1. ASSUME NEW c \in Creates, Reserve(c) PROVE Pool!Reserve(c)
    <3>1. Cardinality(Occupied) < MaxInstances /\ c \notin Occupied
      BY <1>2, <2>1, TypeStep, ReserveStep
    <3>2. Occupied = Holding \cup Instances
      BY DEF Occupied
    <3>3. Holding' = Holding \cup {c} /\ Instances' = Instances
      BY <1>2, <2>1 DEF Reserve
    <3>4. /\ Cardinality(Holding \cup Instances) < MaxInstances
          /\ c \notin Holding \cup Instances
      BY <3>1, <3>2 DEF Occupied
    <3> HIDE DEF Holding, Instances
    <3>5. Pool!Cardinality(Holding \cup Instances) = Cardinality(Holding \cup Instances)
      BY DEF Pool!Cardinality, Cardinality
    <3>6. QED
      BY <3>3, <3>4, <3>5 DEF Pool!Reserve
  <2>2. ASSUME NEW c \in Creates, List(c) PROVE Pool!Commit(c)
    BY <1>2, <2>2 DEF List, Pool!Commit
  <2>3. ASSUME NEW c \in Creates, SpawnFails(c) \/ SocketTimeout(c) PROVE Pool!Cancel(c)
    BY <1>2, <2>3 DEF SpawnFails, SocketTimeout, Pool!Cancel
  <2>4. ASSUME NEW c \in Creates, AbandonCreate(c)
        PROVE Pool!Cancel(c) \/ UNCHANGED <<Holding, Instances>>
    BY <1>2, <2>4 DEF AbandonCreate, Pool!Cancel
  <2>5. ASSUME NEW c \in Creates,
               CountInstances(c) \/ Refuse(c) \/ Spawn(c) \/ AdoptChild(c) \/ GiveBack(c)
        PROVE UNCHANGED <<Holding, Instances>>
    BY <1>2, <2>5 DEF CountInstances, Refuse, Spawn, AdoptChild, GiveBack
  <2>6. ASSUME NEW d \in Sweeps,
               \/ \E i \in Creates : BeginDestroy(d, i)
               \/ BeginDestroyAll(d) \/ BeginReconstruct(d)
               \/ SweepStep(d) \/ AbandonDestroy(d)
        PROVE \E S \in SUBSET Creates : Pool!Free(S)
    <3>1. ASSUME UNCHANGED createVars, UNCHANGED status
          PROVE \E S \in SUBSET Creates : Pool!Free(S)
      BY <3>1 DEF Pool!Free
    <3>2. CASE Unlist(d) \/ Finish(d)
      <4>1. UNCHANGED Holding /\ Instances' = Instances \ (Instances \ Instances')
        BY <3>2 DEF Unlist, Finish
      <4>2. QED
        BY <4>1 DEF Pool!Free
    <3>3. QED
      BY <2>6, <3>1, <3>2 DEF BeginDestroy, BeginDestroyAll, BeginReconstruct, Begin, SweepStep,
         Pick, TakeChild, Kill, Reap, AbandonDestroy
  <2>7. CASE HealthStep \/ StopHealth \/ CleanupSockets
    BY <2>7 DEF HealthStep, HealthSnapshot, Inspect, MarkError, MarkedError,
                StopHealth, CleanupSockets
  <2>8. ASSUME NEW i \in Creates, WorkerBinds(i) \/ WorkerExits(i)
        PROVE UNCHANGED <<Holding, Instances>>
    BY <2>8 DEF WorkerBinds, WorkerExits
  <2>9. CASE UNCHANGED vars
    BY <2>9 DEF vars
  <2>10. QED
    BY <1>2, <2>1, <2>2, <2>3, <2>4, <2>5, <2>6, <2>7, <2>8, <2>9
       DEF Next, CreateStep, Pool!Next
<1>3. QED
  BY <1>1, <1>2, CapacityInvariant, PTL DEF Spec, ImplementsPool, Pool!Spec, Pool!poolVars
=============================================================================
