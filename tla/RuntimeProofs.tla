---------------------------- MODULE RuntimeProofs ----------------------------
(***************************************************************************)
(* The safety of the executor for every set of tasks and every choice of   *)
(* the thread-safe ones: no task is lost, block_on delivers, and no wakeup *)
(* is missed.                                                              *)
(***************************************************************************)
EXTENDS Runtime, TLAPS

\* A new runtime has no tasks.
LEMMA InitIInv == Init => IInv
BY SharedAssumption
   DEF Init, IInv, TypeOK, NoTaskLost, BlockOnDelivers, NoLostWake, Placed,
       Wakeable, Joins, Kinds, queues, wakes, loop, channels, awaits

\* MainSpawn keeps the invariant.
LEMMA MainSpawnIInv ==
  ASSUME IInv, NEW t \in Tasks, MainSpawn(t)
  PROVE  IInv'
<1> USE SharedAssumption DEF IInv, MainSpawn, Spawn, queues, wakes, loop, channels, awaits
<1>1. TypeOK'
  BY DEF TypeOK, Kinds, Kind
<1>2. (NoTaskLost /\ BlockOnDelivers /\ Placed)'
  BY DEF TypeOK, NoTaskLost, BlockOnDelivers, Placed
<1>3. Wakeable'
  BY DEF TypeOK, Wakeable, Placed, Kinds, Kind
<1>4. NoLostWake'
  BY DEF TypeOK, NoLostWake, Wakeable, Placed, Joins, Kinds, Kind, Satisfied
<1>5. Joins'
  BY DEF TypeOK, Joins, Placed, NoTaskLost
<1> QED
  BY <1>1, <1>2, <1>3, <1>4, <1>5

\* BlockOn keeps the invariant.
LEMMA BlockOnIInv ==
  ASSUME IInv, NEW t \in Tasks, BlockOn(t)
  PROVE  IInv'
<1> USE SharedAssumption DEF IInv, BlockOn, Spawn, queues, wakes, loop, channels, awaits
<1>1. TypeOK'
  BY DEF TypeOK, Kinds, Kind
<1>2. (NoTaskLost /\ BlockOnDelivers /\ Placed)'
  BY DEF TypeOK, NoTaskLost, BlockOnDelivers, Placed
<1>3. Wakeable'
  BY DEF TypeOK, Wakeable, Placed, Kinds, Kind
<1>4. NoLostWake'
  BY DEF TypeOK, NoLostWake, Wakeable, Placed, Joins, Kinds, Kind, Satisfied
<1>5. Joins'
  BY DEF TypeOK, Joins, Placed, NoTaskLost
<1> QED
  BY <1>1, <1>2, <1>3, <1>4, <1>5

\* Run keeps the invariant.
LEMMA RunIInv ==
  ASSUME IInv, Run
  PROVE  IInv'
<1> USE SharedAssumption DEF IInv, Run, queues, wakes, loop, channels, awaits
<1>1. TypeOK'
  BY DEF TypeOK, Kinds, Kind
<1>2. (NoTaskLost /\ BlockOnDelivers /\ Placed)'
  BY DEF TypeOK, NoTaskLost, BlockOnDelivers, Placed
<1>3. Wakeable'
  BY DEF TypeOK, Wakeable, Placed, Kinds, Kind
<1>4. NoLostWake'
  BY DEF TypeOK, NoLostWake, Wakeable, Placed, Joins, Kinds, Kind, Satisfied
<1>5. Joins'
  BY DEF TypeOK, Joins, Placed, NoTaskLost
<1> QED
  BY <1>1, <1>2, <1>3, <1>4, <1>5

\* Top keeps the invariant.
LEMMA TopIInv ==
  ASSUME IInv, Top
  PROVE  IInv'
<1> USE SharedAssumption DEF IInv, Top, ShouldStop, queues, wakes, loop, channels, awaits
<1>1. TypeOK'
  BY DEF TypeOK, Kinds, Kind
<1>2. (NoTaskLost /\ BlockOnDelivers /\ Placed)'
  BY DEF TypeOK, NoTaskLost, BlockOnDelivers, Placed
<1>3. Wakeable'
  BY DEF TypeOK, Wakeable, Placed, Kinds, Kind
<1>4. NoLostWake'
  BY DEF TypeOK, NoLostWake, Wakeable, Placed, Joins, Kinds, Kind, Satisfied
<1>5. Joins'
  BY DEF TypeOK, Joins, Placed, NoTaskLost
<1> QED
  BY <1>1, <1>2, <1>3, <1>4, <1>5

\* Pop keeps the invariant.
LEMMA PopIInv ==
  ASSUME IInv, NEW t \in Tasks, Pop(t)
  PROVE  IInv'
<1> USE SharedAssumption DEF IInv, Pop, queues, wakes, loop, channels, awaits
<1>1. TypeOK'
  BY DEF TypeOK, Kinds, Kind
<1>2. (NoTaskLost /\ BlockOnDelivers /\ Placed)'
  BY DEF TypeOK, NoTaskLost, BlockOnDelivers, Placed
<1>3. Wakeable'
  BY DEF TypeOK, Wakeable, Placed, Kinds, Kind
<1>4. NoLostWake'
  BY DEF TypeOK, NoLostWake, Wakeable, Placed, Joins, Kinds, Kind, Satisfied
<1>5. Joins'
  BY DEF TypeOK, Joins, Placed, NoTaskLost
<1> QED
  BY <1>1, <1>2, <1>3, <1>4, <1>5

\* ProcessWoken keeps the invariant.
LEMMA ProcessWokenIInv ==
  ASSUME IInv, ProcessWoken
  PROVE  IInv'
<1> USE SharedAssumption DEF IInv, ProcessWoken, queues, wakes, loop, channels, awaits
<1>1. TypeOK'
  BY DEF TypeOK, Kinds, Kind
<1>2. (NoTaskLost /\ BlockOnDelivers /\ Placed)'
  BY DEF TypeOK, NoTaskLost, BlockOnDelivers, Placed
<1>3. Wakeable'
  BY DEF TypeOK, Wakeable, Placed, Kinds, Kind
<1>4. NoLostWake'
  BY DEF TypeOK, NoLostWake, Wakeable, Placed, Joins, Kinds, Kind, Satisfied
<1>5. Joins'
  BY DEF TypeOK, Joins, Placed, NoTaskLost
<1> QED
  BY <1>1, <1>2, <1>3, <1>4, <1>5

\* ProcessShared keeps the invariant.
LEMMA ProcessSharedIInv ==
  ASSUME IInv, ProcessShared
  PROVE  IInv'
<1> USE SharedAssumption DEF IInv, ProcessShared, queues, wakes, loop, channels, awaits
<1>1. TypeOK'
  BY DEF TypeOK, Kinds, Kind
<1>2. (NoTaskLost /\ BlockOnDelivers /\ Placed)'
  BY DEF TypeOK, NoTaskLost, BlockOnDelivers, Placed
<1>3. Wakeable'
  BY DEF TypeOK, Wakeable, Placed, Kinds, Kind
<1>4. NoLostWake'
  BY DEF TypeOK, NoLostWake, Wakeable, Placed, Joins, Kinds, Kind, Satisfied
<1>5. Joins'
  BY DEF TypeOK, Joins, Placed, NoTaskLost
<1> QED
  BY <1>1, <1>2, <1>3, <1>4, <1>5

\* TaskSpawn keeps the invariant.
LEMMA TaskSpawnIInv ==
  ASSUME IInv, NEW t \in Tasks, NEW u \in Tasks, TaskSpawn(t, u)
  PROVE  IInv'
<1> USE SharedAssumption DEF IInv, TaskSpawn, Polling, Spawn, queues, wakes, loop, channels, awaits
<1>1. TypeOK'
  BY DEF TypeOK, Kinds, Kind
<1>2. (NoTaskLost /\ BlockOnDelivers /\ Placed)'
  BY DEF TypeOK, NoTaskLost, BlockOnDelivers, Placed
<1>3. Wakeable'
  BY DEF TypeOK, Wakeable, Placed, Kinds, Kind
<1>4. NoLostWake'
  BY DEF TypeOK, NoLostWake, Wakeable, Placed, Joins, Kinds, Kind, Satisfied
<1>5. Joins'
  BY DEF TypeOK, Joins, Placed, NoTaskLost
<1> QED
  BY <1>1, <1>2, <1>3, <1>4, <1>5

\* AwaitJoin keeps the invariant.
LEMMA AwaitJoinIInv ==
  ASSUME IInv, NEW t \in Tasks, NEW u \in Tasks, AwaitJoin(t, u)
  PROVE  IInv'
<1> USE SharedAssumption DEF IInv, AwaitJoin, Polling, queues, wakes, loop, channels, awaits
<1>1. TypeOK'
  BY DEF TypeOK, Kinds, Kind
<1>2. (NoTaskLost /\ BlockOnDelivers /\ Placed)'
  BY DEF TypeOK, NoTaskLost, BlockOnDelivers, Placed
<1>3. Wakeable'
  BY DEF TypeOK, Wakeable, Placed, Kinds, Kind
<1>4. NoLostWake'
  BY DEF TypeOK, NoLostWake, Wakeable, Placed, Joins, Kinds, Kind, Satisfied
<1>5. Joins'
  BY DEF TypeOK, Joins, Placed, NoTaskLost
<1> QED
  BY <1>1, <1>2, <1>3, <1>4, <1>5

\* AwaitEvent keeps the invariant.
LEMMA AwaitEventIInv ==
  ASSUME IInv, NEW t \in Tasks, AwaitEvent(t)
  PROVE  IInv'
<1> USE SharedAssumption DEF IInv, AwaitEvent, Polling, queues, wakes, loop, channels, awaits
<1>1. TypeOK'
  BY DEF TypeOK, Kinds, Kind
<1>2. (NoTaskLost /\ BlockOnDelivers /\ Placed)'
  BY DEF TypeOK, NoTaskLost, BlockOnDelivers, Placed
<1>3. Wakeable'
  BY DEF TypeOK, Wakeable, Placed, Kinds, Kind
<1>4. NoLostWake'
  BY DEF TypeOK, NoLostWake, Wakeable, Placed, Joins, Kinds, Kind, Satisfied
<1>5. Joins'
  BY DEF TypeOK, Joins, Placed, NoTaskLost
<1> QED
  BY <1>1, <1>2, <1>3, <1>4, <1>5

\* Yield keeps the invariant.
LEMMA YieldIInv ==
  ASSUME IInv, NEW t \in Tasks, Yield(t)
  PROVE  IInv'
<1> USE SharedAssumption DEF IInv, Yield, Polling, Suspend, AfterPoll, ShouldStop, Woken, queues, wakes, loop, channels, awaits
<1>1. current = {t}
  BY DEF Placed
<1>2. TypeOK'
  BY <1>1 DEF TypeOK, Kinds, Kind
<1>3. NoTaskLost'
  BY <1>1 DEF TypeOK, NoTaskLost
<1>4. BlockOnDelivers'
  BY <1>1 DEF BlockOnDelivers, TypeOK
<1>5. Placed'
  BY <1>1 DEF TypeOK, NoTaskLost, Placed
<1>6. Wakeable'
  BY <1>1 DEF TypeOK, Wakeable, Placed, Kinds, Kind
<1>7. NoLostWake'
  BY <1>1 DEF TypeOK, NoLostWake, Wakeable, Placed, Joins, Kinds, Kind, Satisfied
<1>8. Joins'
  BY <1>1 DEF TypeOK, Joins, Placed, NoTaskLost
<1> QED
  BY <1>1, <1>2, <1>3, <1>4, <1>5, <1>6, <1>7, <1>8

\* Resume keeps the invariant.
LEMMA ResumeIInv ==
  ASSUME IInv, NEW t \in Tasks, Resume(t)
  PROVE  IInv'
<1> USE SharedAssumption DEF IInv, Resume, Polling, queues, wakes, loop, channels, awaits
<1>1. TypeOK'
  BY DEF TypeOK, Kinds, Kind, Satisfied
<1>2. (NoTaskLost /\ BlockOnDelivers /\ Placed)'
  BY DEF TypeOK, NoTaskLost, BlockOnDelivers, Placed, Satisfied
<1>3. Wakeable'
  BY DEF TypeOK, Wakeable, Placed, Kinds, Kind, Satisfied
<1>4. NoLostWake'
  BY DEF TypeOK, NoLostWake, Wakeable, Placed, Joins, Kinds, Kind, Satisfied
<1>5. Joins'
  BY DEF TypeOK, Joins, Placed, NoTaskLost, Satisfied
<1> QED
  BY <1>1, <1>2, <1>3, <1>4, <1>5

\* StillPending keeps the invariant.
LEMMA StillPendingIInv ==
  ASSUME IInv, NEW t \in Tasks, StillPending(t)
  PROVE  IInv'
<1> USE SharedAssumption DEF IInv, StillPending, Polling, Suspend, AfterPoll, ShouldStop, queues, wakes, loop, channels, awaits
<1>1. current = {t}
  BY DEF Placed
<1>2. TypeOK'
  BY <1>1 DEF TypeOK, Kinds, Kind, Satisfied
<1>3. NoTaskLost'
  BY <1>1 DEF TypeOK, NoTaskLost, Satisfied
<1>4. BlockOnDelivers'
  BY <1>1 DEF BlockOnDelivers, TypeOK, Satisfied
<1>5. Placed'
  BY <1>1 DEF TypeOK, NoTaskLost, Placed, Satisfied
<1>6. Wakeable'
  BY <1>1 DEF TypeOK, Wakeable, Placed, Kinds, Kind, Satisfied
<1>7. NoLostWake'
  BY <1>1 DEF TypeOK, NoLostWake, Wakeable, Placed, Joins, Kinds, Kind, Satisfied
<1>8. Joins'
  BY <1>1 DEF TypeOK, Joins, Placed, NoTaskLost, Satisfied
<1> QED
  BY <1>1, <1>2, <1>3, <1>4, <1>5, <1>6, <1>7, <1>8

\* Finish keeps the invariant.
LEMMA FinishIInv ==
  ASSUME IInv, NEW t \in Tasks, Finish(t)
  PROVE  IInv'
<1> USE SharedAssumption DEF IInv, Finish, Polling, AfterPoll, ShouldStop, Woken, queues, wakes, loop, channels, awaits
<1>1. current = {t}
  BY DEF Placed
<1>2. TypeOK'
  BY <1>1 DEF TypeOK, Kinds, Kind
<1>3. (NoTaskLost /\ BlockOnDelivers /\ Placed)'
  BY <1>1 DEF TypeOK, NoTaskLost, BlockOnDelivers, Placed
<1>4. Wakeable'
  BY <1>1 DEF TypeOK, Wakeable, Placed, Kinds, Kind
<1>5. NoLostWake'
  BY <1>1 DEF TypeOK, NoLostWake, Wakeable, Placed, Joins, Kinds, Kind, Satisfied
<1>6. Joins'
  BY <1>1 DEF TypeOK, Joins, Placed, NoTaskLost
<1> QED
  BY <1>1, <1>2, <1>3, <1>4, <1>5, <1>6

\* ThreadSets keeps the invariant.
LEMMA ThreadSetsIInv ==
  ASSUME IInv, NEW t \in Tasks, ThreadSets(t)
  PROVE  IInv'
<1> USE SharedAssumption DEF IInv, ThreadSets, queues, wakes, loop, channels, awaits
<1>1. TypeOK'
  BY DEF TypeOK, Kinds, Kind
<1>2. (NoTaskLost /\ BlockOnDelivers /\ Placed)'
  BY DEF TypeOK, NoTaskLost, BlockOnDelivers, Placed
<1>3. Wakeable'
  BY DEF TypeOK, Wakeable, Placed, Kinds, Kind
<1>4. NoLostWake'
  BY DEF TypeOK, NoLostWake, Wakeable, Placed, Joins, Kinds, Kind, Satisfied
<1>5. Joins'
  BY DEF TypeOK, Joins, Placed, NoTaskLost
<1> QED
  BY <1>1, <1>2, <1>3, <1>4, <1>5

\* ThreadWakes keeps the invariant.
LEMMA ThreadWakesIInv ==
  ASSUME IInv, NEW t \in Tasks, ThreadWakes(t)
  PROVE  IInv'
<1> USE SharedAssumption DEF IInv, ThreadWakes, Woken, queues, wakes, loop, channels, awaits
<1>1. TypeOK'
  BY DEF TypeOK, Kinds, Kind
<1>2. (NoTaskLost /\ BlockOnDelivers /\ Placed)'
  BY DEF TypeOK, NoTaskLost, BlockOnDelivers, Placed
<1>3. Wakeable'
  BY DEF TypeOK, Wakeable, Placed, Kinds, Kind
<1>4. NoLostWake'
  BY DEF TypeOK, NoLostWake, Wakeable, Placed, Joins, Kinds, Kind, Satisfied
<1>5. Joins'
  BY DEF TypeOK, Joins, Placed, NoTaskLost
<1> QED
  BY <1>1, <1>2, <1>3, <1>4, <1>5

\* Every step of the executor, its caller and the other threads keeps it.
LEMMA NextIInv ==
  ASSUME IInv, [Next]_vars
  PROVE  IInv'
<1>1. CASE UNCHANGED vars
  BY <1>1 DEF vars, queues, wakes, loop, channels, awaits, IInv, TypeOK,
     NoTaskLost, BlockOnDelivers, NoLostWake, Placed, Wakeable, Joins, Satisfied
<1>2. CASE Next
  BY <1>2, MainSpawnIInv, BlockOnIInv, RunIInv, TopIInv, PopIInv, ProcessWokenIInv, ProcessSharedIInv, TaskSpawnIInv, AwaitJoinIInv, AwaitEventIInv, YieldIInv, ResumeIInv, StillPendingIInv, FinishIInv, ThreadSetsIInv, ThreadWakesIInv
     DEF Next, Executor
<1> QED
  BY <1>1, <1>2

THEOREM Invariance == Spec => []IInv
<1>1. IInv /\ [Next]_vars => IInv'
  BY NextIInv
<1> QED
  BY InitIInv, <1>1, PTL DEF Spec

\* No task is dropped between the queues, whichever way run_until is left.
THEOREM TasksKept == Spec => []NoTaskLost
BY Invariance, PTL DEF IInv

\* block_on always has its result when run_until returns.
THEOREM BlockOnReturnsResult == Spec => []BlockOnDelivers
BY Invariance, PTL DEF IInv

\* A task that can go on has been woken, or is about to be.
THEOREM WakesKept == Spec => []NoLostWake
BY Invariance, PTL DEF IInv
=============================================================================
