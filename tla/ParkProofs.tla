------------------------------ MODULE ParkProofs ------------------------------
(***************************************************************************)
(* The driver's suspension is safe for every number of tasks, callbacks    *)
(* and operations: a callback never finds freed state, and a driver that   *)
(* suspends is never left alone with work.                                 *)
(***************************************************************************)
EXTENDS Park, TLAPS

\* The reference count and the event's handle go after the registration, and
\* the registration only when no callback is running.
EventOwned ==
  /\ registration = "Released" => entered = 0
  /\ registration # "Released" => shared = TRUE /\ handle = TRUE
  /\ pc \in {"reclaim", "close"} => registration = "Released"

\* Somebody polls the drive future.
TaskKnown ==
  pc \in {"spawned", "pass", "callbacks", "yielded", "parkNudge", "parkArm", "suspended"} =>
    task \in Tasks

\* What the pass did not see was announced by a nudge, which the park has not
\* taken back.
Announced ==
  /\ pc = "callbacks" => /\ seen.stop = FALSE => (stop = TRUE => nudged = TRUE)
                         /\ seen.retry = FALSE => (queued > 0 => nudged = TRUE)
  /\ pc \in {"parkNudge", "parkArm", "suspended"} =>
       (stop = TRUE \/ queued > 0 => nudged = TRUE)

\* From the moment the park has looked for a nudge, a caller who leaves one
\* finds the driver's waker, or another caller did.
NudgeHeard ==
  pc \in {"parkArm", "suspended"} => /\ driverWaker = task \/ task \in ready
                                     /\ nudged = TRUE => task \in ready

\* A completion that no pass has reaped left a signal, and a suspended driver
\* hears it.
SignalHeard ==
  /\ pc # "pass" /\ posted > 0 /\ popFailed = FALSE =>
       event = TRUE \/ entered > 0 \/ signalled = TRUE
  /\ pc = "suspended" => /\ waker = task \/ task \in ready \/ task \in waking
                         /\ signalled = TRUE => task \in ready \/ task \in waking

IInv == TypeOK /\ EventOwned /\ TaskKnown /\ Announced /\ NudgeHeard /\ SignalHeard

-----------------------------------------------------------------------------
(* The steps. *)

\* A drive future begins.
LEMMA StartDriveIInv ==
  ASSUME IInv, NEW t \in Tasks, StartDrive(t)
  PROVE  IInv'
<1> USE ArmedEventAssumption DEF IInv, StartDrive, armedVars, parkVars
<1>1. TypeOK'
  <2>1. ArmedTypeOK'
    BY DEF TypeOK, ArmedTypeOK
  <2> QED
    BY <2>1 DEF TypeOK, Phase
<1>2. EventOwned'
  BY DEF EventOwned, TypeOK, ArmedTypeOK
<1>3. TaskKnown'
  BY DEF TaskKnown
<1>4. Announced'
  BY DEF Announced, TypeOK
<1>5. NudgeHeard'
  BY DEF NudgeHeard, TypeOK, TaskKnown
<1>6. SignalHeard'
  BY DEF SignalHeard, TypeOK, ArmedTypeOK, TaskKnown
<1> QED
  BY <1>1, <1>2, <1>3, <1>4, <1>5, <1>6

\* A poll takes the task out of its executor's queue; what made it ready was
\* announced.
LEMMA PollIInv ==
  ASSUME IInv, Poll
  PROVE  IInv'
<1> USE ArmedEventAssumption DEF IInv, Poll, armedVars, parkVars
<1>1. TypeOK'
  <2>1. ArmedTypeOK'
    BY DEF TypeOK, ArmedTypeOK
  <2> QED
    BY <2>1 DEF TypeOK, Phase
<1>2. EventOwned'
  BY DEF EventOwned, TypeOK, ArmedTypeOK
<1>3. TaskKnown'
  BY DEF TaskKnown
<1>4. Announced'
  BY DEF Announced, TypeOK
<1>5. NudgeHeard'
  BY DEF NudgeHeard, TypeOK, TaskKnown
<1>6. SignalHeard'
  BY DEF SignalHeard, TypeOK, ArmedTypeOK, TaskKnown
<1> QED
  BY <1>1, <1>2, <1>3, <1>4, <1>5, <1>6

\* An abandoned drive future suspends nobody.
LEMMA AbandonDriveIInv ==
  ASSUME IInv, AbandonDrive
  PROVE  IInv'
<1> USE ArmedEventAssumption DEF IInv, AbandonDrive, ReleaseWaker, armedVars, parkVars
<1>1. TypeOK'
  <2>1. ArmedTypeOK'
    BY DEF TypeOK, ArmedTypeOK
  <2> QED
    BY <2>1 DEF TypeOK, Phase
<1>2. EventOwned'
  BY DEF EventOwned, TypeOK, ArmedTypeOK
<1>3. TaskKnown'
  BY DEF TaskKnown
<1>4. Announced'
  BY DEF Announced, TypeOK
<1>5. NudgeHeard'
  BY DEF NudgeHeard, TypeOK, TaskKnown
<1>6. SignalHeard'
  BY DEF SignalHeard, TypeOK, ArmedTypeOK, TaskKnown
<1> QED
  BY <1>1, <1>2, <1>3, <1>4, <1>5, <1>6

\* A pass sees all there is, unless a pop fails.
LEMMA PassIInv ==
  ASSUME IInv, NEW accepted \in BOOLEAN, NEW cancels \in BOOLEAN, NEW left \in 0 .. posted,
         Pass(accepted, cancels, left)
  PROVE  IInv'
<1> USE ArmedEventAssumption DEF IInv, Pass, armedVars, parkVars
<1>1. TypeOK'
  <2>1. ArmedTypeOK'
    BY DEF TypeOK, ArmedTypeOK
  <2> QED
    BY <2>1 DEF TypeOK, Phase
<1>2. EventOwned'
  BY DEF EventOwned, TypeOK, ArmedTypeOK
<1>3. TaskKnown'
  BY DEF TaskKnown
<1>4. Announced'
  BY DEF Announced, TypeOK
<1>5. NudgeHeard'
  BY DEF NudgeHeard, TypeOK, TaskKnown
<1>6. SignalHeard'
  BY DEF SignalHeard, TypeOK, ArmedTypeOK, TaskKnown
<1> QED
  BY <1>1, <1>2, <1>3, <1>4, <1>5, <1>6

\* drive acts on what it read before the callbacks ran.
LEMMA ContinueIInv ==
  ASSUME IInv, Continue
  PROVE  IInv'
<1> USE ArmedEventAssumption DEF IInv, Continue, armedVars, parkVars
<1>1. TypeOK'
  <2>1. ArmedTypeOK'
    BY DEF TypeOK, ArmedTypeOK
  <2> QED
    BY <2>1 DEF TypeOK, Phase
<1>2. EventOwned'
  BY DEF EventOwned, TypeOK, ArmedTypeOK
<1>3. TaskKnown'
  BY DEF TaskKnown
<1>4. Announced'
  BY DEF Announced, TypeOK
<1>5. NudgeHeard'
  BY DEF NudgeHeard, TypeOK, TaskKnown
<1>6. SignalHeard'
  BY DEF SignalHeard, TypeOK, ArmedTypeOK, TaskKnown
<1> QED
  BY <1>1, <1>2, <1>3, <1>4, <1>5, <1>6

\* drive yields to a submission that is owed.
LEMMA YieldNowIInv ==
  ASSUME IInv, YieldNow
  PROVE  IInv'
<1> USE ArmedEventAssumption DEF IInv, YieldNow, armedVars, parkVars
<1>1. TypeOK'
  <2>1. ArmedTypeOK'
    BY DEF TypeOK, ArmedTypeOK
  <2> QED
    BY <2>1 DEF TypeOK, Phase, TaskKnown
<1>2. EventOwned'
  BY DEF EventOwned, TypeOK, ArmedTypeOK
<1>3. TaskKnown'
  BY DEF TaskKnown
<1>4. Announced'
  BY DEF Announced, TypeOK
<1>5. NudgeHeard'
  BY DEF NudgeHeard, TypeOK, TaskKnown
<1>6. SignalHeard'
  BY DEF SignalHeard, TypeOK, ArmedTypeOK, TaskKnown
<1> QED
  BY <1>1, <1>2, <1>3, <1>4, <1>5, <1>6

\* The park takes the nudge, or records the waker before anyone can nudge.
LEMMA ParkNudgeIInv ==
  ASSUME IInv, ParkNudge
  PROVE  IInv'
<1> USE ArmedEventAssumption DEF IInv, ParkNudge, ReleaseWaker, armedVars, parkVars
<1>1. TypeOK'
  <2>1. ArmedTypeOK'
    BY DEF TypeOK, ArmedTypeOK
  <2> QED
    BY <2>1 DEF TypeOK, Phase
<1>2. EventOwned'
  BY DEF EventOwned, TypeOK, ArmedTypeOK
<1>3. TaskKnown'
  BY DEF TaskKnown
<1>4. Announced'
  BY DEF Announced, TypeOK
<1>5. NudgeHeard'
  BY DEF NudgeHeard, TypeOK, TaskKnown
<1>6. SignalHeard'
  BY DEF SignalHeard, TypeOK, ArmedTypeOK, TaskKnown
<1> QED
  BY <1>1, <1>2, <1>3, <1>4, <1>5, <1>6

\* The park takes the signal, or records the waker where callbacks find it.
LEMMA ParkArmIInv ==
  ASSUME IInv, ParkArm
  PROVE  IInv'
<1> USE ArmedEventAssumption DEF IInv, ParkArm, PollSignalled, armedVars, parkVars
<1>1. TypeOK'
  <2>1. ArmedTypeOK'
    BY DEF TypeOK, ArmedTypeOK
  <2> QED
    BY <2>1 DEF TypeOK, Phase
<1>2. EventOwned'
  BY DEF EventOwned, TypeOK, ArmedTypeOK
<1>3. TaskKnown'
  BY DEF TaskKnown
<1>4. Announced'
  BY DEF Announced, TypeOK
<1>5. NudgeHeard'
  BY DEF NudgeHeard, TypeOK, TaskKnown
<1>6. SignalHeard'
  BY DEF SignalHeard, TypeOK, ArmedTypeOK, TaskKnown
<1> QED
  BY <1>1, <1>2, <1>3, <1>4, <1>5, <1>6

\* Nothing is left after the drain.
LEMMA TeardownIInv ==
  ASSUME IInv, Teardown
  PROVE  IInv'
<1> USE ArmedEventAssumption DEF IInv, Teardown, TornDown, armedVars, parkVars
<1>1. TypeOK'
  <2>1. ArmedTypeOK'
    BY DEF TypeOK, ArmedTypeOK
  <2> QED
    BY <2>1 DEF TypeOK, Phase
<1>2. EventOwned'
  BY DEF EventOwned, TypeOK, ArmedTypeOK
<1>3. TaskKnown'
  BY DEF TaskKnown
<1>4. Announced'
  BY DEF Announced, TypeOK
<1>5. NudgeHeard'
  BY DEF NudgeHeard, TypeOK, TaskKnown
<1>6. SignalHeard'
  BY DEF SignalHeard, TypeOK, ArmedTypeOK, TaskKnown
<1> QED
  BY <1>1, <1>2, <1>3, <1>4, <1>5, <1>6

\* The driver is dropped.
LEMMA DropDriverIInv ==
  ASSUME IInv, DropDriver
  PROVE  IInv'
<1> USE ArmedEventAssumption DEF IInv, DropDriver, TornDown, armedVars, parkVars
<1>1. TypeOK'
  <2>1. ArmedTypeOK'
    BY DEF TypeOK, ArmedTypeOK
  <2> QED
    BY <2>1 DEF TypeOK, Phase
<1>2. EventOwned'
  BY DEF EventOwned, TypeOK, ArmedTypeOK
<1>3. TaskKnown'
  BY DEF TaskKnown
<1>4. Announced'
  BY DEF Announced, TypeOK
<1>5. NudgeHeard'
  BY DEF NudgeHeard, TypeOK, TaskKnown
<1>6. SignalHeard'
  BY DEF SignalHeard, TypeOK, ArmedTypeOK, TaskKnown
<1> QED
  BY <1>1, <1>2, <1>3, <1>4, <1>5, <1>6

\* A release that succeeds has waited for the callbacks.
LEMMA UnregisterIInv ==
  ASSUME IInv, Unregister
  PROVE  IInv'
<1> USE ArmedEventAssumption DEF IInv, Unregister, ReleaseRegistration, armedVars, parkVars
<1>1. TypeOK'
  <2>1. ArmedTypeOK'
    BY DEF TypeOK, ArmedTypeOK
  <2> QED
    BY <2>1 DEF TypeOK, Phase
<1>2. EventOwned'
  BY DEF EventOwned, TypeOK, ArmedTypeOK
<1>3. TaskKnown'
  BY DEF TaskKnown
<1>4. Announced'
  BY DEF Announced, TypeOK
<1>5. NudgeHeard'
  BY DEF NudgeHeard, TypeOK, TaskKnown
<1>6. SignalHeard'
  BY DEF SignalHeard, TypeOK, ArmedTypeOK, TaskKnown
<1> QED
  BY <1>1, <1>2, <1>3, <1>4, <1>5, <1>6

\* The count and the handle go when the registration is released.
LEMMA DismantleIInv ==
  ASSUME IInv, Dismantle
  PROVE  IInv'
<1> USE ArmedEventAssumption DEF IInv, Dismantle, ReclaimCount, CloseEvent, armedVars, parkVars
<1>1. TypeOK'
  <2>1. ArmedTypeOK'
    BY DEF TypeOK, ArmedTypeOK
  <2> QED
    BY <2>1 DEF TypeOK, Phase
<1>2. EventOwned'
  BY DEF EventOwned, TypeOK, ArmedTypeOK
<1>3. TaskKnown'
  BY DEF TaskKnown
<1>4. Announced'
  BY DEF Announced, TypeOK
<1>5. NudgeHeard'
  BY DEF NudgeHeard, TypeOK, TaskKnown
<1>6. SignalHeard'
  BY DEF SignalHeard, TypeOK, ArmedTypeOK, TaskKnown
<1> QED
  BY <1>1, <1>2, <1>3, <1>4, <1>5, <1>6

\* A caller who queues nudges and wakes.
LEMMA QueueIInv ==
  ASSUME IInv, Queue
  PROVE  IInv'
<1> USE ArmedEventAssumption DEF IInv, Queue, WakeDriver, NoBorrow, armedVars, parkVars
<1>1. TypeOK'
  <2>1. ArmedTypeOK'
    BY DEF TypeOK, ArmedTypeOK
  <2> QED
    BY <2>1 DEF TypeOK, Phase
<1>2. EventOwned'
  BY DEF EventOwned, TypeOK, ArmedTypeOK
<1>3. TaskKnown'
  BY DEF TaskKnown
<1>4. Announced'
  BY DEF Announced, TypeOK
<1>5. NudgeHeard'
  BY DEF NudgeHeard, TypeOK, TaskKnown
<1>6. SignalHeard'
  BY DEF SignalHeard, TypeOK, ArmedTypeOK, TaskKnown
<1> QED
  BY <1>1, <1>2, <1>3, <1>4, <1>5, <1>6

\* A caller who cancels wakes, and nudges if a request is queued.
LEMMA CancelIInv ==
  ASSUME IInv, NEW issued \in BOOLEAN, Cancel(issued)
  PROVE  IInv'
<1> USE ArmedEventAssumption DEF IInv, Cancel, WakeDriver, NoBorrow, armedVars, parkVars
<1>1. TypeOK'
  <2>1. ArmedTypeOK'
    BY DEF TypeOK, ArmedTypeOK
  <2> QED
    BY <2>1 DEF TypeOK, Phase
<1>2. EventOwned'
  BY DEF EventOwned, TypeOK, ArmedTypeOK
<1>3. TaskKnown'
  BY DEF TaskKnown
<1>4. Announced'
  BY DEF Announced, TypeOK
<1>5. NudgeHeard'
  BY DEF NudgeHeard, TypeOK, TaskKnown
<1>6. SignalHeard'
  BY DEF SignalHeard, TypeOK, ArmedTypeOK, TaskKnown
<1> QED
  BY <1>1, <1>2, <1>3, <1>4, <1>5, <1>6

\* A caller who shuts down nudges and wakes.
LEMMA ShutdownIInv ==
  ASSUME IInv, Shutdown
  PROVE  IInv'
<1> USE ArmedEventAssumption DEF IInv, Shutdown, WakeDriver, NoBorrow, armedVars, parkVars
<1>1. TypeOK'
  <2>1. ArmedTypeOK'
    BY DEF TypeOK, ArmedTypeOK
  <2> QED
    BY <2>1 DEF TypeOK, Phase
<1>2. EventOwned'
  BY DEF EventOwned, TypeOK, ArmedTypeOK
<1>3. TaskKnown'
  BY DEF TaskKnown
<1>4. Announced'
  BY DEF Announced, TypeOK
<1>5. NudgeHeard'
  BY DEF NudgeHeard, TypeOK, TaskKnown
<1>6. SignalHeard'
  BY DEF SignalHeard, TypeOK, ArmedTypeOK, TaskKnown
<1> QED
  BY <1>1, <1>2, <1>3, <1>4, <1>5, <1>6

\* A completion signals the event.
LEMMA KernelCompletesIInv ==
  ASSUME IInv, KernelCompletes
  PROVE  IInv'
<1> USE ArmedEventAssumption DEF IInv, KernelCompletes, armedVars, parkVars
<1>1. TypeOK'
  <2>1. ArmedTypeOK'
    BY DEF TypeOK, ArmedTypeOK
  <2> QED
    BY <2>1 DEF TypeOK, Phase
<1>2. EventOwned'
  BY DEF EventOwned, TypeOK, ArmedTypeOK
<1>3. TaskKnown'
  BY DEF TaskKnown
<1>4. Announced'
  BY DEF Announced, TypeOK
<1>5. NudgeHeard'
  BY DEF NudgeHeard, TypeOK, TaskKnown
<1>6. SignalHeard'
  BY DEF SignalHeard, TypeOK, ArmedTypeOK, TaskKnown
<1> QED
  BY <1>1, <1>2, <1>3, <1>4, <1>5, <1>6

\* The pool takes the signal over.
LEMMA DispatchIInv ==
  ASSUME IInv, Dispatch, UNCHANGED parkVars
  PROVE  IInv'
<1> USE ArmedEventAssumption DEF IInv, Dispatch, armedVars, parkVars
<1>1. TypeOK'
  <2>1. ArmedTypeOK'
    <3>1. entered' \in 0 .. MaxCallbacks
      BY DEF TypeOK, ArmedTypeOK
    <3> QED
      BY <3>1 DEF TypeOK, ArmedTypeOK
  <2> QED
    BY <2>1 DEF TypeOK, Phase
<1>2. EventOwned'
  BY DEF EventOwned, TypeOK, ArmedTypeOK
<1>3. TaskKnown'
  BY DEF TaskKnown
<1>4. Announced'
  BY DEF Announced, TypeOK
<1>5. NudgeHeard'
  BY DEF NudgeHeard, TypeOK, TaskKnown
<1>6. SignalHeard'
  BY DEF SignalHeard, TypeOK, ArmedTypeOK, TaskKnown
<1> QED
  BY <1>1, <1>2, <1>3, <1>4, <1>5, <1>6

\* The callback leaves the flag, and takes the waker.
LEMMA CallbackMarksIInv ==
  ASSUME IInv, CallbackMarks, UNCHANGED parkVars
  PROVE  IInv'
<1> USE ArmedEventAssumption DEF IInv, CallbackMarks, armedVars, parkVars
<1>1. TypeOK'
  <2>1. ArmedTypeOK'
    BY DEF TypeOK, ArmedTypeOK
  <2> QED
    BY <2>1 DEF TypeOK, Phase
<1>2. EventOwned'
  BY DEF EventOwned, TypeOK, ArmedTypeOK
<1>3. TaskKnown'
  BY DEF TaskKnown
<1>4. Announced'
  BY DEF Announced, TypeOK
<1>5. NudgeHeard'
  BY DEF NudgeHeard, TypeOK, TaskKnown
<1>6. SignalHeard'
  BY DEF SignalHeard, TypeOK, ArmedTypeOK, TaskKnown
<1> QED
  BY <1>1, <1>2, <1>3, <1>4, <1>5, <1>6

\* The callback wakes.
LEMMA CallbackWakesIInv ==
  ASSUME IInv, NEW t \in Tasks, CallbackWakes(t), ready' = ready \cup {t},
         UNCHANGED <<nudged, driverWaker, stop, queued, flight, posted, popFailed, task, pc, seen>>
  PROVE  IInv'
<1> USE ArmedEventAssumption DEF IInv, CallbackWakes, armedVars, parkVars
<1>1. TypeOK'
  <2>1. ArmedTypeOK'
    BY DEF TypeOK, ArmedTypeOK
  <2> QED
    BY <2>1 DEF TypeOK, Phase
<1>2. EventOwned'
  BY DEF EventOwned, TypeOK, ArmedTypeOK
<1>3. TaskKnown'
  BY DEF TaskKnown
<1>4. Announced'
  BY DEF Announced, TypeOK
<1>5. NudgeHeard'
  BY DEF NudgeHeard, TypeOK, TaskKnown
<1>6. SignalHeard'
  BY DEF SignalHeard, TypeOK, ArmedTypeOK, TaskKnown
<1> QED
  BY <1>1, <1>2, <1>3, <1>4, <1>5, <1>6

-----------------------------------------------------------------------------
(* The theorems. *)

\* Nobody drives and nothing is queued; the event's wait is registered.
LEMMA InitIInv == Init => IInv
<1> SUFFICES ASSUME Init PROVE IInv
  OBVIOUS
<1>1. 0 \in 0 .. MaxCallbacks
  BY ArmedEventAssumption
<1>2. TypeOK
  BY <1>1 DEF Init, ArmedInit, TypeOK, ArmedTypeOK, Phase
<1> QED
  BY <1>2 DEF Init, ArmedInit, IInv, EventOwned, TaskKnown, Announced, NudgeHeard, SignalHeard

\* Every step keeps the invariant.
LEMMA NextIInv == IInv /\ [Next]_vars => IInv'
<1> SUFFICES ASSUME IInv, [Next]_vars PROVE IInv'
  OBVIOUS
<1>1. CASE (\E t \in Tasks : StartDrive(t)) \/ Poll \/ AbandonDrive
  BY <1>1, StartDriveIInv, PollIInv, AbandonDriveIInv
<1>2. CASE DriveStep
  BY <1>2, PassIInv, ContinueIInv, YieldNowIInv, ParkNudgeIInv, ParkArmIInv DEF DriveStep, AnyPass
<1>3. CASE Teardown \/ DropDriver \/ Unregister \/ Dismantle
  BY <1>3, TeardownIInv, DropDriverIInv, UnregisterIInv, DismantleIInv
<1>4. CASE Queue \/ Shutdown \/ \E issued \in BOOLEAN : Cancel(issued)
  BY <1>4, QueueIInv, ShutdownIInv, CancelIInv
<1>5. CASE KernelCompletes
  BY <1>5, KernelCompletesIInv
<1>6. CASE PoolStep
  BY <1>6, DispatchIInv, CallbackMarksIInv, CallbackWakesIInv DEF PoolStep
<1>7. CASE UNCHANGED vars
  <2> USE <1>7 DEF IInv, vars, armedVars, parkVars
  <2>1. TypeOK'
    BY DEF TypeOK, ArmedTypeOK
  <2>2. EventOwned' /\ TaskKnown' /\ Announced'
    BY DEF EventOwned, TaskKnown, Announced
  <2>3. NudgeHeard' /\ SignalHeard'
    BY DEF NudgeHeard, SignalHeard
  <2> QED
    BY <2>1, <2>2, <2>3
<1> QED
  BY <1>1, <1>2, <1>3, <1>4, <1>5, <1>6, <1>7 DEF Next

\* The inductive invariant of the driver's suspension holds throughout.
THEOREM ParkSound == Spec => []IInv
BY InitIInv, NextIInv, PTL DEF Spec

\* Drop for ArmedEvent: whatever interleaving of callbacks and the teardown, a
\* callback finds live state, and the handle outlives the wait, also where
\* the release fails.
THEOREM CallbacksSafe == Spec => []CallbackSafe
<1>1. IInv => CallbackSafe
  BY DEF IInv, EventOwned, CallbackSafe, TypeOK, ArmedTypeOK
<1> QED
  BY <1>1, ParkSound, PTL

\* Park::poll checks and records in an order that loses no wakeup, whoever
\* queues, cancels, shuts down or completes in between, for every number of
\* operations, callbacks and tasks.
THEOREM NoWakeupLost == Spec => []NoLostWakeup
<1>1. IInv => NoLostWakeup
  <2> SUFFICES ASSUME IInv, pc = "suspended"
               PROVE  /\ nudged \/ stop \/ queued > 0 => task \in ready
                      /\ posted > 0 /\ ~popFailed => WakeComing
    BY DEF NoLostWakeup
  <2>1. nudged \/ stop \/ queued > 0 => task \in ready
    BY DEF IInv, Announced, NudgeHeard, TypeOK
  <2>2. posted > 0 /\ ~popFailed => WakeComing
    BY DEF IInv, SignalHeard, WakeComing, TypeOK, ArmedTypeOK
  <2> QED
    BY <2>1, <2>2
<1> QED
  BY <1>1, ParkSound, PTL
=============================================================================
