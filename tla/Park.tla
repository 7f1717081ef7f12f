--------------------------------- MODULE Park ---------------------------------
(***************************************************************************)
(* How the driver sleeps and is woken (runtime/mod.rs: Driver::drive,      *)
(* Park, nudge, take_nudge).  It is told of work in two ways: the flag and *)
(* the waker callers use on the driver's own thread, and the ArmedEvent    *)
(* the platform signals from another.                                      *)
(*                                                                         *)
(* One thread runs the drive future and all callers; a caller can run      *)
(* whenever the driver holds no borrow, which includes the wakers, the     *)
(* error observer and dropped wakers inside a poll of drive.  What is      *)
(* submitted and reaped is only counted here: Driver has the rest.         *)
(***************************************************************************)
EXTENDS ArmedEvent

CONSTANT MaxOps   \* how many entries are queued, in flight or posted at once

ASSUME ParkAssumption == MaxOps \in Nat \ {0}

VARIABLES
  nudged,        \* DriverInner::nudged
  driverWaker,   \* DriverInner::driver_waker
  stop,          \* shutdown # ShutdownMode::Running
  queued,        \* entries in the submission queue; pending_submit is queued > 0
  flight,        \* entries the kernel has
  posted,        \* completions in the queue
  popFailed,     \* the last pass stopped reaping at a pop that failed
  task,          \* the task that polls the drive future
  pc,            \* where drive is
  seen,          \* what the pass read: shutting_down and retry_owed
  ready          \* tasks their executor has been told to poll

parkVars == <<nudged, driverWaker, stop, queued, flight, posted, popFailed,
              task, pc, seen, ready>>
vars == <<armedVars, parkVars>>

Phase == {"none", "spawned", "pass", "callbacks", "yielded", "parkNudge", "parkArm",
          "suspended", "teardown", "closed", "unregister", "reclaim", "close", "gone"}

TypeOK ==
  /\ ArmedTypeOK
  /\ nudged \in BOOLEAN /\ stop \in BOOLEAN /\ popFailed \in BOOLEAN
  /\ driverWaker \in Tasks \cup {NoTask} /\ task \in Tasks \cup {NoTask}
  /\ queued \in Nat /\ flight \in Nat /\ posted \in Nat
  /\ pc \in Phase
  /\ seen \in [stop : BOOLEAN, retry : BOOLEAN]
  /\ ready \subseteq Tasks

Init ==
  /\ ArmedInit
  /\ nudged = FALSE /\ stop = FALSE /\ popFailed = FALSE
  /\ driverWaker = NoTask /\ task = NoTask
  /\ queued = 0 /\ flight = 0 /\ posted = 0
  /\ pc = "none"
  /\ seen = [stop |-> FALSE, retry |-> FALSE]
  /\ ready = {}

-----------------------------------------------------------------------------
(* The executor. *)

StartDrive(t) ==
  /\ pc = "none"
  /\ pc' = "spawned"
  /\ task' = t
  /\ ready' = ready \cup {t}
  /\ UNCHANGED <<nudged, driverWaker, stop, queued, flight, posted, popFailed, seen>>
  /\ UNCHANGED armedVars

\* A future may be polled at any time, woken or not.
Poll ==
  /\ pc \in {"spawned", "yielded", "suspended"}
  /\ pc' = IF pc = "suspended" THEN "parkNudge" ELSE "pass"
  /\ ready' = ready \ {task}
  /\ UNCHANGED <<nudged, driverWaker, stop, queued, flight, posted, popFailed, task, seen>>
  /\ UNCHANGED armedVars

\* The drive future is dropped where it is suspended; a park that is dropped
\* takes its wakers back.
AbandonDrive ==
  /\ pc \in {"spawned", "yielded", "suspended"}
  /\ pc' = "none"
  /\ task' = NoTask
  /\ IF pc = "suspended" THEN ReleaseWaker /\ driverWaker' = NoTask
                         ELSE UNCHANGED <<armedVars, driverWaker>>
  /\ UNCHANGED <<nudged, stop, queued, flight, posted, popFailed, seen, ready>>

-----------------------------------------------------------------------------
(* Driver::drive. *)

\* The borrow at the head of the loop.  An accepted submission may leave
\* cancellations of abandoned operations queued, which nudge; reaping empties
\* the queue unless a pop fails.
Pass(accepted, cancels, left) ==
  /\ pc = "pass"
  /\ accepted => queued > 0
  /\ cancels => accepted /\ queued + flight + posted < MaxOps
  /\ flight' = IF accepted THEN flight + queued ELSE flight
  /\ queued' = IF accepted THEN IF cancels THEN 1 ELSE 0 ELSE queued
  /\ nudged' = (nudged \/ cancels)
  /\ posted' = left
  /\ popFailed' = (left > 0)
  /\ seen' = [stop |-> stop, retry |-> queued' > 0]
  /\ pc' = "callbacks"
  /\ UNCHANGED <<driverWaker, stop, task, ready>>
  /\ UNCHANGED armedVars

\* After the wakers and the observer have run, drive acts on what it read
\* before them.
Continue ==
  /\ pc = "callbacks"
  /\ seen.stop \/ ~seen.retry
  /\ pc' = IF seen.stop THEN "teardown" ELSE "parkNudge"
  /\ UNCHANGED <<nudged, driverWaker, stop, queued, flight, posted, popFailed, task, seen, ready>>
  /\ UNCHANGED armedVars

\* yield_now, when a submission is owed that no signal will prompt: the task
\* wakes itself before it suspends.
YieldNow ==
  /\ pc = "callbacks"
  /\ ~seen.stop /\ seen.retry
  /\ pc' = "yielded"
  /\ ready' = ready \cup {task}
  /\ UNCHANGED <<nudged, driverWaker, stop, queued, flight, posted, popFailed, task, seen>>
  /\ UNCHANGED armedVars

\* Park::poll up to the event: a nudge resolves the park.
ParkNudge ==
  /\ pc = "parkNudge"
  /\ IF nudged
       THEN nudged' = FALSE /\ driverWaker' = NoTask /\ pc' = "pass" /\ ReleaseWaker
       ELSE /\ driverWaker' = task
            /\ pc' = "parkArm"
            /\ UNCHANGED <<nudged, armedVars>>
  /\ UNCHANGED <<stop, queued, flight, posted, popFailed, task, seen, ready>>

\* The rest of Park::poll: a signal resolves the park.
ParkArm ==
  /\ pc = "parkArm"
  /\ PollSignalled(task)
  /\ IF signalled THEN driverWaker' = NoTask /\ pc' = "pass"
                  ELSE UNCHANGED driverWaker /\ pc' = "suspended"
  /\ UNCHANGED <<nudged, stop, queued, flight, posted, popFailed, task, seen, ready>>

\* The drain and close_and_release, from drive or from the driver's drop.
TornDown ==
  /\ queued' = 0 /\ flight' = 0 /\ posted' = 0 /\ popFailed' = FALSE
  /\ nudged' = FALSE /\ driverWaker' = NoTask

Teardown ==
  /\ pc = "teardown"
  /\ TornDown
  /\ pc' = "closed"
  /\ UNCHANGED <<stop, task, seen, ready>>
  /\ UNCHANGED armedVars

DropDriver ==
  /\ pc \in {"none", "closed"}
  /\ TornDown
  /\ stop' = TRUE
  /\ pc' = "unregister"
  /\ UNCHANGED <<task, seen, ready>>
  /\ UNCHANGED armedVars

\* Mutant: the teardown of the event goes on when its release failed.
UnregisterAnyway ==
  /\ pc = "unregister"
  /\ ReleaseRegistration
  /\ pc' = "reclaim"
  /\ UNCHANGED <<nudged, driverWaker, stop, queued, flight, posted, popFailed,
                 task, seen, ready>>

\* Drop for ArmedEvent: unregister, then reclaim, then close; a failed
\* release leaks the rest.
Unregister ==
  /\ pc = "unregister"
  /\ ReleaseRegistration
  /\ pc' = IF registration' = "Failed" THEN "gone" ELSE "reclaim"
  /\ UNCHANGED <<nudged, driverWaker, stop, queued, flight, posted, popFailed,
                 task, seen, ready>>

Dismantle ==
  /\ \/ pc = "reclaim" /\ ReclaimCount /\ pc' = "close"
     \/ pc = "close" /\ CloseEvent /\ pc' = "gone"
  /\ UNCHANGED <<nudged, driverWaker, stop, queued, flight, posted, popFailed,
                 task, seen, ready>>

-----------------------------------------------------------------------------
(* Callers. *)

NoBorrow == pc \in {"none", "spawned", "callbacks", "yielded", "parkArm", "suspended"}
Room     == queued + flight + posted < MaxOps

\* take_driver_waker, and the wake that follows the borrow.
WakeDriver ==
  /\ driverWaker' = NoTask
  /\ ready' = ready \cup ({driverWaker} \ {NoTask})

\* try_read and its siblings.
Queue ==
  /\ NoBorrow /\ ~stop /\ Room
  /\ queued' = queued + 1
  /\ nudged' = TRUE
  /\ WakeDriver
  /\ UNCHANGED <<stop, flight, posted, popFailed, task, pc, seen>>
  /\ UNCHANGED armedVars

\* Mutant: the request is queued and nobody is woken.
CancelUnheard(issued) ==
  /\ NoBorrow
  /\ issued => Room
  /\ queued' = IF issued THEN queued + 1 ELSE queued
  /\ nudged' = (nudged \/ issued)
  /\ UNCHANGED <<driverWaker, ready, stop, flight, posted, popFailed, task, pc, seen>>
  /\ UNCHANGED armedVars

\* Handle::cancel, and a future dropped while the kernel has its operation:
\* the request may be queued, deferred, refused or pointless.
Cancel(issued) ==
  /\ NoBorrow
  /\ issued => Room
  /\ queued' = IF issued THEN queued + 1 ELSE queued
  /\ nudged' = (nudged \/ issued)
  /\ WakeDriver
  /\ UNCHANGED <<stop, flight, posted, popFailed, task, pc, seen>>
  /\ UNCHANGED armedVars

\* Handle::escalate.
Shutdown ==
  /\ NoBorrow /\ ~stop
  /\ stop' = TRUE
  /\ nudged' = TRUE
  /\ WakeDriver
  /\ UNCHANGED <<queued, flight, posted, popFailed, task, pc, seen>>
  /\ UNCHANGED armedVars

-----------------------------------------------------------------------------
(* The kernel and the pool. *)

KernelCompletes ==
  /\ flight > 0
  /\ flight' = flight - 1
  /\ posted' = posted + 1
  /\ event' = TRUE
  /\ UNCHANGED <<entered, waking, signalled, waker, registration, shared, handle>>
  /\ UNCHANGED <<nudged, driverWaker, stop, queued, popFailed, task, pc, seen, ready>>

PoolStep ==
  \/ (Dispatch \/ CallbackMarks) /\ UNCHANGED parkVars
  \/ \E t \in Tasks :
       /\ CallbackWakes(t)
       /\ ready' = ready \cup {t}
       /\ UNCHANGED <<nudged, driverWaker, stop, queued, flight, posted, popFailed,
                      task, pc, seen>>

AnyPass ==
  \E accepted, cancels \in BOOLEAN, left \in 0 .. posted : Pass(accepted, cancels, left)

DriveStep == AnyPass \/ Continue \/ YieldNow \/ ParkNudge \/ ParkArm

Next ==
  \/ \E t \in Tasks : StartDrive(t)
  \/ Poll \/ AbandonDrive \/ DriveStep
  \/ Teardown \/ DropDriver \/ Unregister \/ Dismantle
  \/ Queue \/ Shutdown \/ \E issued \in BOOLEAN : Cancel(issued)
  \/ KernelCompletes \/ PoolStep

Spec == Init /\ [][Next]_vars

-----------------------------------------------------------------------------
(* Correctness. *)

\* The driver's task will be polled: it is in its executor's queue, or the
\* pool is on its way to waking it.
WakeComing ==
  \/ task \in ready \cup waking
  \/ waker = task /\ (entered > 0 \/ event)

\* A suspended driver is never left alone with work: whoever queued it or
\* asked for shutdown has woken the driver's task, and a completion's wake is
\* on its way.  (After a failed pop the driver waits for the next wake.)
NoLostWakeup ==
  pc = "suspended" =>
    /\ nudged \/ stop \/ queued > 0 => task \in ready
    /\ posted > 0 /\ ~popFailed => WakeComing

\* The driver goes on when it can, the executor polls a task it is told to
\* poll time and again, starts a drive future when there is none, and the
\* pool runs its callbacks.  A release of the registration that does not fail
\* is owed only when no callback is left.
Fairness ==
  /\ WF_vars(DriveStep)
  /\ SF_vars(task \in ready /\ Poll)
  /\ WF_vars(\E t \in Tasks : StartDrive(t))
  /\ WF_vars(PoolStep)
  /\ WF_vars(Unregister /\ registration' = "Released")
  /\ WF_vars(Dismantle)

FairSpec == Spec /\ Fairness

Ended == pc \in {"teardown", "closed", "unregister", "reclaim", "close", "gone"}

\* Whatever is queued, announced or requested gets a pass of the driver, with
\* the drive future abandoned and restarted at will.
WorkGetsAPass ==
  queued > 0 \/ stop \/ (posted > 0 /\ ~popFailed) ~> pc = "pass" \/ Ended

\* Dropping the driver returns: the blocking unregister waits for callbacks
\* that never wait for it.
DropReturns == pc = "unregister" ~> pc = "gone"
=============================================================================
