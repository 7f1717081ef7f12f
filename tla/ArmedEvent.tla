------------------------------ MODULE ArmedEvent ------------------------------
(***************************************************************************)
(* sys/event.rs, ArmedEvent: an auto-reset event and the one thread-pool   *)
(* wait that is registered on it for its whole life.  The callback runs on *)
(* a pool thread; it shares a sticky flag and a waker with the owner under *)
(* a mutex, and wakes after it has released it.                            *)
(*                                                                         *)
(* Each critical section is one step.  The event, the dispatch of          *)
(* callbacks and what UnregisterWaitEx waits for are the platform's.       *)
(***************************************************************************)
EXTENDS Integers

CONSTANTS
  Tasks,          \* the tasks whose wakers can be recorded
  NoTask,         \* no waker
  MaxCallbacks    \* how many callbacks can be running at once

ASSUME ArmedEventAssumption ==
  /\ NoTask \notin Tasks
  /\ MaxCallbacks \in Nat \ {0}

VARIABLES
  event,          \* the event is signalled and no wait has consumed that
  entered,        \* callbacks that have started and not reached the mutex
  waking,         \* wakers that callbacks have taken and not yet woken
  signalled,      \* ArmedState::signalled
  waker,          \* ArmedState::waker
  registration,   \* Registration
  shared,         \* the reference count handed to the platform is alive
  handle          \* the event's handle is open

armedVars == <<event, entered, waking, signalled, waker, registration, shared, handle>>

ArmedTypeOK ==
  /\ event \in BOOLEAN /\ signalled \in BOOLEAN
  /\ entered \in 0 .. MaxCallbacks
  /\ waking \subseteq Tasks
  /\ waker \in Tasks \cup {NoTask}
  /\ registration \in {"Live", "Released", "Failed"}
  /\ shared \in BOOLEAN /\ handle \in BOOLEAN

ArmedInit ==
  /\ event = FALSE /\ entered = 0 /\ waking = {}
  /\ signalled = FALSE /\ waker = NoTask
  /\ registration = "Live" /\ shared = TRUE /\ handle = TRUE

-----------------------------------------------------------------------------
(* The platform. *)

\* The pool consumes the signal and starts a callback.  A registration whose
\* release failed may still start one.
Dispatch ==
  /\ event
  /\ registration # "Released"
  /\ entered < MaxCallbacks
  /\ event' = FALSE
  /\ entered' = entered + 1
  /\ UNCHANGED <<waking, signalled, waker, registration, shared, handle>>

-----------------------------------------------------------------------------
(* armed_callback. *)

\* Mutant: the flag is raised only for an owner that is waiting.
CallbackMarksWaiting ==
  /\ entered > 0
  /\ entered' = entered - 1
  /\ signalled' = (signalled \/ waker # NoTask)
  /\ waking' = waking \cup ({waker} \ {NoTask})
  /\ waker' = NoTask
  /\ UNCHANGED <<event, registration, shared, handle>>

\* Mutant: a callback waits for an owner to listen.
CallbackAwaitsOwner ==
  /\ entered > 0
  /\ waker # NoTask
  /\ entered' = entered - 1
  /\ signalled' = TRUE
  /\ waking' = waking \cup {waker}
  /\ waker' = NoTask
  /\ UNCHANGED <<event, registration, shared, handle>>

CallbackMarks ==
  /\ entered > 0
  /\ entered' = entered - 1
  /\ signalled' = TRUE
  /\ waking' = waking \cup ({waker} \ {NoTask})
  /\ waker' = NoTask
  /\ UNCHANGED <<event, registration, shared, handle>>

\* Outside the mutex; the caller of this action is who gets woken.
CallbackWakes(t) ==
  /\ t \in waking
  /\ waking' = waking \ {t}
  /\ UNCHANGED <<event, entered, signalled, waker, registration, shared, handle>>

-----------------------------------------------------------------------------
(* The owner. *)

\* ArmedEvent::new: a new event, its wait registered.
ArmedNew ==
  /\ event' = FALSE /\ entered' = 0 /\ waking' = {}
  /\ signalled' = FALSE /\ waker' = NoTask
  /\ registration' = "Live" /\ shared' = TRUE /\ handle' = TRUE

\* Drop for ArmedEvent where the registration is already released.
ArmedDropped ==
  /\ event' = FALSE /\ entered' = 0 /\ waking' = {}
  /\ signalled' = FALSE /\ waker' = NoTask
  /\ registration' = "Released" /\ shared' = FALSE /\ handle' = FALSE

\* poll_signalled: Ready consumes the flag, Pending records the waker.
PollSignalled(t) ==
  /\ signalled' = FALSE
  /\ waker' = IF signalled THEN NoTask ELSE t
  /\ UNCHANGED <<event, entered, waking, registration, shared, handle>>

ReleaseWaker ==
  /\ waker' = NoTask
  /\ UNCHANGED <<event, entered, waking, signalled, registration, shared, handle>>

\* release_registration: returns once no callback is running, or fails; a
\* second call does nothing.
ReleaseRegistration ==
  /\ registration' \in
       IF registration # "Live" THEN {registration}
       ELSE {"Failed"} \cup (IF entered = 0 /\ waking = {} THEN {"Released"} ELSE {})
  /\ UNCHANGED <<event, entered, waking, signalled, waker, shared, handle>>

ReclaimCount ==
  /\ shared' = FALSE
  /\ UNCHANGED <<event, entered, waking, signalled, waker, registration, handle>>

CloseEvent ==
  /\ handle' = FALSE
  /\ UNCHANGED <<event, entered, waking, signalled, waker, registration, shared>>

-----------------------------------------------------------------------------
\* A callback only ever finds live state behind its context pointer, and the
\* handle is not closed under a wait that is still pending, whether the
\* release succeeded or failed.
CallbackSafe ==
  /\ entered > 0 => shared
  /\ registration # "Released" => shared /\ handle
=============================================================================
