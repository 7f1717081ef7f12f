-------------------------------- MODULE Driver --------------------------------
(***************************************************************************)
(* The driver of runtime/mod.rs: operations are built into the submission  *)
(* queue, handed to the kernel, cancelled, reaped and, at shutdown,        *)
(* drained, until the ring is closed and everything is released.           *)
(*                                                                         *)
(* DriverInner sits in a RefCell on one thread, so each borrow is one      *)
(* step; between two borrows the driver suspends or runs wakers and the    *)
(* error observer, and callers act through handles and futures.  The       *)
(* kernel is another agent.  Operations are named as OpTable names them:   *)
(* OpSlab is shown to implement such names.                                *)
(***************************************************************************)
EXTENDS Operations, Integers

CONSTANTS
  Ids,              \* the operations callers will start, each at most once
  Target,           \* Ids -> what a cancellation would name: see Payloads
  ResidueAttempts,  \* RESIDUE_ATTEMPTS
  Stuck,            \* operations the kernel finishes only once cancelled
  Awaited           \* whether a caller awaits the shutdown

ASSUME DriverAssumption ==
  /\ Payloads = {"owned", "registered", "registration"}
  /\ Target \in [Ids -> Payloads]
  /\ ResidueAttempts \in Nat \ {0}
  /\ Awaited \in BOOLEAN
  /\ Stuck \subseteq {i \in Ids : Target[i] # "registration"}

VARIABLES
  d,          \* DriverInner's bookkeeping, and where the ring's entries are
  shutdown,   \* ShutdownMode
  tornDown,   \* the ring is closed and everything is released
  pc,         \* where Driver::drive or Driver's drop is
  fut,        \* Ids -> the caller's future
  asked,      \* operations a caller asked to cancel through its handle
  aborted,    \* operations the kernel has found and is abandoning
  waiter      \* a caller's ShutdownComplete future

vars == <<d, shutdown, tornDown, pc, fut, asked, aborted, waiter>>

(***************************************************************************)
(* d.entry     what the slab holds for the operation                       *)
(* d.opAt      where the operation's own queue entry is                    *)
(* d.cancelAt  where the entry of a cancellation against it is             *)
(* d.slot      ResultSlot::completed, shared by the payload and the future *)
(* d.deferred  deferred_cancels                                            *)
(* d.holds     cancel_holds: cancellations that keep their file open       *)
(* d.pending   pending_submit                                              *)
(* d.failures  submit_failures, which only counts up to the threshold      *)
(***************************************************************************)
EntryState == {"Unborn", "Occupied", "Tombstone", "Done"}
Place      == {"none", "queued", "kernel", "posted", "reaped", "discarded"}
Entry(state, op) == [state |-> state, op |-> op]

\* An entry holds an operation exactly while it is occupied.
Entries == [state : EntryState \ {"Occupied"}, op : {NoOp}]
             \cup [state : {"Occupied"}, op : Op]

\* Where the answer waits for the future that shares it with the payload.
ResultSlot == {"empty", "completed", "abandoned"}

DriverInner ==
  [entry : [Ids -> Entries],
   opAt : [Ids -> Place], cancelAt : [Ids -> Place],
   slot : [Ids -> ResultSlot],
   deferred : SUBSET Ids, holds : SUBSET Ids,
   pending : BOOLEAN, failures : 0 .. ResidueAttempts]

ShutdownMode == {"Running", "Graceful", "Immediate"}
Phase == {"idle", "loop", "drain", "release", "dropping", "dropRelease",
          "gone", "crashed"}

TypeOK ==
  /\ d \in DriverInner
  /\ shutdown \in ShutdownMode
  /\ tornDown \in BOOLEAN
  /\ pc \in Phase
  /\ fut \in [Ids -> {"none", "waiting", "done", "dropped"}]
  /\ asked \subseteq Ids
  /\ aborted \subseteq Ids
  /\ waiter \in {"none", "registered", "woken"}

Init ==
  /\ d = [entry    |-> [i \in Ids |-> Entry("Unborn", NoOp)],
          opAt     |-> [i \in Ids |-> "none"],
          cancelAt |-> [i \in Ids |-> "none"],
          slot     |-> [i \in Ids |-> "empty"],
          deferred |-> {}, holds |-> {}, pending |-> FALSE, failures |-> 0]
  /\ shutdown = "Running"
  /\ tornDown = FALSE
  /\ pc = "idle"
  /\ fut = [i \in Ids |-> "none"]
  /\ asked = {}
  /\ aborted = {}
  /\ waiter = "none"

-----------------------------------------------------------------------------
(* Questions the driver asks of its slab. *)

Live(s, i)    == s.entry[i].state = "Occupied"
At(s, i, l)   == Live(s, i) /\ s.entry[i].op.lifecycle = l

\* Mutant: operations with a queue entry count as never queued.
DescribedOrBuilt(s) == {i \in Ids : At(s, i, "Described") \/ At(s, i, "Built")}

Described(s)  == {i \in Ids : At(s, i, "Described")}
Built(s)      == {i \in Ids : At(s, i, "Built")}

Outstanding(s) == {i \in Ids : s.entry[i].state \in {"Occupied", "Tombstone"}}

AwaitingKernel(s) ==
  {i \in Ids : At(s, i, "Submitted") \/ s.entry[i].state = "Tombstone"}

\* Mutant: a cancellation that has reported counts as never requested.
SubmittedNotPending(s) ==
  {i \in Ids : At(s, i, "Submitted") /\ s.entry[i].op.cancel # "Pending"}

SubmittedUncancelled(s) ==
  {i \in Ids : At(s, i, "Submitted") /\ s.entry[i].op.cancel = "NeverRequested"}

DetachedSubmittedUncancelled(s) ==
  {i \in SubmittedUncancelled(s) : s.entry[i].op.observer = "Detached"}

\* Those a step of the driver could cancel: abandoned or asked for, once the
\* queue is accepted, or any at an immediate shutdown.
Cancellable(s, accepted) ==
  {i \in Ids : /\ Live(s, i) /\ s.entry[i].op.cancel = "NeverRequested"
               /\ s.entry[i].op.payload # "registration"
               /\ \/ accepted /\ (s.entry[i].op.observer = "Detached" \/ i \in s.deferred)
                  \/ shutdown = "Immediate"}

\* The record s with f(i) for the entry of every operation in S.
WithEntries(s, S, f(_)) ==
  [s EXCEPT !.entry = [i \in Ids |-> IF i \in S THEN f(i) ELSE @[i]]]

Moved(places, S, to) == [i \in Ids |-> IF i \in S THEN to ELSE places[i]]

-----------------------------------------------------------------------------
(* Steps of DriverInner, each from one bookkeeping record to the next. *)

\* issue_cancel for each operation of S.  Only a submitted operation that has
\* a file and was never cancelled is; a request the queue refuses leaves no
\* trace.
IssueCancels(s, S, refused) ==
  LET C == {i \in S \ refused : /\ i \in SubmittedUncancelled(s)
                                /\ s.entry[i].op.payload # "registration"}
      requested(i) == Entry("Occupied", [s.entry[i].op EXCEPT !.cancel = "Pending"])
  IN [WithEntries(s, C, requested) EXCEPT
        !.cancelAt = Moved(@, C, "queued"),
        !.holds    = @ \cup {i \in C : s.entry[i].op.payload = "owned"},
        !.pending  = @ \/ C # {}]

\* Mutant: operations somebody still awaits are cancelled with the abandoned.
CancelAll(s, refused) ==
  IssueCancels([s EXCEPT !.deferred = {}],
               s.deferred \cup SubmittedUncancelled(s), refused)

CancelAbandoned(s, refused) ==
  IssueCancels([s EXCEPT !.deferred = {}],
               s.deferred \cup DetachedSubmittedUncancelled(s), refused)

\* The kernel takes the whole submission queue.
Taken(s) ==
  [s EXCEPT !.opAt     = Moved(@, {i \in Ids : @[i] = "queued"}, "kernel"),
            !.cancelAt = Moved(@, {i \in Ids : @[i] = "queued"}, "kernel")]

Promote(s) ==
  LET promoted(i) == Entry("Occupied", Promoted(s.entry[i].op))
  IN WithEntries(s, Built(s), promoted)

\* Mutant: the flag is cleared after the cancellations have been queued.
SubmitThenClear(s, accepted, refused) ==
  IF ~s.pending THEN s
  ELSE IF accepted
    THEN [CancelAbandoned(Promote(Taken(s)), refused) EXCEPT !.pending = FALSE,
                                                             !.failures = 0]
    ELSE [s EXCEPT !.failures = IF @ < ResidueAttempts THEN @ + 1 ELSE @]

\* Mutant: a refused submission is not tried again.
SubmitOnce(s, accepted, refused) ==
  IF ~s.pending THEN s
  ELSE IF accepted
    THEN CancelAbandoned([Promote(Taken(s)) EXCEPT !.pending = FALSE,
                                                    !.failures = 0], refused)
    ELSE [s EXCEPT !.pending = FALSE]

\* submit_pending; accepted says whether the platform took the queue.
SubmitPending(s, accepted, refused) ==
  IF ~s.pending THEN s
  ELSE IF accepted
    THEN CancelAbandoned([Promote(Taken(s)) EXCEPT !.pending = FALSE,
                                                    !.failures = 0], refused)
    ELSE [s EXCEPT !.failures = IF @ < ResidueAttempts THEN @ + 1 ELSE @]

\* Mutant: the file is released with the operation that used it.
ResolvedWithHold(s, S, answer) ==
  LET over(i) == IF s.entry[i].op.cancel = "Pending"
                   THEN Entry("Tombstone", NoOp) ELSE Entry("Done", NoOp)
  IN [WithEntries(s, {i \in S : Live(s, i)}, over) EXCEPT
        !.slot = Moved(@, {i \in S : Live(s, i)}, answer), !.holds = @ \ S]

\* Mutant: the slot is freed although a cancellation is still to report.
ResolvedAndFreed(s, S, answer) ==
  LET over(i) == Entry("Done", NoOp)
  IN [WithEntries(s, {i \in S : Live(s, i)}, over) EXCEPT
        !.slot = Moved(@, {i \in S : Live(s, i)}, answer)]

\* complete, for each operation of S: the slot is kept as a tombstone while
\* a cancellation against it is still to report.
Resolved(s, S, answer) ==
  LET over(i) == IF s.entry[i].op.cancel = "Pending"
                   THEN Entry("Tombstone", NoOp) ELSE Entry("Done", NoOp)
  IN [WithEntries(s, {i \in S : Live(s, i)}, over) EXCEPT
        !.slot = Moved(@, {i \in S : Live(s, i)}, answer)]

\* Mutant: a cancellation that outlived its operation is not accounted for.
CancelsReportedToLive(s, S) ==
  LET reported(i) == Entry("Occupied", [s.entry[i].op EXCEPT !.cancel = "Completed"])
      due == {i \in S : Live(s, i) /\ s.entry[i].op.cancel = "Pending"}
  IN [WithEntries(s, due, reported) EXCEPT !.holds = @ \ S]

\* complete_cancel, for each operation of S, and the release of its hold.
CancelsReported(s, S) ==
  LET reported(i) ==
        IF Live(s, i) THEN Entry("Occupied", [s.entry[i].op EXCEPT !.cancel = "Completed"])
                      ELSE Entry("Done", NoOp)
      due == {i \in S : \/ Live(s, i) /\ s.entry[i].op.cancel = "Pending"
                        \/ s.entry[i].state = "Tombstone"}
  IN [WithEntries(s, due, reported) EXCEPT !.holds = @ \ S]

\* reap_completions pops the completions of the operations in O and of the
\* cancellations in C; the queue empties unless a pop fails.  Whichever of an
\* operation and its cancellation is popped first, the slot ends the same.
Reaped(s, O, C) ==
  LET popped == [s EXCEPT !.opAt = Moved(@, O, "reaped"),
                          !.cancelAt = Moved(@, C, "reaped")]
  IN CancelsReported(Resolved(popped, O, "completed"), C)

PostedOps(s)     == {i \in Ids : s.opAt[i] = "posted"}
PostedCancels(s) == {i \in Ids : s.cancelAt[i] = "posted"}

\* resolve_unqueued: what never got a queue entry is answered at once.
ResolveUnqueued(s) == Resolved(s, Described(s), "abandoned")

\* Everything a drain step does before it waits.
Pushed(s, accepted, refused) ==
  LET sent == SubmitPending(ResolveUnqueued(s), accepted, refused)
  IN IF shutdown = "Immediate"
       THEN IssueCancels(sent, SubmittedUncancelled(sent), refused) ELSE sent

\* The waiting submission is made only when no operation is still queued, and
\* may hand the queue over even when it reports an error.

\* Mutant: the driver waits as long as anything is outstanding.
MayAlwaysWait(s) == Outstanding(s) # {}

MayWait(s) == Built(s) = {} /\ Outstanding(s) # {}
Waited(s, taken) == IF MayWait(s) /\ taken THEN Taken(s) ELSE s

Quiescent(s) == Outstanding(s) = {}

\* Mutant: repeated failures alone are taken for an idle kernel.
GivesUp(s) == s.failures >= ResidueAttempts

UnsubmittableResidue(s) ==
  AwaitingKernel(s) = {} /\ s.failures >= ResidueAttempts

-----------------------------------------------------------------------------
(* The driver: Driver::drive, run_teardown_async and Driver's drop. *)

\* Nothing can be submitted to or popped from a closed ring.
RingAllows(accepted, O, C) == tornDown => ~accepted /\ O = {} /\ C = {}

StartDrive ==
  /\ pc = "idle"
  /\ pc' = "loop"
  /\ UNCHANGED <<d, shutdown, tornDown, fut, asked, aborted, waiter>>

\* The drive future is dropped where it is suspended: in its loop, or between
\* two drain steps (before the first, it is as if the loop had been dropped).
AbandonDrive ==
  /\ pc \in {"loop", "drain"}
  /\ pc' = "idle"
  /\ UNCHANGED <<d, shutdown, tornDown, fut, asked, aborted, waiter>>

\* One pass of the loop in drive.
Pass(accepted, refused, O, C) ==
  /\ pc = "loop"
  /\ RingAllows(accepted, O, C)
  /\ \E sent \in {SubmitPending(d, accepted, refused)} : d' = Reaped(sent, O, C)
  /\ pc' = IF shutdown # "Running" THEN "drain" ELSE "loop"
  /\ UNCHANGED <<shutdown, tornDown, fut, asked, aborted, waiter>>

\* drain_step, where next is the phase that follows it.  (A record is named by
\* a quantifier over one value, which TLC evaluates once.)
Step(accepted, refused, taken, O, C, next) ==
  \E pushed \in {Pushed(d, accepted, refused)} :
  \E waited \in {Waited(pushed, taken)} :
  \E s \in {Reaped(waited, O, C)} :
    /\ d' = s
    /\ pc' = IF Quiescent(s) \/ UnsubmittableResidue(s) THEN next ELSE pc

DrainStep(accepted, refused, taken, O, C) ==
  /\ \/ pc = "drain" /\ ~tornDown
        /\ Step(accepted, refused, taken, O, C, "release")
     \/ pc = "dropping"
        /\ Step(accepted, refused, taken, O, C, "dropRelease")
  /\ UNCHANGED <<shutdown, tornDown, fut, asked, aborted, waiter>>

\* A teardown that was abandoned and has since been finished by another.
TeardownFound ==
  /\ pc = "drain" /\ tornDown
  /\ pc' = "idle"
  /\ UNCHANGED <<d, shutdown, tornDown, fut, asked, aborted, waiter>>

\* What is still queued is discarded with the ring, and every payload left in
\* the slab is handed back with an answer for its future.
Discarded(places) == Moved(places, {i \in Ids : places[i] = "queued"}, "discarded")

\* Mutant: the payloads are dropped without an answer.
ReleasedSilently(s) ==
  LET gone(i) == Entry("Done", NoOp)
  IN [WithEntries(s, {i \in Ids : Live(s, i)}, gone) EXCEPT
        !.opAt = Discarded(@), !.cancelAt = Discarded(@), !.holds = {}]

\* resolve_abandoned, for every payload the slab still has.
ResolveAbandoned(s) ==
  LET lost == {i \in Ids : Live(s, i)}
      gone(i) == Entry("Done", NoOp)
  IN [WithEntries(s, lost, gone) EXCEPT !.slot = Moved(@, lost, "abandoned")]

Released(s) ==
  [ResolveAbandoned(s) EXCEPT
     !.opAt = Discarded(@), !.cancelAt = Discarded(@), !.holds = {}]

\* close_and_release, once the ring has closed: who awaits the shutdown is woken.
CloseAndRelease ==
  /\ pc \in {"release", "dropRelease"}
  /\ d' = Released(d)
  /\ tornDown' = TRUE
  /\ pc' = IF pc = "release" THEN "idle" ELSE "gone"
  /\ waiter' = IF waiter = "registered" THEN "woken" ELSE waiter
  /\ UNCHANGED <<shutdown, fut, asked, aborted>>

\* CLOSE_ATTEMPTS failures to close the ring abort the process.
CloseFails ==
  /\ pc \in {"release", "dropRelease"}
  /\ ~tornDown
  /\ pc' = "crashed"
  /\ UNCHANGED <<d, shutdown, tornDown, fut, asked, aborted, waiter>>

DropDriver ==
  /\ pc = "idle"
  /\ IF tornDown THEN pc' = "gone" /\ UNCHANGED shutdown
                 ELSE pc' = "dropping" /\ shutdown' = "Immediate"
  /\ UNCHANGED <<d, tornDown, fut, asked, aborted, waiter>>

\* What the platform answers to the calls of one step: whether it takes the
\* queue, if the step submits; which requests to cancel it refuses, of those
\* the step could make; whether the waiting submission takes the queue; and
\* what it lets the driver pop.
DriverStep ==
  \E accepted \in {FALSE, d.pending}, taken \in {FALSE, Outstanding(d) # {}} :
    \E refused \in SUBSET Cancellable(d, accepted),
       O \in SUBSET PostedOps(d), C \in SUBSET PostedCancels(d) :
         \/ ~taken /\ Pass(accepted, refused, O, C)
         \/ DrainStep(accepted, refused, taken, O, C)

-----------------------------------------------------------------------------
(* Callers: try_read and its siblings, OpFuture, Handle. *)

\* The queue entry is built in the borrow that places the payload.
StartOp(i) ==
  /\ d.entry[i].state = "Unborn"
  /\ shutdown = "Running"
  /\ d' = [d EXCEPT !.entry[i] =
                       Entry("Occupied", Advanced(NewOp(Target[i]), "Built")),
                     !.opAt[i] = "queued",
                     !.pending = TRUE]
  /\ fut' = [fut EXCEPT ![i] = "waiting"]
  /\ UNCHANGED <<shutdown, tornDown, pc, asked, aborted, waiter>>

\* recover_buffer: the slot is given up and its buffer goes back to the caller.
Recovered(s, i) == [s EXCEPT !.entry[i] = Entry("Done", NoOp)]

\* The queue is full, or the slab is.
StartRefused(i) ==
  /\ d.entry[i].state = "Unborn"
  /\ shutdown = "Running"
  /\ d' = Recovered(d, i)
  /\ fut' = [fut EXCEPT ![i] = "done"]
  /\ UNCHANGED <<shutdown, tornDown, pc, asked, aborted, waiter>>

\* poll_resolution takes the answer; without one the future goes on waiting.
Collect(i) ==
  /\ fut[i] = "waiting"
  /\ d.slot[i] # "empty"
  /\ d' = [d EXCEPT !.slot[i] = "empty"]
  /\ fut' = [fut EXCEPT ![i] = "done"]
  /\ UNCHANGED <<shutdown, tornDown, pc, asked, aborted, waiter>>

\* request_cancel: issued now, or once the kernel has the operation.
RequestCancel(s, i, refused) ==
  IF tornDown \/ ~Live(s, i) THEN s
  ELSE IF At(s, i, "Submitted") THEN IssueCancels(s, {i}, refused)
  ELSE [s EXCEPT !.deferred = @ \cup {i}]

Detached(s, i) ==
  [s EXCEPT !.entry[i].op.observer = "Detached"]

\* A future dropped before it resolved.
DropFuture(i, refused) ==
  /\ fut[i] = "waiting"
  /\ fut' = [fut EXCEPT ![i] = "dropped"]
  /\ d' = IF ~Live(d, i) THEN [d EXCEPT !.slot[i] = "empty"]
          ELSE IF At(d, i, "Described") THEN Resolved(Detached(d, i), {i}, "empty")
          ELSE IF At(d, i, "Submitted") THEN RequestCancel(Detached(d, i), i, refused)
          ELSE Detached(d, i)
  /\ UNCHANGED <<shutdown, tornDown, pc, asked, aborted, waiter>>

\* The same while the driver is borrowed (a waker or a buffer that is dropped
\* there may own the future): nothing is recorded, so the operation goes on
\* as if it were awaited, and nobody will read its answer.
DropFutureBorrowed(i) ==
  /\ fut[i] = "waiting"
  /\ fut' = [fut EXCEPT ![i] = "dropped"]
  /\ d' = IF Live(d, i) THEN d ELSE [d EXCEPT !.slot[i] = "empty"]
  /\ UNCHANGED <<shutdown, tornDown, pc, asked, aborted, waiter>>

\* Handle::cancel
Cancel(i, refused) ==
  /\ Live(d, i)
  /\ d' = RequestCancel(d, i, refused)
  /\ asked' = asked \cup {i}
  /\ UNCHANGED <<shutdown, tornDown, pc, fut, aborted, waiter>>

\* Handle::shutdown and Handle::shutdown_now only ever raise the mode.
Escalate(mode) ==
  /\ \/ mode = "Graceful" /\ shutdown = "Running"
     \/ mode = "Immediate" /\ shutdown # "Immediate"
  /\ shutdown' = mode
  /\ UNCHANGED <<d, tornDown, pc, fut, asked, aborted, waiter>>

\* ShutdownComplete's poll, which is over once the ring is closed, and its drop.
AwaitShutdown ==
  /\ Awaited
  /\ waiter' = IF tornDown THEN "none" ELSE "registered"
  /\ UNCHANGED <<d, shutdown, tornDown, pc, fut, asked, aborted>>

DropWaiter ==
  /\ waiter # "none"
  /\ waiter' = "none"
  /\ UNCHANGED <<d, shutdown, tornDown, pc, fut, asked, aborted>>

CallerStep ==
  \/ \E i \in Ids : StartOp(i) \/ StartRefused(i) \/ Collect(i) \/ DropFutureBorrowed(i)
  \/ \E i \in Ids : \E refused \in SUBSET {i} : DropFuture(i, refused) \/ Cancel(i, refused)
  \/ \E mode \in ShutdownMode : Escalate(mode)
  \/ AwaitShutdown \/ DropWaiter

-----------------------------------------------------------------------------
(* The kernel, as the code relies on it: every entry it took is answered    *)
(* once, in any order; a cancellation may find its target or miss it.       *)

KernelCompletes(i) ==
  /\ d.opAt[i] = "kernel"
  /\ i \in Stuck => i \in aborted
  /\ d' = [d EXCEPT !.opAt[i] = "posted"]
  /\ UNCHANGED <<shutdown, tornDown, pc, fut, asked, aborted, waiter>>

KernelCancels(i) ==
  /\ d.cancelAt[i] = "kernel"
  /\ d' = [d EXCEPT !.cancelAt[i] = "posted"]
  /\ aborted' = IF d.opAt[i] = "kernel" THEN aborted \cup {i} ELSE aborted
  /\ UNCHANGED <<shutdown, tornDown, pc, fut, asked, waiter>>

Next ==
  \/ StartDrive \/ AbandonDrive \/ DriverStep \/ TeardownFound
  \/ CloseAndRelease \/ CloseFails \/ DropDriver
  \/ pc # "crashed" /\ CallerStep
  \/ pc # "crashed" /\ \E i \in Ids : KernelCompletes(i) \/ KernelCancels(i)

Spec == Init /\ [][Next]_vars

-----------------------------------------------------------------------------
(* Safety. *)

\* The buffer and file of an operation stay in the slab for as long as a
\* queue entry or the kernel refers to them, whatever is dropped, cancelled,
\* abandoned or shut down meanwhile: no release before the kernel is done.
BufferPinned ==
  \A i \in Ids : d.opAt[i] \in {"queued", "kernel"} => Live(d, i)

\* A cancellation against a caller's file keeps that file open until the
\* cancellation itself has reported, even after its target completed.
HandlePinned ==
  \A i \in Ids : d.cancelAt[i] \in {"queued", "kernel"} /\ Target[i] = "owned"
                 => i \in d.holds

\* What the slab records of an operation's progress is where its queue entry
\* really is: the drain decides from this record whether it may wait and
\* whether it may give entries up.
LifecycleTruthful ==
  \A i \in Ids : Live(d, i) =>
    /\ At(d, i, "Built") <=> d.opAt[i] = "queued"
    /\ At(d, i, "Submitted") <=> d.opAt[i] \in {"kernel", "posted"}

\* A tombstone waits for exactly the cancellation that is still under way,
\* so no slot is withheld for ever and none is reused too early.
TombstoneExact ==
  \A i \in Ids : d.entry[i].state = "Tombstone" <=>
    /\ d.opAt[i] = "reaped"
    /\ d.cancelAt[i] \in {"queued", "kernel", "posted"}

\* An entry in the submission queue is never forgotten: the driver knows it
\* owes a submission until the ring is closed.
QueuedIsOwed ==
  ~tornDown => \A i \in Ids : "queued" \in {d.opAt[i], d.cancelAt[i]} => d.pending

\* A future that still waits on an operation that is over finds an answer,
\* and a future that has resolved is never answered again.
AnsweredOnce ==
  \A i \in Ids :
    /\ fut[i] = "waiting" /\ ~Live(d, i) => d.slot[i] # "empty"
    /\ fut[i] = "done" => d.slot[i] = "empty"

\* The driver cancels an operation only if its caller asked for it, dropped
\* its future, or is shutting down at once: "a graceful shutdown never
\* cancels" what a caller still awaits.
CancelledOnlyOnRequest ==
  \A i \in Ids : d.cancelAt[i] # "none" =>
    i \in asked \/ fut[i] = "dropped" \/ shutdown = "Immediate"

\* The ring is never closed over anything the kernel accepted.
ClosedWhenIdle ==
  tornDown => \A i \in Ids : {d.opAt[i], d.cancelAt[i]} \cap {"kernel", "posted"} = {}

\* At most one cancellation is ever issued against an operation: its entry
\* only moves forward.
CancelOnce ==
  [][\A i \in Ids : d'.cancelAt[i] = "queued" => d.cancelAt[i] \in {"none", "queued"}]_vars

-----------------------------------------------------------------------------
(* Liveness. *)

\* A pass and a drain step that pop every completion there is.
ReapingPass(accepted, refused) ==
  Pass(accepted /\ ~tornDown, refused, PostedOps(d), PostedCancels(d))

ReapingDrain(accepted, refused, taken) ==
  DrainStep(accepted, refused, taken, PostedOps(d), PostedCancels(d))

\* The executor polls a drive future that is ready and teardown goes on once
\* it has begun, a woken caller polls its future, and the kernel answers.
\* (An operation is answered and collected once, so fairness of the union is
\* fairness of each.)
Scheduling ==
  /\ WF_vars(StartDrive \/ TeardownFound \/ CloseAndRelease \/ CloseFails)
  /\ WF_vars(pc # "crashed" /\ \E i \in Ids : Collect(i))
  /\ WF_vars(pc # "crashed" /\ \E i \in Ids : KernelCompletes(i) \/ KernelCancels(i))

\* Strong fairness of such a pass and of such a drain step, with the condition
\* under which it changes anything written out: there is something to submit,
\* something to pop, someone to cancel, or the next phase to enter.
SubmitDue(accepted) ==
  d.pending /\ ((accepted /\ ~tornDown) \/ d.failures < ResidueAttempts)

PassDue(accepted) ==
  /\ pc = "loop"
  /\ \/ SubmitDue(accepted) \/ PostedOps(d) \cup PostedCancels(d) # {}
     \/ shutdown # "Running"

DrainDue(accepted) ==
  /\ pc = "dropping" \/ (pc = "drain" /\ ~tornDown)
  /\ \/ SubmitDue(accepted) \/ PostedOps(d) \cup PostedCancels(d) # {}
     \/ shutdown = "Immediate" /\ \E i \in SubmittedUncancelled(d) :
                                   Target[i] # "registration"
     \/ Quiescent(d) \/ UnsubmittableResidue(d)

Stepping(accepted) ==
  /\ []<>PassDue(accepted) => []<><<ReapingPass(accepted, {})>>_vars
  /\ []<>DrainDue(accepted) => []<><<ReapingDrain(accepted, {}, accepted)>>_vars

\* The platform takes the queue again and again, and refuses nothing then.
FairSpec == Spec /\ Scheduling /\ Stepping(TRUE)

\* The driver goes on stepping, but the platform may refuse every submission
\* from some point on.
RefusingSpec == Spec /\ Scheduling /\ Stepping(FALSE)

\* Torn down, and known to be by whoever awaits it.
Ended == (tornDown /\ waiter # "registered") \/ pc = "crashed"

\* An immediate shutdown ends even when an operation would never complete by
\* itself, and a graceful one ends unless it waits for such an operation:
\* INV-DRAIN-TERMINATES, with the drain abandoned and resumed at will.
ShutdownCompletes ==
  \/ shutdown = "Immediate"
  \/ shutdown = "Graceful" /\ \A i \in Stuck : ~Live(d, i)
  ~> Ended

\* A future on an operation the kernel will finish is resolved: by its
\* completion, or by the teardown that abandons it.
FutureAnswered ==
  \A i \in Ids \ Stuck : fut[i] = "waiting" ~> fut[i] # "waiting" \/ pc = "crashed"

KernelHoldsNothing ==
  \A i \in Ids : {d.opAt[i], d.cancelAt[i]} \cap {"kernel", "posted"} = {}

\* docs/design.md:235 of the drain: "It ends when the kernel holds nothing,
\* however long that takes."
DrainEndsWhenKernelIdle ==
  shutdown # "Running" /\ KernelHoldsNothing ~> Ended \/ ~KernelHoldsNothing
=============================================================================
