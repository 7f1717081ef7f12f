# Verification of win-ioring

`win-ioring` (src/crates/win-ioring) is an asynchronous I/O library over the
Windows I/O ring.  A *driver* owns a ring and a table of operations; callers
start operations through a *handle* and await *futures*; the kernel takes
entries from a submission queue, works on the caller's buffers, and posts
completions.  The promise of the library is memory safety without blocking: a
buffer, a file handle or a table slot is never given back while the kernel may
still refer to it, and yet everything is given back in the end.  This directory
models the parts that carry the promise, the executor its tests run on and the
benchmarks that measure it, checks them with TLC, and proves every safety property
the runs check with TLAPS, for all values of the constants.

## Inventory

| Component | State it keeps | Operations | Interacts with | Hard because |
|---|---|---|---|---|
| Token (`runtime/slab.rs`) | none: packs kind, slot index and generation into one word | `new`, accessors, `to_cancel` | user data of every queue entry | limits of the fields; the value 0 means "everything" to the platform |
| OpSlab (`runtime/slab.rs`) | vector of slots, linked free list, generations, counter | `insert`, `set_lifecycle`, `detach`, `register_cancel`, `complete`, `complete_cancel`, `drain`, queries | called by the driver under its borrow | stale tokens, reuse, an operation and its cancellation completing in either order |
| Driver (`runtime/mod.rs`) | `DriverInner`: ring, slab, deferred cancellations, held files, `pending_submit`, failure count, shutdown mode | `submit_pending`, `issue_cancel`, `reap_completions`, `drain_step`, `close_and_release`, `drive`, drop | kernel through the ring; wakers and observers run between its borrows | refusals, drain abandoned and resumed, escalation, unsubmittable residue |
| Futures and Handle (`runtime/mod.rs`) | result slot shared with the operation's payload | start, poll, drop, cancel, shutdown | driver | dropped at any point of the operation's life |
| Park (`runtime/mod.rs`) | nudge flag, driver's waker | `drive`'s loop, `Park::poll`, drops, `nudge` | callers on the same thread, ArmedEvent from another | lost wakeups |
| ArmedEvent (`sys/event.rs`) | sticky flag and waker under a mutex, registration state, reference count lent to the pool | `poll_signalled`, `release_waker`, callback, three-step drop | thread pool, Park, pipe server | callbacks concurrent with the drop; failed unregister |
| Ring wrapper (`io_ring/`) | the handle, its closed flag, what its host supports | build, submit, pop, close, entry builders | platform; owned by the driver | refusals, closing, entries by index |
| Registered buffers and files (`runtime/registry.rs`, `runtime/mod.rs`) | current and retired registrations, in-flight flag, checked-out flags, initialized prefix | register, adopt, check out, release, raise | driver on completion, ring | supersession while a registration is in flight |
| File and cursor (`file.rs`) | cached type, cursor, outstanding flag | open, sequential and positional operations, flush, `set_cursor` | payload holds the guard; errors | dropped futures, clones of one file |
| Pipe server (`pipe/server.rs`) | accept state, OVERLAPPED the kernel writes to | create, accept, collect, disconnect, I/O, drop | ArmedEvent, kernel, driver | cancel, completion and teardown in any order |
| Pipe client (`pipe/client.rs`, `pipe/io.rs`) | a File | open, read, write, flush | file, errors | error classification |
| Errors (`error.rs`, `*/error.rs`) | none | conversions between surfaces | every future | an error passes two or three conversions |
| Executor (`win-ioring-tests/src/rt.rs`) | queues of tasks, two waker registries, join channels | spawn, `block_on`, `run`, wake | other threads; runs the drive future | wakes from other threads, calls that leave tasks behind |
| Comparison and handle-mode benchmark (`win-ioring-bench`) | session, evidence, ledger, account | prepare, warm up, iterate, tear down, judge | driver, backends, pools | an error in one iteration, weakened backends |
| Unbuffered benchmark (`win-ioring-bench`) | alignment, working file, aligned pool | query, create, build, read, unwind | device, driver | sector arithmetic, out-of-order completions |
| Buffer traits, scenarios of the tests | none | | | |

What makes each correct: the slab must behave as a table whose names are never
reused; the driver must pin what the kernel holds, answer every future once,
cancel only on request and only once, and close the ring only when the kernel is
idle; parking must lose no wakeup; the event must not be dismantled under a
callback; a registration must not be superseded under a checked-out buffer; a
sequential operation must not start while another is outstanding; an accept's
memory must outlive the kernel's use of it; an error must say what happened; the
executor must lose neither a task nor a wake; a benchmark must not report a time for
work that failed, was not done, or was not done at the depth it names.  `PROJECT.json` lists the places
where this is hard to test (`hazards`), with the properties that cover them.

## Modules

| Module | Models |
|---|---|
| `Token` | the token layout; `MaxSlots` and `GenerationMask` are the field widths |
| `Operations` | what is recorded of one operation and how the record changes |
| `OpTable` | abstract: a table of operations under names that are never reused |
| `OpSlab` | the slab; `ImplementsTable` maps it onto `OpTable` |
| `OpSlabProofs` | TLAPS proofs about `OpSlab`, its refinement of `OpTable` included |
| `Driver` | the driver, its futures and handles, and the kernel |
| `MCDriver` | instances of `Driver` for TLC |
| `DriverProofs` | TLAPS proofs about `Driver` |
| `ArmedEvent` | the event, its callback and its drop |
| `Park` | drive's loop, parking and waking, composed with `ArmedEvent` |
| `ParkProofs` | TLAPS proofs about `Park` and `ArmedEvent` |
| `Ring` | the raw ring: what a builder, a closed ring and a full queue refuse, and how an entry names its file and memory |
| `Registry` | a driver on a `Ring`, with registered buffers and files |
| `MCRegistry` | instance of `Registry` for TLC |
| `RegistryProofs` | TLAPS proofs about `Registry` |
| `PipeServer` | one pipe instance, its accepts, its I/O and its drop, composed with `ArmedEvent` |
| `MCPipeServer` | the options for TLC |
| `PipeServerProofs` | TLAPS proofs about `PipeServer` |
| `Errors` | the error types and their conversions, as operators |
| `FileCursor` | a file or pipe client: guard, cursor, positional calls, flushes, and the errors its futures report by `Errors` |
| `FileCursorProofs` | TLAPS proofs about `FileCursor` and the conversions of `Errors` |
| `Runtime` | the test executor |
| `RuntimeProofs` | TLAPS proofs about `Runtime` |
| `Window` | one run of a benchmark's window over a pool of buffers |
| `Bench` | a combination of the comparison or of the handle-mode arm, over `Window` |
| `Unbuffered` | a cell of the unbuffered arm |
| `Benchmarks` | the two benchmark programs side by side, and their properties |
| `MCBench` | instances of both for TLC |
| `BenchProofs` | TLAPS proofs about both programs |

### OpSlab

`slots`, `len`, `freeHead`, `occupied` are the fields of the code's struct;
`slots` is a function on all indices whose entries past `len` are `Absent`.
Each method that changes state is one action; `ret` records what the call handed
out, which is what the refinement observes.  The environment is unconstrained:
every method can be called at any time with any word as token.  Payloads are
opaque values.  `Unrecognised` stands for every call that finds nothing.  The
loop of `drain` is written as its result: a recycled slot links to the recycled
slot below it.

`OpTable` has no slots or generations.  Under the mapping, token (i, g) is Done
once slot i has moved past generation g, Unborn until the slot is occupied at g,
and otherwise what the slot says.  `ImplementsTable` therefore says that a stale
token never reaches a later operation, that a payload comes back once and for
its own token, and that a tombstone names nothing new.

### Driver

Everything in `DriverInner` sits in a `RefCell` on one thread, so each borrow is
one action: a pass of `drive`'s loop, one `drain_step`, `close_and_release`, the
start, poll and drop of a future, `Handle::cancel` and the shutdown requests.
Between borrows anything may happen, which covers wakers and the error observer
running inside `drive`.  `d` is the bookkeeping record; `opAt` and `cancelAt` say
where the entry of an operation or of a cancellation really is, which the code
cannot see and the properties compare with what it records.

The steps of a borrow are operators from record to record (`SubmitPending`,
`CancelAbandoned`, `IssueCancels`, `Reaped`, ...), composed in the order of the
code.  The platform's answers are existential: whether a submission is
accepted, which cancellation requests the queue refuses, whether a waiting
submission takes the queue, which completions can be popped.  Operations are
named as `OpTable` names them; that is what the slab is shown to implement.
An operation works on a caller's file (`owned`), a registered file
(`registered`) or is itself a registration, which cannot be cancelled.

Assumed of the kernel, as the code assumes it: a submission that returns an error
took nothing, except a waiting one; every entry taken is answered once, in any
order; a cancellation may find its target or not.  `Stuck` operations complete
only when a cancellation has found them.

A future may be dropped while the driver is borrowed, by a payload or a waker that
owns it: it then returns without detaching (`DropFutureBorrowed`).  A
`ShutdownComplete` registers one waiter (`waiter`), which the release wakes.

Left out: error reports and their throttling, the submission counters, the flags of
entries.  Adoption of registrations, and the validation of lengths and indices, are in
`Registry`.

### Park and ArmedEvent

One thread runs the drive future and all callers, so `pc` says where `drive` is
and callers act whenever no borrow is held (`NoBorrow`), including while wakers
run inside a pass (`callbacks`) and while an evicted waker is dropped between the
two halves of `Park::poll` (`parkArm`).  The kernel and the pool are
concurrent: the kernel signals the event with each completion, the pool consumes
the signal, the callback takes the mutex (one action), then wakes (another).
Two tasks can take turns at driving, so a waker left behind by an abandoned drive
future would be seen.  Submissions and completions are counted only; a teardown
is one step, since `Driver` has its detail.  `DropDriver` goes on to the drop of
the event: unregister, reclaim, close, where the unregister waits for callbacks
or fails.

### Ring and Registry

`Ring` has the builder (a host must provide the features and the version asked
for), the closed flag every method asks first, the queue's room and the two ways an
entry names its file (`HandleRef`) and its memory (`BufferRef`).  `Registry` builds a
driver on such a ring, or fails to and closes it.

A read or write into a registered buffer names it by index, and the platform
resolves the index against the registration it completed last (`mapped`), which
is ahead of what the driver has adopted (`current`) until the completion is
reaped.  Registrations of buffers and of files share one path and complete in the
platform's order (`posted`); only those of buffers set the in-flight flag.  A
`RegisteredBuf` is a record that says where the value is: with the
application, in the payload of an operation that is built, in the kernel or
posted, or in a result slot.  `initialized` is its cached copy of the
registration's count `prefix`; `written` is a history of what was really stored.
An operation names its buffer by index or takes the handle as an ordinary buffer by
address (`PlainOp`), whose read sets the count to what it transferred when its
future is polled; its file is the caller's or a registered one.  Entries are taken by
the kernel together and executed in any order.  Handles of another driver's
registration are offered to this one's calls by index; that driver is taken to
allow their checkout.  Closing happens when the kernel has nothing, which is what
`Driver` shows.

Nothing ties an operation on a registered file to the file set its index was
checked against (`docs/pending-work.md:78-86`), so of files
`ResolvesOwnRegistration` says only that some set is registered.

### PipeServer

A connect is an overlapped operation beside the ring: the kernel writes a status
word (`status`), then signals the event of the slot (`owed`, `event`).  `op` is the
kernel's side: pending, being finished for a client or for an error, or over.
`begin_accept` is split by its outcomes; `collect` and the drop block, so each
blocking call and each read of the status is a step (`pc`).  An `Accept` borrows
the server, so nothing else is called while there is one; it can be dropped at
any time and another task can resume the connect.  `SpuriousSignal`, at most
`MaxSpurious` times, is the signal without a terminal status for which `collect`
has an arm; with it the drop can also find a collect that returned too early.  Of
the platform's pipe the model keeps whether it listens, has a client, has one
that left, or was disconnected.  `Create` takes the options the name admits, given
the `Others` that exist.  `Server::file` refuses in every state but `Connected`, and
an operation through it (`io`) goes through the ring: it may outlast a disconnect
or the server.  An event whose release fails while a collected
slot is dropped is leaked and not followed further.

### FileCursor and Errors

`kernel` holds the sequential operations whose payloads the driver has; the
guard in the payload is why `outstanding` falls at completion and not at the poll
that moves `cursor`.  `Values` are clones of one `File`.  A clone can start between
completion and poll from a cursor already used, which `docs/pending-work.md:89-104`
records as open: such a start puts both values in `excused`, as `set_cursor` does,
and `DeliveredAtCursor` says there is no other way for a cursor to move under an
operation.  `positional` are the futures that touch neither guard nor cursor: of a
`File`, of a pipe `Client` and of the driver's own calls.

In `Errors` an error is the sequence of the variants it is nested in.  The two
tables from platform codes to conditions are functions; each surface's conversion is
an operator.  Every future of `FileCursor` ends in the conversion of its surface, and
`ReportsHonestly` compares what its caller sees with what the driver answered,
whichever path the error took.

### Runtime

A task is what it does to the executor: spawn, await a join handle, yield, wait for
another thread's event, finish.  `run_until` is its steps (`Top`, `Pop`, the poll
piece by piece, `ProcessWoken`, `ProcessShared`), between any two of which another
thread can set its condition and wake.  Queues are sets, which allows every order
of polling.  `block_on` and `run` can be called any number of times on what
earlier calls left behind.  The set of tasks is finite, so a chain of tasks that
each spawn the next for ever, which would keep the inner loop of `run_until`
(`rt.rs:506-536`) from ever looking at the woken lists, is outside the model.

### Window, Bench, Unbuffered

`Window` is `Runner::run`: a refill, which is synchronous, then an await of any
outstanding operation.  An error drops the window with its buffers.  `Bench` is
`measure_combination_with` for each backend of the rotated order: prepare, register,
open (once, with the mode read back, in the handle-mode arm), warm up, iterate as
often as the timer wants, finish, judge.  A backend may be weakened the way
`weaken.rs` does it, which is how the repository itself tests its comparator.  A ring
backend's driver keeps abandoned operations (`orphans`) until its drain.
`SequentialRead` stands for the random read too.  In `Unbuffered` a cell asks the
volume for its sectors, creates the file, builds a configuration and runs
`issue_reads`; sizes are in units of the smallest sector.  A read the device would
refuse under `FILE_FLAG_NO_BUFFERING` fails, and an error panics, which drops
everything on the way out.  The registered backend measures a read against its buffers'
length before it takes one, the others after (`TakeRegistered`, `TakeBuffer`).

## Runs

| Run | Checks | Result |
|---|---|---|
| `slab` | type, free list, counter, token 0, refinement of `OpTable` | pass, 18 thousand states |
| `driver_safety` | the nine safety properties of `Driver` | pass, 387 thousand states |
| `driver_liveness` | `ShutdownCompletes`, `FutureAnswered` | pass, 84 thousand states |
| `driver_residue` | `DrainEndsWhenKernelIdle` | violated: see below |
| `park` | `NoLostWakeup`, `CallbackSafe`, `WorkGetsAPass`, `DropReturns` | pass, 126 thousand states |
| `runtime` | `NoTaskLost`, `BlockOnDelivers`, `NoLostWake`, `WokenIsPolled` | pass, 65 thousand states |
| `registry` | `ResolvesOwnRegistration`, `OneHandle`, `PinnedIsKept`, `PrefixHonest`, `WritesInitialized` | pass, 1.4 million states |
| `pipe_server` | `KernelMemoryKept`, `OkMeansClient`, `AcceptResolves`, `DropReturns` | pass, 284 thousand states |
| `pipe_accepts_clients` | `AcceptsClientsTruthful` | violated: see below |
| `pipe_repark` | `ReparkedAcceptResolves` | violated: see below |
| `file_cursor` | `GuardExact`, `DeliveredAtCursor`, `ReportsHonestly` | pass, 2.1 million states |
| `bench` | `MeasuredAlike`, `FailureNeverMeasured`, `ShapeHonest`, `MeasurementReturns` | pass, 617 thousand states |

Bounds.  *slab*: two slots with two generations each reach growth, reuse,
retirement, a full vector, a free list of two and a drain of two.
*driver*: two operations are the fewest that tell one operation's bookkeeping
from another's; one is on a caller's file, the other on a registered file
(safety) or a registration (liveness).  `ResidueAttempts` is 2 where the code has
8: the counter only matters at its threshold, and 2 separates "failed" from
"failed often enough".  Each operation is started once, because names are not
reused.  *park*: two callbacks at once, two operations (`MaxOps`), two tasks.
*runtime*: three tasks, so that one can join a second while a third, woken by another
thread, runs between.  *registry*: two registrations of buffers and two of files, of
which `MaxRegistrations` allows three, so that each sort can supersede itself with one
of the other in flight; `QueueSize` 2, so that the queue is full; two handles, so
that one can be taken while another is out or in an abandoned operation; two bytes
(`Extent`), so that there is a gap in front of a transfer; `Hosts` that have all, are
too old, have no completion event or cannot register, and `Requests` for the host's
best or a fixed version.  *pipe*: two tasks, two callbacks, one early signal, one
other instance of the name (`Others`), and `Options` of a duplex pipe, a read-only one
and three that are refused.  *file_cursor*: two clones, one positional call, a cursor
that saturates within a few transfers.  *bench*: `MaxCount` 3 operations at depths 2
and 3 with a registration of 2, so that a window is full, starved or bound by its
pool; `MaxIterations` 2, the fewest for which first and last differ; backends
weakened from the warm-up or from either iteration.  *bench*, unbuffered: three
`Operations` at depth 1 and 2, a pool of threads (`WidePool`) of 2, two iterations
(`MaxRuns`), a file and blocks of sizes that do not divide each other, and `Volumes`
that are plain, strict, stricter than a block, or unusable.
`driver_*`, `park`, `registry`, `pipe_*` and `bench` may stop (a driver or a server
that was dropped has nothing to do, a benchmark ends), so they do not check
deadlock; what must go on is stated as liveness instead.

Fairness.  `Driver`: the executor polls a drive future that was woken and starts
one again when it was abandoned; a teardown that began goes on; a woken caller
polls its future; the kernel answers what it can.  Passes and drain steps are
strongly fair, in the form "if a step that would change something is possible
time and again, one that pops every completion is taken time and again"
(`Stepping`), with acceptance by the platform for `FairSpec` and without it for
`RefusingSpec`; the condition is written out instead of ENABLED, which TLC is slow
to evaluate here.  Strong, because a drive future may be abandoned and
restarted between any two steps.  `Park`: the driver runs on while it is polled; a
task that is ready time and again is polled; a drive future is started when there
is none; the pool runs callbacks and lets them finish; an unregister that does not
fail returns only once no callback is left.  Nothing is assumed of callers.
`PipeServer`: the same of its executor, pool and unregister; a drop goes on when it
can; the kernel finishes a connect that found a client, broke or was located by a
cancel, and signals it.  No client has to come, and a pending connect need not end.
`Runtime`: `run_until` is a loop of a running thread, and a thread that has made its
condition true goes on to the wake; nobody has to call `block_on`, `run` or `spawn`, or
to raise an event.  `Benchmarks`: the harness runs on its own thread and the
platform ends an operation that was issued; neither how it ends nor how often the
timer iterates is assumed.

### What `driver_residue` shows

`docs/design.md` says of the drain: "It ends when the kernel holds nothing,
however long that takes."  The drain gives up entries it cannot submit when
`awaiting_kernel()` is 0 and submission failed often enough, and
`awaiting_kernel` counts every tombstone.  An operation may complete while the
cancellation against it is still queued; its slot is then a tombstone.  If the
platform refuses every submission from there on, the cancellation never reaches
the kernel, the tombstone never goes away, and the drain neither becomes quiescent
nor gives up, although the kernel holds nothing.

### What `pipe_accepts_clients` shows

A fresh instance is taken by the first client that arrives, with no call of the
server, whose state stays `Fresh`.  `accepts_clients()` is then still true, although
it is documented as "Whether a client connecting **right now** would reach this
instance" and the next client is refused as busy.

### What `pipe_repark` shows

When `collect` finds no terminal status behind a signal, `Accept::poll` calls
`poll_signalled` a second time to record its waker, and wakes its own task if that
call says Ready.  But that call consumes the signal.  If the connect's real signal
is recorded between the two calls, the task's next poll finds none, records its
waker and sleeps: the status word is terminal and no signal will follow.
`AcceptResolves` holds: it is the same property where no signal came early.

## Proofs

Every invariant and every action property a passing run checks is a theorem, and so
is the refinement.  Each proof module states one inductive invariant, which was first
checked by TLC as an invariant of the run's instance, proves that every action keeps
it (a lemma per action or per operator, a step per conjunct), and reads the properties
off it.

| Module | Theorems | For every |
|---|---|---|
| `OpSlabProofs` | `TypeCorrect`, `FreeListCorrect`, `OccupiedCorrect`, `TokensNonZero`, `SlabImplementsTable` | number of slots and generations above 0, set of payloads |
| `DriverProofs` | `BuffersPinned`, `HandlesPinned`, `LifecyclesTruthful`, `TombstonesExact`, `QueuedAreOwed`, `FuturesAnsweredOnce`, `CancelledOnRequest`, `RingClosedWhenIdle`, `CancelledOnce` | set of operations and what they refer to, residue limit |
| `ParkProofs` | `CallbacksSafe`, `NoWakeupLost` | number of tasks, callbacks, operations |
| `RegistryProofs` | `IndicesResolve`, `BuffersHaveOneHandle`, `RegistrationsKept`, `PrefixesHonest`, `WritesAreInitialized` | set of registrations, file sets, handles and indices, extent, queue size, host |
| `PipeServerProofs` | `KernelMemoryIsKept`, `OkMeansAClient` | number of tasks, callbacks, early signals, other instances; options |
| `FileCursorProofs` | `GuardsExact`, `DeliversAtCursor`, `ReportsAreHonest` | finite set of clones, set of calls, cursor and length bound |
| `RuntimeProofs` | `TasksKept`, `BlockOnReturnsResult`, `WakesKept` | set of tasks, subset that other threads wake |
| `BenchProofs` | `MeasuredDidTheSame`, `FailuresNeverMeasured`, `ShapesHonest` | matrix of backends, depths, counts, registrations and weaknesses; grid of cells, blocks and volumes |

Assumptions.  The proofs use the ASSUMEs of the modules and nothing else.  Beyond
the types of the constants these say: a registration is never empty (the code
refuses it, `runtime/mod.rs:2285`); a cell's file has room for a block of either size
(`unbuffered_matrix.rs:130-156`); the sizes a volume reports have a largest, as a
finite list has; a weakness is one of `weaken.rs`'s four; a benchmark iteration
has an operation at least.

*OpSlab.*  The invariant is `SlabInv == TypeOK /\ FreeListExact /\ OccupiedExact`.
None of the parts is inductive alone: that `insert` stays in the vector and
takes a slot nobody uses rests on the head of the free list being vacant, and
that the *next* head is vacant rests on the shape of the whole list.
`FreeListExact` states that shape without recursion, by a numbering of the vacant
slots that descends along the links; `FreeListKept`, `FreeListPopped`,
`FreeListPushed` and `FreeListDrained` give the new numbering after each kind of
step.  `FreeListDrained` is the longest: it numbers the recycled slots by how
many recycled slots lie below them.  `TokensNonZero` follows from the generations
starting at 1.  For the refinement, `NameParts` splits a token into slot and
generation, `EntryIs` gives the abstract entry of a token by its slot, and
`ChangeMoves` and `FreeMoves` say that a call that changes one slot changes one
abstract entry: the one of the slot's present generation, or, when the slot is given
back, that one to Done and no other.  Each call is then one step of `OpTable`, or a
stutter.

*Driver.*  `Sound` relates the record the slab keeps of an operation to where its
entry and the entry of its cancellation really are (`opAt`, `cancelAt`), `FutureAt`
relates both to the caller's future, `PhaseInv` to the driver's phase.
`LifecycleTruthful` is not inductive without the rest: that a reaped completion
belongs to a live operation depends on the cancellation's place too.  A borrow composes
a dozen operators on one record, so each operator is shown once to keep `Sound` and to
be a legal evolution (`Evolves`, or `Extends` where completions stay in the queue), and
an action follows by transitivity.  `CancelledOnce` comes from the same `Evolves`.

*Park.*  `Announced` (what a pass did not see was nudged), `NudgeHeard` (once the park
has looked for a nudge, a caller finds its waker) and `SignalHeard` (a completion that
no pass reaped left a signal, and a suspended driver hears it) are the three parts of
`NoLostWakeup`; `EventOwned` is the order of the event's drop.

*Registry.*  The platform runs ahead of the driver by what is in the completion queue:
`MappedExact` says so for each sort, `PostedExact` that the queue has each answered
registration once.  `OneRegistration` is why no index goes stale: while one of buffers
is under way nothing is checked out.  `HandleOwns` and `Stored` carry the bytes.

*PipeServer.*  `SlotOwned` and `StatusTold` tie the slot to the accept state and the
status word to the kernel; `FutureKnown` is what a poll between two steps of `collect`
may rely on.

*FileCursor.*  `KernelExact` and `OneInKernel` say that the driver holds at most the
operation of the one waiting future; `OverlapsExcused` is why no other clone's
cursor moves; `AnswersConvertible` is what the conversions need to be honest, proved by
cases over the surfaces and the codes.

*Runtime.*  `IInv` is the three properties and `TypeOK` with `Placed`
(a task is in one place, and one is polled exactly while the thread is in a poll),
`Wakeable` (a task that is polled or waits has its waker registered) and `Joins` (a
join handle has one awaiter, and while that waits the channel's stored waker is its
own).  `NoLostWake` needs `Wakeable`, since a wake whose target has no
registered waker is dropped, and `Joins`, since a channel stores one waker.

*Benchmarks.*  A process runs one program, so `IInv` is a disjunction.  For the
comparison: `TraceKept` gives the trace of a window by the operations that are over;
`RunsRecorded` gives the traces of the evidence by the number of the run;
`RunsBetween` is why first-versus-last is enough: a backend that turned hollow stays
hollow.  `RollingExact` and `BatchedExact` give the sum of the samples at every step,
in closed form, so that at the end it is `Predicted` for every count and depth;
`BuffersKept` is why a pool can only run dry when the registration is below the
window.  For a cell: every outstanding read has a number and a buffer of its own
(`ReadsApart`), buffers are conserved (`PoolWhole`), what was delivered is the reads
that are over (`DeliveredExact`), and the offsets drawn are aligned and inside the file.

Only model-checked: liveness (`ShutdownCompletes`, `FutureAnswered`, `WorkGetsAPass`,
`DropReturns`, `WokenIsPolled`, `AcceptResolves`, `MeasurementReturns`), which is out of the
prover's reach, and the three violations.

## Observations

Met while modelling and proving; none is a property of a run.

* `CASE` arms of the modules exclude each other: TLA+ leaves the choice between
  overlapping arms open where TLC takes the first, so a proof about overlapping ones
  would be about something else than the run.

* `runtime/error.rs:6-12` says the four pipe conditions are named in
  `runtime::Error`; they are carried in `Other` there and named only in `pipe::Error`.
* `pipe/client.rs` says that a borrow of its `File` cannot reach the sequential
  methods; a clone of what `client.file()` lends can, and gets `NotSeekable`.  Its
  documentation also still says that a `Client` derefs into a `File`.
* `api.rs` says at `info` that the platform rejects a closed handle; `ensure_open`
  says it does not reliably.
* Executor: `Sender::send` to a dropped `Receiver` returns `Ok`, though `SendError` is
  documented for it; a dropped `Sender` never wakes its receiver; a thread-safe waker
  asked for a single-threaded task does nothing.
* Benchmarks: `Shortfall::Unexpected` cannot arise in `Runner`; the first-versus-last
  check cannot see a middle iteration that alone differs, which none of the weaknesses
  in `weaken.rs` produces; the mark of the timed region is held across awaits, not only while `run` is
  polled; a ring backend that fails builds a driver and is not counted among the ring
  combinations; the handle-mode arm does not fail on a shape that does not match;
  `Prepared::finish` never returns an error; `IoRingRegistered::register_file`
  has no caller.
* Unbuffered: `Config::TokioPool512Hn` is documented as "one handle per outstanding
  operation", and handles are taken round-robin, so two outstanding reads can share one
  after completions out of order; a block is never held against the granularity, so on
  a volume stricter than a block every read fails, loudly; sequential offsets step by
  the granularity, so that reads overlap.

## Plan

Every safety property is proved.  What could still be stated: what `Driver`
uses of the slab is `OpTable`'s naming, and a theorem could compose the two; the drain's
ranking (each step that changes something lowers the number of entries under way) as an
action property behind `ShutdownCompletes`; that an orphan of a benchmark is never
counted as delivered.

## Not modelled

* Buffer traits (`buf.rs`): obligations of implementors on raw pointers.
* Flush and cancel builders, entry flags, `ArmedEvent::new`'s failure path, the
  synchronous waits of `AsyncEvent`: direct platform calls with no state of their own.
* Error observers, the throttling of reports and the submission counters: they
  observe and change nothing.
* Executor: poisoned locks, panicking tasks, an `Rc` waker moved to another thread.
* Benchmarks: measured times, digest collisions, tables, command lines, the
  scenarios and temporary files of the tests.
