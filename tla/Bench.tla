------------------------------- MODULE Bench --------------------------------
(***************************************************************************)
(* One (scenario, depth) of the comparison matrix or of the handle-mode    *)
(* arm: every backend of the rotated order is prepared, warmed, timed,     *)
(* torn down and judged by harness.rs, measure_combination_with, against   *)
(* the ledger they share, and the arm decides whether its run succeeded.   *)
(*                                                                         *)
(* An iteration is a run of scenario.rs over the Window module.  A backend *)
(* may be weakened the way weaken.rs weakens it; a ring backend owns a     *)
(* driver, which keeps the operations an error abandoned until it drains.  *)
(* A sequential and a random read differ in their offsets alone, so one    *)
(* scenario stands for both.                                               *)
(***************************************************************************)
EXTENDS Window, Sequences

CONSTANTS
  Kinds,              \* the kinds of backend, in the order before rotation
  Depths,             \* the configured depths
  Counts,             \* the numbers of operations of an iteration
  RegisteredBuffers,  \* Config::registered_buffers
  Weaknesses,         \* how a backend may be weakened
  MaxIterations       \* bound on the iterations a timer runs

ASSUME BenchAssumption ==
  /\ Kinds \in Seq({"pool", "plain", "registered"})
  /\ Depths \subseteq Nat \ {0}
  /\ Counts \subseteq 1 .. MaxCount
  /\ RegisteredBuffers \in Nat \ {0}
  /\ Weaknesses \subseteq [type : {"None", "SkipsWork", "HollowDelivery", "HollowFromRun"},
                           from : Nat]
  /\ MaxIterations \in Nat

VARIABLES
  job,       \* the arm, its scenario, depth, operations and rotation
  stage,     \* where measure_combination_with is
  sess,      \* its session: the backend, and the evidence its timer gathers
  driver,    \* whether a driver is alive
  orphans,   \* operations the driver holds whose futures were dropped
  ledger,    \* the reference trace, if a backend was measured: a set of at most one
  entries,   \* what became of the backends so far
  verdict    \* the exit of the run

benchVars == <<job, stage, sess, driver, orphans, ledger, entries, verdict>>
vars == <<benchVars, windowVars>>

-----------------------------------------------------------------------------
(* Backends *)

SKIP_EVERY == 4

None == [type |-> "None", from |-> 0]
SkipsWork == [type |-> "SkipsWork", from |-> 0]
HollowDelivery == [type |-> "HollowDelivery", from |-> 0]
HollowFromRun(n) == [type |-> "HollowFromRun", from |-> n]

\* rotated_order: the counter of combinations rotates the backends.
Order == [i \in 1 .. Len(Kinds) |-> Kinds[((i - 1 + job.rotation) % Len(Kinds)) + 1]]

\* The handle-mode arm opens its file once, before anything is timed.
Hoisted == job.arm = "handle-mode"

BuildsADriver(kind) == kind \in {"plain", "registered"}

\* How many buffers prepare gives a backend.
PoolSize(kind) == IF kind = "registered" THEN RegisteredBuffers ELSE Max({job.depth, 1})

\* The warm-up is run 0, the first timed iteration run 1.
RunIndex == IF sess.warm = {} THEN 0 ELSE sess.iterations + 1

Hollow ==
  \/ sess.weakness.type = "HollowDelivery"
  \/ sess.weakness.type = "HollowFromRun" /\ RunIndex >= sess.weakness.from

Skips(i) == sess.weakness.type = "SkipsWork" /\ sess.phase = "Read" /\ i % SKIP_EVERY = 0

\* What the application can read once operation i is over.
Delivery(i) == IF Skips(i) THEN "nothing" ELSE IF Hollow THEN "hollow" ELSE "data"

-----------------------------------------------------------------------------
(* Traces and records *)

\* The issues are recorded before the first operation runs.
NewTrace ==
  [issued |-> job.count * (IF job.scenario = "WriteThenRead" THEN 2 ELSE 1), delivered |-> {}]

\* Operations are told apart by phase and number, so the digest is a set.
Delivered(trace, i) ==
  [trace EXCEPT !.delivered = @ \cup {<<sess.phase, i, Delivery(i)>>}]

AgreesWith(a, b) == a.issued = b.issued /\ a.delivered = b.delivered

ShapeOf(scenario) == IF scenario = "BulkRead" THEN "Batched" ELSE "Rolling"

Outcome == [trace |-> sess.trace, shape |-> ShapeCheck(runner), shortfall |-> Shortfall(runner)]

NoSession(kind, weakness) ==
  [kind |-> kind, weakness |-> weakness, phase |-> "Read", trace |-> NewTrace,
   warm |-> {}, first |-> {}, last |-> {}, iterations |-> 0, failure |-> FALSE,
   errors |-> 0, timed |-> {}]

\* Mutant: an iteration that succeeds forgets the failure of an earlier one.
RecordForgets(outcome) ==
  [sess EXCEPT !.iterations = @ + 1, !.first = IF @ = {} THEN {outcome} ELSE @,
               !.last = {outcome}, !.failure = FALSE, !.timed = @ \cup {outcome.trace}]

\* Evidence::record.  timed and errors are history: the traces of all the
\* timed iterations, and how many iterations returned an error.
RecordOutcome(outcome) ==
  [sess EXCEPT !.iterations = @ + 1, !.first = IF @ = {} THEN {outcome} ELSE @,
               !.last = {outcome}, !.timed = @ \cup {outcome.trace}]

\* Evidence::record_failure: later iterations are left to run.
RecordFailure == [sess EXCEPT !.iterations = @ + 1, !.failure = TRUE, !.errors = @ + 1]

-----------------------------------------------------------------------------
(* Preparation *)

\* Nothing has begun.
BenchIdle ==
  /\ stage = "idle"
  /\ sess = NoSession("pool", None)
  /\ driver = FALSE
  /\ orphans = 0
  /\ ledger = {}
  /\ entries = <<>>
  /\ verdict = "running"
  /\ runner = Runner("Rolling", 0, 1)
  /\ loop = "done"
  /\ pending = {}
  /\ free = 0

Init ==
  /\ job \in [arm : {"matrix", "handle-mode"},
              scenario : {"SequentialRead", "WriteThenRead", "BulkRead"},
              depth : Depths, count : Counts, rotation : 0 .. Len(Kinds) - 1,
              mustBeTimed : BOOLEAN]
  /\ job.arm = "handle-mode" => job.scenario = "SequentialRead"
  /\ BenchIdle

NoJob == [arm |-> "matrix", scenario |-> "SequentialRead", depth |-> 1, count |-> 0,
          rotation |-> 0, mustBeTimed |-> FALSE]

Entry(standing, outcome, timed) ==
  [standing |-> standing, kind |-> sess.kind, outcome |-> outcome, errors |-> sess.errors,
   timed |-> timed]

\* prepare builds the backend and, with it, a ring backend's driver.
Prepare(w) ==
  /\ stage = "idle" /\ verdict = "running"
  /\ Len(entries) < Len(Order)
  /\ Hoisted => w = None
  /\ LET kind == Order[Len(entries) + 1]
     IN /\ sess' = NoSession(kind, w)
        /\ free' = PoolSize(kind)
        /\ driver' = BuildsADriver(kind)
        /\ stage' = CASE kind = "registered" -> "register"
                      [] kind # "registered" /\ Hoisted -> "hoist"
                      [] OTHER               -> "begin"
  /\ UNCHANGED <<job, orphans, ledger, entries, verdict, runner, loop, pending>>

\* The host cannot provide the backend.
CannotPrepare ==
  /\ stage = "idle" /\ verdict = "running"
  /\ Len(entries) < Len(Order)
  /\ sess' = NoSession(Order[Len(entries) + 1], None)
  /\ entries' = Append(entries, [Entry("Unavailable", {}, {}) EXCEPT
                                   !.kind = Order[Len(entries) + 1], !.errors = 0])
  /\ UNCHANGED <<job, stage, driver, orphans, ledger, verdict, windowVars>>

\* The registration is awaited with the driver pumped.
Register ==
  /\ stage = "register"
  /\ stage' = IF Hoisted THEN "hoist" ELSE "begin"
  /\ UNCHANGED <<job, sess, driver, orphans, ledger, entries, verdict, windowVars>>

\* It fails: the driver is shut down and drained before prepare returns.
RegisterFails ==
  /\ stage = "register"
  /\ driver' = FALSE
  /\ entries' = Append(entries, Entry("Unavailable", {}, {}))
  /\ stage' = "idle"
  /\ UNCHANGED <<job, sess, orphans, ledger, verdict, windowVars>>

-----------------------------------------------------------------------------
(* One iteration *)

\* What is left to do with an iteration's error, in the warm-up and after it.
IterationFails ==
  IF sess.warm = {}
  THEN /\ sess' = [sess EXCEPT !.failure = TRUE, !.errors = @ + 1]
       /\ stage' = "finish"
  ELSE /\ sess' = RecordFailure
       /\ stage' = "timer"

\* The one open of a hoisted measurement; its failure is the backend's.
Hoist ==
  /\ stage = "hoist"
  /\ \/ stage' = "begin" /\ UNCHANGED sess
     \/ IterationFails
  /\ UNCHANGED <<job, driver, orphans, ledger, entries, verdict, windowVars>>

\* The handle's mode is read back from the kernel, and a handle that is not
\* in the mode its configuration claims, or whose mode cannot be read, is a
\* panic: it drops the prepared backend, and the driver drains as it drops.
HoistPanics ==
  /\ stage = "hoist"
  /\ driver' = FALSE
  /\ verdict' = "panicked"
  /\ stage' = "idle"
  /\ UNCHANGED <<job, sess, orphans, ledger, entries, windowVars>>

\* An iteration on the file that is open already.
BeginOn ==
  /\ stage = "begin" /\ Hoisted
  /\ sess' = [sess EXCEPT !.trace = NewTrace]
  /\ stage' = "window"
  /\ StartRun(ShapeOf(job.scenario), job.count, job.depth)
  /\ UNCHANGED <<job, driver, orphans, ledger, entries, verdict, free>>

\* An iteration opens its file and starts the first phase's window.
Begin ==
  /\ stage = "begin" /\ ~Hoisted
  /\ sess' = [sess EXCEPT !.trace = NewTrace,
                          !.phase = IF job.scenario = "WriteThenRead" THEN "Write" ELSE "Read"]
  /\ stage' = "window"
  /\ StartRun(ShapeOf(job.scenario), job.count, job.depth)
  /\ UNCHANGED <<job, driver, orphans, ledger, entries, verdict, free>>

\* The open fails.
BeginFails ==
  /\ stage = "begin" /\ ~Hoisted
  /\ IterationFails
  /\ UNCHANGED <<job, driver, orphans, ledger, entries, verdict, windowVars>>

WindowRefill ==
  /\ stage = "window"
  /\ Refill
  /\ UNCHANGED benchVars

WindowComplete(i) ==
  /\ stage = "window"
  /\ Complete(i)
  /\ sess' = [sess EXCEPT !.trace = Delivered(@, i)]
  /\ UNCHANGED <<job, stage, driver, orphans, ledger, entries, verdict>>

\* The abandoned operations of a ring backend stay with its driver.
WindowFail(i) ==
  /\ stage = "window"
  /\ ~Skips(i)
  /\ Fail(i)
  /\ orphans' = IF driver THEN orphans + Outstanding - 1 ELSE orphans
  /\ UNCHANGED <<job, stage, sess, driver, ledger, entries, verdict>>

\* The window ended with an error, which ends the iteration.
WindowError ==
  /\ stage = "window" /\ loop = "error"
  /\ IterationFails
  /\ UNCHANGED <<job, driver, orphans, ledger, entries, verdict, windowVars>>

\* The write phase is over: commit, then reopen for the read phase.
SyncAndReopen ==
  /\ stage = "window" /\ loop = "done" /\ sess.phase = "Write"
  /\ \/ /\ sess' = [sess EXCEPT !.phase = "Read"]
        /\ StartRun("Rolling", job.count, job.depth)
        /\ UNCHANGED <<stage, free>>
     \/ IterationFails /\ UNCHANGED windowVars
  /\ UNCHANGED <<job, driver, orphans, ledger, entries, verdict>>

\* The last phase is over, and the iteration with it.
IterationDone ==
  /\ stage = "window" /\ loop = "done" /\ sess.phase = "Read"
  /\ sess' = IF sess.warm = {} THEN [sess EXCEPT !.warm = {Outcome}] ELSE RecordOutcome(Outcome)
  /\ stage' = "timer"
  /\ UNCHANGED <<job, driver, orphans, ledger, entries, verdict, windowVars>>

\* The timer runs as many iterations as it wants to, none included.
Iterate ==
  /\ stage = "timer" /\ sess.iterations < MaxIterations
  /\ stage' = "begin"
  /\ UNCHANGED <<job, sess, driver, orphans, ledger, entries, verdict, windowVars>>

StopTimer ==
  /\ stage = "timer"
  /\ stage' = "finish"
  /\ UNCHANGED <<job, sess, driver, orphans, ledger, entries, verdict, windowVars>>

-----------------------------------------------------------------------------
(* Teardown and judgement *)

\* The driver completes an operation nobody awaits, whenever it is pumped.
OrphanCompletes ==
  /\ driver /\ orphans > 0
  /\ stage \in {"window", "begin", "finish"}
  /\ orphans' = orphans - 1
  /\ UNCHANGED <<job, stage, sess, driver, ledger, entries, verdict, windowVars>>

\* Mutant: teardown only when the measurement succeeded.
FinishSkipped ==
  /\ stage = "finish"
  /\ sess.failure \/ orphans = 0
  /\ driver' = (driver /\ sess.failure)
  /\ stage' = "judge"
  /\ UNCHANGED <<job, sess, orphans, ledger, entries, verdict, windowVars>>

\* Prepared::finish: shut down, drive to the end, drop the driver.
Finish ==
  /\ stage = "finish"
  /\ orphans = 0
  /\ driver' = FALSE
  /\ stage' = "judge"
  /\ UNCHANGED <<job, sess, orphans, ledger, entries, verdict, windowVars>>

\* Mutant: the warm-up is what the comparator sees.
VerifiedWarm == CHOOSE o \in sess.warm : TRUE

\* The outcome the ledger observes and the record reports.
Verified == CHOOSE o \in (IF sess.last # {} THEN sess.last ELSE sess.warm) : TRUE

Drifted == \E f \in sess.first, l \in sess.last : ~AgreesWith(f.trace, l.trace)

\* Ledger::observe, of a trace that does not disagree: the first becomes the
\* reference.
Observe(trace) == ledger' = IF ledger = {} THEN {trace} ELSE ledger

Disagrees(trace) == \E reference \in ledger : ~AgreesWith(reference, trace)

\* The handle-mode arm panics on a failed backend; the matrix goes on.
JudgeFailed ==
  /\ stage = "judge" /\ sess.failure
  /\ entries' = Append(entries, Entry("Failed", {}, {}))
  /\ verdict' = IF Hoisted THEN "failed" ELSE verdict
  /\ stage' = "idle"
  /\ UNCHANGED <<job, sess, driver, orphans, ledger, windowVars>>

\* A backend that drifted, or disagrees with the reference, ends the run.
JudgeUnfair ==
  /\ stage = "judge" /\ ~sess.failure
  /\ Drifted \/ Disagrees(Verified.trace)
  /\ verdict' = "unfair"
  /\ stage' = "idle"
  /\ UNCHANGED <<job, sess, driver, orphans, ledger, entries, windowVars>>

JudgeMeasured ==
  /\ stage = "judge" /\ ~sess.failure /\ ~Drifted
  /\ ~Disagrees(Verified.trace)
  /\ Observe(Verified.trace)
  /\ LET standing == IF sess.iterations > 0 THEN "Timed" ELSE "VerifiedNotTimed"
     IN IF standing = "VerifiedNotTimed" /\ job.mustBeTimed /\ ~Hoisted
        THEN verdict' = "untimed" /\ UNCHANGED entries
        ELSE /\ entries' = Append(entries, Entry(standing, {Verified}, sess.timed))
             /\ UNCHANGED verdict
  /\ stage' = "idle"
  /\ UNCHANGED <<job, sess, driver, orphans, windowVars>>

Measured == {e \in Range(entries) : e.standing \in {"Timed", "VerifiedNotTimed"}}

\* Account::failures, and the cells a handle-mode run may not miss.
Failures ==
  IF Hoisted
  THEN {e \in Range(entries) : job.mustBeTimed /\ e.standing # "Timed"}
  ELSE {e \in Range(entries) : \/ e.standing = "Failed"
                               \/ \E o \in e.outcome : o.shape = "Mismatched"}

Report ==
  /\ stage = "idle" /\ verdict = "running"
  /\ Len(entries) = Len(Order)
  /\ verdict' = IF Failures = {} THEN "ok" ELSE "failed"
  /\ UNCHANGED <<job, stage, sess, driver, orphans, ledger, entries, windowVars>>

HarnessStep ==
  \/ \E w \in Weaknesses : Prepare(w)
  \/ CannotPrepare \/ Register \/ RegisterFails
  \/ Hoist \/ HoistPanics \/ BeginOn \/ Begin \/ BeginFails \/ WindowRefill \/ WindowError
  \/ SyncAndReopen \/ IterationDone \/ Iterate \/ StopTimer \/ Finish
  \/ JudgeFailed \/ JudgeUnfair \/ JudgeMeasured \/ Report

BackendStep ==
  \/ \E i \in Op : WindowComplete(i) \/ WindowFail(i)
  \/ OrphanCompletes

Next == HarnessStep \/ BackendStep

-----------------------------------------------------------------------------
(* Properties *)

\* Every backend of a combination that is reported as measured did the same
\* work, in every iteration that was timed and not only in the one that was
\* compared (harness.rs, the first-versus-last check and Ledger::observe).
MeasuredAlike ==
  \A e, f \in Measured : \A o \in e.outcome :
    \A t \in f.timed \cup {p.trace : p \in f.outcome} : AgreesWith(o.trace, t)

\* The backends reported as measured whose iterations all succeeded.
BackendNeverFailed == \A e \in Measured : e.errors = 0

\* Every measured iteration had the shape and the depth it declares, or a
\* registration smaller than its window.
WindowHonest ==
  \A e \in Measured : \A o \in e.outcome :
    /\ o.shape # "Mismatched"
    /\ o.shortfall # "Unexpected"
    /\ o.shape = "PoolBound" =>
         e.kind = "registered" /\ RegisteredBuffers < Min({job.count, job.depth})
=============================================================================
