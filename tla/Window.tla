------------------------------- MODULE Window -------------------------------
(***************************************************************************)
(* One run of the benchmarks' window (win-ioring-bench/src/concurrency.rs, *)
(* Runner::run) over a backend's pool of buffers (BufferPool and the free  *)
(* list of IoRingRegistered): issue operations up to a depth, await any    *)
(* one, sample how many were outstanding, return its buffer.               *)
(*                                                                         *)
(* An operation is its number in the run.  The refill is synchronous, so   *)
(* it is one step; what completes next is the backend's choice.            *)
(***************************************************************************)
EXTENDS Integers, FiniteSets, FiniteSetsExt

CONSTANT MaxCount   \* the largest number of operations of a run

ASSUME WindowAssumption == MaxCount \in Nat

VARIABLES
  runner,    \* the fields of Runner, and the operations issued so far
  loop,      \* where Runner::run is
  pending,   \* the operations in its FuturesUnordered
  free       \* how many buffers the backend's pool holds

windowVars == <<runner, loop, pending, free>>

Shape == {"Rolling", "Batched"}
Op    == 0 .. MaxCount - 1

RunnerType ==
  [shape : Shape, count : 0 .. MaxCount, configured : Nat \ {0}, issued : Nat,
   weighted : Nat, samples : Nat, peak : Nat, starved : BOOLEAN, poolBound : BOOLEAN]

Runner(shape, count, depth) ==
  [shape |-> shape, count |-> count, configured |-> Max({depth, 1}), issued |-> 0,
   weighted |-> 0, samples |-> 0, peak |-> 0, starved |-> FALSE, poolBound |-> FALSE]

Outstanding == Cardinality(pending)

\* The gate on entering the refill.
MayRefill(shape, empty) == shape = "Rolling" \/ empty

\* Mutant: the gate is tested again for every operation, so that a batch is
\* over as soon as one of its operations is outstanding.
RefillRoomGated ==
  IF MayRefill(runner.shape, pending = {})
  THEN Min({runner.count - runner.issued,
            IF runner.shape = "Batched" THEN 1 ELSE runner.configured - Outstanding})
  ELSE 0

\* How many operations the refill would issue, were there buffers.
RefillRoom ==
  IF MayRefill(runner.shape, pending = {})
  THEN Min({runner.count - runner.issued, runner.configured - Outstanding})
  ELSE 0

\* The backend's pool: an empty one refuses with WouldBlock, so a taker gets
\* as many as there are; what is put back is free again.
Obtainable(n) == Min({n, free})
TakeBuffers(n) == free' = free - n
PutBuffer == free' = free + 1

\* The refill, and what precedes the await.  A pool that cannot supply the
\* first buffer with nothing outstanding is an error.
Refill ==
  /\ loop = "refill"
  /\ LET issuable == Obtainable(RefillRoom)
         dry      == issuable < RefillRoom
         next     == runner.issued + issuable
         out      == Outstanding + issuable
     IN /\ pending' = pending \cup (runner.issued .. next - 1)
        /\ TakeBuffers(issuable)
        /\ loop' = IF out > 0 THEN "await" ELSE IF dry THEN "error" ELSE "done"
        /\ runner' = [runner EXCEPT
             !.issued = next,
             !.poolBound = @ \/ (dry /\ out > 0),
             !.peak = Max({@, out}),
             !.starved = @ \/ (out > 0 /\ next = runner.count /\ out < runner.configured)]

\* What the await of the next completion adds to the depth's mean.
Sampled == [runner EXCEPT !.weighted = @ + Outstanding, !.samples = @ + 1]

\* pending.next() is Ready with an operation that succeeded.
Complete(i) ==
  /\ loop = "await"
  /\ i \in pending
  /\ runner' = Sampled
  /\ pending' = pending \ {i}
  /\ PutBuffer
  /\ loop' = "refill"

\* It is Ready with an error: its buffer and the other futures are dropped,
\* theirs with them, and the pool never sees any of these buffers again.
Fail(i) ==
  /\ loop = "await"
  /\ i \in pending
  /\ runner' = Sampled
  /\ pending' = {}
  /\ loop' = "error"
  /\ UNCHANGED free

StartRun(shape, count, depth) ==
  /\ runner' = Runner(shape, count, depth)
  /\ loop' = "refill"
  /\ pending' = {}

-----------------------------------------------------------------------------
(* What the caller reads from a Runner whose run ended. *)

\* A full descent from d outstanding operations to one.
Descent(d) == (d * (d + 1)) \div 2

\* predicted_mean_depth, times the number of operations.
Predicted(shape, count, n) ==
  CASE shape = "Rolling" /\ count >= n -> (count - n) * n + Descent(n)
    [] shape = "Rolling" /\ count < n  -> Descent(count)
    [] shape = "Batched" -> (count \div n) * Descent(n) + Descent(count % n)

\* Runner::shape_check: measured and predicted mean, multiplied out.
ShapeCheck(r) ==
  IF r.weighted * r.count = Predicted(r.shape, r.count, r.configured) * r.samples
  THEN "Matched"
  ELSE IF r.poolBound THEN "PoolBound" ELSE "Mismatched"

\* Runner::achieved.
Shortfall(r) ==
  IF r.peak >= r.configured THEN "None"
  ELSE IF r.starved \/ r.poolBound \/ r.count < r.configured THEN "Expected"
  ELSE "Unexpected"
=============================================================================
