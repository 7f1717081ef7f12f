----------------------------- MODULE Benchmarks -----------------------------
(***************************************************************************)
(* The two programs of the benchmark crate, comparison (Bench) and         *)
(* unbuffered (Unbuffered), and what a figure of either may be taken for.  *)
(* A process runs one of them, so the other one's state stays as it is.    *)
(***************************************************************************)
EXTENDS Bench, Unbuffered

VARIABLE program   \* the target that was started

allVars == <<program, vars, cellVars>>

BenchmarksInit ==
  \/ /\ program = "comparison"
     /\ Init
     /\ cell = NoCell /\ at = "none" /\ CellIdle
  \/ /\ program = "unbuffered"
     /\ CellInit
     /\ job = NoJob /\ BenchIdle

BenchmarksNext ==
  \/ program = "comparison" /\ Next /\ UNCHANGED <<program, cellVars>>
  \/ program = "unbuffered" /\ CellNext /\ UNCHANGED <<program, vars>>

\* The harness runs on its own thread, and an operation that was issued ends.
BenchmarksSpec ==
  /\ BenchmarksInit
  /\ [][BenchmarksNext]_allVars
  /\ WF_allVars(program = "comparison" /\ HarnessStep /\ UNCHANGED <<program, cellVars>>)
  /\ WF_allVars(program = "comparison" /\ BackendStep /\ UNCHANGED <<program, cellVars>>)
  /\ WF_allVars(program = "unbuffered" /\ CellStep /\ UNCHANGED <<program, vars>>)
  /\ WF_allVars(program = "unbuffered" /\ DeviceStep /\ UNCHANGED <<program, vars>>)

\* A backend one of whose iterations returned an error is never reported as
\* measured, whatever its other iterations did with the buffers that were
\* left (harness.rs, Evidence::record_failure); and no iteration of the
\* unbuffered arm is timed that delivered less than it claims
\* (unbuffered_matrix.rs, issue_reads).
FailureNeverMeasured == BackendNeverFailed /\ CellDelivers

\* A measured iteration drove the shape its scenario declares, reached its
\* depth or had too few operations or buffers to, and is excused by its pool
\* only where the registration really is too small for the window: no error
\* and no earlier iteration took a buffer away (concurrency.rs, shape_check
\* and achieved).  An unbuffered cell keeps its whole pool, is at its depth
\* whenever it waits, and asks the device for nothing beyond the file
\* (unbuffered.rs, take_buffer; unbuffered_matrix.rs, offsets).
ShapeHonest == WindowHonest /\ CellAtDepth

\* A measurement that began ends, and leaves neither a driver nor an
\* operation behind, on the paths that fail too (session.rs, prepare and
\* finish; harness.rs; the drops of a cell that panics).
MeasurementReturns ==
  /\ stage # "idle" ~> (stage = "idle" /\ ~driver /\ orphans = 0)
  /\ (program = "unbuffered") ~> (at \in {"reported", "panicked"} /\ ~ring /\ inFlight = {})
=============================================================================
