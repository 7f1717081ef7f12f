----------------------------- MODULE Unbuffered -----------------------------
(***************************************************************************)
(* One cell of the unbuffered arm (win-ioring-bench, unbuffered.rs,        *)
(* unbuffered_matrix.rs and what they stand on): the volume is asked for   *)
(* its alignment, a working file is written, a configuration's backend is  *)
(* built with a pool of as many buffers as its depth, and issue_reads runs *)
(* once for each iteration of the timer.  An error panics, which drops     *)
(* everything on the way out.                                              *)
(*                                                                         *)
(* Sizes are in units of the smallest sector.                              *)
(***************************************************************************)
EXTENDS Integers, Sequences, FiniteSets, FiniteSetsExt

CONSTANTS
  Configs,          \* the configurations
  CellDepths,       \* the depths of the grid
  Operations,       \* UnbufferedConfig::operations
  SequentialBlock,  \* UnbufferedConfig::sequential_block
  RandomBlock,      \* UnbufferedConfig::random_block
  ReadFileBytes,    \* UnbufferedConfig::read_file_bytes
  Volumes,          \* the answers a volume may give
  WidePool,         \* the width of the wide blocking pool
  MaxRuns           \* bound on the iterations of the timer

ASSUME UnbufferedAssumption ==
  /\ Configs \subseteq {"IoRingPlain", "IoRingRegistered", "Compio", "TokioPool1",
                        "TokioPool512H1", "TokioPool512Hn"}
  /\ CellDepths \subseteq Nat \ {0}
  /\ {Operations, SequentialBlock, RandomBlock, ReadFileBytes, WidePool} \subseteq Nat \ {0}
  /\ SequentialBlock <= ReadFileBytes /\ RandomBlock <= ReadFileBytes
  /\ \A v \in Volumes : /\ v.logical \in Nat /\ v.others \subseteq Nat
                         /\ \E most \in {v.logical} \cup v.others :
                              \A n \in {v.logical} \cup v.others : n <= most
  /\ MaxRuns \in Nat

VARIABLES
  cell,       \* its scenario, depth and configuration
  at,         \* where the cell is
  volume,     \* the alignment the volume reported
  fileBytes,  \* the size of the working file
  offset,     \* the offsets of an iteration, in issue order
  bufferLen,  \* the capacity of each buffer
  pool,       \* the buffers not in use
  cursor,     \* PoolFiles::next
  issued,     \* how many reads of the iteration were issued
  inFlight,   \* the reads whose futures are pending, as records
  delivered,  \* the bytes the iteration has delivered
  runs,       \* the bytes each complete iteration delivered
  ring        \* whether a ring's driver is alive

cellVars == <<cell, at, volume, fileBytes, offset, bufferLen, pool, cursor, issued, inFlight,
              delivered, runs, ring>>

-----------------------------------------------------------------------------
(* Config *)

HasDriver(config)  == config \in {"IoRingPlain", "IoRingRegistered"}
Pooled(config)     == config \in {"TokioPool1", "TokioPool512H1", "TokioPool512Hn"}
Handles(config, depth) == IF config = "TokioPool512Hn" THEN Max({depth, 1}) ELSE 1
PoolWidth(config)  == IF config = "TokioPool1" THEN 1 ELSE WidePool

\* READ_FLAGS and POOL_READ_FLAGS: only a blocking pool's handles are
\* synchronous, and serialise at the file object.
Synchronous(config) == Pooled(config)

Block == IF cell.scenario = "SequentialRead" THEN SequentialBlock ELSE RandomBlock

-----------------------------------------------------------------------------
(* Alignment and AlignedBuf *)

IsPowerOfTwo(n) == \E k \in 0 .. n : 2^k = n

\* Alignment::validate: only the logical sector must be there.
Validate(v) ==
  /\ v.logical # 0 /\ IsPowerOfTwo(v.logical)
  /\ \A n \in v.others : n = 0 \/ IsPowerOfTwo(n)

\* The strictest of what was reported.
Granularity == Max({volume.logical} \cup volume.others)

NextMultiple(n, g) == ((n + g - 1) \div g) * g

\* AlignedBuf::new.
Capacity(cap) == NextMultiple(Max({cap, Granularity}), Granularity)

-----------------------------------------------------------------------------
(* Setting up *)

NoCell == [scenario |-> "SequentialRead", depth |-> 1, config |-> "Compio"]

CellIdle ==
  /\ volume = [logical |-> 1, others |-> {}]
  /\ fileBytes = 0 /\ offset = <<>> /\ bufferLen = 0 /\ pool = {} /\ cursor = 0
  /\ issued = 0 /\ inFlight = {} /\ delivered = 0 /\ runs = <<>> /\ ring = FALSE

CellInit ==
  /\ cell \in [scenario : {"SequentialRead", "RandomRead"}, depth : CellDepths, config : Configs]
  /\ at = "query"
  /\ CellIdle

\* Alignment::query.
QueryVolume(v) ==
  /\ at = "query"
  /\ volume' = v
  /\ at' = IF Validate(v) THEN "create" ELSE "panicked"
  /\ UNCHANGED <<cell, fileBytes, offset, bufferLen, pool, cursor, issued, inFlight, delivered,
                 runs, ring>>

\* UnbufferedFile::create and ensure_unbuffered_file: rewritten every time,
\* through a handle that is checked to be unbuffered, in whole sectors.
CreateFile(succeeds) ==
  /\ at = "create"
  /\ fileBytes' = IF succeeds THEN NextMultiple(ReadFileBytes, Granularity) ELSE 0
  /\ at' = IF succeeds THEN "build" ELSE "panicked"
  /\ UNCHANGED <<cell, volume, offset, bufferLen, pool, cursor, issued, inFlight, delivered, runs,
                 ring>>

\* Mutant: the last block may begin where the file ends.
SlotsToTheEnd == (fileBytes \div Granularity) + 1

\* How many places an offset has.
Slots == (Max({fileBytes - Block, 0}) \div Granularity) + 1

\* offsets.  The step of a sequential read is the granularity; the generator
\* of the random ones is fixed, and any of its sequences may be.
Offsets ==
  IF cell.scenario = "SequentialRead"
  THEN {[i \in 1 .. Operations |-> ((i - 1) % Slots) * Granularity]}
  ELSE {[i \in 1 .. Operations |-> s[i] * Granularity] : s \in [1 .. Operations -> 0 .. Slots - 1]}

\* The constructors: a pool of depth buffers, except where they are still to
\* be registered.
BuildBackend ==
  /\ at = "build"
  /\ offset' \in Offsets
  /\ ring' = HasDriver(cell.config)
  /\ IF cell.config = "IoRingRegistered"
     THEN at' = "register" /\ UNCHANGED <<bufferLen, pool>>
     ELSE /\ bufferLen' = Capacity(Block)
          /\ pool' = 1 .. cell.depth
          /\ at' = "open"
  /\ UNCHANGED <<cell, volume, fileBytes, cursor, issued, inFlight, delivered, runs>>

BuildFails ==
  /\ at = "build"
  /\ at' = "panicked"
  /\ UNCHANGED <<cell, volume, fileBytes, offset, bufferLen, pool, cursor, issued, inFlight,
                 delivered, runs, ring>>

\* UnbufferedIoRingRegistered::register.  The length it keeps is the one it
\* was asked for, not the buffers' capacity.
RegisterAligned(succeeds) ==
  /\ at = "register"
  /\ bufferLen' = IF succeeds THEN Block ELSE 0
  /\ pool' = IF succeeds THEN 1 .. cell.depth ELSE {}
  /\ at' = IF succeeds THEN "open" ELSE "unwind"
  /\ UNCHANGED <<cell, volume, fileBytes, offset, cursor, issued, inFlight, delivered, runs, ring>>

\* The handles are opened once, outside of what is timed.
OpenRead(succeeds) ==
  /\ at = "open"
  /\ at' = IF succeeds THEN "timing" ELSE "unwind"
  /\ UNCHANGED <<cell, volume, fileBytes, offset, bufferLen, pool, cursor, issued, inFlight,
                 delivered, runs, ring>>

-----------------------------------------------------------------------------
(* issue_reads *)

StartReads ==
  /\ at = "timing" /\ Len(runs) < MaxRuns
  /\ issued' = 0 /\ delivered' = 0
  /\ at' = "refill"
  /\ UNCHANGED <<cell, volume, fileBytes, offset, bufferLen, pool, cursor, inFlight, runs, ring>>

\* UnbufferedIoRingRegistered::take_buffer measures the read against the
\* registered length before it looks for a buffer.
TakeRegistered ==
  IF Block > bufferLen THEN "InvalidInput"
  ELSE IF pool = {} THEN "WouldBlock" ELSE "Ok"

\* take_buffer of the others pops first, and puts a buffer that is too small
\* back.
TakeBuffer ==
  IF cell.config = "IoRingRegistered" THEN TakeRegistered
  ELSE IF pool = {} THEN "WouldBlock"
  ELSE IF Block > bufferLen THEN "InvalidInput" ELSE "Ok"

\* A buffer is taken for the next read, whose future has yet to be polled.
IssueRead ==
  /\ at = "refill" /\ issued < Operations /\ TakeBuffer = "Ok"
  /\ issued' = issued + 1
  /\ LET buffer == Min(pool)
     IN /\ pool' = pool \ {buffer}
        /\ inFlight' = inFlight \cup {[n |-> issued + 1, buffer |-> buffer, state |-> "new",
                                       handle |-> 0]}
  /\ UNCHANGED <<cell, at, volume, fileBytes, offset, bufferLen, cursor, delivered, runs, ring>>

\* The refill is over.  With nothing to wait for, the iteration is, one way
\* or the other.
Refilled ==
  /\ at = "refill" /\ (issued = Operations \/ TakeBuffer # "Ok")
  /\ LET complete == inFlight = {} /\ issued = Operations
     IN /\ runs' = IF complete THEN Append(runs, delivered) ELSE runs
        /\ at' = CASE complete -> "timing"
                   [] ~complete /\ (inFlight = {} \/ (issued < Operations /\ TakeBuffer = "InvalidInput"))
                        -> "unwind"
                   [] OTHER -> "await"
  /\ UNCHANGED <<cell, volume, fileBytes, offset, bufferLen, pool, cursor, issued, inFlight,
                 delivered, ring>>

\* PoolFiles::pick: the next handle in turn.
Pick == cursor % Handles(cell.config, cell.depth)

\* read_at of a blocking pool hands the read to one of its threads; the other
\* backends' is with the device at once, on their one handle.
ReadAt(r) ==
  IF Pooled(cell.config) THEN [r EXCEPT !.state = "spawned", !.handle = Pick]
  ELSE [r EXCEPT !.state = "device"]

\* The window polls the oldest future not polled yet.
PollRead(r) ==
  /\ at = "await" /\ r \in inFlight /\ r.state = "new"
  /\ \A q \in inFlight : q.state = "new" => q.n >= r.n
  /\ inFlight' = (inFlight \ {r}) \cup {ReadAt(r)}
  /\ cursor' = IF Pooled(cell.config) THEN cursor + 1 ELSE cursor
  /\ UNCHANGED <<cell, at, volume, fileBytes, offset, bufferLen, pool, issued, delivered, runs,
                 ring>>

\* A thread of the blocking pool takes a read and enters the handle.
PoolRuns(r) ==
  /\ r \in inFlight /\ r.state = "spawned"
  /\ Cardinality({q \in inFlight : q.state = "device"}) < PoolWidth(cell.config)
  /\ Synchronous(cell.config) => \A q \in inFlight : q.state = "device" => q.handle # r.handle
  /\ inFlight' = (inFlight \ {r}) \cup {[r EXCEPT !.state = "device"]}
  /\ UNCHANGED <<cell, at, volume, fileBytes, offset, bufferLen, pool, cursor, issued, delivered,
                 runs, ring>>

\* What an unbuffered read may ask for.
Legal(n) ==
  /\ offset[n] % Granularity = 0 /\ Block % Granularity = 0
  /\ offset[n] + Block <= fileBytes

\* The device answers, in any order: a read that is not legal fails.
DeviceAnswers(r, answer) ==
  /\ r \in inFlight /\ r.state = "device"
  /\ Legal(r.n) \/ answer = "error"
  /\ inFlight' = (inFlight \ {r}) \cup {[r EXCEPT !.state = answer]}
  /\ UNCHANGED <<cell, at, volume, fileBytes, offset, bufferLen, pool, cursor, issued, delivered,
                 runs, ring>>

Answers == {"full", "short", "error"}

\* How much of the block an answer delivers.
Transferred(answer) == CASE answer = "full" -> Block [] answer = "short" -> Block - 1 [] OTHER -> 0

\* Mutant: a short read is counted for what it is.
CollectShort(r) ==
  /\ at = "await" /\ r \in inFlight /\ r.state \in Answers
  /\ inFlight' = inFlight \ {r}
  /\ pool' = pool \cup {r.buffer}
  /\ delivered' = delivered + Transferred(r.state)
  /\ at' = IF r.state = "error" THEN "unwind" ELSE "refill"
  /\ UNCHANGED <<cell, volume, fileBytes, offset, bufferLen, cursor, issued, runs, ring>>

\* A future is ready: its buffer goes back before its result is looked at,
\* and a short read is an error.
CollectRead(r) ==
  /\ at = "await" /\ r \in inFlight /\ r.state \in Answers
  /\ inFlight' = inFlight \ {r}
  /\ pool' = pool \cup {r.buffer}
  /\ IF Transferred(r.state) = Block
     THEN delivered' = delivered + Block /\ at' = "refill"
     ELSE at' = "unwind" /\ UNCHANGED delivered
  /\ UNCHANGED <<cell, volume, fileBytes, offset, bufferLen, cursor, issued, runs, ring>>

-----------------------------------------------------------------------------
(* The end of the cell *)

\* The timer has had enough: the file is dropped and a driver shut down and
\* driven to its end.
EndCell ==
  /\ at = "timing"
  /\ ring' = FALSE
  /\ at' = "reported"
  /\ UNCHANGED <<cell, volume, fileBytes, offset, bufferLen, pool, cursor, issued, inFlight,
                 delivered, runs>>

\* expect panics: the drop of the driver, or of the blocking pool's runtime,
\* waits for what it has been handed; compio's runtime looks after its own.
Unwind ==
  /\ at = "unwind"
  /\ cell.config = "Compio" \/ \A r \in inFlight : r.state # "device"
  /\ inFlight' = {}
  /\ ring' = FALSE
  /\ at' = "panicked"
  /\ UNCHANGED <<cell, volume, fileBytes, offset, bufferLen, pool, cursor, issued, delivered, runs>>

CellStep ==
  \/ \E v \in Volumes : QueryVolume(v)
  \/ \E succeeds \in BOOLEAN : CreateFile(succeeds) \/ RegisterAligned(succeeds) \/ OpenRead(succeeds)
  \/ BuildBackend \/ BuildFails \/ StartReads \/ IssueRead \/ Refilled
  \/ \E r \in inFlight : PollRead(r) \/ CollectRead(r)
  \/ EndCell \/ Unwind

DeviceStep ==
  \E r \in inFlight : PoolRuns(r) \/ \E answer \in Answers : DeviceAnswers(r, answer)

CellNext == CellStep \/ DeviceStep

-----------------------------------------------------------------------------
(* Properties *)

\* An iteration that is timed delivered every byte it was to deliver.
CellDelivers == \A i \in DOMAIN runs : runs[i] = Operations * Block

\* No buffer is lost or handed out twice, so no iteration runs below its
\* depth; and where blocks are whole sectors, every read is one the device
\* can serve.
CellAtDepth ==
  /\ at \in {"timing", "refill", "await"} =>
       /\ pool \cup {r.buffer : r \in inFlight} = 1 .. cell.depth
       /\ Cardinality(pool) + Cardinality(inFlight) = cell.depth
  /\ at = "await" => Cardinality(inFlight) = cell.depth \/ issued = Operations
  /\ Block % Granularity = 0 => \A r \in inFlight : Legal(r.n)
=============================================================================
