----------------------------- MODULE BenchProofs -----------------------------
(***************************************************************************)
(* Theorems about the two benchmark programs, for every matrix of backends,*)
(* depths, operations, registrations and weaknesses, and for every grid of *)
(* cells, block sizes and volumes.                                         *)
(***************************************************************************)
EXTENDS Benchmarks, FiniteSetTheorems, TLAPS

-----------------------------------------------------------------------------
(* The inductive invariant of a cell of the unbuffered arm. *)

CellStages == {"query", "create", "build", "register", "open", "timing", "refill", "await",
               "unwind", "panicked", "reported"}

\* Where a read may be outstanding, and where the offsets have been drawn.
Reading  == {"refill", "await", "unwind"}
HasPool  == {"open", "timing", "refill", "await"}
HasFile  == {"register", "open", "timing", "refill", "await", "unwind"}

ReadState == {"new", "spawned", "device", "full", "short", "error"}

Read == [n : 1 .. Operations, buffer : 1 .. cell.depth, state : ReadState, handle : Int]

CellTypeOK ==
  /\ cell \in [scenario : {"SequentialRead", "RandomRead"}, depth : CellDepths, config : Configs]
  /\ at \in CellStages
  /\ issued \in 0 .. Operations
  /\ delivered \in Nat
  /\ cursor \in Nat
  /\ runs \in Seq(Nat)
  /\ IsFiniteSet(inFlight) /\ inFlight \subseteq Read
  /\ IsFiniteSet(pool) /\ pool \subseteq 1 .. cell.depth

\* The alignment that was accepted is one that can be divided by, and the
\* file is a whole number of its sectors, with room for a block.
VolumeUsable ==
  /\ at = "create" \/ at = "build" \/ at \in HasFile => Granularity \in Nat \ {0}
  /\ at = "build" \/ at \in HasFile =>
       fileBytes \in Nat /\ fileBytes % Granularity = 0 /\ Block <= fileBytes

OffsetsLegal ==
  at \in HasFile /\ Block % Granularity = 0 => \A n \in 1 .. Operations : Legal(n)

\* Every outstanding read has a number of its own and a buffer of its own.
ReadsApart ==
  /\ at \notin Reading => inFlight = {}
  /\ \A r \in inFlight : r.n <= issued /\ r.buffer \notin pool
  /\ \A r, q \in inFlight : r.n = q.n \/ r.buffer = q.buffer => r = q

PoolWhole ==
  at \in HasPool =>
    /\ pool \cup {r.buffer : r \in inFlight} = 1 .. cell.depth
    /\ Cardinality(pool) + Cardinality(inFlight) = cell.depth

WaitsAtDepth ==
  at = "await" => Cardinality(inFlight) = cell.depth \/ issued = Operations

DeliveredExact ==
  at \in {"refill", "await"} => delivered = (issued - Cardinality(inFlight)) * Block

CellInv ==
  /\ CellTypeOK
  /\ VolumeUsable
  /\ OffsetsLegal
  /\ ReadsApart
  /\ PoolWhole
  /\ WaitsAtDepth
  /\ DeliveredExact
  /\ CellDelivers

\* The comparison target has no cell.
CellUnused == at = "none" /\ inFlight = {} /\ runs = <<>>

-----------------------------------------------------------------------------
(* The inductive invariant of the comparison. *)

BenchStages == {"idle", "register", "hoist", "begin", "window", "timer", "finish", "judge"}

BackendKinds == {"pool", "plain", "registered"}

Weakness == [type : {"None", "SkipsWork", "HollowDelivery", "HollowFromRun"}, from : Nat]

JobType == [arm : {"matrix", "handle-mode"},
            scenario : {"SequentialRead", "WriteThenRead", "BulkRead"},
            depth : Depths, count : Counts, rotation : 0 .. Len(Kinds) - 1,
            mustBeTimed : BOOLEAN]

\* What run k of a weakened backend leaves the application to read of
\* operation i of a phase.
HollowAt(w, k) ==
  \/ w.type = "HollowDelivery"
  \/ w.type = "HollowFromRun" /\ k >= w.from

Given(w, k, phase, i) ==
  IF w.type = "SkipsWork" /\ phase = "Read" /\ i % SKIP_EVERY = 0 THEN "nothing"
  ELSE IF HollowAt(w, k) THEN "hollow" ELSE "data"

PhaseTrace(w, k, phase, ops) == {<<phase, i, Given(w, k, phase, i)>> : i \in ops}

JobOps == 0 .. job.count - 1

\* The trace of a complete run k.
RunTrace(w, k) ==
  [issued |-> NewTrace.issued,
   delivered |-> PhaseTrace(w, k, "Read", JobOps) \cup
                 (IF job.scenario = "WriteThenRead" THEN PhaseTrace(w, k, "Write", JobOps) ELSE {})]

\* The operations of the window that are over.
Over == (0 .. runner.issued - 1) \ pending

SmallRegistration(kind) ==
  kind = "registered" /\ RegisteredBuffers < Min({job.count, job.depth})

\* What an outcome must be for its figure to be reported.
Honest(o, kind) ==
  /\ o.shape # "Mismatched"
  /\ o.shortfall # "Unexpected"
  /\ o.shape = "PoolBound" => SmallRegistration(kind)

Deliveries == {"Read", "Write"} \X Nat \X {"nothing", "hollow", "data"}

TraceType == [issued : Nat, delivered : SUBSET Deliveries]

OutcomeType == [trace : TraceType, shape : {"Matched", "PoolBound", "Mismatched"},
                shortfall : {"None", "Expected", "Unexpected"}]

SessionType ==
  [kind : BackendKinds, weakness : Weakness, phase : {"Read", "Write"}, trace : TraceType,
   warm : SUBSET OutcomeType, first : SUBSET OutcomeType, last : SUBSET OutcomeType,
   iterations : Nat, failure : BOOLEAN, errors : Nat, timed : SUBSET TraceType]

EntryType ==
  [standing : {"Unavailable", "Failed", "Timed", "VerifiedNotTimed"}, kind : BackendKinds,
   outcome : SUBSET OutcomeType, errors : Nat, timed : SUBSET TraceType]

BenchTypeOK ==
  /\ job \in JobType
  /\ job.arm = "handle-mode" => job.scenario = "SequentialRead"
  /\ stage \in BenchStages
  /\ sess \in SessionType
  /\ sess.phase = "Write" => job.scenario = "WriteThenRead"
  /\ ledger \subseteq TraceType
  /\ entries \in Seq(EntryType)
  /\ runner \in RunnerType
  /\ loop \in {"refill", "await", "done", "error"}
  /\ IsFiniteSet(pending)
  /\ free \in Nat

\* The window runs the job: it never issues more than it was asked for nor
\* holds more than its depth, and it ends when everything was awaited.
WindowRuns ==
  stage = "window" =>
    /\ runner.shape = ShapeOf(job.scenario)
    /\ runner.count = job.count /\ runner.configured = job.depth
    /\ runner.issued <= runner.count
    /\ pending \subseteq 0 .. runner.issued - 1
    /\ Outstanding <= runner.configured
    /\ loop = "done" => pending = {} /\ runner.issued = runner.count

InWindow == stage = "window" /\ loop # "error"

\* The trace holds the phase that is over and the operations of this one
\* that are.
TraceKept ==
  InWindow =>
    /\ sess.trace.issued = NewTrace.issued
    /\ sess.trace.delivered =
         PhaseTrace(sess.weakness, RunIndex, sess.phase, Over) \cup
         (IF sess.phase = "Read" /\ job.scenario = "WriteThenRead"
            THEN PhaseTrace(sess.weakness, RunIndex, "Write", JobOps) ELSE {})

\* Every completion was sampled.
SamplesExact == InWindow => runner.samples + Outstanding = runner.issued

\* The first refill reached the depth, unless there were too few operations
\* or buffers.
DepthReached ==
  InWindow /\ runner.issued > 0 =>
    runner.peak >= runner.configured \/ runner.poolBound \/ runner.count < runner.configured

Lesser(a, b) == IF a <= b THEN a ELSE b

\* The samples of a rolling window: n for each completion while it is
\* replaced, then one less each time.
RollingWeight(count, n, done) ==
  IF done <= count - n THEN done * n
  ELSE (count - n) * n + Descent(n) - Descent(count - done)

RollingExact ==
  /\ runner.weighted = RollingWeight(runner.count, Lesser(runner.count, runner.configured),
                                     runner.samples)
  /\ loop = "await" => Outstanding = Lesser(runner.configured, runner.count - runner.samples)

\* The samples of a batched one: k whole batches, and the size of the one
\* that is open.
BatchedExact ==
  \E k \in Nat, size \in 0 .. runner.configured :
    /\ runner.issued = k * runner.configured + size
    /\ size \in {0, runner.configured} \/ runner.issued = runner.count
    /\ Outstanding <= size
    /\ runner.weighted = k * Descent(runner.configured) + Descent(size) - Descent(Outstanding)

WeightsExact ==
  InWindow /\ ~runner.poolBound =>
    /\ runner.shape = "Rolling" => RollingExact
    /\ runner.shape = "Batched" => BatchedExact

\* While nothing has failed, no buffer has left the pool but for a pending
\* operation; so a dry pool means a registration below the window.
BuffersKept ==
  ~sess.failure =>
    /\ stage \in {"register", "hoist", "begin", "timer"} => free = PoolSize(sess.kind)
    /\ InWindow => free + Outstanding = PoolSize(sess.kind)

DryIsSmall ==
  stage = "window" /\ ~sess.failure /\ runner.poolBound => SmallRegistration(sess.kind)

OutcomesHonest ==
  ~sess.failure => \A o \in sess.warm \cup sess.first \cup sess.last : Honest(o, sess.kind)

\* The warm-up was run 0, and the timed iterations, from the first to the
\* last, are runs in this order.
RunsRecorded ==
  /\ \A o \in sess.warm : o.trace = RunTrace(sess.weakness, 0)
  /\ sess.timed = {} => sess.first = {} /\ sess.last = {}
  /\ sess.timed # {} =>
       /\ sess.first # {} /\ sess.last # {}
       /\ \E a, b \in 1 .. sess.iterations :
            /\ \A o \in sess.first : o.trace = RunTrace(sess.weakness, a)
            /\ \A o \in sess.last : o.trace = RunTrace(sess.weakness, b)
            /\ \A t \in sess.timed : \E k \in a .. b : t = RunTrace(sess.weakness, k)

ErrorsCounted ==
  /\ ~sess.failure => sess.errors = 0
  /\ stage \in {"timer", "finish", "judge"} /\ ~sess.failure => sess.warm # {}

\* A backend reported as measured had no error, drove its shape, and agrees
\* with the ledger in all its iterations.
EntryHonest(e) ==
  /\ e.errors = 0
  /\ \A o \in e.outcome : Honest(o, e.kind)
  /\ ledger # {}
  /\ \A ref \in ledger : \A t \in e.timed \cup {o.trace : o \in e.outcome} : AgreesWith(ref, t)

EntriesHonest == \A e \in Measured : EntryHonest(e)

BenchInv ==
  /\ BenchTypeOK
  /\ WindowRuns
  /\ TraceKept
  /\ SamplesExact
  /\ DepthReached
  /\ WeightsExact
  /\ BuffersKept
  /\ DryIsSmall
  /\ OutcomesHonest
  /\ RunsRecorded
  /\ ErrorsCounted
  /\ EntriesHonest

\* The unbuffered target has no backend of the comparison.
BenchUnused == entries = <<>>

-----------------------------------------------------------------------------

IInv ==
  \/ program = "comparison" /\ BenchInv /\ CellUnused
  \/ program = "unbuffered" /\ CellInv /\ BenchUnused

-----------------------------------------------------------------------------
(* Arithmetic. *)

LEMMA OfTwo ==
  ASSUME NEW a \in Int, NEW b \in Int
  PROVE  Max({a, b}) = (IF a >= b THEN a ELSE b) /\ Min({a, b}) = Lesser(a, b)
<1>1. \E x \in {a, b} : \A y \in {a, b} : x >= y
  OBVIOUS
<1>2. Max({a, b}) \in {a, b} /\ \A y \in {a, b} : Max({a, b}) >= y
  BY <1>1 DEF Max
<1>3. \E x \in {a, b} : \A y \in {a, b} : x <= y
  OBVIOUS
<1>4. Min({a, b}) \in {a, b} /\ \A y \in {a, b} : Min({a, b}) <= y
  BY <1>3 DEF Min
<1> QED
  BY <1>2, <1>4 DEF Lesser

LEMMA AtLeastOne ==
  ASSUME NEW d \in Nat \ {0}
  PROVE  Max({d, 1}) = d
<1>1. \E x \in {d, 1} : \A y \in {d, 1} : x >= y
  OBVIOUS
<1>2. Max({d, 1}) \in {d, 1} /\ \A y \in {d, 1} : Max({d, 1}) >= y
  BY <1>1 DEF Max
<1> QED
  BY <1>2

\* Whole multiples of a divisor.
LEMMA Multiples ==
  ASSUME NEW s \in Nat, NEW g \in Nat \ {0}
  PROVE  s * g \in Nat /\ (s * g) % g = 0 /\ (s * g) \div g = s
OBVIOUS

LEMMA DivideDown ==
  ASSUME NEW n \in Nat, NEW g \in Nat \ {0}, NEW s \in Nat, s <= n \div g
  PROVE  s * g <= n
<1>1. (n \div g) \in Nat /\ (n \div g) * g <= n
  OBVIOUS
<1> QED
  BY <1>1

LEMMA DivideUp ==
  ASSUME NEW n \in Nat, NEW g \in Nat \ {0}
  PROVE  /\ NextMultiple(n, g) \in Nat
         /\ NextMultiple(n, g) >= n
         /\ NextMultiple(n, g) % g = 0
<1> DEFINE q == (n + g - 1) \div g
<1>1. q \in Nat /\ n + g - 1 < (q + 1) * g
  OBVIOUS
<1>2. (q + 1) * g = q * g + g
  BY <1>1
<1>3. q * g \in Nat /\ (q * g) % g = 0
  BY <1>1, Multiples
<1> HIDE DEF q
<1>4. NextMultiple(n, g) = q * g
  BY DEF NextMultiple, q
<1> QED
  BY <1>1, <1>2, <1>3, <1>4

-----------------------------------------------------------------------------
(* The unbuffered arm. *)

LEMMA BlockType ==
  ASSUME CellTypeOK
  PROVE  /\ Block \in Nat \ {0} /\ Block <= ReadFileBytes
         /\ ReadFileBytes \in Nat /\ Operations \in Nat \ {0}
         /\ cell.depth \in Nat \ {0}
BY UnbufferedAssumption DEF CellTypeOK, Block

\* An alignment that Alignment::validate lets through can be divided by.
LEMMA GranularityUsable ==
  ASSUME NEW v \in Volumes, Validate(v)
  PROVE  Max({v.logical} \cup v.others) \in Nat \ {0}
<1> DEFINE S == {v.logical} \cup v.others
<1>1. v.logical \in Nat \ {0} /\ S \subseteq Nat
  BY UnbufferedAssumption DEF Validate
<1>2. \E most \in S : \A n \in S : n <= most
  BY UnbufferedAssumption
<1>3. \E most \in S : \A n \in S : most >= n
  BY <1>1, <1>2
<1>4. Max(S) \in S /\ \A n \in S : Max(S) >= n
  BY <1>3 DEF Max
<1>5. Max(S) >= v.logical
  BY <1>4
<1> QED
  BY <1>1, <1>4, <1>5

\* offsets draws only places from which a whole block can be read.
LEMMA OffsetsFit ==
  ASSUME NEW o \in Offsets, Block \in Nat \ {0}, fileBytes \in Nat, Block <= fileBytes,
         Granularity \in Nat \ {0}, Operations \in Nat \ {0}, NEW n \in 1 .. Operations
  PROVE  o[n] % Granularity = 0 /\ o[n] + Block <= fileBytes
<1> DEFINE g == Granularity
           room == fileBytes - Block
<1>0. room \in Nat
  OBVIOUS
<1>1. room \in Nat /\ Max({fileBytes - Block, 0}) = room
  <2>1. Max({room, 0}) = IF room >= 0 THEN room ELSE 0
    BY <1>0, OfTwo
  <2> QED
    BY <1>0, <2>1
<1>2. Slots = (room \div g) + 1 /\ (room \div g) \in Nat
  BY <1>1 DEF Slots
<1>3. PICK s \in 0 .. Slots - 1 : o[n] = s * g
  <2>1. CASE cell.scenario = "SequentialRead"
    <3>1. o[n] = ((n - 1) % Slots) * g
      BY <2>1 DEF Offsets
    <3>2. (n - 1) % Slots \in 0 .. Slots - 1
      BY <1>2
    <3> QED
      BY <3>1, <3>2
  <2>2. CASE cell.scenario # "SequentialRead"
    BY <2>2 DEF Offsets
  <2> QED
    BY <2>1, <2>2
<1>4. s \in Nat /\ s <= room \div g
  BY <1>2, <1>3
<1> HIDE DEF room
<1>5. s * g <= room /\ (s * g) % g = 0 /\ s * g \in Nat
  BY <1>1, <1>4, DivideDown, Multiples
<1> QED
  BY <1>1, <1>3, <1>5 DEF room

LEMMA DepthInterval ==
  ASSUME CellTypeOK
  PROVE  IsFiniteSet(1 .. cell.depth) /\ Cardinality(1 .. cell.depth) = cell.depth
<1>1. cell.depth \in Nat \ {0}
  BY BlockType
<1>2. /\ IsFiniteSet(1 .. cell.depth)
      /\ Cardinality(1 .. cell.depth) = IF 1 > cell.depth THEN 0 ELSE cell.depth - 1 + 1
  BY <1>1, FS_Interval
<1> QED
  BY <1>1, <1>2

LEMMA InitCell == CellInit => CellInv
<1> SUFFICES ASSUME CellInit PROVE CellInv
  OBVIOUS
<1> USE DEF CellInit, CellIdle
<1>1. CellTypeOK
  <2>1. 0 \in 0 .. Operations
    BY UnbufferedAssumption
  <2> QED
    BY <2>1, FS_EmptySet DEF CellTypeOK, CellStages
<1>2. VolumeUsable /\ OffsetsLegal /\ ReadsApart /\ PoolWhole /\ WaitsAtDepth /\ DeliveredExact
  BY DEF VolumeUsable, OffsetsLegal, ReadsApart, PoolWhole, WaitsAtDepth, DeliveredExact,
         HasFile, HasPool, Reading
<1>3. CellDelivers
  BY DEF CellDelivers
<1> QED
  BY <1>1, <1>2, <1>3 DEF CellInv

\* A cell that is being set up has no read yet.
SetsUp ==
  /\ at \in {"query", "create", "build", "register", "open"}
  /\ UNCHANGED <<cell, cursor, issued, inFlight, delivered, runs>>

LEMMA SetupKeeps ==
  ASSUME CellInv, SetsUp, at' \in CellStages \ {"refill", "await"},
         IsFiniteSet(pool'), pool' \subseteq 1 .. cell.depth,
         VolumeUsable', OffsetsLegal',
         at' \in {"open", "timing"} => pool' = 1 .. cell.depth
  PROVE  CellInv'
<1>1. CellTypeOK /\ inFlight = {} /\ CellDelivers
  BY DEF CellInv, ReadsApart, SetsUp, Reading
<1>2. CellTypeOK'
  <2>1. inFlight' = {} /\ inFlight' \subseteq Read'
    BY <1>1 DEF SetsUp
  <2> QED
    BY <1>1, <2>1 DEF CellTypeOK, SetsUp
<1>3. ReadsApart'
  BY <1>1 DEF ReadsApart, SetsUp
<1>4. PoolWhole'
  <2> SUFFICES ASSUME at' \in {"open", "timing"} PROVE PoolWhole'
    BY DEF PoolWhole, HasPool
  <2>1. pool' = 1 .. cell.depth /\ inFlight' = {} /\ cell' = cell
    BY <1>1 DEF SetsUp
  <2>2. Cardinality(1 .. cell.depth) = cell.depth /\ cell.depth \in Nat
    BY <1>1, BlockType, DepthInterval
  <2>3. Cardinality({}) = 0
    BY FS_EmptySet
  <2> QED
    BY <2>1, <2>2, <2>3 DEF PoolWhole
<1>5. WaitsAtDepth' /\ DeliveredExact'
  BY DEF WaitsAtDepth, DeliveredExact
<1>6. CellDelivers'
  BY <1>1 DEF CellDelivers, SetsUp, Block
<1> QED
  BY <1>2, <1>3, <1>4, <1>5, <1>6 DEF CellInv

LEMMA QueryKeeps ==
  ASSUME CellInv, NEW v \in Volumes, QueryVolume(v)
  PROVE  CellInv'
<1>1. SetsUp /\ UNCHANGED pool /\ at' \in {"create", "panicked"}
  BY DEF QueryVolume, SetsUp
<1>2. VolumeUsable'
  <2>1. CASE Validate(v)
    <3>1. Granularity' \in Nat \ {0}
      BY <2>1, GranularityUsable DEF QueryVolume, Granularity
    <3> QED
      BY <1>1, <3>1 DEF VolumeUsable, HasFile
  <2>2. CASE ~Validate(v)
    BY <2>2 DEF QueryVolume, VolumeUsable, HasFile
  <2> QED
    BY <2>1, <2>2
<1>3. OffsetsLegal'
  BY <1>1 DEF OffsetsLegal, HasFile
<1>4. IsFiniteSet(pool') /\ pool' \subseteq 1 .. cell.depth
  BY <1>1 DEF CellInv, CellTypeOK
<1> QED
  BY <1>1, <1>2, <1>3, <1>4, SetupKeeps DEF CellStages

LEMMA CreateKeeps ==
  ASSUME CellInv, NEW succeeds \in BOOLEAN, CreateFile(succeeds)
  PROVE  CellInv'
<1>1. SetsUp /\ UNCHANGED pool /\ at' \in {"build", "panicked"}
  BY DEF CreateFile, SetsUp
<1>2. VolumeUsable'
  <2>1. CASE at' = "build"
    <3>1. Granularity \in Nat \ {0} /\ Granularity' = Granularity /\ Block' = Block
      BY DEF CellInv, VolumeUsable, CreateFile, Granularity, Block
    <3>2. fileBytes' = NextMultiple(ReadFileBytes, Granularity)
      BY <2>1 DEF CreateFile
    <3>3. CellTypeOK
      BY DEF CellInv
    <3>4. Block \in Nat /\ ReadFileBytes \in Nat /\ Block <= ReadFileBytes
      BY <3>3, BlockType
    <3>5. /\ fileBytes' \in Nat /\ fileBytes' >= ReadFileBytes
          /\ fileBytes' % Granularity = 0
      BY <3>1, <3>2, <3>4, DivideUp
    <3>6. Block <= fileBytes'
      BY <3>4, <3>5
    <3> QED
      BY <3>1, <3>5, <3>6 DEF VolumeUsable
  <2>2. CASE at' # "build"
    BY <1>1, <2>2 DEF VolumeUsable, HasFile
  <2> QED
    BY <2>1, <2>2
<1>3. OffsetsLegal'
  BY <1>1 DEF OffsetsLegal, HasFile
<1>4. IsFiniteSet(pool') /\ pool' \subseteq 1 .. cell.depth
  BY <1>1 DEF CellInv, CellTypeOK
<1> QED
  BY <1>1, <1>2, <1>3, <1>4, SetupKeeps DEF CellStages

LEMMA BuildKeeps ==
  ASSUME CellInv, BuildBackend \/ BuildFails
  PROVE  CellInv'
<1>1. /\ SetsUp /\ UNCHANGED <<volume, fileBytes>> /\ at = "build"
      /\ at' \in {"register", "open", "panicked"}
  BY DEF BuildBackend, BuildFails, SetsUp
<1>2. CellTypeOK
  BY DEF CellInv
<1>3. /\ Granularity \in Nat \ {0} /\ fileBytes \in Nat
      /\ fileBytes % Granularity = 0 /\ Block <= fileBytes
  BY <1>1 DEF CellInv, VolumeUsable
<1>4. Granularity' = Granularity /\ Block' = Block
  BY <1>1 DEF Granularity, Block, SetsUp
<1>5. VolumeUsable'
  BY <1>1, <1>3, <1>4 DEF VolumeUsable
<1>6. OffsetsLegal'
  <2> SUFFICES ASSUME at' # "panicked", Block % Granularity = 0, NEW n \in 1 .. Operations
               PROVE  Legal(n)'
    BY <1>1, <1>4 DEF OffsetsLegal, HasFile
  <2>1. offset' \in Offsets
    BY <1>1 DEF BuildBackend, BuildFails
  <2>2. offset'[n] % Granularity = 0 /\ offset'[n] + Block <= fileBytes
    BY <1>2, <1>3, <2>1, BlockType, OffsetsFit
  <2> QED
    BY <1>1, <1>4, <2>2 DEF Legal
<1>8. at' = "open" => pool' = 1 .. cell.depth
  BY <1>1 DEF BuildBackend, BuildFails
<1>7. IsFiniteSet(pool') /\ pool' \subseteq 1 .. cell.depth
  <2>1. pool' = pool \/ pool' = 1 .. cell.depth
    BY DEF BuildBackend, BuildFails
  <2> QED
    BY <1>2, <2>1, DepthInterval DEF CellTypeOK
<1> QED
  BY <1>1, <1>5, <1>6, <1>7, <1>8, SetupKeeps DEF CellStages

\* The file, the volume and the offsets stay as they are.
LEMMA FileKept ==
  ASSUME CellInv, UNCHANGED <<cell, volume, fileBytes, offset>>,
         at' \in HasFile => at \in HasFile, at' \notin {"create", "build"}
  PROVE  VolumeUsable' /\ OffsetsLegal' /\ Block' = Block
<1>1. Granularity' = Granularity /\ Block' = Block
  BY DEF Granularity, Block
<1>2. \A n : Legal(n)' <=> Legal(n)
  BY <1>1 DEF Legal
<1>3. VolumeUsable /\ OffsetsLegal
  BY DEF CellInv
<1> QED
  BY <1>1, <1>2, <1>3 DEF VolumeUsable, OffsetsLegal

LEMMA RegisterKeeps ==
  ASSUME CellInv, NEW succeeds \in BOOLEAN, RegisterAligned(succeeds)
  PROVE  CellInv'
<1>1. SetsUp /\ at \in HasFile /\ at' \in {"open", "unwind"}
  BY DEF RegisterAligned, SetsUp, HasFile
<1>2. VolumeUsable' /\ OffsetsLegal'
  BY <1>1, FileKept DEF RegisterAligned
<1>3. /\ pool' \in {1 .. cell.depth, {}}
      /\ at' = "open" => pool' = 1 .. cell.depth
  BY DEF RegisterAligned
<1>4. IsFiniteSet(pool') /\ pool' \subseteq 1 .. cell.depth
  BY <1>3, DepthInterval, FS_EmptySet DEF CellInv
<1> QED
  BY <1>1, <1>2, <1>3, <1>4, SetupKeeps DEF CellStages

LEMMA OpenKeeps ==
  ASSUME CellInv, NEW succeeds \in BOOLEAN, OpenRead(succeeds)
  PROVE  CellInv'
<1>1. SetsUp /\ at = "open" /\ at' \in {"timing", "unwind"} /\ pool' = pool
  BY DEF OpenRead, SetsUp
<1>2. VolumeUsable' /\ OffsetsLegal'
  BY <1>1, FileKept DEF OpenRead, HasFile
<1>3. inFlight = {}
  BY <1>1 DEF CellInv, ReadsApart, Reading
<1>4. pool = 1 .. cell.depth
  BY <1>1, <1>3 DEF CellInv, PoolWhole, HasPool
<1>5. IsFiniteSet(pool) /\ pool \subseteq 1 .. cell.depth
  BY DEF CellInv, CellTypeOK
<1> QED
  BY <1>1, <1>2, <1>4, <1>5, SetupKeeps DEF CellStages

LEMMA StartKeeps ==
  ASSUME CellInv, StartReads
  PROVE  CellInv'
<1>1. /\ at = "timing" /\ at' = "refill" /\ issued' = 0 /\ delivered' = 0
      /\ UNCHANGED <<cell, volume, fileBytes, offset, pool, cursor, inFlight, runs>>
  BY DEF StartReads
<1>2. CellTypeOK /\ CellDelivers /\ ReadsApart /\ PoolWhole
  BY DEF CellInv
<1>3. inFlight = {}
  BY <1>1, <1>2 DEF ReadsApart, Reading
<1>4. VolumeUsable' /\ OffsetsLegal' /\ Block' = Block
  BY <1>1, FileKept DEF HasFile
<1>5. CellTypeOK'
  <2>1. Read' = Read /\ 0 \in 0 .. Operations
    BY <1>1, UnbufferedAssumption DEF Read
  <2> QED
    BY <1>1, <1>2, <2>1 DEF CellTypeOK, CellStages
<1>6. ReadsApart'
  BY <1>1, <1>3 DEF ReadsApart
<1>7. PoolWhole'
  BY <1>1, <1>2 DEF PoolWhole, HasPool
<1>8. DeliveredExact'
  <2>1. Cardinality(inFlight) = 0
    BY <1>3, FS_EmptySet
  <2>2. Block \in Nat
    BY <1>2, BlockType
  <2>3. delivered' = (issued' - Cardinality(inFlight')) * Block'
    BY <1>1, <1>4, <2>1, <2>2
  <2> QED
    BY <2>3 DEF DeliveredExact
<1>9. CellDelivers' /\ WaitsAtDepth'
  BY <1>1, <1>2, <1>4 DEF CellDelivers, WaitsAtDepth
<1> QED
  BY <1>4, <1>5, <1>6, <1>7, <1>8, <1>9 DEF CellInv

LEMMA LeastOf ==
  ASSUME NEW S, S \subseteq Nat, S # {}
  PROVE  Min(S) \in S
<1>1. PICK n \in S : \A m \in S : ~(<<m, n>> \in OpToRel(<, Nat))
  BY NatLessThanWellFounded, WFMin
<1>2. \A m \in S : n <= m
  <2> SUFFICES ASSUME NEW m \in S, m < n PROVE FALSE
    OBVIOUS
  <2>1. <<m, n>> \in Nat \X Nat
    OBVIOUS
  <2>2. <<m, n>> \in OpToRel(<, Nat)
    BY <2>1 DEF OpToRel
  <2> QED
    BY <1>1, <2>2
<1> QED
  BY <1>2 DEF Min

LEMMA IssueKeeps ==
  ASSUME CellInv, IssueRead
  PROVE  CellInv'
<1> DEFINE buffer == Min(pool)
           r == [n |-> issued + 1, buffer |-> buffer, state |-> "new", handle |-> 0]
<1>1. /\ at = "refill" /\ issued < Operations /\ pool # {}
      /\ issued' = issued + 1 /\ pool' = pool \ {buffer} /\ inFlight' = inFlight \cup {r}
      /\ UNCHANGED <<cell, at, volume, fileBytes, offset, cursor, delivered, runs>>
  BY DEF IssueRead, TakeBuffer, TakeRegistered
<1>2. CellTypeOK /\ CellDelivers /\ ReadsApart /\ PoolWhole /\ DeliveredExact
  BY DEF CellInv
<1>3. /\ issued \in 0 .. Operations /\ Operations \in Nat /\ cell.depth \in Nat
      /\ IsFiniteSet(pool) /\ IsFiniteSet(inFlight)
      /\ pool \subseteq 1 .. cell.depth /\ inFlight \subseteq Read
  BY <1>2, BlockType DEF CellTypeOK
<1>4. buffer \in pool
  <2>1. pool \subseteq Nat
    BY <1>3
  <2> QED
    BY <1>1, <2>1, LeastOf
<1> HIDE DEF buffer
<1>5. r \in Read /\ r.n = issued + 1 /\ r.buffer = buffer
  <2>1. issued + 1 \in 1 .. Operations /\ buffer \in 1 .. cell.depth
    <3>1. issued < Operations
      BY <1>1
    <3>2. issued \in 0 .. Operations /\ Operations \in Nat
      BY <1>3
    <3>3. issued + 1 \in 1 .. Operations
      BY <3>1, <3>2
    <3>4. buffer \in 1 .. cell.depth
      BY <1>3, <1>4
    <3> QED
      BY <3>3, <3>4
  <2> QED
    BY <2>1 DEF Read, ReadState
<1> HIDE DEF r
<1>6. \A q \in inFlight : q.n \in Int /\ q.n <= issued /\ q.buffer \notin pool
  BY <1>2, <1>3 DEF ReadsApart, Read
<1>7. r \notin inFlight
  BY <1>3, <1>5, <1>6
<1>8. VolumeUsable' /\ OffsetsLegal' /\ Block' = Block
  BY <1>1, FileKept DEF HasFile
<1>9. CellTypeOK'
  <2>1. IsFiniteSet(pool') /\ IsFiniteSet(inFlight')
    BY <1>1, <1>3, FS_RemoveElement, FS_AddElement
  <2>2. inFlight' \subseteq Read' /\ pool' \subseteq 1 .. cell'.depth
    BY <1>1, <1>3, <1>5 DEF Read
  <2>3. issued' \in 0 .. Operations
    BY <1>1, <1>3
  <2> QED
    BY <1>1, <1>2, <2>1, <2>2, <2>3 DEF CellTypeOK
<1>10. ReadsApart'
  <2>1. \A q \in inFlight' : q.n <= issued' /\ q.buffer \notin pool'
    BY <1>1, <1>3, <1>5, <1>6
  <2>2. ASSUME NEW p \in inFlight', NEW q \in inFlight', p.n = q.n \/ p.buffer = q.buffer
        PROVE  p = q
    <3>1. CASE p \in inFlight /\ q \in inFlight
      BY <1>2, <2>2, <3>1 DEF ReadsApart
    <3>2. ASSUME NEW x \in inFlight PROVE x.n # r.n /\ x.buffer # r.buffer
      BY <1>3, <1>4, <1>5, <1>6
    <3> QED
      BY <1>1, <2>2, <3>1, <3>2
  <2> QED
    BY <1>1, <2>1, <2>2 DEF ReadsApart, Reading
<1>11. /\ Cardinality(pool') = Cardinality(pool) - 1 /\ Cardinality(pool) \in Nat
       /\ Cardinality(inFlight') = Cardinality(inFlight) + 1 /\ Cardinality(inFlight) \in Nat
  BY <1>1, <1>3, <1>4, <1>7, FS_RemoveElement, FS_AddElement, FS_CardinalityType
<1>12. PoolWhole'
  <2>1. /\ pool \cup {q.buffer : q \in inFlight} = 1 .. cell.depth
        /\ Cardinality(pool) + Cardinality(inFlight) = cell.depth
    BY <1>1, <1>2 DEF PoolWhole, HasPool
  <2>2. {q.buffer : q \in inFlight'} = {q.buffer : q \in inFlight} \cup {buffer}
    BY <1>1, <1>5
  <2>3. pool' \cup {q.buffer : q \in inFlight'} = 1 .. cell.depth
    BY <1>1, <1>4, <2>1, <2>2
  <2>4. Cardinality(pool') + Cardinality(inFlight') = cell.depth
    BY <1>3, <1>11, <2>1
  <2> QED
    BY <1>1, <2>3, <2>4 DEF PoolWhole
<1>13. DeliveredExact'
  <2>1. delivered = (issued - Cardinality(inFlight)) * Block
    BY <1>1, <1>2 DEF DeliveredExact
  <2>2. issued' - Cardinality(inFlight') = issued - Cardinality(inFlight)
    BY <1>1, <1>3, <1>11
  <2> QED
    BY <1>1, <1>8, <2>1, <2>2 DEF DeliveredExact
<1>14. CellDelivers' /\ WaitsAtDepth'
  BY <1>1, <1>2, <1>8 DEF CellDelivers, WaitsAtDepth
<1> QED
  BY <1>8, <1>9, <1>10, <1>12, <1>13, <1>14 DEF CellInv

LEMMA RefilledKeeps ==
  ASSUME CellInv, Refilled
  PROVE  CellInv'
<1>1. /\ at = "refill" /\ (issued = Operations \/ TakeBuffer # "Ok")
      /\ UNCHANGED <<cell, volume, fileBytes, offset, pool, cursor, issued, inFlight, delivered>>
  BY DEF Refilled
<1> DEFINE complete == inFlight = {} /\ issued = Operations
<1>2. CellTypeOK /\ CellDelivers /\ ReadsApart /\ PoolWhole /\ DeliveredExact
  BY DEF CellInv
<1>3. at' \in {"timing", "unwind", "await"} /\ (at' = "timing" => complete)
  BY DEF Refilled
<1>4. at' = "await" => issued = Operations \/ pool = {}
  <2>1. issued \in 0 .. Operations /\ Operations \in Nat
    BY <1>2, BlockType DEF CellTypeOK
  <2>2. at' = "await" => ~(issued < Operations /\ TakeBuffer = "InvalidInput")
    BY DEF Refilled
  <2>3. TakeBuffer = "WouldBlock" => pool = {}
    BY DEF TakeBuffer, TakeRegistered
  <2>4. TakeBuffer \in {"InvalidInput", "WouldBlock", "Ok"}
    BY DEF TakeBuffer, TakeRegistered
  <2> QED
    BY <1>1, <2>1, <2>2, <2>3, <2>4
<1>5. VolumeUsable' /\ OffsetsLegal' /\ Block' = Block
  BY <1>1, <1>3, FileKept DEF HasFile
<1>6. complete => delivered = Operations * Block
  <2>1. Cardinality({}) = 0
    BY FS_EmptySet
  <2>2. Operations \in Nat
    BY <1>2, BlockType
  <2> QED
    BY <1>1, <1>2, <2>1, <2>2 DEF DeliveredExact
<1>7. runs \in Seq(Nat) /\ delivered \in Nat
  BY <1>2 DEF CellTypeOK
<1>8. runs' = (IF complete THEN Append(runs, delivered) ELSE runs)
  BY DEF Refilled
<1>9. CellTypeOK'
  <2>1. Read' = Read
    BY <1>1 DEF Read
  <2>2. runs' \in Seq(Nat)
    BY <1>7, <1>8
  <2> QED
    BY <1>1, <1>2, <1>3, <2>1, <2>2 DEF CellTypeOK, CellStages
<1>10. ReadsApart'
  BY <1>1, <1>2, <1>3 DEF ReadsApart, Reading
<1>11. PoolWhole'
  BY <1>1, <1>2, <1>3 DEF PoolWhole, HasPool
<1>12. DeliveredExact'
  BY <1>1, <1>2, <1>3, <1>5 DEF DeliveredExact
<1>13. WaitsAtDepth'
  <2> SUFFICES ASSUME at' = "await", issued # Operations PROVE Cardinality(inFlight) = cell.depth
    BY <1>1 DEF WaitsAtDepth
  <2>1. pool = {} /\ Cardinality({}) = 0
    BY <1>4, FS_EmptySet
  <2>2. Cardinality(pool) + Cardinality(inFlight) = cell.depth
    BY <1>1, <1>2 DEF PoolWhole, HasPool
  <2>3. Cardinality(inFlight) \in Nat
    BY <1>2, FS_CardinalityType DEF CellTypeOK
  <2> QED
    BY <2>1, <2>2, <2>3
<1>14. CellDelivers'
  <2>1. CASE complete
    <3>1. ASSUME NEW i \in DOMAIN runs' PROVE runs'[i] = Operations * Block
      BY <1>2, <1>6, <1>7, <1>8, <2>1 DEF CellDelivers
    <3> QED
      BY <1>5, <3>1 DEF CellDelivers
  <2>2. CASE ~complete
    BY <1>2, <1>5, <1>8, <2>2 DEF CellDelivers
  <2> QED
    BY <2>1, <2>2
<1> QED
  BY <1>5, <1>9, <1>10, <1>11, <1>12, <1>13, <1>14 DEF CellInv

\* A read moves on: polled, taken by the blocking pool, or answered.
LEMMA ReadMoves ==
  ASSUME CellInv, NEW r \in inFlight, NEW q \in Read, q.n = r.n, q.buffer = r.buffer,
         inFlight' = (inFlight \ {r}) \cup {q}, cursor' \in Nat,
         UNCHANGED <<cell, at, volume, fileBytes, offset, pool, issued, delivered, runs>>
  PROVE  CellInv'
<1>1. /\ CellTypeOK /\ CellDelivers /\ ReadsApart /\ PoolWhole /\ DeliveredExact
      /\ WaitsAtDepth
  BY DEF CellInv
<1>2. at \in Reading
  BY <1>1 DEF ReadsApart
<1>3. VolumeUsable' /\ OffsetsLegal' /\ Block' = Block
  BY <1>2, FileKept DEF HasFile, Reading
<1>4. IsFiniteSet(inFlight) /\ inFlight \subseteq Read
  BY <1>1 DEF CellTypeOK
<1>5. q \notin inFlight \ {r}
  BY <1>1 DEF ReadsApart
<1>6. IsFiniteSet(inFlight') /\ Cardinality(inFlight') = Cardinality(inFlight)
  <2>1. /\ IsFiniteSet(inFlight \ {r})
        /\ Cardinality(inFlight \ {r}) = Cardinality(inFlight) - 1
        /\ Cardinality(inFlight) \in Nat
    BY <1>4, FS_RemoveElement, FS_CardinalityType
  <2>2. /\ IsFiniteSet((inFlight \ {r}) \cup {q})
        /\ Cardinality((inFlight \ {r}) \cup {q}) = Cardinality(inFlight \ {r}) + 1
    BY <1>5, <2>1, FS_AddElement
  <2> QED
    BY <2>1, <2>2
<1>7. CellTypeOK'
  <2>1. Read' = Read
    BY DEF Read
  <2> QED
    BY <1>1, <1>4, <1>6, <2>1 DEF CellTypeOK
<1>8. ReadsApart'
  <2>1. \A p \in inFlight' : p.n <= issued' /\ p.buffer \notin pool'
    BY <1>1 DEF ReadsApart
  <2>2. ASSUME NEW x \in inFlight', NEW y \in inFlight', x.n = y.n \/ x.buffer = y.buffer
        PROVE  x = y
    <3>1. \A p \in inFlight \ {r} : p.n # q.n /\ p.buffer # q.buffer
      BY <1>1 DEF ReadsApart
    <3>2. CASE x \in inFlight \ {r} /\ y \in inFlight \ {r}
      BY <1>1, <2>2, <3>2 DEF ReadsApart
    <3> QED
      BY <2>2, <3>1, <3>2
  <2> QED
    BY <1>2, <2>1, <2>2 DEF ReadsApart
<1>9. PoolWhole'
  <2>1. {p.buffer : p \in inFlight'} = {p.buffer : p \in inFlight}
    OBVIOUS
  <2> QED
    BY <1>1, <1>6, <2>1 DEF PoolWhole
<1>10. DeliveredExact' /\ WaitsAtDepth'
  BY <1>1, <1>3, <1>6 DEF DeliveredExact, WaitsAtDepth
<1>11. CellDelivers'
  BY <1>1, <1>3 DEF CellDelivers
<1> QED
  BY <1>3, <1>7, <1>8, <1>9, <1>10, <1>11 DEF CellInv

LEMMA PollKeeps ==
  ASSUME CellInv, NEW r \in inFlight, PollRead(r)
  PROVE  CellInv'
<1>1. r \in Read /\ cursor \in Nat /\ cell.depth \in Nat \ {0}
  BY BlockType DEF CellInv, CellTypeOK
<1>2. Handles(cell.config, cell.depth) \in Nat \ {0}
  <2>1. Max({cell.depth, 1}) = cell.depth
    BY <1>1, AtLeastOne
  <2> QED
    BY <1>1, <2>1 DEF Handles
<1>3. Pick \in Int
  BY <1>1, <1>2 DEF Pick
<1>4. inFlight' = (inFlight \ {r}) \cup {ReadAt(r)} /\ cursor' \in Nat
  BY <1>1 DEF PollRead
<1>5. ReadAt(r) \in Read /\ ReadAt(r).n = r.n /\ ReadAt(r).buffer = r.buffer
  BY <1>1, <1>3 DEF Read, ReadState, ReadAt
<1> QED
  BY <1>4, <1>5, ReadMoves DEF PollRead

LEMMA DeviceKeeps ==
  ASSUME CellInv, NEW r \in inFlight,
         PoolRuns(r) \/ \E answer \in Answers : DeviceAnswers(r, answer)
  PROVE  CellInv'
<1>1. r \in Read /\ cursor \in Nat
  BY DEF CellInv, CellTypeOK
<1>2. ASSUME NEW st \in ReadState
      PROVE  LET q == [r EXCEPT !.state = st]
             IN q \in Read /\ q.n = r.n /\ q.buffer = r.buffer
  BY <1>1 DEF Read
<1>3. PICK st \in ReadState : inFlight' = (inFlight \ {r}) \cup {[r EXCEPT !.state = st]}
  BY DEF PoolRuns, DeviceAnswers, Answers, ReadState
<1>4. UNCHANGED <<cell, at, volume, fileBytes, offset, pool, cursor, issued, delivered, runs>>
  BY DEF PoolRuns, DeviceAnswers
<1> QED
  BY <1>1, <1>2, <1>3, <1>4, ReadMoves

LEMMA CollectKeeps ==
  ASSUME CellInv, NEW r \in inFlight, CollectRead(r)
  PROVE  CellInv'
<1>1. /\ at = "await" /\ inFlight' = inFlight \ {r} /\ pool' = pool \cup {r.buffer}
      /\ UNCHANGED <<cell, volume, fileBytes, offset, cursor, issued, runs>>
      /\ \/ at' = "refill" /\ delivered' = delivered + Block
         \/ at' = "unwind" /\ delivered' = delivered
  BY DEF CollectRead
<1>2. CellTypeOK /\ CellDelivers /\ ReadsApart /\ PoolWhole /\ DeliveredExact
  BY DEF CellInv
<1>3. /\ IsFiniteSet(inFlight) /\ inFlight \subseteq Read /\ r \in Read
      /\ IsFiniteSet(pool) /\ pool \subseteq 1 .. cell.depth
      /\ issued \in Nat /\ delivered \in Nat
  BY <1>2, BlockType DEF CellTypeOK
<1>4. r.buffer \in 1 .. cell.depth /\ r.buffer \notin pool
  BY <1>2, <1>3 DEF Read, ReadsApart
<1>5. VolumeUsable' /\ OffsetsLegal' /\ Block' = Block
  BY <1>1, FileKept DEF HasFile
<1>6. Block \in Nat /\ cell.depth \in Nat
  BY <1>2, BlockType
<1>7. /\ IsFiniteSet(pool') /\ Cardinality(pool') = Cardinality(pool) + 1
      /\ IsFiniteSet(inFlight') /\ Cardinality(inFlight') = Cardinality(inFlight) - 1
      /\ Cardinality(pool) \in Nat /\ Cardinality(inFlight) \in Nat
  BY <1>1, <1>3, <1>4, FS_AddElement, FS_RemoveElement, FS_CardinalityType
<1>8. CellTypeOK'
  <2>1. Read' = Read /\ inFlight' \subseteq Read /\ pool' \subseteq 1 .. cell.depth
    BY <1>1, <1>3, <1>4 DEF Read
  <2>2. delivered' \in Nat
    BY <1>1, <1>3, <1>6
  <2> QED
    BY <1>1, <1>2, <1>7, <2>1, <2>2 DEF CellTypeOK, CellStages
<1>9. ReadsApart'
  BY <1>1, <1>2 DEF ReadsApart, Reading
<1>10. PoolWhole'
  <2>1. /\ pool \cup {p.buffer : p \in inFlight} = 1 .. cell.depth
        /\ Cardinality(pool) + Cardinality(inFlight) = cell.depth
    BY <1>1, <1>2 DEF PoolWhole, HasPool
  <2>2. pool' \cup {p.buffer : p \in inFlight'} = 1 .. cell.depth
    BY <1>1, <2>1
  <2>3. Cardinality(pool') + Cardinality(inFlight') = cell.depth
    BY <1>6, <1>7, <2>1
  <2> QED
    BY <1>1, <2>2, <2>3 DEF PoolWhole
<1>11. DeliveredExact'
  <2> SUFFICES ASSUME at' = "refill" PROVE delivered' = (issued' - Cardinality(inFlight')) * Block'
    BY <1>1 DEF DeliveredExact
  <2>1. delivered = (issued - Cardinality(inFlight)) * Block
    BY <1>1, <1>2 DEF DeliveredExact
  <2>2. (issued - (Cardinality(inFlight) - 1)) * Block
          = (issued - Cardinality(inFlight)) * Block + Block
    BY <1>3, <1>6, <1>7
  <2> QED
    BY <1>1, <1>5, <1>7, <2>1, <2>2
<1>12. WaitsAtDepth' /\ CellDelivers'
  BY <1>1, <1>2, <1>5 DEF WaitsAtDepth, CellDelivers
<1> QED
  BY <1>5, <1>8, <1>9, <1>10, <1>11, <1>12 DEF CellInv

LEMMA EndKeeps ==
  ASSUME CellInv, EndCell \/ Unwind
  PROVE  CellInv'
<1>1. /\ at' \in {"reported", "panicked"} /\ inFlight' \in {inFlight, {}}
      /\ at' = "reported" => at = "timing" /\ inFlight' = inFlight
      /\ at' = "panicked" => inFlight' = {}
      /\ UNCHANGED <<cell, volume, fileBytes, offset, pool, cursor, issued, delivered, runs>>
  BY DEF EndCell, Unwind
<1>2. CellTypeOK /\ CellDelivers /\ ReadsApart
  BY DEF CellInv
<1>3. inFlight' = {}
  BY <1>1, <1>2 DEF ReadsApart, Reading
<1>4. VolumeUsable' /\ OffsetsLegal' /\ Block' = Block
  BY <1>1, FileKept DEF HasFile
<1>5. CellTypeOK'
  BY <1>1, <1>2, <1>3, FS_EmptySet DEF CellTypeOK, CellStages
<1>6. ReadsApart'
  BY <1>3 DEF ReadsApart
<1>7. PoolWhole' /\ WaitsAtDepth' /\ DeliveredExact'
  BY <1>1 DEF PoolWhole, WaitsAtDepth, DeliveredExact, HasPool
<1>8. CellDelivers'
  BY <1>1, <1>2, <1>4 DEF CellDelivers
<1> QED
  BY <1>4, <1>5, <1>6, <1>7, <1>8 DEF CellInv

LEMMA CellNextKeeps ==
  ASSUME CellInv, CellNext \/ UNCHANGED cellVars
  PROVE  CellInv'
<1>1. CASE CellNext
  BY <1>1, QueryKeeps, CreateKeeps, RegisterKeeps, OpenKeeps, BuildKeeps, StartKeeps, IssueKeeps,
     RefilledKeeps, PollKeeps, CollectKeeps, EndKeeps, DeviceKeeps
     DEF CellNext, CellStep, DeviceStep
<1>2. CASE UNCHANGED cellVars
  BY <1>2 DEF cellVars, CellInv, CellTypeOK, VolumeUsable, OffsetsLegal, ReadsApart, PoolWhole,
     WaitsAtDepth, DeliveredExact, CellDelivers, Read, Granularity, Block, Legal
<1> QED
  BY <1>1, <1>2

\* What the invariant says of a cell.
LEMMA CellHonest ==
  /\ CellInv => CellDelivers /\ CellAtDepth
  /\ CellUnused => CellDelivers /\ CellAtDepth
<1>1. ASSUME CellInv PROVE CellAtDepth
  <2>1. /\ CellTypeOK /\ ReadsApart /\ PoolWhole /\ WaitsAtDepth /\ OffsetsLegal
    BY <1>1 DEF CellInv
  <2>2. ASSUME Block % Granularity = 0, NEW r \in inFlight PROVE Legal(r.n)
    <3>1. at \in HasFile
      BY <2>1 DEF ReadsApart, Reading, HasFile
    <3>2. r.n \in 1 .. Operations
      BY <2>1 DEF CellTypeOK, Read
    <3> QED
      BY <2>1, <2>2, <3>1, <3>2 DEF OffsetsLegal
  <2> QED
    BY <2>1, <2>2 DEF CellAtDepth, PoolWhole, WaitsAtDepth, HasPool
<1>2. CellInv => CellDelivers
  BY DEF CellInv
<1>3. CellUnused => CellDelivers /\ CellAtDepth
  BY DEF CellUnused, CellDelivers, CellAtDepth
<1> QED
  BY <1>1, <1>2, <1>3

-----------------------------------------------------------------------------
(* The comparison: sessions, traces and entries. *)

LEMMA JobFacts ==
  ASSUME job \in JobType
  PROVE  /\ job.count \in Nat \ {0} /\ job.count <= MaxCount /\ MaxCount \in Nat
         /\ job.depth \in Nat \ {0} /\ Max({job.depth, 1}) = job.depth
         /\ NewTrace.issued \in Nat /\ NewTrace.delivered = {}
         /\ NewTrace \in TraceType
<1>1. job.count \in 1 .. MaxCount /\ MaxCount \in Nat /\ job.depth \in Nat \ {0}
  BY BenchAssumption, WindowAssumption DEF JobType
<1>2. Max({job.depth, 1}) = job.depth
  BY <1>1, AtLeastOne
<1>3. NewTrace \in TraceType /\ NewTrace.delivered = {}
  BY <1>1 DEF NewTrace, TraceType
<1> QED
  BY <1>1, <1>2, <1>3 DEF TraceType

\* A field of the session at a time.
LEMMA NewSession ==
  ASSUME job \in JobType, NEW kind \in BackendKinds, NEW w \in Weakness
  PROVE  LET s == NoSession(kind, w)
         IN /\ s \in SessionType /\ s.kind = kind /\ s.weakness = w /\ s.phase = "Read"
            /\ s.warm = {} /\ s.first = {} /\ s.last = {} /\ s.timed = {}
            /\ s.iterations = 0 /\ s.failure = FALSE /\ s.errors = 0
BY JobFacts DEF NoSession, SessionType

LEMMA FailedSession ==
  ASSUME sess \in SessionType
  PROVE  \A s \in {[sess EXCEPT !.failure = TRUE, !.errors = @ + 1], RecordFailure} :
           /\ s \in SessionType /\ s.failure = TRUE
           /\ s.kind = sess.kind /\ s.weakness = sess.weakness /\ s.phase = sess.phase
           /\ s.warm = sess.warm /\ s.first = sess.first /\ s.last = sess.last
           /\ s.timed = sess.timed /\ s.iterations >= sess.iterations
<1>1. sess.iterations \in Nat /\ sess.errors \in Nat
  BY DEF SessionType
<1>2. sess.errors + 1 \in Nat /\ sess.iterations + 1 \in Nat /\ sess.iterations + 1 >= sess.iterations
  BY <1>1
<1> DEFINE s1 == [sess EXCEPT !.failure = TRUE, !.errors = @ + 1]
           s2 == RecordFailure
<1>3. /\ s1 \in SessionType /\ s1.failure = TRUE
      /\ s1.kind = sess.kind /\ s1.weakness = sess.weakness /\ s1.phase = sess.phase
      /\ s1.warm = sess.warm /\ s1.first = sess.first /\ s1.last = sess.last
      /\ s1.timed = sess.timed /\ s1.iterations = sess.iterations
  BY <1>2 DEF SessionType
<1>4. /\ s2 \in SessionType /\ s2.failure = TRUE
      /\ s2.kind = sess.kind /\ s2.weakness = sess.weakness /\ s2.phase = sess.phase
      /\ s2.warm = sess.warm /\ s2.first = sess.first /\ s2.last = sess.last
      /\ s2.timed = sess.timed /\ s2.iterations = sess.iterations + 1
  BY <1>2 DEF SessionType, RecordFailure
<1>5. s1.iterations >= sess.iterations /\ s2.iterations >= sess.iterations
  BY <1>1, <1>3, <1>4
<1> HIDE DEF s1, s2
<1>6. \A s \in {s1, s2} :
           /\ s \in SessionType /\ s.failure = TRUE
           /\ s.kind = sess.kind /\ s.weakness = sess.weakness /\ s.phase = sess.phase
           /\ s.warm = sess.warm /\ s.first = sess.first /\ s.last = sess.last
           /\ s.timed = sess.timed /\ s.iterations >= sess.iterations
  BY <1>3, <1>4, <1>5
<1> QED
  BY <1>6 DEF s1, s2

\* The same evidence, and another trace or phase.
SameEvidence(s) ==
  /\ s \in SessionType /\ s.failure = sess.failure /\ s.errors = sess.errors
  /\ s.kind = sess.kind /\ s.weakness = sess.weakness
  /\ s.warm = sess.warm /\ s.first = sess.first /\ s.last = sess.last
  /\ s.timed = sess.timed /\ s.iterations = sess.iterations

LEMMA TracedSession ==
  ASSUME sess \in SessionType, NEW t \in TraceType, NEW ph \in {"Read", "Write"}
  PROVE  /\ LET s == [sess EXCEPT !.trace = t]
            IN SameEvidence(s) /\ s.trace = t /\ s.phase = sess.phase
         /\ LET s == [sess EXCEPT !.trace = t, !.phase = ph]
            IN SameEvidence(s) /\ s.trace = t /\ s.phase = ph
         /\ LET s == [sess EXCEPT !.phase = ph]
            IN SameEvidence(s) /\ s.trace = sess.trace /\ s.phase = ph
BY DEF SessionType, SameEvidence

LEMMA WarmSession ==
  ASSUME sess \in SessionType, NEW o \in OutcomeType
  PROVE  LET s == [sess EXCEPT !.warm = {o}]
         IN /\ s \in SessionType /\ s.failure = sess.failure /\ s.errors = sess.errors
            /\ s.kind = sess.kind /\ s.weakness = sess.weakness /\ s.phase = sess.phase
            /\ s.warm = {o} /\ s.first = sess.first /\ s.last = sess.last
            /\ s.timed = sess.timed /\ s.iterations = sess.iterations
BY DEF SessionType

LEMMA TimedSession ==
  ASSUME sess \in SessionType, NEW o \in OutcomeType
  PROVE  LET s == RecordOutcome(o)
         IN /\ s \in SessionType /\ s.failure = sess.failure /\ s.errors = sess.errors
            /\ s.kind = sess.kind /\ s.weakness = sess.weakness /\ s.phase = sess.phase
            /\ s.warm = sess.warm
            /\ s.first = (IF sess.first = {} THEN {o} ELSE sess.first)
            /\ s.last = {o} /\ s.timed = sess.timed \cup {o.trace}
            /\ s.iterations = sess.iterations + 1
<1>1. sess.iterations + 1 \in Nat /\ o.trace \in TraceType
  BY DEF SessionType, OutcomeType
<1>2. /\ {o} \subseteq OutcomeType
      /\ (IF sess.first = {} THEN {o} ELSE sess.first) \subseteq OutcomeType
      /\ sess.timed \cup {o.trace} \subseteq TraceType
  BY <1>1 DEF SessionType
<1>3. RecordOutcome(o) \in SessionType
  BY <1>1, <1>2 DEF SessionType, RecordOutcome
<1> QED
  BY <1>3 DEF SessionType, RecordOutcome

\* A verdict is added to the report.
LEMMA RangeAppend ==
  ASSUME NEW S, NEW s \in Seq(S), NEW e \in S
  PROVE  Append(s, e) \in Seq(S) /\ Range(Append(s, e)) = Range(s) \cup {e}
<1>1. /\ Append(s, e) \in Seq(S) /\ DOMAIN Append(s, e) = 1 .. Len(s) + 1
      /\ DOMAIN s = 1 .. Len(s) /\ Len(s) \in Nat
      /\ \A i \in 1 .. Len(s) : Append(s, e)[i] = s[i]
      /\ Append(s, e)[Len(s) + 1] = e
  OBVIOUS
<1>2. Range(Append(s, e)) \subseteq Range(s) \cup {e}
  <2> SUFFICES ASSUME NEW i \in 1 .. Len(s) + 1 PROVE Append(s, e)[i] \in Range(s) \cup {e}
    BY <1>1 DEF Range
  <2>1. CASE i = Len(s) + 1
    BY <1>1, <2>1
  <2>2. CASE i \in 1 .. Len(s)
    BY <1>1, <2>2 DEF Range
  <2> QED
    BY <1>1, <2>1, <2>2
<1>3. Range(s) \subseteq Range(Append(s, e))
  <2> SUFFICES ASSUME NEW i \in 1 .. Len(s) PROVE s[i] \in Range(Append(s, e))
    BY <1>1 DEF Range
  <2>1. i \in 1 .. Len(s) + 1 /\ Append(s, e)[i] = s[i]
    BY <1>1
  <2> QED
    BY <1>1, <2>1 DEF Range
<1>4. e \in Range(Append(s, e))
  <2>1. Len(s) + 1 \in 1 .. Len(s) + 1
    BY <1>1
  <2> QED
    BY <1>1, <2>1 DEF Range
<1> QED
  BY <1>1, <1>2, <1>3, <1>4

LEMMA OrderKinds ==
  ASSUME job \in JobType
  PROVE  Len(Order) = Len(Kinds) /\ \A i \in 1 .. Len(Kinds) : Order[i] \in BackendKinds
<1> DEFINE n == Len(Kinds)
<1>1. Kinds \in Seq(BackendKinds) /\ n \in Nat
  BY BenchAssumption DEF BackendKinds
<1>2. job.rotation \in 0 .. n - 1
  BY DEF JobType
<1>3. ASSUME NEW i \in 1 .. n PROVE ((i - 1 + job.rotation) % n) + 1 \in 1 .. n
  <2> HIDE DEF n
  <2>1. n \in Nat \ {0} /\ i - 1 + job.rotation \in Int
    BY <1>1, <1>2
  <2> QED
    BY <2>1
<1>4. \A i \in 1 .. n : Kinds[i] \in BackendKinds
  BY <1>1
<1>5. Order = [i \in 1 .. n |-> Kinds[((i - 1 + job.rotation) % n) + 1]]
  BY DEF Order
<1>6. Order \in Seq(BackendKinds) /\ Len(Order) = n
  <2>1. Order \in [1 .. n -> BackendKinds]
    BY <1>3, <1>4, <1>5
  <2> QED
    BY <1>1, <2>1
<1>7. \A i \in 1 .. n : Order[i] \in BackendKinds
  BY <1>3, <1>4, <1>5
<1> QED
  BY <1>6, <1>7

\* The job is what it was, and so is everything read from it alone.
LEMMA JobKept ==
  ASSUME job' = job
  PROVE  /\ NewTrace' = NewTrace /\ JobOps' = JobOps
         /\ \A w, k : RunTrace(w, k)' = RunTrace(w, k)
         /\ \A kind : SmallRegistration(kind)' = SmallRegistration(kind)
         /\ \A kind : PoolSize(kind)' = PoolSize(kind)
         /\ \A o, kind : Honest(o, kind)' = Honest(o, kind)
<1>1. NewTrace' = NewTrace /\ JobOps' = JobOps
  BY DEF NewTrace, JobOps
<1>2. \A kind : SmallRegistration(kind)' = SmallRegistration(kind)
  BY DEF SmallRegistration
<1> QED
  BY <1>1, <1>2 DEF RunTrace, PoolSize, Honest

\* Outside of a window nothing is claimed of one.
LEMMA NoWindow ==
  ASSUME stage' # "window"
  PROVE  /\ WindowRuns' /\ TraceKept' /\ SamplesExact' /\ DepthReached' /\ WeightsExact'
         /\ DryIsSmall'
BY DEF WindowRuns, TraceKept, SamplesExact, DepthReached, WeightsExact, DryIsSmall, InWindow

\* The evidence of a session, by its fields.
LEMMA EvidenceKept ==
  ASSUME OutcomesHonest, RunsRecorded, sess \in SessionType, sess' \in SessionType, job' = job,
         sess'.kind = sess.kind, sess'.weakness = sess.weakness,
         sess'.warm = sess.warm, sess'.first = sess.first, sess'.last = sess.last,
         sess'.timed = sess.timed, sess'.iterations >= sess.iterations,
         sess'.failure = FALSE => sess.failure = FALSE
  PROVE  OutcomesHonest' /\ RunsRecorded'
<1>1. OutcomesHonest'
  <2>1. sess.failure \in BOOLEAN /\ sess'.failure \in BOOLEAN
    BY DEF SessionType
  <2> QED
    BY <2>1, JobKept DEF OutcomesHonest
<1>2. RunsRecorded'
  <2>1. \A k : RunTrace(sess.weakness, k)' = RunTrace(sess.weakness, k)
    BY JobKept DEF RunTrace
  <2>2. (1 .. sess.iterations) \subseteq (1 .. sess'.iterations)
    BY DEF SessionType
  <2>3. (\A o \in sess.warm : o.trace = RunTrace(sess.weakness, 0))'
    BY <2>1 DEF RunsRecorded
  <2>4. sess'.timed = {} => sess'.first = {} /\ sess'.last = {}
    BY DEF RunsRecorded
  <2>5. ASSUME sess'.timed # {}
        PROVE  /\ sess'.first # {} /\ sess'.last # {}
               /\ (\E a, b \in 1 .. sess.iterations :
                    /\ \A o \in sess.first : o.trace = RunTrace(sess.weakness, a)
                    /\ \A o \in sess.last : o.trace = RunTrace(sess.weakness, b)
                    /\ \A t \in sess.timed : \E k \in a .. b : t = RunTrace(sess.weakness, k))'
    BY <2>1, <2>2, <2>5 DEF RunsRecorded
  <2> QED
    BY <2>3, <2>4, <2>5 DEF RunsRecorded
<1> QED
  BY <1>1, <1>2

\* The report is what it was, or has one more backend that was not measured.
LEMMA ReportKept ==
  ASSUME BenchTypeOK, EntriesHonest, job' = job, ledger' = ledger,
         \/ entries' = entries
         \/ \E e \in EntryType : /\ e.standing \in {"Unavailable", "Failed"}
                                 /\ entries' = Append(entries, e)
  PROVE  entries' \in Seq(EntryType) /\ EntriesHonest'
<1>1. entries \in Seq(EntryType)
  BY DEF BenchTypeOK
<1>2. \A e : EntryHonest(e)' = EntryHonest(e)
  BY JobKept DEF EntryHonest
<1>3. CASE entries' = entries
  BY <1>1, <1>2, <1>3 DEF EntriesHonest, Measured
<1>4. ASSUME NEW e \in EntryType, e.standing \in {"Unavailable", "Failed"},
             entries' = Append(entries, e)
      PROVE  entries' \in Seq(EntryType) /\ EntriesHonest'
  <2>1. entries' \in Seq(EntryType) /\ Range(entries') = Range(entries) \cup {e}
    BY <1>1, <1>4, RangeAppend
  <2>2. Measured' = Measured
    BY <1>4, <2>1 DEF Measured
  <2> QED
    BY <1>2, <2>1, <2>2 DEF EntriesHonest
<1> QED
  BY <1>3, <1>4

-----------------------------------------------------------------------------
(* The comparison: the steps of the harness outside of a window. *)

LEMMA InitBench == Init => BenchInv
<1> SUFFICES ASSUME Init PROVE BenchInv
  OBVIOUS
<1>1. /\ job \in JobType /\ stage = "idle" /\ sess = NoSession("pool", None)
      /\ ledger = {} /\ entries = <<>> /\ pending = {} /\ free = 0 /\ loop = "done"
      /\ runner = Runner("Rolling", 0, 1)
      /\ job.arm = "handle-mode" => job.scenario = "SequentialRead"
  BY DEF Init, BenchIdle, JobType
<1>2. "pool" \in BackendKinds /\ None \in Weakness
  BY DEF BackendKinds, Weakness, None
<1>3. /\ sess \in SessionType /\ sess.phase = "Read"
      /\ sess.warm = {} /\ sess.first = {} /\ sess.last = {} /\ sess.timed = {}
      /\ sess.errors = 0
  BY <1>1, <1>2, NewSession
<1>4. BenchTypeOK
  <2>1. runner \in RunnerType
    <3>1. Max({1, 1}) = 1
      BY AtLeastOne
    <3> QED
      BY <1>1, <3>1, WindowAssumption DEF Runner, RunnerType, Shape
  <2> QED
    BY <1>1, <1>3, <2>1, FS_EmptySet DEF BenchTypeOK, BenchStages
<1>5. WindowRuns /\ TraceKept /\ SamplesExact /\ DepthReached /\ WeightsExact /\ DryIsSmall
  BY <1>1 DEF WindowRuns, TraceKept, SamplesExact, DepthReached, WeightsExact, DryIsSmall, InWindow
<1>6. BuffersKept /\ OutcomesHonest /\ RunsRecorded /\ ErrorsCounted
  BY <1>1, <1>3 DEF BuffersKept, OutcomesHonest, RunsRecorded, ErrorsCounted, InWindow
<1>7. EntriesHonest
  BY <1>1 DEF EntriesHonest, Measured, Range
<1> QED
  BY <1>4, <1>5, <1>6, <1>7 DEF BenchInv

\* Only the stage, the driver or its orphans change, or a backend is
\* reported that was not measured.
LEMMA QuietKeeps ==
  ASSUME BenchInv, UNCHANGED <<job, sess, ledger, windowVars>>, stage' \in BenchStages,
         \/ entries' = entries
         \/ \E e \in EntryType : /\ e.standing \in {"Unavailable", "Failed"}
                                 /\ entries' = Append(entries, e),
         stage' = "window" => stage = "window",
         stage' \in {"register", "hoist", "begin", "timer"} =>
           stage \in {"register", "hoist", "begin", "timer"},
         stage' \in {"timer", "finish", "judge"} => stage \in {"timer", "finish", "judge"}
  PROVE  BenchInv'
<1>1. /\ BenchTypeOK /\ WindowRuns /\ TraceKept /\ SamplesExact /\ DepthReached /\ WeightsExact
      /\ BuffersKept /\ DryIsSmall /\ OutcomesHonest /\ RunsRecorded /\ ErrorsCounted
      /\ EntriesHonest
  BY DEF BenchInv
<1>2. /\ job' = job /\ sess' = sess /\ ledger' = ledger /\ runner' = runner /\ loop' = loop
      /\ pending' = pending /\ free' = free
  BY DEF windowVars
<1>3. entries' \in Seq(EntryType) /\ EntriesHonest'
  BY <1>1, <1>2, ReportKept
<1>4. BenchTypeOK'
  BY <1>1, <1>2, <1>3 DEF BenchTypeOK
<1>5. WindowRuns'
  BY <1>1, <1>2 DEF WindowRuns, Outstanding
<1>6. TraceKept'
  BY <1>1, <1>2, JobKept DEF TraceKept, InWindow, RunIndex, Over
<1>7. SamplesExact' /\ DepthReached'
  BY <1>1, <1>2 DEF SamplesExact, DepthReached, InWindow, Outstanding
<1>8. WeightsExact'
  BY <1>1, <1>2 DEF WeightsExact, InWindow, Outstanding, RollingExact, BatchedExact
<1>9. BuffersKept' /\ DryIsSmall'
  BY <1>1, <1>2, JobKept DEF BuffersKept, DryIsSmall, InWindow, Outstanding
<1>10. OutcomesHonest' /\ RunsRecorded'
  <2>1. sess \in SessionType /\ sess.iterations >= sess.iterations
    BY <1>1 DEF BenchTypeOK, SessionType
  <2> QED
    BY <1>1, <1>2, <2>1, EvidenceKept
<1>11. ErrorsCounted'
  BY <1>1, <1>2 DEF ErrorsCounted
<1> QED
  BY <1>3, <1>4, <1>5, <1>6, <1>7, <1>8, <1>9, <1>10, <1>11 DEF BenchInv

LEMMA EntryTyped ==
  ASSUME sess \in SessionType, NEW standing \in {"Unavailable", "Failed", "Timed", "VerifiedNotTimed"},
         NEW outcome \in SUBSET OutcomeType, NEW timed \in SUBSET TraceType
  PROVE  LET e == Entry(standing, outcome, timed)
         IN /\ e \in EntryType /\ e.standing = standing /\ e.kind = sess.kind
            /\ e.outcome = outcome /\ e.errors = sess.errors /\ e.timed = timed
BY DEF Entry, EntryType, SessionType

LEMMA StageKeeps ==
  ASSUME BenchInv,
         \/ Register \/ RegisterFails \/ HoistPanics \/ Iterate \/ StopTimer \/ OrphanCompletes
         \/ Finish \/ JudgeFailed \/ JudgeUnfair \/ Report
  PROVE  BenchInv'
<1>1. sess \in SessionType
  BY DEF BenchInv, BenchTypeOK
<1>2. UNCHANGED <<job, sess, ledger, windowVars>>
  BY DEF Register, RegisterFails, HoistPanics, Iterate, StopTimer, OrphanCompletes, Finish,
         JudgeFailed, JudgeUnfair, Report
<1>3. \/ entries' = entries
      \/ \E e \in EntryType : /\ e.standing \in {"Unavailable", "Failed"}
                              /\ entries' = Append(entries, e)
  <2>1. CASE RegisterFails
    <3>1. Entry("Unavailable", {}, {}) \in EntryType
          /\ Entry("Unavailable", {}, {}).standing = "Unavailable"
      BY <1>1, EntryTyped
    <3> QED
      BY <2>1, <3>1 DEF RegisterFails
  <2>2. CASE JudgeFailed
    <3>1. Entry("Failed", {}, {}) \in EntryType /\ Entry("Failed", {}, {}).standing = "Failed"
      BY <1>1, EntryTyped
    <3> QED
      BY <2>2, <3>1 DEF JudgeFailed
  <2>3. CASE ~RegisterFails /\ ~JudgeFailed
    BY <2>3 DEF Register, HoistPanics, Iterate, StopTimer, OrphanCompletes, Finish,
         JudgeUnfair, Report
  <2> QED
    BY <2>1, <2>2, <2>3
<1>4. stage' \in BenchStages
  BY DEF Register, RegisterFails, HoistPanics, Iterate, StopTimer, OrphanCompletes, Finish,
         JudgeFailed, JudgeUnfair, Report, BenchStages
<1>5. /\ stage' = "window" => stage = "window"
      /\ stage' \in {"register", "hoist", "begin", "timer"} =>
           stage \in {"register", "hoist", "begin", "timer"}
      /\ stage' \in {"timer", "finish", "judge"} => stage \in {"timer", "finish", "judge"}
  BY DEF Register, RegisterFails, HoistPanics, Iterate, StopTimer, OrphanCompletes, Finish,
         JudgeFailed, JudgeUnfair, Report
<1> QED
  BY <1>2, <1>3, <1>4, <1>5, QuietKeeps

\* A backend is prepared, or cannot be.
LEMMA PrepareKeeps ==
  ASSUME BenchInv, CannotPrepare \/ \E w \in Weaknesses : Prepare(w)
  PROVE  BenchInv'
<1>1. BenchTypeOK /\ EntriesHonest /\ sess \in SessionType /\ job \in JobType
  BY DEF BenchInv, BenchTypeOK
<1>2. /\ Len(entries) < Len(Order) /\ UNCHANGED <<job, ledger, runner, loop, pending>>
      /\ stage' # "window" /\ stage' \notin {"timer", "finish", "judge"}
      /\ stage' \in BenchStages
  BY DEF Prepare, CannotPrepare, windowVars, BenchStages
<1> DEFINE kind == Order[Len(entries) + 1]
<1>3. kind \in BackendKinds
  <2>1. entries \in Seq(EntryType)
    BY <1>1 DEF BenchTypeOK
  <2>2. Len(entries) \in Nat
    BY <2>1
  <2>3. Len(Order) = Len(Kinds) /\ \A i \in 1 .. Len(Kinds) : Order[i] \in BackendKinds
    BY <1>1, OrderKinds
  <2>4. Len(Kinds) \in Nat
    BY BenchAssumption
  <2>5. Len(entries) + 1 \in 1 .. Len(Kinds)
    BY <1>2, <2>2, <2>3, <2>4
  <2> QED
    BY <2>3, <2>5
<1> HIDE DEF kind
<1>4. PICK w \in Weakness : sess' = NoSession(kind, w)
  BY BenchAssumption DEF Prepare, CannotPrepare, Weakness, None, kind
<1>5. /\ sess' \in SessionType /\ sess'.kind = kind /\ sess'.phase = "Read"
      /\ sess'.warm = {} /\ sess'.first = {} /\ sess'.last = {} /\ sess'.timed = {}
      /\ sess'.errors = 0
  BY <1>1, <1>3, <1>4, NewSession
<1>6. free' \in Nat /\ (stage' # "idle" => free' = PoolSize(kind))
  <2>1. PoolSize(kind) \in Nat
    BY <1>1, JobFacts, BenchAssumption DEF PoolSize
  <2>2. free \in Nat
    BY <1>1 DEF BenchTypeOK
  <2>3. CASE CannotPrepare
    BY <2>2, <2>3 DEF CannotPrepare, windowVars
  <2>4. CASE ~CannotPrepare
    BY <2>1, <2>4 DEF Prepare, kind
  <2> QED
    BY <2>3, <2>4
<1>7. entries' \in Seq(EntryType) /\ EntriesHonest'
  <2>1. CASE CannotPrepare
    <3> DEFINE e == [Entry("Unavailable", {}, {}) EXCEPT !.kind = kind, !.errors = 0]
    <3>1. Entry("Unavailable", {}, {}) \in EntryType
          /\ Entry("Unavailable", {}, {}).standing = "Unavailable"
      BY <1>1, EntryTyped
    <3>2. e \in EntryType /\ e.standing = "Unavailable"
      BY <1>3, <3>1 DEF EntryType
    <3>3. entries' = Append(entries, e)
      BY <2>1 DEF CannotPrepare, kind
    <3> HIDE DEF e
    <3> QED
      BY <1>1, <1>2, <3>2, <3>3, ReportKept
  <2>2. CASE ~CannotPrepare
    BY <1>1, <1>2, <2>2, ReportKept DEF Prepare
  <2> QED
    BY <2>1, <2>2
<1>8. BenchTypeOK'
  BY <1>1, <1>2, <1>5, <1>6, <1>7 DEF BenchTypeOK
<1>9. BuffersKept'
  <2>1. PoolSize(sess.kind)' = PoolSize(kind)
    BY <1>2, <1>5 DEF PoolSize
  <2> QED
    BY <1>2, <1>6, <2>1 DEF BuffersKept, InWindow
<1>10. OutcomesHonest' /\ RunsRecorded' /\ ErrorsCounted'
  BY <1>2, <1>5 DEF OutcomesHonest, RunsRecorded, ErrorsCounted
<1> QED
  BY <1>2, <1>7, <1>8, <1>9, <1>10, NoWindow DEF BenchInv

\* An iteration ends with an error.
LEMMA FailureKeeps ==
  ASSUME BenchInv, IterationFails, UNCHANGED <<job, ledger, entries, windowVars>>
  PROVE  BenchInv'
<1>1. BenchTypeOK /\ EntriesHonest /\ OutcomesHonest /\ RunsRecorded /\ sess \in SessionType
  BY DEF BenchInv, BenchTypeOK
<1>2. /\ sess' \in {[sess EXCEPT !.failure = TRUE, !.errors = @ + 1], RecordFailure}
      /\ stage' \in {"finish", "timer"}
  BY DEF IterationFails
<1>3. /\ sess' \in SessionType /\ sess'.failure = TRUE
      /\ sess'.kind = sess.kind /\ sess'.weakness = sess.weakness /\ sess'.phase = sess.phase
      /\ sess'.warm = sess.warm /\ sess'.first = sess.first /\ sess'.last = sess.last
      /\ sess'.timed = sess.timed /\ sess'.iterations >= sess.iterations
  BY <1>1, <1>2, FailedSession
<1>4. entries' \in Seq(EntryType) /\ EntriesHonest'
  BY <1>1, ReportKept
<1>5. BenchTypeOK'
  BY <1>1, <1>2, <1>3, <1>4 DEF BenchTypeOK, BenchStages, windowVars
<1>6. OutcomesHonest' /\ RunsRecorded'
  BY <1>1, <1>3, EvidenceKept
<1>7. BuffersKept' /\ ErrorsCounted'
  BY <1>3 DEF BuffersKept, ErrorsCounted
<1> QED
  BY <1>2, <1>4, <1>5, <1>6, <1>7, NoWindow DEF BenchInv

-----------------------------------------------------------------------------
(* The comparison: the window. *)

\* A descent, one operation at a time.
LEMMA DescentStep ==
  /\ Descent(0) = 0
  /\ \A d \in Nat : Descent(d) \in Nat
  /\ \A d \in Nat \ {0} : Descent(d) = Descent(d - 1) + d
<1>1. ASSUME NEW d \in Nat PROVE Descent(d) \in Nat /\ 2 * Descent(d) = d * (d + 1)
  <2>1. PICK k \in Nat : d = 2 * k \/ d = 2 * k + 1
    <3>1. (d \div 2) \in Nat /\ (d = 2 * (d \div 2) \/ d = 2 * (d \div 2) + 1)
      OBVIOUS
    <3> QED
      BY <3>1
  <2>2. CASE d = 2 * k
    <3> DEFINE m == k * (2 * k + 1)
    <3>1. m \in Nat /\ d * (d + 1) = 2 * m
      BY <2>2
    <3> HIDE DEF m
    <3>2. (2 * m) \div 2 = m
      BY <3>1
    <3> QED
      BY <3>1, <3>2 DEF Descent
  <2>3. CASE d = 2 * k + 1
    <3> DEFINE m == (2 * k + 1) * (k + 1)
    <3>1. m \in Nat /\ d * (d + 1) = 2 * m
      BY <2>3
    <3> HIDE DEF m
    <3>2. (2 * m) \div 2 = m
      BY <3>1
    <3> QED
      BY <3>1, <3>2 DEF Descent
  <2> QED
    BY <2>1, <2>2, <2>3
<1>2. ASSUME NEW d \in Nat \ {0} PROVE Descent(d) = Descent(d - 1) + d
  <2> DEFINE x == d * (d + 1)
             y == (d - 1) * ((d - 1) + 1)
  <2>1. Descent(d) \in Nat /\ 2 * Descent(d) = x
    BY <1>1
  <2>2. Descent(d - 1) \in Nat /\ 2 * Descent(d - 1) = y
    <3>1. d - 1 \in Nat
      OBVIOUS
    <3> QED
      BY <1>1, <3>1
  <2>3. x \in Int /\ y \in Int /\ x = y + 2 * d
    OBVIOUS
  <2> HIDE DEF x, y
  <2> QED
    BY <2>1, <2>2, <2>3
<1>3. Descent(0) = 0
  <2>1. Descent(0) \in Nat /\ 2 * Descent(0) = 0 * (0 + 1)
    BY <1>1
  <2> QED
    BY <2>1
<1> QED
  BY <1>1, <1>2, <1>3

\* A window starts.
LEMMA StartKeepsBench ==
  ASSUME BenchInv, stage' = "window", UNCHANGED <<job, ledger, entries, free>>,
         StartRun(ShapeOf(job.scenario), job.count, job.depth),
         SameEvidence(sess'),
         sess'.phase = "Write" => job.scenario = "WriteThenRead",
         sess'.trace.issued = NewTrace.issued,
         sess'.trace.delivered =
           IF sess'.phase = "Read" /\ job.scenario = "WriteThenRead"
             THEN PhaseTrace(sess.weakness, RunIndex, "Write", JobOps) ELSE {},
         ~sess.failure => free = PoolSize(sess.kind)
  PROVE  BenchInv'
<1>1. /\ BenchTypeOK /\ EntriesHonest /\ OutcomesHonest /\ RunsRecorded /\ ErrorsCounted
      /\ sess \in SessionType /\ job \in JobType
  BY DEF BenchInv, BenchTypeOK
<1>0. /\ sess' \in SessionType /\ sess'.failure = sess.failure /\ sess'.errors = sess.errors
      /\ sess'.kind = sess.kind /\ sess'.weakness = sess.weakness
      /\ sess'.warm = sess.warm /\ sess'.first = sess.first /\ sess'.last = sess.last
      /\ sess'.timed = sess.timed /\ sess'.iterations = sess.iterations
  BY DEF SameEvidence
<1>2. /\ job.count \in Nat \ {0} /\ job.count <= MaxCount /\ MaxCount \in Nat
      /\ job.depth \in Nat \ {0}
  BY <1>1, JobFacts
<1>3. /\ runner' = Runner(ShapeOf(job.scenario), job.count, job.depth)
      /\ loop' = "refill" /\ pending' = {}
  BY DEF StartRun
<1>4. /\ runner' \in RunnerType
      /\ runner'.shape = ShapeOf(job.scenario) /\ runner'.count = job.count
      /\ runner'.configured = job.depth /\ runner'.issued = 0 /\ runner'.weighted = 0
      /\ runner'.samples = 0 /\ runner'.poolBound = FALSE
  <2>1. Max({job.depth, 1}) = job.depth
    BY <1>1, JobFacts
  <2>2. ShapeOf(job.scenario) \in Shape /\ job.count \in 0 .. MaxCount
    BY <1>2 DEF ShapeOf, Shape
  <2> QED
    BY <1>2, <1>3, <2>1, <2>2 DEF Runner, RunnerType
<1>5. Outstanding' = 0 /\ pending' = {} /\ IsFiniteSet(pending')
  BY <1>3, FS_EmptySet DEF Outstanding
<1>6. entries' \in Seq(EntryType) /\ EntriesHonest'
  BY <1>1, ReportKept
<1>7. BenchTypeOK'
  BY <1>0, <1>1, <1>3, <1>4, <1>5, <1>6 DEF BenchTypeOK, BenchStages
<1>8. WindowRuns'
  BY <1>2, <1>3, <1>4, <1>5 DEF WindowRuns
<1>9. TraceKept'
  <2>1. Over' = {}
    BY <1>4, <1>5 DEF Over
  <2>2. RunIndex' = RunIndex /\ NewTrace' = NewTrace /\ JobOps' = JobOps
    BY <1>0, JobKept DEF RunIndex
  <2>3. \A w, k, ph : PhaseTrace(w, k, ph, {}) = {}
    BY DEF PhaseTrace
  <2> QED
    BY <1>0, <2>1, <2>2, <2>3 DEF TraceKept
<1>10. SamplesExact' /\ DepthReached'
  BY <1>4, <1>5 DEF SamplesExact, DepthReached
<1>11. WeightsExact'
  <2>1. RollingExact'
    <3> DEFINE L == Lesser(job.count, job.depth)
    <3>1. L \in Nat /\ 0 <= job.count - L
      BY <1>2 DEF Lesser
    <3>2. RollingWeight(job.count, L, 0) = 0
      BY <3>1 DEF RollingWeight
    <3> QED
      BY <1>3, <1>4, <3>2 DEF RollingExact
  <2>2. BatchedExact'
    <3>1. /\ 0 \in Nat /\ 0 \in 0 .. job.depth
          /\ 0 = 0 * job.depth + 0
          /\ 0 = 0 * Descent(job.depth) + Descent(0) - Descent(0)
      BY <1>2, DescentStep
    <3> QED
      BY <1>4, <1>5, <3>1 DEF BatchedExact
  <2> QED
    BY <2>1, <2>2 DEF WeightsExact
<1>12. BuffersKept'
  <2>1. PoolSize(sess.kind)' = PoolSize(sess.kind)
    BY <1>0 DEF PoolSize
  <2>2. free \in Nat
    BY <1>1 DEF BenchTypeOK
  <2> QED
    BY <1>0, <1>5, <2>1, <2>2 DEF BuffersKept
<1>13. DryIsSmall'
  BY <1>4 DEF DryIsSmall
<1>14. OutcomesHonest' /\ RunsRecorded'
  <2>1. sess.iterations >= sess.iterations
    BY <1>1 DEF SessionType
  <2> QED
    BY <1>0, <1>1, <2>1, EvidenceKept
<1>15. ErrorsCounted'
  BY <1>0, <1>1 DEF ErrorsCounted
<1> QED
  BY <1>6, <1>7, <1>8, <1>9, <1>10, <1>11, <1>12, <1>13, <1>14, <1>15 DEF BenchInv

LEMMA BeginKeeps ==
  ASSUME BenchInv, BeginOn \/ Begin
  PROVE  BenchInv'
<1>1. /\ BenchTypeOK /\ sess \in SessionType /\ job \in JobType /\ BuffersKept
  BY DEF BenchInv, BenchTypeOK
<1>2. NewTrace \in TraceType /\ NewTrace.delivered = {}
  BY <1>1, JobFacts
<1>3. /\ stage = "begin" /\ stage' = "window" /\ UNCHANGED <<job, ledger, entries, free>>
      /\ StartRun(ShapeOf(job.scenario), job.count, job.depth)
  BY DEF BeginOn, Begin
<1>4. ~sess.failure => free = PoolSize(sess.kind)
  BY <1>1, <1>3 DEF BuffersKept
<1>5. CASE BeginOn
  <2>1. sess' = [sess EXCEPT !.trace = NewTrace]
    BY <1>5 DEF BeginOn
  <2>2. job.scenario = "SequentialRead" /\ sess.phase \in {"Read", "Write"}
    BY <1>1, <1>5 DEF BeginOn, Hoisted, BenchTypeOK, SessionType
  <2>3. /\ SameEvidence(sess') /\ sess'.trace = NewTrace /\ sess'.phase = sess.phase
    BY <1>1, <1>2, <2>1, TracedSession
  <2>4. sess'.phase = "Write" => job.scenario = "WriteThenRead"
    BY <1>1, <2>3 DEF BenchTypeOK
  <2> QED
    BY <1>2, <1>3, <1>4, <2>2, <2>3, <2>4, StartKeepsBench
<1>6. CASE Begin
  <2> DEFINE ph == IF job.scenario = "WriteThenRead" THEN "Write" ELSE "Read"
  <2>1. sess' = [sess EXCEPT !.trace = NewTrace, !.phase = ph]
    BY <1>6 DEF Begin
  <2>3. ph \in {"Read", "Write"} /\ (ph = "Read" <=> job.scenario # "WriteThenRead")
    OBVIOUS
  <2> HIDE DEF ph
  <2>2. /\ SameEvidence(sess') /\ sess'.trace = NewTrace /\ sess'.phase = ph
    BY <1>1, <1>2, <2>1, <2>3, TracedSession
  <2> QED
    BY <1>2, <1>3, <1>4, <2>2, <2>3, StartKeepsBench
<1> QED
  BY <1>5, <1>6

\* Between the phases of a WriteThenRead.
LEMMA ReopenKeeps ==
  ASSUME BenchInv, SyncAndReopen
  PROVE  BenchInv'
<1>1. /\ BenchTypeOK /\ sess \in SessionType /\ job \in JobType /\ BuffersKept /\ WindowRuns
      /\ TraceKept
  BY DEF BenchInv, BenchTypeOK
<1>2. stage = "window" /\ loop = "done" /\ sess.phase = "Write"
  BY DEF SyncAndReopen
<1>3. CASE IterationFails /\ UNCHANGED windowVars
  BY <1>3, FailureKeeps DEF SyncAndReopen
<1>4. CASE ~(IterationFails /\ UNCHANGED windowVars)
  <2>1. /\ sess' = [sess EXCEPT !.phase = "Read"] /\ stage' = stage
        /\ StartRun("Rolling", job.count, job.depth) /\ UNCHANGED <<job, ledger, entries, free>>
    BY <1>4 DEF SyncAndReopen
  <2>2. job.scenario = "WriteThenRead" /\ ShapeOf(job.scenario) = "Rolling"
    BY <1>1, <1>2 DEF BenchTypeOK, ShapeOf
  <2>3. sess.trace \in TraceType
    BY <1>1 DEF SessionType
  <2>4. /\ SameEvidence(sess') /\ sess'.trace = sess.trace /\ sess'.phase = "Read"
    BY <1>1, <2>1, <2>3, TracedSession
  <2>5. Over = JobOps
    BY <1>1, <1>2 DEF WindowRuns, Over, JobOps
  <2>6. /\ sess.trace.issued = NewTrace.issued
        /\ sess.trace.delivered = PhaseTrace(sess.weakness, RunIndex, "Write", JobOps)
    BY <1>1, <1>2, <2>5 DEF TraceKept, InWindow
  <2>7. ~sess.failure => free = PoolSize(sess.kind)
    <3>1. pending = {} /\ Outstanding = 0
      BY <1>1, <1>2, FS_EmptySet DEF WindowRuns, Outstanding
    <3>2. free \in Nat
      BY <1>1 DEF BenchTypeOK
    <3> QED
      BY <1>1, <1>2, <3>1, <3>2 DEF BuffersKept, InWindow
  <2> QED
    BY <1>2, <2>1, <2>2, <2>4, <2>6, <2>7, StartKeepsBench
<1> QED
  BY <1>3, <1>4

\* What a window knows before each of its steps.
LEMMA WindowFacts ==
  ASSUME BenchInv, stage = "window"
  PROVE  /\ runner \in RunnerType /\ runner.issued \in Nat /\ runner.count \in Nat \ {0}
         /\ runner.configured \in Nat \ {0} /\ runner.samples \in Nat /\ runner.weighted \in Nat
         /\ runner.peak \in Nat /\ runner.poolBound \in BOOLEAN
         /\ runner.shape \in Shape
         /\ runner.count = job.count /\ runner.configured = job.depth
         /\ runner.issued <= runner.count
         /\ IsFiniteSet(pending) /\ pending \subseteq 0 .. runner.issued - 1
         /\ Outstanding \in Nat /\ Outstanding <= runner.configured
         /\ (Outstanding = 0 <=> pending = {})
         /\ free \in Nat
<1>1. BenchTypeOK /\ WindowRuns
  BY DEF BenchInv
<1>2. runner \in RunnerType /\ IsFiniteSet(pending) /\ free \in Nat /\ job \in JobType
  BY <1>1 DEF BenchTypeOK
<1>3. /\ runner.issued \in Nat /\ runner.configured \in Nat \ {0} /\ runner.samples \in Nat
      /\ runner.weighted \in Nat /\ runner.peak \in Nat /\ runner.poolBound \in BOOLEAN
      /\ runner.shape \in Shape
  BY <1>2 DEF RunnerType
<1>4. /\ runner.count = job.count /\ runner.configured = job.depth
      /\ runner.issued <= runner.count /\ pending \subseteq 0 .. runner.issued - 1
      /\ Outstanding <= runner.configured
  BY <1>1 DEF WindowRuns
<1>5. job.count \in Nat \ {0}
  BY <1>2, JobFacts
<1>6. Outstanding \in Nat /\ (Outstanding = 0 <=> pending = {})
  BY <1>2, FS_CardinalityType, FS_EmptySet DEF Outstanding
<1> QED
  BY <1>2, <1>3, <1>4, <1>5, <1>6

\* The refill issues as many operations as there is room and buffers for.
LEMMA RefillFacts ==
  ASSUME BenchInv, stage = "window", Refill
  PROVE  \E room \in Nat, got \in Nat :
           /\ MayRefill(runner.shape, pending = {}) =>
                room = Lesser(runner.count - runner.issued, runner.configured - Outstanding)
           /\ ~MayRefill(runner.shape, pending = {}) => room = 0
           /\ got = Lesser(room, free)
           /\ runner' \in RunnerType
           /\ runner'.shape = runner.shape /\ runner'.count = runner.count
           /\ runner'.configured = runner.configured /\ runner'.weighted = runner.weighted
           /\ runner'.samples = runner.samples
           /\ runner'.issued = runner.issued + got
           /\ runner'.poolBound = (runner.poolBound \/ (got < room /\ Outstanding + got > 0))
           /\ runner'.peak >= runner.peak /\ runner'.peak >= Outstanding + got
           /\ pending' = pending \cup (runner.issued .. (runner.issued + got) - 1)
           /\ IsFiniteSet(pending') /\ Outstanding' = Outstanding + got
           /\ free' = free - got
           /\ loop' = IF Outstanding + got > 0 THEN "await"
                      ELSE IF got < room THEN "error" ELSE "done"
<1> DEFINE room == RefillRoom
           got == Obtainable(room)
           out == Outstanding + got
<1>1. /\ runner \in RunnerType /\ runner.issued \in Nat /\ runner.count \in Nat
      /\ runner.configured \in Nat /\ runner.peak \in Nat
      /\ runner.issued <= runner.count
      /\ IsFiniteSet(pending) /\ pending \subseteq 0 .. runner.issued - 1
      /\ Outstanding \in Nat /\ Outstanding <= runner.configured /\ free \in Nat
  BY WindowFacts
<1>2. /\ MayRefill(runner.shape, pending = {}) =>
           room = Lesser(runner.count - runner.issued, runner.configured - Outstanding)
      /\ ~MayRefill(runner.shape, pending = {}) => room = 0
  <2>1. runner.count - runner.issued \in Int /\ runner.configured - Outstanding \in Int
    BY <1>1
  <2> QED
    BY <2>1, OfTwo DEF RefillRoom
<1>3. room \in Nat
  BY <1>1, <1>2 DEF Lesser
<1> HIDE DEF room
<1>4. got = Lesser(room, free) /\ got \in Nat
  <2>1. room \in Int /\ free \in Int
    BY <1>1, <1>3
  <2>2. Min({room, free}) = Lesser(room, free)
    BY <2>1, OfTwo
  <2> QED
    BY <1>1, <1>3, <2>2 DEF Obtainable, Lesser
<1> HIDE DEF got
<1> DEFINE starved == runner.starved \/ (out > 0 /\ runner.issued + got = runner.count
                                           /\ out < runner.configured)
           bound == runner.poolBound \/ (got < room /\ out > 0)
           peak == Max({runner.peak, out})
<1>5. /\ pending' = pending \cup (runner.issued .. (runner.issued + got) - 1)
      /\ free' = free - got
      /\ loop' = IF out > 0 THEN "await" ELSE IF got < room THEN "error" ELSE "done"
      /\ runner' = [runner EXCEPT !.issued = runner.issued + got, !.poolBound = bound,
                                  !.peak = peak, !.starved = starved]
  <2>1. pending' = pending \cup (runner.issued .. (runner.issued + got) - 1)
    BY DEF Refill, got, room
  <2>4. TakeBuffers(got)
    BY DEF Refill, got, room
  <2>5. free' = free - got
    BY <2>4 DEF TakeBuffers
  <2>2. loop' = IF out > 0 THEN "await" ELSE IF got < room THEN "error" ELSE "done"
    BY DEF Refill, got, room
  <2>3. runner' = [runner EXCEPT !.issued = runner.issued + got, !.poolBound = bound,
                                 !.peak = peak, !.starved = starved]
    BY Zenon DEF Refill, got, room
  <2> QED
    BY <2>1, <2>2, <2>3, <2>5
<1>6. out \in Nat /\ peak \in Nat /\ peak >= runner.peak /\ peak >= out
  <2>1. out \in Nat /\ out \in Int /\ runner.peak \in Int
    BY <1>1, <1>4
  <2> HIDE DEF out
  <2>2. Max({runner.peak, out}) = IF runner.peak >= out THEN runner.peak ELSE out
    BY <2>1, OfTwo
  <2> QED
    BY <1>1, <2>1, <2>2
<1>7. starved \in BOOLEAN /\ bound \in BOOLEAN
  <2>1. runner.starved \in BOOLEAN /\ runner.poolBound \in BOOLEAN
    BY <1>1 DEF RunnerType
  <2> QED
    BY <2>1
<1> HIDE DEF starved, bound, peak
<1>8. runner.issued + got \in Nat
  BY <1>1, <1>4
<1>9. /\ runner' \in RunnerType
      /\ runner'.shape = runner.shape /\ runner'.count = runner.count
      /\ runner'.configured = runner.configured /\ runner'.weighted = runner.weighted
      /\ runner'.samples = runner.samples /\ runner'.issued = runner.issued + got
      /\ runner'.poolBound = bound /\ runner'.peak = peak
  BY <1>1, <1>5, <1>6, <1>7, <1>8 DEF RunnerType
<1>10. IsFiniteSet(pending') /\ Outstanding' = Outstanding + got
  <2> DEFINE new == runner.issued .. (runner.issued + got) - 1
  <2>1. IsFiniteSet(new) /\ Cardinality(new) = got
    <3>0. runner.issued \in Int /\ (runner.issued + got) - 1 \in Int
      BY <1>1, <1>4
    <3>1. /\ IsFiniteSet(new)
          /\ Cardinality(new) = IF runner.issued > (runner.issued + got) - 1 THEN 0
                                ELSE ((runner.issued + got) - 1) - runner.issued + 1
      BY <3>0, FS_Interval
    <3> QED
      BY <1>1, <1>4, <3>1
  <2>2. pending \cap new = {}
    BY <1>1
  <2> HIDE DEF new
  <2>3. /\ IsFiniteSet(pending \cup new)
        /\ Cardinality(pending \cup new) =
             Cardinality(pending) + Cardinality(new) - Cardinality(pending \cap new)
    BY <1>1, <2>1, FS_Union
  <2>4. Cardinality(pending \cap new) = 0
    BY <2>2, FS_EmptySet
  <2>5. pending' = pending \cup new
    BY <1>5 DEF new
  <2> QED
    BY <1>1, <1>4, <2>1, <2>3, <2>4, <2>5 DEF Outstanding
<1> QED
  BY <1>2, <1>3, <1>4, <1>5, <1>6, <1>9, <1>10 DEF bound

LEMMA RefillKeeps ==
  ASSUME BenchInv, WindowRefill
  PROVE  BenchInv'
<1>1. /\ stage = "window" /\ Refill /\ loop = "refill"
      /\ job' = job /\ stage' = stage /\ sess' = sess /\ ledger' = ledger /\ entries' = entries
  BY DEF WindowRefill, Refill, benchVars
<1>2. /\ BenchTypeOK /\ WindowRuns /\ TraceKept /\ SamplesExact /\ DepthReached /\ WeightsExact
      /\ BuffersKept /\ DryIsSmall /\ OutcomesHonest /\ RunsRecorded /\ ErrorsCounted
      /\ EntriesHonest /\ sess \in SessionType /\ job \in JobType
  BY DEF BenchInv, BenchTypeOK
<1>3. /\ runner.issued \in Nat /\ runner.count \in Nat \ {0}
      /\ runner.configured \in Nat \ {0} /\ runner.samples \in Nat /\ runner.weighted \in Nat
      /\ runner.peak \in Nat /\ runner.poolBound \in BOOLEAN /\ runner.shape \in Shape
      /\ runner.count = job.count /\ runner.configured = job.depth
      /\ runner.issued <= runner.count
      /\ IsFiniteSet(pending) /\ pending \subseteq 0 .. runner.issued - 1
      /\ Outstanding \in Nat /\ Outstanding <= runner.configured
      /\ (Outstanding = 0 <=> pending = {}) /\ free \in Nat
  BY <1>1, WindowFacts
<1> DEFINE gate == MayRefill(runner.shape, pending = {})
<1>4. PICK room \in Nat, got \in Nat :
           /\ gate => room = Lesser(runner.count - runner.issued, runner.configured - Outstanding)
           /\ ~gate => room = 0
           /\ got = Lesser(room, free)
           /\ runner' \in RunnerType
           /\ runner'.shape = runner.shape /\ runner'.count = runner.count
           /\ runner'.configured = runner.configured /\ runner'.weighted = runner.weighted
           /\ runner'.samples = runner.samples
           /\ runner'.issued = runner.issued + got
           /\ runner'.poolBound = (runner.poolBound \/ (got < room /\ Outstanding + got > 0))
           /\ runner'.peak >= runner.peak /\ runner'.peak >= Outstanding + got
           /\ pending' = pending \cup (runner.issued .. (runner.issued + got) - 1)
           /\ IsFiniteSet(pending') /\ Outstanding' = Outstanding + got
           /\ free' = free - got
           /\ loop' = IF Outstanding + got > 0 THEN "await"
                      ELSE IF got < room THEN "error" ELSE "done"
  BY <1>1, RefillFacts
<1>5. /\ room <= runner.count - runner.issued /\ room <= runner.configured - Outstanding
      /\ got <= room /\ got <= free
  BY <1>3, <1>4 DEF Lesser
<1>6. pending = {} => gate
  BY DEF MayRefill
<1> HIDE DEF gate
<1>7. SamplesExact => runner.samples + Outstanding = runner.issued
  BY <1>1 DEF SamplesExact, InWindow
<1>8. BenchTypeOK'
  <2>1. loop' \in {"refill", "await", "done", "error"} /\ free' \in Nat
    BY <1>3, <1>4, <1>5
  <2> QED
    BY <1>1, <1>2, <1>4, <2>1 DEF BenchTypeOK
<1>9. loop' = "done" => pending' = {} /\ runner'.issued = runner'.count
  <2> SUFFICES ASSUME loop' = "done" PROVE pending' = {} /\ runner'.issued = runner'.count
    OBVIOUS
  <2>1. Outstanding = 0 /\ got = 0 /\ room = 0 /\ gate
    BY <1>3, <1>4, <1>5, <1>6
  <2>2. runner.count - runner.issued = 0
    BY <1>3, <1>4, <2>1 DEF Lesser
  <2>3. runner.issued .. (runner.issued + got) - 1 = {} /\ runner.issued + got = runner.count
    BY <1>3, <2>1, <2>2
  <2> QED
    BY <1>3, <1>4, <2>1, <2>3
<1>10. WindowRuns'
  <2>1. /\ runner'.issued <= runner'.count
        /\ pending' \subseteq 0 .. runner'.issued - 1
        /\ Outstanding' <= runner'.configured
    BY <1>3, <1>4, <1>5
  <2> QED
    BY <1>1, <1>2, <1>4, <1>9, <2>1 DEF WindowRuns
<1>11. TraceKept'
  <2>1. Over' = Over
    BY <1>3, <1>4 DEF Over
  <2> QED
    BY <1>1, <1>2, <2>1, JobKept DEF TraceKept, InWindow, RunIndex
<1>12. SamplesExact'
  BY <1>2, <1>3, <1>4, <1>7 DEF SamplesExact
<1>13. DepthReached'
  <2> SUFFICES ASSUME runner'.issued > 0, ~runner'.poolBound, ~(runner.count < runner.configured)
               PROVE  runner'.peak >= runner'.configured
    BY <1>4 DEF DepthReached
  <2>0. ~runner.poolBound /\ ~(got < room /\ Outstanding + got > 0)
    BY <1>3, <1>4
  <2>1. CASE runner.issued > 0
    <3>1. runner.peak >= runner.configured
      BY <1>1, <1>2, <2>0, <2>1 DEF DepthReached, InWindow
    <3>2. runner'.peak \in Nat
      BY <1>4 DEF RunnerType
    <3> QED
      BY <1>3, <1>4, <3>1, <3>2
  <2>2. CASE runner.issued = 0
    <3>1. pending = {} /\ Outstanding = 0
      BY <1>3, <2>2
    <3>2. got = room /\ room = Lesser(runner.count, runner.configured)
      BY <1>3, <1>4, <1>5, <1>6, <2>0, <2>2, <3>1
    <3>3. got = runner.configured
      BY <1>3, <3>2 DEF Lesser
    <3>4. runner'.peak \in Nat
      BY <1>4 DEF RunnerType
    <3> QED
      BY <1>3, <1>4, <3>1, <3>3, <3>4
  <2> QED
    BY <1>3, <2>1, <2>2
<1>14. WeightsExact'
  <2> SUFFICES ASSUME loop' # "error", ~runner'.poolBound
               PROVE  /\ runner.shape = "Rolling" => RollingExact'
                      /\ runner.shape = "Batched" => BatchedExact'
    BY <1>1, <1>4 DEF WeightsExact, InWindow
  <2>0. ~runner.poolBound /\ ~(got < room /\ Outstanding + got > 0)
    BY <1>3, <1>4
  <2>1. ~runner.poolBound /\ got = room
    <3>1. ~(got < room)
      BY <1>3, <1>4, <2>0
    <3> QED
      BY <1>5, <2>0, <3>1
  <2>2. ASSUME runner.shape = "Rolling" PROVE RollingExact'
    <3>1. RollingExact
      BY <1>1, <1>2, <2>1, <2>2 DEF WeightsExact, InWindow
    <3>2. gate
      BY <2>2 DEF MayRefill, gate
    <3>3. got = Lesser(runner.count - runner.issued, runner.configured - Outstanding)
      BY <1>4, <2>1, <3>2
    <3>4. Outstanding + got = Lesser(runner.configured, runner.count - runner.samples)
      BY <1>2, <1>3, <1>7, <3>3 DEF Lesser
    <3> QED
      BY <1>4, <3>1, <3>4 DEF RollingExact
  <2>3. ASSUME runner.shape = "Batched" PROVE BatchedExact'
    <3> DEFINE n == runner.configured
    <3>1. BatchedExact
      BY <1>1, <1>2, <2>1, <2>3 DEF WeightsExact, InWindow
    <3>2. PICK k \in Nat, size \in 0 .. n :
            /\ runner.issued = k * n + size
            /\ size \in {0, n} \/ runner.issued = runner.count
            /\ Outstanding <= size
            /\ runner.weighted = k * Descent(n) + Descent(size) - Descent(Outstanding)
      BY <3>1 DEF BatchedExact
    <3>3. CASE got = 0
      <4>1. runner'.issued = runner.issued /\ Outstanding' = Outstanding
        BY <1>3, <1>4, <3>3
      <4> QED
        BY <1>4, <3>2, <4>1 DEF BatchedExact
    <3>4. CASE got # 0
      <4>1. gate /\ pending = {} /\ Outstanding = 0
        BY <1>3, <1>4, <2>1, <2>3, <3>4 DEF MayRefill, gate
      <4>2. got = Lesser(runner.count - runner.issued, n)
        BY <1>3, <1>4, <2>1, <4>1
      <4>3. got \in 0 .. n /\ (got = n \/ runner.issued + got = runner.count)
        BY <1>3, <4>2 DEF Lesser
      <4>4. runner.issued # runner.count
        BY <1>3, <1>5, <3>4
      <4>5. size \in {0, n}
        BY <3>2, <4>4
      <4>6. PICK j \in Nat : runner.issued = j * n /\ runner.weighted = j * Descent(n)
        <5>1. Descent(n) \in Nat /\ Descent(0) = 0
          BY <1>3, DescentStep
        <5>2. CASE size = 0
          <6>1. runner.issued = k * n /\ runner.weighted = k * Descent(n)
            BY <1>3, <3>2, <4>1, <5>1, <5>2
          <6> QED
            BY <6>1
        <5>3. CASE size = n
          <6>0. n \in Nat
            BY <1>3
          <6> HIDE DEF n
          <6>1. runner.issued = (k + 1) * n
            <7>1. runner.issued = k * n + n
              BY <3>2, <5>3
            <7> QED
              BY <6>0, <7>1
          <6>2. runner.weighted = (k + 1) * Descent(n)
            <7>1. runner.weighted = k * Descent(n) + Descent(n) - 0
              BY <3>2, <4>1, <5>1, <5>3
            <7> QED
              BY <5>1, <7>1
          <6>3. k + 1 \in Nat
            OBVIOUS
          <6> QED
            BY <6>1, <6>2, <6>3
        <5> QED
          BY <4>5, <5>2, <5>3
      <4>7. runner'.issued = j * n + got /\ Outstanding' = got
        BY <1>3, <1>4, <4>1, <4>6
      <4>8. runner'.weighted = j * Descent(n) + Descent(got) - Descent(got)
        <5>1. Descent(n) \in Nat /\ Descent(got) \in Nat
          BY <1>3, DescentStep
        <5> QED
          BY <1>4, <4>6, <5>1
      <4>9. got \in {0, n} \/ runner'.issued = runner'.count
        BY <1>4, <4>3
      <4> QED
        BY <1>4, <4>3, <4>7, <4>8, <4>9 DEF BatchedExact
    <3> QED
      BY <3>3, <3>4
  <2> QED
    BY <2>2, <2>3
<1>15. BuffersKept'
  <2>1. PoolSize(sess.kind)' = PoolSize(sess.kind)
    BY <1>1 DEF PoolSize
  <2>2. ~sess.failure => free + Outstanding = PoolSize(sess.kind)
    BY <1>1, <1>2 DEF BuffersKept, InWindow
  <2>3. (free - got) + (Outstanding + got) = free + Outstanding
    BY <1>3, <1>4
  <2> QED
    BY <1>1, <1>4, <2>1, <2>2, <2>3 DEF BuffersKept
<1>16. DryIsSmall'
  <2> SUFFICES ASSUME sess.failure = FALSE, runner'.poolBound = TRUE
               PROVE  SmallRegistration(sess.kind)
    <3>1. SmallRegistration(sess.kind)' = SmallRegistration(sess.kind)
      BY <1>1 DEF SmallRegistration
    <3>2. sess.failure \in BOOLEAN /\ runner'.poolBound \in BOOLEAN
      BY <1>2, <1>4 DEF SessionType, RunnerType
    <3> QED
      BY <1>1, <3>1, <3>2 DEF DryIsSmall
  <2>1. CASE runner.poolBound
    BY <1>1, <1>2, <2>1 DEF DryIsSmall
  <2>2. CASE ~runner.poolBound
    <3>1. got < room
      BY <1>4, <2>2
    <3>2. got = free
      BY <1>3, <1>4, <3>1 DEF Lesser
    <3>3. free + Outstanding = PoolSize(sess.kind)
      BY <1>1, <1>2 DEF BuffersKept, InWindow
    <3>4. PoolSize(sess.kind) < runner.configured
      BY <1>3, <1>5, <3>1, <3>2, <3>3
    <3>5. PoolSize(sess.kind) < runner.count
      BY <1>2, <1>3, <1>5, <1>7, <3>1, <3>2, <3>3
    <3>6. sess.kind = "registered"
      <4>1. sess.kind # "registered" => PoolSize(sess.kind) = job.depth
        BY <1>2, JobFacts DEF PoolSize
      <4> QED
        BY <1>3, <3>4, <4>1
    <3>7. PoolSize(sess.kind) = RegisteredBuffers
      BY <3>6 DEF PoolSize
    <3>8. Min({job.count, job.depth}) = Lesser(job.count, job.depth)
      <4>1. job.count \in Int /\ job.depth \in Int
        BY <1>2, JobFacts
      <4> QED
        BY <4>1, OfTwo
    <3> QED
      BY <1>3, <3>4, <3>5, <3>6, <3>7, <3>8 DEF SmallRegistration, Lesser
  <2> QED
    BY <2>1, <2>2
<1>17. OutcomesHonest' /\ RunsRecorded'
  <2>1. sess.iterations >= sess.iterations
    BY <1>2 DEF SessionType
  <2> QED
    BY <1>1, <1>2, <2>1, EvidenceKept
<1>18. ErrorsCounted' /\ EntriesHonest'
  BY <1>1, <1>2, ReportKept DEF ErrorsCounted
<1> QED
  BY <1>8, <1>10, <1>11, <1>12, <1>13, <1>14, <1>15, <1>16, <1>17, <1>18 DEF BenchInv

\* A completion of a rolling window adds what the reference sum adds.
LEMMA RollingStep ==
  \A count, n, out \in Nat \ {0}, c \in Nat :
    out = Lesser(n, count - c) =>
      RollingWeight(count, Lesser(count, n), c) + out
        = RollingWeight(count, Lesser(count, n), c + 1)
<1> SUFFICES ASSUME NEW count \in Nat \ {0}, NEW n \in Nat \ {0}, NEW out \in Nat \ {0},
                    NEW c \in Nat, out = Lesser(n, count - c)
             PROVE  RollingWeight(count, Lesser(count, n), c) + out
                      = RollingWeight(count, Lesser(count, n), c + 1)
  OBVIOUS
<1> DEFINE L == Lesser(count, n)
<1>1. L \in Nat \ {0} /\ L <= count /\ L <= n /\ (L = n \/ L = count)
  BY DEF Lesser
<1>6. L = Lesser(count, n)
  OBVIOUS
<1> HIDE DEF L
<1>2. c < count /\ out <= count - c /\ out <= n /\ (out = n \/ out = count - c)
  BY DEF Lesser
<1>3. CASE c + 1 <= count - L
  <2>1. c <= count - L /\ out = L
    BY <1>1, <1>2, <1>3, <1>6 DEF Lesser
  <2>2. c * L + L = (c + 1) * L
    BY <1>1
  <2> QED
    BY <1>3, <1>6, <2>1, <2>2 DEF RollingWeight
<1>4. CASE c = count - L
  <2>1. out = L /\ ~(c + 1 <= count - L) /\ c <= count - L
    BY <1>1, <1>2, <1>4, <1>6 DEF Lesser
  <2>2. count - (c + 1) = L - 1
    BY <1>1, <1>4
  <2>3. Descent(L) = Descent(L - 1) + L /\ Descent(L) \in Nat /\ Descent(L - 1) \in Nat
    <3>1. L - 1 \in Nat
      BY <1>1
    <3> QED
      BY <1>1, <3>1, DescentStep
  <2>4. c * L \in Int /\ c * L = (count - L) * L
    BY <1>1, <1>4
  <2>5. RollingWeight(count, L, c) = c * L
    BY <2>1 DEF RollingWeight
  <2>6. RollingWeight(count, L, c + 1) = c * L + Descent(L) - Descent(L - 1)
    BY <2>1, <2>2, <2>4 DEF RollingWeight
  <2> QED
    BY <1>1, <1>6, <2>1, <2>3, <2>4, <2>5, <2>6
<1>5. CASE c > count - L
  <2>1. out = count - c /\ ~(c + 1 <= count - L) /\ ~(c <= count - L)
    BY <1>1, <1>2, <1>5
  <2>2. /\ Descent(count - c) = Descent((count - c) - 1) + (count - c)
        /\ Descent(count - c) \in Nat /\ Descent((count - c) - 1) \in Nat
    <3>1. count - c \in Nat \ {0} /\ (count - c) - 1 \in Nat
      BY <1>2
    <3> QED
      BY <3>1, DescentStep
  <2>3. count - (c + 1) = (count - c) - 1
    BY <1>2
  <2> DEFINE x == (count - L) * L
  <2>4. x \in Int /\ Descent(L) \in Nat
    BY <1>1, DescentStep
  <2>5. RollingWeight(count, L, c) = x + (Descent(L) - Descent(count - c))
    BY <2>1 DEF RollingWeight
  <2>6. RollingWeight(count, L, c + 1) = x + (Descent(L) - Descent((count - c) - 1))
    BY <2>1, <2>3 DEF RollingWeight
  <2> HIDE DEF x
  <2> QED
    BY <1>2, <1>6, <2>1, <2>2, <2>4, <2>5, <2>6
<1> QED
  BY <1>1, <1>3, <1>4, <1>5, <1>6

\* The sample every completion adds, an error included.
LEMMA SampledFacts ==
  ASSUME runner \in RunnerType, Outstanding \in Nat
  PROVE  /\ Sampled \in RunnerType
         /\ Sampled.shape = runner.shape /\ Sampled.count = runner.count
         /\ Sampled.configured = runner.configured /\ Sampled.issued = runner.issued
         /\ Sampled.weighted = runner.weighted + Outstanding
         /\ Sampled.samples = runner.samples + 1
         /\ Sampled.peak = runner.peak /\ Sampled.poolBound = runner.poolBound
<1>1. runner.weighted + Outstanding \in Nat /\ runner.samples + 1 \in Nat
  BY DEF RunnerType
<1> QED
  BY <1>1 DEF Sampled, RunnerType

LEMMA CompleteKeepsBench ==
  ASSUME BenchInv, NEW i \in Op, WindowComplete(i)
  PROVE  BenchInv'
<1>1. /\ stage = "window" /\ loop = "await" /\ loop' = "refill" /\ i \in pending
      /\ runner' = Sampled /\ pending' = pending \ {i} /\ free' = free + 1
      /\ sess' = [sess EXCEPT !.trace = Delivered(sess.trace, i)]
      /\ job' = job /\ stage' = stage /\ ledger' = ledger /\ entries' = entries
  BY DEF WindowComplete, Complete, PutBuffer
<1>2. /\ BenchTypeOK /\ WindowRuns /\ TraceKept /\ SamplesExact /\ DepthReached /\ WeightsExact
      /\ BuffersKept /\ DryIsSmall /\ OutcomesHonest /\ RunsRecorded /\ ErrorsCounted
      /\ EntriesHonest /\ sess \in SessionType /\ job \in JobType
  BY DEF BenchInv, BenchTypeOK
<1>3. /\ runner \in RunnerType /\ runner.issued \in Nat /\ runner.count \in Nat \ {0}
      /\ runner.configured \in Nat \ {0} /\ runner.samples \in Nat /\ runner.weighted \in Nat
      /\ IsFiniteSet(pending) /\ pending \subseteq 0 .. runner.issued - 1
      /\ Outstanding \in Nat /\ Outstanding <= runner.configured
      /\ free \in Nat
  BY <1>1, WindowFacts
<1>4. /\ runner' \in RunnerType
      /\ runner'.shape = runner.shape /\ runner'.count = runner.count
      /\ runner'.configured = runner.configured /\ runner'.issued = runner.issued
      /\ runner'.weighted = runner.weighted + Outstanding
      /\ runner'.samples = runner.samples + 1
      /\ runner'.peak = runner.peak /\ runner'.poolBound = runner.poolBound
  BY <1>1, <1>3, SampledFacts
<1>5. IsFiniteSet(pending') /\ Outstanding' = Outstanding - 1 /\ Outstanding >= 1
  <2>1. IsFiniteSet(pending \ {i}) /\ Cardinality(pending \ {i}) = Cardinality(pending) - 1
    BY <1>1, <1>3, FS_RemoveElement
  <2>2. Cardinality(pending \ {i}) \in Nat
    BY <2>1, FS_CardinalityType
  <2> QED
    BY <1>1, <1>3, <2>1, <2>2 DEF Outstanding
<1> DEFINE d == <<sess.phase, i, Delivery(i)>>
           t == Delivered(sess.trace, i)
<1>6. /\ t \in TraceType /\ t.issued = sess.trace.issued
      /\ t.delivered = sess.trace.delivered \cup {d}
  <2>1. sess.phase \in {"Read", "Write"} /\ sess.trace \in TraceType
    BY <1>2 DEF SessionType
  <2>2. i \in Nat /\ Delivery(i) \in {"nothing", "hollow", "data"}
    BY <1>1, <1>3 DEF Delivery
  <2>3. d \in Deliveries
    BY <2>1, <2>2 DEF Deliveries
  <2> HIDE DEF d
  <2>4. t = [sess.trace EXCEPT !.delivered = @ \cup {d}]
    BY DEF Delivered, d
  <2> HIDE DEF t
  <2> QED
    BY <2>1, <2>3, <2>4 DEF TraceType
<1> HIDE DEF t
<1>7. SameEvidence(sess') /\ sess'.trace = t /\ sess'.phase = sess.phase
  <2>1. sess' = [sess EXCEPT !.trace = t]
    BY <1>1 DEF t
  <2> QED
    BY <1>2, <1>6, <2>1, TracedSession
<1>8. /\ sess' \in SessionType /\ sess'.failure = sess.failure /\ sess'.errors = sess.errors
      /\ sess'.kind = sess.kind /\ sess'.weakness = sess.weakness
      /\ sess'.warm = sess.warm /\ sess'.first = sess.first /\ sess'.last = sess.last
      /\ sess'.timed = sess.timed /\ sess'.iterations = sess.iterations
  BY <1>7 DEF SameEvidence
<1>9. BenchTypeOK'
  BY <1>1, <1>2, <1>3, <1>4, <1>5, <1>7, <1>8 DEF BenchTypeOK
<1>10. WindowRuns'
  <2>1. pending' \subseteq 0 .. runner'.issued - 1 /\ Outstanding' <= runner'.configured
    BY <1>1, <1>3, <1>4, <1>5
  <2> QED
    BY <1>1, <1>2, <1>4, <2>1 DEF WindowRuns
<1>11. TraceKept'
  <2>1. Over' = Over \cup {i}
    BY <1>1, <1>3, <1>4 DEF Over
  <2>2. RunIndex' = RunIndex /\ NewTrace' = NewTrace /\ JobOps' = JobOps
    BY <1>1, <1>8, JobKept DEF RunIndex
  <2>3. Delivery(i) = Given(sess.weakness, RunIndex, sess.phase, i)
    BY DEF Delivery, Skips, Hollow, Given, HollowAt
  <2>4. PhaseTrace(sess.weakness, RunIndex, sess.phase, Over \cup {i}) =
          PhaseTrace(sess.weakness, RunIndex, sess.phase, Over) \cup {d}
    BY <2>3 DEF PhaseTrace
  <2>5. /\ sess.trace.issued = NewTrace.issued
        /\ sess.trace.delivered =
             PhaseTrace(sess.weakness, RunIndex, sess.phase, Over) \cup
             (IF sess.phase = "Read" /\ job.scenario = "WriteThenRead"
                THEN PhaseTrace(sess.weakness, RunIndex, "Write", JobOps) ELSE {})
    BY <1>1, <1>2 DEF TraceKept, InWindow
  <2> HIDE DEF d
  <2>6. t.delivered =
             PhaseTrace(sess.weakness, RunIndex, sess.phase, Over \cup {i}) \cup
             (IF sess.phase = "Read" /\ job.scenario = "WriteThenRead"
                THEN PhaseTrace(sess.weakness, RunIndex, "Write", JobOps) ELSE {})
    BY <1>6, <2>4, <2>5
  <2> QED
    BY <1>1, <1>6, <1>7, <1>8, <2>1, <2>2, <2>5, <2>6 DEF TraceKept
<1>12. runner.samples + Outstanding = runner.issued
  BY <1>1, <1>2 DEF SamplesExact, InWindow
<1>13. SamplesExact'
  BY <1>3, <1>4, <1>5, <1>12 DEF SamplesExact
<1>14. DepthReached'
  BY <1>1, <1>2, <1>4 DEF DepthReached, InWindow
<1>15. WeightsExact'
  <2> SUFFICES ASSUME ~runner.poolBound
               PROVE  /\ runner.shape = "Rolling" => RollingExact'
                      /\ runner.shape = "Batched" => BatchedExact'
    BY <1>4 DEF WeightsExact
  <2>1. ASSUME runner.shape = "Rolling" PROVE RollingExact'
    <3>1. /\ runner.weighted =
               RollingWeight(runner.count, Lesser(runner.count, runner.configured), runner.samples)
          /\ Outstanding = Lesser(runner.configured, runner.count - runner.samples)
      BY <1>1, <1>2, <2>1 DEF WeightsExact, InWindow, RollingExact
    <3>2. Outstanding \in Nat \ {0}
      BY <1>3, <1>5
    <3>3. RollingWeight(runner.count, Lesser(runner.count, runner.configured), runner.samples)
            + Outstanding
            = RollingWeight(runner.count, Lesser(runner.count, runner.configured),
                            runner.samples + 1)
      BY <1>3, <3>1, <3>2, RollingStep
    <3> QED
      BY <1>1, <1>4, <3>1, <3>3 DEF RollingExact
  <2>2. ASSUME runner.shape = "Batched" PROVE BatchedExact'
    <3> DEFINE n == runner.configured
    <3>1. PICK k \in Nat, size \in 0 .. n :
            /\ runner.issued = k * n + size
            /\ size \in {0, n} \/ runner.issued = runner.count
            /\ Outstanding <= size
            /\ runner.weighted = k * Descent(n) + Descent(size) - Descent(Outstanding)
      BY <1>1, <1>2, <2>2 DEF WeightsExact, InWindow, BatchedExact
    <3>2. Descent(Outstanding) = Descent(Outstanding - 1) + Outstanding
      BY <1>3, <1>5, DescentStep
    <3>3. /\ Descent(n) \in Nat /\ Descent(size) \in Nat /\ Descent(Outstanding) \in Nat
          /\ Descent(Outstanding - 1) \in Nat
      <4>1. Outstanding - 1 \in Nat /\ size \in Nat
        BY <1>3, <1>5
      <4> QED
        BY <1>3, <4>1, DescentStep
    <3>4. runner'.weighted = k * Descent(n) + Descent(size) - Descent(Outstanding - 1)
      <4> DEFINE x == k * Descent(n)
      <4>1. x \in Nat /\ runner.weighted = x + Descent(size) - Descent(Outstanding)
        BY <3>1, <3>3
      <4> HIDE DEF x
      <4>2. runner'.weighted = x + Descent(size) - Descent(Outstanding - 1)
        BY <1>3, <1>4, <3>2, <3>3, <4>1
      <4> QED
        BY <4>2 DEF x
    <3>5. Outstanding' <= size
      BY <1>3, <1>5, <3>1
    <3> QED
      BY <1>4, <1>5, <3>1, <3>4, <3>5 DEF BatchedExact
  <2> QED
    BY <2>1, <2>2
<1>16. BuffersKept'
  <2>1. PoolSize(sess.kind)' = PoolSize(sess.kind)
    BY <1>1, <1>8 DEF PoolSize
  <2>2. ~sess.failure => free + Outstanding = PoolSize(sess.kind)
    BY <1>1, <1>2 DEF BuffersKept, InWindow
  <2>3. (free + 1) + (Outstanding - 1) = free + Outstanding
    BY <1>3
  <2> QED
    BY <1>1, <1>5, <1>8, <2>1, <2>2, <2>3 DEF BuffersKept
<1>17. DryIsSmall'
  <2>1. SmallRegistration(sess.kind)' = SmallRegistration(sess.kind)
    BY <1>1, <1>8 DEF SmallRegistration
  <2> QED
    BY <1>1, <1>2, <1>4, <1>8, <2>1 DEF DryIsSmall
<1>18. OutcomesHonest' /\ RunsRecorded'
  <2>1. sess.iterations >= sess.iterations
    BY <1>2 DEF SessionType
  <2> QED
    BY <1>1, <1>2, <1>8, <2>1, EvidenceKept
<1>19. ErrorsCounted' /\ EntriesHonest'
  BY <1>1, <1>2, <1>8, ReportKept DEF ErrorsCounted
<1> QED
  BY <1>9, <1>10, <1>11, <1>13, <1>14, <1>15, <1>16, <1>17, <1>18, <1>19 DEF BenchInv

LEMMA FailKeepsBench ==
  ASSUME BenchInv, NEW i \in Op, WindowFail(i)
  PROVE  BenchInv'
<1>1. /\ stage = "window" /\ loop' = "error" /\ runner' = Sampled /\ pending' = {} /\ free' = free
      /\ job' = job /\ stage' = stage /\ sess' = sess /\ ledger' = ledger /\ entries' = entries
  BY DEF WindowFail, Fail
<1>2. /\ BenchTypeOK /\ WindowRuns /\ BuffersKept /\ DryIsSmall /\ OutcomesHonest /\ RunsRecorded
      /\ ErrorsCounted /\ EntriesHonest /\ sess \in SessionType
  BY DEF BenchInv, BenchTypeOK
<1>3. runner \in RunnerType /\ Outstanding \in Nat /\ runner.configured \in Nat
  BY <1>1, WindowFacts
<1>4. /\ runner' \in RunnerType
      /\ runner'.shape = runner.shape /\ runner'.count = runner.count
      /\ runner'.configured = runner.configured /\ runner'.issued = runner.issued
      /\ runner'.poolBound = runner.poolBound
  BY <1>1, <1>3, SampledFacts
<1>5. Outstanding' = 0 /\ IsFiniteSet(pending')
  BY <1>1, FS_EmptySet DEF Outstanding
<1>6. BenchTypeOK'
  BY <1>1, <1>2, <1>4, <1>5 DEF BenchTypeOK
<1>7. WindowRuns'
  BY <1>1, <1>2, <1>3, <1>4, <1>5 DEF WindowRuns
<1>8. TraceKept' /\ SamplesExact' /\ DepthReached' /\ WeightsExact'
  BY <1>1 DEF TraceKept, SamplesExact, DepthReached, WeightsExact, InWindow
<1>9. BuffersKept'
  BY <1>1 DEF BuffersKept, InWindow
<1>10. DryIsSmall'
  BY <1>1, <1>2, <1>4, JobKept DEF DryIsSmall
<1>11. OutcomesHonest' /\ RunsRecorded'
  <2>1. sess.iterations >= sess.iterations
    BY <1>2 DEF SessionType
  <2> QED
    BY <1>1, <1>2, <2>1, EvidenceKept
<1>12. ErrorsCounted' /\ EntriesHonest'
  BY <1>1, <1>2, ReportKept DEF ErrorsCounted
<1> QED
  BY <1>6, <1>7, <1>8, <1>9, <1>10, <1>11, <1>12 DEF BenchInv

\* A window that has ended drove the shape its scenario declares and reached
\* its depth, unless the pool ran dry.
LEMMA Quotient ==
  ASSUME NEW k \in Nat, NEW n \in Nat \ {0}, NEW s \in 0 .. n - 1
  PROVE  (k * n + s) \div n = k /\ (k * n + s) % n = s
OBVIOUS

LEMMA RollingPredicted ==
  \A count, n \in Nat \ {0} :
    RollingWeight(count, Lesser(count, n), count) = Predicted("Rolling", count, n)
<1> SUFFICES ASSUME NEW count \in Nat \ {0}, NEW n \in Nat \ {0}
             PROVE  RollingWeight(count, Lesser(count, n), count) = Predicted("Rolling", count, n)
  OBVIOUS
<1>1. count - count = 0 /\ Descent(0) = 0 /\ Descent(n) \in Nat /\ Descent(count) \in Nat
  BY DescentStep
<1>2. CASE count >= n
  <2>1. Lesser(count, n) = n /\ ~(count <= count - n)
    BY <1>2 DEF Lesser
  <2>2. Predicted("Rolling", count, n) = (count - n) * n + Descent(n)
    BY <1>2 DEF Predicted
  <2>3. (count - n) * n + (Descent(n) - 0) = (count - n) * n + Descent(n)
    BY <1>1
  <2> QED
    BY <1>1, <2>1, <2>2, <2>3 DEF RollingWeight
<1>3. CASE count < n
  <2>1. Lesser(count, n) = count /\ ~(count <= count - count)
    BY <1>3 DEF Lesser
  <2>2. Predicted("Rolling", count, n) = Descent(count)
    BY <1>3 DEF Predicted
  <2>3. (count - count) * count + (Descent(count) - 0) = Descent(count)
    BY <1>1
  <2> QED
    BY <1>1, <2>1, <2>2, <2>3 DEF RollingWeight
<1> QED
  BY <1>2, <1>3

LEMMA BatchedPredicted ==
  \A k \in Nat, n \in Nat \ {0} : \A size \in 0 .. n :
    k * Descent(n) + Descent(size) = Predicted("Batched", k * n + size, n)
<1> SUFFICES ASSUME NEW k \in Nat, NEW n \in Nat \ {0}, NEW size \in 0 .. n
             PROVE  k * Descent(n) + Descent(size) = Predicted("Batched", k * n + size, n)
  OBVIOUS
<1>1. Predicted("Batched", k * n + size, n) =
        ((k * n + size) \div n) * Descent(n) + Descent((k * n + size) % n)
  BY DEF Predicted
<1>2. CASE size < n
  <2>1. size \in 0 .. n - 1
    BY <1>2
  <2> QED
    BY <1>1, <2>1, Quotient
<1>3. CASE size = n
  <2>1. k + 1 \in Nat /\ 0 \in 0 .. n - 1 /\ k * n + n = (k + 1) * n + 0
    OBVIOUS
  <2>2. (k * n + n) \div n = k + 1 /\ (k * n + n) % n = 0
    BY <2>1, Quotient
  <2> DEFINE d == Descent(n)
  <2>3. d \in Nat /\ Descent(0) = 0
    BY DescentStep
  <2>4. Predicted("Batched", k * n + size, n) = (k + 1) * d + 0
    BY <1>1, <1>3, <2>2, <2>3
  <2> HIDE DEF d
  <2>5. (k + 1) * d + 0 = k * d + d
    BY <2>3
  <2> QED
    BY <1>3, <2>4, <2>5 DEF d
<1> QED
  BY <1>2, <1>3

LEMMA ShapeDriven ==
  ASSUME BenchInv, stage = "window", loop = "done"
  PROVE  /\ ShapeCheck(runner) \in {"Matched", "PoolBound"}
         /\ ShapeCheck(runner) = "PoolBound" => runner.poolBound = TRUE
         /\ Shortfall(runner) \in {"None", "Expected"}
<1>1. WindowRuns /\ SamplesExact /\ DepthReached /\ WeightsExact /\ InWindow
  BY DEF BenchInv, InWindow
<1>2. /\ runner.count \in Nat \ {0} /\ runner.configured \in Nat \ {0} /\ runner.samples \in Nat
      /\ runner.weighted \in Nat /\ runner.poolBound \in BOOLEAN /\ runner.shape \in Shape
      /\ runner.peak \in Nat /\ Outstanding \in Nat /\ (Outstanding = 0 <=> pending = {})
  BY WindowFacts
<1>3. runner.issued = runner.count /\ Outstanding = 0 /\ runner.samples = runner.count
  <2>1. runner.issued = runner.count /\ pending = {}
    BY <1>1 DEF WindowRuns
  <2>2. runner.samples + Outstanding = runner.issued
    BY <1>1 DEF SamplesExact
  <2> QED
    BY <1>2, <2>1, <2>2
<1>4. ASSUME runner.poolBound = FALSE
      PROVE  runner.weighted = Predicted(runner.shape, runner.count, runner.configured)
  <2>1. CASE runner.shape = "Rolling"
    <3>1. runner.weighted =
            RollingWeight(runner.count, Lesser(runner.count, runner.configured), runner.count)
      BY <1>1, <1>3, <1>4, <2>1 DEF WeightsExact, RollingExact
    <3> QED
      BY <1>2, <2>1, <3>1, RollingPredicted
  <2>2. CASE runner.shape = "Batched"
    <3> DEFINE n == runner.configured
    <3>1. PICK k \in Nat, size \in 0 .. n :
            /\ runner.issued = k * n + size
            /\ runner.weighted = k * Descent(n) + Descent(size) - Descent(Outstanding)
      BY <1>1, <1>4, <2>2 DEF WeightsExact, BatchedExact
    <3>2. Descent(n) \in Nat /\ Descent(size) \in Nat /\ Descent(Outstanding) = 0
      <4>1. size \in Nat
        BY <1>2
      <4> QED
        BY <1>2, <1>3, <4>1, DescentStep
    <3>3. runner.weighted = k * Descent(n) + Descent(size)
      <4>1. Descent(size) - 0 = Descent(size)
        BY <3>2
      <4> QED
        BY <3>1, <3>2, <4>1
    <3>4. runner.weighted = Predicted("Batched", k * n + size, n)
      BY <1>2, <3>3, BatchedPredicted
    <3> QED
      BY <1>3, <2>2, <3>1, <3>4
  <2> QED
    BY <1>2, <2>1, <2>2 DEF Shape
<1>5. CASE runner.poolBound = FALSE
  <2>1. ShapeCheck(runner) = "Matched"
    BY <1>3, <1>4, <1>5 DEF ShapeCheck
  <2>2. runner.peak >= runner.configured \/ runner.count < runner.configured
    BY <1>1, <1>2, <1>3, <1>5 DEF DepthReached
  <2> QED
    BY <2>1, <2>2 DEF Shortfall
<1>6. CASE runner.poolBound = TRUE
  BY <1>6 DEF ShapeCheck, Shortfall
<1> QED
  BY <1>2, <1>5, <1>6

LEMMA OutcomeFacts ==
  ASSUME BenchInv, stage = "window", loop = "done", sess.phase = "Read"
  PROVE  /\ Outcome \in OutcomeType
         /\ Outcome.trace = RunTrace(sess.weakness, RunIndex)
         /\ sess.failure = FALSE => Honest(Outcome, sess.kind)
<1>1. /\ BenchTypeOK /\ WindowRuns /\ TraceKept /\ DryIsSmall /\ InWindow
      /\ sess \in SessionType /\ job \in JobType
  BY DEF BenchInv, BenchTypeOK, InWindow
<1>2. sess.trace \in TraceType
  BY <1>1 DEF SessionType
<1>3. /\ ShapeCheck(runner) \in {"Matched", "PoolBound"}
      /\ ShapeCheck(runner) = "PoolBound" => runner.poolBound = TRUE
      /\ Shortfall(runner) \in {"None", "Expected"}
  BY ShapeDriven
<1>4. /\ Outcome \in OutcomeType /\ Outcome.trace = sess.trace
      /\ Outcome.shape = ShapeCheck(runner) /\ Outcome.shortfall = Shortfall(runner)
  BY <1>2, <1>3 DEF Outcome, OutcomeType
<1>5. sess.trace = RunTrace(sess.weakness, RunIndex)
  <2>1. Over = JobOps
    BY <1>1 DEF WindowRuns, Over, JobOps
  <2>2. /\ sess.trace.issued = NewTrace.issued
        /\ sess.trace.delivered =
             PhaseTrace(sess.weakness, RunIndex, "Read", JobOps) \cup
             (IF job.scenario = "WriteThenRead"
                THEN PhaseTrace(sess.weakness, RunIndex, "Write", JobOps) ELSE {})
    BY <1>1, <2>1 DEF TraceKept
  <2>3. sess.trace = [issued |-> sess.trace.issued, delivered |-> sess.trace.delivered]
    BY <1>2 DEF TraceType
  <2> QED
    BY <2>2, <2>3, Zenon DEF RunTrace
<1>6. ASSUME sess.failure = FALSE PROVE Honest(Outcome, sess.kind)
  <2>1. runner.poolBound = TRUE => SmallRegistration(sess.kind)
    BY <1>1, <1>6 DEF DryIsSmall
  <2> QED
    BY <1>3, <1>4, <2>1 DEF Honest
<1> QED
  BY <1>4, <1>5, <1>6

\* The evidence of a run that ended: the warm-up, then the timed iterations.
LEMMA EvidenceGrows ==
  ASSUME BenchInv, IterationDone
  PROVE  /\ sess' \in SessionType /\ sess'.failure = sess.failure /\ sess'.errors = sess.errors
         /\ sess'.kind = sess.kind /\ sess'.phase = sess.phase /\ sess'.warm # {}
         /\ OutcomesHonest' /\ RunsRecorded'
<1> DEFINE o == Outcome
           T(k) == RunTrace(sess.weakness, k)
<1>1. /\ stage = "window" /\ loop = "done" /\ sess.phase = "Read" /\ job' = job
      /\ sess' = IF sess.warm = {} THEN [sess EXCEPT !.warm = {o}] ELSE RecordOutcome(o)
  BY DEF IterationDone
<1>2. OutcomesHonest /\ RunsRecorded /\ sess \in SessionType
  BY DEF BenchInv, BenchTypeOK
<1>3. /\ o \in OutcomeType /\ o.trace = T(RunIndex)
      /\ sess.failure = FALSE => Honest(o, sess.kind)
  BY <1>1, OutcomeFacts
<1>4. sess.failure \in BOOLEAN /\ sess.iterations \in Nat
  BY <1>2 DEF SessionType
<1> HIDE DEF o
<1>5. \A k : RunTrace(sess.weakness, k)' = RunTrace(sess.weakness', k)
  BY <1>1, JobKept DEF RunTrace
<1>6. \A p, kind : Honest(p, kind)' = Honest(p, kind)
  BY <1>1, JobKept
<1>7. CASE sess.warm = {}
  <2>1. /\ sess' \in SessionType /\ sess'.failure = sess.failure /\ sess'.errors = sess.errors
        /\ sess'.kind = sess.kind /\ sess'.weakness = sess.weakness /\ sess'.phase = sess.phase
        /\ sess'.warm = {o} /\ sess'.first = sess.first /\ sess'.last = sess.last
        /\ sess'.timed = sess.timed /\ sess'.iterations = sess.iterations
    BY <1>1, <1>2, <1>3, <1>7, WarmSession
  <2>2. o.trace = T(0)
    BY <1>3, <1>7 DEF RunIndex
  <2>3. OutcomesHonest'
    BY <1>2, <1>3, <1>4, <1>6, <2>1 DEF OutcomesHonest
  <2>4. RunsRecorded'
    BY <1>2, <1>5, <2>1, <2>2 DEF RunsRecorded
  <2> QED
    BY <2>1, <2>3, <2>4
<1>8. CASE sess.warm # {}
  <2>1. /\ sess' \in SessionType /\ sess'.failure = sess.failure /\ sess'.errors = sess.errors
        /\ sess'.kind = sess.kind /\ sess'.weakness = sess.weakness /\ sess'.phase = sess.phase
        /\ sess'.warm = sess.warm
        /\ sess'.first = (IF sess.first = {} THEN {o} ELSE sess.first)
        /\ sess'.last = {o} /\ sess'.timed = sess.timed \cup {o.trace}
        /\ sess'.iterations = sess.iterations + 1
    BY <1>1, <1>2, <1>3, <1>8, TimedSession
  <2> DEFINE m == sess.iterations + 1
  <2>2. o.trace = T(m)
    BY <1>3, <1>8 DEF RunIndex
  <2>3. OutcomesHonest'
    BY <1>2, <1>3, <1>4, <1>6, <2>1 DEF OutcomesHonest
  <2>4. \A p \in sess.warm : p.trace = T(0)
    BY <1>2 DEF RunsRecorded
  <2>5. \E a, b \in 1 .. m :
          /\ \A p \in sess'.first : p.trace = T(a)
          /\ \A p \in sess'.last : p.trace = T(b)
          /\ \A t \in sess'.timed : \E k \in a .. b : t = T(k)
    <3>0. m \in 1 .. m /\ m \in Nat
      BY <1>4
    <3>1. CASE sess.timed = {}
      <4>1. sess'.first = {o} /\ sess'.timed = {o.trace}
        BY <1>2, <2>1, <3>1 DEF RunsRecorded
      <4>2. m \in m .. m
        BY <3>0
      <4>3. /\ \A p \in sess'.first : p.trace = T(m)
            /\ \A p \in sess'.last : p.trace = T(m)
            /\ \A t \in sess'.timed : \E k \in m .. m : t = T(k)
        BY <2>1, <2>2, <4>1, <4>2
      <4> QED
        BY <3>0, <4>3
    <3>2. CASE sess.timed # {}
      <4>1. PICK a \in 1 .. sess.iterations, b \in 1 .. sess.iterations :
              /\ \A p \in sess.first : p.trace = T(a)
              /\ \A p \in sess.last : p.trace = T(b)
              /\ \A t \in sess.timed : \E k \in a .. b : t = T(k)
        BY <1>2, <3>2 DEF RunsRecorded
      <4>2. sess'.first = sess.first
        BY <1>2, <2>1, <3>2 DEF RunsRecorded
      <4>3. a \in 1 .. m /\ m \in a .. m /\ a .. b \subseteq a .. m
        BY <1>4, <4>1
      <4> HIDE DEF m, T
      <4>4. /\ \A p \in sess'.first : p.trace = T(a)
            /\ \A p \in sess'.last : p.trace = T(m)
        BY <2>1, <2>2, <4>1, <4>2
      <4>5. \A t \in sess'.timed : \E k \in a .. m : t = T(k)
        <5> SUFFICES ASSUME NEW t \in sess.timed \cup {o.trace}
                     PROVE  \E k \in a .. m : t = T(k)
          BY <2>1
        <5>1. CASE t = o.trace
          BY <2>2, <4>3, <5>1
        <5>2. CASE t \in sess.timed
          BY <4>1, <4>3, <5>2
        <5> QED
          BY <5>1, <5>2
      <4> QED
        BY <3>0, <4>3, <4>4, <4>5
    <3> QED
      BY <3>1, <3>2
  <2>6. RunsRecorded'
    <3>1. \A k : RunTrace(sess.weakness, k)' = T(k)
      BY <1>5, <2>1
    <3>2. sess'.timed # {} /\ sess'.first # {} /\ sess'.last # {}
      BY <2>1
    <3> HIDE DEF T
    <3>3. (\A p \in sess.warm : p.trace = RunTrace(sess.weakness, 0))'
      BY <2>1, <2>4, <3>1
    <3>4. (\E a, b \in 1 .. sess.iterations :
            /\ \A p \in sess.first : p.trace = RunTrace(sess.weakness, a)
            /\ \A p \in sess.last : p.trace = RunTrace(sess.weakness, b)
            /\ \A t \in sess.timed : \E k \in a .. b : t = RunTrace(sess.weakness, k))'
      BY <2>1, <2>5, <3>1
    <3> QED
      BY <3>2, <3>3, <3>4 DEF RunsRecorded
  <2> QED
    BY <1>8, <2>1, <2>3, <2>6
<1> QED
  BY <1>7, <1>8

LEMMA DoneKeeps ==
  ASSUME BenchInv, IterationDone
  PROVE  BenchInv'
<1>1. /\ stage = "window" /\ loop = "done" /\ stage' = "timer"
      /\ UNCHANGED <<job, ledger, entries, windowVars>>
  BY DEF IterationDone
<1>2. /\ BenchTypeOK /\ WindowRuns /\ BuffersKept /\ ErrorsCounted /\ EntriesHonest
  BY DEF BenchInv
<1>3. /\ sess' \in SessionType /\ sess'.failure = sess.failure /\ sess'.errors = sess.errors
      /\ sess'.kind = sess.kind /\ sess'.phase = sess.phase /\ sess'.warm # {}
      /\ OutcomesHonest' /\ RunsRecorded'
  BY EvidenceGrows
<1>4. entries' \in Seq(EntryType) /\ EntriesHonest'
  BY <1>1, <1>2, ReportKept
<1>5. BenchTypeOK'
  BY <1>1, <1>2, <1>3, <1>4 DEF BenchTypeOK, BenchStages, windowVars
<1>6. BuffersKept'
  <2>1. PoolSize(sess.kind)' = PoolSize(sess.kind)
    BY <1>1, <1>3 DEF PoolSize
  <2>2. Outstanding = 0 /\ free \in Nat
    <3>1. pending = {}
      BY <1>1, <1>2 DEF WindowRuns
    <3> QED
      BY <1>1, <3>1, WindowFacts
  <2>3. ~sess.failure => free = PoolSize(sess.kind)
    BY <1>1, <1>2, <2>2 DEF BuffersKept, InWindow
  <2> QED
    BY <1>1, <1>3, <2>1, <2>3 DEF BuffersKept, InWindow, windowVars
<1>7. ErrorsCounted'
  BY <1>2, <1>3 DEF ErrorsCounted
<1> QED
  BY <1>1, <1>3, <1>4, <1>5, <1>6, <1>7, NoWindow DEF BenchInv

LEMMA FailingKeeps ==
  ASSUME BenchInv, Hoist \/ BeginFails \/ WindowError
  PROVE  BenchInv'
<1>1. CASE IterationFails
  <2>1. UNCHANGED <<job, ledger, entries, windowVars>>
    BY DEF Hoist, BeginFails, WindowError
  <2> QED
    BY <1>1, <2>1, FailureKeeps
<1>2. CASE ~IterationFails
  <2>1. /\ stage = "hoist" /\ stage' = "begin" /\ UNCHANGED <<job, sess, ledger, windowVars>>
        /\ entries' = entries
    BY <1>2 DEF Hoist, BeginFails, WindowError
  <2>2. stage' \in BenchStages
    BY <2>1 DEF BenchStages
  <2> QED
    BY <2>1, <2>2, QuietKeeps
<1> QED
  BY <1>1, <1>2

-----------------------------------------------------------------------------
(* The comparison: the judgement. *)

\* Runs between two that delivered the same delivered the same too: what a
\* weakened backend leaves out does not come back.
LEMMA RunsBetween ==
  ASSUME job \in JobType, NEW w \in Weakness, NEW a \in Nat, NEW b \in Nat, NEW k \in a .. b,
         RunTrace(w, a).delivered = RunTrace(w, b).delivered
  PROVE  RunTrace(w, k) = RunTrace(w, b)
<1>1. w.from \in Nat /\ w.type \in {"None", "SkipsWork", "HollowDelivery", "HollowFromRun"}
  BY DEF Weakness
<1>2. ASSUME w.type = "HollowFromRun", a < w.from, w.from <= b PROVE FALSE
  <2>1. 0 \in JobOps
    BY JobFacts DEF JobOps
  <2>2. Given(w, a, "Read", 0) = "data"
    BY <1>1, <1>2 DEF Given, HollowAt
  <2>3. \A phase, i : Given(w, b, phase, i) = "hollow"
    BY <1>1, <1>2 DEF Given, HollowAt
  <2>4. <<"Read", 0, "data">> \in PhaseTrace(w, a, "Read", JobOps)
    BY <2>1, <2>2 DEF PhaseTrace
  <2>5. <<"Read", 0, "data">> \in RunTrace(w, b).delivered
    BY <2>4 DEF RunTrace
  <2>6. \A phase : <<"Read", 0, "data">> \notin PhaseTrace(w, b, phase, JobOps)
    BY <2>3 DEF PhaseTrace
  <2> QED
    BY <2>5, <2>6 DEF RunTrace
<1>3. HollowAt(w, k) = HollowAt(w, b)
  BY <1>1, <1>2 DEF HollowAt
<1>4. \A phase, i : Given(w, k, phase, i) = Given(w, b, phase, i)
  BY <1>3 DEF Given
<1>5. \A phase : PhaseTrace(w, k, phase, JobOps) = PhaseTrace(w, b, phase, JobOps)
  BY <1>4 DEF PhaseTrace
<1> QED
  BY <1>5 DEF RunTrace

\* What the comparator is shown stands for every timed iteration.
LEMMA VerifiedStands ==
  ASSUME BenchInv, stage = "judge", sess.failure = FALSE, ~Drifted
  PROVE  /\ Verified \in OutcomeType /\ Honest(Verified, sess.kind)
         /\ \A t \in sess.timed : AgreesWith(Verified.trace, t)
<1>1. /\ OutcomesHonest /\ RunsRecorded /\ ErrorsCounted /\ sess \in SessionType /\ job \in JobType
  BY DEF BenchInv, BenchTypeOK
<1>2. sess.warm # {}
  BY <1>1 DEF ErrorsCounted
<1>3. /\ sess.last # {} => Verified \in sess.last
      /\ sess.last = {} => Verified \in sess.warm
  BY <1>2 DEF Verified
<1>4. /\ sess.warm \subseteq OutcomeType /\ sess.last \subseteq OutcomeType
      /\ sess.weakness \in Weakness /\ sess.iterations \in Nat
  BY <1>1 DEF SessionType
<1>5. Verified \in OutcomeType /\ Honest(Verified, sess.kind)
  BY <1>1, <1>3, <1>4 DEF OutcomesHonest
<1>6. ASSUME NEW t \in sess.timed PROVE AgreesWith(Verified.trace, t)
  <2>1. sess.timed # {} /\ sess.first # {} /\ sess.last # {}
    BY <1>1, <1>6 DEF RunsRecorded
  <2>2. PICK a \in 1 .. sess.iterations, b \in 1 .. sess.iterations :
          /\ \A o \in sess.first : o.trace = RunTrace(sess.weakness, a)
          /\ \A o \in sess.last : o.trace = RunTrace(sess.weakness, b)
          /\ \A u \in sess.timed : \E k \in a .. b : u = RunTrace(sess.weakness, k)
    BY <1>1, <2>1 DEF RunsRecorded
  <2>3. PICK k \in a .. b : t = RunTrace(sess.weakness, k)
    BY <2>2
  <2>4. Verified.trace = RunTrace(sess.weakness, b)
    BY <1>3, <2>1, <2>2
  <2>5. RunTrace(sess.weakness, a).delivered = RunTrace(sess.weakness, b).delivered
    <3>1. PICK f \in sess.first : TRUE
      BY <2>1
    <3>2. PICK l \in sess.last : TRUE
      BY <2>1
    <3>3. AgreesWith(f.trace, l.trace)
      BY <3>1, <3>2 DEF Drifted
    <3> QED
      BY <2>2, <3>3 DEF AgreesWith
  <2>6. a \in Nat /\ b \in Nat
    BY <1>4
  <2>7. t = RunTrace(sess.weakness, b)
    BY <1>1, <1>4, <2>3, <2>5, <2>6, RunsBetween
  <2> QED
    BY <2>4, <2>7 DEF AgreesWith
<1> QED
  BY <1>5, <1>6

LEMMA MeasuredKeeps ==
  ASSUME BenchInv, JudgeMeasured
  PROVE  BenchInv'
<1> DEFINE v == Verified.trace
<1>1. /\ stage = "judge" /\ stage' = "idle" /\ ~sess.failure /\ ~Drifted /\ ~Disagrees(v)
      /\ ledger' = (IF ledger = {} THEN {v} ELSE ledger)
      /\ job' = job /\ sess' = sess /\ UNCHANGED windowVars
  BY DEF JudgeMeasured, Observe
<1>2. /\ BenchTypeOK /\ OutcomesHonest /\ RunsRecorded /\ ErrorsCounted /\ EntriesHonest
      /\ sess \in SessionType
  BY DEF BenchInv, BenchTypeOK
<1>3. sess.failure = FALSE /\ sess.errors = 0
  <2>1. sess.failure \in BOOLEAN
    BY <1>2 DEF SessionType
  <2> QED
    BY <1>1, <1>2, <2>1 DEF ErrorsCounted
<1>4. /\ Verified \in OutcomeType /\ Honest(Verified, sess.kind)
      /\ \A t \in sess.timed : AgreesWith(v, t)
  BY <1>1, <1>3, VerifiedStands
<1>5. v \in TraceType /\ ledger \subseteq TraceType /\ entries \in Seq(EntryType)
  BY <1>2, <1>4 DEF OutcomeType, BenchTypeOK
<1>6. \A ref \in ledger' : AgreesWith(ref, v)
  BY <1>1 DEF Disagrees, AgreesWith
<1>7. ledger' # {} /\ ledger' \subseteq TraceType
  BY <1>1, <1>5
<1>8. \A e \in Measured : EntryHonest(e)'
  <2> SUFFICES ASSUME NEW e \in Measured PROVE EntryHonest(e)'
    OBVIOUS
  <2>1. EntryHonest(e) /\ ledger' = ledger
    BY <1>1, <1>2 DEF EntriesHonest, EntryHonest
  <2> QED
    BY <1>1, <2>1, JobKept DEF EntryHonest
<1>9. ASSUME NEW e \in EntryType, e.kind = sess.kind, e.outcome = {Verified}, e.errors = 0,
             e.timed = sess.timed
      PROVE  EntryHonest(e)'
  <2>1. \A o \in e.outcome : Honest(o, e.kind)
    BY <1>4, <1>9
  <2>2. \A ref \in ledger' : \A t \in e.timed \cup {o.trace : o \in e.outcome} : AgreesWith(ref, t)
    BY <1>4, <1>6, <1>9 DEF AgreesWith
  <2>3. (\A o \in e.outcome : Honest(o, e.kind))'
    BY <1>1, <2>1, JobKept
  <2> QED
    BY <1>7, <1>9, <2>2, <2>3 DEF EntryHonest
<1>10. \/ entries' = entries
       \/ \E e \in EntryType :
            /\ e.standing \in {"Timed", "VerifiedNotTimed"}
            /\ e.kind = sess.kind /\ e.outcome = {Verified} /\ e.errors = 0
            /\ e.timed = sess.timed /\ entries' = Append(entries, e)
  <2>1. \/ entries' = entries
        \/ \E standing \in {"Timed", "VerifiedNotTimed"} :
             entries' = Append(entries, Entry(standing, {Verified}, sess.timed))
    BY DEF JudgeMeasured
  <2>2. ASSUME NEW standing \in {"Timed", "VerifiedNotTimed"}
        PROVE  LET e == Entry(standing, {Verified}, sess.timed)
               IN /\ e \in EntryType /\ e.standing = standing /\ e.kind = sess.kind
                  /\ e.outcome = {Verified} /\ e.errors = 0 /\ e.timed = sess.timed
    <3>1. {Verified} \in SUBSET OutcomeType /\ sess.timed \in SUBSET TraceType
      BY <1>2, <1>4 DEF SessionType
    <3> QED
      BY <1>2, <1>3, <3>1, EntryTyped
  <2> QED
    BY <2>1, <2>2
<1>11. entries' \in Seq(EntryType) /\ EntriesHonest'
  <2>1. CASE entries' = entries
    BY <1>5, <1>8, <2>1 DEF EntriesHonest, Measured
  <2>2. ASSUME NEW e \in EntryType, e.standing \in {"Timed", "VerifiedNotTimed"},
               e.kind = sess.kind, e.outcome = {Verified}, e.errors = 0,
               e.timed = sess.timed, entries' = Append(entries, e)
        PROVE  entries' \in Seq(EntryType) /\ EntriesHonest'
    <3>1. EntryHonest(e)'
      BY <1>9, <2>2
    <3>2. entries' \in Seq(EntryType) /\ Range(entries') = Range(entries) \cup {e}
      BY <1>5, <2>2, RangeAppend
    <3>3. Measured' = Measured \cup {e}
      BY <2>2, <3>2 DEF Measured
    <3> QED
      BY <1>8, <3>1, <3>2, <3>3 DEF EntriesHonest
  <2> QED
    BY <1>10, <2>1, <2>2
<1>12. BenchTypeOK'
  BY <1>1, <1>2, <1>7, <1>11 DEF BenchTypeOK, BenchStages, windowVars
<1>13. OutcomesHonest' /\ RunsRecorded'
  <2>1. sess.iterations >= sess.iterations
    BY <1>2 DEF SessionType
  <2> QED
    BY <1>1, <1>2, <2>1, EvidenceKept
<1>14. BuffersKept' /\ ErrorsCounted'
  BY <1>1, <1>2 DEF BuffersKept, ErrorsCounted, InWindow
<1> QED
  BY <1>1, <1>11, <1>12, <1>13, <1>14, NoWindow DEF BenchInv

LEMMA BenchNextKeeps ==
  ASSUME BenchInv, Next \/ UNCHANGED vars
  PROVE  BenchInv'
<1>1. CASE Next
  <2>1. CASE \/ Register \/ RegisterFails \/ HoistPanics \/ Iterate \/ StopTimer \/ OrphanCompletes
             \/ Finish \/ JudgeFailed \/ JudgeUnfair \/ Report
    BY <2>1, StageKeeps
  <2>2. CASE CannotPrepare \/ \E w \in Weaknesses : Prepare(w)
    BY <2>2, PrepareKeeps
  <2>3. CASE BeginOn \/ Begin
    BY <2>3, BeginKeeps
  <2>4. CASE Hoist \/ BeginFails \/ WindowError
    BY <2>4, FailingKeeps
  <2>5. CASE WindowRefill
    BY <2>5, RefillKeeps
  <2>6. CASE \E i \in Op : WindowComplete(i) \/ WindowFail(i)
    BY <2>6, CompleteKeepsBench, FailKeepsBench
  <2>7. CASE SyncAndReopen
    BY <2>7, ReopenKeeps
  <2>8. CASE IterationDone
    BY <2>8, DoneKeeps
  <2>9. CASE JudgeMeasured
    BY <2>9, MeasuredKeeps
  <2> QED
    BY <1>1, <2>1, <2>2, <2>3, <2>4, <2>5, <2>6, <2>7, <2>8, <2>9
    DEF Next, HarnessStep, BackendStep
<1>2. CASE UNCHANGED vars
  <2>1. /\ UNCHANGED <<job, sess, ledger, windowVars>> /\ stage' = stage /\ entries' = entries
    BY <1>2 DEF vars, benchVars, windowVars
  <2>2. stage' \in BenchStages
    BY <2>1 DEF BenchInv, BenchTypeOK
  <2> QED
    BY <2>1, <2>2, QuietKeeps
<1> QED
  BY <1>1, <1>2

-----------------------------------------------------------------------------
(* The two programs. *)

\* The invariant of the process holds at first and is kept by every step of
\* the target that was started (Cargo.toml's two bench targets).
THEOREM BenchmarksSound == BenchmarksSpec => []IInv
<1>1. BenchmarksInit => IInv
  <2> SUFFICES ASSUME BenchmarksInit PROVE IInv
    OBVIOUS
  <2>1. CASE program = "comparison"
    <3>1. Init /\ at = "none" /\ CellIdle
      BY <2>1 DEF BenchmarksInit
    <3>2. CellUnused
      BY <3>1 DEF CellUnused, CellIdle
    <3> QED
      BY <2>1, <3>1, <3>2, InitBench DEF IInv
  <2>2. CASE program = "unbuffered"
    <3>1. CellInit /\ BenchIdle
      BY <2>2 DEF BenchmarksInit
    <3>2. BenchUnused
      BY <3>1 DEF BenchUnused, BenchIdle
    <3> QED
      BY <2>2, <3>1, <3>2, InitCell DEF IInv
  <2> QED
    BY <2>1, <2>2 DEF BenchmarksInit
<1>2. IInv /\ [BenchmarksNext]_allVars => IInv'
  <2> SUFFICES ASSUME IInv, [BenchmarksNext]_allVars PROVE IInv'
    OBVIOUS
  <2>1. CASE program = "comparison"
    <3>1. /\ BenchInv /\ CellUnused /\ program' = program /\ UNCHANGED cellVars
          /\ Next \/ UNCHANGED vars
      BY <2>1 DEF IInv, BenchmarksNext, allVars
    <3>2. CellUnused'
      BY <3>1 DEF CellUnused, cellVars
    <3> QED
      BY <2>1, <3>1, <3>2, BenchNextKeeps DEF IInv
  <2>2. CASE program = "unbuffered"
    <3>1. /\ CellInv /\ BenchUnused /\ program' = program /\ UNCHANGED vars
          /\ CellNext \/ UNCHANGED cellVars
      BY <2>2 DEF IInv, BenchmarksNext, allVars
    <3>2. BenchUnused'
      BY <3>1 DEF BenchUnused, vars, benchVars
    <3> QED
      BY <2>2, <3>1, <3>2, CellNextKeeps DEF IInv
  <2> QED
    BY <2>1, <2>2 DEF IInv
<1> QED
  BY <1>1, <1>2, PTL DEF BenchmarksSpec

\* Every backend reported as measured did the work of every other one, in
\* every iteration it was timed over, although the harness compares only the
\* first trace with the last, and the last with the ledger (harness.rs,
\* measure_combination_with and Ledger::observe).
THEOREM MeasuredDidTheSame == BenchmarksSpec => []MeasuredAlike
<1>1. IInv => MeasuredAlike
  <2> SUFFICES ASSUME IInv, NEW e \in Measured, NEW f \in Measured, NEW o \in e.outcome,
                      NEW t \in f.timed \cup {p.trace : p \in f.outcome}
               PROVE  AgreesWith(o.trace, t)
    BY DEF MeasuredAlike
  <2>1. CASE BenchInv
    <3>1. EntryHonest(e) /\ EntryHonest(f)
      BY <2>1 DEF BenchInv, EntriesHonest
    <3>2. PICK ref \in ledger : TRUE
      BY <3>1 DEF EntryHonest
    <3>3. AgreesWith(ref, o.trace) /\ AgreesWith(ref, t)
      BY <3>1, <3>2 DEF EntryHonest
    <3> QED
      BY <3>3 DEF AgreesWith
  <2>2. CASE BenchUnused
    BY <2>2 DEF BenchUnused, Measured, Range
  <2> QED
    BY <2>1, <2>2 DEF IInv
<1> QED
  BY <1>1, BenchmarksSound, PTL

\* No backend is reported as measured one of whose iterations failed, and no
\* iteration of a cell is timed that delivered less than it claims
\* (harness.rs, Evidence::record_failure; unbuffered_matrix.rs, issue_reads).
THEOREM FailuresNeverMeasured == BenchmarksSpec => []FailureNeverMeasured
<1>1. IInv => FailureNeverMeasured
  <2>1. ASSUME BenchInv PROVE BackendNeverFailed
    BY <2>1 DEF BenchInv, EntriesHonest, EntryHonest, BackendNeverFailed
  <2>2. ASSUME BenchUnused PROVE BackendNeverFailed
    BY <2>2 DEF BenchUnused, BackendNeverFailed, Measured, Range
  <2> QED
    BY <2>1, <2>2, CellHonest DEF IInv, FailureNeverMeasured
<1> QED
  BY <1>1, BenchmarksSound, PTL

\* A reported figure is of the shape its scenario declares, at its depth, and
\* is excused by the pool only where the registration is below the window
\* (concurrency.rs, shape_check and achieved); an unbuffered cell is at its
\* depth whenever it waits (unbuffered_matrix.rs, issue_reads).
THEOREM ShapesHonest == BenchmarksSpec => []ShapeHonest
<1>1. IInv => ShapeHonest
  <2>1. ASSUME BenchInv PROVE WindowHonest
    BY <2>1 DEF BenchInv, EntriesHonest, EntryHonest, Honest, SmallRegistration, WindowHonest
  <2>2. ASSUME BenchUnused PROVE WindowHonest
    BY <2>2 DEF BenchUnused, WindowHonest, Measured, Range
  <2> QED
    BY <2>1, <2>2, CellHonest DEF IInv, ShapeHonest
<1> QED
  BY <1>1, BenchmarksSound, PTL
=============================================================================
