------------------------------- MODULE Registry -------------------------------
(***************************************************************************)
(* A driver on its ring (Ring), with registered buffers and files          *)
(* (runtime/registry.rs, and their part of runtime/mod.rs).  An operation  *)
(* may name its buffer and its file by an index, which the platform        *)
(* resolves against the last registration that it completed; the driver    *)
(* adopts a registration only when it reaps the completion.                *)
(*                                                                         *)
(* Bytes are positions below an extent that all buffers share.  `written`  *)
(* is what has really been stored, and no code sees it.                    *)
(***************************************************************************)
EXTENDS Ring, Sequences

CONSTANTS
  Regs,       \* registrations of buffers this driver may be asked for
  FileSets,   \* registrations of files it may be asked for, each of one file
  Foreign,    \* a registration of another driver; only its indices matter
  NoReg,      \* no registration
  Handles,    \* RegisteredBuf values
  MaxRegistrations, \* a bound on the registrations asked for
  Indices,    \* buffer indices, the same in every registration
  Extent      \* the registered length of a buffer

ASSUME RegistryAssumption ==
  /\ Foreign \notin Regs /\ Regs \cap FileSets = {}
  /\ NoReg \notin Regs \cup FileSets \cup {Foreign}
  /\ Extent \in Nat \ {0} /\ MaxRegistrations \in Nat
  /\ Indices \subseteq Nat /\ Indices # {}   \* no registration is empty

VARIABLES
  mode,         \* the driver: "None", "Running", "ShuttingDown" or "Closed"
  current,      \* DriverInner::buffer_registration and file_registration
  retired,      \* DriverInner::retired_buffer_registrations and its file twin
  inFlight,     \* DriverInner::registration_in_flight, of buffers only
  phase,        \* how far each registration has got
  posted,       \* the registrations the platform has answered, in its order
  collection,   \* the registrations the application has RegisteredBuffers of
  checkedOut,   \* Slot::checked_out of each buffer
  prefix,       \* Slot::initialized of each buffer
  handle,       \* the handles and the operations that carry them
  mapped,       \* the registrations the platform resolves indices against
  pinned,       \* the registrations the platform has pointers to
  written       \* the bytes of each buffer that have been stored

driverVars == <<ring, mode, current, retired, inFlight, phase, posted, collection>>
bufferVars == <<checkedOut, prefix, written>>
vars == <<driverVars, bufferVars, handle, mapped, pinned>>

Registrations == Regs \cup FileSets
SortOf(r) == IF r \in FileSets THEN "files" ELSE "buffers"
None      == [buffers |-> NoReg, files |-> NoReg]
Buffers   == (Regs \cup {Foreign}) \X Indices
Failed    == -1
Bytes     == 0 .. Extent - 1
Span(start, len) == start .. start + len - 1

\* A handle is with the application, in the payload of an operation that is
\* built, in the kernel or posted, or in the result slot of its future.
Place   == {"none", "app", "built", "kernel", "posted", "slot"}
Targets == {RawHandle, RegisteredHandle(0)}
NoEntry == ReadOp(RawHandle, RawData, 0)

HandleType ==
  [place : Place, buffer : Buffers, initialized : 0 .. Extent,
   entry : [code : {"READ", "WRITE"}, handle : Targets, len : 0 .. Extent,
            data : [kind : {"Raw", "Registered"}, index : Nat, offset : 0 .. Extent]],
   transferred : Failed .. Extent, orphan : BOOLEAN]

TypeOK ==
  /\ ring \in RingType
  /\ mode \in {"None", "Running", "ShuttingDown", "Closed"}
  /\ \A registration \in {current, mapped} :
       registration \in [buffers : Regs \cup {NoReg}, files : FileSets \cup {NoReg}]
  /\ retired \subseteq Registrations
  /\ inFlight \in BOOLEAN
  /\ phase \in [Registrations ->
                 {"new", "built", "kernel", "succeeded", "failed", "adopted", "returned"}]
  /\ posted \in Seq(Registrations)
  /\ collection \subseteq Regs \cup {Foreign}
  /\ checkedOut \in [Buffers -> BOOLEAN]
  /\ prefix \in [Buffers -> 0 .. Extent]
  /\ handle \in [Handles -> HandleType]
  /\ pinned \subseteq Registrations
  /\ written \in [Buffers -> SUBSET Bytes]

NoHandle ==
  [place |-> "none", buffer |-> CHOOSE b \in Buffers : b[1] = Foreign, initialized |-> 0,
   entry |-> NoEntry, transferred |-> 0, orphan |-> FALSE]

Init ==
  /\ ring = NoRing
  /\ mode = "None" /\ current = None /\ retired = {} /\ inFlight = FALSE
  /\ phase = [r \in Registrations |-> "new"] /\ posted = <<>>
  /\ collection = {Foreign}
  /\ checkedOut = [b \in Buffers |-> FALSE]
  /\ prefix = [b \in Buffers |-> 0]
  /\ handle = [h \in Handles |-> NoHandle]
  /\ mapped = None /\ pinned = {}
  /\ written = [b \in Buffers |-> {}]

Registered(h) == handle[h].entry.data.kind = "Registered"
Reading(h)    == handle[h].entry.code = "READ"
Queued        == Cardinality({r \in Registrations : phase[r] = "built"})
                   + Cardinality({h \in Handles : handle[h].place = "built"})

-----------------------------------------------------------------------------
(* The driver's beginning. *)

BuildRing ==
  /\ \E host \in Hosts, request \in Requests : Build(host, request)
  /\ UNCHANGED <<mode, current, retired, inFlight, phase, posted, collection, bufferVars,
                 handle, mapped, pinned>>

\* with_error_observer: the driver starts empty on a ring that took its event.
CreateDriver ==
  /\ mode = "None" /\ TakesCompletionEvent
  /\ mode' = "Running"
  /\ UNCHANGED <<ring, current, retired, inFlight, phase, posted, collection, bufferVars,
                 handle, mapped, pinned>>

\* There is no event, or the ring refuses it: the ring is closed, as nothing
\* else owns it.
CreateDriverFails ==
  /\ mode = "None" /\ EnsureOpen
  /\ CloseRing
  /\ UNCHANGED <<mode, current, retired, inFlight, phase, posted, collection, bufferVars,
                 handle, mapped, pinned>>

-----------------------------------------------------------------------------
(* Registering. *)

AnyCheckedOut(r) == \E b \in Buffers : b[1] = r /\ checkedOut[b]

\* What either registration asks of the driver and of its ring.
Acceptable(r, code) ==
  /\ phase[r] = "new"
  /\ Cardinality({q \in Registrations : phase[q] # "new"}) < MaxRegistrations
  /\ mode = "Running" /\ BuildRegistration(code, Queued)

\* Mutant: a request in flight does not keep a second one out.
RegisterTwice(r, watermark) ==
  /\ Acceptable(r, "REGISTER_BUFFERS")
  /\ ~AnyCheckedOut(current.buffers)
  /\ phase' = [phase EXCEPT ![r] = "built"]
  /\ inFlight' = TRUE
  /\ prefix' = [b \in Buffers |-> IF b[1] = r THEN watermark ELSE prefix[b]]
  /\ written' = [b \in Buffers |-> IF b[1] = r THEN Span(0, watermark) ELSE written[b]]
  /\ UNCHANGED <<ring, mode, current, retired, posted, collection, checkedOut, handle, mapped,
                 pinned>>

\* start_register_buffers, the caller's buffers initialized up to a watermark.
RegisterBuffers(r, watermark) ==
  /\ Acceptable(r, "REGISTER_BUFFERS")
  /\ ~inFlight
  /\ ~AnyCheckedOut(current.buffers)
  /\ phase' = [phase EXCEPT ![r] = "built"]
  /\ inFlight' = TRUE
  /\ prefix' = [b \in Buffers |-> IF b[1] = r THEN watermark ELSE prefix[b]]
  /\ written' = [b \in Buffers |-> IF b[1] = r THEN Span(0, watermark) ELSE written[b]]
  /\ UNCHANGED <<ring, mode, current, retired, posted, collection, checkedOut, handle, mapped,
                 pinned>>

\* start_register_files, which waits for no other registration.
RegisterFiles(r) ==
  /\ Acceptable(r, "REGISTER_FILES")
  /\ phase' = [phase EXCEPT ![r] = "built"]
  /\ UNCHANGED <<ring, mode, current, retired, inFlight, posted, collection, bufferVars, handle,
                 mapped, pinned>>

\* Mutant: the superseded registration is dropped.
AdoptAndDrop ==
  LET r == Head(posted)
  IN  /\ posted # <<>> /\ phase[r] = "succeeded"
      /\ posted' = Tail(posted)
      /\ phase' = [phase EXCEPT ![r] = "adopted"]
      /\ inFlight' = (inFlight /\ r \in FileSets)
      /\ current' = [current EXCEPT ![SortOf(r)] = r]
      /\ collection' = collection \cup ({r} \cap Regs)
      /\ UNCHANGED <<ring, mode, retired, bufferVars, handle, mapped, pinned>>

\* reap_completions and adopt_registration, in the order of the completions;
\* a collection of buffers goes to the caller.
AdoptRegistration ==
  LET r == Head(posted)
  IN  /\ posted # <<>> /\ phase[r] = "succeeded"
      /\ posted' = Tail(posted)
      /\ phase' = [phase EXCEPT ![r] = "adopted"]
      /\ inFlight' = (inFlight /\ r \in FileSets)
      /\ current' = [current EXCEPT ![SortOf(r)] = r]
      /\ retired' = retired \cup ({current[SortOf(r)]} \ {NoReg})
      /\ collection' = collection \cup ({r} \cap Regs)
      /\ UNCHANGED <<ring, mode, bufferVars, handle, mapped, pinned>>

\* reap_completions: the resources go back to the caller.
ReturnRegistration ==
  LET r == Head(posted)
  IN  /\ posted # <<>> /\ phase[r] = "failed"
      /\ posted' = Tail(posted)
      /\ phase' = [phase EXCEPT ![r] = "returned"]
      /\ inFlight' = (inFlight /\ r \in FileSets)
      /\ UNCHANGED <<ring, mode, current, retired, collection, bufferVars, handle, mapped, pinned>>

\* The application drops its last RegisteredBuffers, or the future that would
\* have brought it.
DropCollection(r) ==
  /\ r \in collection
  /\ collection' = collection \ {r}
  /\ UNCHANGED <<ring, mode, current, retired, inFlight, phase, posted, bufferVars, handle, mapped,
                 pinned>>

-----------------------------------------------------------------------------
(* Handles. *)

\* RegistryInner::claim.
Claim(h, b) ==
  /\ ~checkedOut[b]
  /\ checkedOut' = [checkedOut EXCEPT ![b] = TRUE]
  /\ handle' = [handle EXCEPT ![h] = [NoHandle EXCEPT !.place = "app", !.buffer = b,
                                                      !.initialized = prefix[b]]]

\* RegisteredBuffers::check_out: what the collection's own driver must say.
\* The other driver is taken to agree.
CheckOut(h, r, i) ==
  /\ handle[h].place = "none"
  /\ r \in collection
  /\ r # Foreign => mode = "Running" /\ ~inFlight /\ current.buffers = r
  /\ Claim(h, <<r, i>>)
  /\ UNCHANGED <<driverVars, prefix, mapped, pinned, written>>

\* Drop for RegisteredBuf.
Release(h) ==
  /\ checkedOut' = [checkedOut EXCEPT ![handle[h].buffer] = FALSE]
  /\ handle' = [handle EXCEPT ![h] = NoHandle]

DropHandle(h) ==
  /\ handle[h].place = "app"
  /\ Release(h)
  /\ UNCHANGED <<driverVars, prefix, mapped, pinned, written>>

\* RegisteredBuf::fill.
Fill(h, len) ==
  /\ handle[h].place = "app" /\ handle[h].buffer[1] # Foreign
  /\ handle' = [handle EXCEPT ![h].initialized = len]
  /\ prefix' = [prefix EXCEPT ![handle[h].buffer] = len]
  /\ written' = [written EXCEPT ![handle[h].buffer] = @ \cup Span(0, len)]
  /\ UNCHANGED <<driverVars, checkedOut, mapped, pinned>>

-----------------------------------------------------------------------------
(* Operations. *)

\* Mutant: a write is checked like a read.
WithinExtent(h, code, data, len) ==
  IF data.kind = "Registered" \/ code = "READ" THEN data.offset + len <= Extent
                                              ELSE len <= handle[h].initialized

\* check_registered_buffer, and the capacity and length checks of the calls
\* that take the handle as an ordinary buffer.
Within(h, code, data, len) ==
  IF code = "READ" THEN data.offset + len <= Extent
  ELSE IF data.kind = "Registered" THEN data.offset + len <= prefix[handle[h].buffer]
                                   ELSE len <= handle[h].initialized

CheckRegisteredFile == current.files # NoReg

StartOp(h, entry) ==
  /\ handle[h].place = "app"
  /\ mode = "Running"
  /\ EnsureOpSupported(entry.code) /\ BuildEntry(Queued)
  /\ Within(h, entry.code, entry.data, entry.len)
  /\ handle' = [handle EXCEPT ![h].place = "built", ![h].entry = entry]
  /\ UNCHANGED <<driverVars, bufferVars, mapped, pinned>>

\* The entry a handle asks for: its buffer is named by an index or given as
\* an ordinary one.
Entry(code, file, data, len) ==
  IF code = "READ" THEN ReadOp(file, data, len) ELSE WriteOp(file, data, len)

\* try_registered_op, on a file the caller has or on a registered one.
RegisteredOp(h, code, file, start, len) ==
  /\ current.buffers = handle[h].buffer[1]
  /\ file = RegisteredHandle(0) => CheckRegisteredFile
  /\ StartOp(h, Entry(code, file, RegisteredData(handle[h].buffer[2], start), len))

\* try_read and try_write with a handle as the buffer.
PlainOp(h, code, len) ==
  /\ handle[h].buffer[1] # Foreign
  /\ StartOp(h, Entry(code, RawHandle, RawData, len))

\* Mutant: the mark is raised over the gap in front of the transfer.
RaisedOverGap(h) ==
  LET end == handle[h].entry.data.offset + handle[h].transferred
  IN  IF end > prefix[handle[h].buffer] THEN end ELSE prefix[handle[h].buffer]

\* raise_initialized; the request is within the extent.
Raised(h) ==
  LET start == handle[h].entry.data.offset
      end   == start + handle[h].transferred
      old   == prefix[handle[h].buffer]
  IN  IF start <= old /\ end > old THEN end ELSE old

\* reap_completions: the prefix is raised, the handle's copy refreshed, and
\* the handle given to the future, or dropped where there is none.
Reap(h) ==
  /\ handle[h].place = "posted"
  /\ prefix' = IF Registered(h) /\ handle[h].transferred # Failed
                 THEN [prefix EXCEPT ![handle[h].buffer] = Raised(h)]
                 ELSE prefix
  /\ IF handle[h].orphan THEN Release(h)
     ELSE /\ handle' = [handle EXCEPT ![h].place = "slot",
                                      ![h].initialized = prefix'[handle[h].buffer]]
          /\ UNCHANGED checkedOut
  /\ UNCHANGED <<driverVars, mapped, pinned, written>>

\* RegisteredOpFuture::poll gives the handle back as it was refreshed.
PollRegistered(h) ==
  /\ handle[h].place = "slot" /\ Registered(h)
  /\ handle' = [handle EXCEPT ![h] = [NoHandle EXCEPT !.place = "app", !.buffer = handle[h].buffer,
                                                      !.initialized = handle[h].initialized]]
  /\ UNCHANGED <<driverVars, bufferVars, mapped, pinned>>

\* set_buf_init, called with what a plain read transferred, sets the prefix,
\* up or down.
BufInit(h) ==
  IF Reading(h) /\ handle[h].transferred # Failed THEN handle[h].transferred
                                                  ELSE handle[h].initialized

\* ReadFuture::poll and WriteFuture::poll.
PollPlain(h) ==
  /\ handle[h].place = "slot" /\ ~Registered(h)
  /\ handle' = [handle EXCEPT ![h] = [NoHandle EXCEPT !.place = "app", !.buffer = handle[h].buffer,
                                                      !.initialized = BufInit(h)]]
  /\ prefix' = [prefix EXCEPT ![handle[h].buffer] = BufInit(h)]
  /\ UNCHANGED <<driverVars, checkedOut, mapped, pinned, written>>

\* Mutant: the buffer returns to its collection with the future.
DropFutureReleases(h) ==
  /\ handle[h].place \in {"built", "kernel", "posted", "slot"} /\ ~handle[h].orphan
  /\ checkedOut' = [checkedOut EXCEPT ![handle[h].buffer] = FALSE]
  /\ handle' = [handle EXCEPT ![h] =
                  IF @.place = "slot" THEN NoHandle ELSE [@ EXCEPT !.orphan = TRUE]]
  /\ UNCHANGED <<driverVars, prefix, mapped, pinned, written>>

\* The future is dropped: a handle in its result slot goes with it, one in
\* the payload stays until the operation is reaped.
DropFuture(h) ==
  /\ handle[h].place \in {"built", "kernel", "posted", "slot"} /\ ~handle[h].orphan
  /\ IF handle[h].place = "slot" THEN Release(h)
     ELSE /\ handle' = [handle EXCEPT ![h].orphan = TRUE]
          /\ UNCHANGED checkedOut
  /\ UNCHANGED <<driverVars, prefix, mapped, pinned, written>>

-----------------------------------------------------------------------------
(* The driver's end. *)

Shutdown ==
  /\ mode = "Running"
  /\ mode' = "ShuttingDown"
  /\ UNCHANGED <<ring, current, retired, inFlight, phase, posted, collection, bufferVars, handle,
                 mapped, pinned>>

\* close_and_release, once the kernel has nothing: entries it never took are
\* answered, and their handles and buffers given back or dropped.
Close ==
  /\ mode = "ShuttingDown"
  /\ \A h \in Handles : handle[h].place \notin {"kernel", "posted"}
  /\ \A r \in Registrations : phase[r] # "kernel"
  /\ posted = <<>>
  /\ CloseRing
  /\ mode' = "Closed"
  /\ current' = None /\ retired' = {} /\ inFlight' = FALSE
  /\ phase' = [r \in Registrations |-> IF phase[r] = "built" THEN "returned" ELSE phase[r]]
  /\ checkedOut' = [b \in Buffers |->
       checkedOut[b] /\ ~\E h \in Handles : /\ handle[h].place = "built" /\ handle[h].orphan
                                            /\ handle[h].buffer = b]
  /\ handle' = [h \in Handles |->
       IF handle[h].place # "built" THEN handle[h]
       ELSE IF handle[h].orphan THEN NoHandle
       ELSE [handle[h] EXCEPT !.place = "slot", !.transferred = Failed]]
  /\ mapped' = None /\ pinned' = {}
  /\ UNCHANGED <<posted, collection, prefix, written>>

-----------------------------------------------------------------------------
(* The platform: entries are taken together and executed in any order. *)

Submit ==
  /\ EnsureOpen /\ Queued > 0
  /\ phase' = [r \in Registrations |-> IF phase[r] = "built" THEN "kernel" ELSE phase[r]]
  /\ handle' = [h \in Handles |->
       IF handle[h].place = "built" THEN [handle[h] EXCEPT !.place = "kernel"] ELSE handle[h]]
  /\ UNCHANGED <<ring, mode, current, retired, inFlight, posted, collection, bufferVars, mapped,
                 pinned>>

KernelRegisters(r) ==
  /\ phase[r] = "kernel"
  /\ phase' = [phase EXCEPT ![r] = "succeeded"]
  /\ posted' = Append(posted, r)
  /\ mapped' = [mapped EXCEPT ![SortOf(r)] = r]
  /\ pinned' = pinned \cup {r}
  /\ UNCHANGED <<ring, mode, current, retired, inFlight, collection, bufferVars, handle>>

KernelRefuses(r) ==
  /\ phase[r] = "kernel"
  /\ phase' = [phase EXCEPT ![r] = "failed"]
  /\ posted' = Append(posted, r)
  /\ UNCHANGED <<ring, mode, current, retired, inFlight, collection, bufferVars, handle, mapped,
                 pinned>>

\* An index goes where the mapped registration says, an address to its buffer.
Target(h) == IF Registered(h) THEN <<mapped.buffers, handle[h].buffer[2]>> ELSE handle[h].buffer

KernelTransfers(h, transferred) ==
  /\ handle[h].place = "kernel"
  /\ transferred <= handle[h].entry.len
  /\ handle' = [handle EXCEPT ![h].place = "posted", ![h].transferred = transferred]
  /\ written' = IF Reading(h) /\ Target(h) \in Buffers
                  THEN [written EXCEPT ![Target(h)] = @ \cup Span(handle[h].entry.data.offset, transferred)]
                  ELSE written
  /\ UNCHANGED <<driverVars, checkedOut, prefix, mapped, pinned>>

-----------------------------------------------------------------------------
RegistrationStep ==
  \/ AdoptRegistration \/ ReturnRegistration
  \/ \E r \in Regs : \/ \E watermark \in 0 .. Extent : RegisterBuffers(r, watermark)
                     \/ DropCollection(r)
  \/ \E r \in FileSets : RegisterFiles(r)
  \/ \E r \in Registrations : KernelRegisters(r) \/ KernelRefuses(r)

HandleStep ==
  \E h \in Handles :
    \/ \E b \in Buffers : CheckOut(h, b[1], b[2])
    \/ DropHandle(h) \/ DropFuture(h) \/ Reap(h) \/ PollRegistered(h) \/ PollPlain(h)
    \/ \E len \in 0 .. Extent : Fill(h, len)
    \/ \E code \in {"READ", "WRITE"}, len \in 0 .. Extent :
         \/ PlainOp(h, code, len)
         \/ \E file \in Targets, start \in 0 .. Extent : RegisteredOp(h, code, file, start, len)
    \/ \E transferred \in Failed .. Extent : KernelTransfers(h, transferred)

DriverStep == BuildRing \/ CreateDriver \/ CreateDriverFails \/ Submit \/ Shutdown \/ Close

Next == RegistrationStep \/ HandleStep \/ DriverStep

Spec == Init /\ [][Next]_vars

-----------------------------------------------------------------------------
(* Correctness. *)

\* INV-REG-NO-STALE-HANDLE and INV-REG-DRIVER-BOUND: until an operation that
\* names a buffer by index has been executed, the platform resolves indices
\* against the very registration the buffer belongs to, and a file's against
\* some set; and the driver's view of both is the platform's as soon as it
\* has reaped what was answered.
ResolvesOwnRegistration ==
  /\ \A h \in Handles :
       handle[h].place \in {"built", "kernel"} /\ Registered(h) =>
         /\ mapped.buffers = handle[h].buffer[1]
         /\ handle[h].entry.handle = RegisteredHandle(0) => mapped.files # NoReg
  /\ posted = <<>> => current = mapped

\* INV-REG-ONE-HANDLE: two handles never share a buffer, counting the ones
\* that operations carry after their futures were dropped.
OneHandle ==
  \A g, h \in Handles :
    g # h /\ handle[g].place # "none" /\ handle[h].place # "none"
      => handle[g].buffer # handle[h].buffer

\* INV-REG-LIVES-LONGEST: the driver keeps every registration the platform
\* has pointers to, superseded ones included, until the ring is closed.
PinnedIsKept ==
  pinned \subseteq {current.buffers, current.files} \cup retired
                    \cup {r \in Registrations : phase[r] = "succeeded"}

\* Neither a registration nor a handle vouches for a byte that was never
\* stored, and a handle the application holds agrees with its registration.
PrefixHonest ==
  /\ \A b \in Buffers : Span(0, prefix[b]) \subseteq written[b]
  /\ \A h \in Handles :
       handle[h].place = "app" => handle[h].initialized = prefix[handle[h].buffer]

\* The kernel is never told to write out bytes that were never stored.
WritesInitialized ==
  \A h \in Handles :
    handle[h].place \in {"built", "kernel"} /\ ~Reading(h)
      => Span(handle[h].entry.data.offset, handle[h].entry.len) \subseteq written[handle[h].buffer]
=============================================================================
