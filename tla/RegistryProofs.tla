---------------------------- MODULE RegistryProofs ----------------------------
(***************************************************************************)
(* Registered buffers and files are safe for every number of registrations *)
(* and handles and every extent: an index is resolved against the          *)
(* registration its buffer belongs to, no buffer has two handles, what the *)
(* platform points to is kept, and no byte is vouched for or written out   *)
(* that was never stored.                                                  *)
(***************************************************************************)
EXTENDS Registry, TLAPS

Sorts == {"buffers", "files"}

\* A registration asked for whose completion has not been reaped.
Underway == {"built", "kernel", "succeeded", "failed"}

\* The completion queue has each answered registration once.
PostedExact ==
  /\ \A n \in 1 .. Len(posted) : phase[posted[n]] \in {"succeeded", "failed"}
  /\ \A m, n \in 1 .. Len(posted) : posted[m] = posted[n] => m = n
  /\ \A r \in Registrations : phase[r] \in {"succeeded", "failed"} =>
       \E n \in 1 .. Len(posted) : posted[n] = r

Answered(n, sort) == phase[posted[n]] = "succeeded" /\ SortOf(posted[n]) = sort

\* The platform is ahead of the driver by exactly what is in the queue.
MappedExact ==
  \A sort \in Sorts :
    \/ /\ \A n \in 1 .. Len(posted) : ~Answered(n, sort)
       /\ mapped[sort] = current[sort]
    \/ \E n \in 1 .. Len(posted) :
         /\ Answered(n, sort) /\ mapped[sort] = posted[n]
         /\ \A m \in n + 1 .. Len(posted) : ~Answered(m, sort)

\* One registration of buffers at a time, and none while a buffer of the
\* current one is checked out.
OneRegistration ==
  /\ \A r \in Regs : phase[r] \in Underway => inFlight = TRUE
  /\ \A q, r \in Regs : phase[q] \in Underway /\ phase[r] \in Underway => q = r
  /\ inFlight = TRUE => ~AnyCheckedOut(current.buffers)

\* A handle that exists has its buffer to itself, and agrees with it.
HandleOwns(h) ==
  handle[h].place # "none" =>
    /\ checkedOut[handle[h].buffer] = TRUE
    /\ handle[h].initialized = prefix[handle[h].buffer]
    /\ handle[h].buffer[1] \in Regs => phase[handle[h].buffer[1]] = "adopted"

Owned ==
  /\ \A h \in Handles : HandleOwns(h)
  /\ \A r \in collection : r \in Regs => phase[r] = "adopted"

\* An operation the platform may still execute names its buffer rightly and
\* stays inside it; one it has executed reports bytes that were stored.
HandleSafe(h) ==
  LET entry == handle[h].entry
  IN /\ entry.data.kind = "Raw" => entry.data.offset = 0
     /\ handle[h].place \in {"built", "kernel"} =>
          /\ entry.data.offset + entry.len <= Extent
          /\ entry.data.kind = "Registered" =>
               /\ mapped.buffers = handle[h].buffer[1]
               /\ entry.handle = RegisteredHandle(0) => mapped.files # NoReg
          /\ entry.code = "WRITE" =>
               Span(entry.data.offset, entry.len) \subseteq written[handle[h].buffer]
     /\ handle[h].place \in {"posted", "slot"} /\ handle[h].transferred # Failed =>
          /\ entry.data.offset + handle[h].transferred <= Extent
          /\ Span(entry.data.offset, handle[h].transferred) \subseteq written[handle[h].buffer]

Stored ==
  /\ \A b \in Buffers : Span(0, prefix[b]) \subseteq written[b]
  /\ \A h \in Handles : HandleSafe(h)

IInv ==
  /\ TypeOK /\ PostedExact /\ MappedExact /\ OneRegistration
  /\ OneHandle /\ Owned /\ PinnedIsKept /\ Stored

-----------------------------------------------------------------------------
(* Handles. *)

\* What a handle's fields range over.
LEMMA HandleFields ==
  ASSUME NEW v \in HandleType
  PROVE  /\ v.place \in Place /\ v.buffer \in Buffers /\ v.initialized \in 0 .. Extent
         /\ v.entry.code \in {"READ", "WRITE"} /\ v.entry.handle \in Targets
         /\ v.entry.len \in 0 .. Extent /\ v.entry.data.kind \in {"Raw", "Registered"}
         /\ v.entry.data.index \in Nat /\ v.entry.data.offset \in 0 .. Extent
         /\ v.transferred \in Failed .. Extent /\ v.orphan \in BOOLEAN
BY DEF HandleType

\* A buffer is named by its registration and its index.
LEMMA BufferFields ==
  ASSUME NEW b \in Buffers
  PROVE  b[1] \in Regs \cup {Foreign} /\ b[2] \in Indices /\ b = <<b[1], b[2]>>
BY DEF Buffers

\* A handle nobody has.
LEMMA NoHandleType ==
  /\ NoHandle \in HandleType /\ NoHandle.place = "none" /\ NoHandle.orphan = FALSE
  /\ NoHandle.entry = NoEntry /\ NoHandle.entry.data.kind = "Raw"
  /\ NoHandle.entry.data.offset = 0 /\ NoHandle.transferred = 0
<1> DEFINE c == CHOOSE b \in Buffers : b[1] = Foreign
<1>1. c \in Buffers
  <2>1. PICK i \in Indices : TRUE
    BY RegistryAssumption
  <2>2. <<Foreign, i>> \in Buffers /\ <<Foreign, i>>[1] = Foreign
    BY DEF Buffers
  <2> QED
    BY <2>2
<1>2. NoHandle = [place |-> "none", buffer |-> c, initialized |-> 0, entry |-> NoEntry,
                  transferred |-> 0, orphan |-> FALSE]
  BY DEF NoHandle
<1> HIDE DEF c
<1>3. NoEntry = [code |-> "READ", handle |-> RawHandle,
                 data |-> [kind |-> "Raw", index |-> 0, offset |-> 0], len |-> 0]
  BY DEF NoEntry, ReadOp, RawData
<1>4. NoEntry \in [code : {"READ", "WRITE"}, handle : Targets, len : 0 .. Extent,
                   data : [kind : {"Raw", "Registered"}, index : Nat, offset : 0 .. Extent]]
  BY <1>3, RegistryAssumption DEF Targets
<1>5. NoHandle \in HandleType
  BY <1>1, <1>2, <1>4, RegistryAssumption DEF HandleType, Place, Failed
<1> QED
  BY <1>2, <1>3, <1>5

\* A handle the application holds: no operation carries it.
Held(b, initialized) ==
  [NoHandle EXCEPT !.place = "app", !.buffer = b, !.initialized = initialized]

\* The fields of such a handle.
LEMMA HeldFields ==
  ASSUME NEW b \in Buffers, NEW n \in 0 .. Extent
  PROVE  LET v == Held(b, n)
         IN /\ v \in HandleType /\ v.place = "app" /\ v.buffer = b /\ v.initialized = n
            /\ v.entry.data.kind = "Raw" /\ v.entry.data.offset = 0
BY NoHandleType DEF Held, HandleType, Place

\* A step of one handle keeps the invariant if it touches at most the buffer
\* the handle has or takes, and leaves the handle in agreement with it.
LEMMA HandleStepIInv ==
  ASSUME IInv, NEW h \in Handles, NEW v \in HandleType, NEW b \in Buffers,
         handle' = [handle EXCEPT ![h] = v],
         UNCHANGED <<driverVars, mapped, pinned>>,
         checkedOut' \in [Buffers -> BOOLEAN], prefix' \in [Buffers -> 0 .. Extent],
         written' \in [Buffers -> SUBSET Bytes],
         \A c \in Buffers \ {b} : checkedOut'[c] = checkedOut[c] /\ prefix'[c] = prefix[c],
         \A c \in Buffers : written[c] \subseteq written'[c],
         \/ handle[h].place # "none" /\ b = handle[h].buffer
         \/ handle[h].place = "none" /\ checkedOut[b] = FALSE,
         v.place # "none" => v.buffer = b,
         checkedOut'[b] = TRUE =>
           checkedOut[b] = TRUE \/ b[1] # current.buffers \/ inFlight = FALSE,
         Span(0, prefix'[b]) \subseteq written'[b],
         HandleOwns(h)', HandleSafe(h)'
  PROVE  IInv'
<1> USE DEF IInv
<1>1. /\ ring' = ring /\ mode' = mode /\ current' = current /\ retired' = retired
      /\ inFlight' = inFlight /\ phase' = phase /\ posted' = posted
      /\ collection' = collection /\ mapped' = mapped /\ pinned' = pinned
  BY DEF driverVars
<1>2. handle'[h] = v /\ \A g \in Handles \ {h} : handle'[g] = handle[g]
  BY DEF TypeOK
<1>3. TypeOK'
  BY <1>1 DEF TypeOK
<1>4. PostedExact' /\ MappedExact' /\ PinnedIsKept'
  BY <1>1 DEF PostedExact, MappedExact, PinnedIsKept, Answered
<1>5. OneRegistration'
  BY <1>1 DEF OneRegistration, AnyCheckedOut, TypeOK
<1>6. \A g \in Handles \ {h} : handle[g].place # "none" => handle[g].buffer # b
  BY DEF Owned, HandleOwns, OneHandle
<1>7. OneHandle'
  BY <1>2, <1>6 DEF OneHandle
<1>8. \A g \in Handles \ {h} : handle[g].buffer \in Buffers
  BY HandleFields DEF TypeOK
<1>9. ASSUME NEW g \in Handles PROVE HandleOwns(g)' /\ HandleSafe(g)'
  <2>1. CASE g # h
    <3>1. HandleOwns(g) /\ HandleSafe(g)
      BY DEF Owned, Stored
    <3>2. HandleOwns(g)'
      BY <1>1, <1>2, <1>6, <1>8, <2>1, <3>1 DEF HandleOwns
    <3>3. HandleSafe(g)'
      BY <1>1, <1>2, <1>8, <2>1, <3>1 DEF HandleSafe
    <3> QED
      BY <3>2, <3>3
  <2> QED
    BY <2>1
<1>10. Owned'
  BY <1>1, <1>9 DEF Owned
<1>11. Stored'
  BY <1>9 DEF Stored
<1> QED
  BY <1>3, <1>4, <1>5, <1>7, <1>10, <1>11

\* check_out keeps the invariant.
LEMMA CheckOutIInv ==
  ASSUME IInv, NEW h \in Handles, NEW b \in Buffers, CheckOut(h, b[1], b[2])
  PROVE  IInv'
<1> DEFINE v == Held(b, prefix[b])
<1>0. b = <<b[1], b[2]>> /\ b[1] \in Regs \cup {Foreign}
  BY BufferFields
<1>1. /\ handle[h].place = "none" /\ b[1] \in collection
      /\ b[1] # Foreign => inFlight = FALSE
      /\ checkedOut[b] = FALSE
      /\ checkedOut' = [checkedOut EXCEPT ![b] = TRUE]
      /\ handle' = [handle EXCEPT ![h] = v]
      /\ UNCHANGED <<driverVars, prefix, mapped, pinned, written>>
  BY <1>0 DEF CheckOut, Claim, Held, IInv, TypeOK
<1>2. /\ v \in HandleType /\ v.place = "app" /\ v.buffer = b /\ v.initialized = prefix[b]
      /\ v.entry.data.kind = "Raw" /\ v.entry.data.offset = 0
  BY HeldFields DEF IInv, TypeOK
<1> HIDE DEF v
<1>3. handle'[h] = v /\ checkedOut'[b] = TRUE /\ phase' = phase
  BY <1>1 DEF IInv, TypeOK, driverVars
<1>4. HandleOwns(h)'
  BY <1>1, <1>2, <1>3 DEF HandleOwns, IInv, Owned
<1>5. HandleSafe(h)'
  BY <1>2, <1>3 DEF HandleSafe
<1>6. b[1] # current.buffers \/ inFlight = FALSE
  BY <1>1, RegistryAssumption DEF IInv, TypeOK
<1>7. /\ checkedOut' \in [Buffers -> BOOLEAN]
      /\ \A c \in Buffers \ {b} : checkedOut'[c] = checkedOut[c]
      /\ prefix' = prefix /\ written' = written
      /\ prefix \in [Buffers -> 0 .. Extent] /\ written \in [Buffers -> SUBSET Bytes]
      /\ Span(0, prefix[b]) \subseteq written[b]
  BY <1>1 DEF IInv, TypeOK, Stored
<1> QED
  BY <1>1, <1>2, <1>4, <1>5, <1>6, <1>7, HandleStepIInv

\* A handle that is dropped gives its buffer back; nobody has it then.
LEMMA ReleaseIInv ==
  ASSUME IInv, NEW h \in Handles, handle[h].place # "none", Release(h),
         UNCHANGED <<driverVars, mapped, pinned, written>>,
         prefix' \in [Buffers -> 0 .. Extent],
         \A c \in Buffers \ {handle[h].buffer} : prefix'[c] = prefix[c],
         Span(0, prefix'[handle[h].buffer]) \subseteq written[handle[h].buffer]
  PROVE  IInv'
<1> DEFINE b == handle[h].buffer
<1>1. b \in Buffers
  BY HandleFields DEF IInv, TypeOK
<1>2. handle' = [handle EXCEPT ![h] = NoHandle] /\ checkedOut' = [checkedOut EXCEPT ![b] = FALSE]
  BY DEF Release
<1> HIDE DEF b
<1>3. handle'[h] = NoHandle /\ checkedOut'[b] = FALSE
  BY <1>1, <1>2 DEF IInv, TypeOK
<1>4. HandleOwns(h)' /\ HandleSafe(h)'
  BY <1>3, NoHandleType DEF HandleOwns, HandleSafe
<1>5. /\ checkedOut' \in [Buffers -> BOOLEAN]
      /\ \A c \in Buffers \ {b} : checkedOut'[c] = checkedOut[c]
      /\ written' = written /\ written \in [Buffers -> SUBSET Bytes]
  BY <1>1, <1>2 DEF IInv, TypeOK
<1> QED
  BY <1>1, <1>2, <1>3, <1>4, <1>5, NoHandleType, HandleStepIInv DEF b

\* Dropping a handle keeps the invariant.
LEMMA DropHandleIInv ==
  ASSUME IInv, NEW h \in Handles, DropHandle(h)
  PROVE  IInv'
<1>1. handle[h].buffer \in Buffers
  BY HandleFields DEF IInv, TypeOK
<1> QED
  BY <1>1, ReleaseIInv DEF DropHandle, IInv, TypeOK, Stored

\* fill stores what it vouches for.
LEMMA FillIInv ==
  ASSUME IInv, NEW h \in Handles, NEW len \in 0 .. Extent, Fill(h, len)
  PROVE  IInv'
<1> DEFINE b == handle[h].buffer
           v == [handle[h] EXCEPT !.initialized = len]
<1>1. b \in Buffers /\ handle[h] \in HandleType /\ HandleOwns(h) /\ HandleSafe(h)
  BY HandleFields DEF IInv, TypeOK, Owned, Stored
<1>2. /\ handle[h].place = "app" /\ handle' = [handle EXCEPT ![h] = v]
      /\ prefix' = [prefix EXCEPT ![b] = len]
      /\ written' = [written EXCEPT ![b] = written[b] \cup Span(0, len)]
      /\ UNCHANGED <<driverVars, checkedOut, mapped, pinned>>
  BY DEF Fill
<1>3. /\ v \in HandleType /\ v.place = "app" /\ v.buffer = b /\ v.initialized = len
      /\ v.entry = handle[h].entry
  BY <1>1, <1>2 DEF HandleType
<1> HIDE DEF b, v
<1>4. /\ handle'[h] = v /\ prefix'[b] = len
      /\ written'[b] = written[b] \cup Span(0, len) /\ phase' = phase
      /\ checkedOut' = checkedOut
  BY <1>1, <1>2 DEF IInv, TypeOK, driverVars
<1>5. HandleOwns(h)'
  BY <1>1, <1>2, <1>3, <1>4 DEF HandleOwns, b
<1>6. HandleSafe(h)'
  BY <1>1, <1>3, <1>4 DEF HandleSafe
<1>7. Span(0, len) \in SUBSET Bytes
  BY RegistryAssumption DEF Span, Bytes
<1>8. /\ checkedOut' \in [Buffers -> BOOLEAN] /\ prefix' \in [Buffers -> 0 .. Extent]
      /\ written' \in [Buffers -> SUBSET Bytes]
      /\ \A c \in Buffers \ {b} : checkedOut'[c] = checkedOut[c] /\ prefix'[c] = prefix[c]
      /\ \A c \in Buffers : written[c] \subseteq written'[c]
  BY <1>1, <1>2, <1>7 DEF IInv, TypeOK
<1>9. handle[h].place # "none" /\ b = handle[h].buffer
  BY <1>2 DEF b
<1> QED
  BY <1>1, <1>2, <1>3, <1>4, <1>5, <1>6, <1>8, <1>9, HandleStepIInv

\* A step of a handle that leaves every buffer as it is.
LEMMA QuietHandleIInv ==
  ASSUME IInv, NEW h \in Handles, NEW v \in HandleType,
         handle[h].place # "none", v.place # "none",
         v.buffer = handle[h].buffer, v.initialized = handle[h].initialized,
         handle' = [handle EXCEPT ![h] = v],
         UNCHANGED <<driverVars, bufferVars, mapped, pinned>>,
         HandleSafe(h)'
  PROVE  IInv'
<1> DEFINE b == handle[h].buffer
<1>1. b \in Buffers /\ HandleOwns(h)
  BY HandleFields DEF IInv, TypeOK, Owned
<1>2. checkedOut' = checkedOut /\ prefix' = prefix /\ written' = written /\ phase' = phase
  BY DEF bufferVars, driverVars
<1>3. handle'[h] = v
  BY DEF IInv, TypeOK
<1>4. HandleOwns(h)'
  BY <1>1, <1>2, <1>3 DEF HandleOwns
<1>5. /\ checkedOut \in [Buffers -> BOOLEAN] /\ prefix \in [Buffers -> 0 .. Extent]
      /\ written \in [Buffers -> SUBSET Bytes] /\ Span(0, prefix[b]) \subseteq written[b]
  BY <1>1 DEF IInv, TypeOK, Stored
<1>6. b = handle[h].buffer
  OBVIOUS
<1> HIDE DEF b
<1> QED
  BY <1>1, <1>2, <1>4, <1>5, <1>6, HandleStepIInv

\* An entry a caller may ask for.
LEMMA EntryFields ==
  ASSUME NEW code \in {"READ", "WRITE"}, NEW file \in Targets, NEW len \in 0 .. Extent,
         NEW data \in [kind : {"Raw", "Registered"}, index : Nat, offset : 0 .. Extent]
  PROVE  LET e == Entry(code, file, data, len)
         IN /\ e.code = code /\ e.handle = file /\ e.data = data /\ e.len = len
            /\ e \in [code : {"READ", "WRITE"}, handle : Targets, len : 0 .. Extent,
                      data : [kind : {"Raw", "Registered"}, index : Nat, offset : 0 .. Extent]]
BY DEF Entry, ReadOp, WriteOp

\* Starting an operation keeps the invariant, if its entry names the buffer
\* through the registration the platform has.
LEMMA StartOpIInv ==
  ASSUME IInv, NEW h \in Handles, NEW entry, StartOp(h, entry),
         entry \in [code : {"READ", "WRITE"}, handle : Targets, len : 0 .. Extent,
                    data : [kind : {"Raw", "Registered"}, index : Nat, offset : 0 .. Extent]],
         entry.data.kind = "Raw" => entry.data.offset = 0,
         entry.data.kind = "Registered" =>
           /\ mapped.buffers = handle[h].buffer[1]
           /\ entry.handle = RegisteredHandle(0) => mapped.files # NoReg
  PROVE  IInv'
<1> DEFINE b == handle[h].buffer
           v == [handle[h] EXCEPT !.place = "built", !.entry = entry]
<1>1. b \in Buffers /\ handle[h] \in HandleType /\ HandleOwns(h)
  BY HandleFields DEF IInv, TypeOK, Owned
<1>2. /\ handle[h].place = "app" /\ Within(h, entry.code, entry.data, entry.len)
      /\ handle' = [handle EXCEPT ![h] = v]
      /\ UNCHANGED <<driverVars, bufferVars, mapped, pinned>>
  BY DEF StartOp, IInv, TypeOK
<1>3. /\ v \in HandleType /\ v.place = "built" /\ v.buffer = b
      /\ v.initialized = handle[h].initialized /\ v.entry = entry
  BY <1>1 DEF HandleType, Place
<1> HIDE DEF v
<1>4. handle'[h] = v /\ written' = written /\ mapped' = mapped
  BY <1>2 DEF IInv, TypeOK, bufferVars
<1>5. /\ entry.data.offset \in 0 .. Extent /\ entry.len \in 0 .. Extent
      /\ entry.code \in {"READ", "WRITE"} /\ entry.data.kind \in {"Raw", "Registered"}
  OBVIOUS
<1>6. prefix[b] \in 0 .. Extent /\ handle[h].initialized = prefix[b]
  BY <1>1, <1>2 DEF IInv, TypeOK, HandleOwns
<1>7. /\ entry.code = "READ" => entry.data.offset + entry.len <= Extent
      /\ entry.code = "WRITE" => entry.data.offset + entry.len <= prefix[b]
  <2>1. CASE entry.code = "READ"
    BY <1>2, <2>1 DEF Within
  <2>2. CASE entry.code = "WRITE" /\ entry.data.kind = "Registered"
    BY <1>2, <2>2 DEF Within
  <2>3. CASE entry.code = "WRITE" /\ entry.data.kind = "Raw"
    <3>1. entry.len <= prefix[b]
      BY <1>2, <1>6, <2>3 DEF Within
    <3> QED
      BY <1>5, <2>3, <3>1
  <2> QED
    BY <1>5, <2>1, <2>2, <2>3
<1>8. entry.code = "WRITE" => Span(entry.data.offset, entry.len) \subseteq written[b]
  <2>1. Span(0, prefix[b]) \subseteq written[b]
    BY <1>1 DEF IInv, Stored
  <2>2. entry.code = "WRITE" => Span(entry.data.offset, entry.len) \subseteq Span(0, prefix[b])
    BY <1>5, <1>6, <1>7, RegistryAssumption DEF Span
  <2> QED
    BY <2>1, <2>2
<1>9. entry.data.offset + entry.len <= Extent
  BY <1>5, <1>6, <1>7, RegistryAssumption
<1>10. HandleSafe(h)'
  BY <1>3, <1>4, <1>8, <1>9 DEF HandleSafe
<1> QED
  BY <1>2, <1>3, <1>10, QuietHandleIInv

\* While the platform is not ahead of the driver in buffers, it resolves their
\* indices as the driver does; a handle of the current registration says so.
LEMMA HandleMapped ==
  ASSUME IInv, NEW h \in Handles, handle[h].place # "none",
         handle[h].buffer[1] = current.buffers
  PROVE  mapped.buffers = current.buffers
<1>1. handle[h].buffer \in Buffers /\ checkedOut[handle[h].buffer] = TRUE
  BY HandleFields DEF IInv, TypeOK, Owned, HandleOwns
<1>2. inFlight = FALSE
  BY <1>1 DEF IInv, TypeOK, OneRegistration, AnyCheckedOut
<1>3. ASSUME NEW n \in 1 .. Len(posted) PROVE ~Answered(n, "buffers")
  <2>1. posted[n] \in Registrations
    BY DEF IInv, TypeOK
  <2>2. CASE posted[n] \in Regs
    BY <1>2, <2>2 DEF IInv, OneRegistration, Answered, Underway
  <2>3. CASE posted[n] \in FileSets
    BY <2>3 DEF Answered, SortOf
  <2> QED
    BY <2>1, <2>2, <2>3 DEF Registrations
<1> QED
  BY <1>3 DEF IInv, MappedExact, Sorts

\* A file set the driver has adopted is one the platform has.
LEMMA FilesMapped ==
  ASSUME IInv, current.files # NoReg
  PROVE  mapped.files # NoReg
<1>1. \A n \in 1 .. Len(posted) : posted[n] \in Registrations /\ posted[n] # NoReg
  BY RegistryAssumption DEF IInv, TypeOK, Registrations
<1> QED
  BY <1>1 DEF IInv, MappedExact, Sorts

\* An operation on a registered buffer keeps the invariant.
LEMMA RegisteredOpIInv ==
  ASSUME IInv, NEW h \in Handles, NEW code \in {"READ", "WRITE"}, NEW file \in Targets,
         NEW start \in 0 .. Extent, NEW len \in 0 .. Extent,
         RegisteredOp(h, code, file, start, len)
  PROVE  IInv'
<1> DEFINE data == RegisteredData(handle[h].buffer[2], start)
<1>1. handle[h].buffer[2] \in Nat
  BY HandleFields, BufferFields, RegistryAssumption DEF IInv, TypeOK
<1>2. /\ data \in [kind : {"Raw", "Registered"}, index : Nat, offset : 0 .. Extent]
      /\ data.kind = "Registered"
  BY <1>1 DEF RegisteredData
<1>3. /\ current.buffers = handle[h].buffer[1] /\ handle[h].place # "none"
      /\ file = RegisteredHandle(0) => current.files # NoReg
      /\ StartOp(h, Entry(code, file, data, len))
  BY DEF RegisteredOp, CheckRegisteredFile, StartOp
<1> HIDE DEF data
<1>4. /\ mapped.buffers = handle[h].buffer[1]
      /\ file = RegisteredHandle(0) => mapped.files # NoReg
  BY <1>3, HandleMapped, FilesMapped
<1> QED
  BY <1>2, <1>3, <1>4, EntryFields, StartOpIInv

\* So does one with the handle as an ordinary buffer.
LEMMA PlainOpIInv ==
  ASSUME IInv, NEW h \in Handles, NEW code \in {"READ", "WRITE"}, NEW len \in 0 .. Extent,
         PlainOp(h, code, len)
  PROVE  IInv'
<1>1. /\ RawData \in [kind : {"Raw", "Registered"}, index : Nat, offset : 0 .. Extent]
      /\ RawData.kind = "Raw" /\ RawData.offset = 0 /\ RawHandle \in Targets
  BY RegistryAssumption DEF RawData, Targets
<1>2. StartOp(h, Entry(code, RawHandle, RawData, len))
  BY DEF PlainOp
<1> QED
  BY <1>1, <1>2, EntryFields, StartOpIInv

\* A handle in its future's result slot is given back.
LEMMA PollRegisteredIInv ==
  ASSUME IInv, NEW h \in Handles, PollRegistered(h)
  PROVE  IInv'
<1> DEFINE v == Held(handle[h].buffer, handle[h].initialized)
<1>1. handle[h].buffer \in Buffers /\ handle[h].initialized \in 0 .. Extent
  BY HandleFields DEF IInv, TypeOK
<1>2. /\ v \in HandleType /\ v.place = "app" /\ v.buffer = handle[h].buffer
      /\ v.initialized = handle[h].initialized
      /\ v.entry.data.kind = "Raw" /\ v.entry.data.offset = 0
  BY <1>1, HeldFields
<1>3. handle[h].place = "slot" /\ handle' = [handle EXCEPT ![h] = v]
      /\ UNCHANGED <<driverVars, bufferVars, mapped, pinned>>
  BY DEF PollRegistered, Held
<1> HIDE DEF v
<1>4. HandleSafe(h)'
  BY <1>2, <1>3 DEF HandleSafe, IInv, TypeOK
<1> QED
  BY <1>2, <1>3, <1>4, QuietHandleIInv

\* set_buf_init vouches only for what the read stored, up or down.
LEMMA PollPlainIInv ==
  ASSUME IInv, NEW h \in Handles, PollPlain(h)
  PROVE  IInv'
<1> DEFINE b == handle[h].buffer
           n == BufInit(h)
           v == Held(b, n)
<1>1. /\ b \in Buffers /\ handle[h].initialized \in 0 .. Extent
      /\ handle[h].transferred \in Failed .. Extent
      /\ handle[h].entry.data.kind \in {"Raw", "Registered"}
      /\ HandleOwns(h) /\ HandleSafe(h)
  BY HandleFields DEF IInv, TypeOK, Owned, Stored
<1>2. /\ handle[h].place = "slot" /\ handle[h].entry.data.kind = "Raw"
      /\ handle' = [handle EXCEPT ![h] = v]
      /\ prefix' = [prefix EXCEPT ![b] = n]
      /\ UNCHANGED <<driverVars, checkedOut, mapped, pinned, written>>
  BY <1>1 DEF PollPlain, Held, Registered
<1>3. n \in 0 .. Extent /\ Span(0, n) \subseteq written[b]
  <2>1. CASE Reading(h) /\ handle[h].transferred # Failed
    <3>1. n = handle[h].transferred
      BY <2>1 DEF BufInit
    <3>2. Span(0, n) \subseteq written[b]
      BY <1>1, <1>2, <2>1, <3>1 DEF HandleSafe
    <3> QED
      BY <1>1, <2>1, <3>1, <3>2, RegistryAssumption DEF Failed
  <2>2. CASE ~(Reading(h) /\ handle[h].transferred # Failed)
    <3>1. n = handle[h].initialized /\ n = prefix[b]
      BY <1>1, <1>2, <2>2 DEF BufInit, HandleOwns
    <3> QED
      BY <1>1, <3>1 DEF IInv, Stored
  <2> QED
    BY <2>1, <2>2
<1> HIDE DEF n
<1>4. /\ v \in HandleType /\ v.place = "app" /\ v.buffer = b /\ v.initialized = n
      /\ v.entry.data.kind = "Raw" /\ v.entry.data.offset = 0
  BY <1>1, <1>3, HeldFields
<1> HIDE DEF v
<1>5. handle'[h] = v /\ prefix'[b] = n /\ phase' = phase /\ checkedOut' = checkedOut
  BY <1>1, <1>2 DEF IInv, TypeOK, driverVars
<1>6. HandleOwns(h)'
  BY <1>1, <1>2, <1>4, <1>5 DEF HandleOwns
<1>7. HandleSafe(h)'
  BY <1>4, <1>5 DEF HandleSafe
<1>8. /\ checkedOut \in [Buffers -> BOOLEAN] /\ prefix' \in [Buffers -> 0 .. Extent]
      /\ written \in [Buffers -> SUBSET Bytes] /\ written' = written
      /\ \A c \in Buffers \ {b} : prefix'[c] = prefix[c]
  BY <1>1, <1>2, <1>3 DEF IInv, TypeOK
<1>9. handle[h].place # "none" /\ b = handle[h].buffer
  BY <1>2
<1> HIDE DEF b
<1> QED
  BY <1>1, <1>2, <1>3, <1>4, <1>5, <1>6, <1>7, <1>8, <1>9, HandleStepIInv

\* The prefix is raised only over bytes that were stored: those below it, and
\* those of a transfer that begins inside it.
LEMMA RaisedStored ==
  ASSUME IInv, NEW h \in Handles, handle[h].place = "posted", handle[h].transferred # Failed
  PROVE  /\ Raised(h) \in 0 .. Extent
         /\ Span(0, Raised(h)) \subseteq written[handle[h].buffer]
<1> DEFINE b == handle[h].buffer
           start == handle[h].entry.data.offset
           t == handle[h].transferred
           old == prefix[b]
<1>1. /\ b \in Buffers /\ start \in 0 .. Extent /\ t \in 0 .. Extent /\ HandleSafe(h)
      /\ old \in 0 .. Extent
  BY HandleFields, RegistryAssumption DEF IInv, TypeOK, Stored, Failed
<1>2. start + t <= Extent /\ Span(start, t) \subseteq written[b] /\ Span(0, old) \subseteq written[b]
  BY <1>1 DEF HandleSafe, IInv, Stored
<1>3. Raised(h) = IF start <= old /\ start + t > old THEN start + t ELSE old
  BY DEF Raised
<1> HIDE DEF b, start, t, old
<1>4. CASE start <= old /\ start + t > old
  <2>1. Span(0, start + t) \subseteq Span(0, old) \cup Span(start, t)
    BY <1>1, <1>4, RegistryAssumption DEF Span
  <2> QED
    BY <1>1, <1>2, <1>3, <1>4, <2>1, RegistryAssumption DEF b
<1>5. CASE ~(start <= old /\ start + t > old)
  BY <1>1, <1>2, <1>3, <1>5 DEF b
<1> QED
  BY <1>4, <1>5

\* Reaping keeps the invariant, whether or not the future is still there.
LEMMA ReapIInv ==
  ASSUME IInv, NEW h \in Handles, Reap(h)
  PROVE  IInv'
<1> DEFINE b == handle[h].buffer
           n == IF Registered(h) /\ handle[h].transferred # Failed THEN Raised(h) ELSE prefix[b]
           v == [handle[h] EXCEPT !.place = "slot", !.initialized = n]
<1>1. /\ b \in Buffers /\ handle[h] \in HandleType /\ HandleOwns(h) /\ HandleSafe(h)
      /\ handle[h].place = "posted"
  BY HandleFields DEF IInv, TypeOK, Owned, Stored, Reap
<1>2. n \in 0 .. Extent /\ Span(0, n) \subseteq written[b]
  BY <1>1, RaisedStored DEF IInv, TypeOK, Stored
<1>3. prefix' = [prefix EXCEPT ![b] = n]
  BY <1>1 DEF Reap, IInv, TypeOK
<1>4. prefix'[b] = n
  BY <1>1, <1>3 DEF IInv, TypeOK
<1>5. /\ prefix' \in [Buffers -> 0 .. Extent]
      /\ \A c \in Buffers \ {b} : prefix'[c] = prefix[c]
  <2> HIDE DEF n
  <2> QED
    BY <1>1, <1>2, <1>3 DEF IInv, TypeOK
<1>6. CASE handle[h].orphan
  <2>1. Release(h) /\ UNCHANGED <<driverVars, mapped, pinned, written>>
    BY <1>6 DEF Reap
  <2> HIDE DEF n
  <2> QED
    BY <1>1, <1>2, <1>4, <1>5, <2>1, ReleaseIInv
<1>7. CASE ~handle[h].orphan
  <2>1. /\ handle' = [handle EXCEPT ![h] = v] /\ checkedOut' = checkedOut
        /\ UNCHANGED <<driverVars, mapped, pinned, written>>
    BY <1>4, <1>7 DEF Reap
  <2> HIDE DEF n
  <2>2. /\ v \in HandleType /\ v.place = "slot" /\ v.buffer = b /\ v.initialized = n
        /\ v.entry = handle[h].entry /\ v.transferred = handle[h].transferred
    BY <1>1, <1>2 DEF HandleType, Place
  <2> HIDE DEF v
  <2>3. handle'[h] = v /\ phase' = phase /\ written' = written
    BY <2>1 DEF IInv, TypeOK, driverVars
  <2>4. HandleOwns(h)'
    BY <1>1, <1>4, <2>1, <2>2, <2>3 DEF HandleOwns
  <2>5. HandleSafe(h)'
    BY <1>1, <2>2, <2>3 DEF HandleSafe
  <2>6. checkedOut \in [Buffers -> BOOLEAN] /\ written \in [Buffers -> SUBSET Bytes]
    BY DEF IInv, TypeOK
  <2>7. handle[h].place # "none" /\ b = handle[h].buffer
    BY <1>1
  <2> HIDE DEF b
  <2> QED
    BY <1>1, <1>2, <1>4, <1>5, <2>1, <2>2, <2>3, <2>4, <2>5, <2>6, <2>7, HandleStepIInv
<1> QED
  BY <1>6, <1>7

\* A dropped future releases a handle only from its result slot.
LEMMA DropFutureIInv ==
  ASSUME IInv, NEW h \in Handles, DropFuture(h)
  PROVE  IInv'
<1>1. /\ handle[h].buffer \in Buffers /\ handle[h] \in HandleType /\ HandleSafe(h)
      /\ handle[h].place # "none"
  BY HandleFields DEF IInv, TypeOK, Stored, DropFuture
<1>2. CASE handle[h].place = "slot"
  BY <1>1, <1>2, ReleaseIInv DEF DropFuture, IInv, TypeOK, Stored
<1>3. CASE handle[h].place # "slot"
  <2> DEFINE v == [handle[h] EXCEPT !.orphan = TRUE]
  <2>1. /\ v \in HandleType /\ v.place = handle[h].place /\ v.buffer = handle[h].buffer
        /\ v.initialized = handle[h].initialized /\ v.entry = handle[h].entry
        /\ v.transferred = handle[h].transferred
    BY <1>1 DEF HandleType
  <2>2. /\ handle' = [handle EXCEPT ![h] = v]
        /\ UNCHANGED <<driverVars, bufferVars, mapped, pinned>>
    BY <1>3 DEF DropFuture, bufferVars
  <2> HIDE DEF v
  <2>3. handle'[h] = v /\ written' = written /\ mapped' = mapped
    BY <2>2 DEF IInv, TypeOK, bufferVars
  <2>4. HandleSafe(h)'
    BY <1>1, <2>1, <2>3 DEF HandleSafe
  <2> QED
    BY <1>1, <2>1, <2>2, <2>4, QuietHandleIInv
<1> QED
  BY <1>2, <1>3

\* The platform stores what it reads in the buffer the caller meant.
LEMMA KernelTransfersIInv ==
  ASSUME IInv, NEW h \in Handles, NEW t \in Failed .. Extent, KernelTransfers(h, t)
  PROVE  IInv'
<1> DEFINE b == handle[h].buffer
           v == [handle[h] EXCEPT !.place = "posted", !.transferred = t]
           start == handle[h].entry.data.offset
           W == IF Reading(h) THEN written[b] \cup Span(start, t) ELSE written[b]
<1>1. /\ b \in Buffers /\ handle[h] \in HandleType /\ HandleOwns(h) /\ HandleSafe(h)
      /\ handle[h].place = "kernel" /\ t <= handle[h].entry.len
      /\ start \in 0 .. Extent /\ handle[h].entry.len \in 0 .. Extent
      /\ handle[h].entry.data.kind \in {"Raw", "Registered"}
      /\ handle[h].entry.code \in {"READ", "WRITE"}
  BY HandleFields DEF IInv, TypeOK, Owned, Stored, KernelTransfers
<1>2. Target(h) = b
  <2>1. CASE Registered(h)
    <3>1. mapped.buffers = b[1]
      BY <1>1, <2>1 DEF HandleSafe, Registered
    <3> QED
      BY <1>1, <2>1, <3>1, BufferFields DEF Target
  <2>2. CASE ~Registered(h)
    BY <2>2 DEF Target
  <2> QED
    BY <2>1, <2>2
<1>3. /\ handle' = [handle EXCEPT ![h] = v]
      /\ written' = [written EXCEPT ![b] = W]
      /\ UNCHANGED <<driverVars, checkedOut, prefix, mapped, pinned>>
  BY <1>1, <1>2 DEF KernelTransfers, IInv, TypeOK
<1>4. /\ v \in HandleType /\ v.place = "posted" /\ v.buffer = b
      /\ v.initialized = handle[h].initialized /\ v.entry = handle[h].entry
      /\ v.transferred = t
  BY <1>1 DEF HandleType, Place
<1>5. start + handle[h].entry.len <= Extent
  BY <1>1 DEF HandleSafe
<1>6. /\ Span(start, t) \subseteq Span(start, handle[h].entry.len)
      /\ Span(start, t) \subseteq Bytes /\ start + t <= Extent
  BY <1>1, <1>5, RegistryAssumption DEF Span, Bytes, Failed
<1>7. Span(start, t) \subseteq W /\ written[b] \subseteq W /\ W \subseteq Bytes
  <2>1. written[b] \subseteq Bytes
    BY <1>1 DEF IInv, TypeOK
  <2>2. ~Reading(h) => Span(start, handle[h].entry.len) \subseteq written[b]
    BY <1>1 DEF HandleSafe, Reading
  <2> QED
    BY <1>6, <2>1, <2>2
<1> HIDE DEF v, W, start
<1>8. handle'[h] = v /\ written'[b] = W /\ phase' = phase /\ mapped' = mapped
  BY <1>1, <1>3 DEF IInv, TypeOK, driverVars
<1>9. HandleOwns(h)'
  BY <1>1, <1>3, <1>4, <1>8 DEF HandleOwns
<1>10. HandleSafe(h)'
  BY <1>1, <1>4, <1>6, <1>7, <1>8 DEF HandleSafe, start
<1>11. /\ checkedOut \in [Buffers -> BOOLEAN] /\ prefix \in [Buffers -> 0 .. Extent]
       /\ written' \in [Buffers -> SUBSET Bytes] /\ checkedOut' = checkedOut /\ prefix' = prefix
       /\ \A c \in Buffers : written[c] \subseteq written'[c]
       /\ Span(0, prefix[b]) \subseteq written[b]
  BY <1>1, <1>3, <1>7 DEF IInv, TypeOK, Stored
<1>12. handle[h].place # "none" /\ b = handle[h].buffer
  BY <1>1
<1> HIDE DEF b
<1> QED
  BY <1>1, <1>3, <1>4, <1>7, <1>8, <1>9, <1>10, <1>11, <1>12, HandleStepIInv

-----------------------------------------------------------------------------
(* Registrations. *)

\* Both kinds are told apart by their names.
LEMMA SortFacts ==
  /\ \A r \in Regs : SortOf(r) = "buffers" /\ r \notin FileSets /\ r \in Registrations
  /\ \A r \in FileSets : SortOf(r) = "files" /\ r \notin Regs /\ r \in Registrations
  /\ \A r \in Registrations : SortOf(r) \in Sorts /\ r # NoReg
  /\ Foreign \notin Regs /\ NoReg \notin Regs /\ NoReg \notin FileSets /\ NoReg # Foreign
BY RegistryAssumption DEF SortOf, Registrations, Sorts

\* Asking for a registration of buffers keeps the invariant: nobody has a
\* handle of one that is new.
LEMMA RegisterBuffersIInv ==
  ASSUME IInv, NEW r \in Regs, NEW watermark \in 0 .. Extent, RegisterBuffers(r, watermark)
  PROVE  IInv'
<1> USE DEF IInv
<1>1. /\ phase[r] = "new" /\ inFlight = FALSE /\ ~AnyCheckedOut(current.buffers)
      /\ phase' = [phase EXCEPT ![r] = "built"] /\ inFlight' = TRUE
      /\ prefix' = [b \in Buffers |-> IF b[1] = r THEN watermark ELSE prefix[b]]
      /\ written' = [b \in Buffers |-> IF b[1] = r THEN Span(0, watermark) ELSE written[b]]
      /\ UNCHANGED <<ring, mode, current, retired, posted, collection, checkedOut, handle,
                     mapped, pinned>>
  BY DEF RegisterBuffers, Acceptable, TypeOK
<1>2. /\ phase'[r] = "built" /\ \A q \in Registrations \ {r} : phase'[q] = phase[q]
      /\ phase' \in [Registrations -> {"new", "built", "kernel", "succeeded", "failed",
                                       "adopted", "returned"}]
  BY <1>1, SortFacts DEF TypeOK
<1>3. Span(0, watermark) \subseteq Bytes
  BY RegistryAssumption DEF Span, Bytes
<1>4. TypeOK'
  BY <1>1, <1>2, <1>3 DEF TypeOK
<1>a. posted \in Seq(Registrations)
  BY DEF TypeOK
<1>5. \A n \in 1 .. Len(posted) : posted[n] \in Registrations /\ posted[n] # r
  BY <1>1, <1>a DEF PostedExact
<1>6. PostedExact' /\ MappedExact'
  BY <1>1, <1>2, <1>5, SortFacts DEF PostedExact, MappedExact, Answered
<1>7. OneRegistration'
  BY <1>1, <1>2, SortFacts DEF OneRegistration, AnyCheckedOut
<1>8. OneHandle'
  BY <1>1 DEF OneHandle
<1>9. PinnedIsKept'
  BY <1>1, <1>2 DEF PinnedIsKept, TypeOK
<1>10. \A h \in Handles : /\ handle[h].buffer \in Buffers
                          /\ handle[h].place # "none" => handle[h].buffer[1] # r
  BY <1>1, HandleFields DEF Owned, HandleOwns, TypeOK
<1>11. ASSUME NEW h \in Handles PROVE HandleOwns(h)' /\ HandleSafe(h)'
  <2>1. HandleOwns(h) /\ HandleSafe(h)
    BY DEF Owned, Stored
  <2>2. CASE handle[h].place = "none"
    BY <1>1, <2>1, <2>2 DEF HandleOwns, HandleSafe
  <2>3. CASE handle[h].place # "none"
    <3>1. /\ prefix'[handle[h].buffer] = prefix[handle[h].buffer]
          /\ written'[handle[h].buffer] = written[handle[h].buffer]
      BY <1>1, <1>10, <2>3
    <3>2. HandleOwns(h)'
      BY <1>1, <1>2, <1>10, <2>1, <2>3, <3>1, SortFacts DEF HandleOwns
    <3>3. HandleSafe(h)'
      BY <1>1, <2>1, <3>1 DEF HandleSafe
    <3> QED
      BY <3>2, <3>3
  <2> QED
    BY <2>2, <2>3
<1>12. Owned'
  BY <1>1, <1>2, <1>11, SortFacts DEF Owned
<1>13. Stored'
  BY <1>1, <1>11 DEF Stored
<1> QED
  BY <1>4, <1>6, <1>7, <1>8, <1>9, <1>12, <1>13

\* A step of registrations that leaves buffers and handles alone, and never
\* takes an adopted registration back, keeps what concerns handles.
LEMMA HandlesKept ==
  ASSUME IInv, UNCHANGED <<bufferVars, handle>>,
         \A r \in Registrations : phase[r] = "adopted" => phase'[r] = "adopted",
         \A r \in collection' \ collection : r \in Regs => phase'[r] = "adopted",
         \A h \in Handles : handle[h].place \in {"built", "kernel"} /\ Registered(h) =>
           /\ mapped'.buffers = mapped.buffers
           /\ mapped.files # NoReg => mapped'.files # NoReg
  PROVE  OneHandle' /\ Owned' /\ Stored'
<1> USE DEF IInv
<1>1. handle' = handle /\ checkedOut' = checkedOut /\ prefix' = prefix /\ written' = written
  BY DEF bufferVars
<1>2. OneHandle'
  BY <1>1 DEF OneHandle
<1>3. ASSUME NEW h \in Handles PROVE HandleOwns(h)' /\ HandleSafe(h)'
  <2>1. HandleOwns(h) /\ HandleSafe(h)
    BY DEF Owned, Stored
  <2>2. HandleOwns(h)'
    BY <1>1, <2>1, SortFacts DEF HandleOwns
  <2>3. HandleSafe(h)'
    BY <1>1, <2>1 DEF HandleSafe, Registered
  <2> QED
    BY <2>2, <2>3
<1>4. Owned'
  BY <1>3, SortFacts DEF Owned
<1>5. Stored'
  BY <1>1, <1>3 DEF Stored
<1> QED
  BY <1>2, <1>4, <1>5

\* Asking for a registration of files keeps the invariant.
LEMMA RegisterFilesIInv ==
  ASSUME IInv, NEW r \in FileSets, RegisterFiles(r)
  PROVE  IInv'
<1> USE DEF IInv
<1>1. /\ phase[r] = "new" /\ phase' = [phase EXCEPT ![r] = "built"]
      /\ UNCHANGED <<ring, mode, current, retired, inFlight, posted, collection, bufferVars,
                     handle, mapped, pinned>>
  BY DEF RegisterFiles, Acceptable
<1>2. /\ phase'[r] = "built" /\ \A q \in Registrations \ {r} : phase'[q] = phase[q]
      /\ phase' \in [Registrations -> {"new", "built", "kernel", "succeeded", "failed",
                                       "adopted", "returned"}]
  BY <1>1, SortFacts DEF TypeOK
<1>3. checkedOut' = checkedOut /\ prefix' = prefix /\ written' = written
  BY <1>1 DEF bufferVars
<1>4. TypeOK'
  BY <1>1, <1>2, <1>3 DEF TypeOK
<1>a. posted \in Seq(Registrations)
  BY DEF TypeOK
<1>5. \A n \in 1 .. Len(posted) : posted[n] \in Registrations /\ posted[n] # r
  BY <1>1, <1>a DEF PostedExact
<1>6. PostedExact' /\ MappedExact'
  BY <1>1, <1>2, <1>5, SortFacts DEF PostedExact, MappedExact, Answered
<1>7. OneRegistration'
  BY <1>1, <1>2, <1>3, SortFacts DEF OneRegistration, AnyCheckedOut
<1>8. OneHandle' /\ Owned' /\ Stored'
  BY <1>1, <1>2, HandlesKept
<1>9. PinnedIsKept'
  BY <1>1, <1>2 DEF PinnedIsKept, TypeOK
<1> QED
  BY <1>4, <1>6, <1>7, <1>8, <1>9

\* The first completion of the queue, and those behind it.
LEMMA PostedHead ==
  ASSUME IInv, posted # <<>>, posted' = Tail(posted)
  PROVE  /\ Len(posted) \in Nat \ {0} /\ posted[1] = Head(posted)
         /\ Head(posted) \in Registrations
         /\ Len(posted') = Len(posted) - 1 /\ posted' \in Seq(Registrations)
         /\ \A n \in 1 .. Len(posted') :
              /\ posted'[n] = posted[n + 1] /\ posted[n + 1] # Head(posted)
              /\ posted'[n] \in Registrations
<1>1. posted \in Seq(Registrations) /\ Len(posted) \in Nat \ {0} /\ posted[1] = Head(posted)
  BY DEF IInv, TypeOK
<1>2. /\ Len(posted') = Len(posted) - 1 /\ posted' \in Seq(Registrations)
      /\ \A n \in 1 .. Len(posted') : posted'[n] = posted[n + 1]
  BY <1>1
<1>3. \A n \in 1 .. Len(posted') : posted[n + 1] # Head(posted)
  BY <1>1, <1>2 DEF IInv, PostedExact
<1> QED
  BY <1>1, <1>2, <1>3

\* Taking the first completion off the queue keeps its order, whichever
\* answer it was, if the registration is adopted when it succeeded.
LEMMA QueueAdvances ==
  ASSUME IInv, posted # <<>>, posted' = Tail(posted), mapped' = mapped,
         NEW next \in {"adopted", "returned"}, phase' = [phase EXCEPT ![Head(posted)] = next],
         current' = IF phase[Head(posted)] = "succeeded"
                      THEN [current EXCEPT ![SortOf(Head(posted))] = Head(posted)]
                      ELSE current
  PROVE  PostedExact' /\ MappedExact'
<1> DEFINE r == Head(posted)
<1>1. /\ Len(posted) \in Nat \ {0} /\ posted[1] = r /\ r \in Registrations
      /\ Len(posted') = Len(posted) - 1
      /\ \A n \in 1 .. Len(posted') : /\ posted'[n] = posted[n + 1] /\ posted[n + 1] # r
                                      /\ posted'[n] \in Registrations
  BY PostedHead
<1>2. phase'[r] = next /\ \A q \in Registrations \ {r} : phase'[q] = phase[q]
  BY <1>1 DEF IInv, TypeOK
<1>c. /\ phase[r] # "succeeded" => current' = current
      /\ phase[r] = "succeeded" => current' = [current EXCEPT ![SortOf(r)] = r]
  OBVIOUS
<1>p. PostedExact /\ MappedExact
  BY DEF IInv
<1>t. /\ current \in [buffers : Regs \cup {NoReg}, files : FileSets \cup {NoReg}]
      /\ phase \in [Registrations -> {"new", "built", "kernel", "succeeded", "failed",
                                       "adopted", "returned"}]
  BY DEF IInv, TypeOK
<1> HIDE DEF r
<1>3. PostedExact'
  <2>1. \A n \in 1 .. Len(posted') : n + 1 \in 1 .. Len(posted)
    BY <1>1
  <2>2. /\ \A n \in 1 .. Len(posted') : phase'[posted'[n]] \in {"succeeded", "failed"}
        /\ \A m, n \in 1 .. Len(posted') : posted'[m] = posted'[n] => m = n
    BY <1>1, <1>2, <1>p, <2>1 DEF PostedExact
  <2>3. ASSUME NEW q \in Registrations, phase'[q] \in {"succeeded", "failed"}
        PROVE  \E n \in 1 .. Len(posted') : posted'[n] = q
    <3>1. q # r /\ phase[q] \in {"succeeded", "failed"}
      BY <1>2, <2>3
    <3>2. PICK k \in 1 .. Len(posted) : posted[k] = q
      BY <1>p, <3>1 DEF PostedExact
    <3>3. k # 1 /\ k - 1 \in 1 .. Len(posted') /\ posted'[k - 1] = posted[(k - 1) + 1]
      BY <1>1, <3>1, <3>2
    <3>4. posted'[k - 1] = q
      BY <3>2, <3>3
    <3> QED
      BY <3>3, <3>4
  <2> QED
    BY <2>2, <2>3 DEF PostedExact
<1>4. \A n \in 1 .. Len(posted'), sort \in Sorts : Answered(n, sort)' <=> Answered(n + 1, sort)
  BY <1>1, <1>2 DEF Answered
<1>5. \A sort \in Sorts : current'[sort] = IF Answered(1, sort) THEN r ELSE current[sort]
  BY <1>1, <1>c, <1>t, SortFacts DEF Answered, Sorts
<1>6. MappedExact'
  <2> SUFFICES ASSUME NEW sort \in Sorts
      PROVE  \/ /\ \A n \in 1 .. Len(posted') : ~Answered(n, sort)'
                /\ mapped'[sort] = current'[sort]
             \/ \E n \in 1 .. Len(posted') :
                  /\ Answered(n, sort)' /\ mapped'[sort] = posted'[n]
                  /\ \A m \in n + 1 .. Len(posted') : ~Answered(m, sort)'
    BY DEF MappedExact
  <2>1. CASE /\ \A n \in 1 .. Len(posted) : ~Answered(n, sort)
             /\ mapped[sort] = current[sort]
    BY <1>1, <1>4, <1>5, <2>1
  <2>2. CASE \E n \in 1 .. Len(posted) :
               /\ Answered(n, sort) /\ mapped[sort] = posted[n]
               /\ \A m \in n + 1 .. Len(posted) : ~Answered(m, sort)
    <3>1. PICK k \in 1 .. Len(posted) :
               /\ Answered(k, sort) /\ mapped[sort] = posted[k]
               /\ \A m \in k + 1 .. Len(posted) : ~Answered(m, sort)
      BY <2>2
    <3>2. CASE k = 1
      BY <1>1, <1>4, <1>5, <3>1, <3>2
    <3>3. CASE k # 1
      <4>1. k - 1 \in 1 .. Len(posted') /\ (k - 1) + 1 = k
        BY <1>1, <3>3
      <4>2. Answered(k - 1, sort)' /\ mapped'[sort] = posted'[k - 1]
        BY <1>1, <1>4, <3>1, <4>1
      <4>3. \A m \in (k - 1) + 1 .. Len(posted') : ~Answered(m, sort)'
        BY <1>1, <1>4, <3>1, <4>1
      <4> QED
        BY <4>1, <4>2, <4>3
    <3> QED
      BY <3>2, <3>3
  <2> QED
    BY <1>p, <2>1, <2>2 DEF MappedExact
<1> QED
  BY <1>3, <1>6

\* Adopting keeps the invariant: what was current is retired, not dropped.
LEMMA AdoptRegistrationIInv ==
  ASSUME IInv, AdoptRegistration
  PROVE  IInv'
<1> USE DEF IInv
<1> DEFINE r == Head(posted)
<1>1. /\ posted # <<>> /\ phase[r] = "succeeded" /\ posted' = Tail(posted)
      /\ phase' = [phase EXCEPT ![r] = "adopted"]
      /\ inFlight' = (inFlight /\ r \in FileSets)
      /\ current' = [current EXCEPT ![SortOf(r)] = r]
      /\ retired' = retired \cup ({current[SortOf(r)]} \ {NoReg})
      /\ collection' = collection \cup ({r} \cap Regs)
      /\ UNCHANGED <<ring, mode, bufferVars, handle, mapped, pinned>>
  BY DEF AdoptRegistration
<1>2. r \in Registrations /\ posted' \in Seq(Registrations)
  BY <1>1, PostedHead
<1>3. PostedExact' /\ MappedExact'
  BY <1>1, QueueAdvances
<1> HIDE DEF r
<1>4. /\ phase'[r] = "adopted" /\ \A q \in Registrations \ {r} : phase'[q] = phase[q]
      /\ phase' \in [Registrations -> {"new", "built", "kernel", "succeeded", "failed",
                                       "adopted", "returned"}]
  BY <1>1, <1>2 DEF TypeOK
<1>5. checkedOut' = checkedOut /\ prefix' = prefix /\ written' = written
  BY <1>1 DEF bufferVars
<1>t. current \in [buffers : Regs \cup {NoReg}, files : FileSets \cup {NoReg}]
  BY DEF TypeOK
<1>6. /\ r \in Regs => current' = [buffers |-> r, files |-> current.files]
      /\ r \in FileSets => current' = [buffers |-> current.buffers, files |-> r]
      /\ r \in Regs => retired' = retired \cup ({current.buffers} \ {NoReg})
      /\ r \in FileSets => retired' = retired \cup ({current.files} \ {NoReg})
  BY <1>1, <1>t, SortFacts
<1>7. current' \in [buffers : Regs \cup {NoReg}, files : FileSets \cup {NoReg}]
  BY <1>2, <1>6, <1>t DEF Registrations
<1>8. retired' \subseteq Registrations /\ inFlight' \in BOOLEAN
      /\ collection' \subseteq Regs \cup {Foreign}
  BY <1>1, <1>2, <1>6, <1>t DEF TypeOK, Registrations
<1>9. TypeOK'
  BY <1>1, <1>2, <1>4, <1>5, <1>7, <1>8 DEF TypeOK
<1>10. OneRegistration'
  <2>1. CASE r \in Regs
    <3>1. inFlight' = FALSE
      BY <1>1, <2>1, SortFacts
    <3>2. \A q \in Regs : phase'[q] \notin Underway
      BY <1>1, <1>4, <2>1, SortFacts DEF OneRegistration, Underway
    <3> QED
      BY <3>1, <3>2 DEF OneRegistration
  <2>2. CASE r \in FileSets
    <3>1. inFlight' = inFlight
      BY <1>1, <2>2 DEF TypeOK
    <3>2. current'.buffers = current.buffers
      BY <1>6, <2>2
    <3>3. \A q \in Regs : phase'[q] = phase[q]
      BY <1>4, <2>2, SortFacts
    <3> QED
      BY <1>5, <3>1, <3>2, <3>3 DEF OneRegistration, AnyCheckedOut
  <2> QED
    BY <1>2, <2>1, <2>2 DEF Registrations
<1>11. OneHandle' /\ Owned' /\ Stored'
  BY <1>1, <1>2, <1>4, HandlesKept
<1>12. PinnedIsKept'
  <2>1. pinned \subseteq Registrations
    BY DEF TypeOK
  <2>2. \A p \in pinned : \/ p \in {current.buffers, current.files} \/ p \in retired
                          \/ p \in Registrations /\ phase[p] = "succeeded"
    BY DEF PinnedIsKept
  <2> SUFFICES ASSUME NEW p \in pinned
      PROVE  \/ p \in {current'.buffers, current'.files} \/ p \in retired'
             \/ p \in Registrations /\ phase'[p] = "succeeded"
    BY <1>1 DEF PinnedIsKept
  <2>3. p # NoReg
    BY <2>1, SortFacts
  <2>4. CASE p = r
    BY <1>2, <1>6, <2>4 DEF Registrations
  <2>5. CASE p # r
    <3>1. CASE p \in retired
      BY <1>1, <3>1
    <3>2. CASE p \in Registrations /\ phase[p] = "succeeded"
      BY <1>4, <2>5, <3>2
    <3>3. CASE p \in {current.buffers, current.files}
      BY <1>2, <1>6, <2>3, <3>3 DEF Registrations
    <3> QED
      BY <2>2, <3>1, <3>2, <3>3
  <2> QED
    BY <2>4, <2>5
<1> QED
  BY <1>3, <1>9, <1>10, <1>11, <1>12

\* A refused registration is returned; nothing was mapped for it.
LEMMA ReturnRegistrationIInv ==
  ASSUME IInv, ReturnRegistration
  PROVE  IInv'
<1> USE DEF IInv
<1> DEFINE r == Head(posted)
<1>1. /\ posted # <<>> /\ phase[r] = "failed" /\ posted' = Tail(posted)
      /\ phase' = [phase EXCEPT ![r] = "returned"]
      /\ inFlight' = (inFlight /\ r \in FileSets)
      /\ UNCHANGED <<ring, mode, current, retired, collection, bufferVars, handle, mapped, pinned>>
  BY DEF ReturnRegistration
<1>2. r \in Registrations /\ posted' \in Seq(Registrations)
  BY <1>1, PostedHead
<1>3. PostedExact' /\ MappedExact'
  BY <1>1, QueueAdvances
<1> HIDE DEF r
<1>4. /\ phase'[r] = "returned" /\ \A q \in Registrations \ {r} : phase'[q] = phase[q]
      /\ phase' \in [Registrations -> {"new", "built", "kernel", "succeeded", "failed",
                                       "adopted", "returned"}]
  BY <1>1, <1>2 DEF TypeOK
<1>5. checkedOut' = checkedOut /\ prefix' = prefix /\ written' = written
  BY <1>1 DEF bufferVars
<1>8. inFlight' \in BOOLEAN
  BY <1>1
<1>9. TypeOK'
  BY <1>1, <1>2, <1>4, <1>5, <1>8 DEF TypeOK
<1>10. OneRegistration'
  <2>1. CASE r \in Regs
    <3>1. inFlight' = FALSE
      BY <1>1, <2>1, SortFacts
    <3>2. \A q \in Regs : phase'[q] \notin Underway
      BY <1>1, <1>4, <2>1, SortFacts DEF OneRegistration, Underway
    <3> QED
      BY <3>1, <3>2 DEF OneRegistration
  <2>2. CASE r \in FileSets
    <3>1. inFlight' = inFlight
      BY <1>1, <2>2 DEF TypeOK
    <3>3. \A q \in Regs : phase'[q] = phase[q]
      BY <1>4, <2>2, SortFacts
    <3> QED
      BY <1>1, <1>5, <3>1, <3>3 DEF OneRegistration, AnyCheckedOut
  <2> QED
    BY <1>2, <2>1, <2>2 DEF Registrations
<1>11. OneHandle' /\ Owned' /\ Stored'
  BY <1>1, <1>2, <1>4, HandlesKept
<1>12. PinnedIsKept'
  BY <1>1, <1>4 DEF PinnedIsKept, TypeOK
<1> QED
  BY <1>3, <1>9, <1>10, <1>11, <1>12

\* Dropping a collection leaves its registration with the driver.
LEMMA DropCollectionIInv ==
  ASSUME IInv, NEW r \in Regs, DropCollection(r)
  PROVE  IInv'
<1> USE DEF IInv
<1>1. /\ collection' = collection \ {r}
      /\ UNCHANGED <<ring, mode, current, retired, inFlight, phase, posted, bufferVars, handle,
                     mapped, pinned>>
  BY DEF DropCollection
<1>2. checkedOut' = checkedOut /\ prefix' = prefix /\ written' = written
  BY <1>1 DEF bufferVars
<1>3. TypeOK'
  BY <1>1, <1>2 DEF TypeOK
<1>4. PostedExact' /\ MappedExact' /\ OneRegistration' /\ PinnedIsKept'
  BY <1>1, <1>2 DEF PostedExact, MappedExact, Answered, OneRegistration, AnyCheckedOut, PinnedIsKept
<1>5. OneHandle' /\ Owned' /\ Stored'
  BY <1>1, HandlesKept
<1> QED
  BY <1>3, <1>4, <1>5

\* The queue with one more answer at its end.
LEMMA PostedAppend ==
  ASSUME IInv, NEW r \in Registrations, phase[r] = "kernel", posted' = Append(posted, r)
  PROVE  /\ posted' \in Seq(Registrations) /\ Len(posted) \in Nat
         /\ Len(posted') = Len(posted) + 1 /\ posted'[Len(posted) + 1] = r
         /\ \A n \in 1 .. Len(posted) : posted'[n] = posted[n] /\ posted[n] \in Registrations
                                        /\ posted[n] # r
<1>1. posted \in Seq(Registrations)
  BY DEF IInv, TypeOK
<1>2. \A n \in 1 .. Len(posted) : posted[n] # r
  BY DEF IInv, PostedExact
<1> QED
  BY <1>1, <1>2

\* An answer joins the queue, and is mapped if it is a success.
LEMMA QueueGrows ==
  ASSUME IInv, NEW r \in Registrations, phase[r] = "kernel", posted' = Append(posted, r),
         NEW next \in {"succeeded", "failed"}, phase' = [phase EXCEPT ![r] = next],
         current' = current,
         mapped' = IF next = "succeeded" THEN [mapped EXCEPT ![SortOf(r)] = r] ELSE mapped
  PROVE  PostedExact' /\ MappedExact'
<1> DEFINE L == Len(posted)
           After(n, sort) == phase'[posted'[n]] = "succeeded" /\ SortOf(posted'[n]) = sort
<1>1. /\ L \in Nat /\ Len(posted') = L + 1 /\ posted'[L + 1] = r
      /\ \A n \in 1 .. L : posted'[n] = posted[n] /\ posted[n] \in Registrations /\ posted[n] # r
  BY PostedAppend
<1>2. phase'[r] = next /\ \A q \in Registrations \ {r} : phase'[q] = phase[q]
  BY DEF IInv, TypeOK
<1>p. PostedExact /\ MappedExact
  BY DEF IInv
<1>t. mapped \in [buffers : Regs \cup {NoReg}, files : FileSets \cup {NoReg}]
  BY DEF IInv, TypeOK
<1> HIDE DEF L
<1>3. PostedExact'
  <2>1. \A n \in 1 .. L + 1 : n = L + 1 \/ n \in 1 .. L
    BY <1>1
  <2>2. /\ \A n \in 1 .. L + 1 : phase'[posted'[n]] \in {"succeeded", "failed"}
        /\ \A m, n \in 1 .. L + 1 : posted'[m] = posted'[n] => m = n
    BY <1>1, <1>2, <1>p, <2>1 DEF PostedExact, L
  <2>3. ASSUME NEW q \in Registrations, phase'[q] \in {"succeeded", "failed"}
        PROVE  \E n \in 1 .. L + 1 : posted'[n] = q
    <3>1. CASE q = r
      BY <1>1, <3>1
    <3>2. CASE q # r
      <4>1. PICK n \in 1 .. L : posted[n] = q
        BY <1>2, <1>p, <2>3, <3>2 DEF PostedExact, L
      <4>2. n \in 1 .. L + 1 /\ posted'[n] = q
        BY <1>1, <4>1
      <4> QED
        BY <4>2
    <3> QED
      BY <3>1, <3>2
  <2> QED
    BY <1>1, <2>2, <2>3 DEF PostedExact
<1>4. /\ \A n \in 1 .. L, sort \in Sorts : After(n, sort) <=> Answered(n, sort)
      /\ \A sort \in Sorts : After(L + 1, sort) <=> next = "succeeded" /\ SortOf(r) = sort
  BY <1>1, <1>2 DEF Answered
<1> HIDE DEF After
<1>5. \A sort \in Sorts : mapped'[sort] = IF next = "succeeded" /\ SortOf(r) = sort
                                            THEN r ELSE mapped[sort]
  BY <1>t, SortFacts DEF Sorts
<1>6. MappedExact'
  <2> SUFFICES ASSUME NEW sort \in Sorts
      PROVE  \/ /\ \A n \in 1 .. L + 1 : ~After(n, sort)
                /\ mapped'[sort] = current'[sort]
             \/ \E n \in 1 .. L + 1 :
                  /\ After(n, sort) /\ mapped'[sort] = posted'[n]
                  /\ \A m \in n + 1 .. L + 1 : ~After(m, sort)
    BY <1>1 DEF MappedExact, Answered, After
  <2>0. \A n \in 1 .. L + 1 : n = L + 1 \/ n \in 1 .. L
    BY <1>1
  <2>1. CASE next = "succeeded" /\ SortOf(r) = sort
    <3>1. /\ L + 1 \in 1 .. L + 1 /\ After(L + 1, sort) /\ mapped'[sort] = posted'[L + 1]
          /\ \A m \in (L + 1) + 1 .. L + 1 : ~After(m, sort)
      BY <1>1, <1>4, <1>5, <2>1
    <3> QED
      BY <3>1
  <2>2. CASE ~(next = "succeeded" /\ SortOf(r) = sort)
    <3>1. mapped'[sort] = mapped[sort] /\ ~After(L + 1, sort)
      BY <1>4, <1>5, <2>2
    <3>2. CASE /\ \A n \in 1 .. L : ~Answered(n, sort)
               /\ mapped[sort] = current[sort]
      BY <1>4, <2>0, <3>1, <3>2
    <3>3. CASE \E n \in 1 .. L :
               /\ Answered(n, sort) /\ mapped[sort] = posted[n]
               /\ \A m \in n + 1 .. L : ~Answered(m, sort)
      <4>1. PICK k \in 1 .. L :
               /\ Answered(k, sort) /\ mapped[sort] = posted[k]
               /\ \A m \in k + 1 .. L : ~Answered(m, sort)
        BY <3>3
      <4>2. k \in 1 .. L + 1 /\ After(k, sort) /\ mapped'[sort] = posted'[k]
        BY <1>1, <1>4, <3>1, <4>1
      <4>3. ASSUME NEW m \in k + 1 .. L + 1 PROVE ~After(m, sort)
        <5>1. m = L + 1 \/ (m \in k + 1 .. L /\ m \in 1 .. L)
          BY <1>1
        <5> QED
          BY <1>4, <3>1, <4>1, <5>1
      <4> QED
        BY <4>2, <4>3
    <3> QED
      BY <1>p, <3>2, <3>3 DEF MappedExact, L
  <2> QED
    BY <2>1, <2>2
<1> QED
  BY <1>3, <1>6

\* The platform completes a registration: no operation it still has to execute
\* names a buffer of the one that is replaced.
LEMMA KernelRegistersIInv ==
  ASSUME IInv, NEW r \in Registrations, KernelRegisters(r)
  PROVE  IInv'
<1> USE DEF IInv
<1>1. /\ phase[r] = "kernel" /\ phase' = [phase EXCEPT ![r] = "succeeded"]
      /\ posted' = Append(posted, r) /\ mapped' = [mapped EXCEPT ![SortOf(r)] = r]
      /\ pinned' = pinned \cup {r}
      /\ UNCHANGED <<ring, mode, current, retired, inFlight, collection, bufferVars, handle>>
  BY DEF KernelRegisters
<1>2. posted' \in Seq(Registrations)
  BY <1>1, PostedAppend
<1>3. PostedExact' /\ MappedExact'
  BY <1>1, QueueGrows
<1>4. /\ phase'[r] = "succeeded" /\ \A q \in Registrations \ {r} : phase'[q] = phase[q]
      /\ phase' \in [Registrations -> {"new", "built", "kernel", "succeeded", "failed",
                                       "adopted", "returned"}]
  BY <1>1 DEF TypeOK
<1>5. checkedOut' = checkedOut /\ prefix' = prefix /\ written' = written
  BY <1>1 DEF bufferVars
<1>t. mapped \in [buffers : Regs \cup {NoReg}, files : FileSets \cup {NoReg}]
  BY DEF TypeOK
<1>6. /\ r \in Regs => mapped' = [buffers |-> r, files |-> mapped.files]
      /\ r \in FileSets => mapped' = [buffers |-> mapped.buffers, files |-> r]
  BY <1>1, <1>t, SortFacts
<1>7. mapped' \in [buffers : Regs \cup {NoReg}, files : FileSets \cup {NoReg}]
  BY <1>6, <1>t DEF Registrations
<1>8. TypeOK'
  BY <1>1, <1>2, <1>4, <1>5, <1>7 DEF TypeOK
<1>9. OneRegistration'
  BY <1>1, <1>4, <1>5, SortFacts DEF OneRegistration, AnyCheckedOut, Underway
<1>10. ASSUME NEW h \in Handles, handle[h].place \in {"built", "kernel"}, Registered(h)
       PROVE  /\ mapped'.buffers = mapped.buffers
              /\ mapped.files # NoReg => mapped'.files # NoReg
  <2>1. CASE r \in FileSets
    BY <1>6, <2>1, SortFacts
  <2>2. CASE r \in Regs
    <3>1. inFlight = TRUE
      BY <1>1, <2>2 DEF OneRegistration, Underway
    <3>2. \A n \in 1 .. Len(posted) : ~Answered(n, "buffers")
      <4> SUFFICES ASSUME NEW n \in 1 .. Len(posted), Answered(n, "buffers") PROVE FALSE
        OBVIOUS
      <4>0. posted \in Seq(Registrations)
        BY DEF TypeOK
      <4>1. posted[n] \in Regs /\ phase[posted[n]] = "succeeded"
        BY <4>0, SortFacts DEF Answered, Registrations
      <4> QED
        BY <1>1, <2>2, <4>1 DEF OneRegistration, Underway
    <3>3. mapped.buffers = current.buffers
      BY <3>2 DEF MappedExact, Sorts
    <3>4. /\ handle[h].buffer \in Buffers /\ checkedOut[handle[h].buffer] = TRUE
          /\ handle[h].buffer[1] = mapped.buffers
      BY <1>10, HandleFields DEF TypeOK, Owned, HandleOwns, Stored, HandleSafe, Registered
    <3> QED
      BY <3>1, <3>3, <3>4 DEF OneRegistration, AnyCheckedOut
  <2> QED
    BY <2>1, <2>2 DEF Registrations
<1>11. OneHandle' /\ Owned' /\ Stored'
  BY <1>1, <1>4, <1>10, HandlesKept
<1>12. PinnedIsKept'
  BY <1>1, <1>4 DEF PinnedIsKept, TypeOK
<1> QED
  BY <1>3, <1>8, <1>9, <1>11, <1>12

\* The platform refuses a registration: nothing changes but the queue.
LEMMA KernelRefusesIInv ==
  ASSUME IInv, NEW r \in Registrations, KernelRefuses(r)
  PROVE  IInv'
<1> USE DEF IInv
<1>1. /\ phase[r] = "kernel" /\ phase' = [phase EXCEPT ![r] = "failed"]
      /\ posted' = Append(posted, r)
      /\ UNCHANGED <<ring, mode, current, retired, inFlight, collection, bufferVars, handle,
                     mapped, pinned>>
  BY DEF KernelRefuses
<1>2. posted' \in Seq(Registrations)
  BY <1>1, PostedAppend
<1>3. PostedExact' /\ MappedExact'
  BY <1>1, QueueGrows
<1>4. /\ phase'[r] = "failed" /\ \A q \in Registrations \ {r} : phase'[q] = phase[q]
      /\ phase' \in [Registrations -> {"new", "built", "kernel", "succeeded", "failed",
                                       "adopted", "returned"}]
  BY <1>1 DEF TypeOK
<1>5. checkedOut' = checkedOut /\ prefix' = prefix /\ written' = written
  BY <1>1 DEF bufferVars
<1>8. TypeOK'
  BY <1>1, <1>2, <1>4, <1>5 DEF TypeOK
<1>9. OneRegistration'
  BY <1>1, <1>4, <1>5, SortFacts DEF OneRegistration, AnyCheckedOut, Underway
<1>11. OneHandle' /\ Owned' /\ Stored'
  BY <1>1, <1>4, HandlesKept
<1>12. PinnedIsKept'
  BY <1>1, <1>4 DEF PinnedIsKept, TypeOK
<1> QED
  BY <1>3, <1>8, <1>9, <1>11, <1>12

-----------------------------------------------------------------------------
(* The driver's beginning and end. *)

\* A new ring is empty, and the mode of the driver is nobody else's concern.
LEMMA RingStepIInv ==
  ASSUME IInv, BuildRing \/ CreateDriver \/ CreateDriverFails \/ Shutdown
  PROVE  IInv'
<1> USE DEF IInv
<1>1. UNCHANGED <<current, retired, inFlight, phase, posted, collection, bufferVars,
                  handle, mapped, pinned>>
  BY DEF BuildRing, CreateDriver, CreateDriverFails, Shutdown
<1>2. checkedOut' = checkedOut /\ prefix' = prefix /\ written' = written
  BY <1>1 DEF bufferVars
<1>3. ring' \in RingType
  <2>1. CASE BuildRing
    <3>1. PICK host \in Hosts, request \in Requests : Build(host, request)
      BY <2>1 DEF BuildRing
    <3>2. host \in Capabilities /\ request \in IoRingBuilder
      BY RingAssumption
    <3> QED
      BY <3>1, <3>2 DEF Build, Create, RingType, Capabilities, IoRingBuilder
  <2>2. CASE CreateDriver \/ Shutdown
    BY <2>2 DEF CreateDriver, Shutdown, TypeOK
  <2>3. CASE CreateDriverFails
    BY <2>3 DEF CreateDriverFails, CloseRing, TypeOK, RingType
  <2> QED
    BY <2>1, <2>2, <2>3
<1>4. mode' \in {"None", "Running", "ShuttingDown", "Closed"}
  BY DEF BuildRing, CreateDriver, CreateDriverFails, Shutdown, TypeOK
<1>5. TypeOK'
  BY <1>1, <1>2, <1>3, <1>4 DEF TypeOK
<1>6. PostedExact' /\ MappedExact' /\ OneRegistration' /\ PinnedIsKept'
  BY <1>1, <1>2 DEF PostedExact, MappedExact, Answered, OneRegistration, AnyCheckedOut, PinnedIsKept
<1>7. OneHandle' /\ Owned' /\ Stored'
  BY <1>1, HandlesKept
<1> QED
  BY <1>5, <1>6, <1>7

\* The platform takes the queue.
LEMMA SubmitIInv ==
  ASSUME IInv, Submit
  PROVE  IInv'
<1> USE DEF IInv
<1>1. /\ phase' = [r \in Registrations |-> IF phase[r] = "built" THEN "kernel" ELSE phase[r]]
      /\ handle' = [h \in Handles |->
           IF handle[h].place = "built" THEN [handle[h] EXCEPT !.place = "kernel"] ELSE handle[h]]
      /\ UNCHANGED <<ring, mode, current, retired, inFlight, posted, collection, bufferVars,
                     mapped, pinned>>
  BY DEF Submit
<1>2. checkedOut' = checkedOut /\ prefix' = prefix /\ written' = written
  BY <1>1 DEF bufferVars
<1>3. ASSUME NEW h \in Handles
      PROVE  /\ handle'[h] \in HandleType
             /\ handle'[h].place = IF handle[h].place = "built" THEN "kernel" ELSE handle[h].place
             /\ handle'[h].buffer = handle[h].buffer
             /\ handle'[h].initialized = handle[h].initialized
             /\ handle'[h].entry = handle[h].entry
             /\ handle'[h].transferred = handle[h].transferred
  <2>1. handle[h] \in HandleType
    BY DEF TypeOK
  <2> QED
    BY <1>1, <2>1 DEF HandleType, Place
<1>4. /\ phase' \in [Registrations -> {"new", "built", "kernel", "succeeded", "failed",
                                       "adopted", "returned"}]
      /\ \A r \in Registrations : /\ phase'[r] \in Underway <=> phase[r] \in Underway
                                  /\ phase[r] \notin {"built"} => phase'[r] = phase[r]
                                  /\ phase[r] = "built" => phase'[r] = "kernel"
  BY <1>1 DEF TypeOK, Underway
<1>5. TypeOK'
  <2>1. handle' \in [Handles -> HandleType]
    BY <1>1, <1>3
  <2> QED
    BY <1>1, <1>2, <1>4, <2>1 DEF TypeOK
<1>6. posted \in Seq(Registrations)
  BY DEF TypeOK
<1>7. PostedExact' /\ MappedExact'
  <2>1. posted' = posted /\ mapped' = mapped /\ current' = current
    BY <1>1
  <2>2. \A n \in 1 .. Len(posted) : posted[n] \in Registrations
    BY <1>6
  <2>3. ASSUME NEW n \in 1 .. Len(posted)
        PROVE  phase'[posted[n]] = phase[posted[n]]
    <3>1. phase[posted[n]] \in {"succeeded", "failed"}
      BY DEF PostedExact
    <3> QED
      BY <1>4, <2>2, <3>1
  <2>4. PostedExact'
    <3>1. \A r \in Registrations : phase'[r] \in {"succeeded", "failed"} =>
            phase[r] \in {"succeeded", "failed"}
      BY <1>1
    <3> QED
      BY <2>1, <2>3, <3>1 DEF PostedExact
  <2>5. ASSUME NEW n \in 1 .. Len(posted), NEW sort
        PROVE  Answered(n, sort)' <=> Answered(n, sort)
    BY <2>1, <2>3 DEF Answered
  <2>6. Len(posted) \in Nat
    BY <1>6
  <2>7. \A n \in 1 .. Len(posted) : \A m \in n + 1 .. Len(posted) : m \in 1 .. Len(posted)
    BY <2>6
  <2>8. MappedExact'
    BY <2>1, <2>5, <2>7 DEF MappedExact
  <2> QED
    BY <2>4, <2>8
<1>8. OneRegistration'
  BY <1>1, <1>2, <1>4, SortFacts DEF OneRegistration, AnyCheckedOut
<1>9. PinnedIsKept'
  BY <1>1, <1>4 DEF PinnedIsKept
<1>10. OneHandle'
  BY <1>3 DEF OneHandle
<1>11. ASSUME NEW h \in Handles PROVE HandleOwns(h)' /\ HandleSafe(h)'
  <2>1. HandleOwns(h) /\ HandleSafe(h)
    BY DEF Owned, Stored
  <2>2. HandleOwns(h)'
    BY <1>2, <1>3, <1>4, <2>1, SortFacts DEF HandleOwns
  <2>3. HandleSafe(h)'
    BY <1>1, <1>2, <1>3, <2>1 DEF HandleSafe
  <2> QED
    BY <2>2, <2>3
<1>12. Owned'
  BY <1>1, <1>4, <1>11, SortFacts DEF Owned
<1>13. Stored'
  BY <1>2, <1>11 DEF Stored
<1> QED
  BY <1>5, <1>7, <1>8, <1>9, <1>10, <1>12, <1>13

\* close_and_release: what was never taken is answered or dropped.
LEMMA CloseIInv ==
  ASSUME IInv, Close
  PROVE  IInv'
<1> USE DEF IInv
<1> DEFINE Dropped(b) == \E h \in Handles : /\ handle[h].place = "built" /\ handle[h].orphan
                                            /\ handle[h].buffer = b
<1>1. /\ \A h \in Handles : handle[h].place \notin {"kernel", "posted"}
      /\ \A r \in Registrations : phase[r] # "kernel"
      /\ posted = <<>> /\ ring' = [ring EXCEPT !.state = "closed"] /\ mode' = "Closed"
      /\ current' = None /\ retired' = {} /\ inFlight' = FALSE
      /\ phase' = [r \in Registrations |-> IF phase[r] = "built" THEN "returned" ELSE phase[r]]
      /\ checkedOut' = [b \in Buffers |-> checkedOut[b] /\ ~Dropped(b)]
      /\ handle' = [h \in Handles |->
           IF handle[h].place # "built" THEN handle[h]
           ELSE IF handle[h].orphan THEN NoHandle
           ELSE [handle[h] EXCEPT !.place = "slot", !.transferred = Failed]]
      /\ mapped' = None /\ pinned' = {}
      /\ UNCHANGED <<posted, collection, prefix, written>>
  BY DEF Close, CloseRing
<1>2. ASSUME NEW h \in Handles
      PROVE  /\ handle'[h] \in HandleType
             /\ handle'[h].place # "none" =>
                  /\ handle[h].place # "none" /\ handle'[h].buffer = handle[h].buffer
                  /\ handle'[h].initialized = handle[h].initialized
                  /\ ~(handle[h].place = "built" /\ handle[h].orphan)
             /\ handle'[h].place \notin {"built", "kernel", "posted"}
             /\ handle'[h].entry.data.kind = "Raw" => handle'[h].entry.data.offset = 0
             /\ handle'[h].place = "slot" /\ handle'[h].transferred # Failed =>
                  handle'[h] = handle[h]
  <2>1. handle[h] \in HandleType /\ HandleSafe(h)
    BY DEF TypeOK, Stored
  <2>2. CASE handle[h].place # "built"
    <3>1. handle'[h] = handle[h]
      BY <1>1, <2>2
    <3> QED
      BY <1>1, <2>1, <2>2, <3>1 DEF HandleSafe
  <2>3. CASE handle[h].place = "built" /\ handle[h].orphan
    <3>1. handle'[h] = NoHandle
      BY <1>1, <2>3
    <3> QED
      BY <3>1, NoHandleType
  <2>4. CASE handle[h].place = "built" /\ ~handle[h].orphan
    <3>1. handle'[h] = [handle[h] EXCEPT !.place = "slot", !.transferred = Failed]
      BY <1>1, <2>4
    <3>2. /\ handle'[h] \in HandleType /\ handle'[h].place = "slot"
          /\ handle'[h].buffer = handle[h].buffer
          /\ handle'[h].initialized = handle[h].initialized
          /\ handle'[h].entry = handle[h].entry /\ handle'[h].transferred = Failed
      <4>1. -1 \in -1 .. Extent
        BY RegistryAssumption
      <4> QED
        BY <2>1, <3>1, <4>1 DEF HandleType, Place, Failed
    <3> QED
      BY <2>1, <2>4, <3>2 DEF HandleSafe
  <2> QED
    BY <2>2, <2>3, <2>4
<1>3. \A r \in Registrations : phase[r] \notin {"succeeded", "failed", "kernel"}
  <2>1. Len(posted) = 0
    BY <1>1
  <2>2. \A r \in Registrations : phase[r] \notin {"succeeded", "failed"}
    BY <2>1 DEF PostedExact
  <2>3. \A r \in Registrations : phase[r] # "kernel"
    BY <1>1
  <2> QED
    BY <2>2, <2>3
<1>4. /\ phase' \in [Registrations -> {"new", "built", "kernel", "succeeded", "failed",
                                       "adopted", "returned"}]
      /\ \A r \in Registrations : /\ phase'[r] \notin Underway
                                  /\ phase[r] = "adopted" => phase'[r] = "adopted"
  BY <1>1, <1>3 DEF TypeOK, Underway
<1>5. checkedOut' \in [Buffers -> BOOLEAN]
  BY <1>1
<1>6. None \in [buffers : Regs \cup {NoReg}, files : FileSets \cup {NoReg}]
  BY DEF None
<1>7. TypeOK'
  <2>1. handle' \in [Handles -> HandleType]
    BY <1>1, <1>2
  <2>2. ring' \in RingType
    BY <1>1 DEF TypeOK, RingType
  <2> QED
    BY <1>1, <1>4, <1>5, <1>6, <2>1, <2>2 DEF TypeOK
<1>8. PostedExact' /\ MappedExact'
  <2>1. Len(posted') = 0
    BY <1>1
  <2>2. PostedExact'
    BY <1>4, <2>1 DEF PostedExact, Underway
  <2>3. \A sort \in Sorts : mapped'[sort] = current'[sort]
    BY <1>1
  <2> QED
    BY <2>1, <2>2, <2>3 DEF MappedExact
<1>9. OneRegistration' /\ PinnedIsKept'
  BY <1>1, <1>4, SortFacts DEF OneRegistration, PinnedIsKept
<1>10. OneHandle'
  BY <1>2 DEF OneHandle
<1>11. ASSUME NEW h \in Handles PROVE HandleOwns(h)' /\ HandleSafe(h)'
  <2>1. HandleOwns(h) /\ HandleSafe(h) /\ handle[h].buffer \in Buffers
    BY HandleFields DEF Owned, Stored, TypeOK
  <2>2. HandleOwns(h)'
    <3> SUFFICES ASSUME handle'[h].place # "none"
        PROVE  /\ checkedOut'[handle'[h].buffer] = TRUE
               /\ handle'[h].initialized = prefix'[handle'[h].buffer]
               /\ handle'[h].buffer[1] \in Regs => phase'[handle'[h].buffer[1]] = "adopted"
      BY DEF HandleOwns
    <3>1. /\ handle[h].place # "none" /\ handle'[h].buffer = handle[h].buffer
          /\ handle'[h].initialized = handle[h].initialized
          /\ ~(handle[h].place = "built" /\ handle[h].orphan)
      BY <1>2
    <3>2. ~Dropped(handle[h].buffer)
      BY <3>1 DEF OneHandle
    <3>3. checkedOut[handle[h].buffer] = TRUE
      BY <2>1, <3>1 DEF HandleOwns
    <3> HIDE DEF Dropped
    <3>4. checkedOut'[handle[h].buffer] = TRUE
      BY <1>1, <2>1, <3>2, <3>3
    <3> QED
      BY <1>1, <1>4, <2>1, <3>1, <3>4, SortFacts DEF HandleOwns
  <2>3. HandleSafe(h)'
    BY <1>1, <1>2, <2>1 DEF HandleSafe
  <2> QED
    BY <2>2, <2>3
<1>12. Owned'
  BY <1>1, <1>4, <1>11, SortFacts DEF Owned
<1>13. Stored'
  BY <1>1, <1>11 DEF Stored
<1> QED
  BY <1>7, <1>8, <1>9, <1>10, <1>12, <1>13

-----------------------------------------------------------------------------
(* The theorems. *)

\* Nothing is registered and nobody has a handle.
LEMMA InitIInv == Init => IInv
<1> SUFFICES ASSUME Init PROVE IInv
  OBVIOUS
<1>1. /\ ring = NoRing /\ mode = "None" /\ current = None /\ retired = {} /\ inFlight = FALSE
      /\ phase = [r \in Registrations |-> "new"] /\ posted = <<>>
      /\ collection = {Foreign} /\ checkedOut = [b \in Buffers |-> FALSE]
      /\ prefix = [b \in Buffers |-> 0] /\ handle = [h \in Handles |-> NoHandle]
      /\ mapped = None /\ pinned = {} /\ written = [b \in Buffers |-> {}]
  BY DEF Init
<1>2. \A h \in Handles : handle[h] = NoHandle
  BY <1>1
<1>3. TypeOK
  <2>1. NoRing \in RingType
    BY DEF NoRing, RingType
  <2>2. None \in [buffers : Regs \cup {NoReg}, files : FileSets \cup {NoReg}]
    BY DEF None
  <2>3. 0 \in 0 .. Extent
    BY RegistryAssumption
  <2> QED
    <3>1. handle \in [Handles -> HandleType]
      BY <1>1, NoHandleType
    <3>2. /\ phase \in [Registrations -> {"new", "built", "kernel", "succeeded", "failed",
                                         "adopted", "returned"}]
          /\ posted \in Seq(Registrations)
      BY <1>1
    <3>3. /\ checkedOut \in [Buffers -> BOOLEAN] /\ prefix \in [Buffers -> 0 .. Extent]
          /\ written \in [Buffers -> SUBSET Bytes]
      BY <1>1, <2>3
    <3>4. collection \subseteq Regs \cup {Foreign} /\ inFlight \in BOOLEAN
      BY <1>1
    <3> QED
      BY <1>1, <2>1, <2>2, <3>1, <3>2, <3>3, <3>4 DEF TypeOK
<1>4. PostedExact /\ MappedExact /\ OneRegistration /\ PinnedIsKept
  BY <1>1, SortFacts DEF PostedExact, MappedExact, OneRegistration, PinnedIsKept, Underway
<1>5. \A h \in Handles : HandleOwns(h) /\ HandleSafe(h)
  BY <1>2, NoHandleType DEF HandleOwns, HandleSafe
<1>6. OneHandle /\ Owned
  BY <1>1, <1>2, <1>5, NoHandleType, SortFacts DEF OneHandle, Owned
<1>7. \A b \in Buffers : Span(0, prefix[b]) \subseteq written[b]
  BY <1>1 DEF Span
<1>8. Stored
  BY <1>5, <1>7 DEF Stored
<1> QED
  BY <1>3, <1>4, <1>6, <1>8 DEF IInv

\* Every step keeps the invariant.
LEMMA NextIInv == IInv /\ [Next]_vars => IInv'
<1> SUFFICES ASSUME IInv, [Next]_vars PROVE IInv'
  OBVIOUS
<1>1. CASE RegistrationStep
  BY <1>1, AdoptRegistrationIInv, ReturnRegistrationIInv, RegisterBuffersIInv,
     DropCollectionIInv, RegisterFilesIInv, KernelRegistersIInv, KernelRefusesIInv
     DEF RegistrationStep
<1>2. CASE HandleStep
  <2>1. PICK h \in Handles :
          \/ \E b \in Buffers : CheckOut(h, b[1], b[2])
          \/ DropHandle(h) \/ DropFuture(h) \/ Reap(h) \/ PollRegistered(h) \/ PollPlain(h)
          \/ \E len \in 0 .. Extent : Fill(h, len)
          \/ \E code \in {"READ", "WRITE"}, len \in 0 .. Extent :
               \/ PlainOp(h, code, len)
               \/ \E file \in Targets, start \in 0 .. Extent :
                    RegisteredOp(h, code, file, start, len)
          \/ \E transferred \in Failed .. Extent : KernelTransfers(h, transferred)
    BY <1>2 DEF HandleStep
  <2>2. CASE DropHandle(h) \/ DropFuture(h) \/ Reap(h) \/ PollRegistered(h) \/ PollPlain(h)
    BY <2>2, DropHandleIInv, DropFutureIInv, ReapIInv, PollRegisteredIInv, PollPlainIInv
  <2>3. CASE \E b \in Buffers : CheckOut(h, b[1], b[2])
    BY <2>3, CheckOutIInv
  <2>4. CASE \E len \in 0 .. Extent : Fill(h, len)
    BY <2>4, FillIInv
  <2>5. CASE \E code \in {"READ", "WRITE"}, len \in 0 .. Extent :
               \/ PlainOp(h, code, len)
               \/ \E file \in Targets, start \in 0 .. Extent :
                    RegisteredOp(h, code, file, start, len)
    BY <2>5, PlainOpIInv, RegisteredOpIInv
  <2>6. CASE \E transferred \in Failed .. Extent : KernelTransfers(h, transferred)
    BY <2>6, KernelTransfersIInv
  <2> QED
    BY <2>1, <2>2, <2>3, <2>4, <2>5, <2>6
<1>3. CASE DriverStep
  BY <1>3, RingStepIInv, SubmitIInv, CloseIInv DEF DriverStep
<1>4. CASE UNCHANGED vars
  <2>1. UNCHANGED <<ring, mode, current, retired, inFlight, phase, posted, collection,
                    checkedOut, prefix, written, handle, mapped, pinned>>
    BY <1>4 DEF vars, driverVars, bufferVars
  <2>2. TypeOK' /\ PostedExact' /\ MappedExact' /\ OneRegistration' /\ PinnedIsKept'
    BY <2>1 DEF IInv, TypeOK, PostedExact, MappedExact, Answered, OneRegistration,
                AnyCheckedOut, PinnedIsKept
  <2>3. OneHandle' /\ Owned' /\ Stored'
    BY <2>1, HandlesKept DEF bufferVars
  <2> QED
    BY <2>2, <2>3 DEF IInv
<1> QED
  BY <1>1, <1>2, <1>3, <1>4 DEF Next

\* The inductive invariant holds after every registration, adoption, checkout,
\* operation and release of registry.rs.
THEOREM RegistrySound == Spec => []IInv
BY InitIInv, NextIInv, PTL DEF Spec

\* Until an operation by index has been executed, the platform resolves the
\* index against the registration its buffer belongs to: the in-flight flag and
\* the checked-out flags together keep it from being superseded.
THEOREM IndicesResolve == Spec => []ResolvesOwnRegistration
<1>1. IInv => ResolvesOwnRegistration
  <2> SUFFICES ASSUME IInv PROVE ResolvesOwnRegistration
    OBVIOUS
  <2>1. \A h \in Handles : HandleSafe(h)
    BY DEF IInv, Stored
  <2>2. ASSUME posted = <<>> PROVE current = mapped
    <3>1. /\ current \in [buffers : Regs \cup {NoReg}, files : FileSets \cup {NoReg}]
          /\ mapped \in [buffers : Regs \cup {NoReg}, files : FileSets \cup {NoReg}]
      BY DEF IInv, TypeOK
    <3>2. Len(posted) = 0
      BY <2>2
    <3>3. mapped.buffers = current.buffers /\ mapped.files = current.files
      BY <3>2 DEF IInv, MappedExact, Sorts
    <3> QED
      BY <3>1, <3>3
  <2> QED
    BY <2>1, <2>2 DEF ResolvesOwnRegistration, HandleSafe, Registered
<1> QED
  BY <1>1, RegistrySound, PTL

\* No buffer ever has two handles, those in abandoned operations included
\* (the checked-out flag, and RegisteredBuf's drop that clears it).
THEOREM BuffersHaveOneHandle == Spec => []OneHandle
<1>1. IInv => OneHandle
  BY DEF IInv
<1> QED
  BY <1>1, RegistrySound, PTL

\* What the platform has pointers to is kept until the ring is closed: an
\* adoption retires the registration it replaces instead of dropping it.
THEOREM RegistrationsKept == Spec => []PinnedIsKept
<1>1. IInv => PinnedIsKept
  BY DEF IInv
<1> QED
  BY <1>1, RegistrySound, PTL

\* No initialized prefix covers a byte that was never stored: a read by index
\* raises it only from inside it, a plain read sets it to what it transferred.
THEOREM PrefixesHonest == Spec => []PrefixHonest
<1>1. IInv => PrefixHonest
  BY DEF IInv, PrefixHonest, Stored, Owned, HandleOwns
<1> QED
  BY <1>1, RegistrySound, PTL

\* No write the platform may still execute covers such a byte: the start holds
\* its range against the prefix, of a buffer its handle has to itself.
THEOREM WritesAreInitialized == Spec => []WritesInitialized
<1>1. IInv => WritesInitialized
  <2> SUFFICES ASSUME IInv, NEW h \in Handles, handle[h].place \in {"built", "kernel"},
                      ~Reading(h)
      PROVE  Span(handle[h].entry.data.offset, handle[h].entry.len)
               \subseteq written[handle[h].buffer]
    BY DEF WritesInitialized
  <2>1. HandleSafe(h) /\ handle[h].entry.code \in {"READ", "WRITE"}
    BY HandleFields DEF IInv, Stored, TypeOK
  <2> QED
    BY <2>1 DEF HandleSafe, Reading
<1> QED
  BY <1>1, RegistrySound, PTL
=============================================================================
