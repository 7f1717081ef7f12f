-------------------------------- MODULE Ring --------------------------------
(***************************************************************************)
(* The raw layer (io_ring/): IoRing is a handle that refuses every call    *)
(* once it is closed, its builder takes only a ring the host can provide,  *)
(* and a descriptor names the file and the memory of an entry either       *)
(* directly or by a registration's index.  Who calls it owns what an entry *)
(* refers to; Registry is such a caller.                                   *)
(***************************************************************************)
EXTENDS Integers, FiniteSets

CONSTANTS
  Hosts,      \* what hosts may report: features, version and operations
  Requests,   \* what a builder may be told: features required, and a version
  QueueSize   \* the submission queue the platform allocates

OpCodes == {"READ", "WRITE", "REGISTER_BUFFERS", "REGISTER_FILES"}
SetCompletionEvent == "SET_COMPLETION_EVENT"
HostMaximum == 0   \* IoRingBuilder::version is None

\* What a host reports, and what a builder may be told.
Capabilities ==
  [version : Nat \ {0}, features : SUBSET {SetCompletionEvent}, ops : SUBSET OpCodes]
IoRingBuilder == [version : Nat, features : SUBSET {SetCompletionEvent}]

ASSUME RingAssumption ==
  /\ \A h \in Hosts : h \in Capabilities
  /\ \A q \in Requests : q \in IoRingBuilder
  /\ QueueSize \in Nat \ {0}

VARIABLE ring   \* IoRing: none yet, open or closed, and what its host supports

NoRing == [state |-> "none", version |-> 0, features |-> {}, ops |-> {}]

RingType == [state : {"none", "open", "closed"}, version : Nat,
             features : SUBSET {SetCompletionEvent}, ops : SUBSET OpCodes]

-----------------------------------------------------------------------------
(* Building and closing. *)

SupportsFeatures(host, required) == required \subseteq host.features

\* IoRing::create; the queues are empty.
Create(host, version) ==
  ring' = [state |-> "open", version |-> version, features |-> host.features, ops |-> host.ops]

\* IoRingBuilder::build, which gives no ring unless the host has what is
\* asked of it.
Build(host, request) ==
  /\ ring.state = "none"
  /\ SupportsFeatures(host, request.features)
  /\ request.version <= host.version
  /\ Create(host, IF request.version = HostMaximum THEN host.version ELSE request.version)

\* Every method asks this first.
EnsureOpen == ring.state = "open"

EnsureOpSupported(code) == EnsureOpen /\ code \in ring.ops

\* set_io_ring_completion_event: the platform takes an event on a ring that
\* can signal one.
TakesCompletionEvent == EnsureOpen /\ SetCompletionEvent \in ring.features

CloseRing == ring' = [ring EXCEPT !.state = "closed"]

-----------------------------------------------------------------------------
(* Entries. *)

\* HandleRef and BufferRef: by value, or by index.
RawHandle             == [kind |-> "Raw", index |-> 0]
RegisteredHandle(i)   == [kind |-> "Registered", index |-> i]
RawData               == [kind |-> "Raw", index |-> 0, offset |-> 0]
RegisteredData(i, at) == [kind |-> "Registered", index |-> i, offset |-> at]

ReadOp(file, data, len)  == [code |-> "READ", handle |-> file, data |-> data, len |-> len]
WriteOp(file, data, len) == [code |-> "WRITE", handle |-> file, data |-> data, len |-> len]

\* build_read_file and build_write_file: an entry is built on an open ring
\* with room in its queue.
BuildEntry(queued) == EnsureOpen /\ queued < QueueSize

\* build_register_buffers and build_register_file_handles, whose callers ask
\* for the operation first.
BuildRegistration(code, queued) == EnsureOpSupported(code) /\ BuildEntry(queued)
=============================================================================
