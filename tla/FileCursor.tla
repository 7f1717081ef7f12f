------------------------------ MODULE FileCursor ------------------------------
(***************************************************************************)
(* One handle, opened as a File (file.rs) or as a pipe Client              *)
(* (pipe/client.rs), and the operations on it:                             *)
(*                                                                         *)
(*   - sequential ones, which start at a cursor that the values of one     *)
(*     File (it is Clone) share.  A future borrows its value; the guard    *)
(*     that keeps a second operation out is in the driver's payload and    *)
(*     goes when the operation completes, with or without its future;      *)
(*   - positional ones and flushes, which borrow nothing.                  *)
(*                                                                         *)
(* Every future ends in a conversion of the driver's error to that of the  *)
(* surface it was made by.  Reads and writes differ only in the call to    *)
(* the driver.                                                             *)
(***************************************************************************)
EXTENDS Integers, FiniteSets, Errors

CONSTANTS
  Values,       \* the values of one File that exist
  Nobody,       \* the future of an operation was dropped
  Calls,        \* the positional futures that exist
  MaxCursor,    \* u64::MAX
  MaxLen        \* the longest transfer

ASSUME FileCursorAssumption ==
  /\ IsFiniteSet(Values) /\ Nobody \notin Values
  /\ MaxCursor \in Nat /\ MaxLen \in Nat

VARIABLES
  handle,        \* what is open: GetFileType's answer, or "" before an open
  client,        \* it was opened by ClientOptions::open
  fileType,      \* FileState::file_type
  cursor,        \* FileState::cursor
  outstanding,   \* FileState::sequential_outstanding
  kernel,        \* sequential operations the driver holds payloads of
  future,        \* each value's SequentialRead or SequentialWrite
  positional,    \* each PositionalRead or Write, Flush, PipeRead or Write
  reported,      \* what the last step told its caller
  excused        \* values whose operations share an offset, or lost the cursor

vars == <<handle, client, fileType, cursor, outstanding, kernel, future, positional,
          reported, excused>>

Cursor == 0 .. MaxCursor
Failed == -1                           \* a transfer that failed
NoType == ""
Types  == {"DISK", "UNKNOWN", "CHAR", "PIPE"}

\* What the driver answers: bytes, a platform code, or its own condition.
Answer == [bytes : Failed .. MaxLen, code : Codes \cup {NoCode}, condition : Shared \cup {<<>>}]
Bytes(n)     == [bytes |-> n, code |-> NoCode, condition |-> <<>>]
Code(c)      == [bytes |-> Failed, code |-> c, condition |-> <<>>]
Condition(e) == [bytes |-> Failed, code |-> NoCode, condition |-> e]

\* A step's report: the surface, the answer behind it, and the error given.
NoReport == [surface |-> "", answer |-> Bytes(0), error |-> <<>>]
Report(surface, answer, error) == [surface |-> surface, answer |-> answer, error |-> error]

Operation == [owner : Values \cup {Nobody}, offset : Cursor]
NoFuture  == [state |-> "none", offset |-> 0, answer |-> Bytes(0)]
NoCall    == [state |-> "none", op |-> "", surface |-> "", answer |-> Bytes(0)]

TypeOK ==
  /\ handle \in Types \cup {NoType} /\ fileType \in {NoType, handle}
  /\ client \in BOOLEAN /\ outstanding \in BOOLEAN
  /\ cursor \in Cursor
  /\ kernel \subseteq Operation
  /\ future \in [Values -> [state : {"none", "NotSeekable", "OperationOutstanding",
                                     "Waiting", "Resolved"},
                            offset : Cursor, answer : Answer]]
  /\ positional \in [Calls -> [state : {"none", "Waiting", "Resolved"},
                               op : {"", "transfer", "flush"},
                               surface : {"", "driver", "file", "pipe"}, answer : Answer]]
  /\ excused \subseteq Values

Init ==
  /\ handle = NoType /\ client = FALSE
  /\ fileType = NoType
  /\ cursor = 0
  /\ outstanding = FALSE
  /\ kernel = {}
  /\ future = [v \in Values |-> NoFuture]
  /\ positional = [c \in Calls |-> NoCall]
  /\ reported = NoReport
  /\ excused = {}

\* The codes a completion on this handle carries.
CodesOf == IF handle = "PIPE" THEN Codes
           ELSE {"IORING_E_SUBMISSION_QUEUE_FULL", "E_FAIL"}
\* An operation fails, is abandoned when the driver shuts down, or moves
\* bytes; a flush moves none.
Failures == {Code(c) : c \in CodesOf} \cup {Condition(<<"AbandonedAtShutdown">>)}
Answers  == Failures \cup {Bytes(n) : n \in 0 .. MaxLen}

\* What the driver refuses before the kernel sees it.  A transfer's buffer is
\* also held against its length (TooSmall stands for Uninitialized, a write's,
\* too); a flush has none.
FlushRefusals == {<<"ShuttingDown">>, <<"Ring", "UnsupportedOp">>, <<"TooManyOperations">>,
                  <<"Ring", "QueueFull">>}
Refusals      == FlushRefusals \cup {<<"Buf", "TooSmall">>}

\* The driver future's own error: runtime::Error, from the code if there is one.
DriverErrorOf(answer) == IF answer.code # NoCode THEN DriverError(answer.code) ELSE answer.condition

\* What a surface makes of an answer; nothing for bytes.
Converted(surface, answer) ==
  IF answer.bytes # Failed THEN <<>>
  ELSE CASE surface = "driver" -> DriverErrorOf(answer)
         [] surface = "file"   -> FileError(DriverErrorOf(answer))
         [] surface = "pipe"   -> PipeFromDriver(DriverErrorOf(answer))

\* advance_on_success, with u64::saturating_add.
Advanced(answer) ==
  IF answer.bytes = Failed THEN cursor
  ELSE IF cursor + answer.bytes > MaxCursor THEN MaxCursor ELSE cursor + answer.bytes

-----------------------------------------------------------------------------
(* Opening. *)

\* File::open, create, from_std and from_raw_handle: a file, a device, or a
\* pipe's handle adopted as a file.
OpenFile(type) ==
  /\ handle = NoType
  /\ handle' = type
  /\ reported' = NoReport
  /\ UNCHANGED <<client, fileType, cursor, outstanding, kernel, future, positional, excused>>

\* ClientOptions::open: no instance is free, there is no pipe, or the open
\* failed without a code, for which E_FAIL stands.
OpenClientFails(c) ==
  /\ handle = NoType
  /\ reported' = Report("pipe", Code(c), PipeError(c))
  /\ UNCHANGED <<handle, client, fileType, cursor, outstanding, kernel, future, positional,
                 excused>>

OpenClient ==
  /\ handle = NoType
  /\ handle' = "PIPE" /\ client' = TRUE
  /\ reported' = NoReport
  /\ UNCHANGED <<fileType, cursor, outstanding, kernel, future, positional, excused>>

-----------------------------------------------------------------------------
(* File::read and File::write.  A Client lends its File, and a File can be *)
(* cloned, so they can be called on a pipe too.                            *)

\* check_has_file_offset: asked once, and open to a type it does not know.
HasFileOffset == handle \notin {"PIPE", "CHAR"}

\* Values whose bytes have arrived and whose future has not been polled.
Unpolled == {w \in Values : future[w].state = "Resolved" /\ future[w].answer.bytes > 0}

\* Those, and the value that starts now, read or write at the same offset.
Overlapping(v) == IF Unpolled = {} THEN {} ELSE Unpolled \cup {v}

RejectNotSeekable(v) ==
  /\ handle # NoType
  /\ future[v].state = "none"
  /\ ~HasFileOffset
  /\ fileType' = handle
  /\ future' = [future EXCEPT ![v].state = "NotSeekable"]
  /\ reported' = NoReport
  /\ UNCHANGED <<handle, client, cursor, outstanding, kernel, positional, excused>>

RejectOutstanding(v) ==
  /\ handle # NoType
  /\ future[v].state = "none"
  /\ HasFileOffset
  /\ outstanding
  /\ fileType' = handle
  /\ future' = [future EXCEPT ![v].state = "OperationOutstanding"]
  /\ reported' = NoReport
  /\ UNCHANGED <<handle, client, cursor, outstanding, kernel, positional, excused>>

\* The guard is claimed, and the driver refuses the operation: the guard goes
\* with the payload, and the future is born with the driver's answer.
StartRefused(v, refusal) ==
  /\ handle # NoType
  /\ future[v].state = "none"
  /\ HasFileOffset
  /\ ~outstanding
  /\ fileType' = handle
  /\ future' = [future EXCEPT ![v] = [state |-> "Resolved", offset |-> cursor,
                                      answer |-> Condition(refusal)]]
  /\ excused' = excused \cup Overlapping(v)
  /\ reported' = NoReport
  /\ UNCHANGED <<handle, client, cursor, outstanding, kernel, positional>>

\* Mutant: the guard is not consulted.
StartUnguarded(v) ==
  /\ handle # NoType
  /\ future[v].state = "none"
  /\ HasFileOffset
  /\ fileType' = handle
  /\ outstanding' = TRUE
  /\ kernel' = kernel \cup {[owner |-> v, offset |-> cursor]}
  /\ future' = [future EXCEPT ![v] = [NoFuture EXCEPT !.state = "Waiting", !.offset = cursor]]
  /\ excused' = excused \cup Overlapping(v)
  /\ reported' = NoReport
  /\ UNCHANGED <<handle, client, cursor, positional>>

Start(v) ==
  /\ handle # NoType
  /\ future[v].state = "none"
  /\ HasFileOffset
  /\ ~outstanding
  /\ fileType' = handle
  /\ outstanding' = TRUE
  /\ kernel' = kernel \cup {[owner |-> v, offset |-> cursor]}
  /\ future' = [future EXCEPT ![v] = [NoFuture EXCEPT !.state = "Waiting", !.offset = cursor]]
  /\ excused' = excused \cup Overlapping(v)
  /\ reported' = NoReport
  /\ UNCHANGED <<handle, client, cursor, positional>>

\* File::set_cursor, which needs the value too.
SetCursor(v, position) ==
  /\ handle # NoType
  /\ future[v].state = "none"
  /\ cursor' = position
  /\ excused' = {w \in Values : future[w].state \in {"Waiting", "Resolved"}}
  /\ reported' = NoReport
  /\ UNCHANGED <<handle, client, fileType, outstanding, kernel, future, positional>>

-----------------------------------------------------------------------------
(* The driver and the sequential futures. *)

\* The driver drops the payload, and the guard in it; the future learns of
\* the outcome when it is polled.
Complete(o, answer) ==
  /\ o \in kernel
  /\ kernel' = kernel \ {o}
  /\ outstanding' = FALSE
  /\ future' = IF o.owner = Nobody THEN future
               ELSE [future EXCEPT ![o.owner].state = "Resolved", ![o.owner].answer = answer]
  /\ reported' = NoReport
  /\ UNCHANGED <<handle, client, fileType, cursor, positional, excused>>

\* A refusal that never reached the driver is handed out as it is.
PollRejected(v) ==
  /\ future[v].state \in {"NotSeekable", "OperationOutstanding"}
  /\ future' = [future EXCEPT ![v] = NoFuture]
  /\ reported' = Report("file", Condition(<<future[v].state>>), <<future[v].state>>)
  /\ UNCHANGED <<handle, client, fileType, cursor, outstanding, kernel, positional, excused>>

\* The conversion, then the cursor.
Poll(v) ==
  /\ future[v].state = "Resolved"
  /\ cursor' = Advanced(future[v].answer)
  /\ future' = [future EXCEPT ![v] = NoFuture]
  /\ reported' = Report("file", future[v].answer, Converted("file", future[v].answer))
  /\ excused' = excused \ {v}
  /\ UNCHANGED <<handle, client, fileType, outstanding, kernel, positional>>

\* Mutant: dropping the future ends the operation for the file.
DropClearsGuard(v) ==
  /\ future[v].state # "none"
  /\ future' = [future EXCEPT ![v] = NoFuture]
  /\ kernel' = {IF o.owner = v THEN [o EXCEPT !.owner = Nobody] ELSE o : o \in kernel}
  /\ outstanding' = IF future[v].state = "Waiting" THEN FALSE ELSE outstanding
  /\ reported' = NoReport
  /\ excused' = excused \ {v}
  /\ UNCHANGED <<handle, client, fileType, cursor, positional>>

\* The operation goes on; its bytes are never counted.
DropFuture(v) ==
  /\ future[v].state # "none"
  /\ future' = [future EXCEPT ![v] = NoFuture]
  /\ kernel' = {IF o.owner = v THEN [o EXCEPT !.owner = Nobody] ELSE o : o \in kernel}
  /\ reported' = NoReport
  /\ excused' = excused \ {v}
  /\ UNCHANGED <<handle, client, fileType, cursor, outstanding, positional>>

-----------------------------------------------------------------------------
(* Positional operations and flushes: Handle's, File's or Client's. *)

\* Both kinds of future are made the same way: waiting, or born with the
\* driver's refusal.
Call(c, op, surface, refusals) ==
  /\ handle # NoType
  /\ positional[c].state = "none"
  /\ \/ positional' = [positional EXCEPT ![c] = [state |-> "Waiting", op |-> op,
                                                 surface |-> surface, answer |-> Bytes(0)]]
     \/ \E refusal \in refusals :
          positional' = [positional EXCEPT ![c] = [state |-> "Resolved", op |-> op,
                                                   surface |-> surface,
                                                   answer |-> Condition(refusal)]]
  /\ reported' = NoReport
  /\ UNCHANGED <<handle, client, fileType, cursor, outstanding, kernel, future, excused>>

\* File::read_at and write_at, or the driver's own.
IssueAt(c, surface) == Call(c, "transfer", surface, Refusals)

\* Client::read_at and write_at.
ClientAt(c) == client /\ Call(c, "transfer", "pipe", Refusals)

\* File::flush, or the driver's own; a Client lends its File for it.
Flush(c, surface) == Call(c, "flush", surface, FlushRefusals)

CompleteAt(c, answer) ==
  /\ positional[c].state = "Waiting"
  /\ positional[c].op = "flush" => answer \in Failures \cup {Bytes(0)}
  /\ positional' = [positional EXCEPT ![c].state = "Resolved", ![c].answer = answer]
  /\ reported' = NoReport
  /\ UNCHANGED <<handle, client, fileType, cursor, outstanding, kernel, future, excused>>

PollAt(c) ==
  /\ positional[c].state = "Resolved" /\ positional[c].op = "transfer"
  /\ reported' = Report(positional[c].surface, positional[c].answer,
                        Converted(positional[c].surface, positional[c].answer))
  /\ positional' = [positional EXCEPT ![c] = NoCall]
  /\ UNCHANGED <<handle, client, fileType, cursor, outstanding, kernel, future, excused>>

\* The driver's FlushFuture, or File's around it, gives no count.
PollFlush(c) ==
  /\ positional[c].state = "Resolved" /\ positional[c].op = "flush"
  /\ reported' = Report(positional[c].surface, positional[c].answer,
                        Converted(positional[c].surface, positional[c].answer))
  /\ positional' = [positional EXCEPT ![c] = NoCall]
  /\ UNCHANGED <<handle, client, fileType, cursor, outstanding, kernel, future, excused>>

Next ==
  \/ \E type \in Types : OpenFile(type)
  \/ \E c \in {"ERROR_PIPE_BUSY", "E_FAIL"} : OpenClientFails(c)
  \/ OpenClient
  \/ \E v \in Values :
       \/ RejectNotSeekable(v) \/ RejectOutstanding(v) \/ Start(v)
       \/ \E refusal \in Refusals : StartRefused(v, refusal)
       \/ PollRejected(v) \/ Poll(v) \/ DropFuture(v)
       \/ \E position \in Cursor : SetCursor(v, position)
  \/ \E o \in kernel, answer \in Answers : Complete(o, answer)
  \/ \E c \in Calls :
       \/ \E surface \in {"driver", "file"} : IssueAt(c, surface) \/ Flush(c, surface)
       \/ ClientAt(c)
       \/ \E answer \in Answers : CompleteAt(c, answer)
       \/ PollAt(c) \/ PollFlush(c)

Spec == Init /\ [][Next]_vars

-----------------------------------------------------------------------------
(* Correctness. *)

\* The driver holds at most one sequential operation of a file, abandoned
\* ones included, and the flag says exactly whether it holds one.
GuardExact ==
  /\ Cardinality(kernel) <= 1
  /\ outstanding <=> kernel # {}

\* What is delivered next was read or written at the cursor: no bytes are
\* skipped and none are delivered twice, whatever was dropped or refused
\* before and whatever positional operations run.  Between the values of one
\* File it fails in two ways only: another value moved the cursor by hand, or
\* its operation had completed and not been polled when this one started.
DeliveredAtCursor ==
  \A v \in Values \ excused :
    (future[v].state = "Waiting" \/ v \in Unpolled) => future[v].offset = cursor

\* No error is invented and none is lost.  Whichever surface reports a
\* platform code, what it kept of it names the condition that the pipe
\* surface names; a condition that the crate detected carries no code, and is
\* never given the name of a pipe's.
ReportsHonestly ==
  reported.error # <<>> =>
    IF reported.answer.code # NoCode
      THEN LET kept == os_error(reported.error)
           IN  PipeError(reported.answer.code)
                 = IF kept = NoCode THEN reported.error ELSE PipeError(kept)
      ELSE os_error(reported.error) = NoCode /\ Head(reported.error) \notin PipeConditions
=============================================================================
