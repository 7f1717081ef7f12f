-------------------------------- MODULE Errors --------------------------------
(***************************************************************************)
(* The crate's error types, and how one becomes another: error.rs holds    *)
(* the only two tables from a platform code to a condition, and each       *)
(* surface (ring, driver, file, pipe) names what it can produce and        *)
(* carries the rest.                                                       *)
(*                                                                         *)
(* An error is the sequence of the variants it is nested in, outermost     *)
(* first: <<"Ring", "QueueFull">> is Error::Ring(QueueFull), and           *)
(* <<"Other", c>> carries the platform code c.                             *)
(***************************************************************************)
EXTENDS Integers, Sequences

\* The codes the tables name, and one that nothing names.
Codes == {"ERROR_PIPE_BUSY", "ERROR_BROKEN_PIPE", "ERROR_NO_DATA", "ERROR_PIPE_LISTENING",
          "IORING_E_SUBMISSION_QUEUE_FULL", "E_FAIL"}
NoCode == "no code"

pipe_table ==
  [c \in {"ERROR_PIPE_BUSY", "ERROR_BROKEN_PIPE", "ERROR_NO_DATA", "ERROR_PIPE_LISTENING"} |->
     CASE c = "ERROR_PIPE_BUSY"      -> "Busy"
       [] c = "ERROR_BROKEN_PIPE"    -> "Broken"
       [] c = "ERROR_NO_DATA"        -> "NoPeer"
       [] c = "ERROR_PIPE_LISTENING" -> "Listening"]
PipeConditions == {"Busy", "Broken", "NoPeer", "Listening"}

ring_table == [c \in {"IORING_E_SUBMISSION_QUEUE_FULL"} |-> "QueueFull"]

\* io_ring::Error from a code.
RingError(c) == IF c \in DOMAIN ring_table THEN <<ring_table[c]>> ELSE <<"Other", c>>

\* runtime::Error and file::Error from a code: what the ring named, wrapped,
\* or the code.
DriverError(c) == IF Head(RingError(c)) = "Other" THEN RingError(c) ELSE <<"Ring">> \o RingError(c)

\* pipe::Error from a code: its own table first.
PipeError(c) == IF c \in DOMAIN pipe_table THEN <<pipe_table[c]>> ELSE DriverError(c)

-----------------------------------------------------------------------------
(* What the driver detects itself, which no code stands for. *)

\* Conditions that the file and pipe types have too.
Shared == {<<"ShuttingDown">>, <<"AbandonedAtShutdown">>, <<"MissingField">>,
           <<"TooManyOperations">>, <<"Buf", "TooSmall">>, <<"Buf", "Uninitialized">>,
           <<"Ring", "QueueFull">>, <<"Ring", "UnsupportedOp">>, <<"Ring", "RingClosed">>}
\* Conditions that they do not name, and box.
DriverOnly == {<<"ShutdownStalled">>, <<"InvalidRegisteredIndex">>,
               <<"RegisteredRangeOutOfBounds">>, <<"BufferCheckedOut">>,
               <<"RegistrationSuperseded">>, <<"RegistrationPending">>}

\* Mutant: a surface that cannot name a code reports a general failure.
FileErrorFlattens(e) ==
  CASE Head(e) = "Other" -> <<"Other", "E_FAIL">>
    [] e \in DriverOnly -> <<"Driver">> \o e
    [] OTHER -> e

\* file::Error from runtime::Error.
FileError(e) ==
  CASE Head(e) = "Other" -> DriverError(e[2])
    [] e \in DriverOnly -> <<"Driver">> \o e
    [] OTHER -> e

\* pipe::Error from runtime::Error: the only place a pipe condition is named.
PipeFromDriver(e) ==
  CASE Head(e) = "Other" -> PipeError(e[2])
    [] e \in DriverOnly -> <<"Driver">> \o e
    [] OTHER -> e

\* os_error of any of the types: the code an Other carries, however deep.
os_error(e) == IF Len(e) > 1 /\ e[Len(e) - 1] = "Other" THEN e[Len(e)] ELSE NoCode
=============================================================================
