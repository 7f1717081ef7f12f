--------------------------- MODULE FileCursorProofs ---------------------------
(***************************************************************************)
(* One File is safe for every number of its values and of positional       *)
(* calls, every cursor and every transfer: the driver holds at most one    *)
(* sequential operation, what is delivered was read or written at the      *)
(* cursor, and no conversion loses or invents an error.                    *)
(***************************************************************************)
EXTENDS FileCursor, FiniteSetTheorems, SequenceTheorems, TLAPS

\* The driver holds one sequential operation at most.
OneInKernel == \A o, p \in kernel : o = p

\* A future waits exactly as long as the driver holds its operation.
KernelExact ==
  /\ \A v \in Values : future[v].state = "Waiting" => \E o \in kernel : o.owner = v
  /\ \A o \in kernel : o.owner # Nobody => future[o.owner].state = "Waiting"

\* A value whose operation's bytes are still to be counted.
Counting(v) == future[v].state = "Waiting" \/ v \in Unpolled

\* Bytes that wait for a poll, and an operation beside them, are excused.
OverlapsExcused ==
  \A v, w \in Values : v # w /\ v \in Unpolled /\ Counting(w) => {v, w} \subseteq excused

\* An answer that failed has a code, or names a condition.
WellFormed(answer) ==
  /\ answer \in Answer
  /\ answer.bytes = Failed =>
       \/ answer.code \in Codes
       \/ answer.code = NoCode /\ answer.condition \in Shared

\* Every answer a future holds can be converted.
AnswersConvertible ==
  /\ \A v \in Values : WellFormed(future[v].answer)
  /\ \A c \in Calls : /\ WellFormed(positional[c].answer)
                      /\ positional[c].state # "none" =>
                           positional[c].surface \in {"driver", "file", "pipe"}

IInv ==
  /\ TypeOK /\ (outstanding = TRUE <=> kernel # {}) /\ OneInKernel /\ KernelExact
  /\ OverlapsExcused /\ DeliveredAtCursor /\ AnswersConvertible /\ ReportsHonestly

-----------------------------------------------------------------------------
(* Errors. *)

Surfaces == {"driver", "file", "pipe"}

\* What ReportsHonestly asks of an answer and the error made of it.
Honest(answer, error) ==
  IF answer.code # NoCode
    THEN LET kept == os_error(error)
         IN  PipeError(answer.code) = IF kept = NoCode THEN error ELSE PipeError(kept)
    ELSE os_error(error) = NoCode /\ Head(error) \notin PipeConditions

\* The driver's error for each code.
LEMMA DriverErrorIs ==
  ASSUME NEW c \in Codes
  PROVE  DriverError(c) = IF c = "IORING_E_SUBMISSION_QUEUE_FULL" THEN <<"Ring", "QueueFull">>
                                                               ELSE <<"Other", c>>
<1>1. CASE c = "IORING_E_SUBMISSION_QUEUE_FULL"
  <2>1. RingError(c) = <<"QueueFull">>
    BY <1>1 DEF RingError, ring_table
  <2> DEFINE Words == {"Ring", "QueueFull"}
             outer == <<"Ring">>
             inner == <<"QueueFull">>
  <2>2. /\ outer \in Seq(Words) /\ Len(outer) = 1 /\ outer[1] = "Ring"
        /\ inner \in Seq(Words) /\ Len(inner) = 1 /\ inner[1] = "QueueFull"
    BY DEF Words
  <2> HIDE DEF outer, inner, Words
  <2>3. /\ outer \o inner \in Seq(Words) /\ Len(outer \o inner) = 2
        /\ (outer \o inner)[1] = "Ring" /\ (outer \o inner)[2] = "QueueFull"
    BY <2>2, ConcatProperties
  <2>4. outer \o inner = <<"Ring", "QueueFull">>
    <3> DEFINE both == <<"Ring", "QueueFull">>
    <3>1. both \in Seq(Words) /\ Len(both) = 2 /\ both[1] = "Ring" /\ both[2] = "QueueFull"
      BY DEF Words
    <3> HIDE DEF both
    <3>2. outer \o inner = both
      BY <2>3, <3>1, SeqEqual
    <3> QED
      BY <3>2 DEF both
  <2>5. RingError(c) = inner /\ DriverError(c) = outer \o inner
    BY <2>1 DEF outer, inner, DriverError
  <2> QED
    BY <1>1, <2>4, <2>5
<1>2. CASE c # "IORING_E_SUBMISSION_QUEUE_FULL"
  <2>1. RingError(c) = <<"Other", c>>
    BY <1>2 DEF RingError, ring_table
  <2> QED
    BY <1>2, <2>1 DEF DriverError
<1> QED
  BY <1>1, <1>2

\* The pipe's error for each code.
LEMMA PipeErrorIs ==
  ASSUME NEW c \in Codes
  PROVE  \/ \E condition \in PipeConditions : PipeError(c) = <<condition>>
         \/ PipeError(c) = DriverError(c)
BY DEF PipeError, pipe_table, PipeConditions

\* The code in an error, by the error's shape.
LEMMA OsErrorIs ==
  /\ \A x : os_error(<<x>>) = NoCode
  /\ \A x, y : os_error(<<x, y>>) = IF x = "Other" THEN y ELSE NoCode
BY DEF os_error

\* What becomes of a code at each surface names the condition of the pipe.
LEMMA CodeHonest ==
  ASSUME NEW c \in Codes, NEW e, e \in {DriverError(c), PipeError(c)}
  PROVE  PipeError(c) = IF os_error(e) = NoCode THEN e ELSE PipeError(os_error(e))
<1>1. c # NoCode
  BY DEF Codes, NoCode
<1>2. CASE c = "IORING_E_SUBMISSION_QUEUE_FULL"
  <2>1. DriverError(c) = <<"Ring", "QueueFull">> /\ PipeError(c) = DriverError(c)
    BY <1>2, DriverErrorIs DEF PipeError, pipe_table
  <2>2. os_error(<<"Ring", "QueueFull">>) = NoCode
    BY OsErrorIs
  <2> QED
    BY <2>1, <2>2
<1>3. CASE c # "IORING_E_SUBMISSION_QUEUE_FULL"
  <2>1. DriverError(c) = <<"Other", c>>
    BY <1>3, DriverErrorIs
  <2>2. os_error(DriverError(c)) = c
    BY <2>1, OsErrorIs
  <2>3. CASE PipeError(c) = DriverError(c)
    BY <1>1, <2>2, <2>3
  <2>4. CASE \E condition \in PipeConditions : PipeError(c) = <<condition>>
    <3>1. os_error(PipeError(c)) = NoCode
      BY <2>4, OsErrorIs
    <3> QED
      BY <1>1, <2>2, <3>1
  <2> QED
    BY <2>3, <2>4, PipeErrorIs
<1> QED
  BY <1>2, <1>3

\* No shared condition is one the tables make of a code, and none is boxed.
LEMMA SharedHonest ==
  ASSUME NEW e \in Shared
  PROVE  /\ Head(e) # "Other" /\ Head(e) \notin PipeConditions /\ os_error(e) = NoCode
         /\ e \notin DriverOnly /\ e # <<>>
<1>1. \/ \E x \in {"ShuttingDown", "AbandonedAtShutdown", "MissingField", "TooManyOperations"} :
           e = <<x>>
      \/ \E x \in {"Buf", "Ring"} : \E y : e = <<x, y>>
  BY DEF Shared
<1>2. CASE \E x \in {"ShuttingDown", "AbandonedAtShutdown", "MissingField",
                     "TooManyOperations"} : e = <<x>>
  <2>1. PICK x \in {"ShuttingDown", "AbandonedAtShutdown", "MissingField",
                    "TooManyOperations"} : e = <<x>>
    BY <1>2
  <2>2. Head(e) = x /\ os_error(e) = NoCode /\ e # <<>>
    BY <2>1, OsErrorIs
  <2>3. e \notin DriverOnly
    BY <2>1 DEF DriverOnly
  <2> QED
    BY <2>2, <2>3 DEF PipeConditions
<1>3. CASE \E x \in {"Buf", "Ring"} : \E y : e = <<x, y>>
  <2>1. PICK x \in {"Buf", "Ring"} : \E y : e = <<x, y>>
    BY <1>3
  <2>4. PICK y : e = <<x, y>>
    BY <2>1
  <2>2. Head(e) = x /\ os_error(e) = NoCode /\ e # <<>>
    BY <2>4, OsErrorIs
  <2>3. e \notin DriverOnly
    BY <2>4 DEF DriverOnly
  <2> QED
    BY <2>2, <2>3 DEF PipeConditions
<1> QED
  BY <1>1, <1>2, <1>3

\* Whatever surface converts an answer, the error is honest.
LEMMA ConvertedHonest ==
  ASSUME NEW surface \in Surfaces, NEW answer, WellFormed(answer),
         Converted(surface, answer) # <<>>
  PROVE  Honest(answer, Converted(surface, answer))
<1>1. answer.bytes = Failed
  BY DEF Converted
<1>2. CASE answer.code \in Codes
  <2> DEFINE c == answer.code
  <2>1. c # NoCode /\ DriverErrorOf(answer) = DriverError(c)
    BY <1>2 DEF Codes, NoCode, DriverErrorOf
  <2>2. FileError(DriverError(c)) = DriverError(c) /\ PipeFromDriver(DriverError(c)) = PipeError(c)
    <3>1. CASE c = "IORING_E_SUBMISSION_QUEUE_FULL"
      <4>1. DriverError(c) = <<"Ring", "QueueFull">> /\ PipeError(c) = DriverError(c)
        BY <1>2, <3>1, DriverErrorIs DEF PipeError, pipe_table
      <4>2. Head(<<"Ring", "QueueFull">>) = "Ring" /\ <<"Ring", "QueueFull">> \notin DriverOnly
        BY DEF DriverOnly
      <4> QED
        BY <4>1, <4>2 DEF FileError, PipeFromDriver
    <3>2. CASE c # "IORING_E_SUBMISSION_QUEUE_FULL"
      <4>1. DriverError(c) = <<"Other", c>>
        BY <1>2, <3>2, DriverErrorIs
      <4>2. Head(DriverError(c)) = "Other" /\ DriverError(c)[2] = c /\ DriverError(c) \notin DriverOnly
        BY <4>1 DEF DriverOnly
      <4> QED
        BY <4>2 DEF FileError, PipeFromDriver
    <3> QED
      BY <3>1, <3>2
  <2>3. Converted(surface, answer) \in {DriverError(c), PipeError(c)}
    BY <1>1, <2>1, <2>2 DEF Converted, Surfaces
  <2> QED
    BY <1>2, <2>1, <2>3, CodeHonest DEF Honest
<1>3. CASE answer.code = NoCode /\ answer.condition \in Shared
  <2> DEFINE e == answer.condition
  <2>1. DriverErrorOf(answer) = e
    BY <1>3 DEF DriverErrorOf
  <2>2. FileError(e) = e /\ PipeFromDriver(e) = e
    BY <1>3, SharedHonest DEF FileError, PipeFromDriver
  <2>3. Converted(surface, answer) = e
    BY <1>1, <2>1, <2>2 DEF Converted, Surfaces
  <2> QED
    BY <1>3, <2>3, SharedHonest DEF Honest
<1> QED
  BY <1>1, <1>2, <1>3 DEF WellFormed

-----------------------------------------------------------------------------
(* The steps. *)

States     == {"none", "NotSeekable", "OperationOutstanding", "Waiting", "Resolved"}
FutureType == [state : States, offset : Cursor, answer : Answer]
CallType   == [state : {"none", "Waiting", "Resolved"}, op : {"", "transfer", "flush"},
               surface : {"", "driver", "file", "pipe"}, answer : Answer]

\* The answers that the steps make.
LEMMA AnswersWellFormed ==
  /\ \A n \in 0 .. MaxLen : WellFormed(Bytes(n)) /\ Bytes(n).bytes = n
  /\ \A c \in Codes : WellFormed(Code(c)) /\ Code(c).bytes = Failed /\ Code(c).code = c
  /\ \A e \in Shared : WellFormed(Condition(e)) /\ Condition(e).bytes = Failed
  /\ WellFormed(Bytes(0)) /\ Bytes(0).bytes = 0
<1>1. -1 \in -1 .. MaxLen /\ 0 \in 0 .. MaxLen /\ \A n \in 0 .. MaxLen : n \in -1 .. MaxLen /\ n # -1
  BY FileCursorAssumption
<1>2. ASSUME NEW n \in 0 .. MaxLen PROVE WellFormed(Bytes(n)) /\ Bytes(n).bytes = n
  BY <1>1 DEF WellFormed, Answer, Bytes, Failed
<1>3. ASSUME NEW c \in Codes
      PROVE  WellFormed(Code(c)) /\ Code(c).bytes = Failed /\ Code(c).code = c
  BY <1>1 DEF WellFormed, Answer, Code, Failed
<1>4. ASSUME NEW e \in Shared
      PROVE  WellFormed(Condition(e)) /\ Condition(e).bytes = Failed
  BY <1>1 DEF WellFormed, Answer, Condition, Failed
<1> QED
  BY <1>1, <1>2, <1>3, <1>4

\* What the driver answers, and what it refuses with.
LEMMA DriverAnswers ==
  /\ \A answer \in Answers : WellFormed(answer)
  /\ \A refusal \in Refusals \cup FlushRefusals : WellFormed(Condition(refusal))
<1>1. CodesOf \subseteq Codes
  BY DEF CodesOf, Codes
<1>2. <<"AbandonedAtShutdown">> \in Shared /\ Refusals \cup FlushRefusals \subseteq Shared
  BY DEF Shared, Refusals, FlushRefusals
<1> QED
  BY <1>1, <1>2, AnswersWellFormed DEF Answers, Failures

\* No future, and no call.
LEMMA NothingTyped ==
  /\ NoFuture \in FutureType /\ NoFuture.state = "none" /\ WellFormed(NoFuture.answer)
  /\ NoFuture.answer.bytes = 0
  /\ NoCall \in CallType /\ NoCall.state = "none" /\ WellFormed(NoCall.answer)
<1>1. Bytes(0) \in Answer
  BY AnswersWellFormed DEF WellFormed
<1>2. 0 \in Cursor
  BY FileCursorAssumption DEF Cursor
<1> QED
  BY <1>1, <1>2, AnswersWellFormed DEF NoFuture, NoCall, FutureType, CallType, States

\* The typing of a value's future and of a call.
LEMMA FieldTypes ==
  ASSUME TypeOK
  PROVE  /\ future \in [Values -> FutureType] /\ positional \in [Calls -> CallType]
         /\ \A v \in Values : /\ future[v].state \in States /\ future[v].offset \in Cursor
                              /\ future[v].answer \in Answer
                              /\ future[v].answer.bytes \in Failed .. MaxLen
         /\ \A c \in Calls : /\ positional[c].surface \in {"", "driver", "file", "pipe"}
                             /\ positional[c].answer \in Answer
BY DEF TypeOK, FutureType, CallType, States, Answer

\* A step that converts is honest when its error is.
LEMMA ReportHonest ==
  ASSUME NEW surface, NEW answer, NEW error, error # <<>> => Honest(answer, error),
         reported' = Report(surface, answer, error)
  PROVE  ReportsHonestly'
<1>1. reported'.error = error /\ reported'.answer = answer
  BY DEF Report
<1> QED
  BY <1>1 DEF ReportsHonestly, Honest

\* A step that reports nothing is honest.
LEMMA SilentHonest ==
  ASSUME reported' = NoReport PROVE ReportsHonestly'
<1>1. NoReport.error = <<>>
  BY DEF NoReport
<1> QED
  BY <1>1 DEF ReportsHonestly

\* The sequential part of the invariant.
Sequential ==
  /\ (outstanding = TRUE <=> kernel # {}) /\ OneInKernel /\ KernelExact
  /\ OverlapsExcused /\ DeliveredAtCursor

\* It stays when nothing it speaks of changes.
LEMMA SequentialKept ==
  ASSUME Sequential, UNCHANGED <<cursor, outstanding, kernel, future, excused>>
  PROVE  Sequential'
BY DEF Sequential, OneInKernel, KernelExact, OverlapsExcused, DeliveredAtCursor, Counting, Unpolled

\* Bytes to be counted stay where they are, and excuses last, when no value
\* begins or completes an operation and the cursor does not move.
LEMMA CursorStays ==
  ASSUME IInv, cursor' = cursor,
         \A w \in Values :
           /\ w \in Unpolled' => w \in Unpolled
           /\ Counting(w)' => /\ Counting(w) /\ future'[w].offset = future[w].offset
                              /\ w \in excused => w \in excused'
  PROVE  OverlapsExcused' /\ DeliveredAtCursor'
<1>1. OverlapsExcused'
  <2> SUFFICES ASSUME NEW v \in Values, NEW w \in Values, v # w, v \in Unpolled', Counting(w)'
               PROVE  v \in excused' /\ w \in excused'
    BY DEF OverlapsExcused
  <2>1. Counting(v)'
    BY DEF Counting
  <2>2. v \in excused /\ w \in excused
    BY DEF IInv, OverlapsExcused
  <2> QED
    BY <2>1, <2>2
<1>2. DeliveredAtCursor'
  <2> SUFFICES ASSUME NEW v \in Values, v \notin excused', Counting(v)'
               PROVE  future'[v].offset = cursor'
    BY DEF DeliveredAtCursor, Counting
  <2>1. Counting(v) /\ v \notin excused /\ future'[v].offset = future[v].offset
    OBVIOUS
  <2> QED
    BY <2>1 DEF IInv, DeliveredAtCursor, Counting
<1> QED
  BY <1>1, <1>2

\* One value's future changes: what is known of it and of the others.
LEMMA OneFuture ==
  ASSUME IInv, NEW v \in Values, NEW f \in FutureType, WellFormed(f.answer),
         future' = [future EXCEPT ![v] = f]
  PROVE  /\ future' \in [Values -> FutureType] /\ future'[v] = f
         /\ \A w \in Values : w # v => future'[w] = future[w]
         /\ \A w \in Values : WellFormed(future'[w].answer)
<1>1. future \in [Values -> FutureType]
  BY FieldTypes DEF IInv
<1> QED
  BY <1>1 DEF IInv, AnswersConvertible
\* A call that is answered keeps what it is and where it was made.
LEMMA ResolvedCall ==
  ASSUME NEW call \in CallType, NEW answer \in Answer
  PROVE  LET resolved == [call EXCEPT !.state = "Resolved", !.answer = answer]
         IN  resolved \in CallType /\ resolved.answer = answer /\ resolved.surface = call.surface
BY DEF CallType

\* A call that starts or ends nothing sequential keeps the invariant when the
\* report is honest and what became of the calls is typed and convertible.
LEMMA CallStepIInv ==
  ASSUME IInv, UNCHANGED <<handle, client, fileType, cursor, outstanding, kernel, future, excused>>,
         NEW c \in Calls, NEW call \in CallType, positional' = [positional EXCEPT ![c] = call],
         WellFormed(call.answer), call.state # "none" => call.surface \in Surfaces,
         ReportsHonestly'
  PROVE  IInv'
<1>1. positional' \in [Calls -> CallType]
  BY FieldTypes DEF IInv
<1>2. positional'[c] = call /\ \A x \in Calls : x # c => positional'[x] = positional[x]
  BY FieldTypes DEF IInv
<1>3. TypeOK'
  BY <1>1 DEF IInv, TypeOK, CallType
<1>4. AnswersConvertible'
  BY <1>2 DEF IInv, AnswersConvertible, Surfaces
<1>5. Sequential'
  BY SequentialKept DEF IInv, Sequential
<1> QED
  BY <1>3, <1>4, <1>5 DEF IInv, Sequential

\* The positional calls keep the invariant.
LEMMA CallsIInv ==
  ASSUME IInv, NEW c \in Calls,
         \/ \E surface \in {"driver", "file"} : IssueAt(c, surface) \/ Flush(c, surface)
         \/ ClientAt(c)
         \/ \E answer \in Answers : CompleteAt(c, answer)
         \/ PollAt(c) \/ PollFlush(c)
  PROVE  IInv'
<1>1. positional \in [Calls -> CallType] /\ positional[c] \in CallType
  BY FieldTypes DEF IInv
<1>2. ASSUME NEW op \in {"transfer", "flush"}, NEW surface \in Surfaces, NEW refusals,
             refusals \subseteq Refusals \cup FlushRefusals, Call(c, op, surface, refusals)
      PROVE  IInv'
  <2>1. PICK state \in {"Waiting", "Resolved"}, answer \in Answer :
          /\ WellFormed(answer)
          /\ positional' = [positional EXCEPT ![c] =
                              [state |-> state, op |-> op, surface |-> surface, answer |-> answer]]
    BY <1>2, AnswersWellFormed, DriverAnswers DEF Call, WellFormed
  <2> DEFINE call == [state |-> state, op |-> op, surface |-> surface, answer |-> answer]
  <2>2. call \in CallType /\ call.answer = answer /\ call.surface = surface
    BY <2>1 DEF CallType, WellFormed, Surfaces
  <2> HIDE DEF call
  <2>3. ReportsHonestly' /\ positional' = [positional EXCEPT ![c] = call]
    BY <1>2, <2>1, SilentHonest DEF Call, call
  <2>4. UNCHANGED <<handle, client, fileType, cursor, outstanding, kernel, future, excused>>
    BY <1>2 DEF Call
  <2> QED
    BY <2>1, <2>2, <2>3, <2>4, CallStepIInv
<1>3. ASSUME NEW answer \in Answers, CompleteAt(c, answer) PROVE IInv'
  <2> DEFINE call == [positional[c] EXCEPT !.state = "Resolved", !.answer = answer]
  <2>1. WellFormed(answer)
    BY DriverAnswers
  <2>2. positional' = [positional EXCEPT ![c] = call]
    BY <1>1, <1>3 DEF CompleteAt
  <2>3. call \in CallType /\ call.answer = answer /\ call.surface = positional[c].surface
    BY <1>1, <2>1, ResolvedCall DEF WellFormed
  <2>4. positional[c].surface \in Surfaces
    BY <1>3 DEF CompleteAt, IInv, AnswersConvertible, Surfaces
  <2> HIDE DEF call
  <2>5. ReportsHonestly'
    BY <1>3, SilentHonest DEF CompleteAt
  <2>6. UNCHANGED <<handle, client, fileType, cursor, outstanding, kernel, future, excused>>
    BY <1>3 DEF CompleteAt
  <2> QED
    BY <2>1, <2>2, <2>3, <2>4, <2>5, <2>6, CallStepIInv
<1>4. ASSUME PollAt(c) \/ PollFlush(c) PROVE IInv'
  <2>1. /\ positional[c].state = "Resolved" /\ positional' = [positional EXCEPT ![c] = NoCall]
        /\ reported' = Report(positional[c].surface, positional[c].answer,
                              Converted(positional[c].surface, positional[c].answer))
        /\ UNCHANGED <<handle, client, fileType, cursor, outstanding, kernel, future, excused>>
    BY <1>4 DEF PollAt, PollFlush
  <2>2. WellFormed(positional[c].answer) /\ positional[c].surface \in Surfaces
    BY <2>1 DEF IInv, AnswersConvertible, Surfaces
  <2>3. ReportsHonestly'
    BY <2>1, <2>2, ConvertedHonest, ReportHonest
  <2> QED
    BY <2>1, <2>3, NothingTyped, CallStepIInv
<1> QED
  BY <1>2, <1>3, <1>4 DEF IssueAt, Flush, ClientAt, Surfaces

\* Opening keeps the invariant.
LEMMA OpenIInv ==
  ASSUME IInv,
         \/ \E type \in Types : OpenFile(type)
         \/ \E c \in {"ERROR_PIPE_BUSY", "E_FAIL"} : OpenClientFails(c)
         \/ OpenClient
  PROVE  IInv'
<1>1. /\ UNCHANGED <<fileType, cursor, outstanding, kernel, future, positional, excused>>
      /\ client' \in BOOLEAN /\ handle' \in Types \cup {NoType} /\ handle = NoType
  BY DEF OpenFile, OpenClientFails, OpenClient, IInv, TypeOK, Types
<1>2. TypeOK'
  BY <1>1 DEF IInv, TypeOK
<1>3. AnswersConvertible'
  BY <1>1 DEF IInv, AnswersConvertible
<1>4. Sequential'
  BY <1>1, SequentialKept DEF IInv, Sequential
<1>5. ReportsHonestly'
  <2>1. ASSUME NEW c \in Codes PROVE Honest(Code(c), PipeError(c))
    <3>1. c # NoCode /\ Code(c).code = c
      BY AnswersWellFormed DEF Codes, NoCode
    <3> QED
      BY <3>1, CodeHonest DEF Honest
  <2>2. ASSUME NEW c \in {"ERROR_PIPE_BUSY", "E_FAIL"}, OpenClientFails(c)
        PROVE  ReportsHonestly'
    <3>1. c \in Codes /\ reported' = Report("pipe", Code(c), PipeError(c))
      BY <2>2 DEF OpenClientFails, Codes
    <3> QED
      BY <2>1, <3>1, ReportHonest
  <2>3. CASE (\E type \in Types : OpenFile(type)) \/ OpenClient
    BY <2>3, SilentHonest DEF OpenFile, OpenClient
  <2> QED
    BY <2>2, <2>3
<1> QED
  BY <1>2, <1>3, <1>4, <1>5 DEF IInv, Sequential

\* A value's future changes and neither the driver nor the cursor is told:
\* it has no bytes to be counted afterwards, and did not wait before.
LEMMA IdleStepIInv ==
  ASSUME IInv, NEW v \in Values, NEW f \in FutureType, WellFormed(f.answer),
         future' = [future EXCEPT ![v] = f], future[v].state # "Waiting",
         f.state # "Waiting", f.state = "Resolved" => ~(f.answer.bytes > 0),
         UNCHANGED <<handle, client, cursor, outstanding, kernel, positional>>,
         fileType' \in {fileType, handle},
         excused' \subseteq Values, \A w \in Values : w # v /\ w \in excused => w \in excused',
         ReportsHonestly'
  PROVE  IInv'
<1>1. /\ future' \in [Values -> FutureType] /\ future'[v] = f
      /\ \A w \in Values : w # v => future'[w] = future[w]
      /\ \A w \in Values : WellFormed(future'[w].answer)
  BY OneFuture
<1>2. TypeOK'
  BY <1>1 DEF IInv, TypeOK, FutureType, States
<1>3. AnswersConvertible'
  BY <1>1 DEF IInv, AnswersConvertible
<1>4. ~Counting(v)' /\ v \notin Unpolled'
  BY <1>1 DEF Counting, Unpolled
<1>5. \A w \in Values : w # v => (w \in Unpolled' <=> w \in Unpolled)
  BY <1>1 DEF Unpolled
<1>6. \A w \in Values : w # v => (Counting(w)' <=> Counting(w))
  BY <1>1, <1>5 DEF Counting
<1>7. OverlapsExcused' /\ DeliveredAtCursor'
  BY <1>1, <1>4, <1>5, <1>6, CursorStays
<1>8. OneInKernel' /\ (outstanding' = TRUE <=> kernel' # {})
  BY DEF IInv, OneInKernel
<1>9. KernelExact'
  <2>1. \A w \in Values : future'[w].state = "Waiting" <=> future[w].state = "Waiting"
    BY <1>1
  <2>2. \A o \in kernel : o.owner \in Values \cup {Nobody}
    BY DEF IInv, TypeOK, Operation
  <2> QED
    BY <2>1, <2>2 DEF IInv, KernelExact
<1> QED
  BY <1>2, <1>3, <1>7, <1>8, <1>9 DEF IInv

\* A future that is refused before it reaches the driver, or is polled for
\* such a refusal, keeps the invariant.
LEMMA RejectIInv ==
  ASSUME IInv, NEW v \in Values, RejectNotSeekable(v) \/ RejectOutstanding(v) \/ PollRejected(v)
  PROVE  IInv'
<1>1. future[v] \in FutureType /\ WellFormed(future[v].answer)
  BY FieldTypes DEF IInv, AnswersConvertible
<1>2. excused \subseteq Values
  BY DEF IInv, TypeOK
<1>3. ASSUME NEW state \in {"NotSeekable", "OperationOutstanding"}, fileType' = handle,
             future[v].state = "none", future' = [future EXCEPT ![v].state = state],
             reported' = NoReport,
             UNCHANGED <<handle, client, cursor, outstanding, kernel, positional, excused>>
      PROVE  IInv'
  <2> DEFINE f == [future[v] EXCEPT !.state = state]
  <2>1. f \in FutureType /\ f.answer = future[v].answer /\ f.state = state
    BY <1>1 DEF FutureType, States
  <2>2. future' = [future EXCEPT ![v] = f]
    BY <1>3
  <2> HIDE DEF f
  <2> QED
    BY <1>1, <1>2, <1>3, <2>1, <2>2, SilentHonest, IdleStepIInv
<1>4. ASSUME PollRejected(v) PROVE IInv'
  <2>1. /\ future[v].state \in {"NotSeekable", "OperationOutstanding"}
        /\ future' = [future EXCEPT ![v] = NoFuture]
        /\ reported' = Report("file", Condition(<<future[v].state>>), <<future[v].state>>)
        /\ UNCHANGED <<handle, client, fileType, cursor, outstanding, kernel, positional, excused>>
    BY <1>4 DEF PollRejected
  <2>2. ASSUME NEW state \in {"NotSeekable", "OperationOutstanding"}
        PROVE  Honest(Condition(<<state>>), <<state>>)
    <3>1. Condition(<<state>>).code = NoCode /\ Head(<<state>>) = state
      BY DEF Condition
    <3>2. state \notin PipeConditions
      BY DEF PipeConditions
    <3> QED
      BY <3>1, <3>2, OsErrorIs DEF Honest
  <2>3. ReportsHonestly'
    BY <2>1, <2>2, ReportHonest
  <2> QED
    BY <1>2, <2>1, <2>3, NothingTyped, IdleStepIInv
<1> QED
  BY <1>3, <1>4 DEF RejectNotSeekable, RejectOutstanding

\* A refusal by the driver keeps the invariant: there are no bytes to count.
LEMMA StartRefusedIInv ==
  ASSUME IInv, NEW v \in Values, NEW refusal \in Refusals, StartRefused(v, refusal)
  PROVE  IInv'
<1> DEFINE f == [state |-> "Resolved", offset |-> cursor, answer |-> Condition(refusal)]
<1>1. WellFormed(Condition(refusal)) /\ ~(Condition(refusal).bytes > 0)
  BY DriverAnswers DEF Condition, Failed
<1>2. /\ f \in FutureType /\ f.state = "Resolved" /\ f.answer = Condition(refusal)
  BY <1>1 DEF FutureType, States, WellFormed, IInv, TypeOK
<1>3. /\ future[v].state = "none" /\ future' = [future EXCEPT ![v] = f] /\ fileType' = handle
      /\ excused' = excused \cup Overlapping(v) /\ reported' = NoReport
      /\ UNCHANGED <<handle, client, cursor, outstanding, kernel, positional>>
  BY DEF StartRefused
<1>4. excused' \subseteq Values
  BY <1>3 DEF IInv, TypeOK, Overlapping, Unpolled
<1> HIDE DEF f
<1> QED
  BY <1>1, <1>2, <1>3, <1>4, SilentHonest, IdleStepIInv

\* The guard is free, so the driver holds nothing and the new operation is
\* alone with it; bytes that wait for a poll are excused with it.
LEMMA StartIInv ==
  ASSUME IInv, NEW v \in Values, Start(v)
  PROVE  IInv'
<1> DEFINE f == [NoFuture EXCEPT !.state = "Waiting", !.offset = cursor]
           o == [owner |-> v, offset |-> cursor]
<1>1. cursor \in Cursor
  BY DEF IInv, TypeOK
<1>2. f \in FutureType /\ f.state = "Waiting" /\ f.offset = cursor /\ WellFormed(f.answer)
  BY <1>1, NothingTyped DEF FutureType, States
<1>3. o \in Operation /\ o.owner = v
  BY <1>1 DEF Operation
<1>4. /\ handle # NoType /\ future[v].state = "none" /\ outstanding # TRUE /\ fileType' = handle
      /\ outstanding' = TRUE /\ kernel' = kernel \cup {o} /\ future' = [future EXCEPT ![v] = f]
      /\ excused' = excused \cup Overlapping(v) /\ reported' = NoReport
      /\ UNCHANGED <<handle, client, cursor, positional>>
  BY DEF Start
<1> HIDE DEF f, o
<1>5. kernel' = {o}
  BY <1>4 DEF IInv
<1>6. /\ future' \in [Values -> FutureType] /\ future'[v] = f
      /\ \A w \in Values : w # v => future'[w] = future[w]
      /\ \A w \in Values : WellFormed(future'[w].answer)
  BY <1>2, <1>4, OneFuture
<1>7. excused' \subseteq Values
  BY <1>4 DEF IInv, TypeOK, Overlapping, Unpolled
<1>8. TypeOK'
  BY <1>3, <1>4, <1>5, <1>6, <1>7 DEF IInv, TypeOK, FutureType, States
<1>9. AnswersConvertible'
  BY <1>4, <1>6 DEF IInv, AnswersConvertible
<1>10. OneInKernel' /\ (outstanding' = TRUE <=> kernel' # {})
  BY <1>4, <1>5 DEF OneInKernel
<1>11. \A w \in Values : future[w].state # "Waiting"
  BY <1>4 DEF IInv, KernelExact
<1>12. KernelExact'
  BY <1>2, <1>3, <1>5, <1>6, <1>11 DEF KernelExact
<1>13. Unpolled' = Unpolled
  BY <1>2, <1>4, <1>6 DEF Unpolled
<1>14. \A w \in Values : Counting(w)' <=> w = v \/ w \in Unpolled
  BY <1>2, <1>6, <1>11, <1>13 DEF Counting
<1>15. OverlapsExcused'
  BY <1>4, <1>13, <1>14 DEF OverlapsExcused, Overlapping
<1>16. DeliveredAtCursor'
  <2> SUFFICES ASSUME NEW w \in Values, w \notin excused', Counting(w)'
               PROVE  future'[w].offset = cursor'
    BY DEF DeliveredAtCursor, Counting
  <2>1. w = v
    BY <1>4, <1>14 DEF Overlapping
  <2> QED
    BY <1>2, <1>4, <1>6, <2>1
<1> QED
  BY <1>4, <1>8, <1>9, <1>10, <1>12, <1>15, <1>16, SilentHonest DEF IInv

\* The cursor moves by hand, and everyone whose bytes are to be counted is
\* excused.
LEMMA SetCursorIInv ==
  ASSUME IInv, NEW v \in Values, NEW position \in Cursor, SetCursor(v, position)
  PROVE  IInv'
<1>1. /\ cursor' = position /\ reported' = NoReport
      /\ excused' = {w \in Values : future[w].state \in {"Waiting", "Resolved"}}
      /\ UNCHANGED <<handle, client, fileType, outstanding, kernel, future, positional>>
  BY DEF SetCursor
<1>2. TypeOK'
  BY <1>1 DEF IInv, TypeOK
<1>3. AnswersConvertible'
  BY <1>1 DEF IInv, AnswersConvertible
<1>4. OneInKernel' /\ KernelExact' /\ (outstanding' = TRUE <=> kernel' # {})
  BY <1>1 DEF IInv, OneInKernel, KernelExact
<1>5. Unpolled' = Unpolled
  BY <1>1 DEF Unpolled
<1>6. \A w \in Values : Counting(w)' => w \in excused'
  BY <1>1, <1>5 DEF Counting, Unpolled
<1>7. OverlapsExcused' /\ DeliveredAtCursor'
  BY <1>6 DEF OverlapsExcused, DeliveredAtCursor, Counting
<1> QED
  BY <1>1, <1>2, <1>3, <1>4, <1>7, SilentHonest DEF IInv

\* The driver lets go of the only operation it holds: nobody waits any more,
\* and bytes that wait for a poll beside it were excused when it started.
LEMMA CompleteIInv ==
  ASSUME IInv, NEW o \in kernel, NEW answer \in Answers, Complete(o, answer)
  PROVE  IInv'
<1>1. /\ kernel' = kernel \ {o} /\ outstanding' = FALSE /\ reported' = NoReport
      /\ future' = IF o.owner = Nobody THEN future
                   ELSE [future EXCEPT ![o.owner].state = "Resolved", ![o.owner].answer = answer]
      /\ UNCHANGED <<handle, client, fileType, cursor, positional, excused>>
  BY DEF Complete
<1>2. kernel' = {}
  BY <1>1 DEF IInv, OneInKernel
<1>3. WellFormed(answer) /\ answer \in Answer
  BY DriverAnswers DEF WellFormed
<1>4. o.owner \in Values \cup {Nobody} /\ Nobody \notin Values
  BY FileCursorAssumption DEF IInv, TypeOK, Operation
<1>5. /\ \A w \in Values : future[w].state = "Waiting" => w = o.owner
      /\ o.owner # Nobody => future[o.owner].state = "Waiting"
  BY DEF IInv, OneInKernel, KernelExact
<1>6. /\ future' \in [Values -> FutureType]
      /\ \A w \in Values : w # o.owner => future'[w] = future[w]
      /\ \A w \in Values : WellFormed(future'[w].answer) /\ future'[w].offset = future[w].offset
      /\ o.owner # Nobody => future'[o.owner].state = "Resolved"
  <2>1. CASE o.owner = Nobody
    BY <1>1, <1>4, <2>1, FieldTypes DEF IInv, AnswersConvertible
  <2>2. CASE o.owner \in Values
    <3> DEFINE f == [future[o.owner] EXCEPT !.state = "Resolved", !.answer = answer]
    <3>1. future \in [Values -> FutureType] /\ future[o.owner] \in FutureType
      BY <2>2, FieldTypes DEF IInv
    <3>2. /\ f \in FutureType /\ f.state = "Resolved" /\ f.answer = answer
          /\ f.offset = future[o.owner].offset
      BY <1>3, <3>1 DEF FutureType, States
    <3>3. future' = [future EXCEPT ![o.owner] = f]
      BY <1>1, <1>4, <2>2, <3>1
    <3> HIDE DEF f
    <3>4. /\ future' \in [Values -> FutureType] /\ future'[o.owner] = f
          /\ \A w \in Values : w # o.owner => future'[w] = future[w]
          /\ \A w \in Values : WellFormed(future'[w].answer)
      BY <1>3, <2>2, <3>2, <3>3, OneFuture
    <3> QED
      BY <3>2, <3>4
  <2> QED
    BY <1>4, <2>1, <2>2
<1>7. TypeOK'
  BY <1>1, <1>2, <1>6 DEF IInv, TypeOK, FutureType, States
<1>8. AnswersConvertible'
  BY <1>1, <1>6 DEF IInv, AnswersConvertible
<1>9. \A w \in Values : future'[w].state # "Waiting"
  BY <1>4, <1>5, <1>6
<1>10. OneInKernel' /\ KernelExact' /\ (outstanding' = TRUE <=> kernel' # {})
  BY <1>1, <1>2, <1>9 DEF OneInKernel, KernelExact
<1>11. \A w \in Values : w \in Unpolled' => w \in Unpolled \/ w = o.owner
  BY <1>6 DEF Unpolled
<1>12. \A w \in Values : Counting(w)' => Counting(w)
  BY <1>4, <1>5, <1>9, <1>11 DEF Counting
<1>13. OverlapsExcused'
  <2> SUFFICES ASSUME NEW v \in Values, NEW w \in Values, v # w, v \in Unpolled', Counting(w)'
               PROVE  v \in excused' /\ w \in excused'
    BY DEF OverlapsExcused
  <2>1. w \in Unpolled'
    BY <1>9 DEF Counting
  <2>2. CASE v = o.owner
    BY <1>1, <1>4, <1>5, <1>11, <2>1, <2>2 DEF IInv, OverlapsExcused, Counting
  <2>3. CASE v # o.owner
    BY <1>1, <1>11, <1>12, <2>3 DEF IInv, OverlapsExcused
  <2> QED
    BY <2>2, <2>3
<1>14. DeliveredAtCursor'
  BY <1>1, <1>6, <1>12 DEF IInv, DeliveredAtCursor, Counting
<1> QED
  BY <1>1, <1>7, <1>8, <1>10, <1>13, <1>14, SilentHonest DEF IInv

\* A poll counts its bytes once: whoever else has bytes to be counted while
\* these waited is excused.
LEMMA PollIInv ==
  ASSUME IInv, NEW v \in Values, Poll(v)
  PROVE  IInv'
<1>1. /\ future[v].state = "Resolved" /\ cursor' = Advanced(future[v].answer)
      /\ future' = [future EXCEPT ![v] = NoFuture]
      /\ reported' = Report("file", future[v].answer, Converted("file", future[v].answer))
      /\ excused' = excused \ {v}
      /\ UNCHANGED <<handle, client, fileType, outstanding, kernel, positional>>
  BY DEF Poll
<1>2. WellFormed(future[v].answer) /\ "file" \in Surfaces
  BY DEF IInv, AnswersConvertible, Surfaces
<1>3. ReportsHonestly'
  BY <1>1, <1>2, ConvertedHonest, ReportHonest
<1>4. excused' \subseteq Values /\ \A w \in Values : w # v /\ w \in excused => w \in excused'
  BY <1>1 DEF IInv, TypeOK
<1>5. /\ cursor \in 0 .. MaxCursor /\ MaxCursor \in Nat /\ MaxLen \in Nat
      /\ future[v].answer.bytes \in -1 .. MaxLen
  BY FieldTypes, FileCursorAssumption DEF IInv, TypeOK, Cursor, Failed
<1>6. CASE ~(future[v].answer.bytes > 0)
  <2>1. cursor' = cursor
    BY <1>1, <1>5, <1>6 DEF Advanced, Failed
  <2> QED
    BY <1>1, <1>3, <1>4, <2>1, NothingTyped, IdleStepIInv
<1>7. CASE future[v].answer.bytes > 0
  <2>1. cursor' \in Cursor
    BY <1>1, <1>5, <1>7 DEF Advanced, Failed, Cursor
  <2>2. /\ future' \in [Values -> FutureType] /\ future'[v] = NoFuture
        /\ \A w \in Values : w # v => future'[w] = future[w]
        /\ \A w \in Values : WellFormed(future'[w].answer)
    BY <1>1, NothingTyped, OneFuture
  <2>3. TypeOK'
    BY <1>1, <1>4, <2>1, <2>2 DEF IInv, TypeOK, FutureType, States
  <2>4. AnswersConvertible'
    BY <1>1, <2>2 DEF IInv, AnswersConvertible
  <2>5. \A w \in Values : future'[w].state = "Waiting" <=> future[w].state = "Waiting"
    BY <1>1, <2>2, NothingTyped
  <2>6. OneInKernel' /\ (outstanding' = TRUE <=> kernel' # {})
    BY <1>1 DEF IInv, OneInKernel
  <2>7. KernelExact'
    <3>1. \A o \in kernel : o.owner \in Values \cup {Nobody}
      BY DEF IInv, TypeOK, Operation
    <3> QED
      BY <1>1, <2>5, <3>1 DEF IInv, KernelExact
  <2>8. v \in Unpolled
    BY <1>1, <1>7 DEF Unpolled
  <2>9. v \notin Unpolled' /\ ~Counting(v)'
    BY <2>2, NothingTyped DEF Unpolled, Counting
  <2>10. \A w \in Values : w # v => (w \in Unpolled' <=> w \in Unpolled)
    BY <2>2 DEF Unpolled
  <2>11. \A w \in Values : w # v => (Counting(w)' <=> Counting(w))
    BY <2>2, <2>10 DEF Counting
  <2>12. \A w \in Values : Counting(w)' => w \in excused'
    BY <1>4, <2>8, <2>9, <2>11 DEF IInv, OverlapsExcused
  <2>13. OverlapsExcused' /\ DeliveredAtCursor'
    BY <2>12 DEF OverlapsExcused, DeliveredAtCursor, Counting
  <2> QED
    BY <1>3, <2>3, <2>4, <2>6, <2>7, <2>13 DEF IInv
<1> QED
  BY <1>6, <1>7

\* A future that is dropped leaves its operation, and the guard, with the
\* driver.
LEMMA DropFutureIInv ==
  ASSUME IInv, NEW v \in Values, DropFuture(v)
  PROVE  IInv'
<1> DEFINE Orphaned(o) == IF o.owner = v THEN [o EXCEPT !.owner = Nobody] ELSE o
<1>1. /\ future' = [future EXCEPT ![v] = NoFuture] /\ kernel' = {Orphaned(o) : o \in kernel}
      /\ reported' = NoReport /\ excused' = excused \ {v}
      /\ UNCHANGED <<handle, client, fileType, cursor, outstanding, positional>>
  BY DEF DropFuture
<1>2. Nobody \notin Values
  BY FileCursorAssumption
<1>3. \A o \in kernel : o \in Operation
  BY DEF IInv, TypeOK
<1>4. ASSUME NEW o \in kernel
      PROVE  /\ Orphaned(o) \in Operation
             /\ Orphaned(o).owner = IF o.owner = v THEN Nobody ELSE o.owner
  BY <1>3 DEF Operation
<1> HIDE DEF Orphaned
<1>5. /\ future' \in [Values -> FutureType] /\ future'[v] = NoFuture
      /\ \A w \in Values : w # v => future'[w] = future[w]
      /\ \A w \in Values : WellFormed(future'[w].answer)
  BY <1>1, NothingTyped, OneFuture
<1>6. kernel' \subseteq Operation /\ excused' \subseteq Values
  BY <1>1, <1>4 DEF IInv, TypeOK
<1>7. TypeOK'
  BY <1>1, <1>5, <1>6 DEF IInv, TypeOK, FutureType, States
<1>8. AnswersConvertible'
  BY <1>1, <1>5 DEF IInv, AnswersConvertible
<1>9. OneInKernel' /\ (outstanding' = TRUE <=> kernel' # {})
  BY <1>1 DEF IInv, OneInKernel
<1>10. KernelExact'
  <2>1. ASSUME NEW w \in Values, future'[w].state = "Waiting"
        PROVE  \E o \in kernel' : o.owner = w
    <3>1. w # v /\ future[w].state = "Waiting"
      BY <1>5, <2>1, NothingTyped
    <3>2. PICK o \in kernel : o.owner = w
      BY <3>1 DEF IInv, KernelExact
    <3> QED
      BY <1>1, <1>4, <3>1, <3>2
  <2>2. ASSUME NEW p \in kernel', p.owner # Nobody
        PROVE  future'[p.owner].state = "Waiting"
    <3>1. PICK o \in kernel : p = Orphaned(o)
      BY <1>1
    <3>2. o.owner # v /\ p.owner = o.owner /\ o.owner \in Values
      BY <1>3, <1>4, <2>2, <3>1 DEF Operation
    <3> QED
      BY <1>5, <2>2, <3>2 DEF IInv, KernelExact
  <2> QED
    BY <2>1, <2>2 DEF KernelExact
<1>11. \A w \in Values : w \in Unpolled' => w \in Unpolled /\ w # v
  BY <1>5, NothingTyped DEF Unpolled
<1>12. \A w \in Values : Counting(w)' => w # v /\ Counting(w)
  BY <1>5, <1>11, NothingTyped DEF Counting
<1>13. OverlapsExcused' /\ DeliveredAtCursor'
  BY <1>1, <1>5, <1>11, <1>12, CursorStays
<1> QED
  BY <1>1, <1>7, <1>8, <1>9, <1>10, <1>13, SilentHonest DEF IInv

-----------------------------------------------------------------------------
(* The theorems. *)

\* Nothing is open.
LEMMA InitIInv == Init => IInv
<1> SUFFICES ASSUME Init PROVE IInv
  OBVIOUS
<1>1. /\ handle = NoType /\ client = FALSE /\ fileType = NoType /\ cursor = 0
      /\ outstanding = FALSE /\ kernel = {} /\ reported = NoReport /\ excused = {}
      /\ \A v \in Values : future[v] = NoFuture
      /\ \A c \in Calls : positional[c] = NoCall
      /\ future \in [Values -> FutureType] /\ positional \in [Calls -> CallType]
  BY NothingTyped DEF Init
<1>2. 0 \in Cursor
  BY FileCursorAssumption DEF Cursor
<1>3. TypeOK
  BY <1>1, <1>2 DEF TypeOK, FutureType, CallType, States
<1>4. Unpolled = {}
  BY <1>1, NothingTyped DEF Unpolled
<1>5. \A v \in Values : ~Counting(v)
  BY <1>1, <1>4, NothingTyped DEF Counting
<1>6. OneInKernel /\ KernelExact /\ OverlapsExcused /\ DeliveredAtCursor
  BY <1>1, <1>5, NothingTyped DEF OneInKernel, KernelExact, OverlapsExcused, DeliveredAtCursor, Counting
<1>7. AnswersConvertible
  BY <1>1, NothingTyped DEF AnswersConvertible
<1>8. ReportsHonestly
  BY <1>1 DEF ReportsHonestly, NoReport
<1> QED
  BY <1>1, <1>3, <1>6, <1>7, <1>8 DEF IInv

\* Every step keeps the invariant.
LEMMA NextIInv == IInv /\ [Next]_vars => IInv'
<1> SUFFICES ASSUME IInv, [Next]_vars PROVE IInv'
  OBVIOUS
<1>1. CASE \/ \E type \in Types : OpenFile(type)
           \/ \E c \in {"ERROR_PIPE_BUSY", "E_FAIL"} : OpenClientFails(c)
           \/ OpenClient
  BY <1>1, OpenIInv
<1>2. CASE \E v \in Values :
             \/ RejectNotSeekable(v) \/ RejectOutstanding(v) \/ Start(v)
             \/ \E refusal \in Refusals : StartRefused(v, refusal)
             \/ PollRejected(v) \/ Poll(v) \/ DropFuture(v)
             \/ \E position \in Cursor : SetCursor(v, position)
  BY <1>2, RejectIInv, StartIInv, StartRefusedIInv, PollIInv, DropFutureIInv, SetCursorIInv
<1>3. CASE \E o \in kernel, answer \in Answers : Complete(o, answer)
  BY <1>3, CompleteIInv
<1>4. CASE \E c \in Calls :
             \/ \E surface \in {"driver", "file"} : IssueAt(c, surface) \/ Flush(c, surface)
             \/ ClientAt(c)
             \/ \E answer \in Answers : CompleteAt(c, answer)
             \/ PollAt(c) \/ PollFlush(c)
  BY <1>4, CallsIInv
<1>5. CASE UNCHANGED vars
  <2>1. TypeOK'
    BY <1>5 DEF IInv, TypeOK, vars
  <2>2. AnswersConvertible' /\ ReportsHonestly'
    BY <1>5 DEF IInv, AnswersConvertible, ReportsHonestly, vars
  <2>3. Sequential'
    BY <1>5, SequentialKept DEF IInv, Sequential, vars
  <2> QED
    BY <2>1, <2>2, <2>3 DEF IInv, Sequential
<1> QED
  BY <1>1, <1>2, <1>3, <1>4, <1>5 DEF Next

\* The inductive invariant of a File holds throughout.
THEOREM CursorSound == Spec => []IInv
BY InitIInv, NextIInv, PTL DEF Spec

\* The guard of file.rs keeps a second sequential operation out for every
\* number of clones, abandoned operations included, and never outlives the
\* operation it was claimed for.
THEOREM GuardsExact == Spec => []GuardExact
<1>1. IInv => GuardExact
  <2> SUFFICES ASSUME IInv PROVE GuardExact
    OBVIOUS
  <2>1. outstanding <=> kernel # {}
    BY DEF IInv, TypeOK
  <2>2. CASE kernel = {}
    BY <2>1, <2>2, FS_EmptySet DEF GuardExact
  <2>3. CASE kernel # {}
    <3>1. PICK o \in kernel : TRUE
      BY <2>3
    <3>2. kernel = {o}
      BY <3>1 DEF IInv, OneInKernel
    <3>3. Cardinality(kernel) = 1
      BY <3>2, FS_Singleton
    <3> QED
      BY <2>1, <3>3 DEF GuardExact
  <2> QED
    BY <2>2, <2>3
<1> QED
  BY <1>1, CursorSound, PTL

\* advance_on_success: no bytes are skipped and none delivered twice, for
\* every number of clones, every cursor and every transfer, but for the two
\* excuses.
THEOREM DeliversAtCursor == Spec => []DeliveredAtCursor
<1>1. IInv => DeliveredAtCursor
  BY DEF IInv
<1> QED
  BY <1>1, CursorSound, PTL

\* The From conversions of error.rs: none loses a platform code and none
\* gives a condition of the crate's own the name of a pipe's.
THEOREM ReportsAreHonest == Spec => []ReportsHonestly
<1>1. IInv => ReportsHonestly
  BY DEF IInv
<1> QED
  BY <1>1, CursorSound, PTL
=============================================================================
