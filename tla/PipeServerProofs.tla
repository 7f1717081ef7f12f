--------------------------- MODULE PipeServerProofs ---------------------------
(***************************************************************************)
(* A pipe server is safe for every number of tasks, callbacks and spurious *)
(* signals, and whatever options it is created with: the kernel never      *)
(* writes to memory that was freed, and Ok means that there is a client.   *)
(***************************************************************************)
EXTENDS PipeServer, TLAPS

\* The steps of a call that has the connect to itself.
Owning == {"collected", "repark", "cancel", "decide", "release", "collect", "blocked", "check",
           "free", "leak"}

\* The server has a slot exactly while it accepts, and what is beside it.
SlotOwned ==
  /\ pc \in Owning => accept = "Accepting"
  /\ pc = "create" => accept = "Fresh"
  /\ pc = "gone" => accept # "Accepting"
  /\ pc \in {"create", "gone"} \/ file = "open"
  /\ accept = "Accepting" <=> slot = "owned"
  /\ slot # "none" => file = "open" /\ handle = TRUE
  /\ slot = "leaked" => pc = "gone"

\* The status word is pending as long as the kernel has the connect, and a
\* slot is collected or freed only after that.
StatusTold ==
  /\ op # "idle" => status = "STATUS_PENDING" /\ slot # "none"
  /\ slot = "none" => status = "none"
  /\ pc = "collected" => status = "Ok"
  /\ pc = "free" => Completed

\* A connect that succeeds has a client.
ClientKnown == op = "satisfied" \/ status = "Ok" => instance \in {"client", "closing"}

\* A future waits for the server's own connect, and somebody polls it.
FutureKnown ==
  /\ future # "none" => pc \in {"idle", "collected", "repark"} /\ task \in Tasks
  /\ future = "Waiting" => accept = "Accepting"
  /\ pc = "repark" => future = "Waiting"

IInv == TypeOK /\ SlotOwned /\ StatusTold /\ ClientKnown /\ FutureKnown /\ OkMeansClient

\* The bounds are inside their types.
LEMMA Bounds ==
  /\ 0 \in 0 .. MaxCallbacks
  /\ \A n \in 0 .. MaxCallbacks : /\ n < MaxCallbacks => n + 1 \in 0 .. MaxCallbacks
                                  /\ n > 0 => n - 1 \in 0 .. MaxCallbacks
  /\ \A n \in 0 .. MaxSpurious : n < MaxSpurious => n + 1 \in 0 .. MaxSpurious
  /\ \A options \in Options : options.access \subseteq Directions
BY ArmedEventAssumption, PipeAssumption DEF ServerOptions

-----------------------------------------------------------------------------
(* The steps. *)

\* A server is created with nothing outstanding.
LEMMA CreateIInv ==
  ASSUME IInv, NEW options \in Options, Create(options)
  PROVE  IInv'
<1> USE DEF IInv, Create, armedVars, serverVars, futureVars, ioVars, platformVars
<1>1. TypeOK'
  <2>1. ArmedTypeOK'
    BY Bounds DEF TypeOK, ArmedTypeOK
  <2> QED
    BY <2>1, Bounds DEF TypeOK, Steps, AcceptState, FutureKnown
<1>2. SlotOwned'
  BY DEF SlotOwned, FutureKnown, Owning, TypeOK
<1>3. StatusTold'
  BY DEF StatusTold, SlotOwned, Owning, Completed, TypeOK
<1>4. ClientKnown'
  BY DEF ClientKnown, StatusTold, SlotOwned, TypeOK
<1>5. FutureKnown'
  BY DEF FutureKnown, SlotOwned, Owning, TypeOK
<1>6. OkMeansClient'
  BY DEF OkMeansClient, ClientKnown, StatusTold, SlotOwned, Owning, TypeOK
<1> QED
  BY <1>1, <1>2, <1>3, <1>4, <1>5, <1>6

\* The file is lent for a client that an accept has reported.
LEMMA IoIInv ==
  ASSUME IInv, (\E direction \in Directions : ServerIo(direction)) \/ IoCompletes \/ PollIo
  PROVE  IInv'
<1> USE DEF IInv, ServerIo, IoCompletes, PollIo, FileRefused, Directions, armedVars, serverVars, futureVars, ioVars, platformVars
<1>1. TypeOK'
  <2>1. ArmedTypeOK'
    BY Bounds DEF TypeOK, ArmedTypeOK
  <2> QED
    BY <2>1, Bounds DEF TypeOK, Steps, AcceptState, FutureKnown
<1>2. SlotOwned'
  BY DEF SlotOwned, FutureKnown, Owning, TypeOK
<1>3. StatusTold'
  BY DEF StatusTold, SlotOwned, Owning, Completed, TypeOK
<1>4. ClientKnown'
  BY DEF ClientKnown, StatusTold, SlotOwned, TypeOK
<1>5. FutureKnown'
  BY DEF FutureKnown, SlotOwned, Owning, TypeOK
<1>6. OkMeansClient'
  BY DEF OkMeansClient, ClientKnown, StatusTold, SlotOwned, Owning, TypeOK
<1> QED
  BY <1>1, <1>2, <1>3, <1>4, <1>5, <1>6

\* An accept that is settled at once keeps the instance as it was.
LEMMA SettledAcceptIInv ==
  ASSUME IInv, NEW t \in Tasks, AcceptConnected(t) \/ ConnectAtOnce(t) \/ ConnectFails(t)
  PROVE  IInv'
<1> USE DEF IInv, AcceptConnected, ConnectAtOnce, ConnectFails, NewAccept, armedVars, serverVars, futureVars, ioVars, platformVars
<1>1. TypeOK'
  <2>1. ArmedTypeOK'
    BY Bounds DEF TypeOK, ArmedTypeOK
  <2> QED
    BY <2>1, Bounds DEF TypeOK, Steps, AcceptState, FutureKnown
<1>2. SlotOwned'
  BY DEF SlotOwned, FutureKnown, Owning, TypeOK
<1>3. StatusTold'
  BY DEF StatusTold, SlotOwned, Owning, Completed, TypeOK
<1>4. ClientKnown'
  BY DEF ClientKnown, StatusTold, SlotOwned, TypeOK
<1>5. FutureKnown'
  BY DEF FutureKnown, SlotOwned, Owning, TypeOK
<1>6. OkMeansClient'
  BY DEF OkMeansClient, ClientKnown, StatusTold, SlotOwned, Owning, TypeOK
<1> QED
  BY <1>1, <1>2, <1>3, <1>4, <1>5, <1>6

\* A resumed accept waits for the connect that is there, or collects it.
LEMMA ResumeIInv ==
  ASSUME IInv, NEW t \in Tasks, Resume(t)
  PROVE  IInv'
<1> USE DEF IInv, Resume, NewAccept, armedVars, serverVars, futureVars, ioVars, platformVars
<1>1. TypeOK'
  <2>1. ArmedTypeOK'
    BY Bounds DEF TypeOK, ArmedTypeOK
  <2> QED
    BY <2>1, Bounds DEF TypeOK, Steps, AcceptState, FutureKnown
<1>2. SlotOwned'
  BY DEF SlotOwned, FutureKnown, Owning, TypeOK
<1>3. StatusTold'
  BY DEF StatusTold, SlotOwned, Owning, Completed, TypeOK
<1>4. ClientKnown'
  BY DEF ClientKnown, StatusTold, SlotOwned, TypeOK
<1>5. FutureKnown'
  BY DEF FutureKnown, SlotOwned, Owning, TypeOK
<1>6. OkMeansClient'
  BY DEF OkMeansClient, ClientKnown, StatusTold, SlotOwned, Owning, TypeOK
<1> QED
  BY <1>1, <1>2, <1>3, <1>4, <1>5, <1>6

\* A connect starts with a slot of its own, and the server had none.
LEMMA ConnectPendingIInv ==
  ASSUME IInv, NEW t \in Tasks, ConnectPending(t)
  PROVE  IInv'
<1> USE DEF IInv, ConnectPending, ArmedNew, NewAccept, armedVars, serverVars, futureVars, ioVars, platformVars
<1>1. TypeOK'
  <2>1. ArmedTypeOK'
    BY Bounds DEF TypeOK, ArmedTypeOK
  <2> QED
    BY <2>1, Bounds DEF TypeOK, Steps, AcceptState, FutureKnown
<1>2. SlotOwned'
  BY DEF SlotOwned, FutureKnown, Owning, TypeOK
<1>3. StatusTold'
  BY DEF StatusTold, SlotOwned, Owning, Completed, TypeOK
<1>4. ClientKnown'
  BY DEF ClientKnown, StatusTold, SlotOwned, TypeOK
<1>5. FutureKnown'
  BY DEF FutureKnown, SlotOwned, Owning, TypeOK
<1>6. OkMeansClient'
  BY DEF OkMeansClient, ClientKnown, StatusTold, SlotOwned, Owning, TypeOK
<1> QED
  BY <1>1, <1>2, <1>3, <1>4, <1>5, <1>6

\* A settled accept is delivered.
LEMMA PollSettledIInv ==
  ASSUME IInv, PollSettled
  PROVE  IInv'
<1> USE DEF IInv, PollSettled, Resolve, armedVars, serverVars, futureVars, ioVars, platformVars
<1>1. TypeOK'
  <2>1. ArmedTypeOK'
    BY Bounds DEF TypeOK, ArmedTypeOK
  <2> QED
    BY <2>1, Bounds DEF TypeOK, Steps, AcceptState, FutureKnown
<1>2. SlotOwned'
  BY DEF SlotOwned, FutureKnown, Owning, TypeOK
<1>3. StatusTold'
  BY DEF StatusTold, SlotOwned, Owning, Completed, TypeOK
<1>4. ClientKnown'
  BY DEF ClientKnown, StatusTold, SlotOwned, TypeOK
<1>5. FutureKnown'
  BY DEF FutureKnown, SlotOwned, Owning, TypeOK
<1>6. OkMeansClient'
  BY DEF OkMeansClient, ClientKnown, StatusTold, SlotOwned, Owning, TypeOK
<1> QED
  BY <1>1, <1>2, <1>3, <1>4, <1>5, <1>6

\* A signal is only a reason to read the status.
LEMMA PollWaitingIInv ==
  ASSUME IInv, PollWaiting
  PROVE  IInv'
<1> USE DEF IInv, PollWaiting, PollSignalled, Resolve, armedVars, serverVars, futureVars, ioVars, platformVars
<1>1. TypeOK'
  <2>1. ArmedTypeOK'
    BY Bounds DEF TypeOK, ArmedTypeOK
  <2> QED
    BY <2>1, Bounds DEF TypeOK, Steps, AcceptState, FutureKnown
<1>2. SlotOwned'
  BY DEF SlotOwned, FutureKnown, Owning, TypeOK
<1>3. StatusTold'
  BY DEF StatusTold, SlotOwned, Owning, Completed, TypeOK
<1>4. ClientKnown'
  BY DEF ClientKnown, StatusTold, SlotOwned, TypeOK
<1>5. FutureKnown'
  BY DEF FutureKnown, SlotOwned, Owning, TypeOK
<1>6. OkMeansClient'
  BY DEF OkMeansClient, ClientKnown, StatusTold, SlotOwned, Owning, TypeOK
<1> QED
  BY <1>1, <1>2, <1>3, <1>4, <1>5, <1>6

\* The waker is recorded again.
LEMMA ReparkIInv ==
  ASSUME IInv, Repark
  PROVE  IInv'
<1> USE DEF IInv, Repark, PollSignalled, armedVars, serverVars, futureVars, ioVars, platformVars
<1>1. TypeOK'
  <2>1. ArmedTypeOK'
    BY Bounds DEF TypeOK, ArmedTypeOK
  <2> QED
    BY <2>1, Bounds DEF TypeOK, Steps, AcceptState, FutureKnown
<1>2. SlotOwned'
  BY DEF SlotOwned, FutureKnown, Owning, TypeOK
<1>3. StatusTold'
  BY DEF StatusTold, SlotOwned, Owning, Completed, TypeOK
<1>4. ClientKnown'
  BY DEF ClientKnown, StatusTold, SlotOwned, TypeOK
<1>5. FutureKnown'
  BY DEF FutureKnown, SlotOwned, Owning, TypeOK
<1>6. OkMeansClient'
  BY DEF OkMeansClient, ClientKnown, StatusTold, SlotOwned, Owning, TypeOK
<1> QED
  BY <1>1, <1>2, <1>3, <1>4, <1>5, <1>6

\* A collected slot is the kernel's no more.
LEMMA DropSlotIInv ==
  ASSUME IInv, NEW released \in BOOLEAN, DropSlot(released)
  PROVE  IInv'
<1> USE DEF IInv, DropSlot, ArmedDropped, Resolve, armedVars, serverVars, futureVars, ioVars, platformVars
<1>1. TypeOK'
  <2>1. ArmedTypeOK'
    BY Bounds DEF TypeOK, ArmedTypeOK
  <2> QED
    BY <2>1, Bounds DEF TypeOK, Steps, AcceptState, FutureKnown
<1>2. SlotOwned'
  BY DEF SlotOwned, FutureKnown, Owning, TypeOK
<1>3. StatusTold'
  BY DEF StatusTold, SlotOwned, Owning, Completed, TypeOK
<1>4. ClientKnown'
  BY DEF ClientKnown, StatusTold, SlotOwned, TypeOK
<1>5. FutureKnown'
  BY DEF FutureKnown, SlotOwned, Owning, TypeOK
<1>6. OkMeansClient'
  BY DEF OkMeansClient, ClientKnown, StatusTold, SlotOwned, Owning, TypeOK
<1> QED
  BY <1>1, <1>2, <1>3, <1>4, <1>5, <1>6

\* A dropped future leaves the connect.
LEMMA AbandonAcceptIInv ==
  ASSUME IInv, AbandonAccept
  PROVE  IInv'
<1> USE DEF IInv, AbandonAccept, armedVars, serverVars, futureVars, ioVars, platformVars
<1>1. TypeOK'
  <2>1. ArmedTypeOK'
    BY Bounds DEF TypeOK, ArmedTypeOK
  <2> QED
    BY <2>1, Bounds DEF TypeOK, Steps, AcceptState, FutureKnown
<1>2. SlotOwned'
  BY DEF SlotOwned, FutureKnown, Owning, TypeOK
<1>3. StatusTold'
  BY DEF StatusTold, SlotOwned, Owning, Completed, TypeOK
<1>4. ClientKnown'
  BY DEF ClientKnown, StatusTold, SlotOwned, TypeOK
<1>5. FutureKnown'
  BY DEF FutureKnown, SlotOwned, Owning, TypeOK
<1>6. OkMeansClient'
  BY DEF OkMeansClient, ClientKnown, StatusTold, SlotOwned, Owning, TypeOK
<1> QED
  BY <1>1, <1>2, <1>3, <1>4, <1>5, <1>6

\* A disconnect takes the client from a server that has no connect.
LEMMA DisconnectIInv ==
  ASSUME IInv, Disconnect
  PROVE  IInv'
<1> USE DEF IInv, Disconnect, FileRefused, armedVars, serverVars, futureVars, ioVars, platformVars
<1>1. TypeOK'
  <2>1. ArmedTypeOK'
    BY Bounds DEF TypeOK, ArmedTypeOK
  <2> QED
    BY <2>1, Bounds DEF TypeOK, Steps, AcceptState, FutureKnown
<1>2. SlotOwned'
  BY DEF SlotOwned, FutureKnown, Owning, TypeOK
<1>3. StatusTold'
  BY DEF StatusTold, SlotOwned, Owning, Completed, TypeOK
<1>4. ClientKnown'
  BY DEF ClientKnown, StatusTold, SlotOwned, TypeOK
<1>5. FutureKnown'
  BY DEF FutureKnown, SlotOwned, Owning, TypeOK
<1>6. OkMeansClient'
  BY DEF OkMeansClient, ClientKnown, StatusTold, SlotOwned, Owning, TypeOK
<1> QED
  BY <1>1, <1>2, <1>3, <1>4, <1>5, <1>6

\* A drop begins, or ends at once between accepts.
LEMMA DropServerIInv ==
  ASSUME IInv, DropServer \/ DropAccepting
  PROVE  IInv'
<1> USE DEF IInv, DropServer, DropAccepting, armedVars, serverVars, futureVars, ioVars, platformVars
<1>1. TypeOK'
  <2>1. ArmedTypeOK'
    BY Bounds DEF TypeOK, ArmedTypeOK
  <2> QED
    BY <2>1, Bounds DEF TypeOK, Steps, AcceptState, FutureKnown
<1>2. SlotOwned'
  BY DEF SlotOwned, FutureKnown, Owning, TypeOK
<1>3. StatusTold'
  BY DEF StatusTold, SlotOwned, Owning, Completed, TypeOK
<1>4. ClientKnown'
  BY DEF ClientKnown, StatusTold, SlotOwned, TypeOK
<1>5. FutureKnown'
  BY DEF FutureKnown, SlotOwned, Owning, TypeOK
<1>6. OkMeansClient'
  BY DEF OkMeansClient, ClientKnown, StatusTold, SlotOwned, Owning, TypeOK
<1> QED
  BY <1>1, <1>2, <1>3, <1>4, <1>5, <1>6

\* A cancellation frees nothing.
LEMMA IssueCancelIInv ==
  ASSUME IInv, NEW outcome \in CancelOutcome, IssueCancel(outcome)
  PROVE  IInv'
<1> USE DEF IInv, IssueCancel, CancelOutcome, armedVars, serverVars, futureVars, ioVars, platformVars
<1>1. TypeOK'
  <2>1. ArmedTypeOK'
    BY Bounds DEF TypeOK, ArmedTypeOK
  <2> QED
    BY <2>1, Bounds DEF TypeOK, Steps, AcceptState, FutureKnown
<1>2. SlotOwned'
  BY DEF SlotOwned, FutureKnown, Owning, TypeOK
<1>3. StatusTold'
  BY DEF StatusTold, SlotOwned, Owning, Completed, TypeOK
<1>4. ClientKnown'
  BY DEF ClientKnown, StatusTold, SlotOwned, TypeOK
<1>5. FutureKnown'
  BY DEF FutureKnown, SlotOwned, Owning, TypeOK
<1>6. OkMeansClient'
  BY DEF OkMeansClient, ClientKnown, StatusTold, SlotOwned, Owning, TypeOK
<1> QED
  BY <1>1, <1>2, <1>3, <1>4, <1>5, <1>6

\* The drop goes on; it frees only what the status says is finished.
LEMMA TeardownIInv ==
  ASSUME IInv, TeardownAction \/ CollectBlocking \/ CollectFinishedIt
  PROVE  IInv'
<1> USE DEF IInv, TeardownAction, CollectBlocking, CollectFinishedIt, armedVars, serverVars, futureVars, ioVars, platformVars
<1>1. TypeOK'
  <2>1. ArmedTypeOK'
    BY Bounds DEF TypeOK, ArmedTypeOK
  <2> QED
    BY <2>1, Bounds DEF TypeOK, Steps, AcceptState, FutureKnown
<1>2. SlotOwned'
  BY DEF SlotOwned, FutureKnown, Owning, TypeOK
<1>3. StatusTold'
  BY DEF StatusTold, SlotOwned, Owning, Completed, TypeOK
<1>4. ClientKnown'
  BY DEF ClientKnown, StatusTold, SlotOwned, TypeOK
<1>5. FutureKnown'
  BY DEF FutureKnown, SlotOwned, Owning, TypeOK
<1>6. OkMeansClient'
  BY DEF OkMeansClient, ClientKnown, StatusTold, SlotOwned, Owning, TypeOK
<1> QED
  BY <1>1, <1>2, <1>3, <1>4, <1>5, <1>6

\* The blocking collect returns.
LEMMA CollectReturnsIInv ==
  ASSUME IInv, CollectReturns
  PROVE  IInv'
<1> USE DEF IInv, CollectReturns, armedVars, serverVars, futureVars, ioVars, platformVars
<1>1. TypeOK'
  <2>1. ArmedTypeOK'
    BY Bounds DEF TypeOK, ArmedTypeOK
  <2> QED
    BY <2>1, Bounds DEF TypeOK, Steps, AcceptState, FutureKnown
<1>2. SlotOwned'
  BY DEF SlotOwned, FutureKnown, Owning, TypeOK
<1>3. StatusTold'
  BY DEF StatusTold, SlotOwned, Owning, Completed, TypeOK
<1>4. ClientKnown'
  BY DEF ClientKnown, StatusTold, SlotOwned, TypeOK
<1>5. FutureKnown'
  BY DEF FutureKnown, SlotOwned, Owning, TypeOK
<1>6. OkMeansClient'
  BY DEF OkMeansClient, ClientKnown, StatusTold, SlotOwned, Owning, TypeOK
<1> QED
  BY <1>1, <1>2, <1>3, <1>4, <1>5, <1>6

\* The wait is released before the collect.
LEMMA ReleaseIInv ==
  ASSUME IInv, ReleaseBeforeCollect
  PROVE  IInv'
<1> USE DEF IInv, ReleaseBeforeCollect, ReleaseRegistration, armedVars, serverVars, futureVars, ioVars, platformVars
<1>1. TypeOK'
  <2>1. ArmedTypeOK'
    BY Bounds DEF TypeOK, ArmedTypeOK
  <2> QED
    BY <2>1, Bounds DEF TypeOK, Steps, AcceptState, FutureKnown
<1>2. SlotOwned'
  BY DEF SlotOwned, FutureKnown, Owning, TypeOK
<1>3. StatusTold'
  BY DEF StatusTold, SlotOwned, Owning, Completed, TypeOK
<1>4. ClientKnown'
  BY DEF ClientKnown, StatusTold, SlotOwned, TypeOK
<1>5. FutureKnown'
  BY DEF FutureKnown, SlotOwned, Owning, TypeOK
<1>6. OkMeansClient'
  BY DEF OkMeansClient, ClientKnown, StatusTold, SlotOwned, Owning, TypeOK
<1> QED
  BY <1>1, <1>2, <1>3, <1>4, <1>5, <1>6

\* The slot is freed when the kernel is done with it.
LEMMA FreeSlotIInv ==
  ASSUME IInv, FreeSlot
  PROVE  IInv'
<1> USE DEF IInv, FreeSlot, ArmedDropped, armedVars, serverVars, futureVars, ioVars, platformVars
<1>1. TypeOK'
  <2>1. ArmedTypeOK'
    BY Bounds DEF TypeOK, ArmedTypeOK
  <2> QED
    BY <2>1, Bounds DEF TypeOK, Steps, AcceptState, FutureKnown
<1>2. SlotOwned'
  BY DEF SlotOwned, FutureKnown, Owning, TypeOK
<1>3. StatusTold'
  BY DEF StatusTold, SlotOwned, Owning, Completed, TypeOK
<1>4. ClientKnown'
  BY DEF ClientKnown, StatusTold, SlotOwned, TypeOK
<1>5. FutureKnown'
  BY DEF FutureKnown, SlotOwned, Owning, TypeOK
<1>6. OkMeansClient'
  BY DEF OkMeansClient, ClientKnown, StatusTold, SlotOwned, Owning, TypeOK
<1> QED
  BY <1>1, <1>2, <1>3, <1>4, <1>5, <1>6

\* A slot the kernel may still write to is forgotten, never freed.
LEMMA LeakSlotIInv ==
  ASSUME IInv, LeakSlot
  PROVE  IInv'
<1> USE DEF IInv, LeakSlot, armedVars, serverVars, futureVars, ioVars, platformVars
<1>1. TypeOK'
  <2>1. ArmedTypeOK'
    BY Bounds DEF TypeOK, ArmedTypeOK
  <2> QED
    BY <2>1, Bounds DEF TypeOK, Steps, AcceptState, FutureKnown
<1>2. SlotOwned'
  BY DEF SlotOwned, FutureKnown, Owning, TypeOK
<1>3. StatusTold'
  BY DEF StatusTold, SlotOwned, Owning, Completed, TypeOK
<1>4. ClientKnown'
  BY DEF ClientKnown, StatusTold, SlotOwned, TypeOK
<1>5. FutureKnown'
  BY DEF FutureKnown, SlotOwned, Owning, TypeOK
<1>6. OkMeansClient'
  BY DEF OkMeansClient, ClientKnown, StatusTold, SlotOwned, Owning, TypeOK
<1> QED
  BY <1>1, <1>2, <1>3, <1>4, <1>5, <1>6

\* A client comes or goes, or the connect breaks.
LEMMA ClientIInv ==
  ASSUME IInv, ClientOpens \/ ClientCloses \/ ConnectBreaks
  PROVE  IInv'
<1> USE DEF IInv, ClientOpens, ClientCloses, ConnectBreaks, armedVars, serverVars, futureVars, ioVars, platformVars
<1>1. TypeOK'
  <2>1. ArmedTypeOK'
    BY Bounds DEF TypeOK, ArmedTypeOK
  <2> QED
    BY <2>1, Bounds DEF TypeOK, Steps, AcceptState, FutureKnown
<1>2. SlotOwned'
  BY DEF SlotOwned, FutureKnown, Owning, TypeOK
<1>3. StatusTold'
  BY DEF StatusTold, SlotOwned, Owning, Completed, TypeOK
<1>4. ClientKnown'
  BY DEF ClientKnown, StatusTold, SlotOwned, TypeOK
<1>5. FutureKnown'
  BY DEF FutureKnown, SlotOwned, Owning, TypeOK
<1>6. OkMeansClient'
  BY DEF OkMeansClient, ClientKnown, StatusTold, SlotOwned, Owning, TypeOK
<1> QED
  BY <1>1, <1>2, <1>3, <1>4, <1>5, <1>6

\* The kernel writes the status into a slot that is there.
LEMMA KernelWritesIInv ==
  ASSUME IInv, KernelWrites
  PROVE  IInv'
<1> USE DEF IInv, KernelWrites, armedVars, serverVars, futureVars, ioVars, platformVars
<1>1. TypeOK'
  <2>1. ArmedTypeOK'
    BY Bounds DEF TypeOK, ArmedTypeOK
  <2> QED
    BY <2>1, Bounds DEF TypeOK, Steps, AcceptState, FutureKnown
<1>2. SlotOwned'
  BY DEF SlotOwned, FutureKnown, Owning, TypeOK
<1>3. StatusTold'
  BY DEF StatusTold, SlotOwned, Owning, Completed, TypeOK
<1>4. ClientKnown'
  BY DEF ClientKnown, StatusTold, SlotOwned, TypeOK
<1>5. FutureKnown'
  BY DEF FutureKnown, SlotOwned, Owning, TypeOK
<1>6. OkMeansClient'
  BY DEF OkMeansClient, ClientKnown, StatusTold, SlotOwned, Owning, TypeOK
<1> QED
  BY <1>1, <1>2, <1>3, <1>4, <1>5, <1>6

\* The event is signalled.
LEMMA SignalIInv ==
  ASSUME IInv, KernelSignals \/ SpuriousSignal
  PROVE  IInv'
<1> USE DEF IInv, KernelSignals, SpuriousSignal, armedVars, serverVars, futureVars, ioVars, platformVars
<1>1. TypeOK'
  <2>1. ArmedTypeOK'
    BY Bounds DEF TypeOK, ArmedTypeOK
  <2> QED
    BY <2>1, Bounds DEF TypeOK, Steps, AcceptState, FutureKnown
<1>2. SlotOwned'
  BY DEF SlotOwned, FutureKnown, Owning, TypeOK
<1>3. StatusTold'
  BY DEF StatusTold, SlotOwned, Owning, Completed, TypeOK
<1>4. ClientKnown'
  BY DEF ClientKnown, StatusTold, SlotOwned, TypeOK
<1>5. FutureKnown'
  BY DEF FutureKnown, SlotOwned, Owning, TypeOK
<1>6. OkMeansClient'
  BY DEF OkMeansClient, ClientKnown, StatusTold, SlotOwned, Owning, TypeOK
<1> QED
  BY <1>1, <1>2, <1>3, <1>4, <1>5, <1>6

\* The pool takes the signal over.
LEMMA DispatchIInv ==
  ASSUME IInv, Dispatch, UNCHANGED <<serverVars, futureVars, pc, cancelled, platformVars>>
  PROVE  IInv'
<1> USE DEF IInv, Dispatch, armedVars, serverVars, futureVars, ioVars, platformVars
<1>1. TypeOK'
  <2>1. ArmedTypeOK'
    BY Bounds DEF TypeOK, ArmedTypeOK
  <2> QED
    BY <2>1, Bounds DEF TypeOK, Steps, AcceptState, FutureKnown
<1>2. SlotOwned'
  BY DEF SlotOwned, FutureKnown, Owning, TypeOK
<1>3. StatusTold'
  BY DEF StatusTold, SlotOwned, Owning, Completed, TypeOK
<1>4. ClientKnown'
  BY DEF ClientKnown, StatusTold, SlotOwned, TypeOK
<1>5. FutureKnown'
  BY DEF FutureKnown, SlotOwned, Owning, TypeOK
<1>6. OkMeansClient'
  BY DEF OkMeansClient, ClientKnown, StatusTold, SlotOwned, Owning, TypeOK
<1> QED
  BY <1>1, <1>2, <1>3, <1>4, <1>5, <1>6

\* The callback leaves the flag, and takes the waker.
LEMMA CallbackMarksIInv ==
  ASSUME IInv, CallbackMarks, UNCHANGED <<serverVars, futureVars, pc, cancelled, platformVars>>
  PROVE  IInv'
<1> USE DEF IInv, CallbackMarks, armedVars, serverVars, futureVars, ioVars, platformVars
<1>1. TypeOK'
  <2>1. ArmedTypeOK'
    BY Bounds DEF TypeOK, ArmedTypeOK
  <2> QED
    BY <2>1, Bounds DEF TypeOK, Steps, AcceptState, FutureKnown
<1>2. SlotOwned'
  BY DEF SlotOwned, FutureKnown, Owning, TypeOK
<1>3. StatusTold'
  BY DEF StatusTold, SlotOwned, Owning, Completed, TypeOK
<1>4. ClientKnown'
  BY DEF ClientKnown, StatusTold, SlotOwned, TypeOK
<1>5. FutureKnown'
  BY DEF FutureKnown, SlotOwned, Owning, TypeOK
<1>6. OkMeansClient'
  BY DEF OkMeansClient, ClientKnown, StatusTold, SlotOwned, Owning, TypeOK
<1> QED
  BY <1>1, <1>2, <1>3, <1>4, <1>5, <1>6

\* The callback wakes.
LEMMA CallbackWakesIInv ==
  ASSUME IInv, NEW t \in Tasks, CallbackWakes(t), ready' = ready \cup {t},
         UNCHANGED <<serverVars, future, task, result, pc, cancelled, platformVars>>
  PROVE  IInv'
<1> USE DEF IInv, CallbackWakes, armedVars, serverVars, futureVars, ioVars, platformVars
<1>1. TypeOK'
  <2>1. ArmedTypeOK'
    BY Bounds DEF TypeOK, ArmedTypeOK
  <2> QED
    BY <2>1, Bounds DEF TypeOK, Steps, AcceptState, FutureKnown
<1>2. SlotOwned'
  BY DEF SlotOwned, FutureKnown, Owning, TypeOK
<1>3. StatusTold'
  BY DEF StatusTold, SlotOwned, Owning, Completed, TypeOK
<1>4. ClientKnown'
  BY DEF ClientKnown, StatusTold, SlotOwned, TypeOK
<1>5. FutureKnown'
  BY DEF FutureKnown, SlotOwned, Owning, TypeOK
<1>6. OkMeansClient'
  BY DEF OkMeansClient, ClientKnown, StatusTold, SlotOwned, Owning, TypeOK
<1> QED
  BY <1>1, <1>2, <1>3, <1>4, <1>5, <1>6

-----------------------------------------------------------------------------
(* The theorems. *)

\* There is no server yet.
LEMMA InitIInv == Init => IInv
<1> SUFFICES ASSUME Init PROVE IInv
  OBVIOUS
<1>1. ArmedTypeOK
  BY Bounds DEF Init, ArmedTypeOK
<1>2. 0 \in 0 .. MaxSpurious
  BY PipeAssumption
<1>3. TypeOK
  BY <1>1, <1>2 DEF Init, TypeOK, AcceptState, CancelOutcome, Steps
<1>4. SlotOwned /\ StatusTold /\ ClientKnown
  BY DEF Init, SlotOwned, Owning, StatusTold, ClientKnown, Completed
<1>5. FutureKnown /\ OkMeansClient
  BY DEF Init, FutureKnown, OkMeansClient
<1> QED
  BY <1>3, <1>4, <1>5 DEF IInv

\* Every step keeps the invariant.
LEMMA NextIInv == IInv /\ [Next]_vars => IInv'
<1> SUFFICES ASSUME IInv, [Next]_vars PROVE IInv'
  OBVIOUS
<1>1. CASE \/ \E options \in Options : Create(options)
           \/ \E direction \in Directions : ServerIo(direction)
           \/ IoCompletes \/ PollIo
  BY <1>1, CreateIInv, IoIInv
<1>2. CASE \E t \in Tasks : \/ AcceptConnected(t) \/ Resume(t)
                            \/ ConnectPending(t) \/ ConnectAtOnce(t) \/ ConnectFails(t)
  BY <1>2, SettledAcceptIInv, ResumeIInv, ConnectPendingIInv
<1>3. CASE Poll \/ Repark \/ AbandonAccept \/ \E released \in BOOLEAN : DropSlot(released)
  BY <1>3, PollSettledIInv, PollWaitingIInv, ReparkIInv, AbandonAcceptIInv, DropSlotIInv DEF Poll
<1>4. CASE Disconnect \/ DropServer \/ DropAccepting \/ DropStep \/ ReleaseBeforeCollect
  BY <1>4, DisconnectIInv, DropServerIInv, IssueCancelIInv, TeardownIInv, CollectReturnsIInv,
     ReleaseIInv, FreeSlotIInv, LeakSlotIInv DEF DropStep
<1>5. CASE ClientOpens \/ ClientCloses \/ ConnectBreaks \/ KernelWrites \/ KernelSignals
             \/ SpuriousSignal
  BY <1>5, ClientIInv, KernelWritesIInv, SignalIInv
<1>6. CASE PoolStep
  BY <1>6, DispatchIInv, CallbackMarksIInv, CallbackWakesIInv DEF PoolStep
<1>7. CASE UNCHANGED vars
  <2> USE <1>7 DEF IInv, vars, armedVars, serverVars, futureVars, ioVars, platformVars
  <2>1. TypeOK'
    BY DEF TypeOK, ArmedTypeOK
  <2>2. SlotOwned' /\ StatusTold' /\ ClientKnown'
    BY DEF SlotOwned, StatusTold, ClientKnown, Completed
  <2>3. FutureKnown' /\ OkMeansClient'
    BY DEF FutureKnown, OkMeansClient
  <2> QED
    BY <2>1, <2>2, <2>3
<1> QED
  BY <1>1, <1>2, <1>3, <1>4, <1>5, <1>6, <1>7 DEF Next

\* The inductive invariant of a pipe server holds throughout.
THEOREM ServerSound == Spec => []IInv
BY InitIInv, NextIInv, PTL DEF Spec

\* Drop for Server and AcceptSlot: on no path, through whichever outcome of the
\* cancellation, the release and the collect, is the memory of a connect freed
\* or its handle closed while the kernel has it.
THEOREM KernelMemoryIsKept == Spec => []KernelMemoryKept
<1>1. IInv => KernelMemoryKept
  BY DEF IInv, StatusTold, SlotOwned, KernelMemoryKept, TypeOK, ArmedTypeOK
<1> QED
  BY <1>1, ServerSound, PTL

\* Accept::poll and Server::file: Ok means that the kernel connected a client,
\* whatever signals came without one, and the ring works for no other.
THEOREM OkMeansAClient == Spec => []OkMeansClient
<1>1. IInv => OkMeansClient
  BY DEF IInv
<1> QED
  BY <1>1, ServerSound, PTL
=============================================================================
