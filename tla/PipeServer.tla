------------------------------ MODULE PipeServer ------------------------------
(***************************************************************************)
(* pipe/server.rs: one instance of a named pipe, the accepts issued        *)
(* against it and its drop.  The connect of an accept is an overlapped     *)
(* operation outside the ring: the kernel writes its status word and then  *)
(* signals the ArmedEvent beside it, whoever is or is not waiting.         *)
(*                                                                         *)
(* An Accept future borrows the server, so disconnect, a second accept and *)
(* the drop happen only without one; dropping the future leaves the        *)
(* connect, and its waker, where they are.  Blocking calls are their own   *)
(* steps, for the kernel and the pool go on meanwhile.                     *)
(***************************************************************************)
EXTENDS ArmedEvent

CONSTANTS
  MaxSpurious,   \* signals of the event that announce no status
  Others,        \* the instances of the name that exist already
  Options        \* the ServerOptions a server may be created with

Directions    == {"read", "write"}
ServerOptions == [access : SUBSET Directions, max : Nat \ {0}, first : BOOLEAN]

ASSUME PipeAssumption ==
  /\ MaxSpurious \in Nat /\ Others \in Nat
  /\ \A o \in Options : o \in ServerOptions

VARIABLES
  accept,       \* AcceptState, without the slot
  slot,         \* the AcceptSlot: "none", "owned" by the server or "leaked"
  status,       \* OVERLAPPED.Internal
  file,         \* the server's reference to the handle: "open" or "closed"
  future,       \* AcceptFuture, "none" when there is no Accept
  task,         \* the task that polls it
  result,       \* what the last accept resolved to
  ready,        \* tasks their executor has been told to poll
  pc,           \* "idle", or the step a call that blocks has reached
  cancelled,    \* CancelOutcome
  access,       \* what the server may do to the client
  io,           \* an operation through the ring on the server's handle
  instance,     \* the platform's pipe instance
  op,           \* the platform's side of the connect
  owed,         \* the status is written and the event not yet signalled
  spurious      \* how often the event was signalled without a status

serverVars   == <<accept, slot, status, file>>
futureVars   == <<future, task, result, ready>>
ioVars       == <<access, io>>
platformVars == <<instance, op, owed, spurious, ioVars>>
vars == <<armedVars, serverVars, futureVars, pc, cancelled, platformVars>>

AcceptState   == {"Fresh", "Idle", "Accepting", "Connected"}
CancelOutcome == {"Located", "NotFound", "Failed"}
Steps == {"create", "idle", "collected", "repark", "cancel", "decide", "release", "collect",
          "blocked", "check", "free", "leak", "gone"}

TypeOK ==
  /\ ArmedTypeOK
  /\ accept \in AcceptState
  /\ slot \in {"none", "owned", "leaked"}
  /\ status \in {"none", "STATUS_PENDING", "Ok", "Err"}
  /\ file \in {"open", "closed"}
  /\ future \in {"none", "Ready", "Waiting", "Failed"}
  /\ task \in Tasks \cup {NoTask}
  /\ result \in {"none", "Ok", "Err"}
  /\ ready \subseteq Tasks
  /\ pc \in Steps
  /\ cancelled \in CancelOutcome
  /\ access \subseteq Directions
  /\ io \in {"none", "kernel", "failing", "completed", "Listening", "AcceptOutstanding"}
  /\ instance \in {"none", "listening", "client", "closing", "disconnected"}
  /\ op \in {"idle", "pending", "satisfied", "failing"}
  /\ owed \in BOOLEAN
  /\ spurious \in 0 .. MaxSpurious

\* There is no slot, so no event either.
Init ==
  /\ event = FALSE /\ entered = 0 /\ waking = {} /\ signalled = FALSE
  /\ waker = NoTask /\ registration = "Released" /\ shared = FALSE /\ handle = FALSE
  /\ accept = "Fresh" /\ slot = "none" /\ status = "none" /\ file = "closed"
  /\ future = "none" /\ task = NoTask /\ result = "none" /\ ready = {}
  /\ pc = "create" /\ cancelled = "Located"
  /\ access = {} /\ io = "none"
  /\ instance = "none" /\ op = "idle" /\ owed = FALSE /\ spurious = 0

Completed == status # "STATUS_PENDING"

\* A new Accept is awaited, which polls it.
NewAccept(t, state) ==
  /\ future' = state
  /\ task' = t
  /\ result' = "none"
  /\ ready' = ready \cup {t}

-----------------------------------------------------------------------------
(* ServerOptions::create. *)

\* An instance listens from the start, if the name admits it.
Create(options) ==
  /\ pc = "create"
  /\ options.access # {} /\ Others < options.max /\ (options.first => Others = 0)
  /\ access' = options.access
  /\ file' = "open" /\ instance' = "listening"
  /\ pc' = "idle"
  /\ UNCHANGED <<armedVars, accept, slot, status, futureVars, cancelled, op, owed, spurious, io>>

-----------------------------------------------------------------------------
(* Server::file and what goes through it. *)

\* Mutant: a client the kernel has connected is good enough.
FileIfConnected ==
  CASE accept = "Connected"                  -> "none"
    [] accept = "Accepting" /\ status = "Ok" -> "none"
    [] accept = "Accepting" /\ status # "Ok" -> "AcceptOutstanding"
    [] OTHER                                 -> "Listening"

\* Why the file is not lent, "none" if it is.
FileRefused ==
  CASE accept = "Connected" -> "none"
    [] accept = "Accepting" -> "AcceptOutstanding"
    [] OTHER                -> "Listening"

\* read_at and write_at; a refusal, too, is for the future to deliver.  The
\* platform fails what the instance was not created for.
ServerIo(direction) ==
  /\ pc = "idle" /\ future = "none" /\ io = "none"
  /\ io' = IF FileRefused # "none" THEN FileRefused
           ELSE IF direction \in access THEN "kernel" ELSE "failing"
  /\ UNCHANGED <<armedVars, serverVars, futureVars, pc, cancelled, instance, op, owed, spurious,
                 access>>

IoCompletes ==
  /\ io \in {"kernel", "failing"}
  /\ io' = "completed"
  /\ UNCHANGED <<armedVars, serverVars, futureVars, pc, cancelled, instance, op, owed, spurious,
                 access>>

\* PipeRead::poll and PipeWrite::poll.
PollIo ==
  /\ io \in {"completed", "Listening", "AcceptOutstanding"}
  /\ io' = "none"
  /\ UNCHANGED <<armedVars, serverVars, futureVars, pc, cancelled, instance, op, owed, spurious,
                 access>>

-----------------------------------------------------------------------------
(* Server::accept. *)

\* The client is known already.
AcceptConnected(t) ==
  /\ pc = "idle" /\ future = "none"
  /\ accept = "Connected"
  /\ NewAccept(t, "Ready")
  /\ UNCHANGED <<armedVars, serverVars, pc, cancelled, platformVars>>

\* An outstanding connect is resumed, not reissued: a finished one is
\* collected at once.
Resume(t) ==
  /\ pc = "idle" /\ future = "none"
  /\ accept = "Accepting"
  /\ NewAccept(t, CASE status = "Ok"  -> "Ready"
                    [] status = "Err" -> "Failed"
                    [] OTHER          -> "Waiting")
  /\ pc' = IF status = "Ok" THEN "collected" ELSE "idle"
  /\ UNCHANGED <<armedVars, serverVars, cancelled, platformVars>>

\* ConnectNamedPipe is pending: the slot is kept.
ConnectPending(t) ==
  /\ pc = "idle" /\ future = "none"
  /\ accept \in {"Fresh", "Idle"}
  /\ instance \in {"listening", "disconnected"}
  /\ ArmedNew
  /\ NewAccept(t, "Waiting")
  /\ accept' = "Accepting" /\ slot' = "owned" /\ status' = "STATUS_PENDING"
  /\ instance' = "listening" /\ op' = "pending"
  /\ UNCHANGED <<file, pc, cancelled, owed, spurious, ioVars>>

\* ERROR_PIPE_CONNECTED or a plain success: no event will come, and the slot
\* is dropped.
ConnectAtOnce(t) ==
  /\ pc = "idle" /\ future = "none"
  /\ accept \in {"Fresh", "Idle"}
  /\ instance = "client"
  /\ NewAccept(t, "Ready")
  /\ accept' = "Connected"
  /\ UNCHANGED <<armedVars, slot, status, file, pc, cancelled, platformVars>>

\* The event cannot be created or the connect does not start; the state stays
\* as it was.
ConnectFails(t) ==
  /\ pc = "idle" /\ future = "none"
  /\ accept \in {"Fresh", "Idle"}
  /\ NewAccept(t, "Failed")
  /\ UNCHANGED <<armedVars, serverVars, pc, cancelled, platformVars>>

-----------------------------------------------------------------------------
(* Accept::poll. *)

Resolve(outcome) ==
  /\ future' = "none" /\ task' = NoTask
  /\ result' = outcome

\* An accept that was settled when it was made.
PollSettled ==
  /\ pc = "idle"
  /\ \/ future = "Ready" /\ Resolve("Ok")
     \/ future = "Failed" /\ Resolve("Err")
  /\ ready' = ready \ {task}
  /\ UNCHANGED <<armedVars, serverVars, pc, cancelled, platformVars>>

\* Mutant: a signal is taken for a connection.
PollTrustsSignal ==
  /\ pc = "idle"
  /\ future = "Waiting"
  /\ PollSignalled(task)
  /\ ready' = ready \ {task}
  /\ \/ ~signalled /\ UNCHANGED <<future, task, result, pc>>
     \/ signalled /\ status = "Ok" /\ pc' = "collected" /\ UNCHANGED <<future, task, result>>
     \/ signalled /\ ~Completed /\ Resolve("Ok") /\ UNCHANGED pc
     \/ signalled /\ status = "Err" /\ Resolve("Err") /\ UNCHANGED pc
  /\ UNCHANGED <<serverVars, cancelled, platformVars>>

\* An accept that waits: the event's signal is a reason to ask for the
\* result, which may be a client, an error that leaves the state as it is,
\* or not there yet.
PollWaiting ==
  /\ pc = "idle"
  /\ future = "Waiting"
  /\ PollSignalled(task)
  /\ ready' = ready \ {task}
  /\ \/ ~signalled /\ UNCHANGED <<future, task, result, pc>>
     \/ signalled /\ status = "Ok" /\ pc' = "collected" /\ UNCHANGED <<future, task, result>>
     \/ signalled /\ ~Completed /\ pc' = "repark" /\ UNCHANGED <<future, task, result>>
     \/ signalled /\ status = "Err" /\ Resolve("Err") /\ UNCHANGED pc
  /\ UNCHANGED <<serverVars, cancelled, platformVars>>

\* The readiness was consumed, so the waker is recorded again, and a signal
\* that came in between wakes the task.
Repark ==
  /\ pc = "repark"
  /\ PollSignalled(task)
  /\ ready' = IF signalled THEN ready \cup {task} ELSE ready
  /\ pc' = "idle"
  /\ UNCHANGED <<serverVars, future, task, result, cancelled, platformVars>>

\* The slot of a collected connect is dropped, which blocks until no callback
\* of its event is running.  An event whose release fails is leaked: out of
\* reach from here on, whatever its callbacks still do.
DropSlot(released) ==
  /\ pc = "collected"
  /\ released => entered = 0 /\ waking = {}
  /\ ArmedDropped
  /\ accept' = "Connected" /\ slot' = "none" /\ status' = "none"
  /\ owed' = FALSE
  /\ IF future = "Waiting" THEN Resolve("Ok") ELSE UNCHANGED <<future, task, result>>
  /\ pc' = "idle"
  /\ UNCHANGED <<file, ready, cancelled, instance, op, spurious, ioVars>>

\* Accept has no drop of its own.
AbandonAccept ==
  /\ pc = "idle" /\ future # "none"
  /\ future' = "none" /\ task' = NoTask
  /\ UNCHANGED <<armedVars, serverVars, result, ready, pc, cancelled, platformVars>>

-----------------------------------------------------------------------------
(* Server::disconnect. *)

\* The platform fails what it still has for that client.
Disconnect ==
  /\ pc = "idle" /\ future = "none"
  /\ FileRefused = "none"
  /\ accept' = "Idle"
  /\ io' = IF io = "kernel" THEN "failing" ELSE io
  /\ instance' = "disconnected"
  /\ result' = "none"
  /\ UNCHANGED <<armedVars, slot, status, file, future, task, ready, pc, cancelled,
                 op, owed, spurious, access>>

-----------------------------------------------------------------------------
(* Drop for Server. *)

\* Between accepts, the file goes with the server.
DropServer ==
  /\ pc = "idle" /\ future = "none"
  /\ accept # "Accepting"
  /\ pc' = "gone"
  /\ file' = "closed"
  /\ result' = "none"
  /\ UNCHANGED <<armedVars, accept, slot, status, future, task, ready, cancelled,
                 platformVars>>

DropAccepting ==
  /\ pc = "idle" /\ future = "none"
  /\ accept = "Accepting"
  /\ pc' = "cancel"
  /\ result' = "none"
  /\ UNCHANGED <<armedVars, serverVars, future, task, ready, cancelled, platformVars>>

\* issue_cancel, unless the operation is seen to be complete.  The platform
\* locates an operation it has not begun to finish.
IssueCancel(outcome) ==
  /\ pc = "cancel"
  /\ Completed => outcome = "Located"
  /\ ~Completed => CASE outcome = "Located"  -> op = "pending"
                     [] outcome = "NotFound" -> op # "pending"
                     [] outcome = "Failed"   -> TRUE
  /\ op' = IF op = "pending" /\ outcome = "Located" THEN "failing" ELSE op
  /\ cancelled' = outcome
  /\ pc' = "decide"
  /\ UNCHANGED <<armedVars, serverVars, futureVars, instance, owed, spurious, ioVars>>

\* Mutant: the wait stays registered during the collect.
TeardownKeepsWait ==
  /\ pc = "decide"
  /\ pc' = IF cancelled = "Failed" \/ (cancelled = "NotFound" /\ ~Completed)
             THEN "leak" ELSE "collect"
  /\ UNCHANGED <<armedVars, serverVars, futureVars, cancelled, platformVars>>

\* teardown_action, with the status read again.
TeardownAction ==
  /\ pc = "decide"
  /\ pc' = IF cancelled = "Failed" \/ (cancelled = "NotFound" /\ ~Completed)
             THEN "leak" ELSE "release"
  /\ UNCHANGED <<armedVars, serverVars, futureVars, cancelled, platformVars>>

\* release_registration and release_permits_collect.
ReleaseBeforeCollect ==
  /\ pc = "release"
  /\ ReleaseRegistration
  /\ pc' = IF registration' = "Released" THEN "collect" ELSE "leak"
  /\ UNCHANGED <<serverVars, futureVars, cancelled, platformVars>>

\* GetOverlappedResult with bWait: a status that is pending on entry is
\* waited for on the event, which is auto-reset.
CollectBlocking ==
  /\ pc = "collect"
  /\ pc' = IF Completed THEN "check" ELSE "blocked"
  /\ UNCHANGED <<armedVars, serverVars, futureVars, cancelled, platformVars>>

CollectReturns ==
  /\ pc = "blocked"
  /\ event
  /\ event' = FALSE
  /\ pc' = "check"
  /\ UNCHANGED <<entered, waking, signalled, waker, registration, shared, handle>>
  /\ UNCHANGED <<serverVars, futureVars, cancelled, platformVars>>

\* Mutant: that the collect returned is taken for the end of the operation.
CollectTrusted ==
  /\ pc = "check"
  /\ pc' = "free"
  /\ UNCHANGED <<armedVars, serverVars, futureVars, cancelled, platformVars>>

CollectFinishedIt ==
  /\ pc = "check"
  /\ pc' = IF Completed THEN "free" ELSE "leak"
  /\ UNCHANGED <<armedVars, serverVars, futureVars, cancelled, platformVars>>

\* The slot is dropped, its registration released already, and then the file.
FreeSlot ==
  /\ pc = "free"
  /\ ArmedDropped
  /\ accept' = "Idle" /\ slot' = "none" /\ status' = "none" /\ file' = "closed"
  /\ owed' = FALSE
  /\ pc' = "gone"
  /\ UNCHANGED <<futureVars, cancelled, instance, op, spurious, ioVars>>

\* The slot and a reference to the file are forgotten.
LeakSlot ==
  /\ pc = "leak"
  /\ accept' = "Idle" /\ slot' = "leaked"
  /\ pc' = "gone"
  /\ UNCHANGED <<armedVars, status, file, futureVars, cancelled, platformVars>>

DropStep ==
  \/ \E outcome \in CancelOutcome : IssueCancel(outcome)
  \/ TeardownAction \/ CollectBlocking \/ CollectReturns \/ CollectFinishedIt
  \/ FreeSlot \/ LeakSlot

-----------------------------------------------------------------------------
(* The platform: the pipe, the connect and the pool. *)

ClientOpens ==
  /\ instance = "listening" /\ file = "open"
  /\ op # "failing"
  /\ instance' = "client"
  /\ op' = IF op = "pending" THEN "satisfied" ELSE op
  /\ UNCHANGED <<armedVars, serverVars, futureVars, pc, cancelled, owed, spurious, ioVars>>

ClientCloses ==
  /\ instance = "client"
  /\ instance' = "closing"
  /\ UNCHANGED <<armedVars, serverVars, futureVars, pc, cancelled, op, owed, spurious, ioVars>>

ConnectBreaks ==
  /\ op = "pending"
  /\ op' = "failing"
  /\ UNCHANGED <<armedVars, serverVars, futureVars, pc, cancelled, instance, owed, spurious, ioVars>>

KernelWrites ==
  /\ op \in {"satisfied", "failing"}
  /\ status' = IF op = "satisfied" THEN "Ok" ELSE "Err"
  /\ op' = "idle"
  /\ owed' = TRUE
  /\ UNCHANGED <<armedVars, accept, slot, file, futureVars, pc, cancelled, instance, spurious, ioVars>>

KernelSignals ==
  /\ owed
  /\ event' = TRUE
  /\ owed' = FALSE
  /\ UNCHANGED <<entered, waking, signalled, waker, registration, shared, handle>>
  /\ UNCHANGED <<serverVars, futureVars, pc, cancelled, instance, op, spurious, ioVars>>

\* The signal without a terminal status that collect provides for.
SpuriousSignal ==
  /\ op # "idle" /\ spurious < MaxSpurious
  /\ event' = TRUE
  /\ spurious' = spurious + 1
  /\ UNCHANGED <<entered, waking, signalled, waker, registration, shared, handle>>
  /\ UNCHANGED <<serverVars, futureVars, pc, cancelled, instance, op, owed, ioVars>>

PoolStep ==
  \/ /\ Dispatch \/ CallbackMarks
     /\ UNCHANGED <<serverVars, futureVars, pc, cancelled, platformVars>>
  \/ \E t \in Tasks :
       /\ CallbackWakes(t)
       /\ ready' = ready \cup {t}
       /\ UNCHANGED <<serverVars, future, task, result, pc, cancelled, platformVars>>

Poll == PollSettled \/ PollWaiting

Next ==
  \/ \E options \in Options : Create(options)
  \/ \E direction \in Directions : ServerIo(direction)
  \/ IoCompletes \/ PollIo
  \/ \E t \in Tasks :
       \/ AcceptConnected(t) \/ Resume(t)
       \/ ConnectPending(t) \/ ConnectAtOnce(t) \/ ConnectFails(t)
  \/ Poll \/ Repark \/ AbandonAccept
  \/ \E released \in BOOLEAN : DropSlot(released)
  \/ Disconnect \/ DropServer \/ DropAccepting \/ DropStep \/ ReleaseBeforeCollect
  \/ ClientOpens \/ ClientCloses \/ ConnectBreaks
  \/ KernelWrites \/ KernelSignals \/ SpuriousSignal \/ PoolStep

Spec == Init /\ [][Next]_vars

-----------------------------------------------------------------------------
(* Correctness. *)

\* While the kernel has a connect, the memory it writes to, the event it
\* signals and the pipe's handle are all there, freed by no path through
\* collect or the drop, and no other call takes the instance over.
KernelMemoryKept ==
  op # "idle" =>
    /\ slot # "none" /\ handle /\ file = "open"
    /\ accept = "Accepting" \/ slot = "leaked"

\* An accept resolves to Ok only with a client, one that the kernel connected
\* and that nobody has disconnected since, and the ring has an operation only
\* for a client an accept has reported.
OkMeansClient ==
  /\ io = "kernel" => accept = "Connected" /\ instance # "disconnected"
  /\ future = "Ready" \/ result = "Ok" => accept = "Connected" \/ pc = "collected"
  /\ accept = "Connected" => instance \in {"client", "closing"}

\* What accepts_clients() returns.
AcceptsClients == accept = "Fresh" \/ (accept = "Accepting" /\ ~Completed)

\* A server whose accepts_clients() is true would be reached by a client that
\* connects right now.
AcceptsClientsTruthful == pc = "idle" /\ AcceptsClients => instance = "listening"

\* The thread that accepts or drops the server goes on when it can, an
\* executor polls a task it is told to poll time and again, the pool runs its
\* callbacks, and an operation that is located or satisfied is finished.
\* Nothing makes a client come or a pending connect end.
Fairness ==
  /\ WF_vars(DropStep)
  /\ WF_vars(ReleaseBeforeCollect /\ registration' = "Released")
  /\ WF_vars(DropSlot(TRUE))
  /\ WF_vars(Repark)
  /\ SF_vars(task \in ready /\ Poll)
  /\ WF_vars(PoolStep)
  /\ WF_vars(KernelWrites)
  /\ WF_vars(KernelSignals)

FairSpec == Spec /\ Fairness

\* A client that satisfies the connect resolves the accept that waits for it,
\* if that is not dropped, also when it resumed another task's accept: the
\* one signal that announces it is not lost between them.
AcceptResolves ==
  future = "Waiting" /\ status = "Ok" /\ spurious = 0 ~> future # "Waiting"

\* The same when the event was signalled early: an accept that re-parks is
\* woken by the signal that follows.
ReparkedAcceptResolves ==
  future = "Waiting" /\ status = "Ok" ~> future # "Waiting"

\* Dropping a server returns, though it blocks twice and the collect waits for
\* a signal that the pool, too, could have consumed.
DropReturns == pc = "cancel" ~> pc = "gone"
=============================================================================
