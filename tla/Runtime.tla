------------------------------ MODULE Runtime ------------------------------
(***************************************************************************)
(* The single-threaded executor the repository's tests and scenarios run   *)
(* on (win-ioring-tests/src/rt.rs): tasks are queued, polled, parked in    *)
(* waiting_tasks and put back when their id is in one of two woken lists,  *)
(* the thread's own and the one other threads write under a mutex.         *)
(*                                                                         *)
(* A task is what it does to the executor: it spawns, awaits a join        *)
(* handle, yields, waits for an event another thread raises, or finishes.  *)
(* Queues are sets: a Task is an owned value, so no queue holds it twice,  *)
(* and every order of polling is allowed where the code uses the first.    *)
(***************************************************************************)
EXTENDS FiniteSets

CONSTANTS Tasks,   \* the ids next_task_id can hand out (a bound for TLC)
          Shared   \* those spawned with WakerType::ThreadSafe

ASSUME SharedAssumption == Shared \subseteq Tasks

VARIABLES
    born,          \* ids handed out by the spawner
    pendingSpawns, \* TaskSpawner::pending_spawns
    readyQueue, waitingTasks,
    finished,      \* tasks whose poll returned Ready
    wakers,        \* per registry, the tasks with a registered waker
    wokenTasks,    \* per registry, the ids waiting to be drained
    pc,            \* where the thread is in run_until; "idle": not in it
    current,       \* the task being polled, as a set of at most one
    target,        \* block_on's future, as a set; {} for run
    handle,        \* a task's JoinHandle: "none", "open", or "taken" by an await
    chan,          \* the oneshot behind it
    recorded,      \* the waker its Receiver stored, named by its task
    await, joined, \* what a task is suspended on, and for "join" on whom
    flag           \* the other thread's event for a Shared task

queues == <<born, pendingSpawns, readyQueue, waitingTasks, finished>>
wakes == <<wakers, wokenTasks>>
loop == <<pc, current, target>>
channels == <<handle, chan, recorded>>
awaits == <<await, joined>>
vars == <<queues, wakes, loop, channels, awaits, flag>>

Kinds == {"single", "shared"}
Kind(t) == IF t \in Shared THEN "shared" ELSE "single"

Init ==
    /\ born = {} /\ pendingSpawns = {} /\ readyQueue = {}
    /\ waitingTasks = {} /\ finished = {}
    /\ wakers = [k \in Kinds |-> {}]
    /\ wokenTasks = [k \in Kinds |-> {}]
    /\ pc = "idle" /\ current = {} /\ target = {}
    /\ handle = [t \in Tasks |-> "none"]
    /\ chan = [t \in Tasks |-> "empty"]
    /\ recorded = [t \in Tasks |-> {}]
    /\ await = [t \in Tasks |-> "nothing"]
    /\ joined = [t \in Tasks |-> t]
    /\ flag = [t \in Tasks |-> "unset"]

-----------------------------------------------------------------------------
\* wake_task of the registry a waker of each task in T belongs to: only an
\* id with a registered waker is pushed.
Woken(T) == [k \in Kinds |->
               wokenTasks[k] \cup {t \in T : Kind(t) = k /\ t \in wakers[k]}]

\* A new task in pending_spawns, with a JoinHandle or detached; a detached
\* task is always single-threaded.
Spawn(t, h) ==
    /\ t \notin born
    /\ h = "none" => t \notin Shared
    /\ born' = born \cup {t}
    /\ pendingSpawns' = pendingSpawns \cup {t}
    /\ handle' = [handle EXCEPT ![t] = h]

\* block_on's closure; run's is always false.
ShouldStop(done) == target # {} /\ target \subseteq done

-----------------------------------------------------------------------------
\* The thread outside run_until.

MainSpawn(t) ==
    /\ pc = "idle"
    /\ \E h \in {"none", "open"} : Spawn(t, h)
    /\ UNCHANGED <<readyQueue, waitingTasks, finished, wakes, loop,
                   chan, recorded, awaits, flag>>

BlockOn(t) ==
    /\ pc = "idle"
    /\ Spawn(t, "none")
    /\ target' = {t}
    /\ pc' = "top"
    /\ UNCHANGED <<readyQueue, waitingTasks, finished, wakes, current,
                   chan, recorded, awaits, flag>>

Run ==
    /\ pc = "idle"
    /\ target' = {}
    /\ pc' = "top"
    /\ UNCHANGED <<queues, wakes, current, channels, awaits, flag>>

-----------------------------------------------------------------------------
\* run_until.

\* Mutant: the new spawns replace the queue block_on left behind.
TopReplacesReady ==
    /\ pc = "top"
    /\ IF ShouldStop(finished)
       THEN pc' = "idle" /\ UNCHANGED <<pendingSpawns, readyQueue>>
       ELSE /\ pendingSpawns' = {}
            /\ readyQueue' = pendingSpawns
            /\ pc' = IF readyQueue' = {} /\ waitingTasks = {}
                     THEN "idle" ELSE "drain"
    /\ UNCHANGED <<born, waitingTasks, finished, wakes, current, target,
                   channels, awaits, flag>>

\* Mutant: no task is ready, so there is no work.
TopIgnoresWaiting ==
    /\ pc = "top"
    /\ IF ShouldStop(finished)
       THEN pc' = "idle" /\ UNCHANGED <<pendingSpawns, readyQueue>>
       ELSE /\ pendingSpawns' = {}
            /\ readyQueue' = readyQueue \cup pendingSpawns
            /\ pc' = IF readyQueue' = {} THEN "idle" ELSE "drain"
    /\ UNCHANGED <<born, waitingTasks, finished, wakes, current, target,
                   channels, awaits, flag>>

\* The head of the outer loop: stop, take the new spawns, or find no work.
Top ==
    /\ pc = "top"
    /\ IF ShouldStop(finished)
       THEN pc' = "idle" /\ UNCHANGED <<pendingSpawns, readyQueue>>
       ELSE /\ pendingSpawns' = {}
            /\ readyQueue' = readyQueue \cup pendingSpawns
            /\ pc' = IF readyQueue' = {} /\ waitingTasks = {}
                     THEN "idle" ELSE "drain"
    /\ UNCHANGED <<born, waitingTasks, finished, wakes, current, target,
                   channels, awaits, flag>>

\* Mutant: every waker is registered with the thread's own registry.
PopLocalWaker(t) ==
    /\ pc = "drain"
    /\ t \in readyQueue
    /\ readyQueue' = readyQueue \ {t}
    /\ wakers' = [wakers EXCEPT !["single"] = @ \cup {t}]
    /\ current' = {t}
    /\ pc' = "poll"
    /\ UNCHANGED <<born, pendingSpawns, waitingTasks, finished, wokenTasks,
                   target, channels, awaits, flag>>

\* Pop a task, register its waker in its own registry, enter its poll.
Pop(t) ==
    /\ pc = "drain"
    /\ t \in readyQueue
    /\ readyQueue' = readyQueue \ {t}
    /\ wakers' = [wakers EXCEPT ![Kind(t)] = @ \cup {t}]
    /\ current' = {t}
    /\ pc' = "poll"
    /\ UNCHANGED <<born, pendingSpawns, waitingTasks, finished, wokenTasks,
                   target, channels, awaits, flag>>

\* After a poll: take the new spawns, then leave both loops if told to.
AfterPoll(done) ==
    /\ current' = {}
    /\ finished' = done
    /\ pendingSpawns' = {}
    /\ readyQueue' = readyQueue \cup pendingSpawns
    /\ pc' = IF ShouldStop(done) THEN "idle" ELSE "drain"

\* The poll returned Pending.
Suspend(t) ==
    /\ waitingTasks' = waitingTasks \cup {t}
    /\ AfterPoll(finished)

\* Mutant: other threads' wakes are looked at only after the thread's own.
ProcessWokenFirst ==
    /\ pc = "drain"
    /\ readyQueue = {}
    /\ readyQueue' = waitingTasks \cap wokenTasks["single"]
    /\ waitingTasks' = waitingTasks \ wokenTasks["single"]
    /\ wokenTasks' = [wokenTasks EXCEPT !["single"] = {}]
    /\ pc' = IF wokenTasks["single"] = {} THEN "top" ELSE "shared"
    /\ UNCHANGED <<born, pendingSpawns, finished, wakers, current, target,
                   channels, awaits, flag>>

\* The ready queue is drained: process_woken_tasks.
ProcessWoken ==
    /\ pc = "drain"
    /\ readyQueue = {}
    /\ readyQueue' = waitingTasks \cap wokenTasks["single"]
    /\ waitingTasks' = waitingTasks \ wokenTasks["single"]
    /\ wokenTasks' = [wokenTasks EXCEPT !["single"] = {}]
    /\ pc' = "shared"
    /\ UNCHANGED <<born, pendingSpawns, finished, wakers, current, target,
                   channels, awaits, flag>>

\* process_thread_safe_woken_tasks, a second step: other threads run between.
ProcessShared ==
    /\ pc = "shared"
    /\ readyQueue' = readyQueue \cup (waitingTasks \cap wokenTasks["shared"])
    /\ waitingTasks' = waitingTasks \ wokenTasks["shared"]
    /\ wokenTasks' = [wokenTasks EXCEPT !["shared"] = {}]
    /\ pc' = "top"
    /\ UNCHANGED <<born, pendingSpawns, finished, wakers, current, target,
                   channels, awaits, flag>>

-----------------------------------------------------------------------------
\* A poll of task t, piece by piece.

Polling(t) == pc = "poll" /\ t \in current

\* What t awaits is there.
Satisfied(t) ==
    \/ await[t] = "yield"
    \/ await[t] = "join" /\ chan[joined[t]] # "empty"
    \/ await[t] = "event" /\ flag[t] \in {"set", "waked"}

\* Handle::spawn, spawn_thread_safe, spawn_detached from inside a task.
TaskSpawn(t, u) ==
    /\ Polling(t) /\ await[t] = "nothing"
    /\ \E h \in {"none", "open"} : Spawn(u, h)
    /\ UNCHANGED <<readyQueue, waitingTasks, finished, wakes, loop,
                   chan, recorded, awaits, flag>>

\* The task starts to await a JoinHandle (moved into the await, so once).
AwaitJoin(t, u) ==
    /\ Polling(t) /\ await[t] = "nothing"
    /\ u # t /\ handle[u] = "open"
    /\ handle' = [handle EXCEPT ![u] = "taken"]
    /\ await' = [await EXCEPT ![t] = "join"]
    /\ joined' = [joined EXCEPT ![t] = u]
    /\ UNCHANGED <<queues, wakes, loop, chan, recorded, flag>>

\* The task starts to await what another thread signals through its
\* ThreadSafeWakerHandle; one event a task, so that no poll is endless.
AwaitEvent(t) ==
    /\ Polling(t) /\ await[t] = "nothing"
    /\ t \in Shared /\ flag[t] # "done"
    /\ await' = [await EXCEPT ![t] = "event"]
    /\ UNCHANGED <<queues, wakes, loop, channels, joined, flag>>

\* yield_now: the first poll wakes the task and is Pending.
Yield(t) ==
    /\ Polling(t) /\ await[t] = "nothing"
    /\ await' = [await EXCEPT ![t] = "yield"]
    /\ wokenTasks' = Woken({t})
    /\ Suspend(t)
    /\ UNCHANGED <<born, wakers, target, channels, joined, flag>>

\* The awaited thing is there: a Receiver takes the value and closes.
Resume(t) ==
    /\ Polling(t)
    /\ Satisfied(t)
    /\ await' = [await EXCEPT ![t] = "nothing"]
    /\ chan' = IF await[t] = "join"
               THEN [chan EXCEPT ![joined[t]] = "closed"] ELSE chan
    /\ flag' = IF await[t] = "event" THEN [flag EXCEPT ![t] = "done"] ELSE flag
    /\ UNCHANGED <<queues, wakes, loop, handle, recorded, joined>>

\* It is not: a Receiver stores the waker of this poll; the task suspends.
StillPending(t) ==
    /\ Polling(t)
    /\ await[t] \in {"join", "event"} /\ ~Satisfied(t)
    /\ recorded' = IF await[t] = "join"
                   THEN [recorded EXCEPT ![joined[t]] = {t}] ELSE recorded
    /\ Suspend(t)
    /\ UNCHANGED <<born, wakes, target, handle, chan, awaits, flag>>

\* The task ends: send the result (a detached task has nowhere to), wake the
\* stored waker, drop both registries' wakers.
Finish(t) ==
    /\ Polling(t) /\ await[t] = "nothing"
    /\ IF handle[t] = "none"
       THEN UNCHANGED <<chan, wokenTasks>>
       ELSE /\ chan' = [chan EXCEPT ![t] = "data"]
            /\ wokenTasks' = Woken(recorded[t])
    /\ wakers' = [k \in Kinds |-> wakers[k] \ {t}]
    /\ AfterPoll(finished \cup {t})
    /\ UNCHANGED <<born, waitingTasks, target, handle, recorded, awaits, flag>>

-----------------------------------------------------------------------------
\* Another thread, at any point: it makes its condition true, then calls
\* ThreadSafeWakerHandle::wake; a wake with nothing behind it is allowed too.

ThreadSets(t) ==
    /\ t \in born \cap Shared
    /\ flag[t] = "unset"
    /\ flag' = [flag EXCEPT ![t] = "set"]
    /\ UNCHANGED <<queues, wakes, loop, channels, awaits>>

ThreadWakes(t) ==
    /\ t \in born \cap Shared
    /\ wokenTasks' = Woken({t})
    /\ flag' = IF flag[t] = "set" THEN [flag EXCEPT ![t] = "waked"] ELSE flag
    /\ UNCHANGED <<queues, wakers, loop, channels, awaits>>

-----------------------------------------------------------------------------
Executor ==
    \/ Top \/ ProcessWoken \/ ProcessShared
    \/ \E t \in Tasks : \/ Pop(t) \/ AwaitEvent(t) \/ Yield(t) \/ Resume(t)
                        \/ StillPending(t) \/ Finish(t)
                        \/ \E u \in Tasks : TaskSpawn(t, u) \/ AwaitJoin(t, u)

Next ==
    \/ Executor
    \/ Run
    \/ \E t \in Tasks : \/ MainSpawn(t) \/ BlockOn(t)
                        \/ ThreadSets(t) \/ ThreadWakes(t)

\* run_until is a loop of a running thread; a thread that has made its
\* condition true goes on to the wake.  Nobody has to call block_on, run or
\* spawn, and no other thread has to raise an event.
Fairness ==
    /\ WF_vars(Executor)
    /\ \A t \in Tasks : WF_vars(flag[t] = "set" /\ ThreadWakes(t))

Spec == Init /\ [][Next]_vars /\ Fairness

-----------------------------------------------------------------------------
TypeOK ==
    /\ born \subseteq Tasks /\ pendingSpawns \subseteq Tasks
    /\ readyQueue \subseteq Tasks /\ waitingTasks \subseteq Tasks
    /\ finished \subseteq Tasks
    /\ wakers \in [Kinds -> SUBSET Tasks]
    /\ wokenTasks \in [Kinds -> SUBSET Tasks]
    /\ pc \in {"idle", "top", "drain", "poll", "shared"}
    /\ current \in SUBSET Tasks /\ target \in SUBSET Tasks
    /\ handle \in [Tasks -> {"none", "open", "taken"}]
    /\ chan \in [Tasks -> {"empty", "data", "closed"}]
    /\ recorded \in [Tasks -> SUBSET Tasks]
    /\ await \in [Tasks -> {"nothing", "yield", "join", "event"}]
    /\ joined \in [Tasks -> Tasks]
    /\ flag \in [Tasks -> {"unset", "set", "waked", "done"}]

\* Every task the spawner numbered is pending, ready, polled, waiting or
\* finished: run_until may leave its inner loop, or return from block_on,
\* with any of the queues full, and the next call finds them all.
NoTaskLost ==
    born = pendingSpawns \cup readyQueue \cup waitingTasks
             \cup current \cup finished

\* block_on's expect("Future should have completed") never fires: run_until
\* returns only with its future finished.
BlockOnDelivers == pc = "idle" => target \subseteq finished

\* A waiting task whose awaited thing is there has its id in the woken list
\* of its own registry, unless the thread that raised the event has yet to
\* call wake.  The waker is registered before the poll that looks.
NoLostWake ==
    \A t \in waitingTasks :
        Satisfied(t) => \/ t \in wokenTasks[Kind(t)]
                        \/ await[t] = "event" /\ flag[t] = "set"

\* A task that can go on is polled, or block_on or run returns first.
WokenIsPolled ==
    \A t \in Tasks :
        (t \in waitingTasks /\ Satisfied(t)) ~> (t \in current \/ pc = "idle")

-----------------------------------------------------------------------------
\* What makes them inductive (proved in RuntimeProofs).

\* One task is polled exactly while the thread is in a poll, and no task is
\* in two of the queues.
Placed ==
    /\ (pc = "poll") => \E t \in Tasks : current = {t}
    /\ (pc # "poll") => current = {}
    /\ waitingTasks \cap (pendingSpawns \cup readyQueue \cup current) = {}
    /\ current \cap (pendingSpawns \cup readyQueue) = {}
    /\ pendingSpawns \cap readyQueue = {}
    /\ target \subseteq born

\* A task that is polled or waits has its waker registered, so it can be woken.
Wakeable == \A t \in waitingTasks \cup current : t \in wakers[Kind(t)]

\* A join handle is of a spawned task and has one awaiter, and while that
\* waits the channel's stored waker is its own.
Joins ==
    /\ \A t \in Tasks : handle[t] # "none" => t \in born
    /\ \A t \in Tasks : await[t] = "join" =>
           /\ handle[joined[t]] = "taken"
           /\ t \in waitingTasks => recorded[joined[t]] = {t}
           /\ \A u \in Tasks :
                  await[u] = "join" /\ joined[u] = joined[t] => u = t

IInv == /\ TypeOK /\ NoTaskLost /\ BlockOnDelivers /\ NoLostWake
        /\ Placed /\ Wakeable /\ Joins
=============================================================================
