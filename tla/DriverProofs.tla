----------------------------- MODULE DriverProofs -----------------------------
(***************************************************************************)
(* The safety of the driver for every set of operations, whatever they     *)
(* refer to: memory and files stay pinned while the kernel may use them,   *)
(* the slab's record is where the entries really are, every future is      *)
(* answered once, and the ring is closed only when the kernel is idle.     *)
(*                                                                         *)
(* The steps of DriverInner are composed from operators on one bookkeeping *)
(* record.  Sound says what holds of a record between two borrows, Evolves *)
(* how one record may follow another inside a borrow; each operator is     *)
(* shown once to keep the first and to respect the second, and the actions *)
(* follow by transitivity.                                                 *)
(***************************************************************************)
EXTENDS Driver, TLAPS

UnderWay == {"queued", "kernel", "posted"}

\* Where the entry of a live operation and that of a cancellation against it
\* are, for each stage of the record the slab keeps of it.
LiveConsistent(s, i) ==
  LET op == s.entry[i].op
  IN /\ op.payload = Target[i]
     /\ \/ /\ op.lifecycle = "Built" /\ s.opAt[i] = "queued"
           /\ op.cancel = "NeverRequested" /\ s.cancelAt[i] = "none"
        \/ /\ op.lifecycle = "Submitted" /\ s.opAt[i] \in {"kernel", "posted"}
           /\ \/ op.cancel = "NeverRequested" /\ s.cancelAt[i] = "none"
              \/ op.cancel = "Pending" /\ s.cancelAt[i] \in UnderWay
              \/ op.cancel = "Completed" /\ s.cancelAt[i] = "reaped"

ConsistentAt(s, i) ==
  /\ s.entry[i].state = "Unborn" => s.opAt[i] = "none" /\ s.cancelAt[i] = "none"
  /\ s.entry[i].state = "Occupied" => LiveConsistent(s, i)
  /\ s.entry[i].state = "Tombstone" => s.opAt[i] = "reaped" /\ s.cancelAt[i] \in UnderWay
  /\ s.entry[i].state = "Done" => /\ s.opAt[i] \in {"none", "reaped", "discarded"}
                                  /\ s.cancelAt[i] \in {"none", "reaped", "discarded"}
  /\ s.cancelAt[i] \in UnderWay /\ Target[i] = "owned" => i \in s.holds
  /\ "queued" \in {s.opAt[i], s.cancelAt[i]} => s.pending = TRUE

Sound(s) == s \in DriverInner /\ \A i \in Ids : ConsistentAt(s, i)

\* What the steps inside one borrow of the driver may do to an operation.
EvolvesAt(s, r, i) ==
  /\ r.entry[i].state = "Unborn" <=> s.entry[i].state = "Unborn"
  /\ i \in Outstanding(r) => i \in Outstanding(s)
  /\ Live(r, i) => Live(s, i) /\ r.entry[i].op.observer = s.entry[i].op.observer
  /\ IF Live(s, i) /\ ~Live(r, i) THEN r.slot[i] # "empty" ELSE r.slot[i] = s.slot[i]
  /\ r.cancelAt[i] = "queued" => s.cancelAt[i] \in {"none", "queued"}
  /\ r.cancelAt[i] = "none" => s.cancelAt[i] = "none"
  /\ r.cancelAt[i] # "none" =>
       \/ s.cancelAt[i] # "none" \/ shutdown = "Immediate" \/ i \in s.deferred
       \/ Live(s, i) /\ s.entry[i].op.observer = "Detached"

Evolves(s, r) ==
  /\ Sound(r)
  /\ r.deferred \subseteq s.deferred
  /\ \A i \in Ids : EvolvesAt(s, r, i)

\* The same, with every completion that was there to be popped still there.
Extends(s, r) ==
  /\ Evolves(s, r)
  /\ PostedOps(s) \subseteq PostedOps(r)
  /\ PostedCancels(s) \subseteq PostedCancels(r)

\* The record and the callers' futures.
FutureAt(i) ==
  /\ fut[i] = "none" <=> d.entry[i].state = "Unborn"
  /\ Live(d, i) => fut[i] \in {"waiting", "dropped"}
  /\ Live(d, i) \/ fut[i] \in {"none", "done"} => d.slot[i] = "empty"
  /\ ~Live(d, i) /\ fut[i] = "waiting" => d.slot[i] # "empty"
  /\ Live(d, i) /\ d.entry[i].op.observer = "Detached" => fut[i] = "dropped"
  /\ d.cancelAt[i] # "none" =>
       i \in asked \/ fut[i] = "dropped" \/ shutdown = "Immediate"

\* The record and the phase the driver is in.
PhaseInv ==
  /\ d.deferred \subseteq asked
  /\ pc \in {"drain", "release", "dropping", "dropRelease"} => shutdown # "Running"
  /\ pc \in {"release", "dropRelease"} => AwaitingKernel(d) = {}
  /\ tornDown => shutdown # "Running" /\ Outstanding(d) = {}

IInv == TypeOK /\ Sound(d) /\ PhaseInv /\ \A i \in Ids : FutureAt(i)

-----------------------------------------------------------------------------
(* The steps of DriverInner. *)

\* A sound record follows itself.
LEMMA ExtendsRefl ==
  ASSUME NEW s, Sound(s)
  PROVE  Extends(s, s)
BY DEF Extends, Evolves, EvolvesAt

\* What two steps inside one borrow do together, one step may do.
LEMMA EvolvesTrans ==
  ASSUME NEW s, NEW r, NEW t, Evolves(s, r), Evolves(r, t)
  PROVE  Evolves(s, t)
<1>1. \A i \in Ids : EvolvesAt(s, t, i)
  BY DEF Evolves, EvolvesAt
<1> QED
  BY <1>1 DEF Evolves

\* The same, when neither takes a completion away.
LEMMA ExtendsTrans ==
  ASSUME NEW s, NEW r, NEW t, Extends(s, r), Extends(r, t)
  PROVE  Extends(s, t)
BY EvolvesTrans DEF Extends

\* An entry that is not Occupied holds no operation, an Occupied one does.
LEMMA EntryTypes ==
  /\ \A op \in Op : Entry("Occupied", op) \in Entries
  /\ Entry("Done", NoOp) \in Entries
  /\ Entry("Tombstone", NoOp) \in Entries
  /\ Entry("Unborn", NoOp) \in Entries
  /\ \A e \in Entries : /\ e.state \in EntryState
                        /\ e.state = "Occupied" => e.op \in Op
BY DEF Entry, Entries, EntryState

\* issue_cancel touches only submitted operations of S that have a file and
\* were never cancelled, and records the request in the slab, the queue and
\* the holds at once.
LEMMA IssueCancelsEffect ==
  ASSUME NEW s, Sound(s), NEW S, NEW refused
  PROVE  LET r == IssueCancels(s, S, refused)
         IN /\ Sound(r) /\ r.slot = s.slot /\ r.deferred = s.deferred /\ r.opAt = s.opAt
            /\ \A i \in Ids : \/ r.entry[i] = s.entry[i] /\ r.cancelAt[i] = s.cancelAt[i]
                              \/ /\ i \in S /\ Live(s, i) /\ Live(r, i)
                                 /\ r.entry[i].op.observer = s.entry[i].op.observer
                                 /\ s.cancelAt[i] = "none" /\ r.cancelAt[i] = "queued"
<1> DEFINE C == {i \in S \ refused : /\ i \in SubmittedUncancelled(s)
                                     /\ s.entry[i].op.payload # "registration"}
           requested(i) == Entry("Occupied", [s.entry[i].op EXCEPT !.cancel = "Pending"])
           w == WithEntries(s, C, requested)
           r == IssueCancels(s, S, refused)
<1>1. /\ C \subseteq Ids
      /\ w = [s EXCEPT !.entry = [i \in Ids |-> IF i \in C THEN requested(i) ELSE @[i]]]
      /\ r = [w EXCEPT !.cancelAt = Moved(@, C, "queued"),
                       !.holds    = @ \cup {i \in C : s.entry[i].op.payload = "owned"},
                       !.pending  = @ \/ C # {}]
  BY DEF IssueCancels, WithEntries, SubmittedUncancelled
<1> HIDE DEF r, C, w, requested
<1>a. w = [entry |-> [i \in Ids |-> IF i \in C THEN requested(i) ELSE s.entry[i]],
           opAt |-> s.opAt, cancelAt |-> s.cancelAt, slot |-> s.slot,
           deferred |-> s.deferred, holds |-> s.holds, pending |-> s.pending,
           failures |-> s.failures]
  BY <1>1 DEF Sound, DriverInner
<1>b. r = [entry |-> w.entry, opAt |-> w.opAt, cancelAt |-> Moved(w.cancelAt, C, "queued"),
           slot |-> w.slot, deferred |-> w.deferred,
           holds |-> w.holds \cup {i \in C : s.entry[i].op.payload = "owned"},
           pending |-> (w.pending \/ C # {}), failures |-> w.failures]
  BY <1>1, <1>a
<1>2. /\ r.entry = [i \in Ids |-> IF i \in C THEN requested(i) ELSE s.entry[i]]
      /\ r.opAt = s.opAt
      /\ r.cancelAt = [i \in Ids |-> IF i \in C THEN "queued" ELSE s.cancelAt[i]]
      /\ r.slot = s.slot /\ r.deferred = s.deferred
      /\ r.holds = s.holds \cup {i \in C : s.entry[i].op.payload = "owned"}
      /\ r.failures = s.failures
  BY <1>a, <1>b DEF Moved
<1>p. /\ r.pending \in BOOLEAN
      /\ C # {} => r.pending = TRUE
      /\ s.pending = TRUE => r.pending = TRUE
  BY <1>a, <1>b
<1>3. ASSUME NEW i \in Ids
      PROVE  /\ r.entry[i] \in Entries
             /\ ConsistentAt(r, i)
             /\ \/ r.entry[i] = s.entry[i] /\ r.cancelAt[i] = s.cancelAt[i]
                \/ /\ i \in S /\ Live(s, i) /\ Live(r, i)
                   /\ r.entry[i].op.observer = s.entry[i].op.observer
                   /\ s.cancelAt[i] = "none" /\ r.cancelAt[i] = "queued"
  <2>0. ConsistentAt(s, i) /\ s.entry[i] \in Entries
    BY DEF Sound, DriverInner
  <2>1. CASE i \in C
    <3>1. /\ i \in S /\ Live(s, i) /\ s.entry[i].op.lifecycle = "Submitted"
          /\ s.entry[i].op.cancel = "NeverRequested" /\ s.entry[i].op \in Op
      BY <2>0, <2>1, EntryTypes DEF C, SubmittedUncancelled, At, Live
    <3>2. /\ r.entry[i] = Entry("Occupied", r.entry[i].op)
          /\ r.entry[i].state = "Occupied"
          /\ r.entry[i].op = [s.entry[i].op EXCEPT !.cancel = "Pending"]
      BY <1>2, <2>1 DEF Entry, requested
    <3>3. /\ r.entry[i].op \in Op /\ r.entry[i].op.cancel = "Pending"
          /\ r.entry[i].op.lifecycle = "Submitted"
          /\ r.entry[i].op.observer = s.entry[i].op.observer
          /\ r.entry[i].op.payload = s.entry[i].op.payload
      BY <3>1, <3>2 DEF Op, CancelState, Lifecycle
    <3>4. r.entry[i] \in Entries
      BY <3>2, <3>3, EntryTypes
    <3>5. r.cancelAt[i] = "queued" /\ r.pending = TRUE
      BY <1>2, <1>p, <2>1
    <3>6. Target[i] = "owned" => i \in r.holds
      BY <1>2, <2>0, <2>1, <3>1 DEF ConsistentAt, LiveConsistent, Live
    <3> QED
      BY <1>2, <2>0, <3>1, <3>2, <3>3, <3>4, <3>5, <3>6
         DEF ConsistentAt, LiveConsistent, Live, UnderWay
  <2>2. CASE i \notin C
    BY <1>2, <1>p, <2>0, <2>2 DEF ConsistentAt, LiveConsistent
  <2> QED
    BY <2>1, <2>2
<1>4. r \in DriverInner
  <2>1. r.entry \in [Ids -> Entries] /\ r.cancelAt \in [Ids -> Place]
    BY <1>2, <1>3 DEF Sound, DriverInner, Place
  <2>2. r.holds \subseteq Ids /\ r.pending \in BOOLEAN
    BY <1>1, <1>2, <1>p DEF Sound, DriverInner
  <2> QED
    BY <1>a, <1>b, <1>2, <2>1, <2>2 DEF Sound, DriverInner
<1> QED
  BY <1>2, <1>3, <1>4 DEF r, Sound

\* cancel_detached_in_flight and the deferred requests: who is cancelled was
\* asked for or abandoned.
LEMMA CancelAbandonedExtends ==
  ASSUME NEW s, Sound(s), NEW refused
  PROVE  Extends(s, CancelAbandoned(s, refused))
<1> DEFINE t == [s EXCEPT !.deferred = {}]
           S == s.deferred \cup DetachedSubmittedUncancelled(s)
           r == IssueCancels(t, S, refused)
<1>1. t = [entry |-> s.entry, opAt |-> s.opAt, cancelAt |-> s.cancelAt, slot |-> s.slot,
           deferred |-> {}, holds |-> s.holds, pending |-> s.pending,
           failures |-> s.failures]
  BY DEF Sound, DriverInner
<1>2. r = CancelAbandoned(s, refused)
  BY DEF CancelAbandoned
<1>3. \A i \in S : i \in s.deferred \/ (Live(s, i) /\ s.entry[i].op.observer = "Detached")
  BY DEF DetachedSubmittedUncancelled, SubmittedUncancelled, At
<1> HIDE DEF t, S, r
<1>4. Sound(t)
  BY <1>1 DEF Sound, DriverInner, ConsistentAt, LiveConsistent
<1>a. /\ Sound(r) /\ r.slot = t.slot /\ r.deferred = t.deferred /\ r.opAt = t.opAt
      /\ \A i \in Ids : \/ r.entry[i] = t.entry[i] /\ r.cancelAt[i] = t.cancelAt[i]
                        \/ /\ i \in S /\ Live(t, i) /\ Live(r, i)
                           /\ r.entry[i].op.observer = t.entry[i].op.observer
                           /\ t.cancelAt[i] = "none" /\ r.cancelAt[i] = "queued"
  BY <1>4, IssueCancelsEffect DEF r
<1>5. /\ Sound(r) /\ r.slot = s.slot /\ r.deferred = {} /\ r.opAt = s.opAt
      /\ \A i \in Ids : \/ r.entry[i] = s.entry[i] /\ r.cancelAt[i] = s.cancelAt[i]
                        \/ /\ i \in S /\ Live(s, i) /\ Live(r, i)
                           /\ r.entry[i].op.observer = s.entry[i].op.observer
                           /\ s.cancelAt[i] = "none" /\ r.cancelAt[i] = "queued"
  BY <1>1, <1>a DEF Live
<1>6. \A i \in Ids : EvolvesAt(s, r, i)
  BY <1>3, <1>5 DEF EvolvesAt, Outstanding, Live
<1> QED
  BY <1>2, <1>5, <1>6 DEF Extends, Evolves, PostedOps, PostedCancels

\* The submission the platform accepts.
Sent(s) == [Promote(Taken(s)) EXCEPT !.pending = FALSE, !.failures = 0]

\* An accepted submission moves the whole queue to the kernel, and the slab
\* records it of every operation that was queued.
LEMMA SentExtends ==
  ASSUME NEW s, Sound(s)
  PROVE  Extends(s, Sent(s))
<1> DEFINE t == Taken(s)
           promoted(i) == Entry("Occupied", Promoted(t.entry[i].op))
           w == WithEntries(t, Built(t), promoted)
           r == Sent(s)
<1>1. /\ t = [s EXCEPT !.opAt     = Moved(@, {i \in Ids : @[i] = "queued"}, "kernel"),
                       !.cancelAt = Moved(@, {i \in Ids : @[i] = "queued"}, "kernel")]
      /\ w = [t EXCEPT !.entry = [i \in Ids |-> IF i \in Built(t) THEN promoted(i) ELSE @[i]]]
      /\ r = [w EXCEPT !.pending = FALSE, !.failures = 0]
  BY DEF Sent, Promote, Taken, WithEntries
<1> HIDE DEF t, w, r
<1>2. t = [entry |-> s.entry,
           opAt |-> Moved(s.opAt, {i \in Ids : s.opAt[i] = "queued"}, "kernel"),
           cancelAt |-> Moved(s.cancelAt, {i \in Ids : s.cancelAt[i] = "queued"}, "kernel"),
           slot |-> s.slot, deferred |-> s.deferred, holds |-> s.holds,
           pending |-> s.pending, failures |-> s.failures]
  BY <1>1 DEF Sound, DriverInner
<1>3. w = [entry |-> [i \in Ids |-> IF i \in Built(t) THEN promoted(i) ELSE t.entry[i]],
           opAt |-> t.opAt, cancelAt |-> t.cancelAt, slot |-> t.slot,
           deferred |-> t.deferred, holds |-> t.holds, pending |-> t.pending,
           failures |-> t.failures]
  BY <1>1, <1>2
<1>4. r = [entry |-> w.entry, opAt |-> w.opAt, cancelAt |-> w.cancelAt, slot |-> w.slot,
           deferred |-> w.deferred, holds |-> w.holds, pending |-> FALSE, failures |-> 0]
  BY <1>1, <1>3
<1>5. /\ \A i \in Ids :
           /\ r.entry[i] = IF At(s, i, "Built") THEN Entry("Occupied", Promoted(s.entry[i].op))
                                                ELSE s.entry[i]
           /\ r.opAt[i] = IF s.opAt[i] = "queued" THEN "kernel" ELSE s.opAt[i]
           /\ r.cancelAt[i] = IF s.cancelAt[i] = "queued" THEN "kernel" ELSE s.cancelAt[i]
      /\ r.slot = s.slot /\ r.deferred = s.deferred /\ r.holds = s.holds
      /\ r.pending = FALSE /\ r.failures = 0
  BY <1>2, <1>3, <1>4 DEF Moved, Built, At, Live
<1>6. ASSUME NEW i \in Ids
      PROVE  /\ r.entry[i] \in Entries /\ ConsistentAt(r, i) /\ EvolvesAt(s, r, i)
             /\ r.opAt[i] \in Place /\ r.cancelAt[i] \in Place
  <2>0. /\ ConsistentAt(s, i) /\ s.entry[i] \in Entries
        /\ s.opAt[i] \in Place /\ s.cancelAt[i] \in Place
    BY DEF Sound, DriverInner
  <2>1. CASE At(s, i, "Built")
    <3>1. /\ r.entry[i] = Entry("Occupied", [s.entry[i].op EXCEPT !.lifecycle = "Submitted"])
          /\ s.entry[i].op \in Op /\ Live(s, i)
      BY <1>5, <2>0, <2>1, EntryTypes DEF At, Live, Promoted
    <3>2. /\ r.entry[i].op = [s.entry[i].op EXCEPT !.lifecycle = "Submitted"]
          /\ r.entry[i].state = "Occupied"
      BY <3>1 DEF Entry
    <3>3. /\ r.entry[i].op \in Op /\ r.entry[i].op.lifecycle = "Submitted"
          /\ r.entry[i].op.cancel = s.entry[i].op.cancel
          /\ r.entry[i].op.observer = s.entry[i].op.observer
          /\ r.entry[i].op.payload = s.entry[i].op.payload
      BY <3>1, <3>2 DEF Op, Lifecycle
    <3>4. r.entry[i] \in Entries
      BY <3>1, <3>2, <3>3, EntryTypes
    <3>5. r.opAt[i] = "kernel" /\ r.cancelAt[i] = "none" /\ s.cancelAt[i] = "none"
      BY <1>5, <2>0, <2>1 DEF ConsistentAt, LiveConsistent, At, Live
    <3> QED
      BY <1>5, <2>0, <2>1, <3>2, <3>3, <3>4, <3>5
         DEF ConsistentAt, LiveConsistent, EvolvesAt, Outstanding, At, Live, UnderWay, Place
  <2>2. CASE ~At(s, i, "Built")
    BY <1>5, <2>0, <2>2
       DEF ConsistentAt, LiveConsistent, EvolvesAt, Outstanding, At, Live, UnderWay, Place
  <2> QED
    BY <2>1, <2>2
<1>7. r \in DriverInner
  <2>1. /\ r.entry \in [Ids -> Entries] /\ r.opAt \in [Ids -> Place]
        /\ r.cancelAt \in [Ids -> Place]
    BY <1>2, <1>3, <1>4, <1>6 DEF Moved
  <2> QED
    BY <1>4, <1>5, <2>1, DriverAssumption DEF Sound, DriverInner
<1> QED
  BY <1>5, <1>6, <1>7 DEF r, Sound, Extends, Evolves, PostedOps, PostedCancels

\* submit_pending, whether or not the platform takes the queue.
LEMMA SubmitPendingExtends ==
  ASSUME NEW s, Sound(s), NEW accepted, NEW refused
  PROVE  Extends(s, SubmitPending(s, accepted, refused))
<1>1. CASE ~s.pending
  BY <1>1, ExtendsRefl DEF SubmitPending
<1>2. CASE s.pending /\ accepted
  <2>1. SubmitPending(s, accepted, refused) = CancelAbandoned(Sent(s), refused)
    BY <1>2 DEF SubmitPending, Sent
  <2>2. Extends(s, Sent(s)) /\ Sound(Sent(s))
    BY SentExtends DEF Extends, Evolves
  <2>3. Extends(Sent(s), CancelAbandoned(Sent(s), refused))
    BY <2>2, CancelAbandonedExtends
  <2> QED
    BY <2>1, <2>2, <2>3, ExtendsTrans
<1>3. CASE s.pending /\ ~accepted
  <2> DEFINE n == IF s.failures < ResidueAttempts THEN s.failures + 1 ELSE s.failures
             r == [s EXCEPT !.failures = n]
  <2>1. r = SubmitPending(s, accepted, refused) /\ n \in 0 .. ResidueAttempts
    BY <1>3, DriverAssumption DEF SubmitPending, Sound, DriverInner
  <2>2. r = [entry |-> s.entry, opAt |-> s.opAt, cancelAt |-> s.cancelAt, slot |-> s.slot,
             deferred |-> s.deferred, holds |-> s.holds, pending |-> s.pending,
             failures |-> n]
    BY DEF Sound, DriverInner
  <2> HIDE DEF n, r
  <2>3. Sound(r)
    BY <2>1, <2>2 DEF Sound, DriverInner, ConsistentAt, LiveConsistent
  <2> QED
    BY <2>1, <2>2, <2>3
       DEF Extends, Evolves, EvolvesAt, PostedOps, PostedCancels, Outstanding, Live
<1> QED
  BY <1>1, <1>2, <1>3

\* No operation is left without a queue entry between two borrows, so
\* resolve_unqueued finds none.
LEMMA ResolveUnqueuedIdle ==
  ASSUME NEW s, Sound(s)
  PROVE  ResolveUnqueued(s) = s
<1> DEFINE over(i) == IF s.entry[i].op.cancel = "Pending"
                        THEN Entry("Tombstone", NoOp) ELSE Entry("Done", NoOp)
           D == {i \in Described(s) : Live(s, i)}
           w == WithEntries(s, D, over)
           r == ResolveUnqueued(s)
<1>1. D = {}
  BY DEF Sound, ConsistentAt, LiveConsistent, Described, At, Live
<1>2. /\ w = [s EXCEPT !.entry = [i \in Ids |-> IF i \in D THEN over(i) ELSE @[i]]]
      /\ r = [w EXCEPT !.slot = Moved(@, D, "abandoned")]
  BY DEF ResolveUnqueued, Resolved, WithEntries
<1> HIDE DEF D, w, r, over
<1>3. w = s
  BY <1>1, <1>2 DEF Sound, DriverInner
<1>4. r = s
  BY <1>1, <1>2, <1>3 DEF Sound, DriverInner, Moved
<1> QED
  BY <1>4 DEF r

\* What a drain step does before it waits.
LEMMA PushedExtends ==
  ASSUME NEW s, Sound(s), NEW accepted, NEW refused
  PROVE  Extends(s, Pushed(s, accepted, refused))
<1> DEFINE t == SubmitPending(s, accepted, refused)
           S == SubmittedUncancelled(t)
           r == IssueCancels(t, S, refused)
<1>1. Extends(s, t) /\ Sound(t)
  BY SubmitPendingExtends DEF Extends, Evolves
<1>2. Pushed(s, accepted, refused) = IF shutdown = "Immediate" THEN r ELSE t
  BY ResolveUnqueuedIdle DEF Pushed
<1> HIDE DEF t, S, r
<1>3. CASE shutdown = "Immediate"
  <2>1. /\ Sound(r) /\ r.slot = t.slot /\ r.deferred = t.deferred /\ r.opAt = t.opAt
        /\ \A i \in Ids : \/ r.entry[i] = t.entry[i] /\ r.cancelAt[i] = t.cancelAt[i]
                          \/ /\ i \in S /\ Live(t, i) /\ Live(r, i)
                             /\ r.entry[i].op.observer = t.entry[i].op.observer
                             /\ t.cancelAt[i] = "none" /\ r.cancelAt[i] = "queued"
    BY <1>1, IssueCancelsEffect DEF r
  <2>2. \A i \in Ids : EvolvesAt(t, r, i)
    BY <1>3, <2>1 DEF EvolvesAt, Outstanding, Live
  <2>3. Extends(t, r)
    BY <2>1, <2>2 DEF Extends, Evolves, PostedOps, PostedCancels
  <2> QED
    BY <1>1, <1>2, <1>3, <2>3, ExtendsTrans
<1> QED
  BY <1>1, <1>2, <1>3

\* The waiting submission only ever takes cancellations: no operation is
\* queued when it is made.
LEMMA WaitedExtends ==
  ASSUME NEW s, Sound(s), NEW taken
  PROVE  Extends(s, Waited(s, taken))
<1> DEFINE r == Taken(s)
<1>1. CASE MayWait(s) /\ taken
  <2>1. r = [s EXCEPT !.opAt     = Moved(@, {i \in Ids : @[i] = "queued"}, "kernel"),
                      !.cancelAt = Moved(@, {i \in Ids : @[i] = "queued"}, "kernel")]
    BY DEF Taken
  <2>2. r = [entry |-> s.entry,
             opAt |-> Moved(s.opAt, {i \in Ids : s.opAt[i] = "queued"}, "kernel"),
             cancelAt |-> Moved(s.cancelAt, {i \in Ids : s.cancelAt[i] = "queued"}, "kernel"),
             slot |-> s.slot, deferred |-> s.deferred, holds |-> s.holds,
             pending |-> s.pending, failures |-> s.failures]
    BY <2>1 DEF Sound, DriverInner
  <2> HIDE DEF r
  <2>3. \A i \in Ids : s.opAt[i] # "queued"
    BY <1>1 DEF MayWait, Built, Sound, DriverInner, Entries, ConsistentAt, LiveConsistent, At, Live,
                EntryState
  <2>4. \A i \in Ids : /\ r.opAt[i] = s.opAt[i]
                       /\ r.cancelAt[i] = IF s.cancelAt[i] = "queued" THEN "kernel"
                                                                      ELSE s.cancelAt[i]
    BY <2>2, <2>3 DEF Moved
  <2>5. r \in DriverInner
    <3>1. r.opAt \in [Ids -> Place] /\ r.cancelAt \in [Ids -> Place]
      BY <2>2 DEF Sound, DriverInner, Moved, Place
    <3> QED
      BY <2>2, <3>1 DEF Sound, DriverInner
  <2>6. ASSUME NEW i \in Ids
        PROVE  ConsistentAt(r, i) /\ EvolvesAt(s, r, i)
    BY <2>2, <2>3, <2>4 DEF Sound, DriverInner, ConsistentAt, LiveConsistent, EvolvesAt, Outstanding, Live,
                            UnderWay
  <2>7. Extends(s, r)
    BY <2>2, <2>4, <2>5, <2>6 DEF Extends, Evolves, Sound, PostedOps, PostedCancels
  <2> QED
    BY <1>1, <2>7 DEF r, Waited
<1> QED
  BY <1>1, ExtendsRefl DEF Waited

\* Reaping answers every operation it pops, and keeps the slot of one whose
\* cancellation is still under way; the hold goes with the cancellation.
LEMMA ReapedEvolves ==
  ASSUME NEW s, Sound(s), NEW O, O \subseteq PostedOps(s), NEW C, C \subseteq PostedCancels(s)
  PROVE  Evolves(s, Reaped(s, O, C))
<1> DEFINE p == [s EXCEPT !.opAt = Moved(@, O, "reaped"), !.cancelAt = Moved(@, C, "reaped")]
           over(i) == IF p.entry[i].op.cancel = "Pending"
                        THEN Entry("Tombstone", NoOp) ELSE Entry("Done", NoOp)
           L == {i \in O : Live(p, i)}
           v == WithEntries(p, L, over)
           x == Resolved(p, O, "completed")
           reported(i) ==
             IF Live(x, i) THEN Entry("Occupied", [x.entry[i].op EXCEPT !.cancel = "Completed"])
                           ELSE Entry("Done", NoOp)
           due == {i \in C : \/ Live(x, i) /\ x.entry[i].op.cancel = "Pending"
                             \/ x.entry[i].state = "Tombstone"}
           w == WithEntries(x, due, reported)
           r == Reaped(s, O, C)
<1>1. /\ p = [s EXCEPT !.opAt = Moved(@, O, "reaped"), !.cancelAt = Moved(@, C, "reaped")]
      /\ v = [p EXCEPT !.entry = [i \in Ids |-> IF i \in L THEN over(i) ELSE @[i]]]
      /\ x = [v EXCEPT !.slot = Moved(@, L, "completed")]
      /\ w = [x EXCEPT !.entry = [i \in Ids |-> IF i \in due THEN reported(i) ELSE @[i]]]
      /\ r = [w EXCEPT !.holds = @ \ C]
  BY DEF Reaped, Resolved, CancelsReported, WithEntries
<1>3. /\ \A i : over(i) = IF p.entry[i].op.cancel = "Pending"
                            THEN Entry("Tombstone", NoOp) ELSE Entry("Done", NoOp)
      /\ \A i : i \in L <=> i \in O /\ Live(p, i)
      /\ \A i : reported(i) =
           IF Live(x, i) THEN Entry("Occupied", [x.entry[i].op EXCEPT !.cancel = "Completed"])
                         ELSE Entry("Done", NoOp)
      /\ \A i : i \in due <=> /\ i \in C
                              /\ \/ Live(x, i) /\ x.entry[i].op.cancel = "Pending"
                                 \/ x.entry[i].state = "Tombstone"
  OBVIOUS
<1> HIDE DEF p, over, L, v, x, reported, due, w, r
<1>2. p = [entry |-> s.entry, opAt |-> Moved(s.opAt, O, "reaped"),
           cancelAt |-> Moved(s.cancelAt, C, "reaped"), slot |-> s.slot,
           deferred |-> s.deferred, holds |-> s.holds, pending |-> s.pending,
           failures |-> s.failures]
  BY <1>1 DEF Sound, DriverInner
<1>4. v = [entry |-> [i \in Ids |-> IF i \in L THEN over(i) ELSE p.entry[i]],
           opAt |-> p.opAt, cancelAt |-> p.cancelAt, slot |-> p.slot,
           deferred |-> p.deferred, holds |-> p.holds, pending |-> p.pending,
           failures |-> p.failures]
  BY <1>1, <1>2
<1>5. x = [entry |-> v.entry, opAt |-> v.opAt, cancelAt |-> v.cancelAt,
           slot |-> Moved(v.slot, L, "completed"), deferred |-> v.deferred,
           holds |-> v.holds, pending |-> v.pending, failures |-> v.failures]
  BY <1>1, <1>4
<1>6. w = [entry |-> [i \in Ids |-> IF i \in due THEN reported(i) ELSE x.entry[i]],
           opAt |-> x.opAt, cancelAt |-> x.cancelAt, slot |-> x.slot,
           deferred |-> x.deferred, holds |-> x.holds, pending |-> x.pending,
           failures |-> x.failures]
  BY <1>1, <1>5
<1>7. r = [entry |-> w.entry, opAt |-> w.opAt, cancelAt |-> w.cancelAt, slot |-> w.slot,
           deferred |-> w.deferred, holds |-> w.holds \ C, pending |-> w.pending,
           failures |-> w.failures]
  BY <1>1, <1>6
<1>8. /\ r.deferred = s.deferred /\ r.holds = s.holds \ C
      /\ r.pending = s.pending /\ r.failures = s.failures
      /\ x.entry = [i \in Ids |-> IF i \in L THEN over(i) ELSE s.entry[i]]
      /\ r.entry = [i \in Ids |-> IF i \in due THEN reported(i) ELSE x.entry[i]]
      /\ r.opAt = [i \in Ids |-> IF i \in O THEN "reaped" ELSE s.opAt[i]]
      /\ r.cancelAt = [i \in Ids |-> IF i \in C THEN "reaped" ELSE s.cancelAt[i]]
      /\ r.slot = [i \in Ids |-> IF i \in L THEN "completed" ELSE s.slot[i]]
  BY <1>2, <1>4, <1>5, <1>6, <1>7 DEF Moved
<1>9. ASSUME NEW i \in Ids
      PROVE  r.entry[i] \in Entries /\ ConsistentAt(r, i) /\ EvolvesAt(s, r, i)
  <2>0. /\ ConsistentAt(s, i) /\ s.entry[i] \in Entries
        /\ s.opAt[i] \in Place /\ s.cancelAt[i] \in Place
        /\ s.entry[i].state \in EntryState
        /\ Live(s, i) => s.entry[i].op \in Op
        /\ i \in O => s.opAt[i] = "posted"
        /\ i \in C => s.cancelAt[i] = "posted"
        /\ i \in L <=> i \in O /\ Live(s, i)
        /\ i \in L => x.entry[i] = IF s.entry[i].op.cancel = "Pending"
                                     THEN Entry("Tombstone", NoOp) ELSE Entry("Done", NoOp)
        /\ i \notin L => x.entry[i] = s.entry[i]
    BY <1>2, <1>3, <1>8, EntryTypes DEF Sound, DriverInner, PostedOps, PostedCancels, Live
  <2>a. /\ i \in due => r.entry[i] = reported(i)
        /\ i \notin due => r.entry[i] = x.entry[i]
    BY <1>8
  <2>b. reported(i) = IF Live(x, i)
                        THEN Entry("Occupied", [x.entry[i].op EXCEPT !.cancel = "Completed"])
                        ELSE Entry("Done", NoOp)
    BY <1>3
  <2>c. i \in due <=> /\ i \in C
                      /\ \/ Live(x, i) /\ x.entry[i].op.cancel = "Pending"
                         \/ x.entry[i].state = "Tombstone"
    BY <1>3
  <2>1. CASE i \in O
    <3>1. /\ Live(s, i) /\ i \in L /\ s.entry[i].op.lifecycle = "Submitted"
          /\ s.entry[i].op.cancel = "Pending" <=> s.cancelAt[i] \in UnderWay
          /\ s.cancelAt[i] \in UnderWay \cup {"none", "reaped"}
      BY <2>0, <2>1 DEF ConsistentAt, LiveConsistent, Live, UnderWay, EntryState
    <3>2. r.entry[i] = IF s.cancelAt[i] \in UnderWay /\ i \notin C
                         THEN Entry("Tombstone", NoOp) ELSE Entry("Done", NoOp)
      <4>1. CASE s.cancelAt[i] \in UnderWay
        <5>1. x.entry[i].state = "Tombstone" /\ x.entry[i] = Entry("Tombstone", NoOp)
          BY <2>0, <3>1, <4>1 DEF Entry
        <5>2. i \in due <=> i \in C
          BY <2>c, <5>1
        <5> QED
          BY <2>a, <2>b, <4>1, <5>1, <5>2 DEF Live
      <4>2. CASE s.cancelAt[i] \notin UnderWay
        <5>1. x.entry[i].state = "Done" /\ x.entry[i] = Entry("Done", NoOp)
          BY <2>0, <3>1, <4>2 DEF Entry
        <5> QED
          BY <2>a, <2>c, <4>2, <5>1 DEF Live
      <4> QED
        BY <4>1, <4>2
    <3>3. r.opAt[i] = "reaped" /\ r.slot[i] = "completed"
      BY <1>8, <2>1, <3>1
    <3>4. r.entry[i] \in Entries
      BY <3>2, EntryTypes
    <3>5. r.entry[i].state = IF s.cancelAt[i] \in UnderWay /\ i \notin C THEN "Tombstone" ELSE "Done"
      BY <3>2 DEF Entry
    <3> QED
      BY <1>8, <2>0, <2>1, <3>1, <3>3, <3>4, <3>5
         DEF ConsistentAt, EvolvesAt, Outstanding, Live, UnderWay
  <2>2. CASE i \notin O /\ i \in C
    <3>1. /\ x.entry[i] = s.entry[i]
          /\ \/ Live(s, i) /\ s.entry[i].op.cancel = "Pending"
             \/ s.entry[i].state = "Tombstone"
      BY <2>0, <2>2 DEF ConsistentAt, LiveConsistent, Live, UnderWay, EntryState
    <3>2. i \in due
      BY <2>c, <2>2, <3>1 DEF Live
    <3>3. CASE Live(s, i)
      <4>1. r.entry[i] = Entry("Occupied", [s.entry[i].op EXCEPT !.cancel = "Completed"])
        BY <2>a, <2>b, <3>1, <3>2, <3>3 DEF Live
      <4>2. /\ r.entry[i].op = [s.entry[i].op EXCEPT !.cancel = "Completed"]
            /\ r.entry[i].state = "Occupied"
        BY <4>1 DEF Entry
      <4>3. /\ r.entry[i].op \in Op /\ r.entry[i].op.cancel = "Completed"
            /\ r.entry[i].op.lifecycle = s.entry[i].op.lifecycle
            /\ r.entry[i].op.observer = s.entry[i].op.observer
            /\ r.entry[i].op.payload = s.entry[i].op.payload
        BY <2>0, <3>3, <4>2 DEF Op, CancelState
      <4>4. r.entry[i] \in Entries
        BY <4>1, <4>2, <4>3, EntryTypes
      <4> QED
        BY <1>8, <2>0, <2>2, <3>1, <3>3, <4>2, <4>3, <4>4
           DEF ConsistentAt, LiveConsistent, EvolvesAt, Outstanding, Live, UnderWay
    <3>4. CASE ~Live(s, i)
      <4>1. r.entry[i] = Entry("Done", NoOp)
        BY <2>a, <2>b, <3>1, <3>2, <3>4 DEF Live
      <4>2. r.entry[i] \in Entries /\ r.entry[i].state = "Done"
        BY <4>1, EntryTypes DEF Entry
      <4> QED
        BY <1>8, <2>0, <2>2, <3>1, <3>4, <4>2
           DEF ConsistentAt, LiveConsistent, EvolvesAt, Outstanding, Live, UnderWay
    <3> QED
      BY <3>3, <3>4
  <2>3. CASE i \notin O /\ i \notin C
    <3>1. r.entry[i] = s.entry[i]
      BY <2>0, <2>a, <2>c, <2>3
    <3> QED
      BY <1>8, <2>0, <2>3, <3>1
         DEF ConsistentAt, LiveConsistent, EvolvesAt, Outstanding, Live, UnderWay
  <2> QED
    BY <2>1, <2>2, <2>3
<1>10. r \in DriverInner
  <2>1. /\ r.entry \in [Ids -> Entries] /\ r.opAt \in [Ids -> Place]
        /\ r.cancelAt \in [Ids -> Place] /\ r.slot \in [Ids -> ResultSlot]
    BY <1>8, <1>9 DEF Sound, DriverInner, Place, ResultSlot
  <2> QED
    BY <1>7, <1>8, <2>1 DEF Sound, DriverInner
<1>11. Evolves(s, r)
  BY <1>8, <1>9, <1>10 DEF Sound, Evolves
<1> QED
  BY <1>11 DEF r

\* The release, once the kernel holds nothing: what is left was still queued,
\* and every future of it is answered.
LEMMA ReleasedEvolves ==
  ASSUME NEW s, Sound(s), AwaitingKernel(s) = {}
  PROVE  Evolves(s, Released(s)) /\ Outstanding(Released(s)) = {}
<1> DEFINE gone(i) == Entry("Done", NoOp)
           L == {i \in Ids : Live(s, i)}
           w == WithEntries(s, L, gone)
           x == ResolveAbandoned(s)
           r == Released(s)
<1>1. /\ w = [s EXCEPT !.entry = [i \in Ids |-> IF i \in L THEN gone(i) ELSE @[i]]]
      /\ x = [w EXCEPT !.slot = Moved(@, L, "abandoned")]
      /\ r = [x EXCEPT !.opAt = Discarded(@), !.cancelAt = Discarded(@), !.holds = {}]
  BY DEF Released, ResolveAbandoned, WithEntries
<1>a. \A i \in Ids : i \in L <=> Live(s, i)
  OBVIOUS
<1> HIDE DEF L, w, x, r
<1>2. w = [entry |-> [i \in Ids |-> IF i \in L THEN Entry("Done", NoOp) ELSE s.entry[i]],
           opAt |-> s.opAt, cancelAt |-> s.cancelAt, slot |-> s.slot,
           deferred |-> s.deferred, holds |-> s.holds, pending |-> s.pending,
           failures |-> s.failures]
  BY <1>1 DEF Sound, DriverInner
<1>3. x = [entry |-> w.entry, opAt |-> w.opAt, cancelAt |-> w.cancelAt,
           slot |-> Moved(w.slot, L, "abandoned"), deferred |-> w.deferred,
           holds |-> w.holds, pending |-> w.pending, failures |-> w.failures]
  BY <1>1, <1>2
<1>4. r = [entry |-> x.entry, opAt |-> Discarded(x.opAt), cancelAt |-> Discarded(x.cancelAt),
           slot |-> x.slot, deferred |-> x.deferred, holds |-> {},
           pending |-> x.pending, failures |-> x.failures]
  BY <1>1, <1>3
<1>5. /\ r.deferred = s.deferred /\ r.holds = {}
      /\ r.pending = s.pending /\ r.failures = s.failures
      /\ r.entry = [i \in Ids |-> IF i \in L THEN Entry("Done", NoOp) ELSE s.entry[i]]
      /\ r.opAt = [i \in Ids |-> IF s.opAt[i] = "queued" THEN "discarded" ELSE s.opAt[i]]
      /\ r.cancelAt = [i \in Ids |-> IF s.cancelAt[i] = "queued" THEN "discarded"
                                                                ELSE s.cancelAt[i]]
      /\ r.slot = [i \in Ids |-> IF i \in L THEN "abandoned" ELSE s.slot[i]]
  BY <1>2, <1>3, <1>4 DEF Moved, Discarded
<1>6. ASSUME NEW i \in Ids
      PROVE  /\ r.entry[i] \in Entries /\ ConsistentAt(r, i) /\ EvolvesAt(s, r, i)
             /\ i \notin Outstanding(r)
  <2>0. /\ ConsistentAt(s, i) /\ s.entry[i] \in Entries /\ s.entry[i].state \in EntryState
        /\ ~At(s, i, "Submitted") /\ s.entry[i].state # "Tombstone"
    BY EntryTypes DEF Sound, DriverInner, AwaitingKernel
  <2>1. CASE Live(s, i)
    <3>1. r.entry[i] \in Entries /\ r.entry[i].state = "Done"
      BY <1>5, <1>a, <2>1, EntryTypes DEF Entry
    <3> QED
      BY <1>5, <1>a, <2>0, <2>1, <3>1
         DEF ConsistentAt, LiveConsistent, EvolvesAt, Outstanding, At, Live, UnderWay
  <2>2. CASE ~Live(s, i)
    BY <1>5, <1>a, <2>0, <2>2
       DEF ConsistentAt, LiveConsistent, EvolvesAt, Outstanding, At, Live, UnderWay, EntryState
  <2> QED
    BY <2>1, <2>2
<1>7. r \in DriverInner
  <2>1. /\ r.entry \in [Ids -> Entries] /\ r.opAt \in [Ids -> Place]
        /\ r.cancelAt \in [Ids -> Place] /\ r.slot \in [Ids -> ResultSlot]
    BY <1>5, <1>6 DEF Sound, DriverInner, Place, ResultSlot
  <2> QED
    BY <1>4, <1>5, <2>1 DEF Sound, DriverInner
<1>8. Evolves(s, r) /\ Outstanding(r) = {}
  BY <1>5, <1>6, <1>7 DEF Sound, Evolves, Outstanding
<1> QED
  BY <1>8 DEF r
-----------------------------------------------------------------------------
(* The actions. *)

\* Nothing has been started.
LEMMA InitIInv == Init => IInv
<1> SUFFICES ASSUME Init PROVE IInv
  OBVIOUS
<1>1. d \in DriverInner
  BY DriverAssumption, EntryTypes DEF Init, DriverInner, Place, ResultSlot
<1>2. \A i \in Ids : /\ d.entry[i].state = "Unborn" /\ d.opAt[i] = "none"
                     /\ d.cancelAt[i] = "none" /\ d.slot[i] = "empty" /\ fut[i] = "none"
  BY DEF Init, Entry
<1>3. Sound(d)
  BY <1>1, <1>2 DEF Sound, ConsistentAt, UnderWay
<1>4. \A i \in Ids : FutureAt(i)
  BY <1>2 DEF FutureAt, Live
<1> QED
  BY <1>1, <1>3, <1>4 DEF IInv, TypeOK, PhaseInv, Init, ShutdownMode, Phase

\* Whatever the driver does to its record within one borrow, no future loses
\* its answer and none is cancelled that should not be.
LEMMA EvolvedFutures ==
  ASSUME IInv, Evolves(d, d'), UNCHANGED <<shutdown, fut, asked>>
  PROVE  /\ d' \in DriverInner /\ Sound(d') /\ d'.deferred \subseteq asked'
         /\ Outstanding(d) = {} => Outstanding(d') = {}
         /\ \A i \in Ids : FutureAt(i)'
<1>1. d' \in DriverInner /\ Sound(d') /\ d'.deferred \subseteq asked'
  BY DEF IInv, Evolves, Sound, PhaseInv
<1>2. Outstanding(d) = {} => Outstanding(d') = {}
  BY DEF Evolves, EvolvesAt, Outstanding
<1>3. ASSUME NEW i \in Ids PROVE FutureAt(i)'
  BY DEF IInv, PhaseInv, Evolves, EvolvesAt, FutureAt, Live
<1> QED
  BY <1>1, <1>2, <1>3

\* A pass of the driver's loop keeps the invariant.
LEMMA PassIInv ==
  ASSUME IInv, NEW accepted, NEW refused,
         NEW O \in SUBSET PostedOps(d), NEW C \in SUBSET PostedCancels(d),
         Pass(accepted, refused, O, C)
  PROVE  IInv' /\ Evolves(d, d')
<1> DEFINE s == SubmitPending(d, accepted, refused)
<1>1. Extends(d, s) /\ Sound(s)
  BY SubmitPendingExtends DEF IInv, Extends, Evolves
<1>2. d' = Reaped(s, O, C)
  BY DEF Pass
<1> HIDE DEF s
<1>3. Evolves(s, d')
  BY <1>1, <1>2, ReapedEvolves DEF Extends
<1>4. Evolves(d, d')
  BY <1>1, <1>3, EvolvesTrans DEF Extends
<1> QED
  BY <1>4, EvolvedFutures DEF Pass, IInv, TypeOK, PhaseInv, Phase

\* So does a drain step; the release is entered only with the kernel idle.
LEMMA DrainStepIInv ==
  ASSUME IInv, NEW accepted, NEW refused, NEW taken,
         NEW O \in SUBSET PostedOps(d), NEW C \in SUBSET PostedCancels(d),
         DrainStep(accepted, refused, taken, O, C)
  PROVE  IInv' /\ Evolves(d, d')
<1> DEFINE p == Pushed(d, accepted, refused)
           w == Waited(p, taken)
<1>1. Extends(d, p) /\ Sound(p)
  BY PushedExtends DEF IInv, Extends, Evolves
<1>2. Extends(p, w) /\ Sound(w)
  BY <1>1, WaitedExtends DEF Extends, Evolves
<1>3. Extends(d, w)
  BY <1>1, <1>2, ExtendsTrans
<1>4. /\ d' = Reaped(w, O, C)
      /\ \/ /\ pc = "drain" /\ ~tornDown
            /\ pc' = IF Quiescent(d') \/ UnsubmittableResidue(d') THEN "release" ELSE pc
         \/ /\ pc = "dropping"
            /\ pc' = IF Quiescent(d') \/ UnsubmittableResidue(d') THEN "dropRelease" ELSE pc
      /\ UNCHANGED <<shutdown, tornDown, fut, asked, aborted, waiter>>
  BY DEF DrainStep, Step
<1> HIDE DEF p, w
<1>5. Evolves(w, d')
  BY <1>2, <1>3, <1>4, ReapedEvolves DEF Extends
<1>6. Evolves(d, d')
  BY <1>3, <1>5, EvolvesTrans DEF Extends
<1>7. Quiescent(d') \/ UnsubmittableResidue(d') => AwaitingKernel(d') = {}
  BY DEF Quiescent, UnsubmittableResidue, Outstanding, AwaitingKernel, At, Live
<1>8. PhaseInv'
  BY <1>4, <1>6, <1>7, EvolvedFutures DEF IInv, PhaseInv
<1> QED
  BY <1>4, <1>6, <1>8, EvolvedFutures DEF IInv, TypeOK, Phase

\* Closing and releasing keeps the invariant.
LEMMA CloseAndReleaseIInv ==
  ASSUME IInv, CloseAndRelease
  PROVE  IInv' /\ Evolves(d, d')
<1>1. Sound(d) /\ AwaitingKernel(d) = {} /\ shutdown # "Running"
  BY DEF IInv, PhaseInv, CloseAndRelease
<1>2. Evolves(d, d') /\ Outstanding(d') = {}
  BY <1>1, ReleasedEvolves DEF CloseAndRelease
<1> QED
  BY <1>1, <1>2, EvolvedFutures DEF CloseAndRelease, IInv, TypeOK, PhaseInv, Phase

\* The steps that move the driver from phase to phase leave its record alone.
LEMMA PhaseStepIInv ==
  ASSUME IInv, UNCHANGED <<d, fut, asked, aborted>>,
         \/ StartDrive \/ AbandonDrive \/ TeardownFound \/ CloseFails \/ DropDriver
         \/ AwaitShutdown \/ DropWaiter \/ \E mode \in ShutdownMode : Escalate(mode)
         \/ UNCHANGED vars
  PROVE  IInv'
<1>1. TypeOK'
  BY DEF IInv, TypeOK, Phase, ShutdownMode, StartDrive, AbandonDrive, TeardownFound,
         CloseFails, DropDriver, AwaitShutdown, DropWaiter, Escalate, vars
<1>2. PhaseInv'
  BY DEF IInv, PhaseInv, TypeOK, StartDrive, AbandonDrive, TeardownFound,
         CloseFails, DropDriver, AwaitShutdown, DropWaiter, Escalate, vars
<1>3. shutdown = "Immediate" => shutdown' = "Immediate"
  BY DEF StartDrive, AbandonDrive, TeardownFound,
         CloseFails, DropDriver, AwaitShutdown, DropWaiter, Escalate, vars
<1>4. ASSUME NEW i \in Ids PROVE FutureAt(i)'
  BY <1>3 DEF IInv, FutureAt
<1> QED
  BY <1>1, <1>2, <1>4 DEF IInv

\* An operation whose fields a step leaves alone stays consistent.
LEMMA OthersKept ==
  ASSUME NEW s, NEW r, NEW j, ConsistentAt(s, j),
         r.entry[j] = s.entry[j], r.opAt[j] = s.opAt[j], r.cancelAt[j] = s.cancelAt[j],
         r.holds = s.holds, s.pending = TRUE => r.pending = TRUE
  PROVE  ConsistentAt(r, j)
BY DEF ConsistentAt, LiveConsistent

\* The bookkeeping record, written out.
LEMMA InnerFields ==
  ASSUME NEW s \in DriverInner
  PROVE  s = [entry |-> s.entry, opAt |-> s.opAt, cancelAt |-> s.cancelAt,
              slot |-> s.slot, deferred |-> s.deferred, holds |-> s.holds,
              pending |-> s.pending, failures |-> s.failures]
BY DEF DriverInner

\* Starting an operation keeps the invariant.
LEMMA StartOpIInv ==
  ASSUME IInv, NEW i \in Ids, StartOp(i)
  PROVE  IInv' /\ d'.cancelAt = d.cancelAt
<1> DEFINE op == Advanced(NewOp(Target[i]), "Built")
<1>1. op = [lifecycle |-> "Built", observer |-> "Live",
            cancel |-> "NeverRequested", payload |-> Target[i]]
  BY DEF Advanced, NewOp, Forward
<1>2. op \in Op
  BY <1>1, DriverAssumption DEF Op, Lifecycle, Observer, CancelState
<1>3. d \in DriverInner
  BY DEF IInv, TypeOK
<1>a. d' = [d EXCEPT !.entry[i] = Entry("Occupied", op), !.opAt[i] = "queued",
                     !.pending = TRUE]
  BY DEF StartOp
<1> HIDE DEF op
<1>4. d' = [entry |-> [d.entry EXCEPT ![i] = Entry("Occupied", op)],
            opAt |-> [d.opAt EXCEPT ![i] = "queued"], cancelAt |-> d.cancelAt,
            slot |-> d.slot, deferred |-> d.deferred, holds |-> d.holds,
            pending |-> TRUE, failures |-> d.failures]
  BY <1>3, <1>a DEF DriverInner
<1>5. Entry("Occupied", op) \in Entries
  BY <1>2, EntryTypes
<1>6. d'.entry[i].state = "Occupied" /\ d'.entry[i].op = op
  BY <1>3, <1>4 DEF Entry, DriverInner
<1>7. d' \in DriverInner
  BY <1>3, <1>4, <1>5 DEF DriverInner, Place
<1>8. d.entry[i].state = "Unborn" /\ ConsistentAt(d, i) /\ FutureAt(i) /\ fut[i] = "none"
  BY DEF IInv, Sound, FutureAt, StartOp
<1>9. ASSUME NEW j \in Ids PROVE ConsistentAt(d', j)
  <2>1. CASE j = i
    BY <1>1, <1>3, <1>4, <1>6, <1>8, <2>1 DEF ConsistentAt, LiveConsistent, UnderWay, DriverInner
  <2>2. CASE j # i
    BY <1>3, <1>4, <2>2 DEF IInv, Sound, DriverInner, ConsistentAt, LiveConsistent
  <2> QED
    BY <2>1, <2>2
<1>10. ASSUME NEW j \in Ids PROVE FutureAt(j)'
  <2>1. CASE j = i
    BY <1>1, <1>3, <1>4, <1>6, <1>8, <2>1 DEF FutureAt, ConsistentAt, Live, StartOp, IInv, TypeOK
  <2>2. CASE j # i
    BY <1>3, <1>4, <2>2 DEF FutureAt, Live, StartOp, IInv, TypeOK, DriverInner
  <2> QED
    BY <2>1, <2>2
<1>11. TypeOK' /\ PhaseInv'
  BY <1>4, <1>7 DEF IInv, TypeOK, PhaseInv, StartOp
<1> QED
  BY <1>4, <1>7, <1>9, <1>10, <1>11 DEF IInv, Sound

\* A refused start gives the slot up at once.
LEMMA StartRefusedIInv ==
  ASSUME IInv, NEW i \in Ids, StartRefused(i)
  PROVE  IInv' /\ d'.cancelAt = d.cancelAt
<1>3. d \in DriverInner
  BY DEF IInv, TypeOK
<1>4. d' = [entry |-> [d.entry EXCEPT ![i] = Entry("Done", NoOp)],
            opAt |-> d.opAt, cancelAt |-> d.cancelAt,
            slot |-> d.slot, deferred |-> d.deferred, holds |-> d.holds,
            pending |-> d.pending, failures |-> d.failures]
  BY <1>3, InnerFields DEF StartRefused, Recovered
<1>6. d'.entry[i].state = "Done"
  BY <1>3, <1>4 DEF Entry, DriverInner
<1>7. d' \in DriverInner
  BY <1>3, <1>4, EntryTypes DEF DriverInner
<1>8. d.entry[i].state = "Unborn" /\ ConsistentAt(d, i) /\ FutureAt(i) /\ fut[i] = "none"
  BY DEF IInv, Sound, FutureAt, StartRefused
<1>9. ASSUME NEW j \in Ids PROVE ConsistentAt(d', j)
  <2>1. CASE j = i
    BY <1>3, <1>4, <1>6, <1>8, <2>1 DEF ConsistentAt, UnderWay
  <2>2. CASE j # i
    BY <1>3, <1>4, <2>2 DEF IInv, Sound, DriverInner, ConsistentAt, LiveConsistent
  <2> QED
    BY <2>1, <2>2
<1>10. ASSUME NEW j \in Ids PROVE FutureAt(j)'
  <2>1. CASE j = i
    BY <1>3, <1>4, <1>6, <1>8, <2>1 DEF FutureAt, ConsistentAt, Live, StartRefused, IInv, TypeOK
  <2>2. CASE j # i
    BY <1>3, <1>4, <2>2 DEF FutureAt, Live, StartRefused, IInv, TypeOK, DriverInner
  <2> QED
    BY <2>1, <2>2
<1>11. TypeOK' /\ PhaseInv'
  BY <1>4, <1>7 DEF IInv, TypeOK, PhaseInv, StartRefused
<1> QED
  BY <1>4, <1>7, <1>9, <1>10, <1>11 DEF IInv, Sound

\* A step that only empties the slot of an operation that is over, and records
\* that its future is gone, keeps the invariant.
LEMMA SlotTakenIInv ==
  ASSUME IInv, NEW i \in Ids, fut[i] = "waiting", ~Live(d, i),
         NEW f \in {"done", "dropped"}, fut' = [fut EXCEPT ![i] = f],
         d' = [d EXCEPT !.slot[i] = "empty"],
         UNCHANGED <<shutdown, tornDown, pc, asked, aborted, waiter>>
  PROVE  IInv' /\ d'.cancelAt = d.cancelAt
<1>1. d \in DriverInner
  BY DEF IInv, TypeOK
<1>2. d' = [entry |-> d.entry, opAt |-> d.opAt, cancelAt |-> d.cancelAt,
            slot |-> [d.slot EXCEPT ![i] = "empty"], deferred |-> d.deferred,
            holds |-> d.holds, pending |-> d.pending, failures |-> d.failures]
  BY <1>1, InnerFields
<1>3. d' \in DriverInner
  BY <1>1, <1>2 DEF DriverInner, ResultSlot
<1>4. \A j \in Ids : ConsistentAt(d', j)
  BY <1>2, OthersKept DEF IInv, Sound
<1>5. d.entry[i].state # "Unborn"
  BY DEF IInv, FutureAt
<1>6. ASSUME NEW j \in Ids PROVE FutureAt(j)'
  BY <1>1, <1>2, <1>5 DEF FutureAt, Live, IInv, TypeOK, DriverInner
<1>7. TypeOK' /\ PhaseInv'
  BY <1>2, <1>3 DEF IInv, TypeOK, PhaseInv, AwaitingKernel, Outstanding, At, Live
<1> QED
  BY <1>2, <1>3, <1>4, <1>6, <1>7 DEF IInv, Sound

\* A future that takes its answer keeps the invariant.
LEMMA CollectIInv ==
  ASSUME IInv, NEW i \in Ids, Collect(i)
  PROVE  IInv' /\ d'.cancelAt = d.cancelAt
<1>1. ~Live(d, i)
  BY DEF IInv, FutureAt, Collect
<1> QED
  BY <1>1, SlotTakenIInv DEF Collect

\* A future dropped while the driver is borrowed leaves a live operation alone.
LEMMA DropFutureBorrowedIInv ==
  ASSUME IInv, NEW i \in Ids, DropFutureBorrowed(i)
  PROVE  IInv' /\ d'.cancelAt = d.cancelAt
<1>1. CASE ~Live(d, i)
  BY <1>1, SlotTakenIInv DEF DropFutureBorrowed
<1>2. CASE Live(d, i)
  <2>1. d' = d
    BY <1>2 DEF DropFutureBorrowed
  <2>2. ASSUME NEW j \in Ids PROVE FutureAt(j)'
    BY <1>2, <2>1 DEF IInv, TypeOK, FutureAt, DropFutureBorrowed
  <2> QED
    BY <2>1, <2>2 DEF IInv, TypeOK, PhaseInv, DropFutureBorrowed
<1> QED
  BY <1>1, <1>2

\* Forgetting the observer of an operation whose future is dropped.
LEMMA DetachedEffect ==
  ASSUME NEW s, Sound(s), NEW i \in Ids, Live(s, i)
  PROVE  LET r == Detached(s, i)
         IN /\ Sound(r)
            /\ \A j \in Ids \ {i} : r.entry[j] = s.entry[j]
            /\ r.entry[i].state = "Occupied" /\ r.entry[i].op.observer = "Detached"
            /\ r.entry[i].op.lifecycle = s.entry[i].op.lifecycle
            /\ r.opAt = s.opAt /\ r.cancelAt = s.cancelAt /\ r.slot = s.slot
            /\ r.deferred = s.deferred
<1> DEFINE r == Detached(s, i)
           op == [s.entry[i].op EXCEPT !.observer = "Detached"]
<1>1. s \in DriverInner /\ s.entry[i] \in Entries /\ s.entry[i].op \in Op
  BY EntryTypes DEF Sound, DriverInner, Live
<1>2. r = [s EXCEPT !.entry = [s.entry EXCEPT ![i] = [s.entry[i] EXCEPT !.op = op]]]
  BY DEF Detached
<1>3. /\ op \in Op /\ op.observer = "Detached" /\ op.lifecycle = s.entry[i].op.lifecycle
      /\ op.cancel = s.entry[i].op.cancel /\ op.payload = s.entry[i].op.payload
  BY <1>1 DEF Op, Observer
<1> HIDE DEF r, op
<1>4. [s.entry[i] EXCEPT !.op = op] = Entry("Occupied", op)
  BY <1>1 DEF Entries, Entry, Live
<1>5. r = [entry |-> [s.entry EXCEPT ![i] = Entry("Occupied", op)],
           opAt |-> s.opAt, cancelAt |-> s.cancelAt, slot |-> s.slot,
           deferred |-> s.deferred, holds |-> s.holds, pending |-> s.pending,
           failures |-> s.failures]
  BY <1>1, <1>2, <1>4 DEF DriverInner
<1>6. /\ r.entry[i] = Entry("Occupied", op)
      /\ \A j \in Ids \ {i} : r.entry[j] = s.entry[j]
      /\ r.opAt = s.opAt /\ r.cancelAt = s.cancelAt /\ r.slot = s.slot
      /\ r.deferred = s.deferred /\ r.holds = s.holds /\ r.pending = s.pending
  BY <1>1, <1>5 DEF DriverInner
<1>7. r.entry[i].state = "Occupied" /\ r.entry[i].op = op
  BY <1>6 DEF Entry
<1>8. r \in DriverInner
  BY <1>1, <1>3, <1>5, EntryTypes DEF DriverInner
<1>9. ASSUME NEW j \in Ids PROVE ConsistentAt(r, j)
  <2>1. ConsistentAt(s, j)
    BY DEF Sound
  <2>2. CASE j = i
    BY <1>3, <1>6, <1>7, <2>1, <2>2 DEF ConsistentAt, LiveConsistent, Live
  <2>3. CASE j # i
    BY <1>6, <2>1, <2>3 DEF ConsistentAt, LiveConsistent
  <2> QED
    BY <2>2, <2>3
<1> QED
  BY <1>3, <1>6, <1>7, <1>8, <1>9 DEF Sound, r

\* request_cancel for a live operation: cancelled now, or noted.
LEMMA RequestCancelEffect ==
  ASSUME NEW s, Sound(s), NEW i \in Ids, NEW refused
  PROVE  LET r == RequestCancel(s, i, refused)
         IN /\ Sound(r) /\ r.slot = s.slot
            /\ r.deferred \subseteq s.deferred \cup {i}
            /\ At(s, i, "Submitted") => r.deferred = s.deferred
            /\ AwaitingKernel(s) = {} => AwaitingKernel(r) = {}
            /\ Outstanding(r) = Outstanding(s)
            /\ \A j \in Ids :
                 /\ r.entry[j].state = s.entry[j].state
                 /\ Live(s, j) => r.entry[j].op.observer = s.entry[j].op.observer
                 /\ \/ r.cancelAt[j] = s.cancelAt[j]
                    \/ j = i /\ s.cancelAt[j] = "none" /\ r.cancelAt[j] = "queued"
<1> DEFINE r == RequestCancel(s, i, refused)
<1>1. CASE tornDown \/ ~Live(s, i)
  BY <1>1 DEF RequestCancel
<1>2. CASE Live(s, i) /\ At(s, i, "Submitted") /\ ~tornDown
  <2>1. r = IssueCancels(s, {i}, refused)
    BY <1>2 DEF RequestCancel
  <2> HIDE DEF r
  <2>2. /\ Sound(r) /\ r.slot = s.slot /\ r.deferred = s.deferred
        /\ \A j \in Ids : \/ r.entry[j] = s.entry[j] /\ r.cancelAt[j] = s.cancelAt[j]
                          \/ /\ j \in {i} /\ Live(s, j) /\ Live(r, j)
                             /\ r.entry[j].op.observer = s.entry[j].op.observer
                             /\ s.cancelAt[j] = "none" /\ r.cancelAt[j] = "queued"
    BY <2>1, IssueCancelsEffect
  <2>3. AwaitingKernel(s) # {}
    BY <1>2 DEF AwaitingKernel
  <2>4. \A j \in Ids : r.entry[j].state = s.entry[j].state
    BY <2>2 DEF Live
  <2>5. Outstanding(r) = Outstanding(s)
    BY <2>4 DEF Outstanding
  <2> QED
    BY <2>2, <2>3, <2>4, <2>5 DEF r, Live
<1>3. CASE Live(s, i) /\ ~At(s, i, "Submitted") /\ ~tornDown
  <2>1. r = [s EXCEPT !.deferred = s.deferred \cup {i}]
    BY <1>3 DEF RequestCancel
  <2> HIDE DEF r
  <2>2. r = [entry |-> s.entry, opAt |-> s.opAt, cancelAt |-> s.cancelAt, slot |-> s.slot,
             deferred |-> s.deferred \cup {i}, holds |-> s.holds, pending |-> s.pending,
             failures |-> s.failures]
    BY <2>1 DEF Sound, DriverInner
  <2>3. Sound(r)
    BY <2>2 DEF Sound, DriverInner, ConsistentAt, LiveConsistent
  <2>4. AwaitingKernel(r) = AwaitingKernel(s) /\ Outstanding(r) = Outstanding(s)
    BY <2>2 DEF AwaitingKernel, Outstanding, At, Live
  <2> QED
    BY <1>3, <2>2, <2>3, <2>4 DEF r, Live
<1> QED
  BY <1>1, <1>2, <1>3 DEF At

\* A cancellation only moves forward in a step that moves that of one
\* operation, from nowhere into the queue, or none.
CancelForward ==
  \A i \in Ids : d'.cancelAt[i] = "queued" => d.cancelAt[i] \in {"none", "queued"}

\* A handle's request to cancel keeps the invariant.
LEMMA CancelIInv ==
  ASSUME IInv, NEW i \in Ids, NEW refused, Cancel(i, refused)
  PROVE  IInv' /\ CancelForward
<1>1. /\ Sound(d') /\ d'.slot = d.slot
      /\ d'.deferred \subseteq d.deferred \cup {i}
      /\ AwaitingKernel(d) = {} => AwaitingKernel(d') = {}
      /\ Outstanding(d') = Outstanding(d)
      /\ \A j \in Ids :
           /\ d'.entry[j].state = d.entry[j].state
           /\ Live(d, j) => d'.entry[j].op.observer = d.entry[j].op.observer
           /\ \/ d'.cancelAt[j] = d.cancelAt[j]
              \/ j = i /\ d.cancelAt[j] = "none" /\ d'.cancelAt[j] = "queued"
  BY RequestCancelEffect DEF IInv, Cancel
<1>2. ASSUME NEW j \in Ids PROVE FutureAt(j)'
  BY <1>1 DEF IInv, FutureAt, Live, Cancel
<1>3. TypeOK'
  BY <1>1 DEF IInv, TypeOK, Sound, Cancel
<1>4. PhaseInv'
  BY <1>1 DEF IInv, PhaseInv, Cancel
<1> QED
  BY <1>1, <1>2, <1>3, <1>4 DEF IInv, CancelForward

\* So does dropping a future, whatever has become of its operation.
LEMMA DropFutureIInv ==
  ASSUME IInv, NEW i \in Ids, NEW refused, DropFuture(i, refused)
  PROVE  IInv' /\ CancelForward
<1>1. CASE ~Live(d, i)
  <2>1. d' = [d EXCEPT !.slot[i] = "empty"]
    BY <1>1 DEF DropFuture
  <2> QED
    BY <1>1, <2>1, SlotTakenIInv DEF DropFuture, CancelForward
<1>2. CASE Live(d, i)
  <2> DEFINE t == Detached(d, i)
  <2>1. /\ Sound(t)
        /\ \A j \in Ids \ {i} : t.entry[j] = d.entry[j]
        /\ t.entry[i].state = "Occupied" /\ t.entry[i].op.observer = "Detached"
        /\ t.entry[i].op.lifecycle = d.entry[i].op.lifecycle
        /\ t.opAt = d.opAt /\ t.cancelAt = d.cancelAt /\ t.slot = d.slot
        /\ t.deferred = d.deferred
    BY <1>2, DetachedEffect DEF IInv
  <2>2. /\ ~At(d, i, "Described")
        /\ d' = IF At(d, i, "Submitted") THEN RequestCancel(t, i, refused) ELSE t
    BY <1>2 DEF DropFuture, IInv, Sound, ConsistentAt, LiveConsistent, At, Live
  <2> HIDE DEF t
  <2>3. /\ AwaitingKernel(t) = AwaitingKernel(d) /\ Outstanding(t) = Outstanding(d)
        /\ At(t, i, "Submitted") <=> At(d, i, "Submitted")
    BY <1>2, <2>1 DEF AwaitingKernel, Outstanding, At, Live
  <2>4. /\ Sound(d') /\ d'.slot = t.slot
        /\ d'.deferred = t.deferred
        /\ AwaitingKernel(t) = {} => AwaitingKernel(d') = {}
        /\ Outstanding(d') = Outstanding(t)
        /\ \A j \in Ids :
             /\ d'.entry[j].state = t.entry[j].state
             /\ Live(t, j) => d'.entry[j].op.observer = t.entry[j].op.observer
             /\ \/ d'.cancelAt[j] = t.cancelAt[j]
                \/ j = i /\ t.cancelAt[j] = "none" /\ d'.cancelAt[j] = "queued"
    <3>1. CASE At(d, i, "Submitted")
      BY <2>1, <2>2, <2>3, <3>1, RequestCancelEffect
    <3>2. CASE ~At(d, i, "Submitted")
      BY <2>1, <2>2, <3>2
    <3> QED
      BY <3>1, <3>2
  <2>f. /\ fut \in [Ids -> {"none", "waiting", "done", "dropped"}]
        /\ fut[i] = "waiting" /\ fut' = [fut EXCEPT ![i] = "dropped"]
        /\ UNCHANGED <<shutdown, asked>>
    BY DEF DropFuture, IInv, TypeOK
  <2>5. ASSUME NEW j \in Ids PROVE FutureAt(j)'
    <3>0. FutureAt(j)
      BY DEF IInv
    <3>1. CASE j = i
      BY <1>2, <2>1, <2>4, <2>f, <3>0, <3>1 DEF FutureAt, Live
    <3>2. CASE j # i
      <4>1. d'.entry[j].state = d.entry[j].state /\ d'.cancelAt[j] = d.cancelAt[j]
            /\ (Live(d, j) => d'.entry[j].op.observer = d.entry[j].op.observer)
        BY <2>1, <2>4, <3>2 DEF Live
      <4> QED
        BY <2>1, <2>4, <2>f, <3>0, <3>2, <4>1 DEF FutureAt, Live
    <3> QED
      BY <3>1, <3>2
  <2>6. TypeOK'
    BY <2>4 DEF IInv, TypeOK, Sound, DropFuture
  <2>7. PhaseInv'
    BY <2>1, <2>3, <2>4 DEF IInv, PhaseInv, DropFuture
  <2>8. CancelForward
    BY <2>1, <2>4 DEF CancelForward
  <2> QED
    BY <2>4, <2>5, <2>6, <2>7, <2>8 DEF IInv
<1> QED
  BY <1>1, <1>2

\* The kernel finishing an operation keeps the invariant.
LEMMA KernelCompletesIInv ==
  ASSUME IInv, NEW i \in Ids, KernelCompletes(i)
  PROVE  IInv' /\ CancelForward
<1>1. d \in DriverInner
  BY DEF IInv, TypeOK
<1>2. d' = [entry |-> d.entry, opAt |-> [d.opAt EXCEPT ![i] = "posted"],
            cancelAt |-> d.cancelAt, slot |-> d.slot, deferred |-> d.deferred,
            holds |-> d.holds, pending |-> d.pending, failures |-> d.failures]
  BY <1>1, InnerFields DEF KernelCompletes
<1>3. d' \in DriverInner
  BY <1>1, <1>2 DEF DriverInner, Place
<1>4. d.opAt[i] = "kernel" /\ d.entry[i].state \in EntryState
  BY <1>1, EntryTypes DEF KernelCompletes, DriverInner
<1>5. ASSUME NEW j \in Ids PROVE ConsistentAt(d', j)
  <2>1. CASE j = i
    BY <1>1, <1>2, <1>4, <2>1
       DEF IInv, Sound, DriverInner, ConsistentAt, LiveConsistent, EntryState
  <2>2. CASE j # i
    BY <1>1, <1>2, <2>2 DEF IInv, Sound, DriverInner, ConsistentAt, LiveConsistent
  <2> QED
    BY <2>1, <2>2
<1>6. ASSUME NEW j \in Ids PROVE FutureAt(j)'
  BY <1>2 DEF IInv, FutureAt, Live, KernelCompletes
<1>7. TypeOK' /\ PhaseInv'
  BY <1>2, <1>3 DEF IInv, TypeOK, PhaseInv, AwaitingKernel, Outstanding, At, Live,
                    KernelCompletes
<1> QED
  BY <1>2, <1>3, <1>5, <1>6, <1>7 DEF IInv, Sound, CancelForward

\* So does the kernel answering a cancellation.
LEMMA KernelCancelsIInv ==
  ASSUME IInv, NEW i \in Ids, KernelCancels(i)
  PROVE  IInv' /\ CancelForward
<1>1. d \in DriverInner
  BY DEF IInv, TypeOK
<1>2. d' = [entry |-> d.entry, opAt |-> d.opAt,
            cancelAt |-> [d.cancelAt EXCEPT ![i] = "posted"], slot |-> d.slot,
            deferred |-> d.deferred, holds |-> d.holds, pending |-> d.pending,
            failures |-> d.failures]
  BY <1>1, InnerFields DEF KernelCancels
<1>3. d' \in DriverInner
  BY <1>1, <1>2 DEF DriverInner, Place
<1>4. d.cancelAt[i] = "kernel" /\ d.entry[i].state \in EntryState
  BY <1>1, EntryTypes DEF KernelCancels, DriverInner
<1>5. ASSUME NEW j \in Ids PROVE ConsistentAt(d', j)
  <2>1. CASE j = i
    BY <1>1, <1>2, <1>4, <2>1
       DEF IInv, Sound, DriverInner, ConsistentAt, LiveConsistent, EntryState, UnderWay
  <2>2. CASE j # i
    BY <1>1, <1>2, <2>2 DEF IInv, Sound, DriverInner, ConsistentAt, LiveConsistent
  <2> QED
    BY <2>1, <2>2
<1>6. ASSUME NEW j \in Ids PROVE FutureAt(j)'
  BY <1>1, <1>2, <1>4 DEF IInv, FutureAt, Live, KernelCancels, DriverInner
<1>7. TypeOK' /\ PhaseInv'
  BY <1>2, <1>3 DEF IInv, TypeOK, PhaseInv, AwaitingKernel, Outstanding, At, Live,
                    KernelCancels
<1>8. CancelForward
  BY <1>1, <1>2 DEF CancelForward, DriverInner
<1> QED
  BY <1>2, <1>3, <1>5, <1>6, <1>7, <1>8 DEF IInv, Sound

\* The invariant is inductive, and a cancellation never goes back.
LEMMA NextIInv == IInv /\ [Next]_vars => IInv' /\ CancelForward
<1> SUFFICES ASSUME IInv, [Next]_vars PROVE IInv' /\ CancelForward
  OBVIOUS
<1>e. Evolves(d, d') => CancelForward
  BY DEF Evolves, EvolvesAt, CancelForward
<1>u. d'.cancelAt = d.cancelAt => CancelForward
  BY DEF CancelForward
<1>1. CASE \/ StartDrive \/ AbandonDrive \/ TeardownFound \/ CloseFails \/ DropDriver
           \/ AwaitShutdown \/ DropWaiter \/ \E mode \in ShutdownMode : Escalate(mode)
           \/ UNCHANGED vars
  <2>1. UNCHANGED <<d, fut, asked, aborted>>
    BY <1>1 DEF StartDrive, AbandonDrive, TeardownFound, CloseFails, DropDriver,
                AwaitShutdown, DropWaiter, Escalate, vars
  <2> QED
    BY <1>1, <1>u, <2>1, PhaseStepIInv
<1>2. CASE DriverStep
  <2>1. PICK accepted \in {FALSE, d.pending}, taken \in {FALSE, Outstanding(d) # {}} :
          \E refused \in SUBSET Cancellable(d, accepted),
             O \in SUBSET PostedOps(d), C \in SUBSET PostedCancels(d) :
               \/ ~taken /\ Pass(accepted, refused, O, C)
               \/ DrainStep(accepted, refused, taken, O, C)
    BY <1>2 DEF DriverStep
  <2>2. PICK refused \in SUBSET Cancellable(d, accepted),
             O \in SUBSET PostedOps(d), C \in SUBSET PostedCancels(d) :
               \/ Pass(accepted, refused, O, C)
               \/ DrainStep(accepted, refused, taken, O, C)
    BY <2>1
  <2> QED
    BY <1>e, <2>2, PassIInv, DrainStepIInv
<1>3. CASE CloseAndRelease
  BY <1>3, <1>e, CloseAndReleaseIInv
<1>4. CASE \E i \in Ids : StartOp(i) \/ StartRefused(i) \/ Collect(i) \/ DropFutureBorrowed(i)
  BY <1>4, <1>u, StartOpIInv, StartRefusedIInv, CollectIInv, DropFutureBorrowedIInv
<1>5. CASE \E i \in Ids : \E refused \in SUBSET {i} : DropFuture(i, refused) \/ Cancel(i, refused)
  BY <1>5, DropFutureIInv, CancelIInv
<1>6. CASE \E i \in Ids : KernelCompletes(i) \/ KernelCancels(i)
  BY <1>6, KernelCompletesIInv, KernelCancelsIInv
<1> QED
  BY <1>1, <1>2, <1>3, <1>4, <1>5, <1>6 DEF Next, CallerStep

-----------------------------------------------------------------------------
(* The theorems. *)

\* The invariant implies each property the driver's run checks.
LEMMA IInvImplies ==
  IInv => /\ BufferPinned /\ HandlePinned /\ LifecycleTruthful /\ TombstoneExact
          /\ QueuedIsOwed /\ AnsweredOnce /\ CancelledOnlyOnRequest /\ ClosedWhenIdle
<1> SUFFICES ASSUME IInv
    PROVE  /\ BufferPinned /\ HandlePinned /\ LifecycleTruthful /\ TombstoneExact
           /\ QueuedIsOwed /\ AnsweredOnce /\ CancelledOnlyOnRequest /\ ClosedWhenIdle
  OBVIOUS
<1>1. \A i \in Ids : /\ ConsistentAt(d, i) /\ FutureAt(i)
                     /\ d.entry[i].state \in EntryState
  BY EntryTypes DEF IInv, Sound, DriverInner
<1>2. BufferPinned
  BY <1>1 DEF BufferPinned, ConsistentAt, Live, EntryState
<1>3. HandlePinned
  BY <1>1 DEF HandlePinned, ConsistentAt, UnderWay
<1>4. LifecycleTruthful
  BY <1>1 DEF LifecycleTruthful, ConsistentAt, LiveConsistent, At, Live
<1>5. TombstoneExact
  BY <1>1 DEF TombstoneExact, ConsistentAt, LiveConsistent, EntryState, UnderWay
<1>6. QueuedIsOwed
  BY <1>1 DEF QueuedIsOwed, ConsistentAt
<1>7. AnsweredOnce
  BY <1>1 DEF AnsweredOnce, FutureAt
<1>8. CancelledOnlyOnRequest
  BY <1>1 DEF CancelledOnlyOnRequest, FutureAt
<1>9. ClosedWhenIdle
  BY <1>1 DEF ClosedWhenIdle, IInv, PhaseInv, Outstanding, ConsistentAt, EntryState
<1> QED
  BY <1>2, <1>3, <1>4, <1>5, <1>6, <1>7, <1>8, <1>9

\* The inductive invariant holds after every borrow of DriverInner: a pass of
\* drive, a drain_step, close_and_release, and every call of a caller.
THEOREM DriverSound == Spec => []IInv
<1>1. Init => IInv
  BY InitIInv
<1>2. IInv /\ [Next]_vars => IInv'
  BY NextIInv
<1> QED
  BY <1>1, <1>2, PTL DEF Spec

\* However operations are started, dropped, cancelled, reaped and shut down, a
\* buffer stays in the slab while a queue entry or the kernel refers to it
\* (reap_completions and the drain are all that take a payload out).
THEOREM BuffersPinned == Spec => []BufferPinned
BY DriverSound, IInvImplies, PTL

\* The file a cancellation names stays open until the cancellation reports,
\* also after the operation it was for has completed.
THEOREM HandlesPinned == Spec => []HandlePinned
BY DriverSound, IInvImplies, PTL

\* The slab's lifecycle is where the queue entry really is: submit_pending
\* promotes exactly what the platform took, refusals included.
THEOREM LifecyclesTruthful == Spec => []LifecycleTruthful
BY DriverSound, IInvImplies, PTL

\* A tombstone of OpSlab::complete waits for exactly the cancellation still
\* under way, whichever of the two completions is reaped first.
THEOREM TombstonesExact == Spec => []TombstoneExact
BY DriverSound, IInvImplies, PTL

\* A queued entry is never forgotten: pending_submit is set until the close.
THEOREM QueuedAreOwed == Spec => []QueuedIsOwed
BY DriverSound, IInvImplies, PTL

\* A waiting future whose operation is over finds its answer, and a resolved
\* one is never answered again (the ResultSlot shared with the payload).
THEOREM FuturesAnsweredOnce == Spec => []AnsweredOnce
BY DriverSound, IInvImplies, PTL

\* A cancellation is only ever issued against an operation a caller asked to
\* cancel or abandoned, or at an immediate shutdown (issue_cancel's callers).
THEOREM CancelledOnRequest == Spec => []CancelledOnlyOnRequest
BY DriverSound, IInvImplies, PTL

\* close_and_release never closes the ring over anything the kernel accepted,
\* after an awaited drain or in the drop.
THEOREM RingClosedWhenIdle == Spec => []ClosedWhenIdle
BY DriverSound, IInvImplies, PTL

\* At most one cancellation is ever issued against an operation, however
\* often issue_cancel is reached for it.
THEOREM CancelledOnce == Spec => CancelOnce
<1>1. IInv /\ [Next]_vars => [CancelForward]_vars
  BY NextIInv
<1>2. Spec => [][CancelForward]_vars
  BY <1>1, DriverSound, PTL DEF Spec
<1> QED
  BY <1>2 DEF CancelOnce, CancelForward
=============================================================================
