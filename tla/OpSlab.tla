-------------------------------- MODULE OpSlab --------------------------------
(***************************************************************************)
(* The slab of runtime/slab.rs: a vector of slots that grows, is recycled  *)
(* through a linked free list, and tells one use of a slot from the next   *)
(* by a generation.  The environment is unconstrained: any call may be     *)
(* made at any time with any machine word as its token, as when a stale or *)
(* unrecognised completion arrives.                                        *)
(***************************************************************************)
EXTENDS Token, Operations, FiniteSetsExt

VARIABLES
  slots,      \* Indices -> Slot; the vector is the first len of them
  len,        \* slots.len()
  freeHead,   \* first vacant slot, or NoSlot
  occupied,   \* the counter of live operations
  ret         \* what the last call handed out: a token, or payloads

vars == <<slots, len, freeHead, occupied, ret>>

NoSlot    == -1
SlotState == {"Absent", "Vacant", "Occupied", "Tombstone", "Retired"}

\* A slot holds an operation exactly while it is occupied.
Slot ==
  [generation : Generations, state : SlotState \ {"Occupied"},
   nextFree : Indices \cup {NoSlot}, op : {NoOp}]
  \cup
  [generation : Generations, state : {"Occupied"},
   nextFree : Indices \cup {NoSlot}, op : Op]

SlotIn(state, generation, nextFree, op) ==
  [state |-> state, generation |-> generation, nextFree |-> nextFree, op |-> op]

Nothing       == <<"nothing">>
Gave(payload) == <<"payload", payload>>
Minted(token) == <<"token", token>>

TypeOK ==
  /\ slots \in [Indices -> Slot]
  /\ len \in 0 .. MaxSlots
  /\ freeHead \in Indices \cup {NoSlot}
  /\ occupied \in Int
  /\ \A i \in Indices : slots[i].state = "Absent" <=> i >= len

Init ==
  /\ slots = [i \in Indices |-> SlotIn("Absent", FirstGeneration, NoSlot, NoOp)]
  /\ len = 0
  /\ freeHead = NoSlot
  /\ occupied = 0
  /\ ret = Nothing

-----------------------------------------------------------------------------
(* Looking a token up: the index must be in the vector and the generation  *)
(* must be the slot's current one.                                         *)

SlotFor(token) ==
  /\ Index(token) < len
  /\ slots[Index(token)].generation = Generation(token)

\* The token names a slot that is in the given state.
Holds(token, state) ==
  /\ SlotFor(token)
  /\ slots[Index(token)].state = state

Occupied(token)   == Holds(token, "Occupied")
OpOf(token)       == slots[Index(token)].op
CurrentToken(i)   == NewToken("Operation", i, slots[i].generation)

SetOp(token, op) ==
  slots' = [slots EXCEPT ![Index(token)].op = op]

\* Mutant: a slot is recycled however often it was used.
FreeSlotUnbounded(i) ==
  /\ slots' = [slots EXCEPT ![i] =
                 SlotIn("Vacant", @.generation + 1, freeHead, NoOp)]
  /\ freeHead' = i

\* Mutant: a recycled slot keeps its generation.
FreeSlotSameGeneration(i) ==
  /\ slots' = [slots EXCEPT ![i] =
                 SlotIn("Vacant", @.generation, freeHead, NoOp)]
  /\ freeHead' = i

\* Releases a slot: recycled under the next generation, or retired when the
\* generation counter is exhausted.
FreeSlot(i) ==
  IF slots[i].generation >= GenerationMask
    THEN /\ slots' = [slots EXCEPT ![i] =
                        SlotIn("Retired", @.generation, NoSlot, NoOp)]
         /\ UNCHANGED freeHead
    ELSE /\ slots' = [slots EXCEPT ![i] =
                        SlotIn("Vacant", @.generation + 1, freeHead, NoOp)]
         /\ freeHead' = i

-----------------------------------------------------------------------------
(* The operations. *)

\* Claims slot i, whose generation is unchanged, for a new operation.
Occupy(i, payload) ==
  /\ slots' = [slots EXCEPT ![i] =
                 SlotIn("Occupied", @.generation, NoSlot, NewOp(payload))]
  /\ occupied' = occupied + 1
  /\ ret' = Minted(CurrentToken(i))

InsertReusing(payload) ==
  /\ freeHead # NoSlot
  /\ freeHead' = slots[freeHead].nextFree
  /\ Occupy(freeHead, payload)
  /\ UNCHANGED len

InsertGrowing(payload) ==
  /\ freeHead = NoSlot
  /\ len < MaxSlots
  /\ len' = len + 1
  /\ Occupy(len, payload)
  /\ UNCHANGED freeHead

InsertRefused(payload) ==
  /\ freeHead = NoSlot
  /\ len >= MaxSlots
  /\ ret' = Gave(payload)
  /\ UNCHANGED <<slots, len, freeHead, occupied>>

SetLifecycle(token, next) ==
  /\ Occupied(token)
  /\ SetOp(token, Advanced(OpOf(token), next))
  /\ ret' = Nothing
  /\ UNCHANGED <<len, freeHead, occupied>>

Detach(token) ==
  /\ Occupied(token)
  /\ SetOp(token, [OpOf(token) EXCEPT !.observer = "Detached"])
  /\ ret' = Nothing
  /\ UNCHANGED <<len, freeHead, occupied>>

RegisterCancel(token) ==
  /\ Kind(token) = "Operation"
  /\ Occupied(token)
  /\ OpOf(token).cancel = "NeverRequested"
  /\ SetOp(token, [OpOf(token) EXCEPT !.cancel = "Pending"])
  /\ ret' = Nothing
  /\ UNCHANGED <<len, freeHead, occupied>>

\* A cancellation request leaves the slot: to is what its operation, if
\* still live, records; a tombstone waited for exactly this.
CancelOver(token, to) ==
  /\ Kind(token) = "Cancel"
  /\ \/ /\ Occupied(token)
        /\ OpOf(token).cancel = "Pending"
        /\ SetOp(token, [OpOf(token) EXCEPT !.cancel = to])
        /\ UNCHANGED freeHead
     \/ /\ Holds(token, "Tombstone")
        /\ FreeSlot(Index(token))
  /\ ret' = Nothing
  /\ UNCHANGED <<len, occupied>>

CancelRequestNotEnqueued(token) == CancelOver(token, "NeverRequested")
CompleteCancel(token)           == CancelOver(token, "Completed")

Complete(token) ==
  /\ Kind(token) = "Operation"
  /\ Occupied(token)
  /\ IF OpOf(token).cancel = "Pending"
       THEN /\ slots' = [slots EXCEPT ![Index(token)] =
                           SlotIn("Tombstone", @.generation, NoSlot, NoOp)]
            /\ UNCHANGED freeHead
       ELSE FreeSlot(Index(token))
  /\ occupied' = occupied - 1
  /\ ret' = Gave(OpOf(token).payload)
  /\ UNCHANGED len

\* A call that finds nothing it applies to does nothing.
Unrecognised(token) ==
  /\ \/ ~Occupied(token)                         \* set_lifecycle, detach, complete
     \/ Kind(token) = "Cancel"                   \* register_cancel, complete
     \/ Occupied(token) /\ OpOf(token).cancel # "NeverRequested"
  /\ ret' = Nothing
  /\ UNCHANGED <<slots, len, freeHead, occupied>>

PromoteBuiltToSubmitted ==
  /\ slots' = [i \in Indices |->
                 IF slots[i].state = "Occupied"
                   THEN [slots[i] EXCEPT !.op = Promoted(@)] ELSE slots[i]]
  /\ ret' = Nothing
  /\ UNCHANGED <<len, freeHead, occupied>>

\* The loop of drain visits the slots in index order and frees each occupied
\* one, so a recycled slot links to the recycled slot below it, the lowest to
\* the old free list, and the highest becomes the head.
Drained  == {i \in Indices : slots[i].state = "Occupied"}
Recycled == {i \in Drained : slots[i].generation < GenerationMask}
Below(i) == {j \in Recycled : j < i}

\* Mutant: every recycled slot links to the head as it was before the loop.
LinkToOldHead(i) == freeHead

LinkAfterDrain(i) == IF Below(i) = {} THEN freeHead ELSE Max(Below(i))

SlotAfterDrain(i) ==
  IF i \in Recycled
    THEN SlotIn("Vacant", slots[i].generation + 1, LinkAfterDrain(i), NoOp)
    ELSE IF i \in Drained
           THEN SlotIn("Retired", slots[i].generation, NoSlot, NoOp)
           ELSE slots[i]

\* Mutant: the counter is left alone.
DrainUncounted ==
  /\ slots' = [i \in Indices |-> SlotAfterDrain(i)]
  /\ freeHead' = IF Recycled = {} THEN freeHead ELSE Max(Recycled)
  /\ ret' = <<"payloads", [t \in {CurrentToken(i) : i \in Drained} |->
                             OpOf(t).payload]>>
  /\ UNCHANGED <<len, occupied>>

Drain ==
  /\ slots' = [i \in Indices |-> SlotAfterDrain(i)]
  /\ freeHead' = IF Recycled = {} THEN freeHead ELSE Max(Recycled)
  /\ occupied' = occupied - Cardinality(Drained)
  /\ ret' = <<"payloads", [t \in {CurrentToken(i) : i \in Drained} |->
                             OpOf(t).payload]>>
  /\ UNCHANGED len

Insert(payload) ==
  InsertReusing(payload) \/ InsertGrowing(payload) \/ InsertRefused(payload)

Next ==
  \/ \E p \in Payloads : Insert(p)
  \/ \E t \in Words :
       \/ \E next \in Lifecycle : SetLifecycle(t, next)
       \/ Detach(t)
       \/ RegisterCancel(t)
       \/ CancelRequestNotEnqueued(t)
       \/ Complete(t)
       \/ CompleteCancel(t)
       \/ Unrecognised(t)
  \/ PromoteBuiltToSubmitted
  \/ Drain

Spec == Init /\ [][Next]_vars

-----------------------------------------------------------------------------
(* Correctness. *)

Vacant == {i \in Indices : slots[i].state = "Vacant"}

\* pos numbers the vacant slots from the bottom of the free list: the links
\* descend by one to the slot numbered 1, and the head carries the count.
NumbersFreeList(pos) ==
  /\ freeHead = NoSlot => Vacant = {}
  /\ freeHead # NoSlot => freeHead \in Vacant /\ pos[freeHead] = Cardinality(Vacant)
  /\ \A i \in Vacant :
       /\ pos[i] \in 1 .. Cardinality(Vacant)
       /\ IF pos[i] = 1
            THEN slots[i].nextFree = NoSlot
            ELSE /\ slots[i].nextFree \in Vacant
                 /\ pos[slots[i].nextFree] = pos[i] - 1
  /\ \A i, j \in Vacant : pos[i] = pos[j] => i = j

\* The free list threads every vacant slot once, reaches no other slot and
\* ends: insert's `unreachable!("free list pointed at an occupied slot")`
\* (slab.rs:282) is unreachable, and a slot that was freed is never lost.
FreeListExact == \E pos \in [Indices -> 0 .. MaxSlots] : NumbersFreeList(pos)

\* The counter behind OpSlab::occupied, kept by insert, complete and drain,
\* is the number of live operations: `occupied -= 1` never underflows.
OccupiedExact == occupied = Cardinality(Drained)

\* No operation is ever given the user data 0, which the platform reads as
\* "every operation on this handle" when it is a cancellation's target.
NeverMintsZero == ret # Minted(0)

\* A token (i, g) is Done once slot i has moved past generation g, Unborn
\* until the slot is occupied at g, and otherwise what slot i says.
EntryOf(token) ==
  LET s == slots[Index(token)] IN
  [op    |-> IF SlotFor(token) THEN s.op ELSE NoOp,
   state |-> IF ~SlotFor(token)
               THEN IF Generation(token) < s.generation THEN "Done" ELSE "Unborn"
               ELSE CASE s.state = "Vacant"  -> "Unborn"
                      [] s.state = "Retired" -> "Done"
                      [] OTHER -> s.state]

Table == INSTANCE OpTable WITH
           Names <- OpTokens,
           table <- [t \in OpTokens |-> EntryOf(t)]

\* The slab implements a table of never-reused names: a recycled slot never
\* answers for an operation it held before, a payload is handed back once,
\* for the token it was placed under, and a slot whose cancellation is still
\* to report names nothing new.
ImplementsTable == Table!TableSpec
=============================================================================
