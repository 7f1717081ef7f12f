-------------------------------- MODULE OpTable --------------------------------
(***************************************************************************)
(* What OpSlab promises the driver: a table of operations under names that *)
(* are never used twice.  A name is Unborn, then Occupied by exactly one   *)
(* operation, possibly a Tombstone while a cancellation of that operation  *)
(* is still to report, and Done for ever.  There are no slots, no          *)
(* generations and no free list here; a call under any other name does     *)
(* nothing.                                                                *)
(***************************************************************************)
EXTENDS Operations

CONSTANT Names

VARIABLES
  table,   \* Names -> what the name stands for
  ret      \* what the last call handed out: a name, or payloads

tableVars == <<table, ret>>

EntryState == {"Unborn", "Occupied", "Tombstone", "Done"}
Entry(state, op) == [state |-> state, op |-> op]

Nothing         == <<"nothing">>
Gave(payload)   == <<"payload", payload>>
Minted(name)    == <<"token", name>>

Set(name, entry) == table' = [table EXCEPT ![name] = entry]
Live(name)       == table[name].state = "Occupied"

TableInit ==
  /\ table = [n \in Names |-> Entry("Unborn", NoOp)]
  /\ ret = Nothing

\* A new operation gets a name nobody has had.
Place(name, payload) ==
  /\ ret' = Minted(name)
  /\ table[name].state = "Unborn"
  /\ Set(name, Entry("Occupied", NewOp(payload)))

\* The table is full: the caller gets the payload back.
Refuse(payload) == ret' = Gave(payload) /\ UNCHANGED table

\* Bookkeeping of a live operation: its payload stays where it is.
Change(name, op) ==
  /\ ret' = Nothing
  /\ Live(name)
  /\ Set(name, Entry("Occupied", op))

Progress(name) == \E next \in Lifecycle : Change(name, Advanced(table[name].op, next))
Abandon(name)  == Change(name, [table[name].op EXCEPT !.observer = "Detached"])

MoveCancel(name, from, to) ==
  /\ table[name].op.cancel = from
  /\ Change(name, [table[name].op EXCEPT !.cancel = to])

\* Requested, withdrawn because it was never queued, or reported.
Cancellation(name) ==
  /\ Live(name)
  /\ \/ MoveCancel(name, "NeverRequested", "Pending")
     \/ MoveCancel(name, "Pending", "NeverRequested")
     \/ MoveCancel(name, "Pending", "Completed")

\* The operation's own completion hands its payload back, once.
Resolve(name) ==
  /\ Live(name)
  /\ ret' = Gave(table[name].op.payload)
  /\ Set(name, IF table[name].op.cancel = "Pending"
                 THEN Entry("Tombstone", NoOp) ELSE Entry("Done", NoOp))

\* The cancellation a tombstone waits for is over.
Bury(name) ==
  /\ ret' = Nothing
  /\ table[name].state = "Tombstone"
  /\ Set(name, Entry("Done", NoOp))

\* The kernel has taken every queued entry.
PromoteAll ==
  /\ ret' = Nothing
  /\ table' = [n \in Names |->
                 IF Live(n) THEN Entry("Occupied", Promoted(table[n].op))
                            ELSE table[n]]

\* Teardown takes every payload that is left.
TakeAll ==
  /\ ret' = <<"payloads", [n \in {m \in Names : Live(m)} |-> table[n].op.payload]>>
  /\ table' = [n \in Names |-> IF Live(n) THEN Entry("Done", NoOp) ELSE table[n]]

\* A call under a name that stands for nothing, or a request not due.
Ignore == ret' = Nothing /\ UNCHANGED table

TableNext ==
  \/ Ignore
  \/ \E n \in Names, p \in Payloads : Place(n, p)
  \/ \E p \in Payloads : Refuse(p)
  \/ \E n \in Names : \/ Progress(n) \/ Abandon(n) \/ Cancellation(n)
                     \/ Resolve(n) \/ Bury(n)
  \/ PromoteAll
  \/ TakeAll

TableSpec == TableInit /\ [][TableNext]_tableVars
=============================================================================
