------------------------------ MODULE Operations ------------------------------
(***************************************************************************)
(* What the driver records about one operation (the fields of              *)
(* SlotState::Occupied in runtime/slab.rs), and how a single record        *)
(* changes.  Both the abstract table of operations and the slab that       *)
(* implements it use these definitions, and so does the driver.            *)
(***************************************************************************)
CONSTANT Payloads   \* what a caller places in the slab: buffer, handle, result

Lifecycle   == {"Described", "Built", "Submitted"}
Observer    == {"Live", "Detached"}
CancelState == {"NeverRequested", "Pending", "Completed"}

Op == [lifecycle : Lifecycle, observer : Observer,
       cancel : CancelState, payload : Payloads]

\* A record no operation has: what a slot without an operation holds.
NoOp == [lifecycle |-> "None"]

NewOp(payload) ==
  [lifecycle |-> "Described", observer |-> "Live",
   cancel |-> "NeverRequested", payload |-> payload]

\* Lifecycle only moves forward.
Forward(from, to) ==
  \/ from = "Described" /\ to \in {"Built", "Submitted"}
  \/ from = "Built" /\ to = "Submitted"

Advanced(op, next) ==
  IF Forward(op.lifecycle, next) THEN [op EXCEPT !.lifecycle = next] ELSE op

Promoted(op) ==
  IF op.lifecycle = "Built" THEN [op EXCEPT !.lifecycle = "Submitted"] ELSE op
=============================================================================
