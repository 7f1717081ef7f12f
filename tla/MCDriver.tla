------------------------------- MODULE MCDriver -------------------------------
(***************************************************************************)
(* Driver for TLC: a read or write on a caller's file, and a second        *)
(* operation whose kind the configuration chooses.                         *)
(***************************************************************************)
EXTENDS Driver

CONSTANTS a, b

Kinds == {"owned", "registered", "registration"}
JustOwned == [i \in {a} |-> "owned"]
OwnedAndRegistered   == [i \in {a, b} |-> IF i = a THEN "owned" ELSE "registered"]
OwnedAndRegistration == [i \in {a, b} |-> IF i = a THEN "owned" ELSE "registration"]
=============================================================================
