----------------------------- MODULE MCPipeServer -----------------------------
(***************************************************************************)
(* PipeServer for TLC, on a name that another instance serves: a duplex    *)
(* pipe, one that can only be read, and three that are refused.            *)
(***************************************************************************)
EXTENDS PipeServer

MCOptions ==
  {[access |-> Directions, max |-> 2, first |-> FALSE],
   [access |-> {"read"}, max |-> 2, first |-> FALSE],
   [access |-> {}, max |-> 2, first |-> FALSE],
   [access |-> Directions, max |-> 1, first |-> FALSE],
   [access |-> Directions, max |-> 2, first |-> TRUE]}
=============================================================================
