------------------------------ MODULE MCRegistry ------------------------------
(***************************************************************************)
(* Registry for TLC: registrations and handles are interchangeable.  The   *)
(* hosts are a full one, one too old, one without completion events and    *)
(* one that cannot register.                                               *)
(***************************************************************************)
EXTENDS Registry, TLC

MCHosts ==
  {[version |-> 3, features |-> {SetCompletionEvent}, ops |-> OpCodes],
   [version |-> 1, features |-> {}, ops |-> {"READ"}],
   [version |-> 3, features |-> {}, ops |-> OpCodes],
   [version |-> 3, features |-> {SetCompletionEvent}, ops |-> {"READ", "WRITE"}]}

MCRequests ==
  {[features |-> {SetCompletionEvent}, version |-> HostMaximum],
   [features |-> {}, version |-> 3]}

RegistrySymmetry == Permutations(Regs) \cup Permutations(FileSets) \cup Permutations(Handles)
=============================================================================
