------------------------------ MODULE MCBench -------------------------------
(* Small instances of the two programs: a ring backend with a small
   registration, then one without a ring; and cells of every kind of
   configuration on volumes that are plain, strict, stricter than a block
   or unusable. *)
EXTENDS Benchmarks

MCKinds == <<"registered", "pool">>
MCWeaknesses == {None, SkipsWork, HollowDelivery, HollowFromRun(1), HollowFromRun(2)}
MCVolumes ==
  {[logical |-> 1, others |-> {0}], [logical |-> 1, others |-> {0, 2}],
   [logical |-> 2, others |-> {4}], [logical |-> 3, others |-> {}]}
=============================================================================
