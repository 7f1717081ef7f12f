CONSTANTS
  Tasks = {t1, t2}
  NoTask = NoTask
  MaxCallbacks = 2
  MaxOps = 2
SPECIFICATION FairSpec
INVARIANTS CallbackSafe NoLostWakeup
PROPERTIES WorkGetsAPass DropReturns
CHECK_DEADLOCK FALSE
