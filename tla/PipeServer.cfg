CONSTANTS
  Tasks = {t1, t2}
  NoTask = NoTask
  MaxCallbacks = 2
  MaxSpurious = 1
  Others = 1
  Options <- MCOptions
SPECIFICATION FairSpec
INVARIANTS KernelMemoryKept OkMeansClient
PROPERTIES AcceptResolves DropReturns
CHECK_DEADLOCK FALSE
