CONSTANTS
  Tasks = {t1}
  NoTask = NoTask
  MaxCallbacks = 1
  MaxSpurious = 1
  Others = 1
  Options <- MCOptions
SPECIFICATION FairSpec
PROPERTY ReparkedAcceptResolves
CHECK_DEADLOCK FALSE
