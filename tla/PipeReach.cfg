CONSTANTS
  Tasks = {t1}
  NoTask = NoTask
  MaxCallbacks = 1
  MaxSpurious = 0
  Others = 1
  Options <- MCOptions
SPECIFICATION Spec
INVARIANT AcceptsClientsTruthful
CHECK_DEADLOCK FALSE
