CONSTANTS
  MaxCount = 3
  Kinds <- MCKinds
  Depths = {2, 3}
  Counts = {3}
  RegisteredBuffers = 2
  Weaknesses <- MCWeaknesses
  MaxIterations = 2
  Configs = {"IoRingPlain", "IoRingRegistered", "Compio", "TokioPool1", "TokioPool512Hn"}
  CellDepths = {1, 2}
  Operations = 3
  SequentialBlock = 4
  RandomBlock = 2
  ReadFileBytes = 5
  Volumes <- MCVolumes
  WidePool = 2
  MaxRuns = 2
SPECIFICATION BenchmarksSpec
INVARIANTS MeasuredAlike FailureNeverMeasured ShapeHonest
PROPERTY MeasurementReturns
CHECK_DEADLOCK FALSE
