CONSTANTS
  a = a
  b = b
  Ids = {a, b}
  Payloads <- Kinds
  Target <- OwnedAndRegistered
  ResidueAttempts = 2
  Stuck = {}
  Awaited = FALSE
SPECIFICATION Spec
INVARIANTS BufferPinned HandlePinned LifecycleTruthful TombstoneExact
  QueuedIsOwed AnsweredOnce CancelledOnlyOnRequest ClosedWhenIdle
PROPERTY CancelOnce
CHECK_DEADLOCK FALSE
