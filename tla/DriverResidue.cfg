CONSTANTS
  a = a
  b = b
  Ids = {a}
  Payloads <- Kinds
  Target <- JustOwned
  ResidueAttempts = 2
  Stuck = {}
  Awaited = FALSE
SPECIFICATION RefusingSpec
PROPERTY DrainEndsWhenKernelIdle
CHECK_DEADLOCK FALSE
