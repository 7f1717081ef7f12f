CONSTANTS
  a = a
  b = b
  Ids = {a, b}
  Payloads <- Kinds
  Target <- OwnedAndRegistration
  ResidueAttempts = 2
  Stuck = {a}
  Awaited = TRUE
SPECIFICATION FairSpec
PROPERTIES ShutdownCompletes FutureAnswered
CHECK_DEADLOCK FALSE
