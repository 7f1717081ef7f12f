CONSTANTS
  Regs = {r1, r2}
  FileSets = {f1, f2}
  MaxRegistrations = 3
  Foreign = foreign
  NoReg = NoReg
  Handles = {h1, h2}
  Indices = {0}
  Extent = 2
  Hosts <- MCHosts
  Requests <- MCRequests
  QueueSize = 2
SPECIFICATION Spec
SYMMETRY RegistrySymmetry
INVARIANTS ResolvesOwnRegistration OneHandle PinnedIsKept PrefixHonest WritesInitialized
CHECK_DEADLOCK FALSE
