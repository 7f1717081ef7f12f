CONSTANTS
  MaxSlots = 2
  GenerationMask = 2
  Payloads = {p1, p2}
SPECIFICATION Spec
INVARIANTS TypeOK FreeListExact OccupiedExact NeverMintsZero
PROPERTY ImplementsTable
