CONSTANTS
  Values = {v1, v2}
  Nobody = Nobody
  Calls = {c1}
  MaxCursor = 3
  MaxLen = 2
SPECIFICATION Spec
INVARIANTS GuardExact DeliveredAtCursor ReportsHonestly
