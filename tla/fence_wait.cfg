\* A blocked wait against a destroy.
SPECIFICATION Spec
CONSTANTS
  f1 = f1
  f2 = f2
  b1 = b1
  b2 = b2
  Fences = {f1, f2}
  Blockers = {b1, b2}
  None = None
  kMaxGuestTimelines = 2
  Capacity = 2
  InOrder = TRUE
  MaxCreated = 1
CHECK_DEADLOCK FALSE
INVARIANT WaitsOnLive
