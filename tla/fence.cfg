\* Two addresses, at most two native fences outstanding, three of them in all; two
\* threads that block for the GPU.
SPECIFICATION Spec
CONSTANTS
  f1 = f1
  f2 = f2
  b1 = b1
  b2 = b2
  Fences = {f1, f2}
  Blockers = {b1, b2}
  None = None
  kMaxGuestTimelines = 2
  Capacity = 2
  InOrder = TRUE
  MaxCreated = 3
CHECK_DEADLOCK FALSE
INVARIANT TypeOK
INVARIANT CountExact
 
 
INVARIANT RepliesMatch
PROPERTY Answered
