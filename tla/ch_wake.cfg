SPECIFICATION Spec
CONSTANTS
  a = a
  b = b
  c = c
  m1 = m1
  m2 = m2
  Threads = {a, b, c}
  Messages = {m1}
  Capacity = 2
  NoMessage = NoMessage
  Ops <- NoEmptyWait
INVARIANT WritersAwake
PROPERTY StopReleases
