SPECIFICATION Spec
CONSTANTS
  a = a
  b = b
  c = c
  m1 = m1
  m2 = m2
  Threads = {a, b, c}
  Messages = {m1, m2}
  Capacity = 2
  NoMessage = NoMessage
  Ops <- AnyOp
SYMMETRY Interchangeable
INVARIANT TypeOK
INVARIANT ReadersAwake
PROPERTY ImplementsFifo
