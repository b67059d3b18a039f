\* One display, a render thread that posts, two threads of the embedder: one copies
\* while the other flushes.
SPECIFICATION Spec
CONSTANTS
  r = r
  a = a
  b = b
  Callers = {r, a, b}
  StartMayFail = TRUE
  Render = r
  Apis = {a, b}
  Displays = {1}
  None = None
  NoRecord = NoRecord
  CountMod = 2
  MaxAge = 3
  MaxQueue = 2
CHECK_DEADLOCK FALSE
SYMMETRY Interchangeable
INVARIANT TypeOK
INVARIANT MappedNotRead
INVARIANT WaitMeansDone
INVARIANT WorkerAwake
INVARIANT RegistriesAgree
PROPERTY AlternatesBuffers
PROPERTY FramesForward
