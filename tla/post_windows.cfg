\* A render thread, a thread that takes screenshots; two displays, two parents.
SPECIFICATION Spec
CONSTANTS
  r = r
  a = a
  Callers = {r, a}
  StartMayFail = FALSE
  Render = r
  Apis = {a}
  Displays = {1, 2}
  Parents = {p1, p2}
  Cells = {c1, c2}
  Windows = {w1, w2}
  Main = Main
  None = None
  UseSubWindow = FALSE
  MaxQueue = 1
  MaxChildren = 1
INVARIANT TypeOK
INVARIANT DrawnShown
INVARIANT QuietAfterDelete
INVARIANT OneWindowEach
INVARIANT WaitMeansDone
PROPERTY WaitsEnd
