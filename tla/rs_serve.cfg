\* Three clients that may open with anything, hang up, stay silent or stop reading;
\* threads may fail to start.
SPECIFICATION Spec
CONSTANTS
  a = a
  b = b
  c = c
  Clients = {a, b, c}
  None = None
  StartMayFail = TRUE
  DeafClients = {a, b, c}
  Headers <- AnyHeader
  Requests <- AnyFlags
CHECK_DEADLOCK FALSE
SYMMETRY Interchangeable
INVARIANT TypeOK
INVARIANT ThreadsAlive
