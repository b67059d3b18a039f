\* Three clients, one to hold m_lock, one to wait for it and one to ask for the exit;
\* any of them may stay silent or hang up, one may stop reading.
SPECIFICATION Spec
CONSTANTS
  a = a
  b = b
  c = c
  Clients = {a, b, c}
  None = None
  StartMayFail = FALSE
  DeafClients = {a}
  Headers <- Transfer
  Requests <- AnyFlags
CHECK_DEADLOCK FALSE
PROPERTY ClientsAccepted
PROPERTY ExitTerminates
