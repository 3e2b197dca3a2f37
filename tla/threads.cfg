CONSTANTS
  h1 = h1
  h2 = h2
  t1 = t1
  t2 = t2
  t3 = t3
  None = None
  Hosts = {h1, h2}
  Threads = {t1, t2, t3}
  Home <- MCHome
  Unregistered = {t2}
  Detachable = {t1, t2}
  Joinable = {t1, t3}
  MaxRunning = 1
  MaxPending = 1
SPECIFICATION TSpec
CHECK_DEADLOCK FALSE
INVARIANTS CountersExact ResultDelivered
PROPERTIES Reclaimed
