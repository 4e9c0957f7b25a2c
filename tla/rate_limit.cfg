\* One client, one window type, time for three windows; single checks and a
\* composite one that names the client twice.
SPECIFICATION Spec
CONSTANTS
  None = None
  u = u
  c1 = c1
  Identifier = {u}
  Window <- OneWindow
  Seconds <- OneSeconds
  Limit <- OneLimit
  Composite = {c1}
  IdentifiersOf <- MCIdentifiersOf
  WindowOf <- MCWindowOf
  MaxTime = 7
  MaxCount = 5
  MaxUnheard = 1
INVARIANTS
  WindowBound
  RetryAfterSuffices
  BurstBound
PROPERTIES
  RefusedForCause
VIEW View
\* The system stops when its time is up and its counters are full.
CHECK_DEADLOCK FALSE
