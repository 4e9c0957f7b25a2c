\* Two drainers and a retrier on the same entries.
SPECIFICATION FairSpec
CONSTANTS
  None = None
  d1 = d1
  d2 = d2
  p1 = p1
  p2 = p2
  Entry = {1, 2}
  QueryOf <- MCQueryOf
  Drainer = {d1, d2}
  Retrier = {p1}
  EntryFields <- TestedFields
  FieldsAsPairs = TRUE
  DrainReads = TRUE
  EncryptionKey = TRUE
  Window = 0
  RangeCount = 2
  ReadCount = 2
  MaxTime = 2
  MaxFaults = 1
INVARIANTS
  NothingLost
PROPERTIES
  Drained
\* The system stops when its time is up.
CHECK_DEADLOCK FALSE
