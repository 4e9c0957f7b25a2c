\* The code as shipped: the drain's XREAD returns nothing.
SPECIFICATION FairSpec
CONSTANTS
  None = None
  d1 = d1
  d2 = d2
  p1 = p1
  p2 = p2
  Entry = {1, 2}
  QueryOf <- MCQueryOf
  Drainer = {d1}
  Retrier = {}
  EntryFields <- WrittenFields
  FieldsAsPairs = FALSE
  DrainReads = FALSE
  EncryptionKey = TRUE
  Window = 1
  RangeCount = 2
  ReadCount = 2
  MaxTime = 2
  MaxFaults = 0
PROPERTIES
  Drained
\* The system stops when its time is up.
CHECK_DEADLOCK FALSE
