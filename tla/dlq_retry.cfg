\* One caller of retryFromDLQ, with failing commands and crashes; the drain reads nothing, as shipped.
SPECIFICATION Spec
CONSTANTS
  None = None
  d1 = d1
  d2 = d2
  p1 = p1
  p2 = p2
  Entry = {1, 2}
  QueryOf <- MCQueryOf
  Drainer = {d1}
  Retrier = {p1}
  EntryFields <- WrittenFields
  FieldsAsPairs = TRUE
  DrainReads = FALSE
  EncryptionKey = TRUE
  Window = 2
  RangeCount = 2
  ReadCount = 2
  MaxTime = 7
  MaxFaults = 2
INVARIANTS
  NothingLost
  RetryWaitsForWindow
  RequestsApart
\* The system stops when its time is up.
CHECK_DEADLOCK FALSE
