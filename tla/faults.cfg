\* One message, which BullMQ may redeliver while its first call is at work, so that
\* two calls meet on one query.  The Redis client of either worker may end at any
\* command, before or after its execution, and one worker may crash.
SPECIFICATION Spec
CONSTANTS
  None = None
  j1 = j1
  j2 = j2
  j3 = j3
  j4 = j4
  w1 = w1
  w2 = w2
  m1 = m1
  m2 = m2
  m3 = m3
  m4 = m4
  m5 = m5
  m6 = m6
  Job = {j1, j2}
  Worker <- TwoWorkers
  WorkerOf <- MCWorkerOf
  Message = {m1}
  Malformed = {}
  Query <- MCQuery
  QueryOf <- MCQueryOf
  Prefix <- MCPrefix
  PrefixOf <- MCPrefixOf
  Supported <- MCPrefix
  Danbooru = "danbooru"
  CacheKey <- MCCacheKey
  CacheKeyOf <- MCCacheKeyOf
  Purge <- NoPurge
  LockAttempts = 3
  FieldsAsPairs = FALSE
  EncryptionKey = TRUE
  CacheMayFail = FALSE
  LinkMayEnd = TRUE
  MaxResends = 0
  MaxCrashes = 1
  Attempts = 1
  MaxStalled = 1
  RenewalMayFail = TRUE
INVARIANTS
  RecordedIsReported
  NoLockLeftBehind
  RejectsForCause
  HeldUnlessLapsed
PROPERTIES
  LocksAreLeases
  TurnedAwayForCause
\* The system stops once every message is settled and every key expired.
CHECK_DEADLOCK FALSE
