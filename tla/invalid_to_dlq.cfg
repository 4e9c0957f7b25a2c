\* The validator refuses a message; both dedupChecks of its call run.
SPECIFICATION Spec
CONSTANTS
  None = None
  j1 = j1
  j2 = j2
  j3 = j3
  j4 = j4
  w1 = w1
  w2 = w2
  m1 = m1
  m2 = m2
  m3 = m3
  m4 = m4
  m5 = m5
  m6 = m6
  Job = {j1, j2}
  Worker <- TwoWorkers
  WorkerOf <- MCWorkerOf
  Message = {m1, m2}
  Malformed = {}
  Query <- MCQuery
  QueryOf <- MCQueryOf
  Prefix <- MCPrefix
  PrefixOf <- MCPrefixOf
  Supported <- MCPrefix
  Danbooru = "danbooru"
  CacheKey <- MCCacheKey
  CacheKeyOf <- MCCacheKeyOf
  Purge <- NoPurge
  LockAttempts = 3
  FieldsAsPairs = FALSE
  EncryptionKey = TRUE
  CacheMayFail = FALSE
  LinkMayEnd = FALSE
  MaxResends = 0
  MaxCrashes = 0
  Attempts = 1
  MaxStalled = 1
  RenewalMayFail = FALSE
INVARIANTS
  InvalidGoesToDLQ
\* The system stops once every message is settled and every key expired.
CHECK_DEADLOCK FALSE
