\* Two calls for any two of six messages: 'cat' under two spellings of the prefix
\* and under an API nobody serves, a query with the same cache key, another query,
\* a message without one.  Keys expire, the API, the validator and the cache may
\* fail, and one command of the two calls is executed twice.
SPECIFICATION Spec
CONSTANTS
  None = None
  j1 = j1
  j2 = j2
  j3 = j3
  j4 = j4
  w1 = w1
  w2 = w2
  m1 = m1
  m2 = m2
  m3 = m3
  m4 = m4
  m5 = m5
  m6 = m6
  Job = {j1, j2}
  Worker <- TwoWorkers
  WorkerOf <- MCWorkerOf
  Message = {m1, m2, m3, m4, m5, m6}
  Malformed = {m6}
  Query <- ManyQuery
  QueryOf <- ManyQueryOf
  Prefix <- ManyPrefix
  PrefixOf <- ManyPrefixOf
  Supported <- ManySupported
  Danbooru = "danbooru"
  CacheKey <- MCCacheKey
  CacheKeyOf <- MCCacheKeyOf
  Purge <- OwnPurge
  LockAttempts = 3
  FieldsAsPairs = TRUE
  EncryptionKey = TRUE
  CacheMayFail = TRUE
  LinkMayEnd = FALSE
  MaxResends = 1
  MaxCrashes = 0
  Attempts = 1
  MaxStalled = 1
  RenewalMayFail = FALSE
INVARIANTS
  TypeOK
  NoLockLeftBehind
  RejectsForCause
  QueryExclusion
  ReportedOnce
  CompletedIsAnswered
  ServedPostFits
  OneVerdict
PROPERTIES
  TurnedAwayForCause
\* The system stops once every message is settled and every key expired.
CHECK_DEADLOCK FALSE
