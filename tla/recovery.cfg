\* One message with two attempts and a worker whose client may end and which may
\* crash: up to three calls, each of which meets what the one before left in Redis.
SPECIFICATION FairSpec
CONSTANTS
  None = None
  j1 = j1
  j2 = j2
  j3 = j3
  j4 = j4
  w1 = w1
  w2 = w2
  m1 = m1
  m2 = m2
  m3 = m3
  m4 = m4
  m5 = m5
  m6 = m6
  Job = {j1, j2, j3}
  Worker <- OneWorker
  WorkerOf <- OneWorkerOf
  Message = {m1}
  Malformed = {}
  Query <- MCQuery
  QueryOf <- MCQueryOf
  Prefix <- MCPrefix
  PrefixOf <- MCPrefixOf
  Supported <- MCPrefix
  Danbooru = "danbooru"
  CacheKey <- MCCacheKey
  CacheKeyOf <- MCCacheKeyOf
  Purge <- NoPurge
  LockAttempts = 2
  FieldsAsPairs = FALSE
  EncryptionKey = TRUE
  CacheMayFail = TRUE
  LinkMayEnd = TRUE
  MaxResends = 0
  MaxCrashes = 1
  Attempts = 2
  MaxStalled = 1
  RenewalMayFail = FALSE
PROPERTIES
  CallsAdvance
  KeepsPromises
  CallsReturn
  MessagesSettle
\* The system stops once every message is settled and every key expired.
CHECK_DEADLOCK FALSE
