\* Two calls of any methods and one invalidation, with each backend, and with a
\* CacheService, a Redis client or neither given to BaseApiService; one failing
\* command or foreign write.
SPECIFICATION Spec
CONSTANTS
  None = None
  Garbled = Garbled
  Thrown = Thrown
  Ignored = Ignored
  Call = {c1, c2}
  Purger = {p1}
  Request <- MCRequest
  PurgeRequest <- MCPurgeRequest
  Api = {"danbooru", "gelbooru"}
  Query <- MCQuery
  Text <- MCText
  Trimmed <- MCTrimmed
  Hash <- MCHash
  Hashed <- MCHashed
  Number = {1}
  Tags = {"t"}
  Backend = {"redis", "memcached", "class"}
  Injected = {"cache", "redis", "none"}
  MaxFaults = 1
INVARIANTS
  ServedFits
  PurgedIsGone
  FoundIsReturned
\* The system stops when every call has returned.
CHECK_DEADLOCK FALSE
