\* One caller of withLock and one processRequest; half the code's 30, 10 and 10
\* seconds, one unit for a Redis command and two for an API's answer.
SPECIFICATION FairSpec
CONSTANTS
  None = None
  Caller = {b, p}
  Beating = {b}
  TTL = 15
  Heartbeat = 5
  Timeout = 5
  Retries = 3
  Delay = 1
  BodyTime = 2
  MaxMissed = 3
INVARIANTS
  HeldWhileBeating
  KeptThroughFetch
PROPERTIES
  ImplementsLease
  KeyComesFree
