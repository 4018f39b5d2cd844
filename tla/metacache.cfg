SPECIFICATION FairSpec
CONSTANTS
  Requests = {r1, r2}
  NoRequest = NoRequest
  Ttl = 2
  CacheSoftTTL = 1
  MaxStall = 1
  MaxNow = 4
INVARIANTS
  CacheInv
  AnswersAreRecent
PROPERTIES
  CachesMoveForward
  RequestsReturn
