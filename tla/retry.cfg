SPECIFICATION Spec
CONSTANTS
  Pkgs = {"k1"}
  Api = {}
  Sizes = {1}
  Dead = {}
  Concurrency = 1
  MaxRetries = 2
  BackfillEnabled = TRUE
  BackfillBatch = 0
  PageSize = 1
  MaxFaults = 1
  MaxCrashes = 0
  MaxRequests = 0
  MaxLosses = 0
  NameOf <- MCNameOf
  VerOf <- MCVerOf
  Rank <- MCRank
  RowKeys <- MCRowKeys
  Alias <- MCAlias
  ObjectOf <- MCObjectOf
  Kind <- MCKind
  NoRow = NoRow
PROPERTY RetryReachesSync
