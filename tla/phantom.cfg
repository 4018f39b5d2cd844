SPECIFICATION Spec
CONSTANTS
  Pkgs = {"s1"}
  Api = {}
  Sizes = {1}
  Dead = {}
  Concurrency = 1
  MaxRetries = 1
  BackfillEnabled = TRUE
  BackfillBatch = 0
  PageSize = 1
  MaxFaults = 0
  MaxCrashes = 1
  MaxRequests = 0
  MaxLosses = 0
  NameOf <- MCNameOf
  VerOf <- MCVerOf
  Rank <- MCRank
  RowKeys <- MCRowKeys
  Alias <- MCAlias
  ObjectOf <- MCObjectOf
  Kind <- MCKind
  NoRow = NoRow
INVARIANT OneRowPerObject
