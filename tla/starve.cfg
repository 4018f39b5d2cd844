SPECIFICATION FairSpec
CONSTANTS
  Pkgs = {"k1", "k2", "k3"}
  Api = {}
  Sizes = {1}
  Dead = {"k2", "k3"}
  Concurrency = 1
  MaxRetries = 1
  BackfillEnabled = TRUE
  BackfillBatch = 1
  PageSize = 1
  MaxFaults = 0
  MaxCrashes = 0
  MaxRequests = 0
  MaxLosses = 0
  NameOf <- MCNameOf
  VerOf <- MCVerOf
  Rank <- MCRank
  RowKeys <- MCRowKeys
  Alias <- MCAlias
  ObjectOf <- MCObjectOf
  Kind <- MCKind
  NoRow = NoRow
PROPERTY ConvergesToAll
