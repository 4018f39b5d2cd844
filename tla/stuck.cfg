SPECIFICATION FairSpec
CONSTANTS
  Pkgs = {"k1"}
  Api = {"pull1"}
  Sizes = {1}
  Dead = {}
  Concurrency = 1
  MaxRetries = 1
  BackfillEnabled = TRUE
  BackfillBatch = 0
  PageSize = 1
  MaxFaults = 1
  MaxCrashes = 0
  MaxRequests = 1
  MaxLosses = 0
  NameOf <- MCNameOf
  VerOf <- MCVerOf
  Rank <- MCRank
  RowKeys <- MCRowKeys
  Alias <- MCAlias
  ObjectOf <- MCObjectOf
  Kind <- MCKind
  NoRow = NoRow
PROPERTY Converges
