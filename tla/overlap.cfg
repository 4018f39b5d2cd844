SPECIFICATION Spec
CONSTANTS
  Pkgs = {"s1"}
  Api = {"pull1", "pull2"}
  Sizes = {1, 2}
  Dead = {}
  Concurrency = 1
  MaxRetries = 1
  BackfillEnabled = TRUE
  BackfillBatch = 0
  PageSize = 1
  MaxFaults = 1
  MaxCrashes = 0
  MaxRequests = 2
  MaxLosses = 0
  NameOf <- MCNameOf
  VerOf <- MCVerOf
  Rank <- MCRank
  RowKeys <- MCRowKeys
  Alias <- MCAlias
  ObjectOf <- MCObjectOf
  Kind <- MCKind
  NoRow = NoRow
INVARIANTS
  IInv
  JobsExclusive
PROPERTY ImplementsMirror
