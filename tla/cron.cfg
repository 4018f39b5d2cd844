SPECIFICATION FairSpec
CONSTANTS
  Pkgs = {"k1", "k2"}
  Api = {}
  Sizes = {1, 2}
  Dead = {}
  Concurrency = 1
  MaxRetries = 2
  BackfillEnabled = TRUE
  BackfillBatch = 1
  PageSize = 1
  MaxFaults = 1
  MaxCrashes = 1
  MaxRequests = 0
  MaxLosses = 1
  NameOf <- MCNameOf
  VerOf <- MCVerOf
  Rank <- MCRank
  RowKeys <- MCRowKeys
  Alias <- MCAlias
  ObjectOf <- MCObjectOf
  Kind <- MCKind
  NoRow = NoRow
INVARIANTS
  TypeOK
  RedirectBacked
  SavedSettled
  IndexAgrees
  Agreement
  ViewsAgree
PROPERTIES
  DownloadedOnce
  ImplementsMirror
  Converges
  RebootHeals
