SPECIFICATION ListingSpec
CONSTANTS
  Packages = {"@koishijs/cli", "koishi"}
  Scoped = {"@koishijs/cli"}
  Order <- MCOrder
  Versions <- MCVersions
  BackfillBatch = 1
  MaxIndex = 4
  IntMax = 127
  DefaultPage = 2
  LargestPage = 3
  Texts <- MCTexts
  PageSizes = {1, 4}
  MaxWithdrawals = 1
  MaxRead = 3
CONSTRAINT MCApart
INVARIANTS
  NewestFirst
  LatestTagFirst
  BatchIsPrefix
  SkipsAreBounded
