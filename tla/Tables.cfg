SPECIFICATION Spec
CONSTANTS
  MaxPool = 3
  MaxTyped = 1
  MaxGeneric = 4
  PageSize = 2
  StableKeys = {"foundations", "echoes", "elsewhere", "burning", "ember", "spark", "ward", "blaze",
                "cinder", "ash", "strike", "focus", "echo", "aura", "again", "other"}
  LargestDelta = 2
  BodySize = 4
  CopyLimit = 2
  HandSize = 2
  PrizeCount = 1
INVARIANTS
  DeductKeepsItsPromises
  AcceptedWorksStandUp
  SearchFindsEverythingOnce
  LoadedCardsCanBePlayed
  DealtMatchesStart
CHECK_DEADLOCK FALSE
