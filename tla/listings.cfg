SPECIFICATION Spec
CONSTANTS
  i1 = i1  i2 = i2  t1 = t1  t2 = t2
  Ids = {i1, i2}
  Tabs = {t1, t2}
  None = None
  Targets = {"site", "handle"}
  Handles = {"handle"}
  Names = {"plain", "blocked"}
  Blocked = {"blocked"}
  Said <- MCSaid
  HasProxy = TRUE
  HasMinimum = TRUE
SYMMETRY IdSymmetry
INVARIANTS OneListingEach TokenHasAHome
PROPERTIES IconIsOwnAndEarned
