SPECIFICATION FairSpec
CONSTANTS
  Listings = {l1, l2}
  None = None
  HasCooldown = TRUE
  MaxBadSubmits = 1
  JobHistory = 2
  Difficulties = {1}
  FirstDifficulty = 1
  Slots = {1, 2}
  MaxJobs = 1
  MaxInFlight = 2
  MaxTimers = 1
INVARIANTS NothingMinesUnasked LastWordIsTheWish TheVisitorIsTold HashesTheSeatsWork
PROPERTIES WishIsServed
