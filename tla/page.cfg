SPECIFICATION MCSpec
CONSTANTS
  MaxThreads = 2
  Bits = 3
  Chunk = 2
  Jobs = {"first", "other"}
  AlgoOf <- MCAlgoOf
  None = None
  MaxPosted = 1
  MaxListings = 3
  Sockets = {s1, s2}
  Absent = Absent
  Entries = 2
  Threshold = 1
  Searches <- MCSearches
  Times = {1, 2}
  MaxScore = 2
  MaxOffset = 2
  MaxPolls = 2
INVARIANTS OneLoop SlicesAreDisjoint PostedSharesAreReal AllShowTheLastBoard ListsAreRight
PROPERTIES LatestJobIsHashed ShownNeverFalls
