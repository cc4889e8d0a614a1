SPECIFICATION BoardFairSpec
CONSTANTS
  MaxListings = 1
  Sockets = {s1, s2}
  Absent = Absent
  Entries = 1
  Threshold = 1
  Searches <- MCSearches
  Times = {1}
  MaxScore = 1
  MaxOffset = 0
  MaxPolls = 0
PROPERTIES NextBroadcastReachesThem
