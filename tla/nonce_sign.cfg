SPECIFICATION Spec
CONSTANTS
  MaxThreads = 2
  Bits = 3
  Chunk = 2
  Jobs = {"first", "other"}
  AlgoOf <- MCAlgoOf
  None = None
  MaxPosted = 1
INVARIANTS EveryWinnerIsPosted
