SPECIFICATION MCSpec
CONSTANTS
  Listings = {l1, l2}
  None = None
  Difficulties = {1, 2}
  Threshold = 2
  MaxFailures = 2
  MaxHour = 1
  MaxShares = 3
  Settings = {"POOL_USER", "POOL_HOST", "PORT", "POOL_ALGO", "DONATE_BTC", "BLOCKED_WORDS", "BACKUP_CRON"}
  ReaderOf <- MCReaderOf
  Host = "POOL_HOST"
  Algo = "POOL_ALGO"
  MaxSteps = 2
  MaxOdd = 2
  Hosts = {h1, h2, h3}
  Nothing = Nothing
  Paths = {"home", "listing"}
  Listed = {"listing"}
  RefMax = 2
  SeenMax = 2
  MaxDay = 1
  MaxLoads = 3
  MaxSent = 2
INVARIANTS LedgerIsSound StartIsSound CountsAreBounded RefKeysAreBounded
PROPERTIES StopKeepsShares FlushComesToAnEnd
