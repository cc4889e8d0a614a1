SPECIFICATION HubSpec
CONSTANTS
  c1 = c1  c2 = c2  home = home  None = None
  Clients <- MCClients
  Addresses = {home}
  AddrOf <- MCAddrOf
  Conns = {k1, k2}
  Listings = {l1}
  MaxClients = 2
  MaxPerAddress = 2
  MinersPerConnection = 2
  MaxConnections = 2
  StartingCapacity = 1
  MinCapacity = 1
  TuneStep = 1
  TuneSeconds = 1
  TargetShareSeconds = 1
  MaxWindow = 0
  HasCooldown = FALSE
  HasBackoff = FALSE
  DbMayFail = FALSE
  JobIds = {j1, j2}
  JobHistory = 1
  MaxBadSubmits = 1
  Difficulties = {1, 2}
  FirstDifficulty = 1
  MaxSessions = 2
  MaxSubmits = 0
  MaxUnflushed = 0
SYMMETRY HubSymmetry
INVARIANTS WorkIsCurrent
