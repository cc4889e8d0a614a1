SPECIFICATION HubSpec
CONSTANTS
  c1 = c1  c2 = c2  home = home  None = None
  Clients <- MCClients
  Addresses = {home}
  AddrOf <- MCAddrOf
  Conns = {k1}
  Listings = {l1, l2}
  MaxClients = 2
  MaxPerAddress = 2
  MinersPerConnection = 2
  MaxConnections = 1
  StartingCapacity = 2
  MinCapacity = 2
  TuneStep = 1
  TuneSeconds = 1
  TargetShareSeconds = 1
  MaxWindow = 0
  HasCooldown = FALSE
  HasBackoff = FALSE
  DbMayFail = TRUE
  JobIds = {j1}
  JobHistory = 1
  MaxBadSubmits = 1
  Difficulties = {1}
  FirstDifficulty = 1
  MaxSessions = 2
  MaxSubmits = 2
  MaxUnflushed = 1
SYMMETRY HubSymmetry
ACTION_CONSTRAINT FewReconnect
INVARIANTS WorkIsCurrent NothingIsOrphaned
PROPERTIES AcceptedIsCreditedAsSent BrakeHolds
