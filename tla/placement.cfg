SPECIFICATION FairSpec
CONSTANTS
  c1 = c1  c2 = c2  c3 = c3  home = home  away = away  None = None
  Clients <- Pair
  Addresses <- MCAddresses
  AddrOf <- PairAddrOf
  Conns = {k1, k2}
  Listings = {l1, l2}
  MaxClients = 2
  MaxPerAddress = 2
  MinersPerConnection = 2
  MaxConnections = 2
  StartingCapacity = 1
  MinCapacity = 1
  TuneStep = 1
  TuneSeconds = 1
  TargetShareSeconds = 4
  MaxWindow = 1
  HasCooldown = TRUE
  HasBackoff = TRUE
  DbMayFail = TRUE
INVARIANTS TablesAgree
PROPERTIES SeatsStayPut EachSocketIsALink QuietSiteHoldsNoSocket
