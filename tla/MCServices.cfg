SPECIFICATION ServicesSpec
CONSTANTS
  c1 = c1  c2 = c2  c3 = c3  h1 = h1  h2 = h2
  Callers = {c1, c2, c3}
  Hosts = {h1, h2}
  HostOf <- TwoHosts
  Vault = Vault
  HostFree = 1
  HostCap = 2
  VaultFree = 2
  VaultCap = 3
  FailTTL = 3
  ExpireMayFail = FALSE
  MaxItems = 2
  MaxClock = 1
  Sweepers = {w1, w2}
  SWEEP_LIMIT = 1
  MaxRequests = 2
  MaxTroubles = 1
  Docs = {d1, d2}
  PageSize = 1
  MaxWrites = 3
  MaxFailures = 1
  Players = {p1, p2, p3}
  HostRequests = {r1}
  RoomLimit = 2
  NoSeat = NoSeat
  Cards = {1, 2, 3}
  AtStart = {1, 2}
  Tabs = {t1, t2}
  NoCard = NoCard
  POSITION_STEP = 4
  POSITION_MIN_GAP = 2
  MaxDrops = 4
INVARIANTS ServicesTypeOK GuessesAreBounded NothingTwice SeatsInOrder HandFits
PROPERTIES RefusalEnds  IndexCatchesUp DropLands
CHECK_DEADLOCK FALSE
