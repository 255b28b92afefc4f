SPECIFICATION HostSpec
CONSTANTS
  NoConf = NoConf
  Torn = Torn
  Names = {a, b}
  Contents = {c}
  Clients = {k}
  MaxUser = 2
  SharingBase = 1
  MaxFaults = 1
  RingWriters = {x, y}
  RingLines = 2
  RingWrap = 2
  MaxShown = 3
  MaxWrites = 3
  MaxKills = 1
  UpdateUis = {"u"}
  OurVersion <- MCOur
  ReleaseLists <- MCLists
  ProgressSize = 2
  MaxUpdates = 2
  MaxUpdateFaults = 1
CHECK_DEADLOCK FALSE
INVARIANTS ConfigsKept RingFollowed UpdatesSafe
PROPERTIES StoreIsAtomic EverythingShows
