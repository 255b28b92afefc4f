SPECIFICATION PartsSpec
CONSTANTS
  broadcast = broadcast
  dns4 = dns4
  other4 = other4
  dhcpLink = dhcpLink
  dhcpSite = dhcpSite
  router = router
  link = link
  dns6 = dns6
  other6 = other6
  Addr4 <- MCAddr4
  Addr6 <- MCAddr6
  LinkLocal <- MCLinkLocal
  Broadcast = broadcast
  DhcpLinkLocal = dhcpLink
  DhcpSiteLocal = dhcpSite
  RouterMulticast = router
  LocalAddr <- MCLocalAddr
  LocalPorts <- MCLocalPorts
  RemotePorts <- MCRemotePorts
  Configs <- MCConfigs
  Nil = Nil
  Ids = {id1, id2}
  Names = {n1, n2}
  MaxNames = 2
  TextStarts <- MCTextStarts
  TextLines <- MCTextLines
  MaxTextLines = 4
  HostAnswers <- MCHostAnswers
  ResolveTries = 2
  NumberRuns = {1, 2, 9}
  StringRuns = {3, 12}
  MaxRuns = 2
  LargestInt = 5
  Spelling <- MCSpelling
  ImportTexts <- MCImportTexts
  Connections = {"c1", "c2", "c3"}
  Elevated = {"c1", "c2"}
  LongestName = 4
  LongestDisplay = 6
  Fallback <- MCFallback
  ReservedNames <- MCReserved
  LastIndex = 4
  MaxProfileCalls = 3
  AdapterCallers = {x, y, z}
  MaxAdapterCalls = 4
  MaxAdapterLives = 3
  NoCaller = NoCaller
  DllThreads = {x, y}
  DllProcs = {"open", "close"}
  NoThread = NoThread
  MaxDllCalls = 4
  MaxDllFaults = 2
  PageSize = 2
  Images <- MCImages
CHECK_DEADLOCK FALSE
INVARIANTS WiFiPriority KillSwitch PacketsDecided ConfSafe AdaptersSafe DllSafe DriverUsable
