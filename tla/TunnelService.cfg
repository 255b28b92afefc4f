SPECIFICATION PartsSpec
CONSTANTS
  Families <- BothFamilies
  Events <- ThreeEvents
  MaxFailures = 2
  StartedSize = 4
  ErrorsSize = 2
  Others = {eth, wlan}
  NetRoutes <- MCNetRoutes
  NetAddrs = {"a1"}
  NetConfigs <- MCNetConfigs
  DefaultRoute = "default"
  Mtus = {5, 9}
  Overhead = 3
  MinMtu = 4
  NetFamily = "v4"
  MaxTries = 1
  MaxWeather = 2
  MaxNetFaults = 2
  MaxLog = 3
  LineLengths = {1, 2, 4}
  LogsFound = {0, 2, 4}
  PeerBytes <- MCPeers
  MaxCounter = 3
  MaxProcesses = 2
  MaxFileFaults = 2
CHECK_DEADLOCK FALSE
INVARIANTS ServiceSafe FilesWhole CountersSaturate
PROPERTIES NetConfigured ProcessEnds
