SPECIFICATION PartsSpec
CONSTANTS
  a = a
  b = b
  NoCaller = NoCaller
  Callers <- Two
  PipeCapacity = 1
  MaxChanges = 3
  MaxRequests = 2
  MaxCancels = 1
  Tunnels = {"t"}
  MaxVersions = 2
  MaxClicks = 1
  MaxUiErrors = 1
  MaxPosted = 2
  MaxNotes = 2
CHECK_DEADLOCK FALSE
INVARIANTS ProtocolSafe
PROPERTIES CallsReturn UiFollows EditComesBack
