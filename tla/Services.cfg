SPECIFICATION PartsSpec
CONSTANTS
  alice = alice
  bob = bob
  Nobody = Nobody
  Owners <- TwoOwners
  Procs <- OneCommand
  MaxOps = 4
  MaxFailures = 1
  MaxExits = 1
  Launchers = {l1, l2}
  MaxManagerStops = 1
  Sessions = {"s1"}
  SessionUser <- MCSessionUser
  UiLoops = {l1, l2}
  OperatorUi = FALSE
  MaxLogs = 2
  MaxUiExits = 1
  MaxUiFaults = 1
CHECK_DEADLOCK FALSE
INVARIANTS SessionsSafe
PROPERTIES CopiesKept StopIsFinal SessionsServed LaunchSettles OperationsReturn
