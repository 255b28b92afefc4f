SPECIFICATION Spec
CONSTANTS
  t1 = t1
  t2 = t2
  c1 = c1
  c2 = c2
  NoTunnel = NoTunnel
  Tunnels <- OneTunnel
  Clients <- TwoClients
  Elevated <- OneClient
  Methods <- AllMethods
  Intersects <- All
  SubscribeMayFail = FALSE
  SlowStart = FALSE
  MaxCreated = 2
  MaxRestarts = 2
ACTION_CONSTRAINT Scenario
CHECK_DEADLOCK FALSE
INVARIANTS NoOrphans
