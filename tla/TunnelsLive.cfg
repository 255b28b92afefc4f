SPECIFICATION FairSpec
CONSTANTS
  t1 = t1
  t2 = t2
  c1 = c1
  c2 = c2
  NoTunnel = NoTunnel
  Tunnels <- OneTunnel
  Clients <- OneClient
  Elevated <- NoClient
  Methods <- StartStop
  Intersects <- All
  SubscribeMayFail = TRUE
  SlowStart = TRUE
  MaxCreated = 2
  MaxRestarts = 0
CHECK_DEADLOCK FALSE
INVARIANT TrackersSafe
PROPERTIES StartReturns IntersectingStops
