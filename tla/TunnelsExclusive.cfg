SPECIFICATION Spec
CONSTANTS
  t1 = t1
  t2 = t2
  c1 = c1
  c2 = c2
  NoTunnel = NoTunnel
  Tunnels <- TwoTunnels
  Clients <- TwoClients
  Elevated <- NoClient
  Methods <- OnlyStart
  Intersects <- All
  SubscribeMayFail = FALSE
  SlowStart = FALSE
  MaxCreated = 2
  MaxRestarts = 0
CHECK_DEADLOCK FALSE
INVARIANTS IntersectingAreExclusive
