SPECIFICATION FairSpec
CONSTANTS
  Nil = Nil
  work = work
  home = home
  lan = lan
  cafe = cafe
  off = off
  cafeName = cafeName
  Profiles <- MCProfiles
  Networks <- MCNetworks
  NoNetwork = off
  NetTransport <- MCNetTransport
  NetSsid <- MCNetSsid
  Budgets <- HandoverBudgets
  OnDemand <- NoOnDemand
  Hooked <- NoProfiles
  Encrypted <- NoProfiles
  Policies <- TwoPolicies
  InitialSettings <- SwitchedOn
  InitialServices <- OneMayRun
  OverlappingSaves = FALSE
CHECK_DEADLOCK FALSE
INVARIANTS SessionSafe OwnershipIsAutomatic QueuedClickOwnsNothing OwnedTunnelIsAlone
PROPERTIES ManualIntentRespected GateComesFree AutomationConverges
