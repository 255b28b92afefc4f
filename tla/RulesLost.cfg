SPECIFICATION Spec
CONSTANTS
  Nil = Nil
  work = work
  home = home
  lan = lan
  cafe = cafe
  off = off
  cafeName = cafeName
  Profiles <- MCProfiles
  Networks <- MCNetworks
  NoNetwork = off
  NetTransport <- MCNetTransport
  NetSsid <- MCNetSsid
  Budgets <- LostBudgets
  OnDemand <- NoOnDemand
  Hooked <- NoProfiles
  Encrypted <- NoProfiles
  Policies <- TwoPolicies
  InitialSettings <- Persistent
  InitialServices <- OneMayRun
  OverlappingSaves = TRUE
CHECK_DEADLOCK FALSE
PROPERTIES RulesChangeOnlyByDialog
