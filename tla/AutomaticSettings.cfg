SPECIFICATION ScenarioSpec
CONSTANTS
  Nil = Nil
  work = work
  home = home
  lan = lan
  cafe = cafe
  off = off
  cafeName = cafeName
  Profiles <- MCProfiles
  Networks <- MCNetworks
  NoNetwork = off
  NetTransport <- MCNetTransport
  NetSsid <- MCNetSsid
  Budgets <- SettingsBudgets
  OnDemand <- HomeOnWiFi
  Hooked <- NoProfiles
  Encrypted <- OnlyHome
  Policies <- TwoPolicies
  InitialSettings <- AnyDocument
  InitialServices <- OneMayRun
  OverlappingSaves = FALSE
CHECK_DEADLOCK FALSE
PROPERTIES ManualIntentRespected RulesChangeOnlyByDialog
