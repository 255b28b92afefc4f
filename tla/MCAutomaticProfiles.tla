------------------------ MODULE MCAutomaticProfiles ------------------------
(***************************************************************************)
(* Instances of AutomaticProfiles for TLC: two profiles, a wired network,  *)
(* a Wi-Fi and no network, and scenarios that say how the application is   *)
(* found and how often each event may happen.                              *)
(***************************************************************************)
EXTENDS AutomaticProfiles, TLC

CONSTANTS work, home, lan, cafe, off, cafeName

MCProfiles == {work, home}
MCNetworks == {lan, cafe, off}
MCNetTransport == lan :> "Ethernet" @@ cafe :> "WiFi" @@ off :> "None"
MCNetSsid == lan :> Nil @@ cafe :> cafeName @@ off :> Nil

Rule(enabled, wifi, ethernet, trusted) ==
    [Enabled |-> enabled, DefaultProfileId |-> home, WiFi |-> wifi, Cellular |-> TargetDefault,
     Ethernet |-> ethernet, TrustedSsids |-> trusted, Assignments |-> <<>>]

\* One profile per network; the rules off.
PerNetwork == Rule(TRUE, TargetDefault, ForProfile(work), <<>>)
RulesOff == Rule(FALSE, TargetDefault, ForProfile(work), <<>>)
TwoPolicies == {PerNetwork, RulesOff}

Document(policy, persistent, suspended) ==
    [AutomaticProfiles |-> policy, PersistentTunnelService |-> persistent,
     SingleProfileOnDemandSuspended |-> suspended]
SwitchedOn == {Document(PerNetwork, FALSE, TRUE)}
SwitchedOff == {Document(RulesOff, FALSE, FALSE)}
EitherMode == {Document(PerNetwork, FALSE, TRUE), Document(PerNetwork, TRUE, TRUE)}
Persistent == {Document(RulesOff, TRUE, TRUE), Document(PerNetwork, TRUE, TRUE)}
AnyDocument == EitherMode \cup SwitchedOff

AllInactive == {[p \in MCProfiles |-> "Inactive"]}
OneMayRun == AllInactive \cup {(work :> "Active" @@ home :> "Inactive")}

HomeOnWiFi == work :> {} @@ home :> {"WiFi"}
NoOnDemand == [p \in MCProfiles |-> {}]
NoProfiles == {}
OnlyHome == {home}

Budget(events) == [k \in BudgetKinds |-> IF k \in DOMAIN events THEN events[k] ELSE 0]
Handover == Budget("net" :> 2 @@ "click" :> 1 @@ "rules" :> 1)
SavePage == Budget("net" :> 1 @@ "click" :> 1 @@ "save" :> 1 @@ "refresh" :> 1)
Legacy == Budget("net" :> 1 @@ "external" :> 1 @@ "click" :> 1 @@ "rules" :> 1
                 @@ "unreadable" :> 1 @@ "exit" :> 1)
OtherVpn == Budget("net" :> 1 @@ "click" :> 1 @@ "vpn" :> 1)
HandoverBudgets == {Handover, OtherVpn}
SettingsBudgets == {SavePage, Legacy}
LostBudgets == {Budget("rules" :> 1 @@ "save" :> 1)}

\* Each budget with the documents it is meant for.
ScenarioInit ==
    /\ Init
    /\ budget = SavePage => appSettings \in EitherMode
    /\ budget = Legacy => appSettings \in SwitchedOff
ScenarioSpec == ScenarioInit /\ [][Next]_vars
=============================================================================
