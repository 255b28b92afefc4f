---------------------------- MODULE NetworkRules ----------------------------
(***************************************************************************)
(* Decide and Validate against the rules of docs/AUTOMATIC_PROFILES.md, on *)
(* every policy with up to MaxNames trusted names and as many assignments. *)
(***************************************************************************)
EXTENDS ProfilePolicy, FiniteSets

CONSTANTS Ids, Names, MaxNames

ASSUME RulesAssumption == Nil \notin Ids /\ MaxNames \in Nat

VARIABLES policy, transport, ssid, available
rulesVars == <<policy, transport, ssid, available>>

Lists(S) == UNION {[1..n -> S] : n \in 0..MaxNames}
Targets == {TargetOff, TargetDefault} \cup {ForProfile(id) : id \in Ids}
Policies ==
    [Enabled : BOOLEAN, DefaultProfileId : Ids \cup {Nil}, WiFi : Targets, Cellular : {TargetOff},
     Ethernet : {TargetDefault}, TrustedSsids : Lists(Names),
     Assignments : Lists([Ssid : Names, ProfileId : Ids])]

RulesInit ==
    /\ policy \in {p \in Policies : Valid(p, 2 * MaxNames)}
    /\ transport = "WiFi" /\ ssid = Nil /\ available = {}

\* A network with its name, the profiles that still exist.
Observe ==
    /\ transport' \in Transports /\ ssid' \in Names \cup {Nil} /\ available' \in SUBSET Ids
    /\ UNCHANGED policy

RulesNext == Observe
RulesSpec == RulesInit /\ [][RulesNext]_rulesVars

-----------------------------------------------------------------------------
TrustedNames == {policy.TrustedSsids[i] : i \in DOMAIN policy.TrustedSsids}
Assigned(id) ==
    \E i \in DOMAIN policy.Assignments :
        policy.Assignments[i].Ssid = ssid /\ policy.Assignments[i].ProfileId = id
Outcome == Decide(policy, transport, ssid, available)

\* What the winning rule asks for, the lists read as sets.
Wanted(id) ==
    IF \E a \in Ids : Assigned(a) THEN Assigned(id)
    ELSE policy.WiFi = ForProfile(id) \/ (policy.WiFi = TargetDefault /\ policy.DefaultProfileId = id)

(* "Exact trusted name, exact assignment, other Wi-Fi", an unavailable     *)
(* name or profile holds and never falls back to another VPN, and the      *)
(* order in which the names were entered does not matter.  Guards against  *)
(* Decide's FirstOrDefault, its early returns and Validate's uniqueness.   *)
WiFiPriority ==
    policy.Enabled /\ transport = "WiFi" =>
        IF ssid = Nil /\ TrustedNames \cup {policy.Assignments[i].Ssid : i \in DOMAIN policy.Assignments} # {}
        THEN Outcome.hold
        ELSE IF ssid \in TrustedNames THEN Outcome = Use(Nil)
        ELSE IF \E id \in Ids : Wanted(id)
        THEN \A id \in Ids : Wanted(id) => Outcome = IF id \in available THEN Use(id) ELSE Hold
        ELSE Outcome = Use(Nil)
=============================================================================
