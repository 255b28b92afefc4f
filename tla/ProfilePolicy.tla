--------------------------- MODULE ProfilePolicy ---------------------------
(***************************************************************************)
(* The network rules of WireRoute (AutomaticProfilePolicy.cs): which saved *)
(* profile, if any, the current physical network asks for.  A policy is a  *)
(* record with the fields of the C# record.  Wi-Fi names and profile ids   *)
(* are opaque values; Nil is C#'s null.                                    *)
(***************************************************************************)
EXTENDS Naturals, Sequences

CONSTANT Nil

Transports == {"None", "Other", "WiFi", "Cellular", "Ethernet"}

\* The three kinds of ProfileTarget.
TargetOff == [Kind |-> "Off", ProfileId |-> Nil]
TargetDefault == [Kind |-> "Default", ProfileId |-> Nil]
ForProfile(id) == [Kind |-> "Profile", ProfileId |-> id]

NeedsWiFiNames(policy) == policy.TrustedSsids # <<>> \/ policy.Assignments # <<>>

-----------------------------------------------------------------------------
(* Validate: every exact name once, at most maxNames of them, and a saved  *)
(* profile wherever an action names one.  The limits on a single name      *)
(* (non-empty, one line, 32 bytes) are limits on opaque values.            *)

RuleNames(policy) ==
    policy.TrustedSsids \o [i \in DOMAIN policy.Assignments |-> policy.Assignments[i].Ssid]

Valid(policy, maxNames) ==
    LET names == RuleNames(policy)
    IN  /\ Len(names) <= maxNames
        /\ \A i, j \in DOMAIN names : names[i] = names[j] => i = j
        /\ \A i \in DOMAIN policy.Assignments : policy.Assignments[i].ProfileId # Nil
        /\ \A t \in {policy.WiFi, policy.Cellular, policy.Ethernet} :
              t.Kind = "Profile" => t.ProfileId # Nil

-----------------------------------------------------------------------------
Hold == [hold |-> TRUE, profile |-> Nil]
Use(id) == [hold |-> FALSE, profile |-> id]

Trusts(policy, ssid) == \E i \in DOMAIN policy.TrustedSsids : policy.TrustedSsids[i] = ssid

\* Assignments.FirstOrDefault(a => a.Ssid.Equals(ssid))
FirstAssignment(policy, ssid) ==
    LET hits == {i \in DOMAIN policy.Assignments : policy.Assignments[i].Ssid = ssid}
    IN  IF hits = {} THEN Nil
        ELSE policy.Assignments[CHOOSE i \in hits : \A j \in hits : i <= j].ProfileId

WiFiTarget(policy, ssid) ==
    LET assigned == FirstAssignment(policy, ssid)
    IN  IF assigned = Nil THEN policy.WiFi ELSE ForProfile(assigned)

\* Mutant: a removed profile falls back to the default one.
ResolveFallsBack(policy, target, available) ==
    IF target.Kind = "Off" THEN Use(Nil)
    ELSE IF target.Kind = "Profile" /\ target.ProfileId \in available THEN Use(target.ProfileId)
    ELSE IF policy.DefaultProfileId \in available THEN Use(policy.DefaultProfileId) ELSE Hold

Resolve(policy, target, available) ==
    LET id == CASE target.Kind = "Off" -> Nil
                [] target.Kind = "Default" -> policy.DefaultProfileId
                [] target.Kind = "Profile" -> target.ProfileId
    IN  IF id = Nil \/ id \in available THEN Use(id) ELSE Hold

(* Decide: Use(id) asks for profile id, Use(Nil) for no VPN, Hold for      *)
(* leaving the connection as it is.                                        *)
Decide(policy, transport, ssid, available) ==
    IF ~policy.Enabled \/ transport \in {"None", "Other"} THEN Hold
    ELSE IF transport = "Ethernet" THEN Resolve(policy, policy.Ethernet, available)
    ELSE IF transport = "Cellular" THEN Resolve(policy, policy.Cellular, available)
    ELSE IF NeedsWiFiNames(policy) /\ ssid = Nil THEN Hold
    ELSE IF Trusts(policy, ssid) THEN Use(Nil)
    ELSE Resolve(policy, WiFiTarget(policy, ssid), available)
=============================================================================
