---------------------- MODULE AutomaticProfilesProofs ----------------------
(***************************************************************************)
(* Proofs about AutomaticProfiles, for any set of profiles, networks and   *)
(* policies and any budget of environment events.                          *)
(***************************************************************************)
EXTENDS AutomaticProfiles, TLAPS

(* The session operators keep the type of a session.                       *)
LEMMA SessionTypes ==
    ASSUME NEW s \in Sessions, NEW id \in Identities
    PROVE  /\ NewSession \in Sessions
           /\ ObserveNetwork(s, id) \in Sessions
           /\ \A e \in BOOLEAN : SettingsChanged(s, e) \in Sessions
           /\ ManualControl(s) \in Sessions
           /\ PauseAfterFailure(s) \in Sessions
           /\ Disconnected(s) \in Sessions
           /\ \A p \in Profiles, r \in Nat, e \in BOOLEAN : Connected(s, p, r, e) \in Sessions
           /\ Stamp(s) \in Nat \X Nat
<1>1. <<NoNetwork, Nil>> \in Identities
  BY NetworksAssumption DEF Identities
<1>2. NewSession \in Sessions
  BY <1>1 DEF Sessions, NewSession, MaybeProfile
<1>f. /\ s.OwnedProfileId \in MaybeProfile /\ s.NetworkIdentity \in Identities
      /\ s.Revision + 1 \in Nat /\ s.Generation + 1 \in Nat /\ Nil \in MaybeProfile
  BY DEF Sessions, MaybeProfile
<1>3. ObserveNetwork(s, id) \in Sessions
  BY <1>f, Zenon DEF Sessions, ObserveNetwork
<1>4. ASSUME NEW e \in BOOLEAN PROVE SettingsChanged(s, e) \in Sessions
  <2>1. (IF e THEN s.OwnedProfileId ELSE Nil) \in MaybeProfile
    BY <1>f
  <2> QED
    BY <1>f, <2>1, Zenon DEF Sessions, SettingsChanged
<1>5. ManualControl(s) \in Sessions
  BY <1>f, Zenon DEF Sessions, ManualControl
<1>6. PauseAfterFailure(s) \in Sessions /\ Disconnected(s) \in Sessions
  BY <1>f, Zenon DEF Sessions, PauseAfterFailure, Disconnected
<1>7. ASSUME NEW p \in Profiles, NEW r \in Nat, NEW e \in BOOLEAN
      PROVE  Connected(s, p, r, e) \in Sessions
  BY DEF Sessions, Connected, MaybeProfile
<1>8. Stamp(s) \in Nat \X Nat
  BY DEF Sessions, Stamp
<1> QED
  BY <1>2, <1>3, <1>4, <1>5, <1>6, <1>7, <1>8

(* The identity of the current network is an identity.                     *)
LEMMA IdentityType == TypeOK => Identity \in Identities /\ Seen \in Sessions
<1> SUFFICES ASSUME TypeOK PROVE Identity \in Identities /\ Seen \in Sessions
  OBVIOUS
<1>1. Identity \in Identities
  BY NetworksAssumption DEF Identities, Identity, Ssid, TypeOK
<1> QED
  BY <1>1, SessionTypes DEF TypeOK, Seen

(* A decision names a profile or none.                                     *)
LEMMA DecisionType == TypeOK => Decision.profile \in MaybeProfile
<1> SUFFICES ASSUME TypeOK PROVE Decision.profile \in MaybeProfile
  OBVIOUS
<1>1. Ssid \in {NetSsid[m] : m \in Networks} \cup {Nil} /\ Policy \in Policies
  BY DEF TypeOK, Ssid, Policy, Settings
<1> QED
  BY <1>1, PolicyAssumption DEF TypeOK, Decision

(* The initial states are of the right type.                               *)
LEMMA InitTypeOK == Init => TypeOK
<1> SUFFICES ASSUME Init PROVE TypeOK
  OBVIOUS
<1> USE DEF Init
<1>1. NewSession \in Sessions
  BY NetworksAssumption DEF Identities, Sessions, NewSession, MaybeProfile
<1>2. /\ net \in Networks /\ otherVpn \in BOOLEAN
      /\ svc \in [Profiles -> ServiceStates] /\ persistentSvc \in SUBSET Profiles
      /\ session \in Sessions
      /\ appSettings \in Settings /\ disk \in Settings
      /\ item \in [Profiles -> ServiceStates]
  BY <1>1, PolicyAssumption
<1>3. /\ modal \in {"none", "held", "message", "rules", "confirm"} /\ app \in {"running", "ended"}
      /\ holder \in {"none", "auto", "manual", "demand"} /\ step \in Steps
      /\ click \in Clicks \cup {NoClick}
      /\ op \in Commands \cup {NoCommand} /\ applyOp \in Commands \cup {NoCommand}
      /\ pending \in Identities \cup {Nil} /\ settled \in BOOLEAN /\ backoff \in BOOLEAN
      /\ save \in Saves \cup {NoSave}
  BY DEF Steps
<1>6. waiters \in Seq(Clicks)
  OBVIOUS
<1>4. auto \in [previous : MaybeProfile, desired : MaybeProfile, stamp : Nat \X Nat]
  BY DEF NoAuto, MaybeProfile
<1>5. /\ demand \in [profile : Profiles, intent : {"start", "stop"}] \cup {NoDemand}
      /\ dialog \in [pc : {"saving"}, queued : BOOLEAN, settings : Settings] \cup {NoDialog}
      /\ lastCommand \in [Profiles -> {"none", "auto", "manual", "demand", "apply"}]
      /\ manualHold \in BOOLEAN /\ failures \in Nat
      /\ budget \in [BudgetKinds -> Nat]
  BY BudgetAssumption
<1> QED
  BY <1>2, <1>3, <1>4, <1>5, <1>6 DEF TypeOK

-----------------------------------------------------------------------------
(* What the handlers know about their own locals where they use them.      *)
Locals ==
    /\ holder = "manual" => click \in Clicks
    /\ holder = "demand" => demand.profile \in Profiles
    /\ applyOp # NoCommand => save.pc \in {"applying", "restoring"}
    /\ modal = "confirm" => save.pc = "confirm"

TypeInv == TypeOK /\ Locals

(* Leaving the gate keeps the types of what the gate holder owns.          *)
LEMMA ReleaseTypes ==
    ASSUME TypeInv, Release
    PROVE  /\ holder' \in {"none", "manual"} /\ step' \in Steps /\ waiters' \in Seq(Clicks)
           /\ auto' \in [previous : MaybeProfile, desired : MaybeProfile, stamp : Nat \X Nat]
           /\ click' \in Clicks \cup {NoClick} /\ (holder' = "manual" => click' \in Clicks)
           /\ demand' \in [profile : Profiles, intent : {"start", "stop"}] \cup {NoDemand}
           /\ op' \in Commands \cup {NoCommand}
<1>1. NoAuto \in [previous : MaybeProfile, desired : MaybeProfile, stamp : Nat \X Nat]
  BY DEF NoAuto, MaybeProfile
<1>2. CASE waiters = <<>>
  BY <1>1, <1>2 DEF Release, TypeInv, TypeOK, Steps
<1>3. CASE waiters # <<>>
  <2>1. Head(waiters) \in Clicks /\ Tail(waiters) \in Seq(Clicks)
    BY <1>3 DEF TypeInv, TypeOK
  <2> QED
    BY <1>1, <1>3, <2>1 DEF Release, Steps
<1> QED
  BY <1>2, <1>3

(* ChangeLocalProfileState sends a well-formed command, or none.           *)
LEMMA ChangeTypes ==
    ASSUME TypeInv, NEW p \in Profiles, NEW by \in {"auto", "manual", "demand"},
           ChangeLocalProfileState(p, by)
    PROVE  /\ step' \in Steps /\ op' \in Commands \cup {NoCommand}
           /\ item' \in [Profiles -> ServiceStates]
           /\ lastCommand' \in [Profiles -> {"none", "auto", "manual", "demand", "apply"}]
<1>1. ASSUME NEW k \in {"start", "stop"}, NEW b \in BOOLEAN PROVE Command(k, p, b) \in Commands
  BY DEF Command, Commands
<1>2. (svc[p] # "Active" /\ appSettings.PersistentTunnelService) \in BOOLEAN
  OBVIOUS
<1> QED
  BY <1>1, <1>2 DEF ChangeLocalProfileState, TypeInv, TypeOK, Steps, ServiceStates

(* Every step of the evaluator preserves the types.                        *)
LEMMA EvaluatorTypes == TypeInv /\ Evaluator => TypeInv'
<1> SUFFICES ASSUME TypeInv, Evaluator PROVE TypeInv'
  OBVIOUS
<1> USE DEF envVars, svcVars, gateVars, timeVars, saveVars, docVars, histVars
<1>1. /\ Seen \in Sessions /\ Identity \in Identities
      /\ ManualControl(Seen) \in Sessions /\ PauseAfterFailure(Seen) \in Sessions
      /\ PauseAfterFailure(session) \in Sessions
      /\ Decision.profile \in MaybeProfile /\ Stamp(Seen) \in Nat \X Nat
      /\ Seen.OwnedProfileId \in MaybeProfile
  <2>1. Seen \in Sessions /\ Identity \in Identities /\ session \in Sessions
    BY IdentityType DEF TypeInv, TypeOK
  <2>2. Seen.OwnedProfileId \in MaybeProfile
    BY <2>1 DEF Sessions
  <2>3. PauseAfterFailure(session) \in Sessions
    BY <2>1, SessionTypes
  <2>4. ManualControl(Seen) \in Sessions /\ PauseAfterFailure(Seen) \in Sessions /\ Stamp(Seen) \in Nat \X Nat
    BY <2>1, SessionTypes
  <2> QED
    BY <2>1, <2>2, <2>3, <2>4, DecisionType DEF TypeInv
<1>2. CASE EvaluateUnstable
  <2>1. pending' \in Identities \cup {Nil} /\ settled' \in BOOLEAN /\ session' \in Sessions
    BY <1>1, <1>2 DEF EvaluateUnstable
  <2>2. failures' \in Nat
    BY <1>2 DEF EvaluateUnstable, TypeInv, TypeOK
  <2> QED
    BY <1>2, <2>1, <2>2 DEF EvaluateUnstable, TypeInv, TypeOK, Locals
<1>3. CASE EvaluateHolds
  BY <1>1, <1>3 DEF EvaluateHolds, TypeInv, TypeOK, Locals
<1>4. CASE EvaluateStoppedOutside
  BY <1>1, <1>4 DEF EvaluateStoppedOutside, TypeInv, TypeOK, Locals
<1>5. CASE EvaluateRejects
  BY <1>1, <1>5 DEF EvaluateRejects, TypeInv, TypeOK, Locals
<1>6. CASE EvaluateStops
  <2>1. Seen.OwnedProfileId \in Profiles
    BY <1>1, <1>6 DEF EvaluateStops, MustStop, MaybeProfile
  <2>2. /\ step' \in Steps /\ op' \in Commands \cup {NoCommand}
        /\ item' \in [Profiles -> ServiceStates]
        /\ lastCommand' \in [Profiles -> {"none", "auto", "manual", "demand", "apply"}]
    BY <1>6, <2>1, ChangeTypes DEF EvaluateStops
  <2>3. auto' \in [previous : MaybeProfile, desired : MaybeProfile, stamp : Nat \X Nat]
    BY <1>1, <1>6 DEF EvaluateStops
  <2> QED
    BY <1>1, <1>6, <2>2, <2>3 DEF EvaluateStops, TypeInv, TypeOK, Locals
<1>7. CASE EvaluateStarts
  <2>1. Decision.profile \in Profiles
    BY <1>1, <1>7 DEF EvaluateStarts, MustStart, MaybeProfile
  <2>2. /\ step' \in Steps /\ op' \in Commands \cup {NoCommand}
        /\ item' \in [Profiles -> ServiceStates]
        /\ lastCommand' \in [Profiles -> {"none", "auto", "manual", "demand", "apply"}]
    BY <1>7, <2>1, ChangeTypes DEF EvaluateStarts
  <2>3. auto' \in [previous : MaybeProfile, desired : MaybeProfile, stamp : Nat \X Nat]
    BY <1>1, <1>7 DEF EvaluateStarts, MaybeProfile
  <2> QED
    BY <1>1, <1>7, <2>2, <2>3 DEF EvaluateStarts, TypeInv, TypeOK, Locals
<1>8. CASE AutomaticStopped
  <2> DEFINE s == Disconnected(session)
             seen == ObserveNetwork(s, Identity)
  <2>1. s \in Sessions /\ seen \in Sessions
    <3>1. s \in Sessions
      BY <1>1, SessionTypes DEF TypeInv, TypeOK
    <3> QED
      BY <1>1, <3>1, SessionTypes
  <2>2. app = "running" /\ holder = "auto"
    BY <1>8 DEF AutomaticStopped, Stopping
  <2>3. UNCHANGED <<envVars, svcVars, docVars, modal, app, timeVars, saveVars, dialog, manualHold, budget>>
    BY <1>8 DEF AutomaticStopped
  <2>4. CASE svc[auto.previous] # "Inactive"
    <3>1. session' = PauseAfterFailure(session) /\ failures' = failures + 1
          /\ Release /\ UNCHANGED <<item, lastCommand>>
      BY <1>8, <2>4 DEF AutomaticStopped
    <3> QED
      BY <1>1, <2>3, <3>1, ReleaseTypes DEF TypeInv, TypeOK, Locals
  <2>5. CASE svc[auto.previous] = "Inactive" /\ auto.desired # Nil /\ svc[auto.desired] # "Active"
             /\ CanApplyAutomaticSwitch(seen, auto.stamp, auto.desired, TRUE)
    <3>1. /\ session' = seen /\ failures' = failures
          /\ auto' = [auto EXCEPT !.previous = Nil]
          /\ ChangeLocalProfileState(auto.desired, "auto")
          /\ UNCHANGED <<holder, waiters, click, demand>>
      BY <1>8, <2>5 DEF AutomaticStopped
    <3>2. auto.desired \in Profiles
      BY <2>5 DEF TypeInv, TypeOK, MaybeProfile
    <3>3. /\ step' \in Steps /\ op' \in Commands \cup {NoCommand}
          /\ item' \in [Profiles -> ServiceStates]
          /\ lastCommand' \in [Profiles -> {"none", "auto", "manual", "demand", "apply"}]
      BY <3>1, <3>2, ChangeTypes
    <3>4. auto' \in [previous : MaybeProfile, desired : MaybeProfile, stamp : Nat \X Nat]
      BY <3>1 DEF TypeInv, TypeOK, MaybeProfile
    <3> QED
      BY <2>1, <2>2, <2>3, <3>1, <3>3, <3>4 DEF TypeInv, TypeOK, Locals
  <2>6. CASE svc[auto.previous] = "Inactive"
             /\ ~(auto.desired # Nil /\ svc[auto.desired] # "Active"
                  /\ CanApplyAutomaticSwitch(seen, auto.stamp, auto.desired, TRUE))
    <3>1. /\ session' \in {seen, s} /\ failures' \in {failures, 0}
          /\ Release /\ UNCHANGED <<item, lastCommand>>
      BY <1>8, <2>6 DEF AutomaticStopped
    <3> QED
      BY <2>1, <2>3, <3>1, ReleaseTypes DEF TypeInv, TypeOK, Locals
  <2> QED
    BY <2>4, <2>5, <2>6
<1>9. CASE AutomaticStarted
  <2>1. Connected(session, auto.desired, auto.stamp[1], Enabled) \in Sessions
    BY DEF Connected, Sessions, TypeInv, TypeOK
  <2> QED
    BY <1>1, <1>9, <2>1, ReleaseTypes DEF AutomaticStarted, TypeInv, TypeOK, Locals
<1>10. CASE AutomaticFailed
  <2>1. op \in Commands
    BY <1>10 DEF AutomaticFailed, CommandCanFail, InPhase, NoCommand, TypeInv, TypeOK
  <2>2. item' \in [Profiles -> ServiceStates]
    BY <1>10, <2>1 DEF AutomaticFailed, TypeInv, TypeOK, Commands
  <2> QED
    BY <1>1, <1>10, <2>2, ReleaseTypes DEF AutomaticFailed, TypeInv, TypeOK, Locals
<1> QED
  BY <1>2, <1>3, <1>4, <1>5, <1>6, <1>7, <1>8, <1>9, <1>10 DEF Evaluator

(* So do the steps of the gate holder's command.                           *)
LEMMA GateCommandTypes == TypeInv /\ GateCommand => TypeInv'
<1> SUFFICES ASSUME TypeInv, GateCommand PROVE TypeInv'
  OBVIOUS
<1> USE DEF envVars, svcVars, gateVars, timeVars, saveVars, docVars, histVars
<1>1. op \in Commands
  BY DEF GateCommand, GateApproved, GateEffect, GateSucceeded, Approvable, CommandEffect,
         CommandSucceeded, InPhase, NoCommand, TypeInv, TypeOK
<1>2. ASSUME NEW ph \in {"prompt", "elevated", "waiting", "done"} PROVE [op EXCEPT !.phase = ph] \in Commands
  BY <1>1 DEF Commands
<1>3. op.profile \in Profiles
  BY <1>1 DEF Commands
<1>4. CASE GateApproved
  BY <1>2, <1>4 DEF GateApproved, TypeInv, TypeOK, Locals
<1>5. CASE GateEffect
  BY <1>2, <1>3, <1>5 DEF GateEffect, CommandEffect, TypeInv, TypeOK, Locals, ServiceStates
<1>6. CASE GateSucceeded
  BY <1>2, <1>3, <1>6 DEF GateSucceeded, TypeInv, TypeOK, Locals
<1> QED
  BY <1>4, <1>5, <1>6 DEF GateCommand

(* So do manual clicks, the legacy evaluator and the messages.             *)
LEMMA InteractiveTypes == TypeInv /\ Interactive => TypeInv'
<1> SUFFICES ASSUME TypeInv, Interactive PROVE TypeInv'
  OBVIOUS
<1> USE DEF envVars, svcVars, gateVars, timeVars, saveVars, docVars, histVars
<1>1. CASE ManualResumes
  <2>1. click.profile \in Profiles
    BY <1>1 DEF ManualResumes, TypeInv, Locals, Clicks
  <2>2. CASE svc[click.profile] = click.observed
    <3>1. /\ step' \in Steps /\ op' \in Commands \cup {NoCommand}
          /\ item' \in [Profiles -> ServiceStates]
          /\ lastCommand' \in [Profiles -> {"none", "auto", "manual", "demand", "apply"}]
      BY <1>1, <2>1, <2>2, ChangeTypes DEF ManualResumes
    <3> QED
      BY <1>1, <2>2, <3>1 DEF ManualResumes, TypeInv, TypeOK, Locals
  <2>3. CASE svc[click.profile] # click.observed
    BY <1>1, <2>3, ReleaseTypes DEF ManualResumes, TypeInv, TypeOK, Locals
  <2> QED
    BY <2>2, <2>3
<1>2. CASE ManualDone
  BY <1>2, ReleaseTypes DEF ManualDone, TypeInv, TypeOK, Locals
<1>3. CASE EvaluateOnDemand
  BY <1>3 DEF EvaluateOnDemand, TypeInv, TypeOK, Locals, Steps
<1>4. CASE DemandChanges
  <2>1. /\ step' \in Steps /\ op' \in Commands \cup {NoCommand}
        /\ item' \in [Profiles -> ServiceStates]
        /\ lastCommand' \in [Profiles -> {"none", "auto", "manual", "demand", "apply"}]
    BY <1>4, ChangeTypes DEF DemandChanges, TypeInv, Locals
  <2> QED
    BY <1>4, <2>1 DEF DemandChanges, TypeInv, TypeOK, Locals
<1>5. CASE DemandDone
  BY <1>5, ReleaseTypes DEF DemandDone, TypeInv, TypeOK, Locals
<1>6. CASE InteractiveFailed
  <2>1. op \in Commands
    BY <1>6 DEF InteractiveFailed, CommandCanFail, InPhase, NoCommand, TypeInv, TypeOK
  <2>2. item' \in [Profiles -> ServiceStates]
    BY <1>6, <2>1 DEF InteractiveFailed, TypeInv, TypeOK, Commands
  <2> QED
    BY <1>6, <2>2 DEF InteractiveFailed, TypeInv, TypeOK, Locals, Steps
<1>7. CASE FailureShown
  BY <1>7, ReleaseTypes DEF FailureShown, TypeInv, TypeOK, Locals, Steps
<1>8. CASE FailureDismissed
  BY <1>8, ReleaseTypes DEF FailureDismissed, TypeInv, TypeOK, Locals
<1>9. CASE MessageDismissed
  BY <1>9 DEF MessageDismissed, TypeInv, TypeOK, Locals
<1> QED
  BY <1>1, <1>2, <1>3, <1>4, <1>5, <1>6, <1>7, <1>8, <1>9 DEF Interactive

(* So does the dialog.                                                     *)
LEMMA RulesTypes == TypeInv /\ Rules => TypeInv'
<1> SUFFICES ASSUME TypeInv, Rules PROVE TypeInv'
  OBVIOUS
<1> USE DEF envVars, svcVars, gateVars, timeVars, saveVars, docVars, histVars
<1>1. ASSUME NEW policy \in Policies, NEW resumeLegacy \in BOOLEAN, RulesSave(policy, resumeLegacy)
      PROVE  TypeInv'
  <2>1. (policy.Enabled \/ (appSettings.SingleProfileOnDemandSuspended /\ ~resumeLegacy)) \in BOOLEAN
    OBVIOUS
  <2>2. [appSettings EXCEPT !.AutomaticProfiles = policy,
           !.SingleProfileOnDemandSuspended = policy.Enabled \/ (@ /\ ~resumeLegacy)] \in Settings
    BY <2>1, Zenon DEF Settings, TypeInv, TypeOK
  <2>3. dialog' \in [pc : {"saving"}, queued : BOOLEAN, settings : Settings]
    BY <1>1, <2>2 DEF RulesSave
  <2> QED
    BY <1>1, <2>3 DEF RulesSave, TypeInv, TypeOK, Locals
<1>2. CASE RulesWritten
  <2>1. dialog.settings \in Settings
    BY <1>2 DEF RulesWritten, TypeInv, TypeOK, NoDialog
  <2>2. dialog.settings.AutomaticProfiles.Enabled \in BOOLEAN
    BY <2>1, PolicyAssumption DEF Settings
  <2>3. session' \in Sessions
    <3>1. session \in Sessions /\ Identity \in Identities
      BY IdentityType DEF TypeInv, TypeOK
    <3> QED
      BY <1>2, <2>2, <3>1, SessionTypes DEF RulesWritten
  <2>4. /\ backoff' \in BOOLEAN /\ manualHold' \in BOOLEAN /\ failures' \in Nat
        /\ dialog' \in [pc : {"saving"}, queued : BOOLEAN, settings : Settings] \cup {NoDialog}
    BY <1>2 DEF RulesWritten
  <2>5. modal' = "none" /\ appSettings' \in Settings /\ disk' \in Settings
    BY <1>2, <2>1 DEF RulesWritten
  <2> QED
    BY <1>2, <2>3, <2>4, <2>5 DEF RulesWritten, TypeInv, TypeOK, Locals
<1>3. CASE RulesNotSaved
  BY <1>3 DEF RulesNotSaved, TypeInv, TypeOK, Locals
<1> QED
  BY <1>1, <1>2, <1>3 DEF Rules

(* So does a Settings save, whose record exists outside its idle state.    *)
LEMMA PersistenceTypes == TypeInv /\ Persistence => TypeInv'
<1> SUFFICES ASSUME TypeInv, Persistence PROVE TypeInv'
  OBVIOUS
<1> USE DEF envVars, svcVars, gateVars, timeVars, saveVars, docVars, histVars
<1>1. save.pc # "idle" => save \in Saves
  BY DEF TypeInv, TypeOK, NoSave
<1>2. save \in Saves =>
        /\ save.new \in Settings /\ save.previous \in Settings /\ save.todo \in SUBSET Profiles
        /\ \A pc \in {"confirm", "saving", "applying", "restoring", "rollback"} :
              [save EXCEPT !.pc = pc] \in Saves /\ [save EXCEPT !.pc = pc].pc = pc
  BY DEF Saves
<1>16. ASSUME save \in Saves, NEW previous \in Settings
       PROVE  [save EXCEPT !.pc = "saving", !.previous = previous] \in Saves
  BY <1>16 DEF Saves
<1>17. ASSUME save \in Saves, NEW todo \in SUBSET Profiles
       PROVE  /\ [save EXCEPT !.pc = "applying", !.todo = todo] \in Saves
              /\ [save EXCEPT !.pc = "applying", !.todo = todo].pc = "applying"
  BY <1>17 DEF Saves
<1>3. /\ NoSave \in Saves \cup {NoSave} /\ NoCommand \in Commands \cup {NoCommand}
      /\ \A k \in {"start", "stop"}, p \in Profiles, b \in BOOLEAN : Command(k, p, b) \in Commands
  BY DEF Command, Commands
<1>4. DocumentUnlocked =>
        dialog' \in [pc : {"saving"}, queued : BOOLEAN, settings : Settings] \cup {NoDialog}
  BY DEF DocumentUnlocked, TypeInv, TypeOK, NoDialog
<1>5. ShowMessage /\ modal # "confirm" =>
        /\ modal' \in {"none", "held", "message", "rules", "confirm"} /\ app' \in {"running", "ended"}
        /\ modal' # "confirm"
  BY DEF ShowMessage, TypeInv, TypeOK
<1>6. ASSUME NEW yes \in BOOLEAN, SettingsConfirmed(yes) PROVE TypeInv'
  <2>1. session' \in Sessions
    <3>1. session \in Sessions /\ Identity \in Identities
      BY IdentityType DEF TypeInv, TypeOK
    <3>2. ObserveNetwork(session, Identity) \in Sessions
      BY <3>1, SessionTypes
    <3>3. ManualControl(ObserveNetwork(session, Identity)) \in Sessions
      BY <3>1, <3>2, SessionTypes
    <3> QED
      BY <1>6, <3>1, <3>3 DEF SettingsConfirmed, ManualSession, PauseForManualControl
  <2>2. manualHold' \in BOOLEAN /\ failures' \in Nat
    <3>1. manualHold' \in {manualHold, TRUE, FALSE} /\ failures' \in {failures, 0}
      BY <1>6 DEF SettingsConfirmed, ManualSession
    <3> QED
      <4>1. failures' \in Nat
        BY <3>1 DEF TypeInv, TypeOK
      <4>2. manualHold' \in BOOLEAN
        BY <3>1, Zenon DEF TypeInv, TypeOK
      <4> QED
        BY <4>1, <4>2
  <2>3. save.pc = "confirm"
    BY <1>6 DEF SettingsConfirmed, TypeInv, Locals
  <2>4. save' \in Saves \cup {NoSave} /\ modal' \in {"none", "message"}
    BY <1>1, <1>16, <1>6, <2>3, Zenon DEF SettingsConfirmed, TypeInv, TypeOK
  <2> QED
    BY <1>6, <2>1, <2>2, <2>3, <2>4 DEF SettingsConfirmed, TypeInv, TypeOK, Locals
<1>7. CASE SettingsWritten
  <2>1. save \in Saves /\ save.new \in Settings /\ applyOp = NoCommand /\ modal # "confirm"
    BY <1>1, <1>2, <1>7 DEF SettingsWritten, TypeInv, Locals, TypeOK
  <2> DEFINE todo == IF ~save.changed THEN {} ELSE IF Enabling THEN Upgradable ELSE Profiles
  <2>2. todo \in SUBSET Profiles /\ Remaining(todo) \in SUBSET Profiles
    BY DEF Upgradable, Remaining
  <2>3. CASE Remaining(todo) = {}
    <3>1. SettingsCommit /\ UNCHANGED <<item, applyOp, lastCommand>>
      BY <1>7, <2>3 DEF SettingsWritten
    <3> QED
      BY <1>3, <1>4, <1>5, <1>7, <2>1, <3>1 DEF SettingsWritten, SettingsCommit, TypeInv, TypeOK, Locals
  <2>4. CASE Remaining(todo) # {} /\ Enabling /\ todo \cap Encrypted # {}
    <3>1. save' = [save EXCEPT !.pc = "rollback"] /\ UNCHANGED <<item, applyOp, lastCommand, appSettings, modal, app>>
      BY <1>7, <2>4 DEF SettingsWritten
    <3>2. save' \in Saves
      BY <1>2, <2>1, <3>1 DEF Saves
    <3> QED
      BY <1>3, <1>4, <1>7, <2>1, <3>1, <3>2 DEF SettingsWritten, TypeInv, TypeOK, Locals
  <2>5. CASE Remaining(todo) # {} /\ ~(Enabling /\ todo \cap Encrypted # {})
    <3>1. PICK p \in Remaining(todo) : BeginApply(p, todo)
      BY <1>7, <2>5 DEF SettingsWritten
    <3>2. UNCHANGED <<appSettings, modal, app>>
      BY <1>7, <2>5 DEF SettingsWritten
    <3> HIDE DEF todo
    <3>3. save' \in Saves /\ save'.pc = "applying"
      <4>1. todo \ {p} \in SUBSET Profiles /\ save' = [save EXCEPT !.pc = "applying", !.todo = todo \ {p}]
        BY <2>2, <3>1 DEF BeginApply
      <4> QED
        BY <1>17, <2>1, <4>1, Zenon
    <3>4. /\ item' \in [Profiles -> ServiceStates] /\ applyOp' \in Commands
          /\ lastCommand' \in [Profiles -> {"none", "auto", "manual", "demand", "apply"}]
      BY <1>3, <2>2, <3>1 DEF BeginApply, TypeInv, TypeOK, ServiceStates
    <3> QED
      BY <1>4, <1>7, <2>1, <3>2, <3>3, <3>4 DEF SettingsWritten, TypeInv, TypeOK, Locals
  <2> QED
    BY <2>3, <2>4, <2>5
<1>8. CASE SettingsNotWritten
  <2>1. applyOp = NoCommand /\ modal # "confirm"
    BY <1>8 DEF SettingsNotWritten, TypeInv, Locals, TypeOK
  <2> QED
    BY <1>3, <1>4, <1>5, <1>8, <2>1 DEF SettingsNotWritten, TypeInv, TypeOK, Locals
<1>9. CASE ApplyContinues
  <2>1. save \in Saves /\ save.new \in Settings /\ applyOp = NoCommand /\ modal # "confirm" /\ save.todo \in SUBSET Profiles
    BY <1>1, <1>2, <1>9 DEF ApplyContinues, TypeInv, Locals, TypeOK
  <2>2. Remaining(save.todo) \in SUBSET Profiles
    BY <2>1 DEF Remaining
  <2>3. CASE Remaining(save.todo) = {}
    BY <1>3, <1>5, <1>9, <2>1, <2>3 DEF ApplyContinues, SettingsCommit, TypeInv, TypeOK, Locals
  <2>4. CASE Remaining(save.todo) # {}
    <3>1. PICK p \in Remaining(save.todo) : BeginApply(p, save.todo)
      BY <1>9, <2>4 DEF ApplyContinues
    <3>2. UNCHANGED <<appSettings, modal, app>>
      BY <1>9, <2>4 DEF ApplyContinues
    <3>3. save' \in Saves /\ save'.pc = "applying"
      BY <1>17, <2>1, <2>2, <3>1 DEF BeginApply
    <3>4. /\ item' \in [Profiles -> ServiceStates] /\ applyOp' \in Commands
          /\ lastCommand' \in [Profiles -> {"none", "auto", "manual", "demand", "apply"}]
      BY <1>3, <2>2, <3>1 DEF BeginApply, TypeInv, TypeOK, ServiceStates
    <3> QED
      BY <1>9, <2>1, <3>2, <3>3, <3>4 DEF ApplyContinues, TypeInv, TypeOK, Locals
  <2> QED
    BY <2>3, <2>4
<1>10. ASSUME applyOp.kind # "none"
       PROVE  /\ applyOp \in Commands /\ applyOp.profile \in Profiles
              /\ applyOp # NoCommand
              /\ \A ph \in {"prompt", "elevated", "waiting", "done"} : [applyOp EXCEPT !.phase = ph] \in Commands
              /\ save \in Saves /\ save.pc \in {"applying", "restoring"}
  <2>1. applyOp # NoCommand /\ applyOp \in Commands
    BY <1>10 DEF NoCommand, TypeInv, TypeOK
  <2>2. applyOp.profile \in Profiles
        /\ \A ph \in {"prompt", "elevated", "waiting", "done"} : [applyOp EXCEPT !.phase = ph] \in Commands
    BY <2>1 DEF Commands
  <2>3. save.pc \in {"applying", "restoring"}
    BY <2>1 DEF TypeInv, Locals
  <2> QED
    BY <1>1, <2>1, <2>2, <2>3
<1>11. CASE ApplyApproved
  BY <1>10, <1>11 DEF ApplyApproved, Approvable, InPhase, TypeInv, TypeOK, Locals
<1>12. CASE ApplyEffect
  BY <1>10, <1>12 DEF ApplyEffect, CommandEffect, InPhase, TypeInv, TypeOK, Locals, ServiceStates
<1>13. CASE ApplySucceeded
  <2>1. applyOp.kind # "none"
    BY <1>13 DEF ApplySucceeded, CommandSucceeded, InPhase
  <2>2. save' \in Saves /\ (applyOp' # NoCommand => save'.pc \in {"applying", "restoring"})
    BY <1>2, <1>10, <1>13, <2>1 DEF ApplySucceeded, TypeInv, TypeOK
  <2>5. applyOp' \in Commands \cup {NoCommand}
    BY <1>3, <1>10, <1>13, <2>1 DEF ApplySucceeded
  <2>3. item' \in [Profiles -> ServiceStates]
    BY <1>10, <1>13, <2>1 DEF ApplySucceeded, TypeInv, TypeOK, ServiceStates
  <2>4. modal # "confirm"
    BY <1>10, <2>1 DEF TypeInv, Locals
  <2>6. UNCHANGED <<envVars, svcVars, session, docVars, modal, app, gateVars, timeVars, dialog, histVars, budget>>
    BY <1>13 DEF ApplySucceeded
  <2> QED
    BY <2>2, <2>3, <2>4, <2>5, <2>6 DEF TypeInv, TypeOK, Locals
<1>14. CASE ApplyFailed
  <2>1. applyOp.kind # "none"
    BY <1>14 DEF ApplyFailed, CommandCanFail, InPhase
  <2>2. save' \in Saves /\ (applyOp' # NoCommand => save'.pc \in {"applying", "restoring"})
    BY <1>2, <1>10, <1>14, <2>1 DEF ApplyFailed, TypeInv, TypeOK
  <2>5. applyOp' \in Commands \cup {NoCommand}
    BY <1>3, <1>10, <1>14, <2>1 DEF ApplyFailed
  <2>3. item' \in [Profiles -> ServiceStates]
    BY <1>10, <1>14, <2>1 DEF ApplyFailed, TypeInv, TypeOK
  <2>4. modal # "confirm"
    BY <1>10, <2>1 DEF TypeInv, Locals
  <2>6. UNCHANGED <<envVars, svcVars, session, docVars, modal, app, gateVars, timeVars, dialog, histVars, budget>>
    BY <1>14 DEF ApplyFailed
  <2> QED
    BY <2>2, <2>3, <2>4, <2>5, <2>6 DEF TypeInv, TypeOK, Locals
<1>15. ASSUME NEW written \in BOOLEAN, SettingsRolledBack(written) PROVE TypeInv'
  <2>1. save \in Saves /\ save.previous \in Settings /\ applyOp = NoCommand /\ modal # "confirm"
    BY <1>1, <1>2, <1>15 DEF SettingsRolledBack, TypeInv, Locals, TypeOK
  <2> QED
    BY <1>3, <1>4, <1>5, <1>15, <2>1 DEF SettingsRolledBack, TypeInv, TypeOK, Locals
<1> QED
  BY <1>6, <1>7, <1>8, <1>9, <1>11, <1>12, <1>13, <1>14, <1>15 DEF Persistence

(* So does whatever the user starts.                                       *)
LEMMA UserTypes == TypeInv /\ User => TypeInv'
<1> SUFFICES ASSUME TypeInv, User PROVE TypeInv'
  OBVIOUS
<1> USE DEF envVars, svcVars, gateVars, timeVars, saveVars, docVars, histVars
<1>1. ASSUME NEW kinds, Spend(kinds) PROVE budget' \in [BudgetKinds -> Nat]
  BY <1>1 DEF Spend, TypeInv, TypeOK
<1>2. ASSUME NEW p \in Profiles, NEW readable \in BOOLEAN, Toggle(p, readable) PROVE TypeInv'
  <2>1. session' \in Sessions
    <3>1. session \in Sessions /\ Identity \in Identities
      BY IdentityType DEF TypeInv, TypeOK
    <3>2. ObserveNetwork(session, Identity) \in Sessions /\ ManualControl(session) \in Sessions
      BY <3>1, SessionTypes
    <3>3. ManualControl(ObserveNetwork(session, Identity)) \in Sessions
      BY <3>1, <3>2, SessionTypes
    <3> QED
      BY <1>2, <3>1, <3>2, <3>3 DEF Toggle, ManualSession, PauseForManualControl
  <2>2. manualHold' \in {manualHold, TRUE, FALSE} /\ failures' \in {failures, 0}
    BY <1>2 DEF Toggle, ManualSession
  <2>3. failures' \in Nat
    BY <2>2 DEF TypeInv, TypeOK
  <2>4. manualHold' \in BOOLEAN
    BY <2>2, Zenon DEF TypeInv, TypeOK
  <2>5. budget' \in [BudgetKinds -> Nat]
    BY <1>1, <1>2 DEF Toggle
  <2>6. /\ holder' \in {"none", "auto", "manual", "demand"} /\ step' \in Steps
        /\ waiters' \in Seq(Clicks) /\ click' \in Clicks \cup {NoClick}
        /\ (holder' = "manual" => click' \in Clicks)
        /\ (holder' = "demand" => holder = "demand") /\ UNCHANGED <<auto, demand, op>>
    <3> DEFINE c == [profile |-> p, observed |-> svc[p]]
    <3>1. CASE svc[p] \notin {"Active", "Inactive"}
      BY <1>2, <3>1 DEF Toggle, TypeInv, TypeOK, Locals
    <3>2. CASE svc[p] \in {"Active", "Inactive"}
      <4>1. c \in Clicks
        BY <3>2 DEF Clicks
      <4> HIDE DEF c
      <4>2. Append(waiters, c) \in Seq(Clicks)
        BY <4>1 DEF TypeInv, TypeOK
      <4>3. CASE holder = "none"
        <5>1. holder' = "manual" /\ step' = "resume" /\ click' = c /\ UNCHANGED <<waiters, auto, demand, op>>
          BY <1>2, <3>2, <4>3 DEF Toggle, c
        <5> QED
          BY <4>1, <5>1 DEF TypeInv, TypeOK, Steps
      <4>4. CASE holder # "none"
        <5>1. waiters' = Append(waiters, c) /\ UNCHANGED <<holder, step, auto, click, demand, op>>
          BY <1>2, <3>2, <4>4 DEF Toggle, c
        <5> QED
          BY <4>2, <5>1 DEF TypeInv, TypeOK, Locals
      <4> QED
        BY <4>3, <4>4
    <3> QED
      BY <3>1, <3>2
  <2>7. UNCHANGED <<envVars, svcVars, docVars, item, modal, app, timeVars, saveVars, dialog, lastCommand>>
    BY <1>2 DEF Toggle
  <2> QED
    BY <2>1, <2>3, <2>4, <2>5, <2>6, <2>7 DEF TypeInv, TypeOK, Locals
<1>3. CASE RulesOpen
  BY <1>1, <1>3 DEF RulesOpen, TypeInv, TypeOK, Locals
<1>4. ASSUME NEW persist \in BOOLEAN, SettingsSave(persist) PROVE TypeInv'
  <2> DEFINE new == [appSettings EXCEPT !.PersistentTunnelService = persist]
             changed == persist # appSettings.PersistentTunnelService
  <2>1. new \in Settings
    BY DEF Settings, TypeInv, TypeOK
  <2>2. [pc |-> IF changed THEN "confirm" ELSE "saving", new |-> new, previous |-> appSettings,
         changed |-> changed, todo |-> {}] \in Saves
    BY <2>1 DEF Saves, TypeInv, TypeOK
  <2>3. save' \in Saves \cup {NoSave} /\ modal' \in {"none", "message", "confirm"}
        /\ (modal' = "confirm" => save'.pc = "confirm")
    BY <1>4, <2>2 DEF SettingsSave
  <2>4. applyOp = NoCommand /\ applyOp' = NoCommand
    BY <1>4 DEF SettingsSave, TypeInv, Locals
  <2>5. budget' \in [BudgetKinds -> Nat]
    BY <1>1, <1>4 DEF SettingsSave
  <2>6. UNCHANGED <<envVars, svcVars, session, docVars, item, app, gateVars, timeVars, dialog, histVars>>
    BY <1>4 DEF SettingsSave
  <2> QED
    BY <2>3, <2>4, <2>5, <2>6 DEF TypeInv, TypeOK, Locals
<1>5. CASE RowsRefreshed
  BY <1>1, <1>5 DEF RowsRefreshed, TypeInv, TypeOK, Locals
<1>6. CASE Exit
  BY <1>1, <1>6 DEF Exit, TypeInv, TypeOK, Locals
<1> QED
  BY <1>2, <1>3, <1>4, <1>5, <1>6 DEF User

(* So does the environment.                                                *)
LEMMA EnvironmentTypes == TypeInv /\ Environment => TypeInv'
<1> SUFFICES ASSUME TypeInv, Environment PROVE TypeInv'
  OBVIOUS
<1> USE DEF envVars, svcVars, gateVars, timeVars, saveVars, docVars, histVars
<1>1. ASSUME NEW kinds, Spend(kinds) PROVE budget' \in [BudgetKinds -> Nat]
  BY <1>1 DEF Spend, TypeInv, TypeOK
<1>2. ASSUME NEW n \in Networks, NetworkChanges(n) PROVE TypeInv'
  <2>1. net' \in Networks /\ manualHold' \in BOOLEAN /\ budget' \in [BudgetKinds -> Nat]
    BY <1>1, <1>2 DEF NetworkChanges
  <2> QED
    BY <1>2, <2>1 DEF NetworkChanges, TypeInv, TypeOK, Locals
<1>3. CASE OtherVpnChanges
  BY <1>1, <1>3 DEF OtherVpnChanges, TypeInv, TypeOK, Locals
<1>4. ASSUME NEW p \in Profiles, ServiceStep(p) PROVE TypeInv'
  BY <1>4 DEF ServiceStep, TypeInv, TypeOK, Locals, ServiceStates
<1>5. ASSUME NEW p \in Profiles, ExternalControl(p) PROVE TypeInv'
  <2>1. svc' \in [Profiles -> ServiceStates]
    BY <1>5 DEF ExternalControl, TypeInv, TypeOK, ServiceStates
  <2>2. budget' \in [BudgetKinds -> Nat]
    BY <1>1, <1>5 DEF ExternalControl
  <2> QED
    BY <1>5, <2>1, <2>2 DEF ExternalControl, TypeInv, TypeOK, Locals
<1>6. CASE EvaluateUnreadable
  <2>1. PauseAfterFailure(session) \in Sessions
    BY IdentityType, SessionTypes DEF TypeInv, TypeOK
  <2> QED
    BY <1>1, <1>6, <2>1 DEF EvaluateUnreadable, TypeInv, TypeOK, Locals
<1>7. CASE TwoSecondsPass
  BY <1>7 DEF TwoSecondsPass, TypeInv, TypeOK, Locals
<1>8. CASE OneMinutePasses
  <2>1. backoff' \in BOOLEAN
    BY <1>8 DEF OneMinutePasses
  <2> QED
    BY <1>8, <2>1 DEF OneMinutePasses, TypeInv, TypeOK, Locals
<1>9. CASE OrphanEffect
  <2>1. ASSUME NEW o \in Commands \cup {NoCommand}, CommandEffect(o)
        PROVE  svc' \in [Profiles -> ServiceStates] /\ persistentSvc' \in SUBSET Profiles
    BY <2>1 DEF CommandEffect, InPhase, Commands, NoCommand, TypeInv, TypeOK, ServiceStates
  <2> QED
    BY <1>9, <2>1 DEF OrphanEffect, TypeInv, TypeOK, Locals
<1>10. CASE Restart
  <2>1. NewSession \in Sessions
    BY IdentityType, SessionTypes DEF TypeInv, TypeOK
  <2>2. NoAuto \in [previous : MaybeProfile, desired : MaybeProfile, stamp : Nat \X Nat] /\ <<>> \in Seq(Clicks)
    BY DEF NoAuto, MaybeProfile
  <2> QED
    BY <1>10, <2>1, <2>2 DEF Restart, TypeInv, TypeOK, Locals, Steps
<1> QED
  BY <1>2, <1>3, <1>4, <1>5, <1>6, <1>7, <1>8, <1>9, <1>10 DEF Environment

(* The types, with what the handlers know about their locals, are          *)
(* inductive.                                                              *)
LEMMA TypeInvInductive == (Init => TypeInv) /\ (TypeInv /\ [Next]_vars => TypeInv')
<1>1. Init => TypeInv
  BY InitTypeOK DEF Init, TypeInv, Locals
<1>2. TypeInv /\ Next => TypeInv'
  BY EvaluatorTypes, GateCommandTypes, InteractiveTypes, RulesTypes, PersistenceTypes, UserTypes,
     EnvironmentTypes DEF Next
<1>3. TypeInv /\ UNCHANGED vars => TypeInv'
  BY DEF vars, envVars, svcVars, gateVars, timeVars, saveVars, docVars, histVars, TypeInv, TypeOK, Locals
<1> QED
  BY <1>1, <1>2, <1>3

-----------------------------------------------------------------------------
(***************************************************************************)
(* Ownership.  The proofs below assume that the rules dialog is not opened *)
(* while a Settings save runs (~OverlappingSaves); without that the save   *)
(* can put back old rules and the ownership theorem fails (run rules_lost  *)
(* shows the overwrite).                                                   *)
(***************************************************************************)

(* The modal keeps the dialog, the save and the evaluators apart, so the   *)
(* rules in memory change only when nobody relies on them.                 *)
DocumentInv ==
    /\ dialog.pc = "saving" => modal = "rules" /\ holder \notin {"auto", "demand"}
    /\ modal = "rules" => save.pc = "idle"
    /\ save.pc # "idle" => /\ save.new.AutomaticProfiles = Policy
                           /\ save.previous.AutomaticProfiles = Policy
    /\ holder = "auto" => Enabled
    /\ holder = "demand" => ~Enabled

(* A handover that a click has overtaken carries an old revision.          *)
OwnerInv ==
    /\ holder = "none" => waiters = <<>>
    /\ QueuedClickOwnsNothing
    /\ holder = "auto" => /\ auto.stamp[1] <= session.Revision
                          /\ waiters # <<>> => auto.stamp[1] < session.Revision
    /\ ~Enabled => session.OwnedProfileId = Nil
    /\ Starting /\ op.kind # "none" =>
          auto.desired \in Profiles /\ lastCommand[auto.desired] \in {"auto", "apply"}
    /\ OwnershipIsAutomatic

(* What the user asked for is remembered as a pause on this network.       *)
IntentInv ==
    manualHold /\ Enabled => IsPaused(session) /\ session.NetworkIdentity = Identity

(* A failure pauses until the network or the rules change.                 *)
FailureInv ==
    /\ failures <= 1
    /\ failures = 1 => IsPaused(session)
    /\ holder = "auto" => failures = 0

Safety == TypeInv /\ DocumentInv /\ OwnerInv /\ IntentInv /\ FailureInv

(* What each session operator does to each field.                          *)
LEMMA SessionFacts ==
    ASSUME NEW s \in Sessions, NEW id, NEW e \in BOOLEAN, NEW p, NEW r
    PROVE  /\ /\ ObserveNetwork(s, id).OwnedProfileId = s.OwnedProfileId
              /\ ObserveNetwork(s, id).Revision = s.Revision
              /\ ObserveNetwork(s, id).NetworkIdentity = id
              /\ s.NetworkIdentity = id => ObserveNetwork(s, id) = s
              /\ s.NetworkIdentity # id => ObserveNetwork(s, id).Generation # s.Generation
           /\ /\ SettingsChanged(s, e).OwnedProfileId = IF e THEN s.OwnedProfileId ELSE Nil
              /\ SettingsChanged(s, e).Revision = s.Revision + 1
           /\ /\ ManualControl(s).OwnedProfileId = Nil
              /\ ManualControl(s).Revision = s.Revision + 1
              /\ ManualControl(s).NetworkIdentity = s.NetworkIdentity
              /\ ManualControl(s).Generation = s.Generation
              /\ IsPaused(ManualControl(s))
           /\ /\ PauseAfterFailure(s).OwnedProfileId = s.OwnedProfileId
              /\ PauseAfterFailure(s).Revision = s.Revision
              /\ PauseAfterFailure(s).NetworkIdentity = s.NetworkIdentity
              /\ IsPaused(PauseAfterFailure(s))
           /\ /\ Disconnected(s).OwnedProfileId = Nil
              /\ Disconnected(s).Revision = s.Revision
              /\ Disconnected(s).NetworkIdentity = s.NetworkIdentity
              /\ Disconnected(s).Generation = s.Generation
              /\ IsPaused(Disconnected(s)) <=> IsPaused(s)
           /\ /\ Connected(s, p, r, e).OwnedProfileId \in {p, s.OwnedProfileId}
              /\ Connected(s, p, r, e).OwnedProfileId # s.OwnedProfileId => e /\ r = s.Revision
              /\ Connected(s, p, r, e).Revision = s.Revision
              /\ Connected(s, p, r, e).NetworkIdentity = s.NetworkIdentity
              /\ IsPaused(Connected(s, p, r, e)) <=> IsPaused(s)
<1>1. /\ ObserveNetwork(s, id).OwnedProfileId = s.OwnedProfileId
      /\ ObserveNetwork(s, id).Revision = s.Revision
      /\ ObserveNetwork(s, id).NetworkIdentity = id
      /\ s.NetworkIdentity = id => ObserveNetwork(s, id) = s
      /\ s.NetworkIdentity # id => ObserveNetwork(s, id).Generation = s.Generation + 1
  BY DEF ObserveNetwork, Sessions
<1>2. s.Generation + 1 # s.Generation
  BY DEF Sessions
<1>3. /\ SettingsChanged(s, e).OwnedProfileId = IF e THEN s.OwnedProfileId ELSE Nil
      /\ SettingsChanged(s, e).Revision = s.Revision + 1
  BY DEF SettingsChanged, Sessions
<1>4. /\ ManualControl(s).OwnedProfileId = Nil
      /\ ManualControl(s).Revision = s.Revision + 1
      /\ ManualControl(s).NetworkIdentity = s.NetworkIdentity
      /\ ManualControl(s).Generation = s.Generation
      /\ IsPaused(ManualControl(s))
  BY DEF ManualControl, IsPaused, Sessions
<1>5. /\ PauseAfterFailure(s).OwnedProfileId = s.OwnedProfileId
      /\ PauseAfterFailure(s).Revision = s.Revision
      /\ PauseAfterFailure(s).NetworkIdentity = s.NetworkIdentity
      /\ IsPaused(PauseAfterFailure(s))
  BY DEF PauseAfterFailure, IsPaused, Sessions
<1>6. /\ Disconnected(s).OwnedProfileId = Nil
      /\ Disconnected(s).Revision = s.Revision
      /\ Disconnected(s).NetworkIdentity = s.NetworkIdentity
      /\ Disconnected(s).Generation = s.Generation
      /\ IsPaused(Disconnected(s)) <=> IsPaused(s)
  BY DEF Disconnected, IsPaused, Sessions
<1>7. /\ Connected(s, p, r, e).OwnedProfileId \in {p, s.OwnedProfileId}
      /\ Connected(s, p, r, e).OwnedProfileId # s.OwnedProfileId => e /\ r = s.Revision
      /\ Connected(s, p, r, e).Revision = s.Revision
      /\ Connected(s, p, r, e).NetworkIdentity = s.NetworkIdentity
      /\ IsPaused(Connected(s, p, r, e)) <=> IsPaused(s)
  BY DEF Connected, IsPaused, Sessions
<1> QED
  BY <1>1, <1>2, <1>3, <1>4, <1>5, <1>6, <1>7

(* DocumentInv is inductive when saves do not overlap.                     *)
LEMMA DocumentInductive ==
    ASSUME ~OverlappingSaves
    PROVE  (Init => DocumentInv) /\ (TypeInv /\ DocumentInv /\ [Next]_vars => DocumentInv')
<1> USE DEF envVars, svcVars, gateVars, timeVars, saveVars, docVars, histVars, Policy, Enabled
<1>1. Init => DocumentInv
  BY DEF Init, DocumentInv, NoDialog, NoSave
<1> SUFFICES ASSUME TypeInv, DocumentInv, [Next]_vars PROVE DocumentInv'
  BY <1>1
<1>r. Release => holder' \in {"none", "manual"}
  BY DEF Release
<1>2. CASE Evaluator
  <2>1. CASE EvaluateUnstable \/ EvaluateHolds \/ EvaluateStoppedOutside \/ EvaluateRejects
    BY <2>1 DEF EvaluateUnstable, EvaluateHolds, EvaluateStoppedOutside, EvaluateRejects, DocumentInv
  <2>2. CASE EvaluateStops \/ EvaluateStarts
    BY <2>2 DEF EvaluateStops, EvaluateStarts, Accepted, Deciding, Polled, Undisturbed, DocumentInv
  <2>3. CASE AutomaticStopped \/ AutomaticStarted \/ AutomaticFailed
    <3>1. /\ UNCHANGED <<docVars, modal, saveVars, dialog>>
          /\ holder' \in {"none", "manual", holder}
      BY <1>r, <2>3 DEF AutomaticStopped, AutomaticStarted, AutomaticFailed
    <3> QED
      BY <3>1 DEF DocumentInv
  <2> QED
    BY <1>2, <2>1, <2>2, <2>3 DEF Evaluator
<1>3. CASE GateCommand
  BY <1>3 DEF GateCommand, GateApproved, GateEffect, GateSucceeded, DocumentInv
<1>4. CASE Interactive
  <2>1. CASE ManualResumes \/ ManualDone \/ DemandChanges \/ DemandDone \/ InteractiveFailed
    <3>1. /\ UNCHANGED <<docVars, modal, saveVars, dialog>>
          /\ holder' \in {"none", "manual", holder}
      BY <1>r, <2>1 DEF ManualResumes, ManualDone, DemandChanges, DemandDone, InteractiveFailed
    <3> QED
      BY <3>1 DEF DocumentInv
  <2>2. CASE EvaluateOnDemand
    BY <2>2 DEF EvaluateOnDemand, OnDemandAllowed, DocumentInv
  <2>3. CASE FailureShown \/ FailureDismissed \/ MessageDismissed
    <3>1. /\ UNCHANGED <<docVars, saveVars, dialog>>
          /\ holder' \in {"none", "manual", holder}
          /\ (modal # "rules" /\ modal' # "rules") \/ modal' = modal
      BY <1>r, <2>3 DEF FailureShown, FailureDismissed, MessageDismissed
    <3> QED
      BY <3>1 DEF DocumentInv
  <2> QED
    BY <1>4, <2>1, <2>2, <2>3 DEF Interactive
<1>5. CASE Rules
  <2>1. ASSUME NEW policy \in Policies, NEW b \in BOOLEAN, RulesSave(policy, b) PROVE DocumentInv'
    BY <2>1 DEF RulesSave, Busy, DocumentInv
  <2>2. CASE RulesWritten
    BY <2>2 DEF RulesWritten, NoDialog, DocumentInv
  <2>3. CASE RulesNotSaved
    BY <2>3 DEF RulesNotSaved, NoDialog, DocumentInv
  <2> QED
    BY <1>5, <2>1, <2>2, <2>3 DEF Rules
<1>6. CASE Persistence
  <2>0. save.pc # "idle" => save \in Saves
    BY DEF TypeInv, TypeOK, NoSave
  <2>t. ASSUME save \in Saves, NEW todo,
               save' = [save EXCEPT !.pc = "applying", !.todo = todo]
        PROVE  save'.new = save.new /\ save'.previous = save.previous
    BY <2>t DEF Saves
  <2>s. ASSUME save \in Saves, NEW pc
        PROVE  /\ [save EXCEPT !.pc = pc].new = save.new
               /\ [save EXCEPT !.pc = pc].previous = save.previous
    BY <2>s DEF Saves
  <2>c. ASSUME save \in Saves, save' = [save EXCEPT !.pc = "saving", !.previous = appSettings]
        PROVE  save'.new = save.new /\ save'.previous = appSettings
    BY <2>c DEF Saves
  <2>d. DocumentUnlocked => dialog'.pc = dialog.pc
    BY DEF DocumentUnlocked, TypeInv, TypeOK, NoDialog
  <2>m. ShowMessage => modal' \in {modal, "message"} /\ (modal' # modal => modal = "none")
    BY DEF ShowMessage
  <2>1. ASSUME NEW yes \in BOOLEAN, SettingsConfirmed(yes) PROVE DocumentInv'
    <3>1. /\ save.pc = "confirm" /\ modal = "confirm" /\ modal' \in {"none", "message"}
          /\ UNCHANGED <<appSettings, holder, dialog>>
      BY <2>1 DEF SettingsConfirmed, TypeInv, Locals
    <3>2. save' = NoSave \/ save' = [save EXCEPT !.pc = "saving", !.previous = appSettings]
      BY <2>1 DEF SettingsConfirmed
    <3>3. save'.pc # "idle" => save'.new = save.new /\ save'.previous = appSettings
      <4>1. CASE save' = NoSave
        BY <4>1 DEF NoSave
      <4> QED
        BY <2>0, <2>c, <3>1, <3>2, <4>1
    <3> QED
      BY <3>1, <3>3 DEF DocumentInv
  <2>2. ASSUME save.pc # "idle", SettingsCommit, dialog'.pc = dialog.pc, UNCHANGED holder PROVE DocumentInv'
    BY <2>m, <2>2 DEF SettingsCommit, NoSave, DocumentInv
  <2>3. ASSUME save.pc # "idle", UNCHANGED <<appSettings, modal, holder>>, dialog'.pc = dialog.pc,
               save'.new = save.new, save'.previous = save.previous
        PROVE  DocumentInv'
    BY <2>3 DEF DocumentInv
  <2>4. CASE SettingsWritten
    <3>1. save.pc # "idle" /\ dialog'.pc = dialog.pc /\ UNCHANGED holder
      BY <2>d, <2>4 DEF SettingsWritten
    <3>2. \/ SettingsCommit
          \/ /\ UNCHANGED <<appSettings, modal>>
             /\ \/ save' = [save EXCEPT !.pc = "rollback"]
                \/ \E todo, p : save' = [save EXCEPT !.pc = "applying", !.todo = todo \ {p}]
      BY <2>4 DEF SettingsWritten, BeginApply
    <3>3. SettingsCommit \/ (save'.new = save.new /\ save'.previous = save.previous)
      BY <2>0, <2>s, <2>t, <3>1, <3>2
    <3> QED
      BY <2>2, <2>3, <3>1, <3>2, <3>3
  <2>5. CASE ApplyContinues
    <3>1. save.pc # "idle" /\ dialog'.pc = dialog.pc /\ UNCHANGED holder
      BY <2>5 DEF ApplyContinues
    <3>2. \/ SettingsCommit
          \/ /\ UNCHANGED <<appSettings, modal>>
             /\ \E todo, p : save' = [save EXCEPT !.pc = "applying", !.todo = todo \ {p}]
      BY <2>5 DEF ApplyContinues, BeginApply
    <3>3. SettingsCommit \/ (save'.new = save.new /\ save'.previous = save.previous)
      BY <2>0, <2>s, <2>t, <3>1, <3>2
    <3> QED
      BY <2>2, <2>3, <3>1, <3>2, <3>3
  <2>6. CASE SettingsNotWritten
    BY <2>d, <2>m, <2>6 DEF SettingsNotWritten, NoSave, DocumentInv
  <2>7. CASE ApplyApproved \/ ApplyEffect
    BY <2>7 DEF ApplyApproved, ApplyEffect, DocumentInv
  <2>8. CASE ApplySucceeded \/ ApplyFailed
    <3>1. save.pc # "idle"
      <4>1. applyOp.kind # "none"
        BY <2>8 DEF ApplySucceeded, ApplyFailed, CommandSucceeded, CommandCanFail, InPhase
      <4>2. applyOp # NoCommand
        BY <4>1 DEF NoCommand
      <4> QED
        BY <4>2 DEF TypeInv, Locals
    <3>2. UNCHANGED <<appSettings, modal, holder, dialog>>
      BY <2>8 DEF ApplySucceeded, ApplyFailed
    <3>3. save' = save \/ \E pc : save' = [save EXCEPT !.pc = pc]
      BY <2>8 DEF ApplySucceeded, ApplyFailed
    <3> QED
      BY <2>0, <2>s, <2>3, <3>1, <3>2, <3>3
  <2>9. ASSUME NEW written \in BOOLEAN, SettingsRolledBack(written) PROVE DocumentInv'
    BY <2>d, <2>m, <2>9 DEF SettingsRolledBack, NoSave, DocumentInv
  <2> QED
    BY <1>6, <2>1, <2>4, <2>5, <2>6, <2>7, <2>8, <2>9 DEF Persistence
<1>7. CASE User
  <2>1. ASSUME NEW p \in Profiles, NEW readable \in BOOLEAN, Toggle(p, readable) PROVE DocumentInv'
    BY <2>1 DEF Toggle, DocumentInv
  <2>2. CASE RulesOpen
    BY <2>2 DEF RulesOpen, DocumentInv
  <2>3. ASSUME NEW persist \in BOOLEAN, SettingsSave(persist) PROVE DocumentInv'
    <3>1. [appSettings EXCEPT !.PersistentTunnelService = persist].AutomaticProfiles = appSettings.AutomaticProfiles
      BY DEF TypeInv, TypeOK, Settings
    <3> QED
      <4>1. /\ modal = "none" /\ modal' # "rules" /\ UNCHANGED <<appSettings, holder, dialog>>
            /\ \/ save'.pc = "idle"
               \/ /\ save'.previous = appSettings
                  /\ save'.new = [appSettings EXCEPT !.PersistentTunnelService = persist]
        BY <2>3 DEF SettingsSave, NoSave
      <4> QED
        BY <3>1, <4>1 DEF DocumentInv
  <2>4. CASE RowsRefreshed \/ Exit
    BY <2>4 DEF RowsRefreshed, Exit, DocumentInv
  <2> QED
    BY <1>7, <2>1, <2>2, <2>3, <2>4 DEF User
<1>8. CASE Environment
  <2>1. ASSUME UNCHANGED <<appSettings, modal, holder, save, dialog>> PROVE DocumentInv'
    BY <2>1 DEF DocumentInv
  <2>2. CASE Restart
    BY <2>2 DEF Restart, NoSave, NoDialog, DocumentInv
  <2> QED
    BY <1>8, <2>1, <2>2 DEF Environment, NetworkChanges, OtherVpnChanges, ServiceStep, ExternalControl,
       EvaluateUnreadable, TwoSecondsPass, OneMinutePasses, OrphanEffect
<1>9. CASE UNCHANGED vars
  BY <1>9 DEF vars, DocumentInv
<1> QED
  BY <1>2, <1>3, <1>4, <1>5, <1>6, <1>7, <1>8, <1>9 DEF Next

(* Under DocumentInv, OwnerInv is inductive too.                           *)
LEMMA OwnerInductive ==
    ASSUME ~OverlappingSaves
    PROVE  /\ Init => OwnerInv
           /\ TypeInv /\ DocumentInv /\ OwnerInv /\ [Next]_vars => OwnerInv'
<1> USE DEF envVars, svcVars, gateVars, timeVars, saveVars, docVars, histVars, Policy,
            QueuedClickOwnsNothing, OwnershipIsAutomatic, Starting
<1>1. Init => OwnerInv
  BY DEF Init, OwnerInv, NewSession
<1> SUFFICES ASSUME TypeInv, DocumentInv, OwnerInv, [Next]_vars PROVE OwnerInv'
  BY <1>1
<1>s. session \in Sessions /\ session.Revision \in Nat /\ session.OwnedProfileId \in MaybeProfile
      /\ auto.stamp[1] \in Nat /\ Enabled \in BOOLEAN
      /\ lastCommand \in [Profiles -> {"none", "auto", "manual", "demand", "apply"}]
  BY PolicyAssumption DEF TypeInv, TypeOK, Sessions, Enabled, Settings
<1>i. Seen.OwnedProfileId = session.OwnedProfileId /\ Seen.Revision = session.Revision /\ Seen \in Sessions
  BY <1>s, SessionFacts, IdentityType DEF Seen, TypeInv
<1>r. ASSUME Release, UNCHANGED <<appSettings, lastCommand>>,
             session'.OwnedProfileId \in {Nil, session.OwnedProfileId}
      PROVE  OwnerInv'
  <2>1. /\ holder' \in {"none", "manual"} /\ (holder' = "none" => waiters' = <<>>)
        /\ (holder' = "manual" => waiters # <<>>)
    BY <1>r DEF Release
  <2>2. waiters' # <<>> => waiters # <<>>
    BY <1>r DEF Release
  <2> QED
    BY <1>r, <2>1, <2>2 DEF OwnerInv, Enabled
<1>u. ASSUME UNCHANGED <<holder, waiters, auto, appSettings, lastCommand>>,
             op' = op \/ op.kind # "none" \/ op'.kind = "none",
             session'.OwnedProfileId \in {Nil, session.OwnedProfileId},
             session'.Revision = session.Revision
      PROVE  OwnerInv'
  BY <1>u DEF OwnerInv, Enabled
<1>2. CASE Evaluator
  <2>1. CASE EvaluateUnstable \/ EvaluateHolds
    BY <1>i, <1>u, <2>1 DEF EvaluateUnstable, EvaluateHolds
  <2>2. CASE EvaluateStoppedOutside
    <3>1. /\ session'.OwnedProfileId = Nil /\ holder = "none"
          /\ UNCHANGED <<holder, waiters, auto, op, appSettings, lastCommand>>
      BY <1>i, <2>2, SessionFacts DEF EvaluateStoppedOutside, Polled
    <3> QED
      BY <3>1 DEF OwnerInv, Enabled
  <2>3. CASE EvaluateRejects
    <3>1. session'.OwnedProfileId = session.OwnedProfileId /\ session'.Revision = session.Revision
      BY <1>i, <2>3, SessionFacts DEF EvaluateRejects
    <3> QED
      BY <1>u, <2>3, <3>1 DEF EvaluateRejects
  <2>4. ASSUME NEW p \in Profiles, NEW by \in {"auto"}, ChangeLocalProfileState(p, by)
        PROVE  /\ \A q \in Profiles : lastCommand'[q] = lastCommand[q] \/ (q = p /\ lastCommand'[q] = "auto")
               /\ op'.kind # "none" => lastCommand'[p] = "auto"
    BY <1>s, <2>4 DEF ChangeLocalProfileState, NoCommand
  <2>5. CASE EvaluateStops
    <3>1. /\ holder = "none" /\ holder' = "auto" /\ waiters = <<>> /\ UNCHANGED <<waiters, appSettings>>
          /\ session' = Seen /\ Enabled
      BY <2>5 DEF EvaluateStops, Accepted, Deciding, Polled, OwnerInv
    <3>2. Seen.OwnedProfileId \in Profiles /\ ChangeLocalProfileState(Seen.OwnedProfileId, "auto")
      BY <1>s, <1>i, <2>5 DEF EvaluateStops, MustStop, MaybeProfile
    <3>3. auto'.previous # Nil /\ auto'.stamp[1] = Seen.Revision
      BY <2>5 DEF EvaluateStops, MustStop, Stamp
    <3>4. session.OwnedProfileId # Nil => lastCommand'[session.OwnedProfileId] \in {"auto", "apply"}
      BY <1>i, <2>4, <3>2 DEF OwnerInv
    <3> QED
      BY <1>s, <1>i, <3>1, <3>3, <3>4 DEF OwnerInv, Enabled
  <2>6. CASE EvaluateStarts
    <3>1. /\ holder = "none" /\ holder' = "auto" /\ waiters = <<>> /\ UNCHANGED <<waiters, appSettings>>
          /\ session' = Seen /\ Enabled
      BY <2>6 DEF EvaluateStarts, Accepted, Deciding, Polled, OwnerInv
    <3>2. Decision.profile \in Profiles /\ ChangeLocalProfileState(Decision.profile, "auto")
      BY <2>6, DecisionType DEF EvaluateStarts, MustStart, MaybeProfile, TypeInv
    <3>3. auto'.desired = Decision.profile /\ auto'.stamp[1] = Seen.Revision
      BY <2>6 DEF EvaluateStarts, Stamp
    <3>4. session.OwnedProfileId # Nil => lastCommand'[session.OwnedProfileId] \in {"auto", "apply"}
      BY <1>s, <2>4, <3>2 DEF OwnerInv, MaybeProfile
    <3>5. op'.kind # "none" => lastCommand'[Decision.profile] = "auto"
      BY <2>4, <3>2
    <3> QED
      BY <1>s, <1>i, <3>1, <3>2, <3>3, <3>4, <3>5 DEF OwnerInv, Enabled
  <2>7. CASE AutomaticStopped
    <3> DEFINE s == Disconnected(session)
               seen == ObserveNetwork(s, Identity)
    <3>1. s \in Sessions /\ s.OwnedProfileId = Nil /\ s.Revision = session.Revision
      BY <1>s, SessionFacts, SessionTypes, IdentityType DEF TypeInv
    <3>2. seen.OwnedProfileId = Nil /\ seen.Revision = session.Revision
      BY <3>1, SessionFacts
    <3>3. CASE Release
      <4>1. session' \in {PauseAfterFailure(session), s, seen}
        BY <2>7 DEF AutomaticStopped
      <4>2. session'.OwnedProfileId \in {Nil, session.OwnedProfileId}
        BY <1>s, <3>1, <3>2, <4>1, SessionFacts
      <4>3. UNCHANGED <<appSettings, lastCommand>>
        <5>1. UNCHANGED appSettings
          BY <2>7 DEF AutomaticStopped
        <5>2. holder' # "auto"
          BY <3>3 DEF Release
        <5>3. UNCHANGED lastCommand
          BY <2>7, <5>2 DEF AutomaticStopped, Stopping
        <5> QED
          BY <5>1, <5>3
      <4> QED
        BY <1>r, <3>3, <4>2, <4>3
    <3>4. CASE ~Release
      <4>1. /\ session' = seen /\ auto' = [auto EXCEPT !.previous = Nil]
            /\ ChangeLocalProfileState(auto.desired, "auto") /\ auto.desired # Nil
            /\ UNCHANGED <<holder, waiters, appSettings>> /\ holder = "auto"
        BY <2>7, <3>4 DEF AutomaticStopped, Stopping
      <4>2. auto.desired \in Profiles
        BY <4>1 DEF TypeInv, TypeOK, MaybeProfile
      <4>3. auto'.desired = auto.desired /\ auto'.stamp = auto.stamp
        BY <4>1 DEF TypeInv, TypeOK
      <4>4. op'.kind # "none" => lastCommand'[auto.desired] = "auto"
        BY <2>4, <4>1, <4>2
      <4> QED
        BY <1>s, <3>2, <4>1, <4>2, <4>3, <4>4 DEF OwnerInv, Enabled
    <3> QED
      BY <3>3, <3>4
  <2>8. CASE AutomaticStarted
    <3>1. /\ Release /\ UNCHANGED <<appSettings, lastCommand>>
          /\ holder = "auto" /\ auto.previous = Nil /\ op.kind # "none"
      BY <2>8 DEF AutomaticStarted, InPhase
    <3>2. CASE session'.OwnedProfileId \in {Nil, session.OwnedProfileId}
      BY <1>r, <3>1, <3>2
    <3>3. CASE session'.OwnedProfileId \notin {Nil, session.OwnedProfileId}
      <4>1. session' = Connected(session, auto.desired, auto.stamp[1], Enabled)
        BY <1>s, <2>8, <3>3, SessionFacts DEF AutomaticStarted
      <4>2. Enabled /\ auto.stamp[1] = session.Revision /\ session'.OwnedProfileId = auto.desired
        BY <1>s, <3>3, <4>1, SessionFacts
      <4>3. waiters = <<>>
        BY <1>s, <3>1, <4>2 DEF OwnerInv
      <4>4. holder' = "none" /\ waiters' = <<>>
        BY <3>1, <4>3 DEF Release
      <4> QED
        BY <3>1, <4>2, <4>4 DEF OwnerInv, Enabled
    <3> QED
      BY <3>2, <3>3
  <2>9. CASE AutomaticFailed
    <3>1. session'.OwnedProfileId = session.OwnedProfileId
      BY <1>s, <2>9, SessionFacts DEF AutomaticFailed
    <3> QED
      BY <1>r, <2>9, <3>1 DEF AutomaticFailed
  <2> QED
    BY <1>2, <2>1, <2>2, <2>3, <2>5, <2>6, <2>7, <2>8, <2>9 DEF Evaluator
<1>3. CASE GateCommand
  <2>1. op.kind # "none" /\ UNCHANGED <<holder, waiters, auto, appSettings, lastCommand, session>>
    BY <1>3 DEF GateCommand, GateApproved, GateEffect, GateSucceeded, Approvable, CommandEffect,
                CommandSucceeded, InPhase
  <2> QED
    BY <1>u, <2>1
<1>4. CASE Interactive
  <2>1. CASE ManualResumes
    <3>1. CASE Release /\ UNCHANGED lastCommand
      BY <1>r, <2>1, <3>1 DEF ManualResumes
    <3>2. CASE ~(Release /\ UNCHANGED lastCommand)
      <4>1. /\ holder = "manual" /\ UNCHANGED <<holder, waiters, appSettings, session>>
        BY <2>1, <3>2 DEF ManualResumes
      <4> QED
        BY <4>1 DEF OwnerInv, Enabled
    <3> QED
      BY <3>1, <3>2
  <2>2. CASE ManualDone \/ DemandDone \/ FailureDismissed
    BY <1>r, <2>2 DEF ManualDone, DemandDone, FailureDismissed
  <2>3. CASE EvaluateOnDemand
    BY <2>3 DEF EvaluateOnDemand, OnDemandAllowed, OwnerInv, Enabled
  <2>4. CASE DemandChanges
    <3>1. holder = "demand" /\ UNCHANGED <<holder, waiters, appSettings, session>>
      BY <2>4 DEF DemandChanges
    <3>2. session.OwnedProfileId = Nil
      BY <3>1 DEF OwnerInv, DocumentInv
    <3> QED
      BY <3>1, <3>2 DEF OwnerInv, Enabled
  <2>5. CASE InteractiveFailed \/ MessageDismissed
    <3>1. /\ op' = op \/ op'.kind = "none"
          /\ UNCHANGED <<holder, waiters, auto, appSettings, lastCommand, session>>
      BY <2>5 DEF InteractiveFailed, MessageDismissed, NoCommand
    <3> QED
      BY <1>u, <3>1
  <2>6. CASE FailureShown
    <3>1. UNCHANGED <<appSettings, lastCommand, session>>
          /\ (Release \/ UNCHANGED <<holder, waiters, auto, op>>)
      BY <2>6 DEF FailureShown
    <3> QED
      BY <1>r, <1>u, <3>1
  <2> QED
    BY <1>4, <2>1, <2>2, <2>3, <2>4, <2>5, <2>6 DEF Interactive
<1>5. CASE Rules
  <2>1. CASE RulesWritten
    <3>1. dialog.settings.AutomaticProfiles.Enabled \in BOOLEAN
      BY <2>1, PolicyAssumption DEF RulesWritten, TypeInv, TypeOK, NoDialog, Settings
    <3>2. /\ session'.OwnedProfileId = IF Enabled' THEN session.OwnedProfileId ELSE Nil
          /\ UNCHANGED <<holder, waiters, auto, op, lastCommand>>
      BY <1>s, <2>1, <3>1, SessionFacts DEF RulesWritten, Enabled
    <3>3. holder # "auto"
      BY <2>1 DEF RulesWritten, DocumentInv
    <3> QED
      BY <3>2, <3>3 DEF OwnerInv
  <2>2. CASE ~RulesWritten
    <3>1. UNCHANGED <<holder, waiters, auto, op, appSettings, lastCommand, session>>
      BY <1>5, <2>2 DEF Rules, RulesSave, RulesNotSaved
    <3> QED
      BY <1>u, <3>1
  <2> QED
    BY <2>1, <2>2
<1>6. CASE Persistence
  <2>u. ASSUME UNCHANGED <<holder, waiters, auto, op, session>>, Enabled' = Enabled,
               \A q \in Profiles : lastCommand'[q] \in {lastCommand[q], "apply"}
        PROVE  OwnerInv'
    BY <1>s, <2>u DEF OwnerInv, MaybeProfile
  <2>c. save.pc # "idle" /\ SettingsCommit => Enabled' = Enabled
    BY DEF SettingsCommit, DocumentInv, Enabled
  <2>b. ASSUME NEW p \in Profiles, NEW todo, BeginApply(p, todo)
        PROVE  \A q \in Profiles : lastCommand'[q] \in {lastCommand[q], "apply"}
    BY <1>s, <2>b DEF BeginApply
  <2>1. ASSUME NEW yes \in BOOLEAN, SettingsConfirmed(yes) PROVE OwnerInv'
    <3>1. UNCHANGED <<holder, waiters, auto, op, appSettings, lastCommand>>
      BY <2>1 DEF SettingsConfirmed
    <3>2. CASE session' = session
      BY <1>u, <3>1, <3>2
    <3>3. CASE session' # session
      <4>1. session' = ManualControl(Seen) /\ holder = "none"
        BY <2>1, <3>3 DEF SettingsConfirmed, ManualSession, PauseForManualControl, Seen, Busy
      <4>2. session'.OwnedProfileId = Nil
        BY <1>i, <4>1, SessionFacts
      <4> QED
        BY <3>1, <4>1, <4>2 DEF OwnerInv, Enabled
    <3> QED
      BY <3>2, <3>3
  <2>2. CASE SettingsWritten
    <3>1. save.pc # "idle" /\ UNCHANGED <<holder, waiters, auto, op, session>>
      BY <2>2 DEF SettingsWritten
    <3>2. \/ SettingsCommit /\ UNCHANGED lastCommand
          \/ UNCHANGED <<appSettings, lastCommand>>
          \/ UNCHANGED appSettings /\ \E todo \in SUBSET Profiles : \E p \in todo : BeginApply(p, todo)
      <4> DEFINE todo == IF ~save.changed THEN {} ELSE IF Enabling THEN Upgradable ELSE Profiles
      <4>1. todo \in SUBSET Profiles /\ Remaining(todo) \subseteq todo
        BY DEF Upgradable, Remaining
      <4>2. \/ SettingsCommit /\ UNCHANGED lastCommand
            \/ UNCHANGED <<appSettings, lastCommand>>
            \/ UNCHANGED appSettings /\ \E p \in Remaining(todo) : BeginApply(p, todo)
        BY <2>2 DEF SettingsWritten
      <4> HIDE DEF todo
      <4> QED
        BY <4>1, <4>2
    <3> QED
      BY <2>u, <2>c, <2>b, <3>1, <3>2 DEF Enabled
  <2>3. CASE ApplyContinues
    <3>1. save.pc # "idle" /\ UNCHANGED <<holder, waiters, auto, op, session>>
      BY <2>3 DEF ApplyContinues
    <3>2. save.todo \in SUBSET Profiles /\ Remaining(save.todo) \subseteq save.todo
      BY <3>1 DEF TypeInv, TypeOK, NoSave, Saves, Remaining
    <3>3. \/ SettingsCommit /\ UNCHANGED lastCommand
          \/ UNCHANGED appSettings /\ \E p \in Remaining(save.todo) : BeginApply(p, save.todo)
      BY <2>3 DEF ApplyContinues
    <3> QED
      BY <2>u, <2>c, <2>b, <3>1, <3>2, <3>3 DEF Enabled
  <2>4. CASE SettingsNotWritten \/ ApplyApproved \/ ApplyEffect \/ ApplySucceeded \/ ApplyFailed
    <3>1. UNCHANGED <<holder, waiters, auto, op, appSettings, lastCommand, session>>
      BY <2>4 DEF SettingsNotWritten, ApplyApproved, ApplyEffect, ApplySucceeded, ApplyFailed
    <3> QED
      BY <1>u, <3>1
  <2>5. ASSUME NEW written \in BOOLEAN, SettingsRolledBack(written) PROVE OwnerInv'
    <3>1. /\ UNCHANGED <<holder, waiters, auto, op, session, lastCommand>>
          /\ appSettings' \in {appSettings, save.previous} /\ save.pc = "rollback"
      BY <2>5 DEF SettingsRolledBack
    <3>2. Enabled' = Enabled
      BY <3>1 DEF DocumentInv, Enabled
    <3> QED
      BY <2>u, <3>1, <3>2
  <2> QED
    BY <1>6, <2>1, <2>2, <2>3, <2>4, <2>5 DEF Persistence
<1>7. CASE User
  <2>1. ASSUME NEW p \in Profiles, NEW readable \in BOOLEAN, Toggle(p, readable) PROVE OwnerInv'
    <3>1. UNCHANGED <<appSettings, lastCommand, auto, op>>
      BY <2>1 DEF Toggle
    <3>2. session'.OwnedProfileId = Nil /\ (Enabled => session'.Revision = session.Revision + 1)
      <4>1. CASE ~Enabled
        BY <2>1, <4>1 DEF Toggle, ManualSession, PauseForManualControl, OwnerInv
      <4>2. CASE Enabled
        <5>1. session' \in {ManualControl(Seen), ManualControl(session)}
          BY <2>1, <4>2 DEF Toggle, ManualSession, PauseForManualControl, Seen
        <5>2. /\ ManualControl(Seen).OwnedProfileId = Nil /\ ManualControl(session).OwnedProfileId = Nil
              /\ ManualControl(Seen).Revision = session.Revision + 1
              /\ ManualControl(session).Revision = session.Revision + 1
          BY <1>s, <1>i, SessionFacts
        <5> QED
          BY <5>1, <5>2
      <4> QED
        BY <4>1, <4>2
    <3>3. /\ holder' = "auto" => holder = "auto"
          /\ holder' = "none" => holder = "none" /\ waiters' = waiters
      BY <2>1 DEF Toggle
    <3> QED
      BY <1>s, <3>1, <3>2, <3>3 DEF OwnerInv, DocumentInv, Enabled
  <2>2. CASE RulesOpen \/ RowsRefreshed \/ Exit
    <3>1. UNCHANGED <<holder, waiters, auto, op, appSettings, lastCommand, session>>
      BY <2>2 DEF RulesOpen, RowsRefreshed, Exit
    <3> QED
      BY <1>u, <3>1
  <2>3. ASSUME NEW persist \in BOOLEAN, SettingsSave(persist) PROVE OwnerInv'
    BY <1>u, <2>3 DEF SettingsSave
  <2> QED
    BY <1>7, <2>1, <2>2, <2>3 DEF User
<1>8. CASE Environment
  <2>1. CASE Restart
    BY <2>1 DEF Restart, OwnerInv, NewSession
  <2>2. CASE EvaluateUnreadable
    <3>1. session'.OwnedProfileId = session.OwnedProfileId /\ session'.Revision = session.Revision
      BY <1>s, <2>2, SessionFacts DEF EvaluateUnreadable
    <3> QED
      BY <1>u, <2>2, <3>1 DEF EvaluateUnreadable
  <2>3. CASE OrphanEffect
    <3>1. /\ op' = op \/ op'.kind = "none"
          /\ UNCHANGED <<holder, waiters, auto, appSettings, lastCommand, session>>
      BY <2>3 DEF OrphanEffect, NoCommand
    <3> QED
      BY <1>u, <3>1
  <2>4. CASE ~(Restart \/ EvaluateUnreadable \/ OrphanEffect)
    <3>1. UNCHANGED <<holder, waiters, auto, op, appSettings, lastCommand, session>>
      BY <1>8, <2>4 DEF Environment, NetworkChanges, OtherVpnChanges, ServiceStep, ExternalControl,
                        TwoSecondsPass, OneMinutePasses
    <3> QED
      BY <1>u, <3>1
  <2> QED
    BY <2>1, <2>2, <2>3, <2>4
<1>9. CASE UNCHANGED vars
  BY <1>u, <1>9 DEF vars
<1> QED
  BY <1>2, <1>3, <1>4, <1>5, <1>6, <1>7, <1>8, <1>9 DEF Next

(* Two observations of the same network are one observation.               *)
LEMMA SeenFacts ==
    ASSUME TypeInv
    PROVE  /\ session \in Sessions /\ Seen \in Sessions
           /\ Seen.NetworkIdentity = Identity
           /\ session.NetworkIdentity = Identity => Seen = session
           /\ Seen # session => session.NetworkIdentity # Identity
           /\ Seen.Generation = session.Generation => Seen = session
<1>1. session \in Sessions /\ Seen \in Sessions
  BY IdentityType DEF TypeInv, TypeOK
<1> QED
  BY <1>1, SessionFacts DEF Seen

(* The pause that a click leaves behind lasts while the network and the    *)
(* rules stay as they are.                                                 *)
LEMMA IntentInductive ==
    ASSUME ~OverlappingSaves
    PROVE  /\ Init => IntentInv
           /\ TypeInv /\ DocumentInv /\ IntentInv /\ [Next]_vars => IntentInv'
<1> USE DEF envVars, svcVars, gateVars, timeVars, saveVars, docVars, histVars
<1>1. Init => IntentInv
  BY DEF Init, IntentInv
<1> SUFFICES ASSUME TypeInv, DocumentInv, IntentInv, [Next]_vars PROVE IntentInv'
  BY <1>1
<1>s. /\ session \in Sessions /\ Seen \in Sessions
      /\ Seen.NetworkIdentity = Identity
      /\ session.NetworkIdentity = Identity => Seen = session
  BY SeenFacts
<1>d. UNCHANGED <<net, Policy>> => Identity' = Identity /\ Enabled' = Enabled
  BY DEF Identity, Ssid, Enabled
<1>p. UNCHANGED appSettings => UNCHANGED Policy
  BY DEF Policy
<1>u. ASSUME UNCHANGED <<net, Policy, manualHold>>,
             session.NetworkIdentity = Identity => session'.NetworkIdentity = session.NetworkIdentity,
             session.NetworkIdentity = Identity /\ IsPaused(session) => IsPaused(session')
      PROVE  IntentInv'
  BY <1>d, <1>u DEF IntentInv, IsPaused
<1>v. UNCHANGED <<net, Policy, manualHold, session>> => IntentInv'
  BY <1>u DEF IsPaused
<1>m. ASSUME NEW readable \in BOOLEAN, ManualSession(readable), UNCHANGED <<net, Policy>> PROVE IntentInv'
  <2>1. CASE ~Enabled
    BY <1>d, <1>m, <2>1 DEF IntentInv
  <2>2. CASE Enabled
    <3>1. IsPaused(session') /\ session' \in {ManualControl(Seen), ManualControl(session)}
          /\ (readable => session' = ManualControl(Seen))
      BY <1>s, <1>m, <2>2, SessionFacts DEF ManualSession, PauseForManualControl, Seen
    <3>2. /\ ManualControl(Seen).NetworkIdentity = Identity
          /\ ManualControl(session).NetworkIdentity = session.NetworkIdentity
      BY <1>s, SessionFacts
    <3>3. CASE readable
      BY <1>d, <1>m, <3>1, <3>2, <3>3 DEF IntentInv, IsPaused
    <3>4. CASE ~readable
      <4>1. manualHold' => manualHold
        BY <1>m, <3>4 DEF ManualSession
      <4> QED
        BY <1>d, <1>m, <1>s, <2>2, <3>1, <3>2, <4>1 DEF IntentInv, IsPaused
    <3> QED
      BY <3>3, <3>4
  <2> QED
    BY <2>1, <2>2
<1>2. CASE Evaluator
  <2>0. UNCHANGED <<net, Policy, manualHold>>
    BY <1>2, <1>p DEF Evaluator, EvaluateUnstable, EvaluateHolds, EvaluateStoppedOutside, EvaluateRejects,
       EvaluateStops, EvaluateStarts, AutomaticStopped, AutomaticStarted, AutomaticFailed
  <2>1. CASE session' = Seen
    BY <1>s, <1>u, <2>0, <2>1
  <2>2. ASSUME NEW s \in {session, Seen}, session' \in {PauseAfterFailure(s), ManualControl(s)} PROVE IntentInv'
    <3>1. IsPaused(session') /\ session'.NetworkIdentity = s.NetworkIdentity
      <4>1. s \in Sessions
        BY <1>s, <2>2
      <4>2. /\ IsPaused(PauseAfterFailure(s)) /\ PauseAfterFailure(s).NetworkIdentity = s.NetworkIdentity
            /\ IsPaused(ManualControl(s)) /\ ManualControl(s).NetworkIdentity = s.NetworkIdentity
        BY <4>1, SessionFacts
      <4> QED
        BY <2>2, <4>2
    <3> QED
      BY <1>s, <1>u, <2>0, <2>2, <3>1
  <2>3. CASE AutomaticStarted /\ session' = Connected(session, auto.desired, auto.stamp[1], Enabled)
    <3>1. Enabled \in BOOLEAN
      BY PolicyAssumption DEF TypeInv, TypeOK, Enabled, Policy, Settings
    <3> QED
      BY <1>s, <1>u, <2>0, <2>3, <3>1, SessionFacts
  <2>4. ASSUME session' \in {Disconnected(session), ObserveNetwork(Disconnected(session), Identity)}
        PROVE  IntentInv'
    <3>1. /\ Disconnected(session) \in Sessions
          /\ Disconnected(session).NetworkIdentity = session.NetworkIdentity
          /\ IsPaused(Disconnected(session)) <=> IsPaused(session)
      <4>1. Identity \in Identities
        BY IdentityType DEF TypeInv
      <4> QED
        BY <1>s, <4>1, SessionFacts, SessionTypes
    <3>2. session.NetworkIdentity = Identity =>
            ObserveNetwork(Disconnected(session), Identity) = Disconnected(session)
      BY <3>1, SessionFacts
    <3> QED
      BY <1>u, <2>0, <2>4, <3>1, <3>2
  <2>5. CASE EvaluateUnstable \/ EvaluateHolds \/ EvaluateStops \/ EvaluateStarts
    BY <2>1, <2>5 DEF EvaluateUnstable, EvaluateHolds, EvaluateStops, EvaluateStarts
  <2>6. CASE EvaluateStoppedOutside \/ EvaluateRejects
    BY <2>2, <2>6 DEF EvaluateStoppedOutside, EvaluateRejects
  <2>7. CASE AutomaticStopped
    BY <2>2, <2>4, <2>7 DEF AutomaticStopped
  <2>8. CASE AutomaticStarted \/ AutomaticFailed
    BY <2>2, <2>3, <2>8 DEF AutomaticStarted, AutomaticFailed
  <2> QED
    BY <1>2, <2>5, <2>6, <2>7, <2>8 DEF Evaluator
<1>3. CASE GateCommand
  BY <1>v, <1>p, <1>3 DEF GateCommand, GateApproved, GateEffect, GateSucceeded
<1>4. CASE Interactive
  BY <1>v, <1>p, <1>4 DEF Interactive, ManualResumes, ManualDone, EvaluateOnDemand, DemandChanges, DemandDone,
     InteractiveFailed, FailureShown, FailureDismissed, MessageDismissed
<1>5. CASE Rules
  <2>1. CASE RulesWritten
    BY <2>1 DEF RulesWritten, IntentInv
  <2>2. CASE ~RulesWritten
    BY <1>v, <1>p, <1>5, <2>2 DEF Rules, RulesSave, RulesNotSaved
  <2> QED
    BY <2>1, <2>2
<1>6. CASE Persistence
  <2>1. ASSUME NEW yes \in BOOLEAN, SettingsConfirmed(yes) PROVE IntentInv'
    <3>1. UNCHANGED <<net, Policy>> /\ (ManualSession(TRUE) \/ UNCHANGED <<session, manualHold>>)
      BY <1>p, <2>1 DEF SettingsConfirmed
    <3> QED
      BY <1>m, <1>v, <3>1
  <2>2. ASSUME UNCHANGED <<net, session, manualHold>>,
               UNCHANGED appSettings \/ (save.pc # "idle" /\ appSettings' \in {save.new, save.previous})
        PROVE  IntentInv'
    <3>1. UNCHANGED Policy
      BY <2>2 DEF DocumentInv, Policy
    <3> QED
      BY <1>v, <2>2, <3>1
  <2>3. CASE SettingsWritten \/ ApplyContinues
    BY <2>2, <2>3 DEF SettingsWritten, ApplyContinues, SettingsCommit
  <2>4. CASE SettingsNotWritten \/ ApplyApproved \/ ApplyEffect \/ ApplySucceeded \/ ApplyFailed
    BY <2>2, <2>4 DEF SettingsNotWritten, ApplyApproved, ApplyEffect, ApplySucceeded, ApplyFailed
  <2>5. ASSUME NEW written \in BOOLEAN, SettingsRolledBack(written) PROVE IntentInv'
    BY <2>2, <2>5 DEF SettingsRolledBack
  <2> QED
    BY <1>6, <2>1, <2>3, <2>4, <2>5 DEF Persistence
<1>7. CASE User
  <2>1. ASSUME NEW p \in Profiles, NEW readable \in BOOLEAN, Toggle(p, readable) PROVE IntentInv'
    BY <1>m, <1>p, <2>1 DEF Toggle
  <2>2. CASE RulesOpen \/ RowsRefreshed \/ Exit
    BY <1>v, <1>p, <2>2 DEF RulesOpen, RowsRefreshed, Exit
  <2>3. ASSUME NEW persist \in BOOLEAN, SettingsSave(persist) PROVE IntentInv'
    BY <1>v, <1>p, <2>3 DEF SettingsSave
  <2> QED
    BY <1>7, <2>1, <2>2, <2>3 DEF User
<1>8. CASE Environment
  <2>1. ASSUME ~manualHold' PROVE IntentInv'
    BY <2>1 DEF IntentInv
  <2>2. CASE EvaluateUnreadable
    <3>1. IsPaused(session') /\ session'.NetworkIdentity = session.NetworkIdentity
      BY <1>s, <2>2, SessionFacts DEF EvaluateUnreadable
    <3> QED
      BY <1>u, <1>p, <2>2, <3>1 DEF EvaluateUnreadable
  <2>3. CASE Restart \/ \E n \in Networks : NetworkChanges(n)
    BY <2>1, <2>3 DEF Restart, NetworkChanges
  <2>4. CASE ~(Restart \/ EvaluateUnreadable \/ \E n \in Networks : NetworkChanges(n))
    BY <1>v, <1>p, <1>8, <2>4 DEF Environment, OtherVpnChanges, ServiceStep, ExternalControl, TwoSecondsPass,
       OneMinutePasses, OrphanEffect
  <2> QED
    BY <2>2, <2>3, <2>4
<1>9. CASE UNCHANGED vars
  BY <1>v, <1>p, <1>9 DEF vars
<1> QED
  BY <1>2, <1>3, <1>4, <1>5, <1>6, <1>7, <1>8, <1>9 DEF Next

(* One failure pauses; only a new network or new rules end the pause.      *)
LEMMA FailureInductive ==
    (Init => FailureInv) /\ (TypeInv /\ FailureInv /\ [Next]_vars => FailureInv')
<1> USE DEF envVars, svcVars, gateVars, timeVars, saveVars, docVars, histVars
<1>1. Init => FailureInv
  BY DEF Init, FailureInv
<1> SUFFICES ASSUME TypeInv, FailureInv, [Next]_vars PROVE FailureInv'
  BY <1>1
<1>s. /\ session \in Sessions /\ Seen \in Sessions /\ failures \in Nat
      /\ Seen.Generation = session.Generation => Seen = session
  BY SeenFacts DEF TypeInv, TypeOK
<1>r. Release => holder' # "auto"
  BY DEF Release
<1>u. ASSUME UNCHANGED failures, holder' = "auto" => holder = "auto", IsPaused(session) => IsPaused(session')
      PROVE  FailureInv'
  BY <1>u DEF FailureInv
<1>v. UNCHANGED <<failures, session>> /\ (holder' = "auto" => holder = "auto") => FailureInv'
  BY <1>u DEF IsPaused
<1>z. ASSUME failures' = 0 PROVE FailureInv'
  BY <1>z DEF FailureInv
<1>o. ASSUME session' = Seen, failures' = (IF Seen = session THEN failures ELSE 0), UNCHANGED holder
      PROVE  FailureInv'
  BY <1>o, <1>v, <1>z
<1>m. ASSUME NEW readable \in BOOLEAN, ManualSession(readable), holder' = "auto" => holder = "auto"
      PROVE  FailureInv'
  <2>1. CASE ~Enabled
    BY <1>m, <1>v, <1>z, <2>1 DEF ManualSession, PauseForManualControl
  <2>2. CASE Enabled
    <3>1. session' \in {ManualControl(Seen), ManualControl(session)} /\ failures' \in {failures, 0}
      BY <1>m, <2>2 DEF ManualSession, PauseForManualControl, Seen
    <3>2. IsPaused(session')
      BY <1>s, <3>1, SessionFacts
    <3> QED
      BY <1>m, <1>u, <1>z, <3>1, <3>2
  <2> QED
    BY <2>1, <2>2
<1>f. ASSUME NEW n \in {failures, 0}, n = 0, failures' = n + 1, holder' # "auto", IsPaused(session')
      PROVE  FailureInv'
  BY <1>f DEF FailureInv
<1>2. CASE Evaluator
  <2>1. CASE EvaluateUnstable \/ EvaluateHolds
    BY <1>o, <2>1 DEF EvaluateUnstable, EvaluateHolds
  <2>2. CASE EvaluateStoppedOutside
    <3>1. IsPaused(session')
      BY <1>s, <2>2, SessionFacts DEF EvaluateStoppedOutside
    <3> QED
      BY <1>u, <1>z, <2>2, <3>1 DEF EvaluateStoppedOutside
  <2>3. Deciding(Seen) /\ Seen = session => failures = 0
    BY <1>s DEF Deciding, Undisturbed, FailureInv
  <2>4. CASE EvaluateRejects
    <3>1. IsPaused(session') /\ holder' # "auto"
      BY <1>s, <2>4, SessionFacts DEF EvaluateRejects, Deciding, Polled
    <3>2. failures' = 1
      BY <2>3, <2>4 DEF EvaluateRejects
    <3> QED
      BY <3>1, <3>2 DEF FailureInv
  <2>5. CASE EvaluateStops \/ EvaluateStarts
    BY <1>z, <2>3, <2>5 DEF EvaluateStops, EvaluateStarts, Accepted
  <2>6. CASE AutomaticStopped
    <3>1. failures = 0
      BY <2>6 DEF AutomaticStopped, Stopping, FailureInv
    <3>2. CASE failures' = 0
      BY <1>z, <3>2
    <3>3. CASE failures' # 0
      <4>1. session' = PauseAfterFailure(session) /\ failures' = failures + 1 /\ Release
        BY <2>6, <3>1, <3>3 DEF AutomaticStopped
      <4>2. IsPaused(session')
        BY <1>s, <4>1, SessionFacts
      <4> QED
        BY <1>f, <1>r, <3>1, <4>1, <4>2
    <3> QED
      BY <3>2, <3>3
  <2>7. CASE AutomaticStarted \/ AutomaticFailed
    <3>1. failures = 0 /\ Release
      BY <2>7 DEF AutomaticStarted, AutomaticFailed, Starting, FailureInv
    <3>2. CASE failures' = 0
      BY <1>z, <3>2
    <3>3. CASE failures' # 0
      <4>1. session' = PauseAfterFailure(session) /\ failures' = failures + 1
        BY <2>7, <3>1, <3>3 DEF AutomaticStarted, AutomaticFailed
      <4>2. IsPaused(session')
        BY <1>s, <4>1, SessionFacts
      <4> QED
        BY <1>f, <1>r, <3>1, <4>1, <4>2
    <3> QED
      BY <3>2, <3>3
  <2> QED
    BY <1>2, <2>1, <2>2, <2>4, <2>5, <2>6, <2>7 DEF Evaluator
<1>3. CASE GateCommand
  BY <1>v, <1>3 DEF GateCommand, GateApproved, GateEffect, GateSucceeded
<1>4. CASE Interactive
  <2>1. UNCHANGED <<failures, session>> /\ (holder' = "auto" => holder = "auto")
    BY <1>r, <1>4 DEF Interactive, ManualResumes, ManualDone, EvaluateOnDemand, DemandChanges, DemandDone,
       InteractiveFailed, FailureShown, FailureDismissed, MessageDismissed
  <2> QED
    BY <1>v, <2>1
<1>5. CASE Rules
  BY <1>v, <1>z, <1>5 DEF Rules, RulesSave, RulesWritten, RulesNotSaved
<1>6. CASE Persistence
  <2>1. ASSUME NEW yes \in BOOLEAN, SettingsConfirmed(yes) PROVE FailureInv'
    <3>1. UNCHANGED holder /\ (ManualSession(TRUE) \/ UNCHANGED <<session, failures>>)
      BY <2>1 DEF SettingsConfirmed
    <3> QED
      BY <1>m, <1>v, <3>1
  <2>2. CASE ~\E yes \in BOOLEAN : SettingsConfirmed(yes)
    BY <1>v, <1>6, <2>2 DEF Persistence, SettingsWritten, SettingsNotWritten, ApplyContinues, ApplyApproved,
       ApplyEffect, ApplySucceeded, ApplyFailed, SettingsRolledBack
  <2> QED
    BY <2>1, <2>2
<1>7. CASE User
  <2>1. ASSUME NEW p \in Profiles, NEW readable \in BOOLEAN, Toggle(p, readable) PROVE FailureInv'
    BY <1>m, <2>1 DEF Toggle
  <2>2. CASE ~\E p \in Profiles, readable \in BOOLEAN : Toggle(p, readable)
    BY <1>v, <1>7, <2>2 DEF User, RulesOpen, SettingsSave, RowsRefreshed, Exit
  <2> QED
    BY <2>1, <2>2
<1>8. CASE Environment
  <2>1. CASE EvaluateUnreadable
    <3>1. IsPaused(session')
      BY <1>s, <2>1, SessionFacts DEF EvaluateUnreadable
    <3> QED
      BY <1>u, <2>1, <3>1 DEF EvaluateUnreadable
  <2>2. CASE ~EvaluateUnreadable
    BY <1>v, <1>z, <1>8, <2>2 DEF Environment, Restart, NetworkChanges, OtherVpnChanges, ServiceStep,
       ExternalControl, TwoSecondsPass, OneMinutePasses, OrphanEffect
  <2> QED
    BY <2>1, <2>2
<1>9. CASE UNCHANGED vars
  BY <1>v, <1>9 DEF vars
<1> QED
  BY <1>2, <1>3, <1>4, <1>5, <1>6, <1>7, <1>8, <1>9 DEF Next

(* The four parts and the types hold in every reachable state.             *)
LEMMA SafetyHolds ==
    ASSUME ~OverlappingSaves PROVE Spec => []Safety
<1>1. Init => Safety
  BY TypeInvInductive, DocumentInductive, OwnerInductive, IntentInductive, FailureInductive DEF Safety
<1>2. Safety /\ [Next]_vars => Safety'
  BY TypeInvInductive, DocumentInductive, OwnerInductive, IntentInductive, FailureInductive DEF Safety
<1> QED
  BY <1>1, <1>2, PTL DEF Spec

(* "It never adopts a manual connection."  Automation owns no tunnel that  *)
(* a click or an On-Demand rule commanded last.                            *)
THEOREM OwnershipCorrect ==
    ASSUME ~OverlappingSaves PROVE Spec => []OwnershipIsAutomatic
<1>1. Safety => OwnershipIsAutomatic
  BY DEF Safety, OwnerInv
<1> QED
  BY <1>1, SafetyHolds, PTL

(* From the click to the end of its command automation owns nothing, so a  *)
(* handover that completes late claims nothing.                            *)
THEOREM QueuedClickCorrect ==
    ASSUME ~OverlappingSaves PROVE Spec => []QueuedClickOwnsNothing
<1>1. Safety => QueuedClickOwnsNothing
  BY DEF Safety, OwnerInv
<1> QED
  BY <1>1, SafetyHolds, PTL

(* The variables keep their types, and there is one failed automatic       *)
(* attempt per network and per saved set of rules, even when saves         *)
(* overlap.                                                                *)
THEOREM SessionIsSafe == Spec => []SessionSafe
<1>1. TypeInv /\ FailureInv => SessionSafe
  BY DEF TypeInv, FailureInv, FailsOncePerNetwork, SessionSafe
<1>2. Init => TypeInv /\ FailureInv
  BY TypeInvInductive, FailureInductive
<1>3. TypeInv /\ FailureInv /\ [Next]_vars => (TypeInv /\ FailureInv)'
  BY TypeInvInductive, FailureInductive
<1> QED
  BY <1>1, <1>2, <1>3, PTL DEF Spec

(* After a click automation sends no command until the network or the      *)
(* rules change.                                                           *)
THEOREM ManualIntentCorrect ==
    ASSUME ~OverlappingSaves PROVE Spec => ManualIntentRespected
<1>1. Safety /\ [Next]_vars => [AutomaticCommand => ~manualHold]_vars
  <2> SUFFICES ASSUME Safety, Next, AutomaticCommand, manualHold PROVE FALSE
    BY DEF vars
  <2> USE DEF envVars, svcVars, gateVars, timeVars, saveVars, docVars, histVars
  <2>0. holder' = "auto" /\ op' # op /\ op'.kind # "none" /\ op'.phase = "prompt"
    BY DEF AutomaticCommand, InPhase
  <2>1. Enabled => IsPaused(session) /\ session.NetworkIdentity = Identity /\ Seen = session
    BY SeenFacts DEF Safety, IntentInv
  <2>2. CASE EvaluateStops \/ EvaluateStarts
    BY <2>1, <2>2 DEF EvaluateStops, EvaluateStarts, Accepted, Deciding, Polled, Undisturbed
  <2>3. CASE AutomaticStopped
    <3>1. session \in Sessions /\ Disconnected(session) \in Sessions
      <4>1. session \in Sessions /\ Identity \in Identities
        BY IdentityType DEF Safety, TypeInv, TypeOK
      <4> QED
        BY <4>1, SessionTypes
    <3>2. CanApplyAutomaticSwitch(ObserveNetwork(Disconnected(session), Identity), auto.stamp, auto.desired, TRUE)
      BY <2>0, <2>3 DEF AutomaticStopped, Release
    <3>3. Enabled /\ ~IsPaused(ObserveNetwork(Disconnected(session), Identity))
      BY <3>2 DEF CanApplyAutomaticSwitch, Permits
    <3>4. /\ Disconnected(session).NetworkIdentity = session.NetworkIdentity
          /\ IsPaused(Disconnected(session)) <=> IsPaused(session)
      BY <3>1, SessionFacts
    <3>5. ObserveNetwork(Disconnected(session), Identity) = Disconnected(session)
      BY <2>1, <3>1, <3>3, <3>4, SessionFacts
    <3> QED
      BY <2>1, <3>3, <3>4, <3>5
  <2>4. CASE GateCommand
    <3>1. op \in Commands
      <4>1. op.kind # "none"
        BY <2>4 DEF GateCommand, GateApproved, GateEffect, GateSucceeded, Approvable, CommandEffect,
                    CommandSucceeded, InPhase
      <4> QED
        BY <4>1 DEF NoCommand, Safety, TypeInv, TypeOK
    <3>2. op'.phase \in {"elevated", "waiting", "done"}
      BY <2>4, <3>1 DEF GateCommand, GateApproved, GateEffect, GateSucceeded, Commands
    <3> QED
      BY <2>0, <3>2
  <2>5. CASE Interactive
    <3>1. Release => holder' # "auto"
      BY DEF Release
    <3>2. CASE ManualResumes \/ ManualDone \/ EvaluateOnDemand \/ DemandChanges \/ DemandDone
      BY <2>0, <3>1, <3>2 DEF ManualResumes, ManualDone, EvaluateOnDemand, DemandChanges, DemandDone
    <3>3. CASE InteractiveFailed
      BY <2>0, <3>3 DEF InteractiveFailed
    <3>4. CASE FailureShown \/ FailureDismissed \/ MessageDismissed
      BY <2>0, <3>1, <3>4 DEF FailureShown, FailureDismissed, MessageDismissed
    <3> QED
      BY <2>5, <3>2, <3>3, <3>4 DEF Interactive
  <2>6. CASE Rules \/ Persistence \/ User
    BY <2>0, <2>6 DEF Rules, RulesSave, RulesWritten, RulesNotSaved, Persistence, SettingsConfirmed,
       SettingsWritten, SettingsNotWritten, ApplyContinues, ApplyApproved, ApplyEffect, ApplySucceeded,
       ApplyFailed, SettingsRolledBack, User, Toggle, RulesOpen, SettingsSave, RowsRefreshed, Exit
  <2>7. CASE Environment
    <3>1. op' = op \/ op' = NoCommand
      BY <2>7 DEF Environment, NetworkChanges, OtherVpnChanges, ServiceStep, ExternalControl,
         EvaluateUnreadable, TwoSecondsPass, OneMinutePasses, OrphanEffect, Restart
    <3> QED
      BY <2>0, <3>1 DEF NoCommand
  <2>8. CASE EvaluateUnstable \/ EvaluateHolds \/ EvaluateStoppedOutside \/ EvaluateRejects
    BY <2>0, <2>8 DEF EvaluateUnstable, EvaluateHolds, EvaluateStoppedOutside, EvaluateRejects
  <2>9. CASE AutomaticStarted \/ AutomaticFailed
    BY <2>0, <2>9 DEF AutomaticStarted, AutomaticFailed, Release, NoCommand
  <2> QED
    BY <2>2, <2>3, <2>4, <2>5, <2>6, <2>7, <2>8, <2>9 DEF Next, Evaluator
<1> QED
  BY <1>1, SafetyHolds, PTL DEF Spec, ManualIntentRespected

(* Without such an overlap the settings page never changes the rules: what *)
(* it builds at the click, and what it brings back when it rolls back, has *)
(* the rules of the document in memory at every await in between.          *)
THEOREM RulesStay ==
    ASSUME ~OverlappingSaves PROVE Spec => RulesChangeOnlyByDialog
<1>1. Safety /\ [Next]_vars =>
        [appSettings'.AutomaticProfiles # appSettings.AutomaticProfiles
           => dialog.pc = "saving" \/ app = "ended"]_vars
  <2> SUFFICES ASSUME Safety, Next, appSettings'.AutomaticProfiles # appSettings.AutomaticProfiles
               PROVE  dialog.pc = "saving" \/ app = "ended"
    BY DEF vars
  <2> USE DEF docVars
  <2>1. /\ save.pc # "idle" => /\ save.new.AutomaticProfiles = appSettings.AutomaticProfiles
                              /\ save.previous.AutomaticProfiles = appSettings.AutomaticProfiles
        /\ UNCHANGED appSettings => FALSE
    BY DEF Safety, DocumentInv, Policy
  <2>2. CASE Evaluator
    BY <2>1, <2>2 DEF Evaluator, EvaluateUnstable, EvaluateHolds, EvaluateStoppedOutside,
       EvaluateRejects, EvaluateStops, EvaluateStarts, Accepted, AutomaticStopped, AutomaticStarted,
       AutomaticFailed
  <2>3. CASE GateCommand
    BY <2>1, <2>3 DEF GateCommand, GateApproved, GateEffect, GateSucceeded
  <2>4. CASE Interactive
    BY <2>1, <2>4 DEF Interactive, ManualResumes, ManualDone, EvaluateOnDemand, DemandChanges,
       DemandDone, InteractiveFailed, FailureShown, FailureDismissed, MessageDismissed
  <2>5. CASE Rules
    BY <2>1, <2>5 DEF Rules, RulesSave, RulesWritten, RulesNotSaved
  <2>6. CASE Persistence
    BY <2>1, <2>6 DEF Persistence, SettingsConfirmed, SettingsWritten, SettingsCommit,
       SettingsNotWritten, ApplyContinues, ApplyApproved, ApplyEffect, ApplySucceeded, ApplyFailed,
       SettingsRolledBack
  <2>7. CASE User
    BY <2>1, <2>7 DEF User, Toggle, RulesOpen, SettingsSave, RowsRefreshed, Exit
  <2>8. CASE Environment
    BY <2>1, <2>8 DEF Environment, NetworkChanges, OtherVpnChanges, ServiceStep, ExternalControl,
       EvaluateUnreadable, TwoSecondsPass, OneMinutePasses, OrphanEffect, Restart
  <2> QED
    BY <2>2, <2>3, <2>4, <2>5, <2>6, <2>7, <2>8 DEF Next
<1> QED
  BY <1>1, SafetyHolds, PTL DEF Spec, RulesChangeOnlyByDialog

-----------------------------------------------------------------------------
(***************************************************************************)
(* A tunnel that automation owns is alone, as long as nobody else commands *)
(* tunnels: no other controller of the services, and no Settings save,     *)
(* whose reinstall of a tunnel does not hold onDemandGate.                 *)
(***************************************************************************)
NoOtherControl == \A b \in Budgets : b["external"] = 0 /\ b["save"] = 0

(* The tunnel a handover is about at the moment. *)
Commanded == IF auto.previous # Nil THEN auto.previous ELSE auto.desired
OthersInactive(t) == \A q \in Profiles : q # t => svc[q] = "Inactive"

AloneInv ==
    /\ budget["external"] = 0 /\ budget["save"] = 0 /\ save.pc = "idle"
    /\ session.OwnedProfileId # Nil => OthersInactive(session.OwnedProfileId)
    /\ holder = "none" => op.kind = "none"
    /\ holder = "auto" => /\ OthersInactive(Commanded)
                          /\ op.kind # "none" => op.profile = Commanded
                          /\ session.OwnedProfileId \in {Nil, Commanded}

(* A step that leaves the services and the gate alone.                     *)
LEMMA AloneKept ==
    ASSUME AloneInv, UNCHANGED <<svc, holder, auto, op>>, save' = save \/ save' = NoSave,
           budget' = budget \/ \E kinds : Spend(kinds),
           session'.OwnedProfileId \in {Nil, session.OwnedProfileId}
    PROVE  AloneInv'
<1>1. budget'["external"] = 0 /\ budget'["save"] = 0
  BY DEF AloneInv, Spend, BudgetKinds
<1> QED
  BY <1>1 DEF AloneInv, OthersInactive, Commanded, NoSave

(* A step that leaves the gate.                                            *)
LEMMA AloneReleased ==
    ASSUME AloneInv, Release, UNCHANGED <<svc, save, budget>>,
           session'.OwnedProfileId \in {Nil, session.OwnedProfileId}
    PROVE  AloneInv'
<1>1. holder' # "auto" /\ op'.kind = "none"
  BY DEF Release, NoCommand
<1> QED
  BY <1>1 DEF AloneInv, OthersInactive

(* A step of the elevated process of the gate holder's command, whose      *)
(* window may have closed.                                                 *)
LEMMA AloneEffect ==
    ASSUME Safety, AloneInv, CommandEffect(op), op'.kind # "none" => op'.profile = op.profile,
           UNCHANGED <<session, holder, auto, save, budget>>
    PROVE  AloneInv'
<1>1. op.kind # "none" /\ op.profile \in Profiles
  BY DEF CommandEffect, InPhase, Commands, NoCommand, Safety, TypeInv, TypeOK
<1>2. \A q \in Profiles : q # op.profile => svc'[q] = svc[q]
  BY <1>1 DEF CommandEffect, Safety, TypeInv, TypeOK
<1>3. CASE holder = "auto"
  BY <1>1, <1>2, <1>3 DEF AloneInv, OthersInactive, Commanded
<1>4. CASE holder # "auto"
  <2>1. session.OwnedProfileId = Nil
    BY <1>1, <1>4 DEF AloneInv, Safety, TypeInv, TypeOK, DocumentInv, OwnerInv,
        QueuedClickOwnsNothing
  <2> QED
    BY <1>1, <1>4, <2>1 DEF AloneInv
<1> QED
  BY <1>3, <1>4

LEMMA AloneInductive ==
    ASSUME Safety, AloneInv, [Next]_vars PROVE AloneInv'
<1> USE DEF envVars, svcVars, gateVars, timeVars, saveVars, docVars, histVars
<1>s. /\ session \in Sessions /\ session.OwnedProfileId \in MaybeProfile
      /\ Seen \in Sessions /\ Seen.OwnedProfileId = session.OwnedProfileId
  BY SessionFacts, IdentityType DEF Seen, Safety, TypeInv, TypeOK, Sessions
<1>f. \A s \in Sessions : /\ PauseAfterFailure(s).OwnedProfileId = s.OwnedProfileId
                          /\ ManualControl(s).OwnedProfileId = Nil
                          /\ Disconnected(s).OwnedProfileId = Nil
                          /\ \A p, r, e : Connected(s, p, r, e).OwnedProfileId \in {p,
                             s.OwnedProfileId}
  BY DEF Sessions, PauseAfterFailure, ManualControl, Disconnected, Connected
<1>a. applyOp.kind = "none" /\ modal # "confirm"
  BY DEF AloneInv, Safety, TypeInv, Locals, NoCommand
<1>c. ASSUME NEW p \in Profiles, NEW by, ChangeLocalProfileState(p, by)
      PROVE  op'.kind # "none" => op'.profile = p
  BY <1>c DEF ChangeLocalProfileState, Command, NoCommand
<1>e. ActiveLocalProfileIds = {} => \A q : OthersInactive(q)
  BY DEF ActiveLocalProfileIds, OthersInactive
<1>1. CASE EvaluateUnstable \/ EvaluateHolds \/ EvaluateStoppedOutside \/ EvaluateRejects
  <2>1. session'.OwnedProfileId \in {Nil, session.OwnedProfileId}
    BY <1>s, <1>f, <1>1
       DEF EvaluateUnstable, EvaluateHolds, EvaluateStoppedOutside, EvaluateRejects
  <2> QED
    BY <1>1, <2>1, AloneKept DEF EvaluateUnstable, EvaluateHolds, EvaluateStoppedOutside,
        EvaluateRejects
<1>2. CASE EvaluateStops
  <2>1. /\ holder' = "auto" /\ auto'.previous = session.OwnedProfileId
          /\ session.OwnedProfileId \in Profiles
        /\ session' = Seen /\ UNCHANGED <<svc, save, budget>>
        /\ ChangeLocalProfileState(session.OwnedProfileId, "auto")
    BY <1>s, <1>2 DEF EvaluateStops, MustStop, MaybeProfile
  <2>2. OthersInactive(session.OwnedProfileId)
    BY <2>1, ProfilesAssumption DEF AloneInv
  <2> QED
    BY <1>s, <1>c, <2>1, <2>2, ProfilesAssumption DEF AloneInv, OthersInactive, Commanded
<1>3. CASE EvaluateStarts
  <2>1. /\ holder' = "auto" /\ auto'.previous = Nil /\ auto'.desired = Decision.profile
        /\ session' = Seen /\ UNCHANGED <<svc, save, budget>>
        /\ ChangeLocalProfileState(Decision.profile, "auto")
    BY <1>3 DEF EvaluateStarts
  <2>2. Decision.profile \in Profiles
    BY <1>3, DecisionType DEF EvaluateStarts, MustStart, MaybeProfile, Safety, TypeInv
  <2>3. ActiveLocalProfileIds = {}
    BY <1>3 DEF EvaluateStarts, CanApplyAutomaticSwitch, Permits
  <2>4. session.OwnedProfileId = Nil
    BY <1>s, <1>3, <2>3 DEF EvaluateStarts, Accepted, Deciding, StoppedOutside
  <2> QED
    BY <1>s, <1>c, <1>e, <2>1, <2>2, <2>3, <2>4 DEF AloneInv, OthersInactive, Commanded
<1>4. CASE AutomaticStopped
  <2> DEFINE s == Disconnected(session)
             seen == ObserveNetwork(s, Identity)
  <2>1. s \in Sessions /\ s.OwnedProfileId = Nil /\ seen.OwnedProfileId = Nil
    <3>1. s \in Sessions /\ s.OwnedProfileId = Nil /\ Identity \in Identities
      BY <1>s, <1>f, SessionTypes, IdentityType DEF Safety, TypeInv
    <3> QED
      BY <3>1, SessionFacts
  <2>2. CASE Release
    <3>1. session' \in {PauseAfterFailure(session), s, seen} /\ UNCHANGED <<svc, save, budget>>
      BY <1>4 DEF AutomaticStopped
    <3>2. session'.OwnedProfileId \in {Nil, session.OwnedProfileId}
      BY <1>s, <2>1, <3>1, SessionFacts
    <3> QED
      BY <2>2, <3>1, <3>2, AloneReleased
  <2>3. CASE ~Release
    <3>1. /\ session' = seen /\ auto' = [auto EXCEPT !.previous = Nil] /\ auto.desired # Nil
          /\ CanApplyAutomaticSwitch(seen, auto.stamp, auto.desired, TRUE)
          /\ ChangeLocalProfileState(auto.desired, "auto")
          /\ holder = "auto" /\ UNCHANGED <<svc, save, budget, holder>>
      BY <1>4, <2>3 DEF AutomaticStopped, Stopping
    <3>2. auto.desired \in Profiles /\ auto'.previous = Nil /\ auto'.desired = auto.desired
      BY <3>1 DEF Safety, TypeInv, TypeOK, MaybeProfile
    <3>3. ActiveLocalProfileIds = {}
      BY <3>1 DEF CanApplyAutomaticSwitch, Permits
    <3> QED
      BY <1>c, <1>e, <2>1, <3>1, <3>2, <3>3 DEF AloneInv, OthersInactive, Commanded
  <2> QED
    BY <2>2, <2>3
<1>5. CASE AutomaticStarted
  <2>1. /\ Release /\ UNCHANGED <<svc, save, budget>> /\ holder = "auto" /\ auto.previous = Nil
    BY <1>5 DEF AutomaticStarted, Starting
  <2>2. session'.OwnedProfileId \in {auto.desired, session.OwnedProfileId}
    BY <1>s, <1>f, <1>5 DEF AutomaticStarted
  <2>3. OthersInactive(auto.desired)
    BY <2>1 DEF AloneInv, Commanded
  <2>4. holder' # "auto" /\ op'.kind = "none"
    BY <2>1 DEF Release, NoCommand
  <2> QED
    BY <2>1, <2>2, <2>3, <2>4 DEF AloneInv, OthersInactive
<1>6. CASE AutomaticFailed
  <2>1. session'.OwnedProfileId = session.OwnedProfileId
    BY <1>s, <1>6, SessionFacts DEF AutomaticFailed
  <2> QED
    BY <1>6, <2>1, AloneReleased DEF AutomaticFailed
<1>7. CASE GateApproved \/ GateSucceeded
  <2>1. /\ op.kind # "none" /\ op'.profile = op.profile
        /\ UNCHANGED <<svc, session, holder, auto, save, budget>>
    BY <1>7 DEF GateApproved, GateSucceeded, Approvable, CommandSucceeded, InPhase, Safety,
        TypeInv, TypeOK,
                Commands, NoCommand
  <2> QED
    BY <2>1 DEF AloneInv, OthersInactive, Commanded
<1>8. CASE GateEffect
  <2>1. op'.profile = op.profile
    BY <1>8 DEF GateEffect, CommandEffect, InPhase, Safety, TypeInv, TypeOK, Commands, NoCommand
  <2> QED
    BY <1>8, <2>1, AloneEffect DEF GateEffect
<1>9. CASE Interactive
  <2>1. CASE Release
    <3>1. UNCHANGED <<svc, save, budget, session>>
      BY <1>9 DEF Interactive, ManualResumes, ManualDone, EvaluateOnDemand, DemandChanges,
          DemandDone,
                  InteractiveFailed, FailureShown, FailureDismissed, MessageDismissed
    <3> QED
      BY <2>1, <3>1, AloneReleased
  <2>2. CASE MessageDismissed \/ (FailureShown /\ UNCHANGED <<holder, auto, op>>)
    BY <2>2, AloneKept DEF MessageDismissed, FailureShown
  <2>3. CASE \/ ManualResumes /\ ~Release
             \/ EvaluateOnDemand \/ DemandChanges \/ InteractiveFailed
    <3>1. /\ holder' \in {"manual", "demand"} /\ UNCHANGED <<svc, save, budget, session>>
      BY <2>3 DEF ManualResumes, EvaluateOnDemand, DemandChanges, InteractiveFailed
    <3> QED
      BY <3>1 DEF AloneInv, OthersInactive
  <2> QED
    BY <1>9, <2>1, <2>2, <2>3 DEF Interactive, ManualDone, DemandDone, FailureShown,
        FailureDismissed
<1>10. CASE Rules
  <2>1. UNCHANGED <<svc, save, budget, holder, auto, op>>
    BY <1>10 DEF Rules, RulesSave, RulesWritten, RulesNotSaved
  <2>2. session'.OwnedProfileId \in {Nil, session.OwnedProfileId}
    <3>1. CASE RulesWritten
      <4>1. dialog.settings.AutomaticProfiles.Enabled \in BOOLEAN
        BY <3>1, PolicyAssumption DEF RulesWritten, Safety, TypeInv, TypeOK, NoDialog, Settings
      <4> QED
        BY <1>s, <3>1, <4>1, SessionFacts DEF RulesWritten
    <3>2. CASE ~RulesWritten
      BY <1>10, <3>2 DEF Rules, RulesSave, RulesNotSaved
    <3> QED
      BY <3>1, <3>2
  <2> QED
    BY <2>1, <2>2, AloneKept
<1>11. CASE Persistence
  BY <1>a, <1>11
     DEF AloneInv, Persistence, SettingsConfirmed, SettingsWritten, SettingsNotWritten,
         ApplyContinues,
         ApplyApproved, ApplyEffect, ApplySucceeded, ApplyFailed, SettingsRolledBack, Approvable,
         CommandEffect, CommandSucceeded, CommandCanFail, InPhase
<1>12. CASE User
  <2>1. ASSUME NEW p \in Profiles, NEW readable \in BOOLEAN, Toggle(p, readable) PROVE AloneInv'
    <3>1. UNCHANGED <<svc, save, auto, op>> /\ \E kinds : Spend(kinds)
      BY <2>1 DEF Toggle
    <3>2. session'.OwnedProfileId \in {Nil, session.OwnedProfileId}
      BY <1>s, <2>1, SessionFacts DEF Toggle, ManualSession, PauseForManualControl, Seen
    <3>3. CASE holder' = holder
      BY <3>1, <3>2, <3>3, AloneKept
    <3>4. CASE holder' # holder
      <4>1. holder' = "manual"
        BY <2>1, <3>4 DEF Toggle
      <4>2. budget'["external"] = 0 /\ budget'["save"] = 0
        BY <3>1 DEF AloneInv, Spend, BudgetKinds
      <4> QED
        BY <3>1, <3>2, <4>1, <4>2 DEF AloneInv, OthersInactive
    <3> QED
      BY <3>3, <3>4
  <2>2. CASE RulesOpen \/ RowsRefreshed \/ Exit
    BY <2>2, AloneKept DEF RulesOpen, RowsRefreshed, Exit
  <2>3. ASSUME NEW persist \in BOOLEAN, SettingsSave(persist) PROVE AloneInv'
    BY <2>3 DEF SettingsSave, Spend, AloneInv
  <2> QED
    BY <1>12, <2>1, <2>2, <2>3 DEF User
<1>13. CASE Environment
  <2>1. ASSUME NEW n \in Networks, NetworkChanges(n) PROVE AloneInv'
    BY <2>1, AloneKept DEF NetworkChanges
  <2>2. CASE OtherVpnChanges \/ TwoSecondsPass \/ OneMinutePasses
    BY <2>2, AloneKept DEF OtherVpnChanges, TwoSecondsPass, OneMinutePasses
  <2>3. ASSUME NEW p \in Profiles, ServiceStep(p) PROVE AloneInv'
    <3>1. /\ svc[p] # "Inactive" /\ \A q \in Profiles : q # p => svc'[q] = svc[q]
          /\ UNCHANGED <<session, holder, auto, op, save, budget>>
      BY <2>3 DEF ServiceStep, Safety, TypeInv, TypeOK
    <3>2. \A t : OthersInactive(t) => OthersInactive(t)'
      BY <3>1 DEF OthersInactive
    <3> QED
      BY <3>1, <3>2 DEF AloneInv, Commanded
  <2>4. ASSUME NEW p \in Profiles, ExternalControl(p) PROVE AloneInv'
    BY <2>4 DEF ExternalControl, Spend, AloneInv
  <2>5. CASE EvaluateUnreadable
    <3>1. session'.OwnedProfileId = session.OwnedProfileId
      BY <1>s, <2>5, SessionFacts DEF EvaluateUnreadable
    <3> QED
      BY <2>5, <3>1, AloneKept DEF EvaluateUnreadable
  <2>6. CASE OrphanEffect
    BY <1>a, <2>6, AloneEffect DEF OrphanEffect, CommandEffect, InPhase, NoCommand
  <2>7. CASE Restart
    BY <2>7 DEF Restart, AloneInv, NewSession, NoSave, NoCommand
  <2> QED
    BY <1>13, <2>1, <2>2, <2>3, <2>4, <2>5, <2>6, <2>7 DEF Environment
<1>14. CASE UNCHANGED vars
  BY <1>14, AloneKept DEF vars
<1> QED
  BY <1>1, <1>2, <1>3, <1>4, <1>5, <1>6, <1>7, <1>8, <1>9, <1>10, <1>11, <1>12, <1>13, <1>14
     DEF Next, Evaluator, GateCommand

(* A tunnel that automation owns is the only local one, through every      *)
(* handover, click, queue, failure, exit and restart: the switch checks    *)
(* that nothing else runs, and holds the gate until it has finished        *)
(* (AutomaticProfileSession.Permits).                                      *)
THEOREM OwnedIsAlone ==
    ASSUME ~OverlappingSaves, NoOtherControl PROVE Spec => []OwnedTunnelIsAlone
<1>1. Init => AloneInv
  BY DEF Init, AloneInv, NoOtherControl, NewSession, NoSave, NoCommand
<1>2. Safety /\ AloneInv /\ [Next]_vars => AloneInv'
  BY AloneInductive
<1>3. AloneInv => OwnedTunnelIsAlone
  BY DEF AloneInv, OthersInactive, OwnedTunnelIsAlone
<1> QED
  BY <1>1, <1>2, <1>3, SafetyHolds, PTL DEF Spec
=============================================================================
