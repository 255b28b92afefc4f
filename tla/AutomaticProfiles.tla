------------------------- MODULE AutomaticProfiles -------------------------
(***************************************************************************)
(* The WireRoute tray application as a controller of tunnel services:      *)
(*   - the automatic profile evaluator and its session (ownership, pause), *)
(*   - the legacy single-profile On-Demand evaluator,                      *)
(*   - manual clicks, which queue on onDemandGate behind either,           *)
(*   - the Settings page (persistent mode, with its rollback) and the      *)
(*     Automatic profiles dialog, which both write the settings document.  *)
(* All of it runs on one UI thread, so code between two awaits is one      *)
(* action, and anything may happen at an await: another handler, a network *)
(* change, the answer to an elevation prompt, a tunnel service changing    *)
(* state.  The tunnel services themselves are the environment (svc).       *)
(***************************************************************************)
EXTENDS ProfilePolicy, FiniteSets

CONSTANTS
    Profiles,           \* the locally stored, unmanaged profiles
    Networks, NoNetwork,\* physical networks; NoNetwork is "none"
    NetTransport, NetSsid,
    Policies,           \* the policies a user may save
    OnDemand,           \* OnDemand[p]: the transports of p's legacy rules
    Hooked,             \* profiles refused before a start: script hooks
    Encrypted,          \* profiles that use the in-process DNS proxy
    InitialSettings,    \* the settings documents found at start-up
    InitialServices,    \* the service states found at start-up
    Budgets,            \* how often each environment event may happen
    OverlappingSaves    \* may the rules dialog open during a Settings save?

ServiceStates == {"Inactive", "Activating", "Active", "Deactivating"}
BudgetKinds == {"net", "vpn", "external", "click", "save", "rules", "refresh", "unreadable", "exit"}
Settings == [AutomaticProfiles : Policies, PersistentTunnelService : BOOLEAN,
             SingleProfileOnDemandSuspended : BOOLEAN]
Identities == Networks \X ({NetSsid[n] : n \in Networks} \cup {Nil})
MaybeProfile == Profiles \cup {Nil}

ASSUME ProfilesAssumption == Nil \notin Profiles /\ Hooked \subseteq Profiles /\ Encrypted \subseteq Profiles
ASSUME NetworksAssumption ==
    /\ NoNetwork \in Networks
    /\ NetTransport \in [Networks -> Transports]
    /\ OnDemand \in [Profiles -> SUBSET Transports]
    /\ \A n \in Networks : <<n, Nil>> # Nil /\ <<n, NetSsid[n]>> # Nil
ASSUME PolicyAssumption ==
    /\ InitialSettings \subseteq Settings
    /\ InitialServices \subseteq [Profiles -> ServiceStates]
    /\ \A policy \in Policies : policy.Enabled \in BOOLEAN
    /\ \A policy \in Policies, n \in Networks, s \in {NetSsid[m] : m \in Networks} \cup {Nil} :
          Decide(policy, NetTransport[n], s, Profiles).profile \in MaybeProfile
ASSUME BudgetAssumption == Budgets \subseteq [BudgetKinds -> Nat] /\ OverlappingSaves \in BOOLEAN

VARIABLES
    net, otherVpn,      \* the physical network; another VPN is up
    svc, persistentSvc, \* service state of each profile; which are auto-start
    session,            \* AutomaticProfileSession
    appSettings, disk,  \* settings in memory and in the protected file
    item, modal, app,   \* cached row states, the open modal, the process
    holder, waiters,    \* onDemandGate: who is inside, clicks queued on it
    step, auto, click, demand, \* where the holder is and its locals
    op,                 \* the holder's tunnel command in flight
    pending, settled,   \* pendingNetworkIdentity, two seconds unchanged
    backoff,            \* now < nextOnDemandAttempt
    save, applyOp, dialog, \* the Settings save, its command, the rules dialog
    lastCommand,        \* history: who last sent a command to a tunnel
    manualHold,         \* history: a click since the network changed or rules were saved
    failures,           \* history: failed automatic attempts since then
    budget

envVars == <<net, otherVpn>>
svcVars == <<svc, persistentSvc>>
gateVars == <<holder, waiters, step, auto, click, demand, op>>
timeVars == <<pending, settled, backoff>>
saveVars == <<save, applyOp>>
docVars == <<appSettings, disk>>
histVars == <<lastCommand, manualHold, failures>>
vars == <<envVars, svcVars, session, docVars, item, modal, app, gateVars,
          timeVars, saveVars, dialog, histVars, budget>>

-----------------------------------------------------------------------------
(* AutomaticProfileSession: each method as a function of the session.      *)

NewSession == [OwnedProfileId |-> Nil, NetworkIdentity |-> <<NoNetwork, Nil>>,
               PausedNetwork |-> Nil, Revision |-> 0, Generation |-> 0]

IsPaused(s) == s.PausedNetwork = s.NetworkIdentity

ObserveNetwork(s, id) ==
    IF s.NetworkIdentity = id THEN s
    ELSE [s EXCEPT !.NetworkIdentity = id, !.Generation = @ + 1, !.PausedNetwork = Nil]

SettingsChanged(s, enabled) ==
    [s EXCEPT !.Revision = @ + 1, !.PausedNetwork = Nil,
              !.OwnedProfileId = IF enabled THEN @ ELSE Nil]

\* Mutants of ManualControl: it forgets to give up ownership, and to pause.
ManualControlKeepsOwner(s) ==
    [s EXCEPT !.Revision = @ + 1, !.PausedNetwork = s.NetworkIdentity]
ManualControlWithoutPause(s) == [s EXCEPT !.Revision = @ + 1, !.OwnedProfileId = Nil]

ManualControl(s) ==
    [s EXCEPT !.Revision = @ + 1, !.OwnedProfileId = Nil, !.PausedNetwork = s.NetworkIdentity]

\* Mutant: a failure is only reported.
PauseNever(s) == s
PauseAfterFailure(s) == [s EXCEPT !.PausedNetwork = s.NetworkIdentity]
Disconnected(s) == [s EXCEPT !.OwnedProfileId = Nil]

\* Mutant: a late completion claims the tunnel.
ConnectedLate(s, id, revision, enabled) ==
    IF enabled THEN [s EXCEPT !.OwnedProfileId = id] ELSE s

Connected(s, id, revision, enabled) ==
    IF enabled /\ revision = s.Revision THEN [s EXCEPT !.OwnedProfileId = id] ELSE s

Stamp(s) == <<s.Revision, s.Generation>>

\* Mutant: the two halves of the switch are confused.
PermitsSwapped(s, stamp, enabled, active, anotherVpn, target, connecting) ==
    /\ enabled /\ stamp = Stamp(s) /\ ~IsPaused(s) /\ ~anotherVpn
    /\ IF ~connecting THEN active = {} ELSE s.OwnedProfileId = target /\ active = {target}

Permits(s, stamp, enabled, active, anotherVpn, target, connecting) ==
    /\ enabled
    /\ stamp = Stamp(s)
    /\ ~IsPaused(s)
    /\ ~anotherVpn
    /\ IF connecting THEN active = {}
       ELSE s.OwnedProfileId = target /\ active = {target}

-----------------------------------------------------------------------------
(* What the handlers read.                                                 *)

Policy == appSettings.AutomaticProfiles
Enabled == Policy.Enabled

\* ProfileNetworkMonitor.Read: the name is read only when a rule needs it.
Ssid == IF NetTransport[net] = "WiFi" /\ NeedsWiFiNames(Policy) THEN NetSsid[net] ELSE Nil
Identity == IF NetTransport[net] = "None" THEN <<NoNetwork, Nil>> ELSE <<net, Ssid>>

ActiveLocalProfileIds == {p \in Profiles : svc[p] # "Inactive"}
IsTransitioning == \E p \in Profiles : item[p] \in {"Activating", "Deactivating"}
Decision == Decide(Policy, NetTransport[net], Ssid, Profiles)

\* The session after ReadAutomaticNetwork has been observed.
Seen == ObserveNetwork(session, Identity)

CanApplyAutomaticSwitch(s, stamp, id, connecting) ==
    /\ app = "running" /\ modal = "none"
    /\ Permits(s, stamp, Enabled, ActiveLocalProfileIds, otherVpn, id, connecting)

Spend(kinds) ==
    /\ \A k \in kinds : budget[k] > 0
    /\ budget' = [k \in BudgetKinds |-> IF k \in kinds THEN budget[k] - 1 ELSE budget[k]]

-----------------------------------------------------------------------------
(* Tunnel commands: TunnelServiceController.StartAsync and StopAsync.  A   *)
(* command waits for approval ("prompt"), runs elevated ("elevated"), then *)
(* polls the service ("waiting") for 45 seconds.                           *)

Commands == [kind : {"start", "stop"}, profile : Profiles, persistent : BOOLEAN,
             phase : {"prompt", "elevated", "waiting", "done"}]
NoCommand == [kind |-> "none"]

Command(kind, p, persistent) ==
    [kind |-> kind, profile |-> p, persistent |-> persistent, phase |-> "prompt"]

Goal(o) == IF o.kind = "start" THEN "Active" ELSE "Inactive"

InPhase(o, phase) == o.kind # "none" /\ o.phase = phase

\* Denied, non-zero exit code, stopped before activation, or 45 s passed.
CommandCanFail(o) ==
    InPhase(o, "prompt") \/ InPhase(o, "elevated")
    \/ (InPhase(o, "waiting") /\ svc[o.profile] # Goal(o))

CommandSucceeded(o) == InPhase(o, "waiting") /\ svc[o.profile] = Goal(o)

\* StartAsync refuses an encrypted-DNS profile as a persistent service.
Approvable(o) ==
    /\ InPhase(o, "prompt")
    /\ ~(o.kind = "start" /\ o.persistent /\ o.profile \in Encrypted)

(* The elevated process: an install waits for a service that is stopping   *)
(* and fails on one that runs; a removal stops and deletes the service.    *)
CommandEffect(o) ==
    /\ InPhase(o, "elevated")
    /\ o.kind = "start" => svc[o.profile] \in {"Inactive", "Deactivating"}
    /\ svc' = [svc EXCEPT ![o.profile] =
                  IF o.kind = "start" THEN "Activating"
                  ELSE IF @ = "Inactive" THEN @ ELSE "Deactivating"]
    /\ persistentSvc' = IF o.kind = "start" /\ o.persistent
                        THEN persistentSvc \cup {o.profile} ELSE persistentSvc \ {o.profile}

-----------------------------------------------------------------------------
(* onDemandGate: a SemaphoreSlim(1, 1).  Evaluators try it without waiting *)
(* and give up; clicks queue, and Release hands the gate to the first one. *)

Clicks == [profile : Profiles, observed : {"Active", "Inactive"}]
NoAuto == [previous |-> Nil, desired |-> Nil, stamp |-> <<0, 0>>]
NoClick == [profile |-> Nil]
NoDemand == [profile |-> Nil]

Release ==
    /\ op' = NoCommand /\ auto' = NoAuto /\ demand' = NoDemand
    /\ IF waiters = <<>>
       THEN holder' = "none" /\ step' = "idle" /\ click' = NoClick /\ waiters' = waiters
       ELSE holder' = "manual" /\ step' = "resume" /\ click' = Head(waiters) /\ waiters' = Tail(waiters)

(* ChangeLocalProfileStateAsync up to its first await: it inverts the      *)
(* state it reads, whatever its caller meant.                              *)
ChangeLocalProfileState(p, by) ==
    LET wasActive == svc[p] = "Active"
    IN  IF ~wasActive /\ p \in Hooked
        THEN /\ step' = "failed" /\ op' = NoCommand
             /\ UNCHANGED <<item, lastCommand>>
        ELSE /\ step' = "changing"
             /\ op' = Command(IF wasActive THEN "stop" ELSE "start", p,
                              ~wasActive /\ appSettings.PersistentTunnelService)
             /\ item' = [item EXCEPT ![p] = IF wasActive THEN "Deactivating" ELSE "Activating"]
             /\ lastCommand' = [lastCommand EXCEPT ![p] = by]

-----------------------------------------------------------------------------
(* EvaluateAutomaticProfilesAsync.  EvaluateX is the code up to the first  *)
(* await, split by how it ends; AutomaticX are its continuations.          *)

Polled == app = "running" /\ Enabled /\ holder = "none"
Stable == pending = Identity /\ settled
Foreign(s) == otherVpn \/ \E p \in ActiveLocalProfileIds : p # s.OwnedProfileId
Undisturbed(s) == ~IsPaused(s) /\ modal = "none" /\ ~IsTransitioning /\ ~Foreign(s)
StoppedOutside(s) == s.OwnedProfileId # Nil /\ ActiveLocalProfileIds = {}

\* Hooks, persistent with encrypted DNS: checked before the old VPN stops.
Unusable(p) == p \in Hooked \/ (appSettings.PersistentTunnelService /\ p \in Encrypted)

Deciding(s) == Polled /\ Stable /\ Undisturbed(s) /\ ~StoppedOutside(s) /\ ~Decision.hold
Accepted(s) == Deciding(s) /\ (Decision.profile # Nil => ~Unusable(Decision.profile))
MustStop(s) == s.OwnedProfileId # Nil /\ s.OwnedProfileId # Decision.profile
MustStart == Decision.profile # Nil /\ svc[Decision.profile] # "Active"

EvaluateUnstable ==
    /\ Polled /\ pending # Identity
    /\ session' = Seen /\ pending' = Identity /\ settled' = FALSE
    /\ failures' = IF Seen = session THEN failures ELSE 0
    /\ UNCHANGED <<envVars, svcVars, docVars, item, modal, app, gateVars, backoff, saveVars,
                   dialog, lastCommand, manualHold, budget>>

\* Every early return after the network has been observed.
EvaluateHolds ==
    /\ Polled /\ pending = Identity
    /\ \/ ~settled
       \/ ~Undisturbed(Seen)
       \/ ~StoppedOutside(Seen) /\ Decision.hold
       \/ /\ Accepted(Seen)
          /\ IF MustStop(Seen)
             THEN ~CanApplyAutomaticSwitch(Seen, Stamp(Seen), Seen.OwnedProfileId, FALSE)
             ELSE ~MustStart \/ ~CanApplyAutomaticSwitch(Seen, Stamp(Seen), Decision.profile, TRUE)
    /\ session' = Seen
    /\ failures' = IF Seen = session THEN failures ELSE 0
    /\ UNCHANGED <<envVars, svcVars, docVars, item, modal, app, gateVars, timeVars, saveVars,
                   dialog, lastCommand, manualHold, budget>>

EvaluateStoppedOutside ==
    /\ Polled /\ Stable /\ Undisturbed(Seen) /\ StoppedOutside(Seen)
    /\ session' = ManualControl(Seen)
    /\ failures' = IF Seen = session THEN failures ELSE 0
    /\ UNCHANGED <<envVars, svcVars, docVars, item, modal, app, gateVars, timeVars, saveVars,
                   dialog, lastCommand, manualHold, budget>>

EvaluateRejects ==
    /\ Deciding(Seen) /\ Decision.profile # Nil /\ Unusable(Decision.profile)
    /\ session' = PauseAfterFailure(Seen)
    /\ failures' = (IF Seen = session THEN failures ELSE 0) + 1
    /\ UNCHANGED <<envVars, svcVars, docVars, item, modal, app, gateVars, timeVars, saveVars,
                   dialog, lastCommand, manualHold, budget>>

\* ReadAutomaticNetwork throws.
EvaluateUnreadable ==
    /\ Polled /\ Spend({"unreadable"})
    /\ session' = PauseAfterFailure(session)
    /\ UNCHANGED <<envVars, svcVars, docVars, item, modal, app, gateVars, timeVars, saveVars,
                   dialog, histVars>>

\* Stop the tunnel the session owns, then start the one the rules ask for.
EvaluateStops ==
    /\ Accepted(Seen) /\ MustStop(Seen)
    /\ CanApplyAutomaticSwitch(Seen, Stamp(Seen), Seen.OwnedProfileId, FALSE)
    /\ holder' = "auto"
    /\ auto' = [previous |-> Seen.OwnedProfileId, desired |-> Decision.profile, stamp |-> Stamp(Seen)]
    /\ ChangeLocalProfileState(Seen.OwnedProfileId, "auto")
    /\ session' = Seen
    /\ failures' = IF Seen = session THEN failures ELSE 0
    /\ UNCHANGED <<envVars, svcVars, docVars, modal, app, waiters, click, demand, timeVars, saveVars,
                   dialog, manualHold, budget>>

EvaluateStarts ==
    /\ Accepted(Seen) /\ ~MustStop(Seen) /\ MustStart
    /\ CanApplyAutomaticSwitch(Seen, Stamp(Seen), Decision.profile, TRUE)
    /\ holder' = "auto"
    /\ auto' = [previous |-> Nil, desired |-> Decision.profile, stamp |-> Stamp(Seen)]
    /\ ChangeLocalProfileState(Decision.profile, "auto")
    /\ session' = Seen
    /\ failures' = IF Seen = session THEN failures ELSE 0
    /\ UNCHANGED <<envVars, svcVars, docVars, modal, app, waiters, click, demand, timeVars, saveVars,
                   dialog, manualHold, budget>>

Stopping == holder = "auto" /\ auto.previous # Nil
Starting == holder = "auto" /\ auto.previous = Nil

\* The stop returned: check it, then recheck everything before the start.
AutomaticStopped ==
    LET s == Disconnected(session)
        seen == ObserveNetwork(s, Identity)
        wanted == auto.desired # Nil /\ svc[auto.desired] # "Active"
        granted == CanApplyAutomaticSwitch(seen, auto.stamp, auto.desired, TRUE)
    IN  /\ app = "running" /\ Stopping /\ InPhase(op, "done")
        /\ IF svc[auto.previous] # "Inactive"
           THEN /\ session' = PauseAfterFailure(session) /\ failures' = failures + 1
                /\ Release /\ UNCHANGED <<item, lastCommand>>
           ELSE IF wanted /\ granted
           THEN /\ session' = seen /\ failures' = failures
                /\ auto' = [auto EXCEPT !.previous = Nil]
                /\ ChangeLocalProfileState(auto.desired, "auto")
                /\ UNCHANGED <<holder, waiters, click, demand>>
           ELSE /\ session' = IF wanted THEN seen ELSE s
                /\ failures' = IF session'.Generation = session.Generation THEN failures ELSE 0
                /\ Release /\ UNCHANGED <<item, lastCommand>>
        /\ UNCHANGED <<envVars, svcVars, docVars, modal, app, timeVars, saveVars, dialog,
                       manualHold, budget>>

AutomaticStarted ==
    /\ app = "running" /\ Starting /\ InPhase(op, "done")
    /\ IF svc[auto.desired] # "Active"
       THEN session' = PauseAfterFailure(session) /\ failures' = failures + 1
       ELSE session' = Connected(session, auto.desired, auto.stamp[1], Enabled) /\ failures' = failures
    /\ Release
    /\ UNCHANGED <<envVars, svcVars, docVars, item, modal, app, timeVars, saveVars, dialog,
                   lastCommand, manualHold, budget>>

\* The command throws: the catch block pauses and never shows a dialog.
AutomaticFailed ==
    /\ app = "running" /\ holder = "auto" /\ CommandCanFail(op)
    /\ item' = [item EXCEPT ![op.profile] = svc[op.profile]]
    /\ session' = PauseAfterFailure(session)
    /\ failures' = failures + 1
    /\ Release
    /\ UNCHANGED <<envVars, svcVars, docVars, modal, app, timeVars, saveVars, dialog,
                   lastCommand, manualHold, budget>>

-----------------------------------------------------------------------------
(* Progress of the gate holder's command: approval, effect, and the poll   *)
(* that sees the goal, refreshes the row and records the activity.         *)

GateApproved ==
    /\ app = "running" /\ Approvable(op)
    /\ op' = [op EXCEPT !.phase = "elevated"]
    /\ UNCHANGED <<envVars, svcVars, session, docVars, item, modal, app, holder, waiters, step,
                   auto, click, demand, timeVars, saveVars, dialog, histVars, budget>>

GateEffect ==
    /\ app = "running" /\ CommandEffect(op)
    /\ op' = [op EXCEPT !.phase = "waiting"]
    /\ UNCHANGED <<envVars, session, docVars, item, modal, app, holder, waiters, step,
                   auto, click, demand, timeVars, saveVars, dialog, histVars, budget>>

GateSucceeded ==
    /\ app = "running" /\ CommandSucceeded(op)
    /\ op' = [op EXCEPT !.phase = "done"]
    /\ item' = [item EXCEPT ![op.profile] = svc[op.profile]]
    /\ UNCHANGED <<envVars, svcVars, session, docVars, modal, app, holder, waiters, step,
                   auto, click, demand, timeVars, saveVars, dialog, histVars, budget>>

-----------------------------------------------------------------------------
(* Manual clicks: ToggleLocalProfileAsync.                                 *)

PauseForManualControl(s, readable) ==
    IF ~Enabled THEN s
    ELSE ManualControl(IF readable THEN ObserveNetwork(s, Identity) ELSE s)

ManualSession(readable) ==
    /\ session' = PauseForManualControl(session, readable)
    /\ manualHold' = (manualHold \/ (Enabled /\ readable))
    /\ failures' = IF session'.Generation = session.Generation THEN failures ELSE 0

\* The click pauses automation at once, even when it has to wait its turn.
Toggle(p, readable) ==
    /\ app = "running" /\ Spend(IF readable THEN {"click"} ELSE {"click", "unreadable"})
    /\ ManualSession(readable)
    /\ IF svc[p] \notin {"Active", "Inactive"} THEN UNCHANGED gateVars
       ELSE LET c == [profile |-> p, observed |-> svc[p]]
            IN  IF holder = "none"
                THEN /\ holder' = "manual" /\ step' = "resume" /\ click' = c
                     /\ UNCHANGED <<waiters, auto, demand, op>>
                ELSE /\ waiters' = Append(waiters, c)
                     /\ UNCHANGED <<holder, step, auto, click, demand, op>>
    /\ UNCHANGED <<envVars, svcVars, docVars, item, modal, app, timeVars, saveVars, dialog, lastCommand>>

\* Inside the gate: act only if the tunnel is still as the user saw it.
\* (Its mutant forgets to leave the gate when there is nothing to do.)
ManualResumesStuck ==
    /\ app = "running" /\ holder = "manual" /\ step = "resume"
    /\ svc[click.profile] = click.observed
    /\ ChangeLocalProfileState(click.profile, "manual")
    /\ UNCHANGED <<holder, waiters, auto, click, demand>>
    /\ UNCHANGED <<envVars, svcVars, session, docVars, modal, app, timeVars, saveVars, dialog,
                   manualHold, failures, budget>>
ManualResumes ==
    /\ app = "running" /\ holder = "manual" /\ step = "resume"
    /\ IF svc[click.profile] = click.observed
       THEN /\ ChangeLocalProfileState(click.profile, "manual")
            /\ UNCHANGED <<holder, waiters, auto, click, demand>>
       ELSE Release /\ UNCHANGED <<item, lastCommand>>
    /\ UNCHANGED <<envVars, svcVars, session, docVars, modal, app, timeVars, saveVars, dialog,
                   manualHold, failures, budget>>

ManualDone ==
    /\ app = "running" /\ holder = "manual" /\ InPhase(op, "done")
    /\ Release
    /\ UNCHANGED <<envVars, svcVars, session, docVars, item, modal, app, timeVars, saveVars, dialog,
                   histVars, budget>>

-----------------------------------------------------------------------------
(* The legacy branch of EvaluateOnDemandAsync.  It selects by the cached   *)
(* row states, awaits the activity record, then inverts the real state.    *)

Matches(p) == NetTransport[net] \in OnDemand[p]
Unmatched == {p \in Profiles : item[p] = "Active" /\ OnDemand[p] # {} /\ ~Matches(p)}
Startable == {p \in Profiles : svc[p] = "Inactive" /\ Matches(p)}

OnDemandAllowed ==
    /\ ~Enabled /\ ~appSettings.SingleProfileOnDemandSuspended
    /\ ~backoff /\ modal = "none" /\ ~IsTransitioning /\ holder = "none"

EvaluateOnDemand ==
    /\ app = "running" /\ OnDemandAllowed
    /\ \E p \in Profiles :
         /\ \/ p \in Unmatched /\ demand' = [profile |-> p, intent |-> "stop"]
            \/ /\ Unmatched = {} /\ \A q \in Profiles : item[q] # "Active"
               /\ p \in Startable /\ demand' = [profile |-> p, intent |-> "start"]
         /\ backoff' = TRUE /\ holder' = "demand" /\ step' = "recording"
    /\ UNCHANGED <<envVars, svcVars, session, docVars, item, modal, app, waiters, auto, click, op,
                   pending, settled, saveVars, dialog, histVars, budget>>

DemandChanges ==
    /\ app = "running" /\ holder = "demand" /\ step = "recording"
    /\ ChangeLocalProfileState(demand.profile, "demand")
    /\ UNCHANGED <<envVars, svcVars, session, docVars, modal, app, holder, waiters, auto, click, demand,
                   timeVars, saveVars, dialog, manualHold, failures, budget>>

DemandDone ==
    /\ app = "running" /\ holder = "demand" /\ InPhase(op, "done")
    /\ Release
    /\ UNCHANGED <<envVars, svcVars, session, docVars, item, modal, app, timeVars, saveVars, dialog,
                   histVars, budget>>

\* A manual or On-Demand command throws; the failure is recorded first.
InteractiveFailed ==
    /\ app = "running" /\ holder \in {"manual", "demand"} /\ CommandCanFail(op)
    /\ item' = [item EXCEPT ![op.profile] = svc[op.profile]]
    /\ step' = "failed" /\ op' = NoCommand
    /\ UNCHANGED <<envVars, svcVars, session, docVars, modal, app, holder, waiters, auto, click, demand,
                   timeVars, saveVars, dialog, histVars, budget>>

(* Then ShowMessageAsync, with the gate held until it is closed.  It throws *)
(* if a modal is open: On-Demand catches that, the async void click handler *)
(* does not and the process ends.                                           *)
FailureShown ==
    /\ app = "running" /\ step = "failed"
    /\ IF modal = "none"
       THEN modal' = "held" /\ step' = "message" /\ UNCHANGED <<app, holder, waiters, auto, click, demand, op>>
       ELSE IF holder = "demand"
       THEN Release /\ UNCHANGED <<modal, app>>
       ELSE app' = "ended" /\ UNCHANGED <<modal, gateVars>>
    /\ UNCHANGED <<envVars, svcVars, session, docVars, item, timeVars, saveVars, dialog, histVars, budget>>

FailureDismissed ==
    /\ app = "running" /\ modal = "held"
    /\ modal' = "none" /\ Release
    /\ UNCHANGED <<envVars, svcVars, session, docVars, item, app, timeVars, saveVars, dialog, histVars, budget>>

MessageDismissed ==
    /\ app = "running" /\ modal = "message" /\ modal' = "none"
    /\ UNCHANGED <<envVars, svcVars, session, docVars, item, app, gateVars, timeVars, saveVars, dialog,
                   histVars, budget>>

-----------------------------------------------------------------------------
(* The Automatic profiles dialog.                                          *)

NoDialog == [pc |-> "idle"]
Busy == holder # "none" \/ IsTransitioning

RulesOpen ==
    /\ app = "running" /\ modal = "none" /\ Spend({"rules"})
    /\ OverlappingSaves \/ save.pc = "idle"
    /\ modal' = "rules"
    /\ UNCHANGED <<envVars, svcVars, session, docVars, item, app, gateVars, timeVars, saveVars, dialog, histVars>>

RulesSave(policy, resumeLegacy) ==
    /\ app = "running" /\ modal = "rules" /\ dialog.pc = "idle" /\ ~Busy
    /\ dialog' = [pc |-> "saving", queued |-> save.pc \in {"saving", "rollback"}, settings |->
          [appSettings EXCEPT !.AutomaticProfiles = policy,
                              !.SingleProfileOnDemandSuspended = policy.Enabled \/ (@ /\ ~resumeLegacy)]]
    /\ UNCHANGED <<envVars, svcVars, session, docVars, item, modal, app, gateVars, timeVars, saveVars,
                   histVars, budget>>

\* The document's own lock is first come, first served.
RulesWritten ==
    /\ app = "running" /\ dialog.pc = "saving" /\ ~dialog.queued
    /\ disk' = dialog.settings /\ appSettings' = dialog.settings
    /\ session' = SettingsChanged(session, dialog.settings.AutomaticProfiles.Enabled)
    /\ backoff' = FALSE /\ manualHold' = FALSE /\ failures' = 0
    /\ modal' = "none" /\ dialog' = NoDialog
    /\ UNCHANGED <<envVars, svcVars, item, app, gateVars, pending, settled, saveVars, lastCommand, budget>>

\* The write failed and the dialog stays open, or the user closes it.
RulesNotSaved ==
    /\ app = "running" /\ modal = "rules"
    /\ IF dialog.pc = "saving" THEN modal' = modal ELSE modal' = "none"
    /\ dialog' = NoDialog
    /\ UNCHANGED <<envVars, svcVars, session, docVars, item, app, gateVars, timeVars, saveVars, histVars, budget>>

-----------------------------------------------------------------------------
(* The Settings page: SettingsSaveButton_Click, ConfirmPersistentTunnel-   *)
(* ModeChangeAsync and ApplyPersistentTunnelModeAsync.  The new settings   *)
(* are built at the click; nothing holds onDemandGate while they apply.    *)

NoSave == [pc |-> "idle"]
Saves == [pc : {"confirm", "saving", "applying", "restoring", "rollback"}, new : Settings, previous : Settings,
          changed : BOOLEAN, todo : SUBSET Profiles]

\* ShowMessageAsync from an async void handler: fatal over another modal.
ShowMessage ==
    IF modal = "none" THEN modal' = "message" /\ app' = app
    ELSE app' = "ended" /\ modal' = modal

SettingsSave(persist) ==
    LET new == [appSettings EXCEPT !.PersistentTunnelService = persist]
        changed == persist # appSettings.PersistentTunnelService
    IN  /\ app = "running" /\ modal = "none" /\ save.pc = "idle" /\ Spend({"save"})
        /\ IF ~changed /\ Busy
           THEN modal' = "message" /\ save' = NoSave
           ELSE /\ save' = [pc |-> IF changed THEN "confirm" ELSE "saving", new |-> new,
                            previous |-> appSettings, changed |-> changed, todo |-> {}]
                /\ modal' = IF changed THEN "confirm" ELSE "none"
        /\ UNCHANGED <<envVars, svcVars, session, docVars, item, app, gateVars, timeVars, applyOp, dialog, histVars>>

\* Mutant: changing the persistent mode is not treated as manual control.
SettingsConfirmedUnpaused(yes) ==
    /\ app = "running" /\ modal = "confirm"
    /\ IF yes /\ ~Busy
       THEN /\ save' = [save EXCEPT !.pc = "saving", !.previous = appSettings]
            /\ modal' = "none" /\ manualHold' = (manualHold \/ Enabled)
       ELSE /\ save' = NoSave /\ modal' = IF yes THEN "message" ELSE "none"
            /\ UNCHANGED manualHold
    /\ UNCHANGED <<envVars, svcVars, session, docVars, item, app, gateVars, timeVars, applyOp, dialog,
                   lastCommand, failures, budget>>

SettingsConfirmed(yes) ==
    /\ app = "running" /\ modal = "confirm"
    /\ IF yes /\ ~Busy
       THEN /\ save' = [save EXCEPT !.pc = "saving", !.previous = appSettings]
            /\ modal' = "none" /\ ManualSession(TRUE)
       ELSE /\ save' = NoSave /\ modal' = IF yes THEN "message" ELSE "none"
            /\ UNCHANGED <<session, manualHold, failures>>
    /\ UNCHANGED <<envVars, svcVars, docVars, item, app, gateVars, timeVars, applyOp, dialog, lastCommand, budget>>

\* A rules save that waited for this write is next.
DocumentUnlocked ==
    dialog' = IF dialog.pc = "saving" THEN [dialog EXCEPT !.queued = FALSE] ELSE dialog

\* Mutant: the Settings page builds its document without the rules.
SettingsCommitForgets ==
    /\ \E policy \in Policies : ~policy.Enabled /\ appSettings' = [save.new EXCEPT !.AutomaticProfiles = policy]
    /\ save' = NoSave /\ ShowMessage

SettingsCommit ==
    appSettings' = save.new /\ save' = NoSave /\ ShowMessage

Enabling == save.new.PersistentTunnelService
Upgradable == {p \in Profiles : svc[p] = "Active" /\ p \notin persistentSvc}

\* The profiles of todo that still need a command: every tunnel to upgrade,
\* or every persistent service to remove.
Remaining(todo) == IF Enabling THEN todo ELSE todo \cap persistentSvc

\* Remove p's service, or stop p to reinstall it.  Only an upgrade marks the row.
BeginApply(p, todo) ==
    /\ applyOp' = Command("stop", p, FALSE)
    /\ item' = IF Enabling THEN [item EXCEPT ![p] = "Deactivating"] ELSE item
    /\ lastCommand' = [lastCommand EXCEPT ![p] = "apply"]
    /\ save' = [save EXCEPT !.pc = "applying", !.todo = todo \ {p}]

\* The document is on disk; the tunnels follow.
SettingsWritten ==
    LET todo == IF ~save.changed THEN {} ELSE IF Enabling THEN Upgradable ELSE Profiles
    IN  /\ app = "running" /\ save.pc = "saving"
        /\ disk' = save.new
        /\ IF Remaining(todo) = {}
           THEN SettingsCommit /\ UNCHANGED <<item, applyOp, lastCommand>>
           ELSE /\ UNCHANGED <<appSettings, modal, app>>
                /\ IF Enabling /\ todo \cap Encrypted # {}
                   THEN save' = [save EXCEPT !.pc = "rollback"] /\ UNCHANGED <<item, applyOp, lastCommand>>
                   ELSE \E p \in Remaining(todo) : BeginApply(p, todo)
        /\ DocumentUnlocked
        /\ UNCHANGED <<envVars, svcVars, session, gateVars, timeVars, manualHold, failures, budget>>

SettingsNotWritten ==
    /\ app = "running" /\ save.pc = "saving"
    /\ save' = NoSave /\ ShowMessage /\ DocumentUnlocked
    /\ UNCHANGED <<envVars, svcVars, session, docVars, item, gateVars, timeVars, applyOp, histVars, budget>>

\* One profile at a time, until the new settings can take effect.
ApplyContinues ==
    /\ app = "running" /\ save.pc = "applying" /\ applyOp = NoCommand
    /\ IF Remaining(save.todo) = {}
       THEN SettingsCommit /\ UNCHANGED <<item, applyOp, lastCommand>>
       ELSE /\ UNCHANGED <<appSettings, modal, app>>
            /\ \E p \in Remaining(save.todo) : BeginApply(p, save.todo)
    /\ UNCHANGED <<envVars, svcVars, session, disk, gateVars, timeVars, dialog, manualHold, failures, budget>>

ApplyApproved ==
    /\ app = "running" /\ Approvable(applyOp)
    /\ applyOp' = [applyOp EXCEPT !.phase = "elevated"]
    /\ UNCHANGED <<envVars, svcVars, session, docVars, item, modal, app, gateVars, timeVars, save, dialog,
                   histVars, budget>>

ApplyEffect ==
    /\ app = "running" /\ CommandEffect(applyOp)
    /\ applyOp' = [applyOp EXCEPT !.phase = "waiting"]
    /\ UNCHANGED <<envVars, session, docVars, item, modal, app, gateVars, timeVars, save, dialog,
                   histVars, budget>>

ApplySucceeded ==
    LET p == applyOp.profile
        reinstall == applyOp.kind = "stop" /\ Enabling
    IN  /\ app = "running" /\ CommandSucceeded(applyOp)
        /\ applyOp' = IF reinstall THEN Command("start", p, TRUE) ELSE NoCommand
        /\ item' = [item EXCEPT ![p] = IF reinstall THEN "Activating"
                                       ELSE IF applyOp.kind = "stop" THEN "Inactive" ELSE svc[p]]
        /\ save' = IF reinstall THEN save
                   ELSE IF save.pc = "restoring" THEN [save EXCEPT !.pc = "rollback"]
                   ELSE save
        /\ UNCHANGED <<envVars, svcVars, session, docVars, modal, app, gateVars, timeVars, dialog, histVars, budget>>

\* A failed reinstall first tries to bring the old kind of tunnel back.
ApplyFailed ==
    LET p == applyOp.profile
        restore == applyOp.kind = "start" /\ save.pc = "applying"
    IN  /\ app = "running" /\ CommandCanFail(applyOp)
        /\ applyOp' = IF restore THEN Command("start", p, FALSE) ELSE NoCommand
        /\ item' = IF applyOp.kind = "start" /\ ~restore THEN [item EXCEPT ![p] = svc[p]] ELSE item
        /\ save' = [save EXCEPT !.pc = IF restore THEN "restoring" ELSE "rollback"]
        /\ UNCHANGED <<envVars, svcVars, session, docVars, modal, app, gateVars, timeVars, dialog, histVars, budget>>

\* The previous document is written back, or that write fails too.
SettingsRolledBack(written) ==
    /\ app = "running" /\ save.pc = "rollback"
    /\ IF written THEN disk' = save.previous /\ appSettings' = save.previous ELSE UNCHANGED docVars
    /\ save' = NoSave /\ ShowMessage /\ DocumentUnlocked
    /\ UNCHANGED <<envVars, svcVars, session, item, gateVars, timeVars, applyOp, histVars, budget>>

-----------------------------------------------------------------------------
(* The environment: networks, other VPNs, services, other controllers, the *)
(* user looking at a profile, the clock and the life of the process.       *)

NetworkChanges(n) ==
    /\ n # net /\ Spend({"net"})
    /\ net' = n /\ manualHold' = FALSE
    /\ UNCHANGED <<otherVpn, svcVars, session, docVars, item, modal, app, gateVars, timeVars, saveVars, dialog,
                   lastCommand, failures>>

OtherVpnChanges ==
    /\ Spend({"vpn"}) /\ otherVpn' = ~otherVpn
    /\ UNCHANGED <<net, svcVars, session, docVars, item, modal, app, gateVars, timeVars, saveVars, dialog, histVars>>

ServiceStep(p) ==
    /\ \/ svc[p] = "Activating" /\ \E s \in {"Active", "Inactive"} : svc' = [svc EXCEPT ![p] = s]
       \/ svc[p] = "Deactivating" /\ svc' = [svc EXCEPT ![p] = "Inactive"]
    /\ UNCHANGED <<envVars, persistentSvc, session, docVars, item, modal, app, gateVars, timeVars, saveVars,
                   dialog, histVars, budget>>

ExternalControl(p) ==
    /\ Spend({"external"})
    /\ \/ svc[p] = "Active" /\ svc' = [svc EXCEPT ![p] = "Deactivating"]
       \/ svc[p] = "Inactive" /\ svc' = [svc EXCEPT ![p] = "Activating"]
    /\ UNCHANGED <<envVars, persistentSvc, session, docVars, item, modal, app, gateVars, timeVars, saveVars,
                   dialog, histVars>>

\* CreateTrayMenuSnapshot and SetProfileManagerControls reread the services.
RowsRefreshed ==
    /\ app = "running" /\ Spend({"refresh"}) /\ item' = svc
    /\ UNCHANGED <<envVars, svcVars, session, docVars, modal, app, gateVars, timeVars, saveVars, dialog, histVars>>

TwoSecondsPass ==
    /\ ~settled /\ settled' = TRUE
    /\ UNCHANGED <<envVars, svcVars, session, docVars, item, modal, app, gateVars, pending, backoff, saveVars,
                   dialog, histVars, budget>>

OneMinutePasses ==
    /\ backoff /\ backoff' = FALSE
    /\ UNCHANGED <<envVars, svcVars, session, docVars, item, modal, app, gateVars, pending, settled, saveVars,
                   dialog, histVars, budget>>

Exit ==
    /\ app = "running" /\ Spend({"exit"}) /\ app' = "ended"
    /\ UNCHANGED <<envVars, svcVars, session, docVars, item, modal, gateVars, timeVars, saveVars, dialog, histVars>>

\* An elevated process outlives the window that asked for it.
OrphanEffect ==
    /\ app = "ended"
    /\ \/ CommandEffect(op) /\ op' = NoCommand /\ UNCHANGED applyOp
       \/ CommandEffect(applyOp) /\ applyOp' = NoCommand /\ UNCHANGED op
    /\ UNCHANGED <<envVars, session, docVars, item, modal, app, holder, waiters, step, auto, click, demand,
                   timeVars, save, dialog, histVars, budget>>

\* Everything but the document and the services starts afresh.
Restart ==
    /\ app = "ended" /\ app' = "running"
    /\ session' = NewSession /\ appSettings' = disk /\ item' = svc /\ modal' = "none"
    /\ holder' = "none" /\ waiters' = <<>> /\ step' = "idle"
    /\ auto' = NoAuto /\ click' = NoClick /\ demand' = NoDemand /\ op' = NoCommand
    /\ pending' = Nil /\ settled' = FALSE /\ backoff' = FALSE
    /\ save' = NoSave /\ applyOp' = NoCommand /\ dialog' = NoDialog
    /\ manualHold' = FALSE /\ failures' = 0
    /\ UNCHANGED <<envVars, svcVars, disk, lastCommand, budget>>

-----------------------------------------------------------------------------
Init ==
    /\ net \in Networks /\ otherVpn = FALSE
    /\ svc \in InitialServices
    /\ session = NewSession
    /\ appSettings \in InitialSettings /\ disk = appSettings
    /\ persistentSvc = {p \in Profiles : appSettings.PersistentTunnelService /\ svc[p] # "Inactive"}
    /\ item = svc /\ modal = "none" /\ app = "running"
    /\ holder = "none" /\ waiters = <<>> /\ step = "idle"
    /\ auto = NoAuto /\ click = NoClick /\ demand = NoDemand /\ op = NoCommand
    /\ pending = Nil /\ settled = FALSE /\ backoff = FALSE
    /\ save = NoSave /\ applyOp = NoCommand /\ dialog = NoDialog
    /\ lastCommand = [p \in Profiles |-> "none"] /\ manualHold = FALSE /\ failures = 0
    /\ budget \in Budgets

Evaluator ==
    \/ EvaluateUnstable \/ EvaluateHolds \/ EvaluateStoppedOutside \/ EvaluateRejects
    \/ EvaluateStops \/ EvaluateStarts
    \/ AutomaticStopped \/ AutomaticStarted \/ AutomaticFailed

GateCommand == GateApproved \/ GateEffect \/ GateSucceeded

Interactive ==
    \/ ManualResumes \/ ManualDone \/ EvaluateOnDemand \/ DemandChanges \/ DemandDone
    \/ InteractiveFailed \/ FailureShown \/ FailureDismissed \/ MessageDismissed

Rules ==
    \/ \E policy \in Policies, resumeLegacy \in BOOLEAN : RulesSave(policy, resumeLegacy)
    \/ RulesWritten \/ RulesNotSaved

Persistence ==
    \/ \E yes \in BOOLEAN : SettingsConfirmed(yes)
    \/ SettingsWritten \/ SettingsNotWritten
    \/ ApplyContinues \/ ApplyApproved \/ ApplyEffect \/ ApplySucceeded \/ ApplyFailed
    \/ \E written \in BOOLEAN : SettingsRolledBack(written)

User ==
    \/ \E p \in Profiles, readable \in BOOLEAN : Toggle(p, readable)
    \/ RulesOpen
    \/ \E persist \in BOOLEAN : SettingsSave(persist)
    \/ RowsRefreshed \/ Exit

Environment ==
    \/ \E n \in Networks : NetworkChanges(n)
    \/ OtherVpnChanges
    \/ \E p \in Profiles : ServiceStep(p) \/ ExternalControl(p)
    \/ EvaluateUnreadable \/ TwoSecondsPass \/ OneMinutePasses \/ OrphanEffect \/ Restart

Next == Evaluator \/ GateCommand \/ Interactive \/ Rules \/ Persistence \/ User \/ Environment

Spec == Init /\ [][Next]_vars

-----------------------------------------------------------------------------
(* Fairness.  The two-second timer polls; the user answers every prompt    *)
(* and closes every message; an elevated process ends; a service leaves    *)
(* its pending states; a file write completes.  Nothing obliges the        *)
(* network, another controller or the user to do anything else.            *)
Fairness ==
    /\ WF_vars(Evaluator) /\ WF_vars(GateCommand \/ AutomaticFailed \/ InteractiveFailed)
    /\ WF_vars(ManualResumes \/ ManualDone \/ DemandChanges \/ DemandDone)
    /\ WF_vars(FailureShown) /\ WF_vars(FailureDismissed) /\ WF_vars(MessageDismissed)
    /\ WF_vars(RulesWritten \/ RulesNotSaved)
    /\ WF_vars(Persistence)
    /\ WF_vars(TwoSecondsPass)
    /\ \A p \in Profiles : WF_vars(ServiceStep(p))

FairSpec == Spec /\ Fairness

-----------------------------------------------------------------------------
(* Every variable keeps its type.                                          *)
Steps == {"idle", "resume", "recording", "changing", "failed", "message"}
Sessions == [OwnedProfileId : MaybeProfile, NetworkIdentity : Identities,
             PausedNetwork : Identities \cup {Nil}, Revision : Nat, Generation : Nat]

TypeOK ==
    /\ net \in Networks /\ otherVpn \in BOOLEAN
    /\ svc \in [Profiles -> ServiceStates] /\ persistentSvc \in SUBSET Profiles
    /\ session \in Sessions
    /\ appSettings \in Settings /\ disk \in Settings
    /\ item \in [Profiles -> ServiceStates]
    /\ modal \in {"none", "held", "message", "rules", "confirm"} /\ app \in {"running", "ended"}
    /\ holder \in {"none", "auto", "manual", "demand"} /\ waiters \in Seq(Clicks) /\ step \in Steps
    /\ auto \in [previous : MaybeProfile, desired : MaybeProfile, stamp : Nat \X Nat]
    /\ click \in Clicks \cup {NoClick}
    /\ demand \in [profile : Profiles, intent : {"start", "stop"}] \cup {NoDemand}
    /\ op \in Commands \cup {NoCommand} /\ applyOp \in Commands \cup {NoCommand}
    /\ pending \in Identities \cup {Nil} /\ settled \in BOOLEAN /\ backoff \in BOOLEAN
    /\ save \in Saves \cup {NoSave}
    /\ dialog \in [pc : {"saving"}, queued : BOOLEAN, settings : Settings] \cup {NoDialog}
    /\ lastCommand \in [Profiles -> {"none", "auto", "manual", "demand", "apply"}]
    /\ manualHold \in BOOLEAN /\ failures \in Nat
    /\ budget \in [BudgetKinds -> Nat]

(* "It never adopts a manual connection": the session owns a tunnel only   *)
(* if no click and no On-Demand rule has commanded that tunnel since       *)
(* automation started it.  A late completion, a re-enabled policy or a     *)
(* restart must not hand a manually driven tunnel to the evaluator.        *)
OwnershipIsAutomatic ==
    session.OwnedProfileId # Nil => lastCommand[session.OwnedProfileId] \in {"auto", "apply"}

(* From the click until its command is finished, queued or running,        *)
(* automation owns nothing: the handover that is in flight when the user   *)
(* clicks cannot claim its tunnel when it completes.                       *)
QueuedClickOwnsNothing ==
    waiters # <<>> \/ holder = "manual" => session.OwnedProfileId = Nil

(* A tunnel owned by automation is the only local tunnel.                  *)
OwnedTunnelIsAlone ==
    session.OwnedProfileId # Nil =>
        \A q \in Profiles \ {session.OwnedProfileId} : svc[q] = "Inactive"

(* No repeated elevation prompts: one failed automatic attempt per network *)
(* and per saved set of rules.                                             *)
FailsOncePerNetwork == failures <= 1

(* What holds of a session even when saves overlap: its revisions only     *)
(* count up, and it fails once per network.                                *)
SessionSafe == TypeOK /\ FailsOncePerNetwork

(* After a click, automation sends no further command, not even the second *)
(* half of a handover under way, until the network changes or rules are    *)
(* saved.                                                                  *)
AutomaticCommand == holder' = "auto" /\ op' # op /\ InPhase(op', "prompt")
ManualIntentRespected == [][AutomaticCommand => ~manualHold]_vars

(* Only the rules dialog, or the restart that reloads the file, changes    *)
(* the rules in memory.                                                    *)
RulesChangeOnlyByDialog ==
    [][appSettings'.AutomaticProfiles # appSettings.AutomaticProfiles
          => dialog.pc = "saving" \/ app = "ended"]_vars

(* Whoever is inside the gate leaves it.                                   *)
GateComesFree == []<>(holder = "none" \/ app = "ended")

(* Automation does its job: if from some point on it is enabled and left   *)
(* in peace on a stable network whose rules decide, then it ends up with   *)
(* the decided tunnel, or with none, or paused.                            *)
Decided ==
    \/ IsPaused(session)
    \/ Decision.hold
    \/ IF Decision.profile = Nil THEN ActiveLocalProfileIds = {}
       ELSE ActiveLocalProfileIds = {Decision.profile}
LeftInPeace ==
    /\ app = "running" /\ Enabled /\ modal = "none" /\ ~otherVpn /\ holder \in {"none", "auto"}
    /\ (holder = "none" => ~Foreign(session) /\ ~IsTransitioning)
AutomationConverges == <>[]LeftInPeace => <>[]Decided
=============================================================================
