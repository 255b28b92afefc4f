---------------------------- MODULE ManagerLaunch ----------------------------
(***************************************************************************)
(* Starting the program without arguments, and the elevated process that   *)
(* installs the manager service: both parts of main.go, with ui.RaiseUI,   *)
(* ui.WaitForRaiseUIThenQuit, elevate.ShellExecute and InstallManager.     *)
(*                                                                         *)
(* Several launchers run at once (a double click is enough).  They meet at *)
(* the service control manager, which deletes a service when it is stopped *)
(* and the last handle to it is closed, and at the window of the manager's *)
(* user interface, whose creation a hook reports.                          *)
(***************************************************************************)
EXTENDS Naturals, FiniteSets

CONSTANTS Launchers,
          MaxManagerStops  \* how often the manager is stopped

VARIABLES
  machine,  \* what ShellExecute and main find, fixed for a behaviour
  service,  \* WireGuardManager: absent, stopped, pending or running
  marked,   \* it is marked for deletion
  handles,  \* launchers that hold a handle to it
  window,   \* the manager's user interface has its window
  launch,   \* where a launcher is
  hook,     \* its window hook: off, on or fired
  ended,    \* how it ended
  stops,
  crossed   \* history: a launcher deleted the service another had started, or created one
            \* while another waited for the deletion

launchVars == <<machine, service, marked, handles, window, launch, hook, ended, stops, crossed>>

-----------------------------------------------------------------------------
(* The service control manager.                                            *)
\* A marked service goes with its last handle.
Settles(s, m, h) ==
    IF m /\ s = "stopped" /\ h = {} THEN service' = "absent" /\ marked' = FALSE /\ handles' = {}
    ELSE service' = s /\ marked' = m /\ handles' = h

ManagerStep ==
    /\ \/ service = "pending" /\ Settles("running", marked, handles) /\ UNCHANGED <<window, stops>>
       \/ service = "running" /\ ~window /\ window' = TRUE /\ UNCHANGED <<service, marked, handles, stops>>
    /\ UNCHANGED <<machine, launch, hook, ended, crossed>>
ManagerQuits ==
    /\ service = "running" /\ stops > 0 /\ stops' = stops - 1 /\ window' = FALSE
    /\ Settles("stopped", marked, handles)
    /\ UNCHANGED <<machine, launch, hook, ended, crossed>>
\* UninstallManager: a stop, then the deletion, then the handle is closed.
ManagerUninstalls ==
    /\ service # "absent" /\ stops > 0 /\ stops' = stops - 1 /\ window' = FALSE
    /\ Settles(IF service = "running" THEN "stopped" ELSE service, TRUE, handles)
    /\ UNCHANGED <<machine, launch, hook, ended, crossed>>

-----------------------------------------------------------------------------
(* The launcher without arguments.                                         *)
LaunchAt(l, pc) == launch[l] = pc
LaunchGoes(l, pc) == launch' = [launch EXCEPT ![l] = pc]
LaunchEnds(l, how) ==
    /\ ended' = [ended EXCEPT ![l] = how] /\ LaunchGoes(l, "ended")
    /\ hook' = [hook EXCEPT ![l] = "off"]
    /\ handles' = handles \ {l} \* Windows closes what the process leaves open
    /\ IF marked /\ service = "stopped" /\ handles \subseteq {l}
       THEN service' = "absent" /\ marked' = FALSE ELSE UNCHANGED <<service, marked>>

\* ShellExecute elevates without a prompt if the program has an EV signature, its user could
\* confirm, Windows asks for a confirmation only and COM auto-approval is not off.  Whatever else
\* makes it run the program with the prompt.  The COM calls themselves are taken to succeed; one
\* that fails ends at the prompt too.
ElevatesQuietly(m) == m.evSigned /\ ~m.elevated /\ m.elevatable /\ m.prompt = "consent" /\ m.autoApproval # "off"

LaunchRaises(l) ==
    /\ LaunchAt(l, "start")
    /\ IF machine.newUi THEN LaunchEnds(l, "app")
       ELSE IF window THEN LaunchEnds(l, "raised")
       ELSE IF ~(machine.elevatable \/ machine.elevated) THEN LaunchEnds(l, "refused")
       ELSE LaunchGoes(l, "elevate") /\ UNCHANGED <<service, marked, handles, hook, ended>>
    /\ UNCHANGED <<machine, window, stops, crossed>>
\* The user may cancel the prompt, which ends the launcher as quietly as a success does.
LaunchElevates(l, confirms) ==
    /\ LaunchAt(l, "elevate") /\ (ElevatesQuietly(machine) => confirms)
    /\ IF confirms THEN LaunchGoes(l, "main") /\ UNCHANGED <<service, marked, handles, hook, ended>>
       ELSE LaunchEnds(l, "cancelled")
    /\ UNCHANGED <<machine, window, stops, crossed>>

-----------------------------------------------------------------------------
(* /installmanagerservice.                                                 *)
\* The goroutine of WaitForRaiseUIThenQuit sets its hook at some time after main has started it.
LaunchHooks(l) ==
    /\ ~machine.newUi /\ launch[l] \notin {"start", "elevate", "ended"} /\ hook[l] = "off"
    /\ hook' = [hook EXCEPT ![l] = IF window THEN "late" ELSE "on"]
    /\ UNCHANGED <<machine, service, marked, handles, window, launch, ended, stops, crossed>>
\* The hook reports the creation of the window: it is raised and the process ends, wherever
\* its main thread is.
LaunchSees(l) ==
    /\ hook[l] = "on" /\ window /\ LaunchEnds(l, "raised")
    /\ UNCHANGED <<machine, window, stops, crossed>>

ManagerOpens(l) ==
    /\ LaunchAt(l, "main") /\ handles' = IF service = "absent" THEN handles ELSE handles \cup {l}
    /\ LaunchGoes(l, CASE service = "absent" -> "create"
                 [] service = "pending" -> "close"
                 [] service = "running" -> "already"
                 [] service = "stopped" -> "delete")
    /\ UNCHANGED <<machine, service, marked, window, hook, ended, stops, crossed>>
InstallRefuses(l) ==
    /\ LaunchAt(l, "already") /\ LaunchEnds(l, IF machine.adminDesktop THEN "running" ELSE "desktop")
    /\ UNCHANGED <<machine, window, stops, crossed>>
\* The service seen stopped is deleted, whatever it is doing by now; a second deletion fails.
ManagerDeletes(l) ==
    /\ LaunchAt(l, "delete")
    /\ IF marked THEN LaunchEnds(l, "failed") /\ UNCHANGED crossed
       ELSE /\ Settles(service, TRUE, handles \ {l}) /\ LaunchGoes(l, "wait")
            /\ crossed' = (crossed \/ service # "stopped") /\ UNCHANGED <<hook, ended>>
    /\ UNCHANGED <<machine, window, stops>>
\* It waits until the service cannot be opened for another reason than its deletion.
InstallWaits(l) ==
    /\ LaunchAt(l, "wait") /\ service = "absent" /\ LaunchGoes(l, "create")
    /\ UNCHANGED <<machine, service, marked, handles, window, hook, ended, stops, crossed>>
ManagerCreates(l) ==
    /\ LaunchAt(l, "create")
    /\ IF service # "absent" THEN LaunchEnds(l, "failed") /\ UNCHANGED crossed
       ELSE /\ service' = "stopped" /\ handles' = handles \cup {l} /\ LaunchGoes(l, "begin")
            /\ crossed' = (crossed \/ \E k \in Launchers : LaunchAt(k, "wait")) /\ UNCHANGED <<marked, hook, ended>>
    /\ UNCHANGED <<machine, window, stops>>
\* Mutant: the service is created and not started.
StartsNothing(l) ==
    /\ LaunchAt(l, "begin") /\ LaunchGoes(l, "close")
    /\ UNCHANGED <<machine, service, marked, handles, window, hook, ended, stops, crossed>>
\* The result of Start is not looked at.
ManagerStarts(l) ==
    /\ LaunchAt(l, "begin") /\ service' = (IF service = "stopped" /\ ~marked THEN "pending" ELSE service)
    /\ LaunchGoes(l, "close") /\ UNCHANGED <<machine, marked, handles, window, hook, ended, stops, crossed>>
InstallCloses(l) ==
    /\ LaunchAt(l, "close") /\ Settles(service, marked, handles \ {l}) /\ LaunchGoes(l, "sleep")
    /\ UNCHANGED <<machine, window, hook, ended, stops, crossed>>
\* Half a minute, unless the desktop is not an administrator's or there is another interface.
InstallSleeps(l) ==
    /\ LaunchAt(l, "sleep")
    /\ IF ~machine.adminDesktop THEN LaunchEnds(l, "desktop") ELSE IF machine.newUi THEN LaunchEnds(l, "app")
       ELSE LaunchGoes(l, "timeout") /\ UNCHANGED <<service, marked, handles, hook, ended>>
    /\ UNCHANGED <<machine, window, stops, crossed>>
\* Longer than the manager takes to come up, and the hook to be set and called.
InstallTimesOut(l) ==
    /\ LaunchAt(l, "timeout") /\ hook[l] # "off" /\ ~(hook[l] = "on" /\ window)
    /\ service # "pending" /\ (service = "running" => window)
    /\ LaunchEnds(l, "timeout") /\ UNCHANGED <<machine, window, stops, crossed>>

-----------------------------------------------------------------------------
LaunchInit ==
    /\ machine \in [newUi : BOOLEAN, elevated : {FALSE}, elevatable : BOOLEAN, adminDesktop : {TRUE, FALSE},
                    evSigned : BOOLEAN, prompt : {"consent", "other"}, autoApproval : {"on"}]
    /\ machine.newUi \/ ~machine.evSigned => machine.prompt = "consent"
    /\ service \in {"absent", "stopped"} /\ marked = FALSE /\ handles = {} /\ window = FALSE
    \* With the new interface the installer starts the elevated half on its own.
    /\ launch \in [Launchers -> IF machine.newUi THEN {"start", "main"} ELSE {"start"}]
    /\ hook = [l \in Launchers |-> "off"] /\ ended = [l \in Launchers |-> "no"]
    /\ stops = MaxManagerStops /\ crossed = FALSE

LauncherStep(l) ==
    \/ LaunchRaises(l) \/ ManagerOpens(l) \/ InstallRefuses(l) \/ ManagerDeletes(l) \/ InstallWaits(l)
    \/ ManagerCreates(l) \/ ManagerStarts(l) \/ InstallCloses(l) \/ InstallSleeps(l) \/ InstallTimesOut(l)
    \/ \E confirms \in BOOLEAN : LaunchElevates(l, confirms)
LaunchNext ==
    \/ ManagerStep \/ ManagerQuits \/ ManagerUninstalls
    \/ \E l \in Launchers : LauncherStep(l) \/ LaunchHooks(l) \/ LaunchSees(l)

\* Launchers run, the service starts, and the window hook is called.
LaunchFairness ==
    /\ WF_launchVars(ManagerStep)
    /\ \A l \in Launchers : WF_launchVars(LauncherStep(l)) /\ WF_launchVars(LaunchHooks(l)) /\ WF_launchVars(LaunchSees(l))

LaunchSpec == LaunchInit /\ [][LaunchNext]_launchVars /\ LaunchFairness

-----------------------------------------------------------------------------
(* Launchers and the manager service keep their types. *)
LaunchTypeOK ==
    /\ service \in {"absent", "stopped", "pending", "running"} /\ handles \subseteq Launchers
    /\ service = "absent" => handles = {} /\ ~marked
    /\ marked /\ service = "stopped" => handles # {}
    /\ window => service = "running"

(* Every launcher ends, with two exceptions in which it goes on looking    *)
(* for the end of a service that stays: it saw the service stopped and     *)
(* deletes it after another has started it, or another creates it anew     *)
(* between two of its looks.  Only the window's hook gets it out of that.  *)
LaunchersEnd ==
    <>[](\A l \in Launchers : launch[l] = "ended" \/ (crossed /\ launch[l] = "wait"))

(* If a launcher installed the manager, a manager runs in the end, however *)
(* the steps of two of them interleave, unless someone stops it: the one   *)
(* that loses to the other's deletion leaves the creation to it.           *)
ManagerIsUp ==
    <>[]((\E l \in Launchers : launch[l] \in {"sleep", "timeout"} \/ ended[l] \in {"timeout", "raised"})
            => service = "running" \/ stops < MaxManagerStops \/ crossed)

(* The message that no window appeared is wrong only if the window came    *)
(* before the hook: the two are started at the same time.                  *)
TimeoutIsTrue ==
    [][\A l \in Launchers :
         ended[l] = "no" /\ ended'[l] = "timeout" => ~window \/ hook[l] = "late"]_launchVars

(* Every launch ends, with the manager up or for one of the reasons the    *)
(* code has for giving up.                                                 *)
LaunchSettles == []LaunchTypeOK /\ LaunchersEnd /\ ManagerIsUp /\ TimeoutIsTrue
=============================================================================
