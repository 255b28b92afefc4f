-------------------------- MODULE WireRouteServices --------------------------
(***************************************************************************)
(* The tunnel service of the service-free mode: TunnelServiceController    *)
(* and ApplyPersistentTunnelModeAsync of the app, and the four elevated    *)
(* commands of wireguard.exe they run (manager/install.go).                *)
(*                                                                         *)
(* One tunnel name.  The profiles that have it (of one user or of several) *)
(* are Owners; each belongs to an app that runs one operation at a time.   *)
(* An elevated command is a process of its own: it goes on when the app    *)
(* that started it exits.  The SCM and the tunnel process are environment. *)
(***************************************************************************)
EXTENDS Naturals, FiniteSets

CONSTANTS
  Owners,     \* profiles with the tunnel name
  Nobody,     \* no profile
  Procs,      \* bound: elevated commands at one time
  MaxOps,     \* bound: operations of the apps
  MaxFailures,\* bound: failures of the tunnel process or of a call
  MaxExits    \* bound: exits of an app and restarts of Windows

ASSUME OwnersAssumption == Nobody \notin Owners
ASSUME BoundAssumption == {MaxOps, MaxFailures, MaxExits} \subseteq Nat

VARIABLES
  svc,      \* the Windows service of the tunnel
  copy,     \* whose marker the protected copy of the configuration has
  file,     \* whether the plaintext runtime configuration of an owner exists
  mode,     \* the Persistent VPN setting of each app
  op,       \* the operation each app runs
  cmd,      \* the elevated commands
  ops, failures, exits

vars == <<svc, copy, file, mode, op, cmd, ops, failures, exits>>

Absent == [state |-> "absent", auto |-> FALSE, owner |-> Nobody, accepts |-> FALSE,
           stop |-> FALSE, marked |-> FALSE]

Services == [state: {"absent", "stopped", "startpending", "running", "stoppending"},
             auto: BOOLEAN, owner: Owners \cup {Nobody}, accepts: BOOLEAN,
             stop: BOOLEAN, marked: BOOLEAN]

Commands == {"installE", "installP", "stopE", "uninstallP"}

(* "prev" is the copy to go back to, "live" that the app waits for the exit code. *)
NoCmd == [pc |-> "free", kind |-> "none", owner |-> Nobody, prev |-> Nobody, ok |-> FALSE,
          live |-> FALSE]

Cmds == [pc: {"free", "load", "save", "open", "delete", "gone", "create", "start", "poll",
              "rollback", "remove", "exit"},
         kind: Commands \cup {"none"}, owner: Owners \cup {Nobody},
         prev: Owners \cup {Nobody}, ok: BOOLEAN, live: BOOLEAN]

(***************************************************************************)
(* An operation is a call of StartAsync or StopAsync ("call"), with what   *)
(* is to happen after it: enabling Persistent VPN stops, starts persistent *)
(* and, if that fails, starts again without persistence.                   *)
(***************************************************************************)
Idle == [pc |-> "idle", kind |-> "none", call |-> "none", persistent |-> FALSE]

Ops == [pc: {"idle", "prompt", "elevated", "wait"},
        kind: {"none", "activate", "deactivate", "enable", "disable", "restore"},
        call: {"none", "start", "stop"}, persistent: BOOLEAN]

Init ==
  /\ svc = Absent
  /\ copy = Nobody
  /\ file = [o \in Owners |-> FALSE]
  /\ mode = [o \in Owners |-> FALSE]
  /\ op = [o \in Owners |-> Idle]
  /\ cmd = [p \in Procs |-> NoCmd]
  /\ ops = 0 /\ failures = 0 /\ exits = 0

-----------------------------------------------------------------------------
(* What the app sees: GetState and IsPersistentService. *)
GetState == CASE svc.state \in {"absent", "stopped"} -> "Inactive"
              [] svc.state = "startpending" -> "Activating"
              [] svc.state = "running" -> "Active"
              [] svc.state = "stoppending" -> "Deactivating"

IsPersistentService == svc.state # "absent" /\ svc.auto

(* StartAsync writes the runtime configuration, then asks for elevation. *)
BeginStart(o, kind, persistent) ==
  /\ op' = [op EXCEPT ![o] = [pc |-> "prompt", kind |-> kind, call |-> "start",
                              persistent |-> persistent]]
  /\ file' = [file EXCEPT ![o] = TRUE]

(* StopAsync decides here, before the prompt, which command to run. *)
BeginStop(o, kind) ==
  /\ op' = [op EXCEPT ![o] = [pc |-> "prompt", kind |-> kind, call |-> "stop",
                              persistent |-> IsPersistentService]]
  /\ UNCHANGED file

NewOp(o) == op[o].pc = "idle" /\ ops < MaxOps /\ ops' = ops + 1

Activate(o) ==
  /\ NewOp(o) /\ GetState = "Inactive"
  /\ BeginStart(o, "activate", mode[o])
  /\ UNCHANGED <<svc, copy, mode, cmd, failures, exits>>

Deactivate(o) ==
  /\ NewOp(o) /\ GetState # "Inactive"
  /\ BeginStop(o, "deactivate")
  /\ UNCHANGED <<svc, copy, mode, cmd, failures, exits>>

(***************************************************************************)
(* ApplyPersistentTunnelModeAsync, with the setting already saved.  There  *)
(* is nothing to do for a tunnel that is not active, or not persistent.    *)
(***************************************************************************)
Enable(o) ==
  /\ NewOp(o) /\ ~mode[o]
  /\ mode' = [mode EXCEPT ![o] = TRUE]
  /\ IF GetState = "Active" /\ ~IsPersistentService
     THEN BeginStop(o, "enable")
     ELSE UNCHANGED <<op, file>>
  /\ UNCHANGED <<svc, copy, cmd, failures, exits>>

Disable(o) ==
  /\ NewOp(o) /\ mode[o]
  /\ mode' = [mode EXCEPT ![o] = FALSE]
  /\ IF IsPersistentService THEN BeginStop(o, "disable") ELSE UNCHANGED <<op, file>>
  /\ UNCHANGED <<svc, copy, cmd, failures, exits>>

(***************************************************************************)
(* The end of a call.  A failed change of the setting is rolled back to    *)
(* its old value by the settings page.                                     *)
(***************************************************************************)
CallSucceeds(o) ==
  CASE op[o].kind = "enable" /\ op[o].call = "stop" ->
         BeginStart(o, "enable", TRUE) /\ UNCHANGED mode
    [] op[o].kind = "restore" ->
         op' = [op EXCEPT ![o] = Idle] /\ file' = [file EXCEPT ![o] = FALSE]
         /\ mode' = [mode EXCEPT ![o] = FALSE]
    [] OTHER -> /\ op' = [op EXCEPT ![o] = Idle]
                /\ file' = IF op[o].call = "start" THEN [file EXCEPT ![o] = FALSE] ELSE file
                /\ UNCHANGED mode

CallFails(o) ==
  CASE op[o].kind = "enable" /\ op[o].call = "start" ->
         BeginStart(o, "restore", FALSE) /\ UNCHANGED mode
    [] OTHER -> /\ op' = [op EXCEPT ![o] = Idle]
                /\ file' = IF op[o].call = "start" THEN [file EXCEPT ![o] = FALSE] ELSE file
                /\ mode' = [mode EXCEPT ![o] = IF op[o].kind \in {"enable", "restore"} THEN FALSE
                                               ELSE IF op[o].kind = "disable" THEN TRUE ELSE @]

(* RunElevatedAsync: the user declines, or a command starts. *)
Declined(o) ==
  /\ op[o].pc = "prompt"
  /\ CallFails(o)
  /\ UNCHANGED <<svc, copy, cmd, ops, failures, exits>>

Kind(o) == IF op[o].call = "start"
           THEN IF op[o].persistent THEN "installP" ELSE "installE"
           ELSE IF op[o].persistent THEN "uninstallP" ELSE "stopE"

Approved(o, p) ==
  /\ op[o].pc = "prompt" /\ cmd[p].pc = "free"
  /\ cmd' = [cmd EXCEPT ![p] = [NoCmd EXCEPT
               !.pc = IF op[o].persistent THEN "load" ELSE "open",
               !.kind = Kind(o), !.owner = o, !.live = TRUE]]
  /\ op' = [op EXCEPT ![o].pc = "elevated"]
  /\ UNCHANGED <<svc, copy, file, mode, ops, failures, exits>>

(* The command exits, and the app, if it still waits, looks at its code. *)
CommandExits(p) ==
  LET o == cmd[p].owner IN
  /\ cmd[p].pc = "exit"
  /\ cmd' = [cmd EXCEPT ![p] = NoCmd]
  /\ \/ /\ cmd[p].live /\ cmd[p].ok
        /\ op' = [op EXCEPT ![o].pc = "wait"]
        /\ UNCHANGED <<file, mode>>
     \/ cmd[p].live /\ ~cmd[p].ok /\ CallFails(o)
     \/ ~cmd[p].live /\ UNCHANGED <<op, file, mode>>
  /\ UNCHANGED <<svc, copy, ops, failures, exits>>

(* WaitForStateAsync: every 200 ms, for 45 seconds. *)
Expected(o) == IF op[o].call = "start" THEN "Active" ELSE "Inactive"

WaitSees(o) ==
  /\ op[o].pc = "wait"
  /\ \/ GetState = Expected(o) /\ CallSucceeds(o)
     \/ Expected(o) = "Active" /\ GetState = "Inactive" /\ CallFails(o)
  /\ UNCHANGED <<svc, copy, cmd, ops, failures, exits>>

WaitTimesOut(o) ==
  /\ op[o].pc = "wait" /\ GetState # Expected(o)
  /\ CallFails(o)
  /\ UNCHANGED <<svc, copy, cmd, ops, failures, exits>>

(* The app ends in the middle of an operation. *)
AppExits(o) ==
  /\ op[o].pc # "idle" /\ exits < MaxExits
  /\ exits' = exits + 1
  /\ op' = [op EXCEPT ![o] = Idle]
  /\ cmd' = [p \in Procs |-> IF cmd[p].owner = o THEN [cmd[p] EXCEPT !.live = FALSE] ELSE cmd[p]]
  /\ UNCHANGED <<svc, copy, file, mode, ops, failures>>

-----------------------------------------------------------------------------
(***************************************************************************)
(* The elevated commands.                                                  *)
(***************************************************************************)
Goes(p, pc) == cmd' = [cmd EXCEPT ![p].pc = pc]

Ends(p, ok) == cmd' = [cmd EXCEPT ![p].pc = "exit", ![p].ok = ok]

(* installTunnel has failed: a persistent one takes the copy back. *)
Fails(p) == IF cmd[p].kind = "installP" THEN Goes(p, "rollback") ELSE Ends(p, FALSE)

OnlyCmd == UNCHANGED <<svc, file, mode, op, ops, exits>>

(* Mutant: the marker of the stored copy is not looked at. *)
LoadsAny(p) ==
  /\ cmd[p].pc = "load"
  /\ IF cmd[p].kind = "installP" \/ copy # Nobody
     THEN cmd' = [cmd EXCEPT ![p].prev = copy,
                             ![p].pc = IF cmd[p].kind = "installP" THEN "save" ELSE "open"]
     ELSE Ends(p, FALSE)
  /\ UNCHANGED <<copy, failures>> /\ OnlyCmd

(* A copy with another marker is neither replaced nor deleted. *)
Loads(p) ==
  /\ cmd[p].pc = "load"
  /\ IF copy = cmd[p].owner \/ (copy = Nobody /\ cmd[p].kind = "installP")
     THEN cmd' = [cmd EXCEPT ![p].prev = copy,
                             ![p].pc = IF cmd[p].kind = "installP" THEN "save" ELSE "open"]
     ELSE Ends(p, FALSE)
  /\ UNCHANGED <<copy, failures>> /\ OnlyCmd

Saves(p) ==
  /\ cmd[p].pc = "save"
  /\ \/ copy' = cmd[p].owner /\ Goes(p, "open") /\ UNCHANGED failures
     \/ /\ failures < MaxFailures /\ failures' = failures + 1
        /\ Ends(p, FALSE) /\ UNCHANGED copy
  /\ OnlyCmd

(* The previous copy, or none, comes back; its own failure is ignored. *)
RollsBack(p) ==
  /\ cmd[p].pc = "rollback"
  /\ \/ copy' = cmd[p].prev /\ UNCHANGED failures
     \/ failures < MaxFailures /\ failures' = failures + 1 /\ UNCHANGED copy
  /\ Ends(p, FALSE)
  /\ OnlyCmd

(* Mutant: the loop waits for a service that it has not deleted. *)
DeletesNothing(p) ==
  /\ cmd[p].pc = "delete"
  /\ Goes(p, "gone")
  /\ UNCHANGED <<copy, failures>> /\ OnlyCmd

(* installTunnel, first part. *)
InstallOpens(p) ==
  /\ cmd[p].pc = "open" /\ cmd[p].kind \in {"installE", "installP"}
  /\ \/ svc.state = "absent" /\ Goes(p, "create")
     \/ svc.state = "stopped" /\ Goes(p, "delete")
     \/ svc.state \notin {"absent", "stopped"} /\ Fails(p)
  /\ UNCHANGED <<copy, failures>> /\ OnlyCmd

InstallDeletes(p) ==
  /\ cmd[p].pc = "delete"
  /\ svc' = [svc EXCEPT !.marked = TRUE]
  /\ Goes(p, "gone")
  /\ UNCHANGED <<copy, file, mode, op, ops, failures, exits>>

InstallFindsGone(p) ==
  /\ cmd[p].pc = "gone" /\ svc.state = "absent"
  /\ Goes(p, "create")
  /\ UNCHANGED <<copy, failures>> /\ OnlyCmd

InstallCreates(p) ==
  /\ cmd[p].pc = "create"
  /\ \/ /\ svc.state = "absent"
        /\ svc' = [Absent EXCEPT !.state = "stopped", !.auto = (cmd[p].kind = "installP"),
                                 !.owner = cmd[p].owner]
        /\ Goes(p, "start")
        /\ UNCHANGED failures
     \/ /\ svc.state # "absent"
        /\ Fails(p)
        /\ UNCHANGED <<svc, failures>>
     \/ /\ failures < MaxFailures /\ failures' = failures + 1
        /\ Fails(p)
        /\ UNCHANGED svc
  /\ UNCHANGED <<copy, file, mode, op, ops, exits>>

(* Service.Start; on failure the new service is deleted. *)
InstallStarts(p) ==
  /\ cmd[p].pc = "start"
  /\ \/ /\ svc.state = "stopped" /\ ~svc.marked
        /\ svc' = [svc EXCEPT !.state = "startpending"]
        /\ IF cmd[p].kind = "installP" THEN Ends(p, TRUE) ELSE Goes(p, "poll")
        /\ UNCHANGED failures
     \/ /\ IF svc.marked \/ svc.state # "stopped" THEN UNCHANGED failures
           ELSE failures < MaxFailures /\ failures' = failures + 1
        /\ svc' = [svc EXCEPT !.marked = TRUE]
        /\ Fails(p)
  /\ UNCHANGED <<copy, file, mode, op, ops, exits>>

(* Control(Stop): ignored until the service accepts it. *)
SentStop(s) == IF s.accepts THEN [s EXCEPT !.stop = TRUE] ELSE s

(* A demand-start installation polls until it runs, has stopped or is late. *)
InstallPolls(p) ==
  /\ cmd[p].pc = "poll"
  /\ \/ svc.state = "running" /\ Ends(p, TRUE) /\ UNCHANGED <<svc, failures>>
     \/ /\ svc.state = "stopped"
        /\ svc' = [svc EXCEPT !.marked = TRUE]
        /\ Ends(p, FALSE)
        /\ UNCHANGED failures
     \/ /\ svc.state # "running"
        /\ svc' = [SentStop(svc) EXCEPT !.marked = TRUE]
        /\ Ends(p, FALSE)
        /\ UNCHANGED failures
  /\ UNCHANGED <<copy, file, mode, op, ops, exits>>

(* Mutant: a demand-start service is stopped but not deleted. *)
OnlyStops(p) ==
  /\ cmd[p].pc = "open" /\ cmd[p].kind \in {"stopE", "uninstallP"}
  /\ svc' = IF svc.state = "absent" THEN svc
            ELSE [SentStop(svc) EXCEPT !.marked = @ \/ cmd[p].kind = "uninstallP"]
  /\ IF cmd[p].kind = "uninstallP" THEN Goes(p, "remove") ELSE Ends(p, TRUE)
  /\ UNCHANGED <<copy, file, mode, op, ops, failures, exits>>

(* UninstallTunnel. *)
Uninstalls(p) ==
  /\ cmd[p].pc = "open" /\ cmd[p].kind \in {"stopE", "uninstallP"}
  /\ svc' = IF svc.state = "absent" THEN svc ELSE [SentStop(svc) EXCEPT !.marked = TRUE]
  /\ IF cmd[p].kind = "uninstallP" THEN Goes(p, "remove") ELSE Ends(p, TRUE)
  /\ UNCHANGED <<copy, file, mode, op, ops, failures, exits>>

(* DeleteName, once the service is marked. *)
RemovesCopy(p) ==
  /\ cmd[p].pc = "remove"
  /\ \/ copy' = Nobody /\ Ends(p, TRUE) /\ UNCHANGED failures
     \/ /\ failures < MaxFailures /\ failures' = failures + 1
        /\ Ends(p, FALSE) /\ UNCHANGED copy
  /\ OnlyCmd

-----------------------------------------------------------------------------
(***************************************************************************)
(* The SCM and the tunnel process.                                         *)
(***************************************************************************)
Held == \E p \in Procs : cmd[p].pc \in {"delete", "start", "poll"}

ServiceSteps == UNCHANGED <<copy, file, mode, op, cmd, ops, exits>>

(* The process can load its configuration: the copy, or the runtime file. *)
Configured == IF svc.auto THEN copy # Nobody ELSE file[svc.owner]

ServiceAccepts ==
  /\ svc.state = "startpending" /\ ~svc.accepts /\ Configured
  /\ svc' = [svc EXCEPT !.accepts = TRUE]
  /\ UNCHANGED failures /\ ServiceSteps

ServiceRuns ==
  /\ svc.state = "startpending" /\ svc.accepts /\ ~svc.stop
  /\ svc' = [svc EXCEPT !.state = "running"]
  /\ UNCHANGED failures /\ ServiceSteps

ServiceStops ==
  /\ svc.state \in {"startpending", "running"}
  /\ \/ svc.stop
     \/ svc.state = "startpending" /\ ~svc.accepts /\ ~Configured
  /\ svc' = [svc EXCEPT !.state = "stoppending", !.accepts = FALSE]
  /\ UNCHANGED failures /\ ServiceSteps

ServiceFails ==
  /\ svc.state \in {"startpending", "running"} /\ failures < MaxFailures
  /\ failures' = failures + 1
  /\ svc' = [svc EXCEPT !.state = "stoppending", !.accepts = FALSE]
  /\ ServiceSteps

ServiceEnds ==
  /\ svc.state = "stoppending"
  /\ svc' = [svc EXCEPT !.state = "stopped"]
  /\ UNCHANGED failures /\ ServiceSteps

ServiceRemoved ==
  /\ svc.state = "stopped" /\ svc.marked /\ ~Held
  /\ svc' = Absent
  /\ UNCHANGED failures /\ ServiceSteps

(* Windows restarts: marked services are gone, automatic ones start. *)
Reboot ==
  /\ exits < MaxExits /\ exits' = exits + 1
  /\ svc' = IF svc.state = "absent" \/ svc.marked THEN Absent
            ELSE [svc EXCEPT !.state = IF svc.auto THEN "startpending" ELSE "stopped",
                             !.accepts = FALSE, !.stop = FALSE]
  /\ op' = [o \in Owners |-> Idle]
  /\ cmd' = [p \in Procs |-> NoCmd]
  /\ UNCHANGED <<copy, file, mode, ops, failures>>

-----------------------------------------------------------------------------
AppSteps(o) ==
  Declined(o) \/ (\E p \in Procs : Approved(o, p)) \/ WaitSees(o) \/ WaitTimesOut(o)

CmdSteps(p) ==
  \/ Loads(p) \/ Saves(p) \/ RollsBack(p) \/ InstallOpens(p) \/ InstallDeletes(p)
  \/ InstallFindsGone(p) \/ InstallCreates(p) \/ InstallStarts(p) \/ InstallPolls(p)
  \/ Uninstalls(p) \/ RemovesCopy(p) \/ CommandExits(p)

Environment == ServiceAccepts \/ ServiceRuns \/ ServiceStops \/ ServiceEnds \/ ServiceRemoved

Next ==
  \/ \E o \in Owners : \/ Activate(o) \/ Deactivate(o) \/ Enable(o) \/ Disable(o)
                       \/ AppSteps(o) \/ AppExits(o)
  \/ \E p \in Procs : CmdSteps(p)
  \/ Environment \/ ServiceFails \/ Reboot

(***************************************************************************)
(* The user answers the prompt, processes run, the tunnel process starts   *)
(* or stops (its watchdog, tunnel/service.go:58), the SCM drops what is    *)
(* marked.  The waits of the app and of installTunnel have deadlines.      *)
(***************************************************************************)
Fairness ==
  /\ \A o \in Owners : WF_vars(AppSteps(o))
  /\ \A p \in Procs : WF_vars(CmdSteps(p))
  /\ WF_vars(Environment)

Spec == Init /\ [][Next]_vars
FairSpec == Spec /\ Fairness

-----------------------------------------------------------------------------
TypeOK ==
  /\ svc \in Services
  /\ copy \in Owners \cup {Nobody}
  /\ file \in [Owners -> BOOLEAN]
  /\ mode \in [Owners -> BOOLEAN]
  /\ op \in [Owners -> Ops]
  /\ cmd \in [Procs -> Cmds]
  /\ {ops, failures, exits} \subseteq Nat

(***************************************************************************)
(* An automatic service can always start with Windows: its protected copy  *)
(* is on disk before it is created and is deleted only after the service   *)
(* is marked, on every error path of an installation too                   *)
(* (install.go:159-173, 194-197).                                          *)
(***************************************************************************)
AutoHasCopy == svc.auto /\ svc.state # "absent" /\ ~svc.marked => copy # Nobody

(***************************************************************************)
(* A disconnect that succeeded is final: when StopAsync has returned, no   *)
(* service of the profile is left that the next start of Windows or of the *)
(* service would bring up (TunnelServiceController.cs:227-238).            *)
(***************************************************************************)
StopIsFinal ==
  [][\A o \in Owners :
       /\ op[o].pc = "wait" /\ op[o].call = "stop" /\ GetState = "Inactive"
       /\ op'[o].pc # "wait" /\ exits' = exits
       => svc.owner # o \/ svc.marked]_vars

(***************************************************************************)
(* The protected copy of a profile is replaced or deleted only by a        *)
(* command for that profile (install.go:142, 191).                         *)
(***************************************************************************)
CopyIsOwn ==
  [][copy # Nobody /\ copy' # copy => \E p \in Procs : cmd[p].owner = copy /\ cmd'[p] # cmd[p]]_vars

\* A command of o has found an old service, and another creates or starts one meanwhile.
Overtaken(o) ==
  \E p, q \in Procs : /\ cmd[p].owner = o /\ cmd[p].live /\ cmd[p].pc \in {"delete", "gone"}
                      /\ q # p /\ cmd[q].pc \in {"create", "start"}

(***************************************************************************)
(* An operation of o returns, also next to the command of another app.    *)
(* The loop that waits for the old service to go (install.go:271-280) has  *)
(* no deadline: it needs that the service is deleted, that it does not run *)
(* and that the other command lets go of its handle.  A command that is    *)
(* overtaken is excepted: it waits for as long as the other's tunnel is    *)
(* installed, with no limit of its own.                                    *)
(***************************************************************************)
OperationReturns(o) == op[o].pc = "prompt" ~> (op[o].pc = "idle" \/ Overtaken(o))

(* A service that starts with Windows has its protected copy, and the copy *)
(* a service runs with is one its own profile wrote.                       *)
CopiesKept == [](TypeOK /\ AutoHasCopy) /\ CopyIsOwn
=============================================================================
