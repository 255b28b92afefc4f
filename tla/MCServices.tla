----------------------------- MODULE MCServices -----------------------------
(***************************************************************************)
(* The services of Windows that this program installs, starts and ends:    *)
(* the service-free tunnel of two profiles that share its name, with one   *)
(* elevated command at a time ("tunnel") and with two ("shared"), the      *)
(* manager's own service as two launchers find it, and the user interfaces *)
(* the manager keeps alive in the sessions of the users.  A behaviour      *)
(* picks one of them; the others rest in a state in which nothing of them  *)
(* goes on.                                                                *)
(***************************************************************************)
EXTENDS WireRouteServices, ManagerLaunch, ManagerSessions

CONSTANTS alice, bob

VARIABLES
  part,
  \* the variables of WireRouteServices once more, for the part "shared"
  sharedSvc, sharedCopy, sharedFile, sharedMode, sharedOp, sharedCmd,
  sharedOps, sharedFailures, sharedExits

sharedVars == <<sharedSvc, sharedCopy, sharedFile, sharedMode, sharedOp, sharedCmd,
                sharedOps, sharedFailures, sharedExits>>

TwoOwners == {alice, bob}
OneCommand == {1}
TwoCommands == {1, 2}

\* Both owners may have an elevated command at work at the same time.
Shared == INSTANCE WireRouteServices WITH
  Procs <- TwoCommands, MaxOps <- 3, MaxExits <- 0,
  svc <- sharedSvc, copy <- sharedCopy, file <- sharedFile, mode <- sharedMode,
  op <- sharedOp, cmd <- sharedCmd,
  ops <- sharedOps, failures <- sharedFailures, exits <- sharedExits

\* An administrator who is asked for consent.
MCSessionUser ==
    [s \in Sessions |-> [elevated |-> FALSE, linked |-> "elevated", operator |-> FALSE, person |-> TRUE]]

LaunchRests ==
    /\ machine = [newUi |-> FALSE, elevated |-> FALSE, elevatable |-> FALSE, adminDesktop |-> FALSE,
                  evSigned |-> FALSE, prompt |-> "consent", autoApproval |-> "on"]
    /\ service = "absent" /\ marked = FALSE /\ handles = {} /\ window = FALSE
    /\ launch = [l \in Launchers |-> "ended"] /\ hook = [l \in Launchers |-> "off"]
    /\ ended = [l \in Launchers |-> "failed"] /\ stops = 0 /\ crossed = FALSE

SessionsRest ==
    /\ phase = "stopped" /\ logged = {} /\ todo = {} /\ inbox = <<>> /\ aliveSessions = {}
    /\ procs = [s \in Sessions |-> NoLoop] /\ stoppingManager = TRUE
    /\ loop = [l \in UiLoops |-> [pc |-> "unused", session |-> NoLoop]]
    /\ ui = [l \in UiLoops |-> "none"] /\ listening = {} /\ told = {}
    /\ logs = 0 /\ uiExits = 0 /\ uiFaults = 0
    /\ relogged = {} /\ unheard = {} /\ gaveUp = {} /\ late = {}

PartsInit ==
    /\ part \in {"tunnel", "shared", "launch", "sessions"}
    /\ Init /\ Shared!Init
    /\ IF part = "launch" THEN LaunchInit ELSE LaunchRests
    /\ IF part = "sessions" THEN SessionsInit ELSE SessionsRest

PartsNext ==
    /\ \/ part = "tunnel" /\ Next /\ UNCHANGED <<sharedVars, launchVars, sessionVars>>
       \/ part = "shared" /\ Shared!Next /\ UNCHANGED <<vars, launchVars, sessionVars>>
       \/ part = "launch" /\ LaunchNext /\ UNCHANGED <<vars, sharedVars, sessionVars>>
       \/ part = "sessions" /\ SessionsNext /\ UNCHANGED <<vars, sharedVars, launchVars>>
    /\ UNCHANGED part

PartsSpec ==
    /\ PartsInit /\ [][PartsNext]_<<part, vars, sharedVars, launchVars, sessionVars>>
    /\ Shared!Fairness /\ LaunchFairness /\ SessionsFairness

(***************************************************************************)
(* The loop of installTunnel that waits without a deadline for the deleted *)
(* service to be gone (install.go:271) meets services that the command of  *)
(* the other owner holds, starts or polls.  Every operation that reaches   *)
(* the prompt returns nevertheless, unless its command is overtaken.  No   *)
(* action tells the owners apart, so what holds of one holds of both.      *)
(***************************************************************************)
OperationsReturn == Shared!OperationReturns(alice)
=============================================================================
