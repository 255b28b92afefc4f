-------------------------- MODULE ManagerSessions --------------------------
(***************************************************************************)
(* The manager service: one respawn loop (startProcess) per logged-on      *)
(* session, the service control loop that starts and ends them, and the    *)
(* end of the service.  The loops share aliveSessions and procs under      *)
(* procsLock, and look at stoppingManager without it.                      *)
(***************************************************************************)
EXTENDS Naturals, Sequences, FiniteSets

CONSTANTS Sessions,
          SessionUser,     \* a session's token: [elevated, linked, operator, person]
          UiLoops,         \* goroutines started by goStartProcess, a bound
          OperatorUi,      \* LimitedOperatorUI is set
          MaxLogs,         \* logons and logoffs
          MaxUiExits,      \* UIs that exit or crash by themselves
          MaxUiFaults      \* pipes or processes that cannot be made

NoLoop == "none"

VARIABLES
  phase,       \* starting, running, waiting, stopped, uninstalled, failed
  todo,        \* sessions enumerated and not looked at yet
  logged,      \* sessions with a user, as Windows knows them
  inbox,       \* session changes on their way to the service
  aliveSessions,
  procs,       \* the loop whose UI process is on record for a session
  stoppingManager,
  loop,        \* [pc, session]
  ui,          \* the UI process of a loop: none, running, exited or logoff
  listening,   \* loops whose connection is among the managers to notify
  told,        \* loops whose UI has been sent ManagerStopping
  logs, uiExits, uiFaults,
  relogged,    \* history: a logon was handled while a loop of that session still ran
  unheard,     \* history: session changes before the service accepted them
  gaveUp,      \* history: sessions whose loop ended on an error
  late         \* history: loops without a process on record when the service stopped

sessionVars == <<phase, todo, logged, inbox, aliveSessions, procs, stoppingManager, loop, ui,
                 listening, told, logs, uiExits, uiFaults, relogged, unheard, gaveUp, late>>
shared == <<aliveSessions, procs>>
outside == <<logged, inbox, logs, uiExits>>
sessionHistory == <<relogged, unheard, gaveUp, late>>

-----------------------------------------------------------------------------
(* Whose session gets a UI.                                                *)
TokenIsElevatedOrElevatable(u) == u.elevated \/ u.linked = "elevated"
IsOperator(u) == ~TokenIsElevatedOrElevatable(u) /\ OperatorUi /\ u.operator
MayRunUi(u) == (TokenIsElevatedOrElevatable(u) \/ IsOperator(u)) /\ u.person

-----------------------------------------------------------------------------
(* startProcess.                                                           *)
LoopGoes(l, pc) == loop' = [loop EXCEPT ![l].pc = pc]
UiFault == uiFaults > 0 /\ uiFaults' = uiFaults - 1

TokenChecked(l) ==
    /\ loop[l].pc = "token"
    /\ LoopGoes(l, IF MayRunUi(SessionUser[loop[l].session]) THEN "top" ELSE "exit")
    /\ UNCHANGED <<phase, todo, shared, stoppingManager, ui, listening, told, outside, uiFaults, sessionHistory>>

TopOfLoop(l) ==
    /\ loop[l].pc = "top"
    /\ LoopGoes(l, IF stoppingManager THEN "exit" ELSE "alive")
    /\ UNCHANGED <<phase, todo, shared, stoppingManager, ui, listening, told, outside, uiFaults, sessionHistory>>

LooksAlive(l) ==
    /\ loop[l].pc = "alive"
    /\ LoopGoes(l, IF loop[l].session \in aliveSessions THEN "pipes" ELSE "exit")
    /\ UNCHANGED <<phase, todo, shared, stoppingManager, ui, listening, told, outside, uiFaults, sessionHistory>>

\* A second's sleep after the first time, the pipes, and a goroutine that serves them.
OpensPipes(l) ==
    /\ loop[l].pc = "pipes"
    /\ LoopGoes(l, "launch")
    /\ UNCHANGED <<phase, todo, shared, stoppingManager, ui, listening, told, outside, uiFaults, sessionHistory>>

\* The goroutine puts the connection among those that are notified.
Listens(l) ==
    /\ loop[l].pc \in {"launch", "record", "wait"} /\ l \notin listening
    /\ listening' = listening \cup {l}
    /\ UNCHANGED <<phase, todo, shared, stoppingManager, loop, ui, told, outside, uiFaults, sessionHistory>>

\* Under the lock, and only for a session that is alive.
Launches(l) ==
    /\ loop[l].pc = "launch"
    /\ IF loop[l].session \in aliveSessions
       THEN LoopGoes(l, "record") /\ ui' = [ui EXCEPT ![l] = "running"] /\ UNCHANGED listening
       ELSE LoopGoes(l, "exit") /\ listening' = listening \ {l} /\ UNCHANGED ui
    /\ UNCHANGED <<phase, todo, shared, stoppingManager, told, outside, uiFaults, sessionHistory>>

\* No token, no pipes, no mapping handle or no process: the loop ends.
GivesUp(l) ==
    /\ loop[l].pc \in {"token", "pipes", "launch"} /\ UiFault
    /\ LoopGoes(l, "exit") /\ gaveUp' = gaveUp \cup {loop[l].session}
    /\ listening' = listening \ {l}
    /\ UNCHANGED <<phase, todo, shared, stoppingManager, ui, told, outside, relogged, unheard, late>>

\* The lock was free since the launch: a logoff or the end of the service may lie between.
RecordsProcess(l) ==
    /\ loop[l].pc = "record"
    /\ procs' = [procs EXCEPT ![loop[l].session] = l]
    /\ LoopGoes(l, "wait")
    /\ UNCHANGED <<phase, todo, aliveSessions, stoppingManager, ui, listening, told, outside, uiFaults, sessionHistory>>

\* Mutant: the loop does not wait for the process.
WaitReturnsEarly(l) ==
    /\ loop[l].pc = "wait" /\ LoopGoes(l, IF stoppingManager THEN "exit" ELSE "forget")
    /\ UNCHANGED <<phase, todo, shared, stoppingManager, ui, listening, told, outside, uiFaults, sessionHistory>>
WaitReturns(l) ==
    /\ loop[l].pc = "wait" /\ ui[l] # "running"
    /\ LoopGoes(l, "forget")
    /\ UNCHANGED <<phase, todo, shared, stoppingManager, ui, listening, told, outside, uiFaults, sessionHistory>>

\* Mutant: every exit of a UI ends the loop.
ForgetsForGood(l) ==
    /\ loop[l].pc = "forget"
    /\ procs' = [procs EXCEPT ![loop[l].session] = NoLoop]
    /\ LoopGoes(l, "exit") /\ ui' = [ui EXCEPT ![l] = "none"]
    /\ listening' = listening \ {l} /\ told' = told \ {l}
    /\ UNCHANGED <<phase, todo, aliveSessions, stoppingManager, outside, uiFaults, sessionHistory>>
\* The record is deleted, whoever's it is; STATUS_DLL_INIT_FAILED_LOGOFF ends the loop.
ForgetsProcess(l) ==
    /\ loop[l].pc = "forget"
    /\ procs' = [procs EXCEPT ![loop[l].session] = NoLoop]
    /\ LoopGoes(l, IF ui[l] = "logoff" THEN "exit" ELSE "top")
    /\ ui' = [ui EXCEPT ![l] = "none"]
    /\ listening' = listening \ {l} /\ told' = told \ {l}
    /\ UNCHANGED <<phase, todo, aliveSessions, stoppingManager, outside, uiFaults, sessionHistory>>

\* The deferred delete, whatever the session has become in the meantime.
LoopEnds(l) ==
    /\ loop[l].pc = "exit"
    /\ aliveSessions' = aliveSessions \ {loop[l].session}
    /\ LoopGoes(l, "done")
    /\ UNCHANGED <<phase, todo, procs, stoppingManager, ui, listening, told, outside, uiFaults, sessionHistory>>

-----------------------------------------------------------------------------
(* Execute.                                                                *)
Active(s) == {l \in UiLoops : loop[l].session = s /\ loop[l].pc \notin {"unused", "done"}}

\* A session is there, or logs on: a loop unless a UI of it is on record.
Appears(s) ==
    /\ relogged' = IF Active(s) # {} THEN relogged \cup {s} ELSE relogged
    /\ aliveSessions' = aliveSessions \cup {s}
    /\ IF s \notin aliveSessions /\ procs[s] = NoLoop
       THEN \E l \in UiLoops :
               /\ loop[l].pc = "unused"
               /\ loop' = [loop EXCEPT ![l] = [pc |-> "token", session |-> s]]
       ELSE UNCHANGED loop

EnumeratesSession(s) ==
    /\ phase = "starting" /\ s \in todo
    /\ todo' = todo \ {s} /\ Appears(s)
    /\ UNCHANGED <<phase, procs, stoppingManager, ui, listening, told, outside, uiFaults, unheard, gaveUp, late>>

\* An error of the log, the tracker or the enumeration: the service ends at once.
StartFails ==
    /\ phase = "starting" /\ UiFault /\ \A l \in UiLoops : loop[l].pc = "unused"
    /\ phase' = "failed"
    /\ UNCHANGED <<todo, shared, stoppingManager, loop, ui, listening, told, outside, sessionHistory>>

Runs ==
    /\ phase = "starting" /\ todo = {}
    /\ phase' = "running"
    /\ UNCHANGED <<todo, shared, stoppingManager, loop, ui, listening, told, outside, uiFaults, sessionHistory>>

Killed(u) == IF u = "running" THEN "exited" ELSE u

HandlesLogoff ==
    /\ phase = "running" /\ inbox # <<>> /\ Head(inbox)[1] = "logoff"
    /\ LET s == Head(inbox)[2] IN
         /\ aliveSessions' = aliveSessions \ {s}
         /\ ui' = [l \in UiLoops |-> IF procs[s] = l THEN Killed(ui[l]) ELSE ui[l]]
    /\ inbox' = Tail(inbox)
    /\ UNCHANGED <<phase, todo, procs, stoppingManager, loop, listening, told, logged, logs, uiExits, uiFaults, sessionHistory>>

HandlesLogon ==
    /\ phase = "running" /\ inbox # <<>> /\ Head(inbox)[1] = "logon"
    /\ Appears(Head(inbox)[2])
    /\ inbox' = Tail(inbox)
    /\ UNCHANGED <<phase, todo, procs, stoppingManager, ui, listening, told, logged, logs, uiExits, uiFaults, unheard, gaveUp, late>>

Unrecorded == {l \in UiLoops : ~\E s \in Sessions : procs[s] = l}
\* svc.Stop or a Quit; under the lock the UIs are told and those on record are killed.
Stops ==
    /\ phase = "running"
    /\ phase' = "waiting" /\ stoppingManager' = TRUE
    /\ told' = listening
    /\ ui' = [l \in UiLoops |-> IF \E s \in Sessions : procs[s] = l THEN Killed(ui[l]) ELSE ui[l]]
    /\ late' = Unrecorded
    /\ UNCHANGED <<todo, shared, loop, listening, outside, uiFaults, relogged, unheard, gaveUp>>

\* procsGroup.Wait, and UninstallManager after a Quit.
ManagerEnds(final) ==
    /\ phase = "waiting" /\ \A l \in UiLoops : loop[l].pc \in {"unused", "done"}
    /\ phase' = final
    /\ UNCHANGED <<todo, shared, stoppingManager, loop, ui, listening, told, outside, uiFaults, sessionHistory>>

-----------------------------------------------------------------------------
(* Outside the service.  Windows ends the processes of a session that has  *)
(* logged off; a UI exits when it is told to.                              *)
SessionChanges(s, event) ==
    /\ logs > 0 /\ logs' = logs - 1
    /\ (event = "logon") = (s \notin logged)
    /\ logged' = IF event = "logon" THEN logged \cup {s} ELSE logged \ {s}
    /\ inbox' = IF phase = "running" THEN Append(inbox, <<event, s>>) ELSE inbox
    /\ unheard' = IF phase = "running" THEN unheard ELSE unheard \cup {s}
    /\ UNCHANGED <<phase, todo, shared, stoppingManager, loop, ui, listening, told, uiExits, uiFaults, relogged, gaveUp, late>>

UiEnds(l, how) ==
    /\ ui[l] = "running" /\ ui' = [ui EXCEPT ![l] = how]
    /\ UNCHANGED <<phase, todo, shared, stoppingManager, loop, listening, told, logged, inbox, logs, uiFaults, sessionHistory>>
UiExits(l) == uiExits > 0 /\ uiExits' = uiExits - 1 /\ UiEnds(l, "exited")
UiObeys(l) == l \in told /\ UiEnds(l, "exited") /\ UNCHANGED uiExits
UiLosesSession(l) ==
    /\ loop[l].session \notin logged
    /\ \E how \in {"exited", "logoff"} : UiEnds(l, how)
    /\ UNCHANGED uiExits

-----------------------------------------------------------------------------
SessionsInit ==
    /\ phase = "starting" /\ logged \in SUBSET Sessions /\ todo = logged /\ inbox = <<>>
    /\ aliveSessions = {} /\ procs = [s \in Sessions |-> NoLoop] /\ stoppingManager = FALSE
    /\ loop = [l \in UiLoops |-> [pc |-> "unused", session |-> NoLoop]]
    /\ ui = [l \in UiLoops |-> "none"] /\ listening = {} /\ told = {}
    /\ logs = MaxLogs /\ uiExits = MaxUiExits /\ uiFaults = MaxUiFaults
    /\ relogged = {} /\ unheard = {} /\ gaveUp = {} /\ late = {}

LoopStep(l) ==
    \/ TokenChecked(l) \/ TopOfLoop(l) \/ LooksAlive(l) \/ OpensPipes(l) \/ Launches(l)
    \/ RecordsProcess(l) \/ WaitReturns(l) \/ ForgetsProcess(l) \/ LoopEnds(l)
SessionStep ==
    \/ \E s \in Sessions : EnumeratesSession(s)
    \/ Runs \/ HandlesLogoff \/ HandlesLogon \/ \E final \in {"stopped", "uninstalled"} : ManagerEnds(final)

SessionsNext ==
    \/ \E l \in UiLoops : LoopStep(l) \/ Listens(l) \/ GivesUp(l)
    \/ SessionStep \/ StartFails \/ Stops
    \/ \E s \in Sessions, event \in {"logon", "logoff"} : SessionChanges(s, event)
    \/ \E l \in UiLoops : UiExits(l) \/ UiObeys(l) \/ UiLosesSession(l)

\* The service's loop and its goroutines run, an interface reads its pipe, and one
\* whose session ends is ended.
SessionsFairness ==
    /\ \A l \in UiLoops : /\ WF_sessionVars(LoopStep(l)) /\ WF_sessionVars(Listens(l))
                          /\ WF_sessionVars(UiObeys(l)) /\ WF_sessionVars(UiLosesSession(l))
    /\ WF_sessionVars(SessionStep)

SessionsSpec == SessionsInit /\ [][SessionsNext]_sessionVars /\ SessionsFairness

-----------------------------------------------------------------------------
(* Sessions, respawn loops and user interfaces keep their types. *)
SessionsTypeOK ==
    /\ phase \in {"starting", "running", "waiting", "stopped", "uninstalled", "failed"}
    /\ aliveSessions \subseteq Sessions /\ procs \in [Sessions -> UiLoops \cup {NoLoop}]
    /\ \A l \in UiLoops : /\ loop[l].session \in Sessions \cup {NoLoop}
                          /\ ui[l] \in {"none", "running", "exited", "logoff"}
                          /\ ui[l] # "none" => loop[l].pc \in {"record", "wait", "forget"}
    /\ listening \subseteq UiLoops /\ told \subseteq UiLoops

RunningUis(s) == {l \in UiLoops : loop[l].session = s /\ ui[l] = "running"}

(* A session never has two UIs at once, and the one it has is on record or *)
(* about to be, so that a logoff can kill it: unless a logon was handled   *)
(* while a loop of an earlier logon of that session was still on its way,  *)
(* in which case two loops serve it.                                       *)
OneUiPerSession ==
    \A s \in Sessions \ relogged :
        /\ Cardinality(RunningUis(s)) <= 1
        /\ \A l \in RunningUis(s) : procs[s] = l \/ loop[l].pc = "record"

(* When the service has stopped, no UI it started runs any more and no     *)
(* loop is left that could start one.                                      *)
StoppedIsEmpty ==
    phase \in {"stopped", "uninstalled", "failed"} =>
        \A l \in UiLoops : ui[l] = "none" /\ loop[l].pc \in {"unused", "done"}

(* A user who may have a UI has one in the end, after any number of exits  *)
(* and logons, unless the loop met an error, the session changed before    *)
(* the service accepted such changes, or the logon came while a loop of    *)
(* the same session was still ending: its deferred delete takes the new    *)
(* logon's mark away and the new loop ends too.                            *)
SessionServed ==
    \A s \in Sessions :
        []<>(\/ s \notin logged \/ ~MayRunUi(SessionUser[s]) \/ RunningUis(s) # {}
             \/ phase \notin {"starting", "running"}
             \/ s \in relogged \cup unheard \cup gaveUp)

(* The service stops when it is asked to, unless a UI was launched around  *)
(* that moment: launched and not on record yet when the others were        *)
(* killed, or launched afterwards by a loop that had looked at             *)
(* stoppingManager before, and not told because its connection was not     *)
(* among those notified.  The service then waits until its user quits it.  *)
ManagerStops ==
    []<>(phase # "waiting" \/ \E l \in UiLoops : ui[l] = "running" /\ l \in late \ told)

(* A session has one UI unless a logoff and a logon of it overlapped, and  *)
(* a manager that has stopped has left none behind.                        *)
SessionsSafe == SessionsTypeOK /\ OneUiPerSession /\ StoppedIsEmpty

(* A session whose user may run the UI gets one, and a manager that is     *)
(* told to stop does.                                                      *)
SessionsServed == SessionServed /\ ManagerStops
=============================================================================
