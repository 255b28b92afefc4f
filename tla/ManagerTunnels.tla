--------------------------- MODULE ManagerTunnels ---------------------------
(***************************************************************************)
(* The tunnel half of the manager service: Start, Stop, WaitForStop,       *)
(* Delete, Create and Quit of ManagerService (manager/ipc_server.go), the  *)
(* installation of tunnel services (manager/install.go) and the trackers   *)
(* that follow them (manager/tunneltracker.go).                            *)
(*                                                                         *)
(* Three kinds of goroutine work on the same service control manager       *)
(* (SCM): a connection running one method at a time, the stopper that      *)
(* every Start leaves behind, and one tracker for each tracked service.    *)
(* The SCM and the tunnel process are the environment.  The SCM keeps a    *)
(* service that is marked for deletion until it has stopped and its last   *)
(* handle is closed; every name below that holds a handle is in Held.      *)
(***************************************************************************)
EXTENDS Naturals, Sequences, FiniteSets

CONSTANTS
  Tunnels,          \* tunnel names
  Clients,          \* connections to the manager
  Elevated,         \* the connections that hold an elevated token
  Intersects,       \* pairs of tunnels with intersecting addresses or routes
  NoTunnel,         \* no service handle
  Methods,          \* bound: the methods each connection calls
  SubscribeMayFail, \* whether SubscribeServiceChangeNotifications can fail
  SlowStart,        \* whether Service.Start may take longer than a tracker settles
  MaxCreated,       \* bound: CreateService calls
  MaxRestarts       \* bound: times the manager process ends

ASSUME ElevatedAssumption == Elevated \subseteq Clients
ASSUME IntersectsAssumption == Intersects \subseteq Tunnels \X Tunnels
ASSUME NoTunnelAssumption == NoTunnel \notin Tunnels
ASSUME BoundAssumption == MaxCreated \in Nat /\ MaxRestarts \in Nat
ASSUME TimingAssumption == SubscribeMayFail \in BOOLEAN /\ SlowStart \in BOOLEAN

VARIABLES
  stored,     \* the configurations on disk
  scm,        \* the service of each tunnel
  tracked,    \* trackedTunnels; "none" when the name is not in the map
  tracker,    \* the tracker goroutine of each tunnel that is in the map
  arriving,   \* trackTunnelService goroutines that have not taken the lock
  closing,    \* finished trackers that have not closed their handle
  client,     \* the method each connection runs
  stopper,    \* the goroutine left by the last Start of each connection
  dbChanged,  \* a database-change notification is on its way
  haveQuit,   \* Quit was called in this manager process
  created,    \* CreateService calls so far
  restarts    \* manager processes so far

vars == <<stored, scm, tracked, tracker, arriving, closing, client, stopper,
          dbChanged, haveQuit, created, restarts>>

States == {"unknown", "started", "stopped", "starting", "stopping"}
ServiceStates == {"stopped", "startpending", "running", "stoppending"}

(***************************************************************************)
(* A service.  "accepts" is whether it takes a stop request (it does not   *)
(* in the first part of its start), "stop" that it was sent one, "failed"  *)
(* that it ended with an exit code.                                        *)
(***************************************************************************)
Services == [state: ServiceStates \cup {"absent"}, accepts: BOOLEAN,
             stop: BOOLEAN, marked: BOOLEAN, failed: BOOLEAN]

Absent == [state |-> "absent", accepts |-> FALSE, stop |-> FALSE,
           marked |-> FALSE, failed |-> FALSE]

New == [Absent EXCEPT !.state = "stopped"]

Exists(t) == scm[t].state # "absent"

TrackerPcs == {"none", "settle", "check", "subscribe", "query", "callback",
               "compared", "wait", "forget"}

Trackers == [pc: TrackerPcs, seen: ServiceStates \cup {"none"},
             last: States, once: BOOLEAN, queue: Seq(ServiceStates)]

NoTracker == [pc |-> "none", seen |-> "none", last |-> "unknown",
              once |-> FALSE, queue |-> <<>>]

(***************************************************************************)
(* UninstallTunnel over a set of names: "todo" is still to be opened,      *)
(* "cur" is the service that was sent Stop and is about to be deleted,     *)
(* "again" the names whose state is looked at a second time.               *)
(***************************************************************************)
Uninstalls == [todo: SUBSET Tunnels, cur: Tunnels \cup {NoTunnel},
               again: SUBSET Tunnels]

NothingToStop == [todo |-> {}, cur |-> NoTunnel, again |-> {}]

Stopping(names) == [NothingToStop EXCEPT !.todo = names]

Done(u) == u.todo = {} /\ u.cur = NoTunnel

ClientPcs == {"idle", "open", "delete", "gone", "create", "start",
              "track", "stop", "wait"}

ClientRecords == [pc: ClientPcs, op: {"none", "start", "stop", "wait", "delete", "quit"},
                  t: Tunnels \cup {NoTunnel}, u: Uninstalls]

Idle == [pc |-> "idle", op |-> "none", t |-> NoTunnel, u |-> NothingToStop]

(* Mutant: the subscription is made after the first call of the callback. *)
SubscribedLate(t) == tracker[t].pc = "wait"

Subscribed(t) == tracker[t].pc \in {"query", "callback", "compared", "wait"}

(* Who holds a handle on the service of t. *)
Held(t) ==
  \/ tracker[t].pc # "none"
  \/ arriving[t] + closing[t] > 0
  \/ \E c \in Clients : \/ client[c].t = t /\ client[c].pc \in {"delete", "start", "track"}
                        \/ client[c].u.cur = t
                        \/ stopper[c].cur = t

Init ==
  /\ stored = Tunnels
  /\ scm = [t \in Tunnels |-> Absent]
  /\ tracked = [t \in Tunnels |-> "none"]
  /\ tracker = [t \in Tunnels |-> NoTracker]
  /\ arriving = [t \in Tunnels |-> 0]
  /\ closing = [t \in Tunnels |-> 0]
  /\ client = [c \in Clients |-> Idle]
  /\ stopper = [c \in Clients |-> NothingToStop]
  /\ dbChanged = FALSE
  /\ haveQuit = FALSE
  /\ created = 0
  /\ restarts \in {0, MaxRestarts}   \* the bound may be used up

-----------------------------------------------------------------------------
(***************************************************************************)
(* The SCM and the tunnel process.  A status change is queued for the      *)
(* subscriber of the service, if there is one.                             *)
(***************************************************************************)
Queued(t, s) == IF Subscribed(t)
                THEN [tracker EXCEPT ![t].queue = Append(@, s)]
                ELSE tracker

(* Mutant: the service is deleted without being told to stop. *)
NoStop(service, t) == service

(* Service.Control(Stop): ignored by a service that does not accept it. *)
SentStop(service, t) ==
  IF service[t].accepts THEN [service EXCEPT ![t].stop = TRUE] ELSE service

Marked(service, t) == [service EXCEPT ![t].marked = TRUE]

ServiceStep(t, s) ==
  /\ scm' = [scm EXCEPT ![t] = s]
  /\ tracker' = IF s.state # scm[t].state THEN Queued(t, s.state) ELSE tracker
  /\ UNCHANGED <<stored, tracked, arriving, closing, client, stopper, dbChanged, haveQuit, created, restarts>>

(* The last part of the start, with the profile loaded, can be stopped. *)
ServiceAccepts(t) ==
  /\ scm[t].state = "startpending" /\ ~scm[t].accepts /\ t \in stored
  /\ ServiceStep(t, [scm[t] EXCEPT !.accepts = TRUE])

ServiceRuns(t) ==
  /\ scm[t].state = "startpending" /\ scm[t].accepts /\ ~scm[t].stop
  /\ ServiceStep(t, [scm[t] EXCEPT !.state = "running"])

(* It stops when told to, or fails by itself. *)
ServiceStops(t) ==
  /\ scm[t].state \in {"startpending", "running"} /\ scm[t].stop
  /\ ServiceStep(t, [scm[t] EXCEPT !.state = "stoppending", !.accepts = FALSE])

ServiceFails(t) ==
  /\ scm[t].state \in {"startpending", "running"}
  /\ ServiceStep(t, [scm[t] EXCEPT !.state = "stoppending", !.accepts = FALSE,
                                   !.failed = TRUE])

ServiceEnds(t) ==
  /\ scm[t].state = "stoppending"
  /\ ServiceStep(t, [scm[t] EXCEPT !.state = "stopped"])

(* The SCM drops a marked service with its last handle. *)
ServiceRemoved(t) ==
  /\ scm[t].state = "stopped" /\ scm[t].marked /\ ~Held(t)
  /\ scm' = [scm EXCEPT ![t] = Absent]
  /\ dbChanged' = TRUE
  /\ UNCHANGED <<stored, tracked, tracker, arriving, closing, client, stopper, haveQuit, created, restarts>>

-----------------------------------------------------------------------------
(***************************************************************************)
(* UninstallTunnel, run by a connection (Stop, Delete, Quit) or by a       *)
(* stopper: open and Control(Stop) in one step, since the handle pins the  *)
(* service in between; then Delete and Close.                              *)
(***************************************************************************)
Opened(u, t) == [u EXCEPT !.todo = @ \ {t}, !.cur = IF Exists(t) THEN t ELSE NoTunnel]

Closed(u) == [u EXCEPT !.cur = NoTunnel]

(* Start's second loop: State, and Stop again for a tunnel that is up. *)
Rechecked(u, t) ==
  [u EXCEPT !.again = @ \ {t},
            !.todo = IF scm[t].state \in {"running", "startpending"} THEN {t} ELSE {}]

(* The goroutine of Start (ipc_server.go:101). *)
StopperStep(c, t) ==
  /\ \/ /\ t \in stopper[c].todo /\ stopper[c].cur = NoTunnel
        /\ stopper' = [stopper EXCEPT ![c] = Opened(@, t)]
        /\ scm' = SentStop(scm, t)
     \/ /\ stopper[c].cur = t
        /\ stopper' = [stopper EXCEPT ![c] = Closed(@)]
        /\ scm' = Marked(scm, t)
     \/ /\ Done(stopper[c]) /\ t \in stopper[c].again
        /\ stopper' = [stopper EXCEPT ![c] = Rechecked(@, t)]
        /\ UNCHANGED scm
  /\ UNCHANGED <<stored, tracked, tracker, arriving, closing, client, dbChanged, haveQuit, created, restarts>>

(* The same within a method. *)
ClientUninstalls(c, t) ==
  /\ client[c].pc = "stop"
  /\ \/ /\ t \in client[c].u.todo /\ client[c].u.cur = NoTunnel
        /\ client' = [client EXCEPT ![c].u = Opened(@, t)]
        /\ scm' = SentStop(scm, t)
     \/ /\ client[c].u.cur = t
        /\ client' = [client EXCEPT ![c].u = Closed(@)]
        /\ scm' = Marked(scm, t)
  /\ UNCHANGED <<stored, tracked, tracker, arriving, closing, stopper, dbChanged, haveQuit, created, restarts>>

-----------------------------------------------------------------------------
(***************************************************************************)
(* The methods of ManagerService.                                          *)
(***************************************************************************)
OnlyClient == UNCHANGED <<stored, scm, tracked, tracker, arriving, closing, stopper,
                          dbChanged, haveQuit, created, restarts>>

Returns(c) == client' = [client EXCEPT ![c] = Idle]

(* The tracked tunnels that Start finds to intersect with t. *)
Intersecting(t) == {x \in stored : tracked[x] # "none" /\ <<t, x>> \in Intersects}

InTransition(t) == \E x \in Intersecting(t) : tracked[x] \in {"starting", "unknown"}

(***************************************************************************)
(* Start up to InstallTunnel.  It returns an error when the profile cannot *)
(* be loaded or an intersecting tunnel is in transition.  A connection     *)
(* waits for its previous stopper before it starts again: a bound, the     *)
(* program has none.                                                       *)
(***************************************************************************)
Start(c, t) ==
  /\ client[c].pc = "idle" /\ "start" \in Methods[c] /\ t \in stored /\ created < MaxCreated
  /\ Done(stopper[c]) /\ stopper[c].again = {}
  /\ ~InTransition(t)
  /\ client' = [client EXCEPT ![c] = [Idle EXCEPT !.pc = "open", !.op = "start", !.t = t]]
  /\ stopper' = [stopper EXCEPT ![c] = [Stopping(Intersecting(t)) EXCEPT
                                          !.again = Intersecting(t)]]
  /\ UNCHANGED <<stored, scm, tracked, tracker, arriving, closing, dbChanged, haveQuit, created, restarts>>

(* installTunnel: a service that is not stopped is an error. *)
InstallOpens(c) ==
  LET t == client[c].t IN
  /\ client[c].pc = "open"
  /\ \/ ~Exists(t) /\ client' = [client EXCEPT ![c].pc = "create"]
     \/ Exists(t) /\ scm[t].state = "stopped" /\ client' = [client EXCEPT ![c].pc = "delete"]
     \/ Exists(t) /\ scm[t].state # "stopped" /\ Returns(c)
  /\ OnlyClient

InstallDeletes(c) ==
  /\ client[c].pc = "delete"
  /\ scm' = Marked(scm, client[c].t)
  /\ client' = [client EXCEPT ![c].pc = "gone"]
  /\ UNCHANGED <<stored, tracked, tracker, arriving, closing, stopper, dbChanged, haveQuit, created, restarts>>

(* The loop that polls until OpenService fails. *)
InstallFindsGone(c) ==
  /\ client[c].pc = "gone" /\ ~Exists(client[c].t)
  /\ client' = [client EXCEPT ![c].pc = "create"]
  /\ OnlyClient

(* CreateService fails if the service exists, or for a reason of its own. *)
InstallCreates(c) ==
  LET t == client[c].t IN
  /\ client[c].pc = "create" /\ ~Exists(t) /\ created < MaxCreated
  /\ scm' = [scm EXCEPT ![t] = New]
  /\ created' = created + 1
  /\ dbChanged' = TRUE
  /\ client' = [client EXCEPT ![c].pc = "start"]
  /\ UNCHANGED <<stored, tracked, tracker, arriving, closing, stopper,
                 haveQuit, restarts>>

CreateFails(c) == client[c].pc = "create" /\ Returns(c) /\ OnlyClient

(* Service.Start; a service marked for deletion is not started. *)
InstallStarts(c) ==
  LET t == client[c].t IN
  /\ client[c].pc = "start" /\ ~scm[t].marked /\ scm[t].state = "stopped"
  /\ scm' = [scm EXCEPT ![t].state = "startpending"]
  /\ tracker' = Queued(t, "startpending")
  /\ client' = [client EXCEPT ![c].pc = "track"]
  /\ UNCHANGED <<stored, tracked, arriving, closing, stopper, dbChanged,
                 haveQuit, created, restarts>>

StartFails(c) ==
  /\ client[c].pc = "start"
  /\ scm' = Marked(scm, client[c].t)
  /\ Returns(c)
  /\ UNCHANGED <<stored, tracked, tracker, arriving, closing, stopper, dbChanged, haveQuit, created, restarts>>

(* go trackTunnelService: the handle is handed over. *)
InstallTracks(c) ==
  /\ client[c].pc = "track"
  /\ arriving' = [arriving EXCEPT ![client[c].t] = @ + 1]
  /\ Returns(c)
  /\ UNCHANGED <<stored, scm, tracked, tracker, closing, stopper, dbChanged, haveQuit, created, restarts>>

Calls(c, op, pc, t, names) ==
  /\ client[c].pc = "idle" /\ op \in Methods[c]
  /\ client' = [client EXCEPT ![c] = [pc |-> pc, op |-> op, t |-> t, u |-> Stopping(names)]]

Stop(c, t) == Calls(c, "stop", "stop", t, {t}) /\ OnlyClient

Delete(c, t) == c \in Elevated /\ Calls(c, "delete", "stop", t, {t}) /\ OnlyClient

WaitForStop(c, t) == Calls(c, "wait", "wait", t, {}) /\ OnlyClient

WaitEnds(c) == client[c].pc = "wait" /\ ~Exists(client[c].t) /\ Returns(c) /\ OnlyClient

Create(c, t) ==
  /\ c \in Elevated /\ client[c].pc = "idle" /\ "create" \in Methods[c]
  /\ stored' = stored \cup {t}
  /\ UNCHANGED <<scm, tracked, tracker, arriving, closing, client, stopper,
                 dbChanged, haveQuit, created, restarts>>

(* The first Quit wins; it stops every stored tunnel or none. *)
Quit(c) ==
  /\ c \in Elevated /\ ~haveQuit /\ restarts < MaxRestarts
  /\ \E names \in {stored, {}} : Calls(c, "quit", "stop", NoTunnel, names)
  /\ haveQuit' = TRUE
  /\ restarts' = restarts + 1
  /\ UNCHANGED <<stored, scm, tracked, tracker, arriving, closing, stopper,
                 dbChanged, created>>

UninstallReturns(c) ==
  /\ client[c].pc = "stop" /\ client[c].op # "quit" /\ Done(client[c].u)
  /\ stored' = IF client[c].op = "delete" THEN stored \ {client[c].t} ELSE stored
  /\ Returns(c)
  /\ UNCHANGED <<scm, tracked, tracker, arriving, closing, stopper, dbChanged, haveQuit, created, restarts>>

-----------------------------------------------------------------------------
(***************************************************************************)
(* trackTunnelService.                                                     *)
(***************************************************************************)
TunState(s) == CASE s \in {"stopped", "absent"} -> "stopped"
                 [] s = "stoppending" -> "stopping"
                 [] s = "running" -> "started"
                 [] s = "startpending" -> "starting"

TrackerPc(t, pc) == tracker' = [tracker EXCEPT ![t].pc = pc]

(* The new state, which IPCServerNotifyTunnelChange also reports. *)
Record(t, s) == tracked' = [tracked EXCEPT ![t] = s]

TrackerArrives(t) ==
  /\ arriving[t] > 0
  /\ arriving' = [arriving EXCEPT ![t] = @ - 1]
  /\ IF tracked[t] # "none"
     THEN UNCHANGED <<tracked, tracker>>
     ELSE /\ tracked' = [tracked EXCEPT ![t] = "unknown"]
          /\ TrackerPc(t, "settle")
  /\ UNCHANGED <<stored, scm, closing, client, stopper, dbChanged,
                 haveQuit, created, restarts>>

OnlyTracker == UNCHANGED <<stored, scm, tracked, arriving, closing, client, stopper,
                           dbChanged, haveQuit, created, restarts>>

(* Up to four seconds for the service to leave "stopped". *)
TrackerSettles(t) ==
  /\ tracker[t].pc = "settle"
  /\ \/ scm[t].state # "stopped"
     \/ SlowStart
     \/ ~\E c \in Clients : client[c].t = t /\ client[c].pc = "start"
  /\ TrackerPc(t, "check")
  /\ OnlyTracker

(* checkForDisabled: the SCM disables a service that is marked. *)
TrackerFindsDisabled(t) ==
  /\ \/ tracker[t].pc = "check"
     \/ tracker[t].pc = "subscribe" /\ SubscribeMayFail
  /\ scm[t].marked
  /\ Record(t, "stopped")
  /\ TrackerPc(t, "forget")
  /\ UNCHANGED <<stored, scm, arriving, closing, client, stopper, dbChanged,
                 haveQuit, created, restarts>>

TrackerChecks(t) ==
  /\ tracker[t].pc = "check" /\ ~scm[t].marked
  /\ TrackerPc(t, "subscribe")
  /\ OnlyTracker

TrackerSubscribes(t) ==
  /\ tracker[t].pc = "subscribe"
  /\ TrackerPc(t, "query")
  /\ OnlyTracker

(* "Unable to continue monitoring service, so stopping". *)
SubscribeFails(t) ==
  /\ tracker[t].pc = "subscribe" /\ SubscribeMayFail /\ ~scm[t].marked
  /\ Record(t, "stopped")
  /\ scm' = SentStop(scm, t)
  /\ TrackerPc(t, "forget")
  /\ UNCHANGED <<stored, arriving, closing, client, stopper, dbChanged,
                 haveQuit, created, restarts>>

TrackerQueries(t) ==
  /\ tracker[t].pc = "query"
  /\ tracker' = [tracker EXCEPT ![t].seen = scm[t].state, ![t].pc = "callback"]
  /\ OnlyTracker

(***************************************************************************)
(* The callback given to trackService, but for lastState: a failed service *)
(* is deleted, a new state is recorded.                                    *)
(***************************************************************************)
Callback(t, s) ==
  /\ scm' = IF s = "stopped" /\ scm[t].failed THEN Marked(scm, t) ELSE scm
  /\ IF TunState(s) # tracker[t].last THEN Record(t, TunState(s))
                                      ELSE UNCHANGED tracked
  /\ UNCHANGED <<stored, arriving, closing, client, stopper, dbChanged, haveQuit,
                 created, restarts>>

(***************************************************************************)
(* The goroutine's own call of it, with the state it queried before; it    *)
(* does not look at "once".  lastState is written without the lock, in a   *)
(* step of its own, so a notification may come in between.                 *)
(***************************************************************************)
TrackerCallback(t) ==
  /\ tracker[t].pc = "callback"
  /\ Callback(t, tracker[t].seen)
  /\ TrackerPc(t, IF tracker[t].seen = "stopped" THEN "forget" ELSE "compared")

TrackerCompared(t) ==
  /\ tracker[t].pc = "compared"
  /\ tracker' = [tracker EXCEPT ![t].last = TunState(tracker[t].seen), ![t].pc = "wait"]
  /\ OnlyTracker

(* The notification thread's calls, in order, until one has returned true. *)
TrackerNotified(t) ==
  LET s == Head(tracker[t].queue) IN
  /\ Subscribed(t) /\ tracker[t].queue # <<>>
  /\ tracker' = [tracker EXCEPT
       ![t].queue = Tail(@),
       ![t].last = IF tracker[t].once THEN @ ELSE TunState(s),
       ![t].once = @ \/ s = "stopped"]
  /\ IF tracker[t].once
     THEN UNCHANGED <<stored, scm, tracked, arriving, closing, client, stopper,
                      dbChanged, haveQuit, created, restarts>>
     ELSE Callback(t, s)

(* The notification thread is told that the service is marked, which counts *)
(* as stopping whatever the service does; it may come late, or never.       *)
TrackerToldOfMark(t) ==
  /\ Subscribed(t) /\ scm[t].marked
  /\ ~tracker[t].once /\ tracker[t].last # "stopping"
  /\ tracker' = [tracker EXCEPT ![t].last = "stopping"]
  /\ Record(t, "stopping")
  /\ UNCHANGED <<stored, scm, arriving, closing, client, stopper, dbChanged,
                 haveQuit, created, restarts>>

TrackerWakes(t) ==
  /\ tracker[t].pc = "wait" /\ tracker[t].once
  /\ TrackerPc(t, "forget")
  /\ OnlyTracker

(* Mutant: the handle is closed and the name stays in the map. *)
NeverForgets(t) ==
  /\ tracker[t].pc = "forget"
  /\ tracker' = [tracker EXCEPT ![t] = NoTracker]
  /\ closing' = [closing EXCEPT ![t] = @ + 1]
  /\ UNCHANGED <<stored, scm, tracked, arriving, client, stopper, dbChanged, haveQuit,
                 created, restarts>>

(* The two deferred functions: leave the map, then close the handle. *)
TrackerForgets(t) ==
  /\ tracker[t].pc = "forget"
  /\ tracked' = [tracked EXCEPT ![t] = "none"]
  /\ tracker' = [tracker EXCEPT ![t] = NoTracker]
  /\ closing' = [closing EXCEPT ![t] = @ + 1]
  /\ UNCHANGED <<stored, scm, arriving, client, stopper, dbChanged,
                 haveQuit, created, restarts>>

TrackerCloses(t) ==
  /\ closing[t] > 0
  /\ closing' = [closing EXCEPT ![t] = @ - 1]
  /\ UNCHANGED <<stored, scm, tracked, tracker, arriving, client, stopper, dbChanged, haveQuit, created, restarts>>

-----------------------------------------------------------------------------
(* trackExistingTunnels, on a change of the service database. *)
TrackExistingTunnels ==
  /\ dbChanged
  /\ dbChanged' = FALSE
  /\ arriving' = [t \in Tunnels |->
       IF t \in stored /\ tracked[t] = "none" /\ Exists(t) THEN arriving[t] + 1
                                                           ELSE arriving[t]]
  /\ UNCHANGED <<stored, scm, tracked, tracker, closing, client, stopper,
                 haveQuit, created, restarts>>

(* Mutant: the services of an earlier manager are not looked for. *)
TracksOnlyNewServices ==
  /\ tracked' = [t \in Tunnels |-> "none"]
  /\ tracker' = [t \in Tunnels |-> NoTracker]
  /\ arriving' = [t \in Tunnels |-> 0]
  /\ closing' = [t \in Tunnels |-> 0]
  /\ client' = [c \in Clients |-> Idle]
  /\ stopper' = [c \in Clients |-> NothingToStop]
  /\ dbChanged' = FALSE
  /\ haveQuit' = FALSE
  /\ UNCHANGED <<stored, scm, created>>

(***************************************************************************)
(* The manager process ends, with every goroutine and handle, and a new    *)
(* one runs watchNewTunnelServices.  What the services did meanwhile they  *)
(* may as well do before.                                                  *)
(***************************************************************************)
NewManager ==
  /\ tracked' = [t \in Tunnels |-> "none"]
  /\ tracker' = [t \in Tunnels |-> NoTracker]
  /\ arriving' = [t \in Tunnels |-> IF t \in stored /\ Exists(t) THEN 1 ELSE 0]
  /\ closing' = [t \in Tunnels |-> 0]
  /\ client' = [c \in Clients |-> Idle]
  /\ stopper' = [c \in Clients |-> NothingToStop]
  /\ dbChanged' = FALSE
  /\ haveQuit' = FALSE
  /\ UNCHANGED <<stored, scm, created>>

QuitEnds(c) ==
  /\ client[c].pc = "stop" /\ client[c].op = "quit" /\ Done(client[c].u)
  /\ NewManager
  /\ UNCHANGED restarts

Crash ==
  /\ restarts < MaxRestarts
  /\ NewManager
  /\ restarts' = restarts + 1

-----------------------------------------------------------------------------
ServiceProgress(t) ==
  ServiceAccepts(t) \/ ServiceRuns(t) \/ ServiceStops(t) \/ ServiceEnds(t)

TrackerSteps(t) ==
  \/ TrackerArrives(t) \/ TrackerSettles(t) \/ TrackerFindsDisabled(t)
  \/ TrackerChecks(t) \/ TrackerSubscribes(t) \/ SubscribeFails(t)
  \/ TrackerQueries(t) \/ TrackerCallback(t) \/ TrackerCompared(t)
  \/ TrackerWakes(t) \/ TrackerForgets(t)

ClientSteps(c) ==
  \/ InstallOpens(c) \/ InstallDeletes(c) \/ InstallFindsGone(c)
  \/ InstallCreates(c) \/ CreateFails(c) \/ InstallStarts(c) \/ StartFails(c)
  \/ InstallTracks(c) \/ WaitEnds(c) \/ UninstallReturns(c) \/ QuitEnds(c)
  \/ \E t \in Tunnels : ClientUninstalls(c, t)

Next ==
  \/ \E t \in Tunnels : ServiceProgress(t) \/ ServiceFails(t) \/ ServiceRemoved(t)
                        \/ TrackerSteps(t) \/ TrackerNotified(t) \/ TrackerToldOfMark(t)
                        \/ TrackerCloses(t)
  \/ \E c \in Clients : ClientSteps(c) \/ Quit(c)
  \/ \E c \in Clients, t \in Tunnels :
       Start(c, t) \/ Stop(c, t) \/ Delete(c, t) \/ WaitForStop(c, t)
       \/ Create(c, t) \/ StopperStep(c, t)
  \/ TrackExistingTunnels
  \/ Crash

(***************************************************************************)
(* Goroutines run, the SCM delivers its notifications, and the tunnel      *)
(* process finishes what it began: its own watchdog kills it when a stop   *)
(* takes more than thirty seconds (tunnel/service.go:58).  The SCM removes *)
(* a marked service when its last handle is closed, so handles that are    *)
(* opened and closed for ever do not keep it: strong fairness.             *)
(***************************************************************************)
Fairness ==
  /\ \A t \in Tunnels : /\ WF_vars(ServiceProgress(t)) /\ WF_vars(TrackerSteps(t))
                        /\ WF_vars(TrackerNotified(t)) /\ WF_vars(TrackerCloses(t))
                        /\ SF_vars(ServiceRemoved(t))
  /\ \A c \in Clients : WF_vars(ClientSteps(c))
  /\ \A c \in Clients, t \in Tunnels : WF_vars(StopperStep(c, t))
  /\ WF_vars(TrackExistingTunnels)

Spec == Init /\ [][Next]_vars
FairSpec == Spec /\ Fairness

-----------------------------------------------------------------------------
TypeOK ==
  /\ stored \subseteq Tunnels
  /\ scm \in [Tunnels -> Services]
  /\ tracked \in [Tunnels -> States \cup {"none"}]
  /\ tracker \in [Tunnels -> Trackers]
  /\ arriving \in [Tunnels -> Nat]
  /\ closing \in [Tunnels -> Nat]
  /\ client \in [Clients -> ClientRecords]
  /\ stopper \in [Clients -> Uninstalls]
  /\ dbChanged \in BOOLEAN
  /\ haveQuit \in BOOLEAN
  /\ created \in Nat
  /\ restarts \in Nat

(***************************************************************************)
(* A name stays in trackedTunnels only while the service it was entered    *)
(* for exists, because the tracker leaves the map before it closes its     *)
(* handle (tunneltracker.go:136-146).  So a second trackTunnelService that *)
(* finds the name can drop its own handle without losing a new service.    *)
(***************************************************************************)
TrackedIsPinned == \A t \in Tunnels : tracked[t] # "none" => Exists(t)

(* Trackers record states of services that exist, and their names go       *)
(* before their handles.                                                   *)
TrackersSafe == TypeOK /\ TrackedIsPinned

(***************************************************************************)
(* A tunnel service that runs and is not about to be deleted is followed   *)
(* by a tracker, or one is on its way: whatever order the installation,    *)
(* the database notification, the end of an older tracker and a restart    *)
(* of the manager come in (install.go:313, tunneltracker.go:128, 223).     *)
(* Not covered by the runs, and not so: a Delete that found no service yet *)
(* ends after another connection has installed it, the manager ends before *)
(* it follows that one, and Create brings the name back; the new manager   *)
(* looked only for services of profiles that were stored.                  *)
(***************************************************************************)
NoOrphans ==
  \A t \in Tunnels :
    scm[t].state = "running" /\ ~scm[t].marked /\ t \in stored =>
      \/ tracked[t] # "none"
      \/ arriving[t] > 0
      \/ dbChanged
      \/ \E c \in Clients : client[c].t = t /\ client[c].pc = "track"

(***************************************************************************)
(* Every Start returns: the unbounded loop of installTunnel that waits for *)
(* the old service to go (install.go:271-280) ends, because its tracker is *)
(* always told that the service stopped and lets go of it, although the    *)
(* state it began with and the notifications reach it in any order.        *)
(***************************************************************************)
StartReturns == \A c \in Clients : []<>(client[c].op # "start")

(***************************************************************************)
(* An active tunnel that Start found to be in the way stops, although the  *)
(* stop runs in the background, next to the installation of the new one    *)
(* (ipc_server.go:100-113).                                                *)
(***************************************************************************)
IntersectingStops ==
  \A c \in Clients, t \in Tunnels :
    t \in stopper[c].todo /\ t \in stopper[c].again /\ tracked[t] = "started"
      ~> scm[t].state \in {"absent", "stopped", "stoppending"}

(***************************************************************************)
(* Start stops the tunnels with intersecting addresses or routes           *)
(* (ipc_server.go:79): when nothing is left to do, no two of them run.     *)
(***************************************************************************)
IntersectingAreExclusive ==
  \A a, b \in Tunnels :
    /\ a # b /\ <<a, b>> \in Intersects
    /\ scm[a].state = "running" /\ scm[b].state = "running"
    => \/ \E c \in Clients : ~Done(stopper[c]) \/ stopper[c].again # {}
                             \/ client[c].pc # "idle"
       \/ scm[a].stop \/ scm[b].stop

=============================================================================
