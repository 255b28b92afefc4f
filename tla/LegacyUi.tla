------------------------------ MODULE LegacyUi ------------------------------
(***************************************************************************)
(* The Go user interface and its connection to the manager: ipc_server,    *)
(* ipc_client, and the list, the tray menu and the configuration view.     *)
(*                                                                         *)
(* Three kinds of threads touch the views: the goroutine that reads the    *)
(* event pipe, goroutines started by clicks, timers and the views, and the *)
(* UI thread, the only one that changes a view, by running the closures    *)
(* the others post to it.  Calls to the manager go through one mutex.  The *)
(* manager sends each notification from a goroutine of its own.            *)
(***************************************************************************)
EXTENDS Naturals, Sequences, FiniteSets, SequencesExt

CONSTANTS Tunnels,
          MaxVersions,  \* configurations written
          MaxClicks,    \* what the user does
          MaxUiErrors,  \* calls that fail
          MaxPosted,    \* closures waiting for the UI thread
          MaxNotes      \* notifications under way before the next call to the manager

NoTunnel == "none"
NoLoad == [names |-> {}, at |-> 0]
Still == {"stopped", "started"}

VARIABLES
  kept,       \* the stored configuration of a tunnel: its version, 0 for none
  run,        \* a tunnel service: stopped, starting, started or stopping
  written,    \* versions given out
  moves,      \* changes of `kept', to tell which of two readings is older
  notes,      \* notification goroutines of the manager, not written yet, in order of start
  ev,         \* the goroutine that reads the event pipe
  queue,      \* closures posted to the UI thread
  rows,       \* the list
  seen,       \* lastObservedState
  tray,       \* the tray's menu: no entry, checked or unchecked
  global,     \* what the tray and the window show of all tunnels
  selected,   \* confView.tunnel
  confView,       \* what the configuration view shows
  suspended,  \* tunnelsUpdateSuspended
  worker,     \* the goroutine of a click
  fetches,    \* goroutines that read a tunnel for the tray or the configuration view
  holder,     \* who holds rpcMutex for a call that waits
  clicks, uiErrors,
  posted,     \* history: the youngest reading of the names posted to the list
  overtaken,  \* history: an older reading was posted after a younger one
  reordered,  \* history: a notification overtook an older one
  trayOff     \* history: tray entries checked against an answer that was old or missing

uiModel == <<kept, run, written, moves, notes>>
uiViews == <<rows, seen, tray, global, confView>>
uiHistory == <<posted, overtaken, reordered, trayOff>>
uiVars == <<uiModel, ev, queue, uiViews, selected, suspended, worker, fetches, holder, clicks, uiErrors, uiHistory>>

Stored == {t \in Tunnels : kept[t] > 0}
GlobalState(r) == \* trackedTunnelsGlobalState
    IF \E t \in Tunnels : r[t] = "starting" THEN "starting"
    ELSE IF \E t \in Tunnels : r[t] = "stopping" THEN "stopping"
    ELSE IF \E t \in Tunnels : r[t] = "started" THEN "started" ELSE "stopped"

-----------------------------------------------------------------------------
(* The manager: what its methods do, with the notifications that follow.   *)
TunnelNote(t, r) == [kind |-> "tunnel", tunnel |-> t, state |-> r[t], global |-> GlobalState(r)]
NamesNote == [kind |-> "names", tunnel |-> NoTunnel, state |-> "stopped", global |-> "stopped"]

Moves(t, state) == \* a tracked service has changed
    LET r == [run EXCEPT ![t] = state] IN
    run' = r /\ notes' = Append(notes, TunnelNote(t, r)) /\ UNCHANGED <<kept, written, moves>>

ServerStart(t) == IF kept[t] > 0 /\ run[t] = "stopped" THEN Moves(t, "starting") ELSE UNCHANGED uiModel
ServerStop(t) == IF run[t] = "started" THEN Moves(t, "stopping") ELSE UNCHANGED uiModel
ServerCreate(t) ==
    /\ kept' = [kept EXCEPT ![t] = written + 1] /\ written' = written + 1
    /\ moves' = moves + 1 /\ notes' = Append(notes, NamesNote) /\ UNCHANGED run
ServerDelete(t) == \* Stop, then DeleteName
    LET r == [run EXCEPT ![t] = IF @ \in {"starting", "started"} THEN "stopping" ELSE @] IN
    /\ run' = r /\ kept' = [kept EXCEPT ![t] = 0] /\ moves' = moves + 1 /\ UNCHANGED written
    /\ notes' = notes \o (IF r # run THEN <<TunnelNote(t, r)>> ELSE <<>>) \o <<NamesNote>>

ServiceMoves(t) ==
    /\ run[t] \notin Still
    /\ Moves(t, IF run[t] = "starting" THEN "started" ELSE "stopped")
    /\ UNCHANGED <<ev, queue, uiViews, selected, suspended, worker, fetches, holder, clicks, uiErrors, uiHistory>>

-----------------------------------------------------------------------------
(* The client: rpcMutex, and the goroutine of the event pipe.              *)
\* One call at a time: rpcMutex at the client, the loop of ServeConn at the manager.
MayCall(who) == holder \in {NoTunnel, who} /\ (who = "worker" => Len(notes) < MaxNotes \/ worker.pc = "wait")
EvIdle == [pc |-> "idle", note |-> NamesNote, load |-> NoLoad]
NamesNow == [names |-> Stored, at |-> moves]
Post(p) == Len(queue) < MaxPosted /\ queue' = Append(queue, p)

\* Whichever goroutine gets eventLock first writes first.
EventArrives(k) ==
    /\ ev.pc = "idle" /\ k \in DOMAIN notes
    /\ k > 1 => ~reordered \* the bound: one notification of a behaviour overtakes others
    /\ notes' = RemoveAt(notes, k)
    /\ reordered' = (reordered \/ k > 1)
    /\ ev' = [ev EXCEPT !.pc = notes[k].kind, !.note = notes[k]]
    /\ UNCHANGED <<kept, run, written, moves, queue, uiViews, selected, suspended, worker, fetches, holder, clicks, uiErrors, posted, overtaken, trayOff>>

\* onTunnelChange of the list, the tray and the window: posted.  The configuration view also
\* asks for the configuration, if the tunnel is the selected one.
EventTunnel ==
    /\ ev.pc = "tunnel"
    /\ Post([kind |-> "change", note |-> ev.note])
    /\ ev' = IF selected = ev.note.tunnel THEN [ev EXCEPT !.pc = "config"] ELSE EvIdle
    /\ UNCHANGED <<uiModel, uiViews, selected, suspended, worker, fetches, holder, clicks, uiErrors, uiHistory>>
EventConfig ==
    /\ ev.pc = "config" /\ MayCall("event")
    /\ Post([kind |-> "view", tunnel |-> ev.note.tunnel, version |-> kept[ev.note.tunnel],
             state |-> ev.note.state])
    /\ ev' = EvIdle
    /\ UNCHANGED <<uiModel, uiViews, selected, suspended, worker, fetches, holder, clicks, uiErrors, uiHistory>>

\* onTunnelsChange: the list reads the names unless suspended, and posts them; so does the tray.
EventNames ==
    /\ ev.pc = "names"
    /\ ev' = [ev EXCEPT !.pc = IF suspended = 0 THEN "load" ELSE "trayLoad"]
    /\ UNCHANGED <<uiModel, queue, uiViews, selected, suspended, worker, fetches, holder, clicks, uiErrors, uiHistory>>
EventReads ==
    /\ ev.pc = "load" /\ MayCall("event")
    /\ ev' = [ev EXCEPT !.pc = "post", !.load = NamesNow]
    /\ UNCHANGED <<uiModel, queue, uiViews, selected, suspended, worker, fetches, holder, clicks, uiErrors, uiHistory>>

PostRows(load) ==
    /\ Post([kind |-> "rows", names |-> load.names])
    /\ overtaken' = (overtaken \/ load.at < posted)
    /\ posted' = IF load.at > posted THEN load.at ELSE posted
EventPosts ==
    /\ ev.pc = "post" /\ PostRows(ev.load)
    /\ ev' = [ev EXCEPT !.pc = "trayLoad"]
    /\ UNCHANGED <<uiModel, uiViews, selected, suspended, worker, fetches, holder, clicks, uiErrors, reordered, trayOff>>
\* Nobody else posts the tray's names, so that reading and posting them is one step.
EventPostsTray ==
    /\ ev.pc = "trayLoad" /\ MayCall("event")
    /\ Post([kind |-> "tray", names |-> Stored]) /\ ev' = EvIdle
    /\ UNCHANGED <<uiModel, uiViews, selected, suspended, worker, fetches, holder, clicks, uiErrors, uiHistory>>

-----------------------------------------------------------------------------
(* The UI thread.                                                          *)
SetTunnelState(m, t, state) == \* of the tray
    [m EXCEPT ![t] = IF @ = "no" \/ state \notin Still THEN @
                     ELSE IF state = "started" THEN "checked" ELSE "unchecked"]
Fetch(kind, t) == [kind |-> kind, tunnel |-> t, pc |-> "ask", state |-> "stopped", version |-> 0]
Select(t) == selected' = t /\ (IF t = NoTunnel THEN UNCHANGED fetches ELSE fetches' = fetches \cup {Fetch("view", t)})

\* confView.setTunnel refuses another tunnel's answer, and none if nothing is selected.
SetView(p) ==
    confView' = IF selected \in {NoTunnel, p.tunnel}
            THEN [tunnel |-> p.tunnel, version |-> p.version, state |-> p.state] ELSE confView

RunChange(n) ==
    /\ seen' = IF n.tunnel \in rows THEN [seen EXCEPT ![n.tunnel] = n.state] ELSE seen
    /\ tray' = SetTunnelState(tray, n.tunnel, n.state) /\ global' = n.global
    /\ confView' = IF selected = n.tunnel THEN [confView EXCEPT !.state = n.state] ELSE confView
    /\ UNCHANGED <<rows, selected, fetches>>

\* Rows that went are removed with their state, new ones are added and painted: StyleCell asks
\* for a state it has not seen, on the UI thread.  The selection follows.
RunRows(names) ==
    /\ names \subseteq rows \/ MayCall("ui")
    /\ rows' = names
    /\ seen' = [t \in Tunnels |-> IF t \notin names THEN "unknown"
                                  ELSE IF seen[t] = "unknown" THEN run[t] ELSE seen[t]]
    /\ IF selected \in names \cup {NoTunnel} /\ (names \subseteq rows \/ selected # NoTunnel)
       THEN UNCHANGED <<selected, fetches>>
       ELSE IF names = {} THEN Select(NoTunnel) ELSE \E t \in names : Select(t)
    /\ confView' = IF selected' = NoTunnel THEN [confView EXCEPT !.tunnel = NoTunnel] ELSE confView
    /\ UNCHANGED <<tray, global>>

\* addTunnelAction starts a goroutine that asks for the state.
RunTray(names) ==
    /\ tray' = [t \in Tunnels |-> IF t \notin names THEN "no"
                                  ELSE IF tray[t] = "no" THEN "unchecked" ELSE tray[t]]
    /\ fetches' = fetches \cup {Fetch("tray", t) : t \in {x \in names : tray[x] = "no"}}
    /\ UNCHANGED <<rows, seen, global, confView, selected>>

RunsClosure ==
    /\ queue # <<>> /\ queue' = Tail(queue)
    /\ LET p == Head(queue) IN
         \/ p.kind = "change" /\ RunChange(p.note)
         \/ p.kind = "rows" /\ RunRows(p.names)
         \/ p.kind = "tray" /\ RunTray(p.names)
         \/ p.kind = "check" /\ tray' = SetTunnelState(tray, p.tunnel, p.state)
              /\ UNCHANGED <<rows, seen, global, confView, selected, fetches>>
         \/ p.kind = "view" /\ SetView(p) /\ UNCHANGED <<rows, seen, tray, global, selected, fetches>>
    /\ UNCHANGED <<uiModel, ev, suspended, worker, holder, clicks, uiErrors, uiHistory>>

-----------------------------------------------------------------------------
(* Goroutines that read a tunnel: SetTunnel, the ticker, addTunnelAction.  *)
(* The state and the configuration are two calls, here one step.           *)
FetchAsks(f) ==
    /\ f \in fetches /\ f.pc = "ask" /\ MayCall("fetch")
    /\ fetches' = (fetches \ {f}) \cup
           {[f EXCEPT !.pc = "post", !.state = run[f.tunnel], !.version = kept[f.tunnel]]}
    /\ UNCHANGED <<uiModel, ev, queue, uiViews, selected, suspended, worker, holder, clicks, uiErrors, uiHistory>>
FetchPosts(f) ==
    /\ f \in fetches /\ f.pc = "post" /\ fetches' = fetches \ {f}
    /\ Post([kind |-> IF f.kind = "tray" THEN "check" ELSE "view", tunnel |-> f.tunnel,
             version |-> f.version, state |-> f.state])
    /\ trayOff' = IF f.kind = "tray" /\ run[f.tunnel] # f.state THEN trayOff \cup {f.tunnel} ELSE trayOff
    /\ UNCHANGED <<uiModel, ev, uiViews, selected, suspended, worker, holder, clicks, uiErrors, posted, overtaken, reordered>>

\* The ticker, once a second while the window is visible.  A tick that would change nothing,
\* or whose predecessor's closure has not run yet, is left out.
Ticks ==
    /\ selected # NoTunnel /\ confView # [tunnel |-> selected, version |-> kept[selected], state |-> run[selected]]
    /\ \A f \in fetches : f.kind = "tray"
    /\ \A k \in DOMAIN queue : queue[k].kind # "view"
    /\ fetches' = fetches \cup {Fetch("view", selected)}
    /\ UNCHANGED <<uiModel, ev, queue, uiViews, selected, suspended, worker, holder, clicks, uiErrors, uiHistory>>

-----------------------------------------------------------------------------
(* What the user does; one goroutine at a time.                            *)
NoWork == [job |-> "none", pc |-> "idle", tunnel |-> NoTunnel, state |-> "stopped", load |-> NoLoad,
           exists |-> FALSE]
Click == clicks > 0 /\ clicks' = clicks - 1 /\ worker = NoWork
Steps(pc) == worker' = [worker EXCEPT !.pc = pc]
UiError == uiErrors > 0 /\ uiErrors' = uiErrors - 1

Clicks(job, t, first) ==
    /\ Click /\ worker' = [NoWork EXCEPT !.job = job, !.pc = first, !.tunnel = t]
    /\ UNCHANGED <<uiModel, ev, queue, rows, seen, global, confView, selected, fetches, suspended, holder, uiErrors, uiHistory>>
ClicksImport(t) == Clicks("import", t, "existing") /\ UNCHANGED tray
ClicksDelete(t) == t \in rows /\ Clicks("delete", t, "suspend") /\ UNCHANGED tray
ClicksEdit(t) == selected = t /\ Clicks("edit", t, "state") /\ UNCHANGED tray
\* An entry of the tray: the check mark is inverted first.
ClicksToggle(t) ==
    /\ tray[t] # "no" /\ global \in Still /\ Clicks("toggle", t, "state")
    /\ tray' = [tray EXCEPT ![t] = IF @ = "checked" THEN "unchecked" ELSE "checked"]

WorkStep == UNCHANGED <<ev, uiViews, selected, fetches, clicks>>
Quietly == WorkStep /\ UNCHANGED <<queue, posted, overtaken, reordered>>

\* importFiles notes the names that exist, in any case of their letters, to skip them below.
Existing ==
    /\ worker.pc = "existing" /\ MayCall("worker")
    /\ worker' = [worker EXCEPT !.pc = "load", !.exists = kept[worker.tunnel] > 0]
    /\ suspended' = suspended + 1
    /\ Quietly /\ UNCHANGED <<uiModel, holder, uiErrors, trayOff>>

\* Mutant: resuming does not load the names.
SuspendsQuietly ==
    /\ worker.pc \in {"suspend", "resume"}
    /\ suspended' = IF worker.pc = "suspend" THEN suspended + 1 ELSE suspended - 1
    /\ worker' = IF worker.pc = "suspend" THEN [worker EXCEPT !.pc = "load"] ELSE NoWork
    /\ Quietly /\ UNCHANGED <<uiModel, holder, uiErrors, trayOff>>
\* SetSuspendTunnelsUpdate: the counter, then a load of its own.
Suspends ==
    /\ worker.pc \in {"suspend", "resume"}
    /\ suspended' = IF worker.pc = "suspend" THEN suspended + 1 ELSE suspended - 1
    /\ Steps(IF worker.pc = "suspend" THEN "load" ELSE "reload")
    /\ Quietly /\ UNCHANGED <<uiModel, holder, uiErrors, trayOff>>
WorkerReads ==
    /\ worker.pc \in {"load", "reload"} /\ MayCall("worker")
    /\ worker' = [worker EXCEPT !.pc = IF worker.pc = "load" THEN "post" ELSE "repost", !.load = NamesNow]
    /\ Quietly /\ UNCHANGED <<uiModel, suspended, holder, uiErrors, trayOff>>
WorkerPosts ==
    /\ worker.pc \in {"post", "repost"} /\ PostRows(worker.load)
    /\ worker' = IF worker.pc = "post" THEN [worker EXCEPT !.pc = "act"] ELSE NoWork
    /\ WorkStep /\ UNCHANGED <<uiModel, suspended, holder, uiErrors, reordered, trayOff>>

\* One tunnel of the batch is created or deleted; an error is kept for the message.
BatchActs(fails) ==
    /\ worker.pc = "act" /\ MayCall("worker")
    /\ IF worker.exists THEN ~fails /\ UNCHANGED <<uiModel, uiErrors>>
       ELSE IF fails THEN UiError /\ UNCHANGED uiModel
       ELSE /\ UNCHANGED uiErrors
            /\ IF worker.job = "import" THEN written < MaxVersions /\ ServerCreate(worker.tunnel)
                                        ELSE ServerDelete(worker.tunnel)
    /\ Steps("resume") /\ Quietly /\ UNCHANGED <<suspended, holder, trayOff>>

\* Toggle, or the first call of an edit.
AsksState ==
    /\ worker.pc = "state" /\ MayCall("worker")
    /\ worker' = [worker EXCEPT !.state = run[worker.tunnel],
                                !.pc = IF worker.job = "edit" THEN "delete" ELSE "toggle"]
    /\ Quietly /\ UNCHANGED <<uiModel, suspended, holder, uiErrors, trayOff>>
Toggles(fails) ==
    /\ worker.pc = "toggle" /\ MayCall("worker") /\ worker' = NoWork
    /\ IF fails THEN UiError /\ UNCHANGED uiModel
       ELSE /\ UNCHANGED uiErrors
            /\ CASE worker.state = "started" -> ServerStop(worker.tunnel)
                 [] worker.state = "stopped" -> ServerStart(worker.tunnel)
                 [] OTHER -> UNCHANGED uiModel
    /\ trayOff' = IF run' = run THEN trayOff \cup {worker.tunnel} ELSE trayOff
    /\ Quietly /\ UNCHANGED <<suspended, holder>>

\* The rest of onEditTunnel: Delete, whose error is ignored, WaitForStop with the mutex held
\* (for ever if nothing was stopped), NewTunnel, Start.
EditDeletes(fails) ==
    /\ worker.pc = "delete" /\ MayCall("worker")
    /\ IF fails THEN UiError /\ UNCHANGED uiModel
       ELSE UNCHANGED uiErrors /\ ServerDelete(worker.tunnel)
    /\ Steps("wait") /\ Quietly /\ UNCHANGED <<suspended, holder, trayOff>>
\* Mutant: the edit goes on while the old tunnel stops.
EditWaitsNot ==
    /\ worker.pc = "wait" /\ MayCall("worker") /\ Steps("create")
    /\ Quietly /\ UNCHANGED <<uiModel, suspended, holder, uiErrors, trayOff>>
EditWaits ==
    /\ worker.pc = "wait" /\ MayCall("worker")
    /\ IF run[worker.tunnel] = "stopped" THEN Steps("create") /\ holder' = NoTunnel
       ELSE holder # "worker" /\ holder' = "worker" /\ UNCHANGED worker
    /\ Quietly /\ UNCHANGED <<uiModel, suspended, uiErrors, trayOff>>
EditCreates(fails) ==
    /\ worker.pc = "create" /\ MayCall("worker")
    /\ IF fails THEN UiError /\ UNCHANGED uiModel /\ worker' = NoWork
       ELSE /\ UNCHANGED uiErrors /\ written < MaxVersions /\ ServerCreate(worker.tunnel)
            /\ worker' = IF worker.state \in {"starting", "started"}
                         THEN [worker EXCEPT !.pc = "start"] ELSE NoWork
    /\ Quietly /\ UNCHANGED <<suspended, holder, trayOff>>
EditStarts ==
    /\ worker.pc = "start" /\ MayCall("worker") /\ ServerStart(worker.tunnel)
    /\ worker' = NoWork
    /\ Quietly /\ UNCHANGED <<suspended, holder, uiErrors, trayOff>>

-----------------------------------------------------------------------------
\* The page has loaded the list, and the tray its entries, before anything is clicked.
UiInit ==
    /\ \E S \in SUBSET Tunnels : \E R \in SUBSET S :
         /\ kept = [t \in Tunnels |-> IF t \in S THEN 1 ELSE 0] /\ rows = S
         /\ run = [t \in Tunnels |-> IF t \in R THEN "started" ELSE "stopped"]
         /\ tray = [t \in Tunnels |-> IF t \in R THEN "checked" ELSE IF t \in S THEN "unchecked" ELSE "no"]
         /\ selected \in IF S = {} THEN {NoTunnel} ELSE IF R = {} THEN S ELSE R
    /\ global = GlobalState(run) /\ written = 1 /\ moves = 0 /\ notes = <<>>
    /\ ev = EvIdle /\ queue = <<>> /\ seen = [t \in Tunnels |-> IF t \in rows THEN run[t] ELSE "unknown"]
    /\ confView = IF selected = NoTunnel THEN [tunnel |-> NoTunnel, version |-> 0, state |-> "stopped"]
              ELSE [tunnel |-> selected, version |-> 1, state |-> run[selected]]
    /\ suspended = 0 /\ worker = NoWork /\ fetches = {} /\ holder = NoTunnel
    /\ clicks = MaxClicks /\ uiErrors = MaxUiErrors
    /\ posted = 0 /\ overtaken = FALSE /\ reordered = FALSE /\ trayOff = {}

EventStep ==
    \/ EventTunnel \/ EventConfig \/ EventNames \/ EventReads \/ EventPosts \/ EventPostsTray
    \/ \E k \in DOMAIN notes : EventArrives(k)
FetchStep(kind) == \E f \in fetches : f.kind = kind /\ (FetchAsks(f) \/ FetchPosts(f))
WorkerStep ==
    \/ Existing \/ Suspends \/ WorkerReads \/ WorkerPosts \/ AsksState
    \/ EditWaits \/ EditStarts
    \/ \E fails \in BOOLEAN : BatchActs(fails) \/ Toggles(fails) \/ EditDeletes(fails) \/ EditCreates(fails)

UiNext ==
    \/ EventStep \/ WorkerStep \/ RunsClosure \/ Ticks
    \/ \E kind \in {"tray", "view"} : FetchStep(kind)
    \/ \E t \in Tunnels : \/ ServiceMoves(t)
                          \/ ClicksImport(t) \/ ClicksDelete(t) \/ ClicksEdit(t) \/ ClicksToggle(t)

\* Threads and goroutines run, the ticker of the view ticks, and a service that is
\* starting or stopping gets there.
UiFairness ==
    /\ WF_uiVars(EventStep) /\ WF_uiVars(WorkerStep)
    /\ \A kind \in {"tray", "view"} : WF_uiVars(FetchStep(kind))
    /\ WF_uiVars(RunsClosure) /\ WF_uiVars(Ticks)
    /\ \A t \in Tunnels : WF_uiVars(ServiceMoves(t))

UiSpec == UiInit /\ [][UiNext]_uiVars /\ UiFairness

-----------------------------------------------------------------------------
(* The views and counters keep their types; only an edit holds rpcMutex. *)
UiTypeOK ==
    /\ kept \in [Tunnels -> 0..MaxVersions] /\ rows \subseteq Tunnels
    /\ run \in [Tunnels -> Still \cup {"starting", "stopping"}]
    /\ tray \in [Tunnels -> {"no", "checked", "unchecked"}]
    /\ selected \in Tunnels \cup {NoTunnel} /\ suspended \in 0..1
    /\ holder = "worker" => worker.pc = "wait"

(* Once nothing changes any more, the list and the tray have exactly the   *)
(* stored tunnels, through suspensions, batches and edits: unless a batch  *)
(* read the names before the event goroutine did and posted them after it. *)
RowsFollowStore ==
    <>[]((rows = Stored \/ overtaken) /\ {t \in Tunnels : tray[t] # "no"} = Stored)

(* What the list, the tray and the window show of the tunnels' states is   *)
(* right in the end, unless one notification overtook another on its way   *)
(* (each has a goroutine) or, for a tray entry, the state changed between  *)
(* reading and posting it, or the click that inverted the mark failed.     *)
StatesFollow ==
    <>[](reordered \/ (/\ global = GlobalState(run)
                       /\ \A t \in rows : seen[t] = run[t]
                       /\ \A t \in Tunnels \ trayOff :
                              tray[t] # "no" => (tray[t] = "checked") = (run[t] = "started")))

(* The configuration view ends up with the selected tunnel's stored        *)
(* configuration and state, even if notifications were reordered: its      *)
(* ticker reads again.                                                     *)
ViewFollows ==
    <>[](selected # NoTunnel =>
            confView = [tunnel |-> selected, version |-> kept[selected], state |-> run[selected]])

(* An edit deletes the tunnel before it creates it again: it ends with the *)
(* tunnel stored and running if it ran before, unless creating it fails    *)
(* (then the configuration is gone) or the user deletes it.                *)
EditComesBack ==
    \A t \in Tunnels :
        (/\ worker.pc = "wait" /\ worker.tunnel = t /\ worker.state \in {"starting", "started"}) ~>
            ((kept[t] > 0 /\ run[t] = "started") \/ uiErrors < MaxUiErrors \/ worker.job = "delete")

(* What every view shows: the rows are those of the store, their states    *)
(* and the tray's are the tunnels', and the page shows the tunnel that is  *)
(* selected, as soon as nothing is under way any more.                     *)
UiFollows == []UiTypeOK /\ RowsFollowStore /\ StatesFollow /\ ViewFollows
=============================================================================
