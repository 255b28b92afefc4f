# WireRoute for Windows: TLA+ models

WireRoute for Windows is a WireGuard client. Go services descended from
WireGuard for Windows run the tunnels (a manager service, one service per
tunnel, a named-pipe protocol); a C# tray application stores profiles, drives
tunnel services through elevation prompts, switches profiles by network and
provisions RouterOS peers. This directory holds TLA+ models of the parts whose
correctness depends on order, concurrency or failure, the TLC configurations
that check them, and proofs that TLAPS checks.

`PROJECT.json` names, for every definition that models code, the lines it
models; for every run its properties; for every property a mutated definition
that breaks it; and every hazard at the line where it bites.

## 1. The system

### 1.1 Parts, state and operations

| part | state | operations | hard because |
|---|---|---|---|
| Network rules (`AutomaticProfilePolicy.cs`) | none | `Validate`, `Decide` | precedence of trusted names, assignments, transports, unreadable names |
| Automatic evaluator (`AutomaticProfileSession.cs`, `MainWindow.AutomaticProfiles.cs`) | owner, pause, revision, generation, pending network | poll every 2 s, stop, start, late completions | awaits elevation prompts while clicks, saves and network changes go on |
| Manual control (`MainWindow.Manager.cs`, `TunnelServiceController.cs`) | `onDemandGate`, row states, open modal | click, queue, command, failure message | queues behind automation |
| Legacy On-Demand (`MainWindow.OnDemand.cs`) | one-minute back-off | poll, start, stop | shares the gate and the tunnels with automation |
| Settings and rules dialog (`MainWindow.Settings.cs`, `...PersistentVpn.cs`, `...AutomaticProfilesDialog.cs`) | the document in memory and on disk | save, apply persistent mode, restore, roll back, save rules | two writers of one document with awaits in between |
| Manager tunnels (`manager/ipc_server.go`, `install.go`, `tunneltracker.go`) | `trackedTunnels`, the services of the SCM | Start, Stop, WaitForStop, Delete, Create, Quit, install, uninstall, track | methods, background stops and trackers on one SCM; marked services live on while a handle is open |
| Manager protocol v1 (`manager/protocol_v1.go`, `ManagerProtocolClient.cs`) | request lock, identifiers, event numbers, three pipes | request, cancel, event, dispose | a cancellation between two writes; a lock held over a blocking write |
| Service-free services (`install.go`, `TunnelServiceController.cs`, `...PersistentVpn.cs`) | the service, its protected copy with an owner marker, the mode | start, stop, enable, disable persistence | elevated processes outlive the app; Windows restarts anywhere |
| Firewall (`tunnel/firewall`, `addressconfig.go`) | filters in force, the session | install in one transaction, disable | what passes depends on 15 overlapping rules and their weights |
| Tunnel process (`tunnel/service.go`, `interfacewatcher.go`, `winipcfg/interface_change_handler.go`) | adapter, routes, MTU monitors, channels | start, interface appears, setup, Destroy | a goroutine per notification, two mutexes, a 30-second kill |
| Manager sessions (`manager/service.go`, `uiprocess.go`) | `aliveSessions`, `procs` | logon, logoff, respawn, stop | one respawn loop per session, looks without the lock |
| Launching (`main.go`, `ui/raise.go`, `elevate/`, `InstallManager`) | the manager's service, its window | raise, elevate, install, wait for the window | several launchers at one SCM; a hook set next to what it waits for |
| Older interface (`manager/ipc_*.go`, `ui/`) | list, tray, configuration view, `rpcMutex` | notifications, import, edit, toggle, delete | a goroutine per notification, closures posted to one thread |
| Profiles by protocol (`protocol_v1.go`: import, list) | the stored profiles | derive a name, save, list | two connections and the older interface on one store |
| Configuration store (`conf/store.go`, `migration_windows.go`, `filewriter_windows.go`) | `.conf.dpapi` and `.conf` files | save, load, delete, watch, migrate | crashes between write, move, delete and callback |
| Configuration text and names (`conf/parser.go`, `writer.go`, `config.go`, `name.go`, `dnsresolver_windows.go`) | none | parse, write, redact, resolve, deduplicate, order | comments, zero values, lists that are read twice |
| Network configuration (`tunnel/addressconfig.go`, `mtumonitor.go`, `winipcfg`) | addresses, routes, the interface row, DNS | configure, clean up, follow the MTU | two writers of one row; calls that fail at boot |
| Runtime files (`tunnel/runtime_log.go`, `runtime_metrics.go`) | `tunnel.log`, `tunnel.metrics` | write, truncate, sample, rewrite, read | rewritten in place while the app reads |
| Ring log (`ringlogger/`, `ui/logpage.go`) | lines in shared memory | write, follow, show | no lock; processes die between two stores |
| Updater (`updater/`, `manager/updatestate.go`, `ui/updatepage.go`) | `updateState`, `updateInProgress` | check, download, verify, install, report | reports in goroutines; two processes may update |
| Driver (`driver/`, `manager/ipc_driver.go`) | open adapters, the library in memory | find or open, release, load, resolve a procedure | a cache under two locks; lazy loading by several threads |
| RouterOS (`WireRoute.RouterOS`, `MainWindow.RouterOS*.cs`) | discovery, recovery copy | create peer, replace key, reconcile, import | a write whose answer is lost |
| C# stores (`WireRoute.Storage`) | protected files | load, update | crashes between write and move |
| The rest | | | listed in `PROJECT.json` with the reason they are not modelled |

### 1.2 Interaction

The window runs on one UI thread. Handlers give it up at each `await`, so two
handlers interleave only at awaits; `onDemandGate` (a semaphore of one)
serialises commands to local tunnels. A command is an elevated `wireguard.exe`
that talks to the service control manager (SCM) and lives on when the window
exits. The tunnel service it installs is a process of its own, with the
interface watcher and the firewall inside. Under the manager service the
commands are method calls over pipes instead, and trackers subscribe to the SCM
and report state changes to every connection as numbered events.

### 1.3 What makes each part correct

* Automation never takes over a tunnel the user commanded, never acts against a
  click until the network or the rules change, does not repeat elevation
  prompts, and still reaches what the rules decide.
* The manager follows every service that runs; a start always returns; what is
  in the way of a new tunnel stops.
* On a connection, frames stay aligned whatever is cancelled, no event is
  rejected, and neither a request nor a tracker waits for ever.
* A service that starts with Windows has its configuration; a disconnect is
  final; users do not touch each other's copies.
* While filters are in force nothing leaves outside the tunnel but what the
  documentation lists.
* The firewall covers the routes, no interface is forgotten, and a stop ends the
  process.
* A session has one user interface as long as it has a user; a stop of the
  manager ends all of them and itself. A launch ends with the manager up.
* Views end at the true state; an edited tunnel comes back.
* A stored configuration is whole or absent, a save is one step, plaintext files
  are encrypted in the end and not lost on the way. Text that is read, written
  and read again is the same configuration.
* An imported profile is found again under the name its owner gave it.
* The interface has exactly the configured addresses, routes and DNS, and the
  MTU of the interface its default route goes over. Other interfaces keep
  theirs.
* A file another process reads is whole or refused; a published log line is
  shown once, in order.
* An installer runs only if it is newer and verified, one update runs at a time,
  and its temporary file goes away.
* No adapter handle leaks or is used after it is closed; a failed load of the
  driver gives back what it took.

## 2. Modules

| module | models | proofs |
|---|---|---|
| `ProfilePolicy` | `AutomaticProfilePolicy.cs` as operators | |
| `AutomaticProfiles` (extends `ProfilePolicy`) | session, evaluator, clicks, On-Demand, settings page, rules dialog | `AutomaticProfilesProofs` |
| `ManagerTunnels` | methods, installation, trackers | `ManagerTunnelsProofs` |
| `ManagerProtocol` | one connection, both ends | `ManagerProtocolProofs` |
| `WireRouteServices` | service-free and persistent services | `ServicesProofs` |
| `Firewall` | the filters and their installation | `RulesProofs` |
| `TunnelService` | `Execute`, the watcher, `Destroy` | `TunnelProofs` |
| `NetworkRules` (extends `ProfilePolicy`) | the documented priority of the rules, as a reference | `RulesProofs` |
| `ManagerSessions` | the manager service: respawn loops, logons, its end | `ServicesProofs` |
| `ManagerLaunch` | start of the program, elevation, installation of the manager | |
| `LegacyUi` | the older interface: list, tray, view, its IPC at both ends | |
| `ManagerProfiles` (extends `ConfigText`) | import and list of protocol v1, next to the older methods | `RulesProofs` |
| `AtomicStore` | abstract specification of a store of configurations | `HostProofs` |
| `ConfStore` | `conf/`: files, writer, watcher, migration; implements `AtomicStore` | `HostProofs` |
| `ConfigText`, `TunnelNames` | `conf/` as operators: text, driver form, names | `RulesProofs` (names) |
| `NetConfig` | `configureInterface` and the MTU monitor, one address family | `TunnelProofs` |
| `RuntimeFiles` | `tunnel.log` and `tunnel.metrics`, with their reader | `TunnelProofs` |
| `RingLogger` | the ring of lines, writers, a follower, the log page | `HostProofs` |
| `Updater` | checker, update, reports, update page | `HostProofs` |
| `DriverAdapters`, `DriverLibrary` | the adapter cache; lazy loading and `memmod` | `DriverProofs` |
| `MCAutomaticProfiles`, `MCManagerTunnels`, `MCSharedTunnels`, `MCManagerProtocol`, `MCFirewall`, `MCTunnelService` | instances for TLC | |
| `MCUserInterface` | `ManagerProtocol` and `LegacyUi` | |
| `MCServices` | `WireRouteServices`, `ManagerLaunch`, `ManagerSessions` | |
| `MCRules` | `Firewall`, `NetworkRules`, `ConfigText`, `TunnelNames`, `ManagerProfiles`, `DriverAdapters`, `DriverLibrary` | |
| `MCTunnel` | `TunnelService`, `NetConfig`, `RuntimeFiles` | |
| `MCHost` | `ConfStore`, `RingLogger`, `Updater` | |

The last five put components of one area into one run. They share no state, so a
behaviour picks one of them at the start (`part`) and the others rest in a final
state: this is the sum of their state spaces, not the product. A module can be
checked alone with its own `...Spec`. A component has one invariant (`XSafe`)
that conjoins its type invariant and its named safety properties, and one
liveness property that conjoins its named parts.

### 2.1 ProfilePolicy

A policy is a record with the fields of the C# record; names and profile ids are
opaque. `Decide` returns `Use(id)`, `Use(Nil)` (no VPN) or `Hold`. The reference
in `NetworkRules` states the priority that `docs/AUTOMATIC_PROFILES.md`
promises, without the order of the code's tests.

### 2.2 AutomaticProfiles

Code between two awaits is one action. The holder of `onDemandGate` is in
`holder`, its position in `step`, its locals in `auto`, `click`, `demand`, and
its tunnel command in `op`, which goes from the prompt to the effect on the
service and back. The settings page runs beside it with `save` and `applyOp`; it
does not enter the gate, exactly as in the code. `session` has the fields of
`AutomaticProfileSession`, and each of its methods is an operator on it.
Actions: `EvaluateXxx` is one poll of the evaluator for each way it can return;
`AutomaticStopped/Started/Failed` are the continuations after the awaits;
`Toggle`, `ManualResumes`, `ManualDone` a click; `SettingsSave` to
`SettingsRolledBack` the page; `RulesOpen`, `RulesSave`, `RulesWritten` the
dialog; `Exit`, `OrphanEffect`, `Restart` the process.

`lastCommand`, `manualHold` and `failures` are history variables: who commanded
a tunnel last, whether there was a click since the network or the rules changed,
failed automatic attempts since then. Windows (network, other VPN, services,
other controllers) is the environment, and `budget` bounds how often each of its
events happens.

### 2.3 ManagerTunnels

Each connection runs one method at a time (`client`); every Start leaves a
`stopper`; each tracked service has a `tracker`. The SCM keeps a marked service
until it has stopped and its last handle is closed: `Held` lists who holds one,
and that is what makes the wait of `installTunnel` depend on trackers. A
tracker's initial query and its notifications reach the callback from two
threads, so `TrackerCallback` and `TrackerCompared` split the callback at its
comparison of `lastState`. `TrackerToldOfMark` is the notification that the
service is to be deleted: it records "stopping" whatever the service does, and
may come late or never. A tunnel intersects with itself, as in the code:
restarting an active tunnel goes through the stopper too.

Assumptions: a callback is atomic except for that split; opening and querying a
service that is marked succeeds; `checkForDisabled` sees exactly the mark. A
callback never computes `TunnelUnknown` (`tunneltracker.go:208`), as that is for
states a tunnel service does not report (paused, about to continue). A
stop request during the first part of a start is refused by the service (it does
not accept it yet) and is not repeated by the caller: `NoOrphans` and
`IntersectingStops` are stated for what the code can promise then, that is
unmarked services and tunnels recorded as started.

### 2.4 ManagerProtocol

The tunnel state is a number that grows, so an older state is a smaller number.
A request is a header and a payload, each of which may be the last thing
written. The service handles requests in order; each state change is passed to
`managerV1Notify`, which starts a goroutine per event; `eventLock` numbers and
writes it. `DisposeRequests` and `DisposeEvents` are the two halves of
`DisposeAsync`; `SemaphoreSlim.Dispose` forgets its waiters, which
`RequestReturns` has to except. `ProtocolSafe` is `TypeOK`, `FramesAligned` and
`SequenceAccepted`; `CallsReturn` is `NotifyReturns` and `RequestReturns`.

### 2.5 WireRouteServices

One tunnel name, shared by the profiles of several users (`Owners`). An
operation of an app (`op`) runs one elevated command (`cmd`) after another;
`copy` is the owner marker of the protected configuration. The command's `prev`
is the copy to go back to when the installation fails; going back may fail too,
which the code ignores (`install.go:170`).

The copy and the final stop are checked with one elevated command at a time
(`Procs` has one element), because two of them take each other's copies away
(5). The waiting in the loop of `install.go:271` is checked with two, one of
each owner (the part "shared" of `MCServices`, an instance of the module with
variables of its own). The loop's exit needs the service marked, stopped and let
go of, and the other command may be deleting, polling, failing or going away
with a handle in hand at that time. A command can also be overtaken there:
another creates and starts the service of that name between two looks, and the
loop, which only looks whether it can be opened, goes on for as long as that one
is installed. `OperationsReturn` excepts exactly this (`Overtaken`).

### 2.6 Firewall

A filter gives for each field of a packet the values it matches; conditions on
one field are alternatives, those on different fields are conjoined. Every
function of `rules.go` that `EnableFirewall` calls is an operator with its name.
The filters appear in force at once when the transaction commits; a failure
aborts it, and the death of the process drops the dynamic session. Packets are
all combinations of one value of each kind the rules tell apart and one they do
not name. Queries to a configured DNS server are permitted on every interface,
as in the code.

### 2.7 TunnelService

`pc` is the step of `Execute`, of the loop and of `Destroy`; `thread[e]` is the
goroutine of the e-th notification; `holder` is `setupMutex`; `arMutex` is
`interfaceChangeAddRemoveMutex`; `started` and `errors` are the channels with
their capacities 4 and 2. An interface that appears again has lost its routes
and is down. `Destroy` ignores the errors of its flushes and disables the
firewall all the same (`interfacewatcher.go:182-189`): `DestroyFlushes` may fail
for any routes, and `unflushed`, a history variable, has the ones it left, which
`FirewallCoversRoutes` and `ClosesEmpty` except. The kill after 30 seconds is
possible only when the shutdown is deadlocked: progress and scripts are assumed
to take less. The watchdog does not fire while `Configure` runs, and retries at
boot are inside a step.

### 2.8 ManagerSessions and ManagerLaunch

`loop[l]` is a goroutine of `startProcess` with its session, `ui[l]` the process
it waits for. `procsLock` sections are single actions; `stoppingManager` is
looked at outside them, as in the code. Tokens of users are records; which
session gets an interface is decided from them with and without
`LimitedOperatorUI`. History variables (`relogged`, `unheard`, `gaveUp`, `late`)
name the behaviours of 5 that the properties have to except.

A launcher goes through both halves of `main.go`: the unelevated one that
raises, refuses or elevates, and `/installmanagerservice`, whose window hook is
a thread of its own that can end the process at any step of `InstallManager`.

### 2.9 LegacyUi

The event goroutine, the worker of a click, the two fetches and the UI thread
take turns; closures posted with `Synchronize` are a queue. `rpcMutex` is held
for the whole call, which matters for `WaitForStop` alone. A stored
configuration is a version number.

### 2.10 ConfStore and AtomicStore

A save is the steps of `writeLockedDownFile`: create, write, flush, rename; a
power loss tears what was not flushed. The migration runs under `migrating` from
three threads. An encrypted file is a blob sealed for its name, as DPAPI does:
it loads under that name only. The installation of a service with a plaintext
path is two steps: the command begins (`UserInstalls`) and creates the service
later (`InstallsService`), without a look at the file. The calls that give it
the new path after the removal may fail, which is only logged (`Migrated`);
`orphaned`, a history variable, has the services whose path nobody corrects.

`AtomicStore` has requests, each with a name and data, and what is stored under
each name. `StoreIsAtomic` maps `file` to the stored blobs and the saves before
their rename to the requests: a rename is the commit, an error the abort, the
manager's death the crash, a deletion the removal, an administrator's renaming
of a file the move, and every other step a stutter. The move is a step of its
own because a blob that is moved away and back loads again: a store that
remembers only what each name loads as is not implemented.

### 2.11 ConfigText, TunnelNames, ManagerProfiles

A text is a sequence of lines with key, value and comment; values are items with
a kind. `FromWgQuick`, `ToWgQuick`, `ToDriverConfiguration`, `Redact` and the
rest are operators on them, compared with each other over every text of the
bound. A display name is spelled in a few kinds of characters, enough for a name
to be replaced, trimmed, cut, reserved, refused or equal to another up to case;
the allocation of a free name with a numbered suffix works on those.

### 2.12 NetConfig and RuntimeFiles

`NetConfig` is what `TunnelService` sees as one step that succeeds or fails.
Each call of `winipcfg` is an action; both users of the interface row read it,
change fields and write it back, in separate actions. Listing the adapters and
deleting an address of another one may fail, which is ignored. MTUs are small
numbers with the subtraction, the minimum and the two special cases of the code.
Other interfaces go up and down and change their metric (`weather`).

In `RuntimeFiles` a file is its bytes: the rewrite of the metrics is a write at
offset 0 and a truncation, and `TryReadMetrics` accepts what ends in a brace.
Counters saturate at `MaxCounter`.

### 2.13 RingLogger, Updater, DriverAdapters, DriverLibrary

The steps of `RingLogger` are the atomic operations of `ringlogger.go`; an index
is taken modulo `RingWrap` and a killed process stops between two of them.
`Updater` keeps for each update what it has opened, where its file is and what
it has reported; a version is a list of numbers, and `Later` compares two as
`versionNewerThanUs` does. `DriverAdapters` has Go's readers-writer lock, in
which a waiting writer keeps readers out, adapters that vanish and return, and
reads that fail on an adapter that is there. `DriverLibrary` gives a load as a
list of steps, each of which may fail and be undone, a logger that may not be
found, and the protection of pages that sections share. `DriverUsable` says of
both that nobody waits in a circle, and that pages get the access their sections
ask for.

## 3. Runs

All bounds are CONSTANTS of the configuration. `CHECK_DEADLOCK FALSE` stands
wherever the bounded environment may have nothing left to do.

| run | instance | shows |
|---|---|---|
| `automatic_handover` | 2 profiles, a wired network, a Wi-Fi and none; two network changes with a click and a rules edit, or one with a click and another VPN; no tunnel or one runs at start-up | ownership, the queued click, one failure per network, manual intent; the gate comes free; automation converges |
| `automatic_settings` | the same networks; the persistent-mode save with a network change, a click and a row refresh; On-Demand with another controller, an unreadable network and a restart | manual intent under the page's restore and rollback, and that only the dialog changes the rules |
| `tunnels_shared` | one tunnel; two connections starting it, or one calling every method with Quit and a crash; two `CreateService` | no running service is left without a tracker |
| `tunnels_live` | one tunnel, one connection, slow starts and failing subscriptions; two `CreateService` | pinning, a Start returns, the tunnel in the way stops |
| `user_interface` | protocol: two callers, an event pipe of one, two state changes and a third that finds the pipe full, two requests, one cancellation, a manager that may die, a window that may stop reading; older interface: one tunnel, two versions of it, one click, one failing call, two notifications and two closures under way | alignment, numbering, no wait for ever; views end at the true state, an edit comes back |
| `services` | two owners of one name, four operations, one failure, one exit or restart; the same with a command each at the same time, three operations, one failure; two launchers and one stop of the manager; one session, two loops, two logons or logoffs, one exit and one failure of an interface | copy and service go together, a stop is final; operations return, also from the loop without a deadline, unless overtaken; launches settle; one interface per session, the shutdown ends |
| `rules` | every valid policy with two names, two profiles and lists up to length 2; nine addresses and every configuration; texts of three beginnings and up to four lines of 19 kinds; three names of up to two runs; three calls of three connections, one of them without a token; three users of one adapter, four calls, three lives; two threads, two procedures, two failing steps, images of two or three sections | the documented priority; the kill switch and its exceptions at every step; text comes back, names sort, imports are found; no handle leaks, no half-loaded library, no circle of waiters; pages get the access their sections ask for |
| `tunnel_service` | two families, three appearances, or two and two failures; two other interfaces, three configurations, two disturbances (changes or failing calls); two processes in a row, two failing file calls | no appearance lost, firewall over every route that was not left by a failed flush; the interface exactly as configured, its MTU follows; logs bounded, metrics whole, counters saturate; starts and stops end |
| `host` | two names, one client, two steps of users, one fault or crash; two writers, a ring of two lines that wraps, three lines, one kill; one interface, two updates, two release lists, one fault | the store is atomic and loses nothing; lines are followed in order; only verified updates run, one at a time; everything shows in the end |
| `rules_lost` | violation | see 4 |
| `tunnels_exclusive` | violation | see 4 |
| `service_routes_left` | violation | see 4 |

Why the bounds are enough: each run gives every actor one more move than the
hazards need. A handover needs one network change, and the second lets one
arrive inside it; a wait needs one old service and one new one, hence two
`CreateService`; two commands contend for a service that a third operation has
left; lost alignment needs one cancelled request and one that waits;
the channels of the watcher block only beyond 4 and 2 messages, which the
failures of `tunnel_service` reach for `errors`. A lost plaintext file needs one
crash in one migration; a stale view one change after the fetch that missed it;
a ring needs as many lines as it has slots, and one more, to lap its follower; a
handle is used after it was closed with one user, one that closes it and one
that opens the next. Lists, delays and sizes that the code compares with a limit
(15 retries at boot, 2048 lines, 32 characters) are small constants, with values
on both sides of the limit.

`NoOrphans` is checked with `SubscribeMayFail` and `SlowStart` off: a tracker
that cannot subscribe, or that settles before a slow start has begun, gives the
service up by design. Only one connection calls every method when the manager
may end; with two, and deletions, `NoOrphans` does not hold (5), and the theorem
of 6 asks for one of the two to be absent. The liveness properties of
`tunnels_live` hold with both switches on. The ownership properties are checked
in `automatic_handover` only; the theorems of 6 cover the settings page as well.

### Fairness

* `AutomaticProfiles`: the dispatcher timer polls; the user answers every prompt
  and closes every message; an elevated process ends (the code waits 45 seconds
  at most); a service leaves its pending states; a file write ends. Nothing
  obliges the network, the user or other controllers to do more.
* `ManagerTunnels`: goroutines run, the SCM notifies, the tunnel process
  finishes what it began (its own 30-second kill). Strong fairness for the
  removal of a marked service: handles opened and closed over and over do not
  keep it, because the SCM removes it at the moment the last one is closed.
* `ManagerProtocol`: strong fairness for a caller's steps, since `SemaphoreSlim`
  hands the lock on; no fairness for reading events: a window may stop reading
  and stay open.
* `ConfStore`: weak fairness for threads; strong fairness for the registration,
  the timers and the watcher, which wait for `migrating` while others take it: a
  Go mutex hands itself to a waiter that starves.
* `RuntimeFiles`: strong fairness for seeing `stop` in the metrics goroutine, as
  its `select` does not choose the ticker for ever.
* `RingLogger`: writers and follower run up to the first race (5).
* The other modules: processes, goroutines and the UI thread are scheduled,
  timers fire, prompts are answered, services leave pending states. Users,
  networks, failures and kills are never obliged to happen.

Liveness is stated as `<>[]` where views must come to rest once the bounded
environment has, and as `[]<>` where something has to come free again and again.

## 4. Findings

* **Rules lost under a save** (`rules_lost`). The settings page builds its
  document at the click and assigns it after awaiting the tunnels, or assigns
  the previous one when it rolls back; rules saved meanwhile are overwritten in
  memory. `docs/AUTOMATIC_PROFILES.md:45` says saving does not erase them.
* **Intersecting tunnels both active** (`tunnels_exclusive`). Start looks for
  intersecting tunnels in `trackedTunnels`, where a tunnel appears only when its
  tracker has run; two overlapping starts miss each other.
* **Routes left behind** (`service_routes_left`). `Destroy` holds the add/remove
  mutex while it waits for the callback's goroutines, and a goroutine in `setup`
  needs that mutex for the MTU monitor. The shutdown hangs, and the process
  kills itself before flushing.

## 5. Further deviations met while modelling

Each of these is a behaviour of the code. The models have those of the parts
they cover: a property either does not speak of them or excepts them by name,
mostly through a history variable. They are not kept as runs. The most important
are hazards in `PROJECT.json`.

The app and its services:

* The settings page looks at `onDemandGate` without entering it
  (`MainWindow.Settings.cs:151`), so a handover can begin during a
  persistent-mode change.
* `ChangeLocalProfileStateAsync` inverts the state it reads after the await;
  On-Demand and the handover can get the opposite of what they decided
  (`MainWindow.OnDemand.cs:88`, `MainWindow.AutomaticProfiles.cs:136`).
* After a 45-second timeout a row keeps its pending state, and automation waits
  for ever (`MainWindow.AutomaticProfiles.cs:90`).
* The query and a notification of one service can be applied in the wrong order,
  so `trackedTunnels` may record an old state (`tunneltracker.go:119`); the
  background stop of a Start can hit the newly installed service of the same
  name (`ipc_server.go:105`).
* A `Delete` that found no service returns after another connection's start has
  installed it. If the manager then ends before it follows the new service, the
  next one does not look for it, as it has no profile (`tunneltracker.go:223`);
  when `Create` brings the name back the service runs and nobody follows it
  (`ipc_server.go:155`).
* Events are numbered in the order of the lock, not of the states
  (`protocol_v1.go:663`), and an answer can overtake an event
  (`MainWindow.Manager.cs:363`): the window may show an old state.
* A failed installation can leave an inactive service (`install.go:331`); a
  failed upgrade to persistent mode whose restore meets the late tunnel leaves
  the protected copy (`MainWindow.PersistentVpn.cs:107`).
* Two elevated commands at once (the app exited and was started again): one
  deletes the copy the other has just saved (`install.go:172`), and the loop at
  `install.go:271` waits for as long as the other's tunnel is installed if that
  one was created between two of its looks (`Overtaken` in `services`).
* A tracker that is told of the deletion of a service records "stopping" though
  the service may still be starting, and Start then does not ask to let it
  finish (`tunneltracker.go:97`, `ipc_server.go:90`).
* A `/0` prefix with host bits, or `Table = off`, does not make the firewall
  restrictive (`addressconfig.go:169`, `docs/netquirk.md:20`).
* An MTU monitor registered after `Destroy` took its copy is never unregistered
  (`interfacewatcher.go:171`); an adapter reset between `SetAdapterState` and
  `Configure` stays down (`interfacewatcher.go:116`).

Sessions and launching:

* A logoff and a logon of one session that the loop sees only afterwards leave
  two loops, or none (`manager/service.go:81`); a logon between the enumeration
  and the first accepted control is missed; an interface launched around the
  stop is neither told nor killed, and the service waits for it.
* A launcher that saw the service stopped deletes one that another has started
  meanwhile; one that waits for a deletion waits on if another creates the
  service between two looks. The message "did not appear" is wrong when the
  window came before the hook.

The older interface:

* Notifications are sent by a goroutine each: a reordered pair leaves the list
  or the tray stale until the next change, and names read by a batch can be
  posted after newer ones. A tray entry stays wrong when its click failed.
  `setTunnel` accepts a late answer when nothing is selected.
* An edit deletes and creates: if creating fails, the configuration is gone.
  `WaitForStop` holds `rpcMutex`, and holds it for ever if the deletion did not
  stop the service.
* `Quit` records itself before it has listed the names, so a failure there makes
  the next one do nothing.

Stored configurations:

* A plaintext file beside an encrypted one of its name makes every migration
  fail on it. A text rewritten between the read and the removal is lost.
* Three things leave a service whose file is gone: a death between the removal
  and the callback (`migration_windows.go:92`); a call to the service manager in
  `changeTunnelServiceConfigFilePath` that fails, as the error is logged and
  nothing is tried again (`install.go:370-410`); and a service created after the
  callback with the path of a file that was there when its command began
  (`install.go:301`). `ServicePathExists` excepts these three.
* Changes while the watcher has no handle, or
  before the callback is registered, are not seen.
* `[Interface]` after a `[Peer]` adds that peer twice (`parser.go`).
* A `Create` of the older interface between the list and the save of an import
  makes the import fail (`protocol_v1.go`).

Tunnel process:

* `configureInterface` and the MTU monitor each write back the row they read:
  the later one takes the other's fields back (`mtumonitor.go:81`,
  `addressconfig.go:132`). Reading the row is not retried at boot, setting it
  is.
* `Destroy` drops the errors of `FlushRoutes` and `FlushIPAddresses` and then
  disables the firewall: routes that could not be flushed outlive the kill
  switch until the adapter goes (`interfacewatcher.go:182-189`).
* A log whose truncation succeeded and whose seek failed goes on at a stale
  offset; a metrics write that is cut short can mix two snapshots, which the
  reader takes for whole when the brace is in place.

Ring log:

* Exactly `maxLines` lines between two looks look like none. A killed writer's
  slot stops the follower until it is reused. A writer that stalls for one lap
  clashes with the next one, while the comment speaks of more than `maxLines`
  writers. Two processes that open an unmarked file both clear it. `raced` ends
  a behaviour at the first such clash.

Updater and driver:

* The last report is sent before the deferred clean-up, so a prompt second click
  is told that an update is in progress. Reordered reports leave the page
  "updating". The manager and `/update` have a flag each; `/update` exits
  without waiting for the removal of its file.
* Another thread can call the driver before the first one has set the logger. A
  hook that failed once is not tried again. `Addr` panics when the load fails.

## 6. Proofs

TLAPS checks these for every value of the constants that satisfies the named
assumptions of the modules.

* `AutomaticProfilesProofs`: `SessionIsSafe`, `OwnershipCorrect`,
  `QueuedClickCorrect`, `ManualIntentCorrect`, `OwnedIsAlone`, `RulesStay`. The
  assumptions are those of the module and `~OverlappingSaves`: the rules dialog
  is not open during a settings save (with it, the settings page brings back an
  old policy, see 4). The type invariant alone is not inductive for ownership.
  What has to be added is what the code relies on and never writes down: a
  completion claims a tunnel only under the revision it was stamped with, and
  every click moves the revision on; so while a click is queued or runs, the
  stamp of the holder is old. `SessionIsSafe` needs that a failure pauses
  exactly the network it happened on and that the pause goes with the network or
  the rules; `ManualIntentCorrect` needs that a hold means paused, or a revision
  newer than that of the handover under way. `OwnedIsAlone` says that a tunnel
  of automation is the only local one, for `NoOtherControl` (no other controller
  of the services, and no Settings save, whose reinstallation of a tunnel does
  not enter the gate): the switch checks that nothing else runs and keeps the
  gate until it has finished, and a command that outlives its wait leaves
  nothing owned. `RulesStay` says that the settings page never changes the
  rules: whatever it builds or brings back has the rules in memory, at every
  await.
* `ManagerTunnelsProofs`: `TrackersAreSafe`, from the inductive invariant of
  `InvariantHolds`. A tracker is in the map exactly while its goroutine runs,
  holders of handles keep the service from being removed, and only a service
  without holders goes away. Types depend on it: a tracker queries its service,
  which must exist to have a state. `ServicesAreFollowed` proves `NoOrphans` for
  `~SlowStart`, `~SubscribeMayFail` and `NoDeletes \/ OneManager`; the last came
  out of the proof (5). What is added is who may still follow a service at each
  step of its installation.
* `ManagerProtocolProofs`: `ProtocolIsSafe`. Bytes of a frame stay together
  because the pipe has one writer at a time, also across a cancelled request;
  the numbers of events in the pipe, in the reader and in the writer are one
  increasing sequence.
* `RulesProofs`: `KillSwitchHolds` and `PacketsAreDecided`. The invariant
  says that what is in force is nothing or the complete set of the
  configuration; the rest is a case analysis of the filters by weight. Packets,
  ports, addresses, DNS servers and configurations are arbitrary. And
  `RulesDecide`, for any profiles, names and lengths of the lists
  (`RulesAssumption`): `Validate` keeps one assignment for each network, so
  `FirstOrDefault` finds it wherever it stands. `TunnelNamesSort` is for names
  of any runs (`NamesAssumption`): the first run in which two names differ
  decides, and it exists as < on Nat is well-founded. `ImportsDoNotClash` is
  for any connections, names and texts (`ProfilesAssumption`): from its list to
  its Save an import holds `managerV1ImportLock`, and the name it chose is free
  or was written by the older interface meanwhile; a list has shown or will
  still load every profile that stayed.
* `ServicesProofs`: `CopiesStay`, `StopsAreFinal`, `SessionsAreSafe`. The first
  two are for `Serial` (one elevated command at a time, see 5) and rest on what
  each command has done of its work at each of its steps; the third on who
  counts a loop and who has been told to end.
* `TunnelProofs`: `ServiceIsSafe`, `FilesAreWhole`, `NetIsConfigured`. The
  watcher's invariant ties `setupMutex`, the channels and the step of `Execute`
  to each other, so that no route exists without the firewall, but for the ones
  a failed flush has left, and no appearance is dropped; that of the files
  bounds what is left of an older snapshot behind a newer one. `NetIsConfigured`
  is for any configurations, interfaces, MTUs, retries and failing calls
  (`NetAssumption`): what the tables hold depends on the step and not on the
  failures before it; and while the two writers of the row have not overlapped,
  the last MTU the monitor used is that of the default interface unless a change
  is waiting or was missed.
* `HostProofs`: `StoreKeepsConfigs`, `StoreImplementsAtomic`, `UpdatesAreSafe`,
  `LogIsFollowed`, for any names, clients, users' steps, lists of releases,
  failing calls, writers and sizes of the ring (`StoreAssumption`,
  `UpdaterAssumption`, `RingAssumption`). What is in the directory has reached
  the disk, and the migration removes a plaintext only after its encrypted form
  was renamed; a service that still has the path then is met by the callback of
  that very step, or is one of the three kinds of 5. An update carries what it
  has verified from stage to stage, and its flag excludes another of its
  process. In the ring, line n has the slot of n - 1, also where `nextIndex` has
  wrapped, as the wrap is a number of laps; a writer has the newest line of its
  slot and has it alone. The follower stands one lap behind a line that nobody
  has begun (`Stands`): what it has found is older, and the time it reads can
  only be that of the line in between.
* `DriverProofs`: `AdaptersAreSafe` (`AdaptersAssumption`) and `DllIsSafe`
  (`NoThreadAssumption`). Whoever has found a handle keeps the map locked until
  he has its mutex, and then the mutex keeps the handle in the map. What a load
  has acquired depends on its step, and `Free` undoes every one of these sets.

Two properties were wrong and were corrected when their proofs failed:
`AtomicStore` had no move (2.10), and `NoOrphans` needs the condition above.

Only model-checked, and out of the prover's reach: all liveness
(`GateComesFree`, `AutomationConverges`, `StartReturns`, `IntersectingStops`,
`CallsReturn`, `UiFollows`, `EditComesBack`, `OperationsReturn`,
`SessionsServed`, `LaunchSettles`, `ProcessEnds`, `EverythingShows`);
`DriverUsable`, which is stated with ENABLED and with the pages of images of any
length; `CountersSaturate`, which is about a sum over any number of peers: both
need induction over data. Of `ConfSafe`, the parts `NamesSort`,
`ProfilesCounted` and `ImportSucceeds` are proved, and of `ListIsComplete` the
names of a list (`ListIsNamed`); `TextKept`, `DisplayNameKept`, `NamesAreFound`
and the display names of a list are only model-checked, as texts are read and
written by folds over any number of lines, and a name's suffix is a `ToString`,
which only TLC evaluates.

## 7. Not modelled

`PROJECT.json` lists every component with its status.

* For good: drawing, dialogs, syntax colouring, translations, the gob encoding,
  structure layouts (driver configuration, WFP, IP helper), relocations and
  imports of the in-memory loader, cryptography, HTTP and signatures (external
  calls that answer), the installer, the tray icon of the app.
* So far: RouterOS provisioning and trust, the C# stores, text and routes,
  profile actions of the window, the encrypted DNS proxy, managed profiles in
  the window, `profiles.get` and the frame limits of protocol v1.
* Inside modelled parts: appearance fields of the settings document; one address
  family at a time in `NetConfig`; one tunnel name in `WireRouteServices` and
  `DriverAdapters`.

## 8. Plan

1. Done: `ProfilePolicy`, `AutomaticProfiles`, `ManagerTunnels`,
   `ManagerProtocol`, `WireRouteServices`, `Firewall`, `TunnelService`; proofs
   for AutomaticProfiles, ManagerTunnels and Firewall.
2. Done: `ConfStore` refined to `AtomicStore`, `ManagerSessions`,
   `ManagerLaunch`, `LegacyUi`, `ConfigText`, `TunnelNames`, `ManagerProfiles`,
   `NetConfig`, `RuntimeFiles`, `RingLogger`, `Updater`, `DriverAdapters`,
   `DriverLibrary`.
3. Done: proofs for ManagerProtocol, WireRouteServices, ManagerSessions,
   TunnelService, RuntimeFiles, ConfStore, Updater and the driver; `NoOrphans`,
   `OwnedTunnelIsAlone`, `PacketsDecided`, `WiFiPriority`, `NetConfigured`.
   `RingFollowed`, names and imports of `ConfSafe`.
4. `RouterOSProvisioning`: creating a peer and recovering a profile with lost
   answers, exits of the app and another administrator. Property: the private
   key that matches the router is always on disk; a recovery is deleted only
   when the profile is imported or the router refused.
5. `ProtectedStore`, refined to an atomic document like `ConfStore`.
6. Profile actions of the window (import, rename, edit, delete) against active
   tunnels; the encrypted DNS proxy; C# text and routing plan as operators.
7. An abstract specification of who controls the VPN, refined by
   `AutomaticProfiles`.

## 9. Running

In this directory, `tlc -config X.cfg MCModule` for the pairs in `PROJECT.json`,
and `tlapm XProofs.tla` for the proofs.
