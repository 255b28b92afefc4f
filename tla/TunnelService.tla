---------------------------- MODULE TunnelService ----------------------------
(***************************************************************************)
(* The process of one tunnel: Execute (tunnel/service.go) and the watcher  *)
(* of its network interface (tunnel/interfacewatcher.go), whose callback   *)
(* runs in a goroutine per notification (winipcfg).                        *)
(*                                                                         *)
(* The interface appears once per address family and can appear again.     *)
(* setup, which needs setupMutex, runs in the main thread for the          *)
(* notifications stored before Configure and in their goroutines after it. *)
(***************************************************************************)
EXTENDS Integers, Sequences

CONSTANTS
  Families,     \* address families
  Events,       \* bound: notifications that the interface has appeared
  MaxFailures,  \* bound: failures of calls and scripts
  StartedSize,  \* capacity of the channel started
  ErrorsSize    \* capacity of the channel errors

ASSUME SizeAssumption == {MaxFailures, StartedSize, ErrorsSize} \subseteq Nat
ASSUME EventsAssumption == Events \subseteq Nat \ {0}

VARIABLES
  pc,         \* the step of Execute
  state,      \* the state reported to the service control manager
  complete,   \* started: an interface has been set up
  stop,       \* a stop request was accepted
  mtuAuto,    \* the configuration has no MTU
  adapter, up,\* the adapter exists, and is up
  firewall,   \* the firewall is enabled
  routes,     \* the families with addresses and routes on the interface
  appeared,   \* the families whose interface has appeared
  reg,        \* interfaceChangeCallback is registered
  luid,       \* Configure has set the LUID
  stored,     \* storedEvents
  thread,     \* the goroutine of each notification
  holder,     \* who holds setupMutex
  setup,      \* the setup in progress
  cbs,        \* changeCallbacks: the registration of each family, 0 if none
  old,        \* the copy Destroy took of it
  monitors,   \* the registered MTU monitors
  made,       \* how many monitors were ever registered
  arMutex,    \* interfaceChangeAddRemoveMutex is held by Destroy
  started, errors, \* messages in the channels
  watchdog,   \* the one-minute timer
  failures,
  unflushed   \* history: the families that Destroy could not flush

vars == <<pc, state, complete, stop, mtuAuto, adapter, up, firewall, routes, appeared, reg, luid, stored,
          thread, holder, setup, cbs, old, monitors, made, arMutex, started, errors, watchdog,
          failures, unflushed>>

Main == 0       \* the main thread as holder of setupMutex
Nobody == -1
NoFamily == "none"
NoSetup == [pc |-> "none", fam |-> NoFamily]

Init ==
  /\ pc = "load" /\ state = "startpending" /\ complete = FALSE /\ stop = FALSE
  /\ mtuAuto \in BOOLEAN
  /\ adapter = FALSE /\ up = FALSE /\ firewall = FALSE
  /\ routes = {} /\ appeared = {}
  /\ reg = FALSE /\ luid = FALSE /\ stored = <<>>
  /\ thread = [e \in Events |-> NoSetup]
  /\ holder = Nobody /\ setup = NoSetup
  /\ cbs = [f \in Families |-> 0] /\ old = [f \in Families |-> 0]
  /\ monitors = {} /\ made = 0 /\ arMutex = FALSE
  /\ started = 0 /\ errors = 0
  /\ watchdog = "stopped"
  /\ failures = 0 /\ unflushed = {}

watcherVars == <<reg, luid, stored, thread, holder, setup, cbs, old, monitors, made, arMutex,
                 started, errors, watchdog>>
networkVars == <<adapter, up, firewall, routes, appeared, unflushed>>

Fail == failures < MaxFailures /\ failures' = failures + 1

-----------------------------------------------------------------------------
(***************************************************************************)
(* Execute up to Configure.  A failed step goes to the deferred function,  *)
(* which destroys the watcher if there is one.                             *)
(***************************************************************************)
Defer == IF reg THEN "copy" ELSE "close"

Begins(from, to) == pc = from /\ pc' = to /\ UNCHANGED <<complete, stop, mtuAuto, failures>>

StepFails ==
  /\ pc \in {"load", "watch", "resolve", "adapter", "prepare", "firewall", "device", "postup"}
  /\ Fail
  /\ pc' = Defer
  /\ state' = "stoppending"
  /\ UNCHANGED <<complete, stop, mtuAuto, networkVars, watcherVars>>

Runs(from, to) == Begins(from, to) /\ UNCHANGED state

(* The log files and the configuration.  At boot, with the service control *)
(* manager locked, the service says at once that it is running.            *)
LoadsConfig ==
  /\ Begins("load", "watch")
  /\ state' \in {state, "running"}
  /\ UNCHANGED <<networkVars, watcherVars>>

watchInterface ==
  /\ Runs("watch", "resolve")
  /\ reg' = TRUE
  /\ UNCHANGED <<networkVars, luid, stored, thread, holder, setup, cbs, old, monitors, made, arMutex,
                 started, errors, watchdog>>

ResolvesEndpoints == Runs("resolve", "adapter") /\ UNCHANGED <<networkVars, watcherVars>>

CreatesAdapter ==
  /\ Runs("adapter", "prepare")
  /\ adapter' = TRUE
  /\ UNCHANGED <<up, firewall, routes, appeared, unflushed, watcherVars>>

(* SetLogging and the PreUp script. *)
Prepares == Runs("prepare", "firewall") /\ UNCHANGED <<networkVars, watcherVars>>

EnablesFirewall ==
  /\ Runs("firewall", "device")
  /\ firewall' = TRUE
  /\ UNCHANGED <<adapter, up, routes, appeared, unflushed, watcherVars>>

(* Privileges are dropped, the device is configured and brought up. *)
BringsUp ==
  /\ Runs("device", "configure")
  /\ up' = TRUE
  /\ UNCHANGED <<adapter, firewall, routes, appeared, unflushed, watcherVars>>

-----------------------------------------------------------------------------
(***************************************************************************)
(* Configure: with setupMutex, sets up the families that have appeared.    *)
(***************************************************************************)
Configures ==
  /\ Runs("configure", "stored")
  /\ holder = Nobody
  /\ holder' = Main /\ luid' = TRUE /\ watchdog' = "armed"
  /\ UNCHANGED <<networkVars, reg, stored, thread, setup, cbs, old, monitors, made, arMutex, started,
                 errors>>

SetUp(f) ==
  /\ setup' = [pc |-> "unregister", fam |-> f]
  /\ watchdog' = IF watchdog = "armed" THEN "stopped" ELSE watchdog

ConfiguresStored ==
  /\ Runs("stored", "stored")
  /\ setup = NoSetup /\ stored # <<>>
  /\ SetUp(Head(stored))
  /\ stored' = Tail(stored)
  /\ UNCHANGED <<networkVars, reg, luid, thread, holder, cbs, old, monitors, made, arMutex, started,
                 errors>>

ConfigureReturns ==
  /\ Runs("stored", "postup")
  /\ setup = NoSetup /\ stored = <<>>
  /\ holder' = Nobody
  /\ UNCHANGED <<networkVars, reg, luid, stored, thread, setup, cbs, old, monitors, made, arMutex,
                 started, errors, watchdog>>

(* The PostUp script has run: the service accepts a stop from here on. *)
AcceptsStop == Runs("postup", "loop") /\ UNCHANGED <<networkVars, watcherVars>>

-----------------------------------------------------------------------------
(***************************************************************************)
(* setup, by whoever holds setupMutex.                                     *)
(***************************************************************************)
setupFrame == UNCHANGED <<pc, state, complete, stop, mtuAuto, adapter, up, firewall, appeared, reg, luid,
                          stored, thread, holder, old, arMutex, watchdog, unflushed>>

SetupAt(from) == setup.pc = from

(* Both registering and unregistering take interfaceChangeAddRemoveMutex. *)
SetupUnregisters ==
  /\ SetupAt("unregister")
  /\ IF cbs[setup.fam] = 0 THEN UNCHANGED <<cbs, monitors>>
     ELSE /\ ~arMutex
          /\ monitors' = monitors \ {cbs[setup.fam]}
          /\ cbs' = [cbs EXCEPT ![setup.fam] = 0]
  /\ setup' = [setup EXCEPT !.pc = IF mtuAuto THEN "mtu" ELSE "addresses"]
  /\ UNCHANGED <<made, routes, started, errors, failures>> /\ setupFrame

SetupReadsMtu ==
  /\ SetupAt("mtu")
  /\ \/ setup' = [setup EXCEPT !.pc = "register"] /\ UNCHANGED failures
     \/ setup' = [setup EXCEPT !.pc = "error"] /\ Fail
  /\ UNCHANGED <<routes, started, errors, cbs, monitors, made>> /\ setupFrame

SetupRegisters ==
  /\ SetupAt("register") /\ ~arMutex
  /\ made' = made + 1
  /\ monitors' = monitors \cup {made'}
  /\ cbs' = [cbs EXCEPT ![setup.fam] = made']
  /\ setup' = [setup EXCEPT !.pc = "addresses"]
  /\ UNCHANGED <<routes, started, errors, failures>> /\ setupFrame

(* configureInterface can fail before or after the routes are set. *)
SetupConfigures ==
  /\ SetupAt("addresses")
  /\ \/ /\ routes' = routes \cup {setup.fam}
        /\ setup' = [setup EXCEPT !.pc = "started"]
        /\ UNCHANGED failures
     \/ /\ Fail
        /\ \/ routes' = routes \cup {setup.fam}
           \/ UNCHANGED routes
        /\ setup' = [setup EXCEPT !.pc = "error"]
  /\ UNCHANGED <<started, errors, cbs, monitors, made>> /\ setupFrame

SetupSends ==
  /\ \/ SetupAt("started") /\ started < StartedSize /\ started' = started + 1 /\ UNCHANGED errors
     \/ SetupAt("error") /\ errors < ErrorsSize /\ errors' = errors + 1 /\ UNCHANGED started
  /\ setup' = [setup EXCEPT !.pc = "done"]
  /\ UNCHANGED <<routes, cbs, monitors, made, failures>> /\ setupFrame

SetupReturnsToMain ==
  /\ SetupAt("done") /\ holder = Main
  /\ setup' = NoSetup
  /\ UNCHANGED <<routes, started, errors, cbs, monitors, made, failures>> /\ setupFrame

SetupSteps == SetupUnregisters \/ SetupReadsMtu \/ SetupRegisters \/ SetupConfigures
              \/ SetupSends \/ SetupReturnsToMain

-----------------------------------------------------------------------------
(***************************************************************************)
(* The goroutine of a notification.                                        *)
(***************************************************************************)
threadFrame == UNCHANGED <<pc, state, complete, stop, mtuAuto, adapter, firewall, routes, appeared, reg,
                           luid, cbs, old, monitors, made, arMutex, started, errors, unflushed>>

(* Before Configure the notification is kept. *)
CallbackStores(e) ==
  /\ thread[e].pc = "lock" /\ holder = Nobody /\ ~luid
  /\ stored' = Append(stored, thread[e].fam)
  /\ thread' = [thread EXCEPT ![e].pc = "done"]
  /\ UNCHANGED <<up, holder, setup, watchdog, failures>> /\ threadFrame

CallbackSetsUp(e) ==
  /\ thread[e].pc = "lock" /\ holder = Nobody /\ luid
  /\ holder' = e
  /\ SetUp(thread[e].fam)
  /\ thread' = [thread EXCEPT ![e].pc = "setup"]
  /\ UNCHANGED <<up, stored, failures>> /\ threadFrame

(* An adapter that is down is configured and brought up again. *)
CallbackReturns(e) ==
  /\ holder = e /\ SetupAt("done")
  /\ \/ up' = TRUE /\ UNCHANGED failures
     \/ ~up /\ Fail /\ UNCHANGED up
  /\ holder' = Nobody /\ setup' = NoSetup
  /\ thread' = [thread EXCEPT ![e].pc = "done"]
  /\ UNCHANGED <<stored, watchdog>> /\ threadFrame

CallbackSteps(e) == CallbackStores(e) \/ CallbackSetsUp(e) \/ CallbackReturns(e)

Live(e) == thread[e].pc \in {"lock", "setup"}

(* One minute without an interface; Configure itself takes less. *)
WatchdogFires ==
  /\ \/ watchdog = "armed" /\ pc # "stored" /\ watchdog' = "fired" /\ UNCHANGED errors
     \/ /\ watchdog = "fired" /\ errors < ErrorsSize
        /\ watchdog' = "stopped" /\ errors' = errors + 1
  /\ UNCHANGED <<pc, state, complete, stop, mtuAuto, networkVars, reg, luid, stored, thread, holder, setup,
                 cbs, old, monitors, made, arMutex, started, failures>>

-----------------------------------------------------------------------------
(***************************************************************************)
(* The loop of Execute.                                                    *)
(***************************************************************************)
LoopStarted ==
  /\ pc = "loop" /\ started > 0
  /\ started' = started - 1
  /\ state' = "running" /\ complete' = TRUE
  /\ UNCHANGED <<pc, stop, mtuAuto, networkVars, reg, luid, stored, thread, holder, setup, cbs,
                 old, monitors, made, arMutex, errors, watchdog, failures>>

LoopEnds ==
  /\ pc = "loop"
  /\ \/ stop /\ UNCHANGED errors
     \/ errors > 0 /\ errors' = errors - 1
  /\ pc' = Defer /\ state' = "stoppending"
  /\ UNCHANGED <<complete, stop, mtuAuto, networkVars, reg, luid, stored, thread, holder, setup, cbs, old,
                 monitors, made, arMutex, started, watchdog, failures>>

-----------------------------------------------------------------------------
(***************************************************************************)
(* Destroy, called by the deferred function.                               *)
(***************************************************************************)
destroyFrame == UNCHANGED <<state, complete, stop, mtuAuto, adapter, up, appeared, luid, stored, thread,
                            setup, made, started, errors, failures, unflushed>>

DestroyCopies ==
  /\ pc = "copy" /\ holder = Nobody
  /\ old' = cbs
  /\ watchdog' = IF watchdog = "armed" THEN "stopped" ELSE watchdog
  /\ pc' = "unregister"
  /\ UNCHANGED <<firewall, routes, reg, holder, cbs, monitors, arMutex>> /\ destroyFrame

(* Mutant: the firewall is disabled before the interface is flushed. *)
DestroyUnprotects ==
  /\ pc = "unregister"
  /\ reg' = FALSE /\ arMutex' = TRUE /\ firewall' = FALSE
  /\ pc' = "wait"
  /\ UNCHANGED <<routes, holder, cbs, old, monitors, watchdog>> /\ destroyFrame

(* Unregister holds its mutex until the goroutines have returned. *)
DestroyUnregisters ==
  /\ pc = "unregister"
  /\ reg' = FALSE /\ arMutex' = TRUE
  /\ pc' = "wait"
  /\ UNCHANGED <<firewall, routes, holder, cbs, old, monitors, watchdog>> /\ destroyFrame

DestroyWaits ==
  /\ pc = "wait" /\ \A e \in Events : ~Live(e)
  /\ arMutex' = FALSE
  /\ pc' = "monitors"
  /\ UNCHANGED <<firewall, routes, reg, holder, cbs, old, monitors, watchdog>> /\ destroyFrame

DestroyUnregistersMonitors ==
  /\ pc = "monitors"
  /\ monitors' = monitors \ {old[f] : f \in Families}
  /\ pc' = "flush"
  /\ UNCHANGED <<firewall, routes, reg, holder, cbs, old, arMutex, watchdog>> /\ destroyFrame

(* As many callbacks are forgotten as were unregistered.  Errors of the    *)
(* Flush calls are dropped: a family keeps what could not be removed.      *)
DestroyFlushes ==
  /\ pc = "flush" /\ holder = Nobody
  /\ holder' = Main
  /\ cbs' = [f \in Families |-> IF old[f] # 0 THEN 0 ELSE cbs[f]]
  /\ \/ /\ routes' = IF luid THEN {} ELSE routes
        /\ UNCHANGED <<unflushed, failures>>
     \/ /\ luid /\ Fail
        /\ unflushed' \in SUBSET routes /\ routes' = unflushed'
  /\ pc' = "disable"
  /\ UNCHANGED <<state, complete, stop, mtuAuto, adapter, up, firewall, appeared, reg, luid, stored, thread,
                 setup, old, monitors, made, arMutex, started, errors, watchdog>>

DestroyDisables ==
  /\ pc = "disable"
  /\ firewall' = FALSE
  /\ holder' = Nobody
  /\ pc' = "close"
  /\ UNCHANGED <<routes, reg, cbs, old, monitors, arMutex, watchdog>> /\ destroyFrame

(* The adapter is closed and the process ends. *)
Closes ==
  /\ pc = "close"
  /\ adapter' = FALSE /\ up' = FALSE
  /\ state' = "stopped"
  /\ pc' = "end"
  /\ UNCHANGED <<complete, stop, mtuAuto, firewall, routes, appeared, unflushed, watcherVars, failures>>

(* The holder of setupMutex waits for what only the main thread can give. *)
Deadlocked ==
  /\ holder \in Events
  /\ \/ pc = "wait" /\ ((SetupAt("unregister") /\ cbs[setup.fam] # 0) \/ SetupAt("register"))
     \/ /\ pc \in {"copy", "wait", "flush"}
        /\ \/ SetupAt("started") /\ started = StartedSize
           \/ SetupAt("error") /\ errors = ErrorsSize

(* After 30 seconds the process kills itself. *)
Killed ==
  /\ Deadlocked
  /\ pc' = "killed" /\ state' = "stopped"
  /\ adapter' = FALSE /\ up' = FALSE /\ firewall' = FALSE
  /\ reg' = FALSE /\ monitors' = {} /\ arMutex' = FALSE
  /\ thread' = [e \in Events |-> [thread[e] EXCEPT !.pc = "done"]]
  /\ holder' = Nobody /\ setup' = NoSetup /\ watchdog' = "stopped"
  /\ UNCHANGED <<complete, stop, mtuAuto, routes, appeared, luid, stored, cbs, old, made, started, errors,
                 failures, unflushed>>

-----------------------------------------------------------------------------
(***************************************************************************)
(* Windows: the interface appears, possibly again, then without routes and *)
(* with the adapter down; the service control manager asks for a stop.     *)
(***************************************************************************)
InterfaceAppears(e, f) ==
  /\ adapter /\ pc \notin {"end", "killed"}
  /\ thread[e].pc = "none" /\ \A d \in Events : d < e => thread[d].pc # "none"
  /\ appeared' = appeared \cup {f}
  /\ up' = (up /\ f \notin appeared)
  /\ routes' = routes \ {f}
  /\ thread' = [thread EXCEPT ![e] = [pc |-> IF reg THEN "lock" ELSE "done", fam |-> f]]
  /\ UNCHANGED <<pc, state, complete, stop, mtuAuto, adapter, firewall, reg, luid, stored, holder,
                 setup, cbs, old, monitors, made, arMutex, started, errors, watchdog, failures, unflushed>>

StopRequested ==
  /\ pc = "loop" /\ ~stop
  /\ stop' = TRUE
  /\ UNCHANGED <<pc, state, complete, mtuAuto, networkVars, watcherVars, failures>>

-----------------------------------------------------------------------------
StartSteps == LoadsConfig \/ watchInterface \/ ResolvesEndpoints \/ CreatesAdapter \/ Prepares
              \/ EnablesFirewall \/ BringsUp \/ Configures \/ ConfiguresStored
              \/ ConfigureReturns \/ AcceptsStop

EndSteps == LoopEnds \/ DestroyCopies \/ DestroyUnregisters \/ DestroyWaits
            \/ DestroyUnregistersMonitors \/ DestroyFlushes \/ DestroyDisables \/ Closes \/ Killed

Next ==
  \/ StartSteps \/ StepFails \/ LoopStarted \/ EndSteps
  \/ SetupSteps \/ WatchdogFires
  \/ \E e \in Events : CallbackSteps(e) \/ \E f \in Families : InterfaceAppears(e, f)
  \/ StopRequested

(* Goroutines are scheduled, timers fire, and select picks every ready case. *)
Fairness ==
  /\ WF_vars(StartSteps) /\ WF_vars(LoopStarted) /\ WF_vars(EndSteps)
  /\ WF_vars(SetupSteps) /\ WF_vars(WatchdogFires)
  /\ \A e \in Events : WF_vars(CallbackSteps(e))

Spec == Init /\ [][Next]_vars
FairSpec == Spec /\ Fairness

-----------------------------------------------------------------------------
TypeOK ==
  /\ state \in {"startpending", "running", "stoppending", "stopped"}
  /\ {complete, stop, mtuAuto, adapter, up, firewall, reg, luid, arMutex} \subseteq BOOLEAN
  /\ routes \subseteq Families /\ appeared \subseteq Families /\ unflushed \subseteq Families
  /\ stored \in Seq(Families)
  /\ holder \in Events \cup {Main, Nobody}
  /\ setup.fam \in Families \cup {NoFamily}
  /\ cbs \in [Families -> Nat] /\ old \in [Families -> Nat]
  /\ monitors \subseteq Nat
  /\ started \in 0 .. StartedSize /\ errors \in 0 .. ErrorsSize

(***************************************************************************)
(* As long as the interface carries addresses and routes the firewall is   *)
(* on: it is enabled before any setup can run and disabled only after the  *)
(* last one, whichever goroutines were on their way                        *)
(* (service.go:210-239, interfacewatcher.go:148-190).  A family that could *)
(* not be flushed is without it: nobody looks at the errors of the calls.  *)
(***************************************************************************)
FirewallCoversRoutes == adapter /\ ~(routes \subseteq unflushed) => firewall

(***************************************************************************)
(* The deferred function closes an adapter without routes, also when the   *)
(* interface appeared while it was ending, but for the families whose      *)
(* flush has failed.                                                       *)
(***************************************************************************)
ClosesEmpty == pc = "close" => routes \subseteq unflushed

(***************************************************************************)
(* No appearance of the interface is lost, before, during or after         *)
(* Configure: when the goroutines are done and nothing failed, every       *)
(* family that appeared, also one that appeared again, is configured.      *)
(***************************************************************************)
NothingMissed ==
  pc = "loop" /\ failures = 0 /\ (\A e \in Events : ~Live(e)) => routes = appeared

(***************************************************************************)
(* The service comes up or ends, also if the interface never appears,      *)
(* unless it was told to stop.                                             *)
(***************************************************************************)
StartEnds == []<>(stop \/ (complete /\ state = "running") \/ state = "stopped")

(***************************************************************************)
(* A stop that Execute accepted ends the service, even out of a deadlock   *)
(* of the watcher: the one-minute watchdog ends the process.               *)
(***************************************************************************)
StopEnds == []<>(stop => state = "stopped")

(***************************************************************************)
(* Nothing is left on an interface that is destroyed                       *)
(* (interfacewatcher.go:180).                                              *)
(***************************************************************************)
FlushedBeforeDestroyed == ~adapter => routes = {}

(* From start to exit: Destroy leaves nothing behind, no appearance of the *)
(* interface is missed, and the firewall outlives the routes.              *)
ServiceSafe == TypeOK /\ ClosesEmpty /\ NothingMissed /\ FirewallCoversRoutes
=============================================================================
