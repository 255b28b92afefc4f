---------------------------- MODULE TunnelProofs ----------------------------
(***************************************************************************)
(* The process of a tunnel: Execute, the watcher of its interface and the  *)
(* goroutines of the notifications (TunnelService).                        *)
(*                                                                         *)
(* The order of Execute is an invariant of three parts: who may run setup  *)
(* (SetupFits), what is switched on by then (PhaseFits), and which         *)
(* appearances of the interface are still on their way (OnItsWay).         *)
(*                                                                         *)
(* And the two files it leaves for the app (RuntimeFiles): tunnel.metrics  *)
(* begins with the new snapshot before the rest of the old one is cut off. *)
(*                                                                         *)
(* And what it does to the network stack next to the MTU monitor           *)
(* (NetConfig): each reads the row of the interface and writes it back.    *)
(***************************************************************************)
EXTENDS TunnelService, RuntimeFiles, NetConfig, TLAPS

ThreadPcs == {"none", "lock", "setup", "done"}
Threads == [pc : ThreadPcs, fam : Families \cup {NoFamily}]
SetupPcs == {"unregister", "mtu", "register", "addresses", "started", "error", "done"}
Setups == [pc : SetupPcs, fam : Families]

(* Execute up to Configure, the part of it that can be stopped, and the    *)
(* steps of the deferred function.                                         *)
Starting == {"load", "watch", "resolve", "adapter", "prepare", "firewall", "device", "configure"}
Running == {"stored", "postup", "loop"}
Ending == {"copy", "unregister", "wait", "monitors", "flush", "disable"}
Ended == {"close", "end", "killed"}

Numbers == {failures, made, started, errors} \subseteq Nat

ServiceTypeInv ==
  /\ TypeOK /\ Numbers
  /\ pc \in Starting \cup Running \cup Ending \cup Ended
  /\ thread \in [Events -> Threads]
  /\ setup = NoSetup \/ setup \in Setups

(* setup runs only in the hands of the holder of setupMutex.               *)
SetupFits ==
  /\ setup # NoSetup => holder # Nobody /\ luid
  /\ \A e \in Events : thread[e].pc = "setup" <=> holder = e
  /\ holder \in Events => setup # NoSetup
  /\ holder = Main <=> pc \in {"stored", "disable"}
  /\ pc = "disable" => setup = NoSetup

(* What is switched on at each step.  A notification finds its callback    *)
(* unregistered when Destroy has waited for the goroutines.                *)
PhaseFits ==
  /\ reg <=> pc \in ((Starting \cup Running) \ {"load", "watch"}) \cup {"copy", "unregister"}
  /\ ~reg /\ pc # "wait" => \A e \in Events : ~Live(e)
  /\ adapter => pc \notin {"load", "watch", "resolve", "adapter", "end", "killed"}
  /\ pc \in Starting => ~luid
  /\ pc \in Running => luid
  /\ pc \in {"device", "configure"} \/ (luid /\ pc \notin Ended) => firewall
  /\ routes # {} => luid
  /\ pc \in {"disable", "close", "end"} => routes \subseteq unflushed

(* A family that has appeared is configured, or its notification is still  *)
(* to be handled.                                                          *)
Stored(f) == \E i \in 1 .. Len(stored) : stored[i] = f
Waiting(f) == \E e \in Events : thread[e].pc = "lock" /\ thread[e].fam = f
BeingSetUp(f) == setup.fam = f /\ setup.pc \in {"unregister", "mtu", "register", "addresses"}
OnItsWay(f) == f \in routes \/ Stored(f) \/ Waiting(f) \/ BeingSetUp(f)

AppearancesKept ==
  /\ routes \subseteq appeared
  /\ setup # NoSetup => setup.fam \in appeared
  /\ \A i \in 1 .. Len(stored) : stored[i] \in appeared
  /\ \A e \in Events : Live(e) => thread[e].fam \in appeared
  /\ pc \in {"postup", "loop"} => stored = <<>>
  /\ failures = 0 /\ pc \in Starting \cup Running => \A f \in appeared : OnItsWay(f)

TunnelInv == ServiceTypeInv /\ SetupFits /\ PhaseFits /\ AppearancesKept
-----------------------------------------------------------------------------
(* At first nothing is switched on and nothing has appeared.               *)
LEMMA TunnelInit == Init => TunnelInv
<1> SUFFICES ASSUME Init PROVE TunnelInv
  OBVIOUS
<1>a. TypeOK
  <2>1. {complete, stop, mtuAuto, adapter, up, firewall, reg, luid, arMutex} \subseteq BOOLEAN
    BY DEF Init
  <2>2. stored \in Seq(Families) /\ cbs \in [Families -> Nat] /\ old \in [Families -> Nat]
    BY DEF Init
  <2>3. started \in 0 .. StartedSize /\ errors \in 0 .. ErrorsSize
    BY SizeAssumption DEF Init
  <2> QED  BY <2>1, <2>2, <2>3 DEF Init, TypeOK, NoSetup
<1>b. thread \in [Events -> Threads]
  BY DEF Init, Threads, ThreadPcs, NoSetup
<1>1. ServiceTypeInv
  BY <1>a, <1>b DEF Init, ServiceTypeInv, Numbers, Starting
<1>2. SetupFits
  BY EventsAssumption DEF Init, SetupFits, NoSetup, Nobody, Main
<1>3. PhaseFits
  BY DEF Init, PhaseFits, Starting, Running, Ended, Live, NoSetup
<1>4. AppearancesKept
  BY DEF Init, AppearancesKept, Live, NoSetup
<1> QED  BY <1>1, <1>2, <1>3, <1>4 DEF TunnelInv

(* The steps of Execute that concern no notification. *)
QuietSteps ==
  LoadsConfig \/ watchInterface \/ ResolvesEndpoints \/ CreatesAdapter \/ Prepares \/ EnablesFirewall
  \/ BringsUp \/ ConfigureReturns \/ AcceptsStop \/ StepFails \/ LoopStarted \/ LoopEnds
  \/ DestroyCopies \/ DestroyUnregisters \/ DestroyWaits \/ DestroyUnregistersMonitors \/ DestroyDisables
  \/ Closes \/ WatchdogFires \/ StopRequested

LEMMA QuietStep == TunnelInv /\ QuietSteps => TunnelInv'
<1> SUFFICES ASSUME TunnelInv, QuietSteps PROVE TunnelInv'
  OBVIOUS
<1> USE DEF Starting, Running, Ending, Ended
<1>1. UNCHANGED <<routes, appeared, luid, stored, thread, setup, unflushed>>
  BY DEF QuietSteps, LoadsConfig, watchInterface, ResolvesEndpoints, CreatesAdapter, Prepares,
         EnablesFirewall, BringsUp, ConfigureReturns, AcceptsStop, StepFails, LoopStarted, LoopEnds,
         DestroyCopies, DestroyUnregisters, DestroyWaits, DestroyUnregistersMonitors,
             DestroyDisables,
         Closes, WatchdogFires, StopRequested, Runs, Begins, networkVars, watcherVars, destroyFrame
<1>2. failures' \in {failures, failures + 1}
  BY DEF QuietSteps, LoadsConfig, watchInterface, ResolvesEndpoints, CreatesAdapter, Prepares,
         EnablesFirewall, BringsUp, ConfigureReturns, AcceptsStop, StepFails, LoopStarted, LoopEnds,
         DestroyCopies, DestroyUnregisters, DestroyWaits, DestroyUnregistersMonitors,
             DestroyDisables,
         Closes, WatchdogFires, StopRequested, Runs, Begins, networkVars, watcherVars,
             destroyFrame, Fail
<1>3. ServiceTypeInv'
  <2> USE DEF QuietSteps, LoadsConfig, watchInterface, ResolvesEndpoints, CreatesAdapter, Prepares,
          EnablesFirewall, BringsUp, ConfigureReturns, AcceptsStop, StepFails, LoopStarted,
              LoopEnds,
          DestroyCopies, DestroyUnregisters, DestroyWaits, DestroyUnregistersMonitors,
              DestroyDisables,
          Closes, WatchdogFires, StopRequested, Runs, Begins, networkVars, watcherVars, destroyFrame
  <2>1. {complete, stop, mtuAuto, adapter, up, firewall, reg, luid, arMutex}' \subseteq BOOLEAN
    BY <1>1 DEF TunnelInv, ServiceTypeInv, TypeOK
  <2>2. state' \in {"startpending", "running", "stoppending", "stopped"}
    BY DEF TunnelInv, ServiceTypeInv, TypeOK
  <2>3. holder' \in Events \cup {Main, Nobody}
    BY DEF TunnelInv, ServiceTypeInv, TypeOK
  <2>4. cbs' = cbs /\ old' \in {old, cbs} /\ monitors' \subseteq monitors /\ made' = made
    OBVIOUS
  <2>5. started' \in 0 .. StartedSize /\ errors' \in 0 .. ErrorsSize
    BY SizeAssumption DEF TunnelInv, ServiceTypeInv, TypeOK
  <2>6. pc' \in Starting \cup Running \cup Ending \cup Ended
    BY DEF Defer, TunnelInv, ServiceTypeInv
  <2>7. TypeOK'
    BY <1>1, <2>1, <2>2, <2>3, <2>4, <2>5 DEF TunnelInv, ServiceTypeInv, TypeOK
  <2>8. Numbers'
    BY <1>2, <2>4, <2>5, SizeAssumption DEF TunnelInv, ServiceTypeInv, Numbers
  <2> QED  BY <1>1, <2>6, <2>7, <2>8 DEF TunnelInv, ServiceTypeInv
<1>4. SetupFits'
  BY <1>1, EventsAssumption
     DEF TunnelInv, SetupFits, Main, Nobody,
         QuietSteps, LoadsConfig, watchInterface, ResolvesEndpoints, CreatesAdapter, Prepares,
         EnablesFirewall, BringsUp, ConfigureReturns, AcceptsStop, StepFails, LoopStarted, LoopEnds,
         DestroyCopies, DestroyUnregisters, DestroyWaits, DestroyUnregistersMonitors,
             DestroyDisables,
         Closes, WatchdogFires, StopRequested, Runs, Begins, networkVars, watcherVars,
             destroyFrame, Defer
<1>5. PhaseFits'
  BY <1>1
     DEF TunnelInv, PhaseFits, Live,
         QuietSteps, LoadsConfig, watchInterface, ResolvesEndpoints, CreatesAdapter, Prepares,
         EnablesFirewall, BringsUp, ConfigureReturns, AcceptsStop, StepFails, LoopStarted, LoopEnds,
         DestroyCopies, DestroyUnregisters, DestroyWaits, DestroyUnregistersMonitors,
             DestroyDisables,
         Closes, WatchdogFires, StopRequested, Runs, Begins, networkVars, watcherVars,
             destroyFrame, Defer
<1>6. /\ pc' \in Starting \cup Running => pc \in Starting \cup Running
      /\ pc' \in {"postup", "loop"} => pc \in {"postup", "loop"} \/ stored = <<>>
  BY DEF QuietSteps, LoadsConfig, watchInterface, ResolvesEndpoints, CreatesAdapter, Prepares,
         EnablesFirewall, BringsUp, ConfigureReturns, AcceptsStop, StepFails, LoopStarted, LoopEnds,
         DestroyCopies, DestroyUnregisters, DestroyWaits, DestroyUnregistersMonitors,
             DestroyDisables,
         Closes, WatchdogFires, StopRequested, Runs, Begins, networkVars, watcherVars,
             destroyFrame, Defer
<1>7. AppearancesKept'
  BY <1>1, <1>2, <1>6
     DEF TunnelInv, ServiceTypeInv, Numbers, AppearancesKept, OnItsWay, Stored, Waiting,
         BeingSetUp, Live
<1> QED  BY <1>3, <1>4, <1>5, <1>7 DEF TunnelInv

(* Configure takes setupMutex before any setup, with the firewall on.      *)
LEMMA ConfigureKeeps == TunnelInv /\ Configures => TunnelInv'
<1> SUFFICES ASSUME TunnelInv, Configures PROVE TunnelInv'
  OBVIOUS
<1> USE DEF Configures, Runs, Begins, networkVars, TunnelInv
<1>1. ServiceTypeInv'
  BY DEF ServiceTypeInv, TypeOK, Numbers, Running
<1>2. SetupFits'
  BY EventsAssumption DEF SetupFits, Main, Nobody
<1>3. PhaseFits'
  BY DEF PhaseFits, Live, Starting, Running, Ended
<1>4. AppearancesKept'
  BY DEF AppearancesKept, OnItsWay, Stored, Waiting, BeingSetUp, Live, Starting, Running
<1> QED  BY <1>1, <1>2, <1>3, <1>4

(* A stored notification is set up: its family is on its way all the time. *)
LEMMA StoredStep == TunnelInv /\ ConfiguresStored => TunnelInv'
<1> SUFFICES ASSUME TunnelInv, ConfiguresStored PROVE TunnelInv'
  OBVIOUS
<1>1.
        /\ UNCHANGED <<pc, complete, stop, mtuAuto, failures, state, networkVars, reg, luid,
           thread, holder, cbs,
                     old, monitors, made, arMutex, started, errors>>
      /\ pc = "stored" /\ setup = NoSetup
      /\ setup' = [pc |-> "unregister", fam |-> Head(stored)]
  BY DEF ConfiguresStored, Runs, Begins, SetUp
<1>2. /\ stored' \in Seq(Families) /\ Len(stored) = Len(stored') + 1
      /\ Head(stored) = stored[1] /\ Head(stored) \in Families
      /\ \A i \in 1 .. Len(stored') : stored'[i] = stored[i + 1]
  BY DEF ConfiguresStored, TunnelInv, ServiceTypeInv, TypeOK
<1>3. Len(stored') \in Nat
  BY <1>2
<1>4. ServiceTypeInv'
  BY <1>1, <1>2 DEF TunnelInv, ServiceTypeInv, TypeOK, Numbers, networkVars, Setups, SetupPcs
<1>5. SetupFits'
  BY <1>1, EventsAssumption
     DEF TunnelInv, SetupFits, PhaseFits, NoSetup, Main, Nobody, Starting, Running
<1>6. PhaseFits'
  BY <1>1 DEF TunnelInv, PhaseFits, Live, networkVars
<1>7. \A f \in appeared : OnItsWay(f) => OnItsWay(f)'
  <2> SUFFICES ASSUME NEW f \in appeared, OnItsWay(f) PROVE OnItsWay(f)'
    OBVIOUS
  <2>1. CASE f \in routes
    BY <1>1, <2>1 DEF OnItsWay, networkVars
  <2>2. CASE Waiting(f)
    BY <1>1, <2>2 DEF OnItsWay, Waiting
  <2>3. CASE Stored(f)
    <3>1. PICK i \in 1 .. Len(stored) : stored[i] = f
      BY <2>3 DEF Stored
    <3>2. CASE i = 1
      BY <1>1, <1>2, <3>1, <3>2 DEF OnItsWay, BeingSetUp
    <3>3. CASE i # 1
      <4>1. i - 1 \in 1 .. Len(stored') /\ stored'[i - 1] = f
        BY <1>2, <1>3, <3>1, <3>3
      <4> QED  BY <4>1 DEF OnItsWay, Stored
    <3> QED  BY <3>2, <3>3
  <2> QED  BY <1>1, <2>1, <2>2, <2>3 DEF OnItsWay, BeingSetUp, NoSetup
<1>8. \A i \in 1 .. Len(stored') : stored'[i] \in appeared
  BY <1>2, <1>3 DEF TunnelInv, AppearancesKept
<1>9. AppearancesKept'
  BY <1>1, <1>2, <1>3, <1>7, <1>8 DEF TunnelInv, AppearancesKept, Live, networkVars
<1> QED  BY <1>4, <1>5, <1>6, <1>9 DEF TunnelInv

(* A step of setup: the family it sets up appears among the routes at last *)
(* or something has failed.                                                *)
LEMMA SetupStep == TunnelInv /\ SetupSteps => TunnelInv'
<1> SUFFICES ASSUME TunnelInv, SetupSteps PROVE TunnelInv'
  OBVIOUS
<1>1. setupFrame
  BY DEF SetupSteps, SetupUnregisters, SetupReadsMtu, SetupRegisters, SetupConfigures, SetupSends,
         SetupReturnsToMain
<1>2. setup \in Setups /\ setup # NoSetup
  BY DEF SetupSteps, SetupUnregisters, SetupReadsMtu, SetupRegisters, SetupConfigures, SetupSends,
         SetupReturnsToMain, SetupAt, NoSetup, TunnelInv, ServiceTypeInv
<1>3. failures' \in {failures, failures + 1}
  BY DEF SetupSteps, SetupUnregisters, SetupReadsMtu, SetupRegisters, SetupConfigures, SetupSends,
         SetupReturnsToMain, Fail
<1>4. \/ setup' \in Setups /\ setup'.fam = setup.fam
      \/ setup' = NoSetup /\ setup.pc = "done" /\ holder = Main
  BY <1>2 DEF SetupSteps, SetupUnregisters, SetupReadsMtu, SetupRegisters, SetupConfigures,
      SetupSends,
              SetupReturnsToMain, SetupAt, Setups, SetupPcs
<1>5. routes' \in {routes, routes \cup {setup.fam}}
  BY DEF SetupSteps, SetupUnregisters, SetupReadsMtu, SetupRegisters, SetupConfigures, SetupSends,
         SetupReturnsToMain
<1>6. \A f : BeingSetUp(f) => BeingSetUp(f)' \/ f \in routes' \/ failures' = failures + 1
  BY <1>2
     DEF BeingSetUp, SetupSteps, SetupUnregisters, SetupReadsMtu, SetupRegisters,
         SetupConfigures, SetupSends,
         SetupReturnsToMain, SetupAt, Setups, SetupPcs, Fail
<1>7. cbs' \in [Families -> Nat] /\ monitors' \in SUBSET Nat /\ made' \in Nat
  <2>1. cbs \in [Families -> Nat] /\ monitors \in SUBSET Nat /\ made \in Nat /\ setup.fam \in Families
    BY <1>2 DEF Setups, TunnelInv, ServiceTypeInv, TypeOK, Numbers
  <2>2. CASE SetupUnregisters
    BY <2>1, <2>2 DEF SetupUnregisters
  <2>3. CASE SetupRegisters
    BY <2>1, <2>3 DEF SetupRegisters
  <2>4. CASE SetupReadsMtu \/ SetupConfigures \/ SetupSends \/ SetupReturnsToMain
    BY <2>1, <2>4 DEF SetupReadsMtu, SetupConfigures, SetupSends, SetupReturnsToMain
  <2> QED  BY <2>2, <2>3, <2>4 DEF SetupSteps
<1>8. started' \in 0 .. StartedSize /\ errors' \in 0 .. ErrorsSize
  BY SizeAssumption
     DEF SetupSteps, SetupUnregisters, SetupReadsMtu, SetupRegisters, SetupConfigures, SetupSends,
         SetupReturnsToMain, TunnelInv, ServiceTypeInv, TypeOK
<1>9. NoSetup \notin Setups
  BY DEF NoSetup, Setups, SetupPcs
<1>10. TypeOK'
  BY <1>1, <1>2, <1>4, <1>5, <1>7, <1>8
     DEF TunnelInv, ServiceTypeInv, TypeOK, setupFrame, Setups, NoSetup
<1>11. ServiceTypeInv'
  BY <1>1, <1>3, <1>4, <1>7, <1>8, <1>10, SizeAssumption
     DEF TunnelInv, ServiceTypeInv, Numbers, setupFrame
<1>12. SetupFits'
  BY <1>1, <1>2, <1>4, <1>9, EventsAssumption
     DEF TunnelInv, SetupFits, setupFrame, Main, Nobody
<1>13. pc \notin {"disable", "close", "end"}
  BY <1>2, EventsAssumption
     DEF TunnelInv, SetupFits, PhaseFits, ServiceTypeInv, TypeOK, Live, Main, Nobody,
         Starting, Running
<1>14. PhaseFits'
  BY <1>1, <1>2, <1>5, <1>13 DEF TunnelInv, SetupFits, PhaseFits, Live, setupFrame
<1>15. failures' = 0 => \A f \in appeared : OnItsWay(f) => OnItsWay(f)'
  <2> SUFFICES ASSUME failures' = 0, NEW f \in appeared, OnItsWay(f) PROVE OnItsWay(f)'
    OBVIOUS
  <2>1. failures \in Nat /\ failures' # failures + 1
    BY DEF TunnelInv, ServiceTypeInv, Numbers
  <2>2. CASE BeingSetUp(f)
    BY <1>6, <2>1, <2>2 DEF OnItsWay
  <2>3. CASE f \in routes \/ Stored(f) \/ Waiting(f)
    BY <1>1, <1>5, <2>3 DEF setupFrame, OnItsWay, Stored, Waiting
  <2> QED  BY <2>2, <2>3 DEF OnItsWay
<1>16. AppearancesKept'
  BY <1>1, <1>2, <1>3, <1>4, <1>5, <1>15
     DEF TunnelInv, ServiceTypeInv, Numbers, AppearancesKept, setupFrame, Live
<1> QED  BY <1>11, <1>12, <1>14, <1>16 DEF TunnelInv

(* The goroutine of a notification goes on. *)
LEMMA ThreadMoves ==
  ASSUME thread \in [Events -> Threads], NEW e \in Events, NEW p \in ThreadPcs,
         thread' = [thread EXCEPT ![e].pc = p]
  PROVE  /\ thread' \in [Events -> Threads]
         /\ thread'[e].pc = p /\ thread'[e].fam = thread[e].fam
         /\ \A d \in Events : d # e => thread'[d] = thread[d]
<1>1. thread[e] \in Threads /\ thread'[e] = [thread[e] EXCEPT !.pc = p]
  OBVIOUS
<1>2. /\ [thread[e] EXCEPT !.pc = p] \in Threads
      /\ [thread[e] EXCEPT !.pc = p].pc = p /\ [thread[e] EXCEPT !.pc = p].fam = thread[e].fam
  BY <1>1 DEF Threads
<1> QED  BY <1>1, <1>2

(* The goroutine of a notification stores it, sets it up or has done so.   *)
LEMMA CallbackStep == ASSUME TunnelInv, NEW e \in Events, CallbackSteps(e) PROVE TunnelInv'
<1>1. threadFrame
  BY DEF CallbackSteps, CallbackStores, CallbackSetsUp, CallbackReturns
<1>2. thread[e] \in Threads /\ Live(e) /\ e \in Nat \ {0}
  BY EventsAssumption
     DEF CallbackSteps, CallbackStores, CallbackSetsUp, CallbackReturns, TunnelInv,
         ServiceTypeInv, SetupFits,
         Live
<1>3. pc \notin Starting => reg \/ pc = "wait"
  BY <1>2 DEF TunnelInv, PhaseFits, Live
<1>4. CASE CallbackStores(e)
  <2>1. /\ UNCHANGED <<up, holder, setup, watchdog, failures>>
        /\ thread[e].pc = "lock" /\ ~luid /\ thread[e].fam \in appeared \cap Families
    BY <1>2, <1>4 DEF CallbackStores, SetUp, SetupAt, Fail, TunnelInv, ServiceTypeInv, TypeOK,
        SetupFits, AppearancesKept, Live
  <2>t. /\ thread' \in [Events -> Threads]
        /\ thread'[e].pc = "done" /\ thread'[e].fam = thread[e].fam
        /\ \A d \in Events : d # e => thread'[d] = thread[d]
    BY <1>4, ThreadMoves DEF CallbackStores, TunnelInv, ServiceTypeInv, ThreadPcs
  <2>2. /\ stored' \in Seq(Families) /\ Len(stored') = Len(stored) + 1 /\ Len(stored) \in Nat
        /\ stored'[Len(stored')] = thread[e].fam
        /\ \A i \in 1 .. Len(stored) : stored'[i] = stored[i]
    BY <1>4, <2>1 DEF CallbackStores, TunnelInv, ServiceTypeInv, TypeOK, AppearancesKept
  <2>3. ServiceTypeInv'
    BY <1>1, <2>1, <2>t, <2>2, <1>2
       DEF TunnelInv, ServiceTypeInv, TypeOK, Numbers, threadFrame, Threads, ThreadPcs
  <2>4. SetupFits'
    BY <1>1, <1>2, <2>1, <2>t DEF TunnelInv, ServiceTypeInv, SetupFits, threadFrame
  <2>5. PhaseFits'
    BY <1>1, <1>2, <2>1, <2>t DEF TunnelInv, ServiceTypeInv, PhaseFits, threadFrame, Live
  <2>6. \A f \in appeared : OnItsWay(f) => OnItsWay(f)'
    <3> SUFFICES ASSUME NEW f \in appeared, OnItsWay(f) PROVE OnItsWay(f)'
      OBVIOUS
    <3>1. CASE f = thread[e].fam
      BY <2>2, <3>1 DEF OnItsWay, Stored
    <3>2. CASE Stored(f)
      BY <2>2, <3>2 DEF OnItsWay, Stored
    <3>3. CASE Waiting(f) /\ f # thread[e].fam
      BY <2>1, <2>t, <3>3 DEF OnItsWay, Waiting, TunnelInv, ServiceTypeInv
    <3> QED  BY <1>1, <2>1, <2>t, <3>1, <3>2, <3>3 DEF OnItsWay, BeingSetUp, threadFrame
  <2>7. \A i \in 1 .. Len(stored') : stored'[i] \in appeared
    BY <2>1, <2>2 DEF TunnelInv, AppearancesKept
  <2>8. AppearancesKept'
    BY <1>1, <1>2, <2>1, <2>t, <2>6, <2>7
       DEF TunnelInv, ServiceTypeInv, PhaseFits, AppearancesKept, threadFrame, Live, Running
  <2> QED  BY <2>3, <2>4, <2>5, <2>8 DEF TunnelInv
<1>5. CASE CallbackSetsUp(e)
  <2>1. /\ UNCHANGED <<up, stored, failures>>
        /\ thread[e].pc = "lock" /\ luid /\ thread[e].fam \in appeared \cap Families
             /\ holder = Nobody /\ holder' = e
        /\ setup' = [pc |-> "unregister", fam |-> thread[e].fam]
    BY <1>2, <1>5 DEF CallbackSetsUp, SetUp, SetupAt, Fail, TunnelInv, ServiceTypeInv, TypeOK,
        SetupFits, AppearancesKept, Live
  <2>t. /\ thread' \in [Events -> Threads]
        /\ thread'[e].pc = "setup" /\ thread'[e].fam = thread[e].fam
        /\ \A d \in Events : d # e => thread'[d] = thread[d]
    BY <1>5, ThreadMoves DEF CallbackSetsUp, TunnelInv, ServiceTypeInv, ThreadPcs
  <2>2. setup = NoSetup
    BY <2>1 DEF TunnelInv, SetupFits
  <2>3. ServiceTypeInv'
    BY <1>1, <2>1, <2>t, <1>2
       DEF TunnelInv, ServiceTypeInv, TypeOK, Numbers, threadFrame, Threads, ThreadPcs,
           Setups, SetupPcs,
           AppearancesKept
  <2>4. SetupFits'
    BY <1>1, <1>2, <2>1, <2>t, EventsAssumption
       DEF TunnelInv, ServiceTypeInv, SetupFits, PhaseFits, threadFrame, Main, Nobody,
           NoSetup, Live, Starting,
           Running
  <2>5. PhaseFits'
    BY <1>1, <1>2, <2>1, <2>t DEF TunnelInv, ServiceTypeInv, PhaseFits, threadFrame, Live
  <2>6. \A f \in appeared : OnItsWay(f) => OnItsWay(f)'
    BY <1>1, <2>1, <2>t, <2>2
       DEF OnItsWay, BeingSetUp, Waiting, Stored, threadFrame, NoSetup, TunnelInv, ServiceTypeInv
  <2>7. AppearancesKept'
    BY <1>1, <1>2, <2>1, <2>t, <2>6
       DEF TunnelInv, ServiceTypeInv, AppearancesKept, threadFrame, Live
  <2> QED  BY <2>3, <2>4, <2>5, <2>7 DEF TunnelInv
<1>6. CASE CallbackReturns(e)
  <2>1. /\ UNCHANGED <<stored, watchdog>>
        /\ holder = e /\ holder' = Nobody /\ setup.pc = "done" /\ setup' = NoSetup
        /\ thread[e].pc = "setup"
        /\ failures' \in {failures, failures + 1} /\ up' \in {up, TRUE}
    BY <1>2, <1>6 DEF CallbackReturns, SetUp, SetupAt, Fail, TunnelInv, ServiceTypeInv,
        TypeOK, SetupFits, AppearancesKept, Live
  <2>t. /\ thread' \in [Events -> Threads]
        /\ thread'[e].pc = "done" /\ thread'[e].fam = thread[e].fam
        /\ \A d \in Events : d # e => thread'[d] = thread[d]
    BY <1>6, ThreadMoves DEF CallbackReturns, TunnelInv, ServiceTypeInv, ThreadPcs
  <2>2. TypeOK'
    BY <1>1, <2>1, <2>t DEF TunnelInv, ServiceTypeInv, TypeOK, threadFrame, NoSetup
  <2>3. ServiceTypeInv'
    BY <1>1, <2>1, <2>t, <2>2, <1>2
       DEF TunnelInv, ServiceTypeInv, Numbers, threadFrame, Threads, ThreadPcs
  <2>4. SetupFits'
    BY <1>1, <1>2, <2>1, <2>t, EventsAssumption
       DEF TunnelInv, ServiceTypeInv, SetupFits, threadFrame, Main, Nobody
  <2>5. PhaseFits'
    BY <1>1, <1>2, <2>1, <2>t DEF TunnelInv, ServiceTypeInv, PhaseFits, threadFrame, Live
  <2>6. \A f \in appeared : OnItsWay(f) => OnItsWay(f)'
    BY <1>1, <2>1, <2>t
       DEF OnItsWay, BeingSetUp, Waiting, Stored, threadFrame, TunnelInv, ServiceTypeInv
  <2>7. AppearancesKept'
    BY <1>1, <1>2, <2>1, <2>t, <2>6
       DEF TunnelInv, ServiceTypeInv, Numbers, AppearancesKept, threadFrame, Live
  <2> QED  BY <2>3, <2>4, <2>5, <2>7 DEF TunnelInv
<1> QED  BY <1>4, <1>5, <1>6 DEF CallbackSteps

(* Destroy empties the interface when nobody can set it up any more, or    *)
(* notes what it could not remove.                                         *)
LEMMA FlushStep == TunnelInv /\ DestroyFlushes => TunnelInv'
<1> SUFFICES ASSUME TunnelInv, DestroyFlushes PROVE TunnelInv'
  OBVIOUS
<1> USE DEF DestroyFlushes, TunnelInv
<1>1. setup = NoSetup /\ routes' \subseteq unflushed' /\ routes' \subseteq routes
      /\ failures' \in {failures, failures + 1} /\ unflushed' \in {unflushed} \cup SUBSET routes
  BY DEF SetupFits, PhaseFits, Fail
<1>2. cbs' \in [Families -> Nat]
  BY DEF ServiceTypeInv, TypeOK
<1>3. ServiceTypeInv'
  BY <1>1, <1>2 DEF ServiceTypeInv, TypeOK, Numbers, Ending
<1>4. SetupFits'
  BY <1>1, EventsAssumption DEF SetupFits, Main, Nobody
<1>5. PhaseFits'
  BY <1>1 DEF PhaseFits, Live, Starting, Running, Ended
<1>6. AppearancesKept'
  BY <1>1 DEF AppearancesKept, Live, Starting, Running
<1> QED  BY <1>3, <1>4, <1>5, <1>6

(* The watchdog of Destroy ends the process and everything in it.          *)
LEMMA KillStep == TunnelInv /\ Killed => TunnelInv'
<1> SUFFICES ASSUME TunnelInv, Killed PROVE TunnelInv'
  OBVIOUS
<1> USE DEF Killed, TunnelInv
<1>1. \A e \in Events : thread'[e] \in Threads /\ thread'[e].pc = "done"
  BY DEF ServiceTypeInv, Threads, ThreadPcs
<1>2. TypeOK'
  BY DEF ServiceTypeInv, TypeOK, NoSetup
<1>3. ServiceTypeInv'
  BY <1>1, <1>2 DEF ServiceTypeInv, Numbers, Ended
<1>4. SetupFits'
  BY <1>1, EventsAssumption DEF SetupFits, Main, Nobody
<1>5. PhaseFits'
  BY <1>1 DEF PhaseFits, Live, Starting, Running, Ended
<1>6. AppearancesKept'
  BY <1>1 DEF AppearancesKept, Live, Starting, Running
<1> QED  BY <1>3, <1>4, <1>5, <1>6

(* An interface that appears has lost its routes, and its notification     *)
(* waits if there is still a callback.                                     *)
LEMMA AppearStep ==
  ASSUME TunnelInv, NEW e \in Events, NEW f \in Families, InterfaceAppears(e, f)
  PROVE  TunnelInv'
<1> DEFINE new == [pc |-> IF reg THEN "lock" ELSE "done", fam |-> f]
<1>1.
        /\ UNCHANGED <<pc, state, complete, stop, mtuAuto, adapter, firewall, reg, luid,
           stored, holder,
                     setup, cbs, old, monitors, made, arMutex, started, errors, watchdog, failures, unflushed>>
      /\ thread' = [thread EXCEPT ![e] = new] /\ thread[e].pc = "none" /\ adapter
      /\ appeared' = appeared \cup {f} /\ routes' = routes \ {f} /\ up' = (up /\ f \notin appeared)
  BY DEF InterfaceAppears
<1>2. new \in Threads /\ new.fam = f /\ new.pc = (IF reg THEN "lock" ELSE "done")
  BY DEF Threads, ThreadPcs
<1> HIDE DEF new
<1>3. thread'[e] = new /\ \A d \in Events : d # e => thread'[d] = thread[d]
  BY <1>1 DEF TunnelInv, ServiceTypeInv
<1>4. ServiceTypeInv'
  <2>1. up' \in BOOLEAN
    BY <1>1
  <2> QED  BY <1>1, <1>2, <2>1 DEF TunnelInv, ServiceTypeInv, TypeOK, Numbers
<1>5. SetupFits'
  BY <1>1, <1>2, <1>3 DEF TunnelInv, SetupFits
<1>6. PhaseFits'
  BY <1>1, <1>2, <1>3 DEF TunnelInv, PhaseFits, Live
<1>7. pc \in Starting \cup Running => reg
  BY <1>1 DEF TunnelInv, PhaseFits, Starting, Running
<1>8. \A g \in appeared : g # f /\ OnItsWay(g) => OnItsWay(g)'
  BY <1>1, <1>3 DEF OnItsWay, Stored, Waiting, BeingSetUp
<1>9. reg => OnItsWay(f)'
  BY <1>2, <1>3 DEF OnItsWay, Waiting
<1>10. AppearancesKept'
  BY <1>1, <1>2, <1>3, <1>7, <1>8, <1>9 DEF TunnelInv, AppearancesKept, Live
<1> QED  BY <1>4, <1>5, <1>6, <1>10 DEF TunnelInv

-----------------------------------------------------------------------------
LEMMA TunnelStep == TunnelInv /\ [Next]_vars => TunnelInv'
<1> SUFFICES ASSUME TunnelInv, [Next]_vars PROVE TunnelInv'
  OBVIOUS
<1>1. CASE UNCHANGED vars
  BY <1>1
     DEF vars, TunnelInv, ServiceTypeInv, TypeOK, Numbers, SetupFits, PhaseFits, Live,
         AppearancesKept,
         OnItsWay, Stored, Waiting, BeingSetUp
<1>2. CASE QuietSteps
  BY <1>2, QuietStep
<1>3. CASE Configures \/ ConfiguresStored \/ SetupSteps \/ DestroyFlushes \/ Killed
  BY <1>3, ConfigureKeeps, StoredStep, SetupStep, FlushStep, KillStep
<1>4. CASE \E e \in Events : CallbackSteps(e) \/ \E f \in Families : InterfaceAppears(e, f)
  BY <1>4, CallbackStep, AppearStep
<1> QED  BY <1>1, <1>2, <1>3, <1>4 DEF Next, StartSteps, EndSteps, QuietSteps

(* The three promises of the service follow.  In the loop setupMutex is    *)
(* free when no goroutine is left, so no family is on its way any more.    *)
LEMMA TunnelInvImplies == TunnelInv => ServiceSafe
<1> SUFFICES ASSUME TunnelInv PROVE ServiceSafe
  OBVIOUS
<1>1. TypeOK /\ ClosesEmpty
  BY DEF TunnelInv, ServiceTypeInv, PhaseFits, ClosesEmpty
<1>2. NothingMissed
  <2> SUFFICES ASSUME pc = "loop", failures = 0, \A e \in Events : ~Live(e) PROVE routes = appeared
    BY DEF NothingMissed
  <2>1. holder = Nobody
    BY DEF TunnelInv, ServiceTypeInv, TypeOK, SetupFits, Live
  <2>2. setup = NoSetup
    BY <2>1 DEF TunnelInv, SetupFits
  <2>3. stored = <<>> /\ \A f \in appeared : OnItsWay(f)
    BY DEF TunnelInv, AppearancesKept, Running
  <2>4. \A f \in appeared : f \in routes
    BY <2>2, <2>3 DEF OnItsWay, Stored, Waiting, BeingSetUp, Live, NoSetup
  <2> QED  BY <2>4 DEF TunnelInv, AppearancesKept
<1>3. FirewallCoversRoutes
  BY DEF TunnelInv, PhaseFits, FirewallCoversRoutes, Ended
<1> QED  BY <1>1, <1>2, <1>3 DEF ServiceSafe

(* From start to exit, for any number of notifications and failures: the   *)
(* adapter is closed without routes and the firewall is on while there are *)
(* routes, but for those whose flush failed, and no appearance of the      *)
(* interface is missed (service.go:180-330, interfacewatcher.go:60-190).   *)
THEOREM ServiceIsSafe == Spec => []ServiceSafe
<1>1. Spec => []TunnelInv
  BY TunnelInit, TunnelStep, PTL DEF Spec
<1> QED  BY <1>1, TunnelInvImplies, PTL
-----------------------------------------------------------------------------
(* The files of the tunnel. *)

Values == {0, Brace} \cup {ReceivedBytes(peers) : peers \in PeerBytes}
Logs == [len : Nat, size : Nat, offset : Nat, open : BOOLEAN]
Cutting == {"cuts", "lastCut"}

FilesTypeInv ==
  /\ main \in {"log", "adapter", "up", "stops", "closes", "closed", "ended"}
  /\ meter \in {"none", "samples", "writes", "waits", "lastSample", "lastWrite",
     "done"} \cup Cutting
  /\ tunnelLog \in Logs
  /\ sample \in Values /\ metrics \in Seq(Values)

(* What is counted is never less than what is written, even if a Seek      *)
(* fails behind a Truncate.                                                *)
LogFits ==
  tunnelLog.open =>
    /\ tunnelLog.len <= tunnelLog.size /\ tunnelLog.offset <= tunnelLog.size
    /\ tunnelLog.size <= MaxLog

(* The monitor runs only between the steps of service.go that start it and *)
(* wait for it.                                                            *)
MeterFits ==
  /\ tunnelUp <=> main \in {"up", "stops", "closes"}
  /\ meter \in {"none", "done"} \/ main \in {"up", "stops"}

(* A snapshot is written from the start, and cut to its length after that. *)
MetricsFit ==
  /\ meter \in Cutting =>
       Len(Payload(sample)) <= Len(metrics)
       /\ SubSeq(metrics, 1, Len(Payload(sample))) = Payload(sample)
  /\ meter \notin Cutting /\ lastWritten # -1 => metrics = Payload(lastWritten)

FilesInv == FilesTypeInv /\ LogFits /\ MeterFits /\ MetricsFit

(* A snapshot is a few bytes of its counter and the closing brace.         *)
LEMMA PayloadFacts ==
  ASSUME NEW S, NEW n \in S, Brace \in S
  PROVE  /\ Payload(n) \in Seq(S)
         /\ Len(Payload(n)) = Digits(n) + 1 /\ Digits(n) \in 1 .. 2
         /\ \A i \in 1 .. Digits(n) : Payload(n)[i] = n
         /\ Payload(n)[Digits(n) + 1] = Brace
<1> DEFINE digits == [i \in 1 .. Digits(n) |-> n]
<1>1. Digits(n) \in 1 .. 2
  BY DEF Digits
<1>2. digits \in Seq(S) /\ Len(digits) = Digits(n)
  BY <1>1
<1>3. <<Brace>> \in Seq(S) /\ Len(<<Brace>>) = 1 /\ <<Brace>>[1] = Brace
  OBVIOUS
<1>4. Payload(n) = digits \o <<Brace>>
  BY DEF Payload
<1> HIDE DEF digits
<1>5. Payload(n) \in Seq(S) /\ Len(Payload(n)) = Digits(n) + 1
  BY <1>1, <1>2, <1>3, <1>4
<1>6. \A i \in 1 .. Digits(n) : Payload(n)[i] = n
  BY <1>1, <1>2, <1>3, <1>4 DEF digits
<1>7. Payload(n)[Digits(n) + 1] = Brace
  <2>1. Payload(n)[Len(digits) + 1] = <<Brace>>[1]
    BY <1>2, <1>3, <1>4
  <2> QED  BY <1>2, <1>3, <2>1
<1> QED  BY <1>1, <1>5, <1>6, <1>7

(* The app accepts a snapshot: its only brace is its last byte.            *)
LEMMA PayloadReads == ASSUME NEW n, n # Brace PROVE Reads(Payload(n))
<1> DEFINE S == {n, Brace}
           text == Payload(n)
           I == {i \in 1 .. Len(text) : text[i] = Brace}
<1>1. n \in S /\ Brace \in S
  OBVIOUS
<1> HIDE DEF S
<1>2. PICK d \in 1 .. 2 : d = Digits(n)
  BY <1>1, PayloadFacts
<1>3. Len(text) = d + 1 /\ text[d + 1] = Brace /\ \A i \in 1 .. d : text[i] = n
  BY <1>1, <1>2, PayloadFacts
<1> HIDE DEF text
<1>4. I = {d + 1}
  BY <1>2, <1>3
<1>5. Min(I) = d + 1
  BY <1>2, <1>4 DEF Min
<1>6. SelectInSeq(text, LAMBDA b : b = Brace) = IF I # {} THEN Min(I) ELSE 0
  BY DEF SelectInSeq
<1>7. Reads(text)
  BY <1>2, <1>3, <1>4, <1>5, <1>6 DEF Reads
<1> QED  BY <1>7 DEF text

(* What is written at the start of a file is there, and can be cut off.    *)
LEMMA OverwriteFacts ==
  ASSUME NEW S, NEW file \in Seq(S), NEW text \in Seq(S)
  PROVE  /\ Overwrite(file, text) \in Seq(S)
         /\ Len(text) <= Len(Overwrite(file, text))
         /\ SubSeq(Overwrite(file, text), 1, Len(text)) = text
<1> DEFINE rest == SubSeq(file, Len(text) + 1, Len(file))
           new == text \o rest
           cut == SubSeq(new, 1, Len(text))
<1>1. rest \in Seq(S) /\ Len(text) \in Nat
  OBVIOUS
<1>2. Overwrite(file, text) = new
  BY DEF Overwrite
<1> HIDE DEF rest
<1>3. new \in Seq(S) /\ Len(new) = Len(text) + Len(rest) /\ Len(rest) \in Nat
  BY <1>1
<1>4. \A i \in 1 .. Len(text) : new[i] = text[i]
  BY <1>1
<1> HIDE DEF new
<1>5. cut \in Seq(S) /\ Len(cut) = Len(text) /\ \A i \in 1 .. Len(text) : cut[i] = new[i]
  BY <1>1, <1>3
<1>6. cut = text
  BY <1>4, <1>5
<1> QED  BY <1>1, <1>2, <1>3, <1>6

LEMMA MaxOfTwo ==
  ASSUME NEW a \in Nat, NEW b \in Nat
  PROVE  Max({a, b}) \in {a, b} /\ a <= Max({a, b}) /\ b <= Max({a, b})
BY DEF Max

LEMMA MinOfTwo ==
  ASSUME NEW a \in Nat, NEW b \in Nat
  PROVE  Min({a, b}) \in {a, b} /\ Min({a, b}) <= a /\ Min({a, b}) <= b
BY DEF Min

-----------------------------------------------------------------------------
LEMMA FilesInit == RuntimeInit => FilesInv
<1> SUFFICES ASSUME RuntimeInit PROVE FilesInv
  OBVIOUS
<1>1. FilesTypeInv
  BY RuntimeAssumption DEF RuntimeInit, FilesTypeInv, Values, Logs
<1>2. LogFits /\ MeterFits /\ MetricsFit
  BY DEF RuntimeInit, LogFits, MeterFits, MetricsFit, Cutting
<1> QED  BY <1>1, <1>2 DEF FilesInv

(* The log is opened with what it holds, if that is not too much.          *)
LEMMA OpenStep == FilesInv /\ OpensLog => FilesInv'
<1> SUFFICES ASSUME FilesInv, OpensLog PROVE FilesInv'
  OBVIOUS
<1>1. UNCHANGED <<tunnelUp, meterVars>> /\ main = "log" /\ main' = "adapter"
  BY DEF OpensLog
<1>2. tunnelLog' \in Logs /\ LogFits'
  <2>1. CASE UNCHANGED tunnelLog
    BY <2>1 DEF FilesInv, FilesTypeInv, LogFits
  <2>2. CASE tunnelLog' = [tunnelLog EXCEPT !.len = 0]
    <3>1. /\ tunnelLog' \in Logs
          /\ tunnelLog'.len = 0 /\ tunnelLog'.size = tunnelLog.size
          /\ tunnelLog'.offset = tunnelLog.offset /\ tunnelLog'.open = tunnelLog.open
      BY <2>2 DEF FilesInv, FilesTypeInv, Logs
    <3> QED  BY <3>1 DEF FilesInv, LogFits, Logs
  <2>3. CASE \E n \in Nat : /\ n <= MaxLog
                            /\ tunnelLog' = [len |-> n, size |-> n, offset |-> n, open |-> TRUE]
    BY <2>3, RuntimeAssumption DEF LogFits, Logs
  <2> QED  BY <2>1, <2>2, <2>3, RuntimeAssumption DEF OpensLog, FilesInv, FilesTypeInv, Logs
<1> QED  BY <1>1, <1>2 DEF FilesInv, FilesTypeInv, MeterFits, MetricsFit, meterVars, Cutting

(* A line is cut to what the log may hold, and empties it first if it has  *)
(* to; the counted size never falls behind the file.                       *)
LEMMA LineStep ==
  ASSUME FilesInv, NEW length \in LineLengths, LogsLine(length) PROVE FilesInv'
<1> DEFINE n == Min({length, MaxLog})
           empties == tunnelLog.size + n > MaxLog
           emptied == [tunnelLog EXCEPT !.len = 0, !.offset = 0, !.size = 0]
           ready == IF empties THEN emptied ELSE tunnelLog
<1>1. UNCHANGED <<main, tunnelUp, meterVars>> /\ tunnelLog.open
  BY DEF LogsLine
<1>2. n \in Nat /\ n <= MaxLog
  BY RuntimeAssumption, MinOfTwo
<1>3. /\ tunnelLog \in Logs
      /\ tunnelLog.len <= tunnelLog.size /\ tunnelLog.offset <= tunnelLog.size
      /\ tunnelLog.size <= MaxLog
  BY <1>1 DEF FilesInv, FilesTypeInv, LogFits
<1>4. /\ ready \in Logs
      /\ ready.len <= ready.size /\ ready.offset <= ready.size
      /\ ready.size + n <= MaxLog
  <2>1. CASE empties
    <3>1. ready \in Logs /\ ready.len = 0 /\ ready.size = 0 /\ ready.offset = 0
      BY <1>3, <2>1 DEF Logs
    <3> HIDE DEF n, ready
    <3> QED  BY <1>2, <3>1
  <2>2. CASE ~empties
    <3>1. ready = tunnelLog /\ ~(tunnelLog.size + n > MaxLog)
      BY <2>2
    <3> HIDE DEF n, ready
    <3> QED  BY <1>2, <1>3, <3>1, RuntimeAssumption DEF Logs
  <2> QED  BY <2>1, <2>2
<1>5. \/ tunnelLog' \in {tunnelLog, [tunnelLog EXCEPT !.len = 0]}
      \/ \E k \in 0 .. n : tunnelLog' = Appended(ready, k)
  BY <1>2 DEF LogsLine
<1> HIDE DEF n, ready
<1>6. tunnelLog' \in Logs /\ LogFits'
  <2>1. CASE tunnelLog' = tunnelLog
    BY <1>3, <2>1 DEF LogFits
  <2>2. CASE tunnelLog' = [tunnelLog EXCEPT !.len = 0]
    <3>1. /\ tunnelLog' \in Logs
          /\ tunnelLog'.len = 0 /\ tunnelLog'.size = tunnelLog.size
          /\ tunnelLog'.offset = tunnelLog.offset
      BY <1>3, <2>2 DEF Logs
    <3> QED  BY <1>3, <3>1 DEF Logs, LogFits
  <2>3. CASE \E k \in 0 .. n : tunnelLog' = Appended(ready, k)
    <3>1. PICK k \in 0 .. n : tunnelLog' = Appended(ready, k)
      BY <2>3
    <3>2. k \in Nat /\ k <= n /\ ready.offset + k \in Nat /\ ready.size + k \in Nat
            /\ ready.len \in Nat
      BY <1>2, <1>4 DEF Logs
    <3>3. Max({ready.len, ready.offset + k}) \in {ready.len, ready.offset + k}
      BY <3>2, MaxOfTwo
    <3>4. /\ tunnelLog' \in Logs
          /\ tunnelLog'.size = ready.size + k /\ tunnelLog'.offset = ready.offset + k
          /\ tunnelLog'.len \in {ready.len, ready.offset + k}
      BY <1>4, <3>1, <3>2, <3>3 DEF Appended, Logs
    <3> QED  BY <1>2, <1>4, <3>2, <3>4, RuntimeAssumption DEF LogFits, Logs
  <2> QED  BY <1>5, <2>1, <2>2, <2>3
<1> QED  BY <1>1, <1>6 DEF FilesInv, FilesTypeInv, MeterFits, MetricsFit, meterVars, Cutting

(* service.go starts the monitor with the adapter up and an empty file,    *)
(* and waits for it before it closes the adapter.                          *)
LEMMA ServiceFilesStep ==
  ASSUME FilesInv,
         StartsMeter \/ StopsMeter \/ MeterStopped \/ ClosesAdapter \/ ClosesLog \/ StartsAgain
  PROVE  FilesInv'
<1> USE DEF StartsMeter, StopsMeter, MeterStopped, ClosesAdapter, ClosesLog, StartsAgain, meterVars
<1>1. /\ tunnelLog' \in {tunnelLog, [tunnelLog EXCEPT !.open = FALSE]} /\ sample' = sample
      /\ \/ UNCHANGED <<metrics, lastWritten>>
         \/ metrics' = <<>> /\ lastWritten' = -1
  OBVIOUS
<1>2. /\ tunnelLog' \in Logs
      /\ tunnelLog'.len = tunnelLog.len /\ tunnelLog'.size = tunnelLog.size
      /\ tunnelLog'.offset = tunnelLog.offset /\ (tunnelLog'.open => tunnelLog.open)
  BY <1>1 DEF FilesInv, FilesTypeInv, Logs
<1>3. FilesTypeInv'
  <2>1. metrics' \in Seq(Values) /\ sample' \in Values
    <3>1. <<>> \in Seq(Values) /\ metrics' \in {metrics, <<>>} /\ sample' = sample
      BY <1>1
    <3> QED  BY <3>1 DEF FilesInv, FilesTypeInv
  <2>2. /\ main' \in {"log", "adapter", "up", "stops", "closes", "closed", "ended"}
        /\ meter' \in {meter, "samples", "none"}
    OBVIOUS
  <2> QED  BY <1>2, <2>1, <2>2 DEF FilesInv, FilesTypeInv
<1>4. LogFits'
  BY <1>2 DEF FilesInv, LogFits
<1>5. MeterFits'
  BY DEF FilesInv, FilesTypeInv, MeterFits
<1>6. MetricsFit'
  BY <1>1 DEF FilesInv, MeterFits, MetricsFit, Cutting
<1> QED  BY <1>3, <1>4, <1>5, <1>6 DEF FilesInv

(* The goroutine of the monitor. *)
LEMMA MeterStep == ASSUME FilesInv, Samples \/ Writes \/ Cuts \/ Ticks PROVE FilesInv'
<1>1. UNCHANGED <<main, tunnelUp, tunnelLog>> /\ meter \notin {"none", "done"}
  BY DEF Samples, Writes, Cuts, Ticks
<1>2. meter' \in {"samples", "writes", "waits", "lastSample", "lastWrite", "done"} \cup Cutting
  BY DEF Samples, Writes, Cuts, Ticks, NextWait, AfterSample, AfterWrite, Cutting
<1>3. Brace \in Values /\ sample \in Values /\ metrics \in Seq(Values)
  BY DEF FilesInv, FilesTypeInv, Values
<1> DEFINE text == Payload(sample)
<1>4. text \in Seq(Values) /\ Len(text) \in Nat
  BY <1>3, PayloadFacts
<1>5. CASE Samples
  <2>1. sample' \in Values /\ metrics' = metrics /\ lastWritten' \in {lastWritten, -1}
    BY <1>3, <1>5 DEF Samples, Values
  <2>2. meter \notin Cutting /\ meter' \notin Cutting
    BY <1>5 DEF Samples, AfterSample, NextWait, Cutting
  <2> QED  BY <1>1, <1>2, <2>1, <2>2 DEF FilesInv, FilesTypeInv, LogFits, MeterFits, MetricsFit
<1>6. CASE Writes
  <2>1. CASE metrics' = Overwrite(metrics, text) /\ meter' = AfterWrite
          /\ lastWritten' = lastWritten
    <3>1. meter' \in Cutting /\ sample' = sample
      BY <1>6, <2>1 DEF Writes, AfterWrite, Cutting
    <3>2. metrics' \in Seq(Values) /\ Len(text) <= Len(metrics')
            /\ SubSeq(metrics', 1, Len(text)) = text
      BY <1>3, <1>4, <2>1, OverwriteFacts
    <3>3. FilesTypeInv'
      BY <1>1, <1>2, <1>3, <3>1, <3>2 DEF FilesInv, FilesTypeInv
    <3>4. MetricsFit'
      BY <3>1, <3>2 DEF MetricsFit
    <3> QED  BY <1>1, <3>3, <3>4 DEF FilesInv, LogFits, MeterFits
  <2>2. CASE /\ meter' = NextWait /\ lastWritten' = -1
             /\ \E k \in 0 .. Digits(sample) : metrics' = Overwrite(metrics, SubSeq(text, 1, k))
    <3>1. meter' \notin Cutting /\ sample' = sample
      BY <1>6, <2>2 DEF Writes, NextWait, Cutting
    <3>2. PICK k \in 0 .. Digits(sample) : metrics' = Overwrite(metrics, SubSeq(text, 1, k))
      BY <2>2
    <3>3. k \in 0 .. Len(text)
      BY <1>3, PayloadFacts
    <3> HIDE DEF text
    <3>4. SubSeq(text, 1, k) \in Seq(Values)
      BY <1>4, <3>3
    <3>5. metrics' \in Seq(Values)
      BY <1>3, <3>2, <3>4, OverwriteFacts
    <3>6. FilesTypeInv' /\ MetricsFit'
      BY <1>1, <1>2, <1>3, <2>2, <3>1, <3>5 DEF FilesInv, FilesTypeInv, MetricsFit
    <3> QED  BY <1>1, <3>6 DEF FilesInv, LogFits, MeterFits
  <2> QED  BY <1>6, <2>1, <2>2 DEF Writes
<1>7. CASE Cuts
  <2>1. meter \in Cutting /\ meter' \notin Cutting /\ sample' = sample
    BY <1>7 DEF Cuts, NextWait, Cutting
  <2>2. CASE metrics' = SubSeq(metrics, 1, Len(text)) /\ lastWritten' = sample
    <3>1. metrics' = text
      BY <2>1, <2>2 DEF FilesInv, MetricsFit
    <3>2. FilesTypeInv' /\ MetricsFit'
      BY <1>1, <1>2, <1>3, <1>4, <2>1, <2>2, <3>1 DEF FilesInv, FilesTypeInv, MetricsFit
    <3> QED  BY <1>1, <3>2 DEF FilesInv, LogFits, MeterFits
  <2>3. CASE metrics' = metrics /\ lastWritten' = -1
    BY <1>1, <1>2, <2>1, <2>3 DEF FilesInv, FilesTypeInv, LogFits, MeterFits, MetricsFit
  <2> QED  BY <1>7, <2>2, <2>3 DEF Cuts
<1>8. CASE Ticks
  <2>1. meter \notin Cutting /\ meter' \notin Cutting /\ UNCHANGED <<sample, metrics, lastWritten>>
    BY <1>8 DEF Ticks, Cutting
  <2> QED  BY <1>1, <1>2, <2>1 DEF FilesInv, FilesTypeInv, LogFits, MeterFits, MetricsFit
<1> QED  BY <1>5, <1>6, <1>7, <1>8

LEMMA FilesStep == FilesInv /\ [RuntimeNext]_runtimeVars => FilesInv'
<1> SUFFICES ASSUME FilesInv, [RuntimeNext]_runtimeVars PROVE FilesInv'
  OBVIOUS
<1>1. CASE UNCHANGED runtimeVars
  BY <1>1 DEF runtimeVars, FilesInv, FilesTypeInv, LogFits, MeterFits, MetricsFit
<1>2. CASE RuntimeNext
  BY <1>2, OpenStep, LineStep, ServiceFilesStep, MeterStep DEF RuntimeNext
<1> QED  BY <1>1, <1>2

LEMMA FilesInvImplies == FilesInv => FilesWhole
<1> SUFFICES ASSUME FilesInv PROVE FilesWhole
  OBVIOUS
<1>1. LogBounded
  <2> SUFFICES ASSUME tunnelLog.open PROVE tunnelLog.len <= MaxLog
        /\ tunnelLog.len <= tunnelLog.size
    BY DEF LogBounded
  <2> QED  BY RuntimeAssumption DEF FilesInv, FilesTypeInv, LogFits, Logs
<1>2. MeterUsesAdapter
  BY DEF FilesInv, MeterFits, MeterUsesAdapter
<1>3. MetricsAreWhole
  <2> SUFFICES ASSUME meter \in {"waits", "done"}, lastWritten # -1
               PROVE  Reads(metrics) /\ metrics = Payload(lastWritten)
    BY DEF MetricsAreWhole
  <2>1. metrics = Payload(lastWritten)
    BY DEF FilesInv, MetricsFit, Cutting
  <2>2. Reads(Payload(lastWritten))
    BY PayloadReads DEF Brace
  <2> QED  BY <2>1, <2>2
<1> QED  BY <1>1, <1>2, <1>3 DEF FilesWhole

(* Whatever fails and however often the tunnel is started again: the log   *)
(* keeps its bound, the monitor asks an adapter that is there, and the app *)
(* reads a whole snapshot (runtime_log.go, runtime_metrics.go:40-130).     *)
THEOREM FilesAreWhole == RuntimeSpec => []FilesWhole
<1>1. RuntimeSpec => []FilesInv
  BY FilesInit, FilesStep, PTL DEF RuntimeSpec
<1> QED  BY <1>1, FilesInvImplies, PTL

-----------------------------------------------------------------------------
(***************************************************************************)
(* The network stack of a tunnel (NetConfig): configureInterface and the   *)
(* MTU monitor, who read the row of our interface and write it back.       *)
(***************************************************************************)
ConfigurePcs == {"monitor", "routes", "addrs", "list", "clean", "readd", "read", "set", "dns",
                 "done", "failed"}
RoutePrefixes == {DefaultRoute} \cup {Masked(p) : p \in NetRoutes}
OurRoutes == {r \in routeTable : r[1] = Ours}
OurAddrs == {a \in addrs : a[1] = Ours}
Rows == [mtu : Int, metric : {0, 1}, site : {"valid", "wild"}]
NeedsMetric == \E p \in conf.routes : Masked(p) = DefaultRoute

NetTypes ==
  /\ conf \in NetConfigs
  /\ cfg \in [pc : ConfigurePcs, tryTimes : 0 .. MaxTries, row : Rows, down : SUBSET Others]
  /\ cfg.row.site = "valid"
  /\ monitor \in [pc : {"idle", "read", "set"}, looked : BOOLEAN, registered : BOOLEAN,
                  pending : 0 .. 2, last : Nat, mtu : Nat, row : Rows]
  /\ row \in Rows
  /\ routeTable \subseteq (Others \cup {Ours}) \X RoutePrefixes
  /\ addrs \subseteq (Others \cup {Ours}) \X NetAddrs
  /\ others \in [Others -> [up : BOOLEAN, mtu : Mtus, metric : {0, 1}]]
  /\ weather \in 0 .. MaxWeather /\ netFaults \in 0 .. MaxNetFaults
  /\ overlapped \in BOOLEAN /\ untold \in BOOLEAN

(* What has been set when configureInterface is at a step; without routes  *)
(* or addresses of its own it never touches ours.                          *)
TablesFit ==
  /\ ~AddsRoutes => OurRoutes = {}
  /\ cfg.pc \in {"addrs", "list", "clean", "readd", "read", "set", "dns", "done"} /\ AddsRoutes =>
       {r[2] : r \in OurRoutes} = DedupedRoutes
  /\ conf.addrs = {} => OurAddrs = {}
  /\ cfg.pc \in {"read", "set", "dns", "done"} => {a[2] : a \in OurAddrs} = conf.addrs
  /\ cfg.pc = "done" => dns = SetDNS(conf.dns)

(* The interfaces that were listed were down, or have changed since, and   *)
(* have lost our addresses when ours are set again, unless a call failed.  *)
DownFits ==
  /\ \A i \in cfg.down : ~others[i].up \/ weather < MaxWeather
  /\ cfg.pc = "readd" /\ netFaults = MaxNetFaults =>
       \A a \in addrs : ~(a[1] \in cfg.down /\ a[2] \in conf.addrs)

(* What the monitor knows: an MTU that is configured needs none; otherwise *)
(* it looks before the routes are set, and as long as no change is waiting *)
(* and none was missed, the last MTU it used is that of the interface.     *)
MonitorFits ==
  /\ conf.mtu > 0 =>
       monitor.pc = "idle" /\ ~monitor.looked /\ ~monitor.registered /\ monitor.last = 0
  /\ ~monitor.registered => monitor.pending = 0
  /\ conf.mtu = 0 /\ cfg.pc \notin {"monitor", "failed"} => monitor.looked
  /\ monitor.pc # "idle" => monitor.mtu > 0
  /\ ~untold /\ monitor.looked /\ monitor.pending = 0 /\ DefaultInterface # NoIf =>
       others[DefaultInterface].mtu = IF monitor.pc = "idle" THEN monitor.last ELSE monitor.mtu

(* The row, as long as the two writers have not overlapped: one that has   *)
(* read it finds it as it was, and who writes last keeps the other's field.*)
RowFits ==
  ~overlapped =>
    /\ ~(cfg.pc = "set" /\ monitor.pc = "set")
    /\ cfg.pc = "set" => cfg.row.mtu = row.mtu
    /\ monitor.last > 0 => row.mtu = NlMtu(monitor.last)
    /\ cfg.pc \in {"dns", "done"} =>
         /\ conf.mtu > 0 /\ (HasRoutes \/ conf.addrs # {}) => row.mtu = conf.mtu
         /\ NeedsMetric => row.metric = 0 /\ (monitor.pc = "set" => monitor.row.metric = 0)

NetInv ==
  NetTypes /\ TablesFit /\ FailsForAReason /\ DownFits /\ MonitorFits /\ RowFits

-----------------------------------------------------------------------------
(* Smallest and largest of the sets the code takes them of.                *)
LEMMA MtusPositive == \A m \in Mtus : m \in Nat /\ m > 0
<1>1. Mtus \subseteq Nat \ {0}
  BY NetAssumption
<1>2. \A m \in Nat \ {0} : m \in Nat /\ m > 0
  OBVIOUS
<1> QED
  BY <1>1, <1>2

LEMMA LargestMtu == Max(Mtus) \in Mtus
<1>1. PICK m \in Mtus : \A n \in Mtus : n <= m
  BY NetAssumption
<1>2. \A n \in Mtus : n \in Nat
  BY NetAssumption
<1>3. \E x \in Mtus : \A y \in Mtus : x >= y
  BY <1>1, <1>2
<1> QED
  BY <1>3 DEF Max

LEMMA NlMtuIsInt ==
  ASSUME NEW mtu \in Nat
  PROVE  NlMtu(mtu) \in Int
<1> DEFINE a == mtu - Overhead
           b == MinMtu
<1>1. a \in Int /\ b \in Int
  BY NetAssumption
<1> HIDE DEF a, b
<1>2. \E x \in {a, b} : \A y \in {a, b} : x >= y
  <2>1. CASE a >= b
    BY <1>1, <2>1
  <2>2. CASE b >= a
    BY <1>1, <2>2
  <2> QED
    BY <1>1, <2>1, <2>2
<1>3. Max({a, b}) \in {a, b}
  BY <1>2 DEF Max
<1>4. NlMtu(mtu) = Max({a, b})
  BY DEF NlMtu, a, b
<1> QED
  BY <1>1, <1>3, <1>4

LEMMA OneMorePending ==
  ASSUME NEW n \in 0 .. 2
  PROVE  Min({2, n + 1}) \in 1 .. 2
<1>1. \E x \in {2, n + 1} : \A y \in {2, n + 1} : x <= y
  <2>1. CASE n = 2
    BY <2>1
  <2>2. CASE n < 2
    BY <2>2
  <2> QED
    BY <2>1, <2>2
<1>2. Min({2, n + 1}) \in {2, n + 1}
  BY <1>1 DEF Min
<1>3. ASSUME NEW x \in {2, n + 1}, \A y \in {2, n + 1} : x <= y
      PROVE  x \in 1 .. 2
  BY <1>3
<1>4. \A y \in {2, n + 1} : Min({2, n + 1}) <= y
  BY <1>1 DEF Min
<1> QED
  BY <1>2, <1>3, <1>4

\* findDefaultLUID finds an interface, unless none is up.
LEMMA DefaultIsOther ==
  ASSUME NetTypes, DefaultInterface # NoIf
  PROVE  DefaultInterface \in Others /\ others[DefaultInterface].mtu \in Mtus
<1>1. Usable # {}
  BY DEF DefaultInterface
<1>2. \A i \in Others : others[i].metric \in {0, 1} /\ others[i].mtu \in Mtus
  BY DEF NetTypes
<1>3. Usable \subseteq Others
  BY DEF Usable
<1>4. \E i \in Usable : \A j \in Usable : others[i].metric <= others[j].metric
  <2>1. CASE \E i \in Usable : others[i].metric = 0
    BY <1>2, <1>3, <2>1
  <2>2. CASE \A i \in Usable : others[i].metric = 1
    BY <1>1, <2>2
  <2> QED
    BY <1>2, <1>3, <2>1, <2>2
<1>5. DefaultInterface \in Usable
  BY <1>1, <1>4 DEF DefaultInterface
<1> QED
  BY <1>2, <1>3, <1>5

-----------------------------------------------------------------------------
(* The tables of one interface.                                            *)
LEMMA SecondOfPairs ==
  ASSUME NEW D
  PROVE  {r[2] : r \in {<<Ours, d>> : d \in D}} = D
<1> DEFINE P == {<<Ours, d>> : d \in D}
<1>1. \A d \in D : <<Ours, d>> \in P /\ <<Ours, d>>[2] = d
  OBVIOUS
<1>2. \A r \in P : r[2] \in D
  OBVIOUS
<1> HIDE DEF P
<1>3. \A d \in D : \E r \in P : d = r[2]
  BY <1>1
<1>4. {r[2] : r \in P} = D
  BY <1>2, <1>3
<1> QED
  BY <1>4 DEF P

LEMMA RoutesOfOurs ==
  ASSUME NEW R, NEW D
  PROVE  {r[2] : r \in {x \in SetRoutesForFamily(R, D) : x[1] = Ours}} = D
<1>1. {x \in SetRoutesForFamily(R, D) : x[1] = Ours} = {<<Ours, d>> : d \in D}
  BY DEF SetRoutesForFamily, FlushRoutes
<1> QED
  BY <1>1, SecondOfPairs

LEMMA AddressesOfOurs ==
  ASSUME NEW A, NEW S
  PROVE  /\ {a[2] : a \in {x \in SetIPAddressesForFamily(A, S) : x[1] = Ours}} = S
         /\ \A a \in A : a[1] # Ours => a \in SetIPAddressesForFamily(A, S)
         /\ \A a \in SetIPAddressesForFamily(A, S) : a[1] # Ours => a \in A
<1>1. {x \in SetIPAddressesForFamily(A, S) : x[1] = Ours} = {<<Ours, a>> : a \in S}
  BY DEF SetIPAddressesForFamily, FlushIPAddresses
<1>2. /\ \A a \in A : a[1] # Ours => a \in SetIPAddressesForFamily(A, S)
      /\ \A a \in SetIPAddressesForFamily(A, S) : a[1] # Ours => a \in A
  BY DEF SetIPAddressesForFamily, FlushIPAddresses
<1> QED
  BY <1>1, <1>2, SecondOfPairs

LEMMA RoutesTyped ==
  ASSUME NetTypes, NEW D \in SUBSET RoutePrefixes
  PROVE  SetRoutesForFamily(routeTable, D) \subseteq (Others \cup {Ours}) \X RoutePrefixes
BY DEF SetRoutesForFamily, FlushRoutes, NetTypes

LEMMA AddressesTyped ==
  ASSUME NetTypes, NEW S \in SUBSET NetAddrs
  PROVE  SetIPAddressesForFamily(addrs, S) \subseteq (Others \cup {Ours}) \X NetAddrs
BY DEF SetIPAddressesForFamily, FlushIPAddresses, NetTypes

\* What a configuration asks for is of the right kind.
LEMMA ConfTyped ==
  ASSUME NetTypes
  PROVE  /\ DedupedRoutes \subseteq RoutePrefixes
         /\ OwnRoutes \subseteq RoutePrefixes
         /\ conf.addrs \subseteq NetAddrs
         /\ conf.mtu \in Nat
<1>1. conf.routes \subseteq NetRoutes /\ conf.addrs \subseteq NetAddrs /\ conf.mtu \in Nat
  BY NetAssumption DEF NetTypes
<1>2. DedupedRoutes \subseteq RoutePrefixes
  BY <1>1 DEF DedupedRoutes, RoutePrefixes
<1>3. \A r \in routeTable : r[2] \in RoutePrefixes
  BY DEF NetTypes
<1>4. OwnRoutes \subseteq RoutePrefixes
  BY <1>3 DEF OwnRoutes
<1> QED
  BY <1>1, <1>2, <1>4

LEMMA GetRowTyped ==
  ASSUME NEW r \in Rows
  PROVE  /\ GetRow(r) \in Rows /\ GetRow(r).site = "valid"
         /\ GetRow(r).mtu = r.mtu /\ GetRow(r).metric = r.metric
BY DEF GetRow, Rows

LEMMA RowWithTyped ==
  ASSUME NetTypes, NEW r \in Rows
  PROVE  /\ RowWith(r) \in Rows
         /\ RowWith(r).mtu = IF conf.mtu > 0 /\ (HasRoutes \/ conf.addrs # {}) THEN conf.mtu ELSE r.mtu
         /\ NeedsMetric => RowWith(r).metric = 0
<1>1. conf.mtu \in Int
  BY ConfTyped
<1> QED
  BY <1>1 DEF RowWith, Rows, NeedsMetric

\* The configuration stays, and while the others do so does the default interface.
LEMMA ConfStays ==
  ASSUME NetNext \/ UNCHANGED netVars
  PROVE  conf' = conf
BY DEF NetNext, netVars, ConfigureStep, MonitorStep, SetsRoutes, SetsAddresses, ListsInterfaces,
       CleansAddresses, ReadsRow, SetsRow, SetsDns, NoMonitor, MonitorRegisters, ConfigureFails,
       Looks, MonitorReadsRow, MonitorSetsRow, MonitorFails, OtherChanges, netWorld

LEMMA AsksTheSame ==
  ASSUME conf' = conf
  PROVE  /\ HasRoutes' = HasRoutes /\ DedupedRoutes' = DedupedRoutes
         /\ AddsRoutes' = AddsRoutes /\ NeedsMetric' = NeedsMetric
BY DEF HasRoutes, DedupedRoutes, AddsRoutes, NeedsMetric

LEMMA SameDefault ==
  ASSUME others' = others
  PROVE  DefaultInterface' = DefaultInterface
BY DEF DefaultInterface, Usable

LEMMA FaultTyped ==
  ASSUME NetTypes
  PROVE  /\ NetFault => netFaults' \in 0 .. MaxNetFaults /\ netFaults' < MaxNetFaults
         /\ NetFine => netFaults' = netFaults
BY NetAssumption DEF NetTypes, NetFault, NetFine

LEMMA NetTypesStep ==
  ASSUME NetTypes, [NetNext]_netVars
  PROVE  NetTypes'
<1> USE DEF NetTypes
<1>1. CASE SetsRoutes
  <2>1. routeTable' \subseteq (Others \cup {Ours}) \X RoutePrefixes
    BY <1>1, ConfTyped, RoutesTyped DEF SetsRoutes
  <2> QED
    BY <1>1, <2>1 DEF SetsRoutes, NetFine, netWorld, ConfigurePcs
<1>2. CASE SetsAddresses
  <2>1. addrs' \subseteq (Others \cup {Ours}) \X NetAddrs
    <3>1. CASE conf.addrs = {}
      BY <1>2, <3>1 DEF SetsAddresses
    <3>2. CASE conf.addrs # {} /\ Conflicts = {}
      BY <1>2, <3>2, ConfTyped, AddressesTyped DEF SetsAddresses
    <3>3. CASE conf.addrs # {} /\ Conflicts # {}
      <4>1. PICK S \in SUBSET conf.addrs : addrs' = SetIPAddressesForFamily(addrs, S)
        BY <1>2, <3>3 DEF SetsAddresses
      <4>2. S \in SUBSET NetAddrs
        BY ConfTyped
      <4> QED
        BY <4>1, <4>2, AddressesTyped
    <3> QED
      BY <3>1, <3>2, <3>3
  <2>2. PICK p \in ConfigurePcs : cfg' = [cfg EXCEPT !.pc = p]
    BY <1>2 DEF SetsAddresses, ConfigurePcs
  <2> QED
    BY <1>2, <2>1, <2>2 DEF SetsAddresses, NetFine, netWorld
<1>3. CASE ListsInterfaces
  <2>1. netFaults' \in 0 .. MaxNetFaults
    BY <1>3, FaultTyped DEF ListsInterfaces
  <2>2. CASE cfg' = [cfg EXCEPT !.pc = "readd"]
    BY <1>3, <2>1, <2>2 DEF ListsInterfaces, netWorld, netTables, ConfigurePcs
  <2>3. CASE cfg' = [cfg EXCEPT !.pc = "clean", !.down = {i \in Others : Disconnected(i)}]
    BY <1>3, <2>1, <2>3 DEF ListsInterfaces, netWorld, netTables, ConfigurePcs
  <2> QED
    BY <1>3, <2>2, <2>3 DEF ListsInterfaces
<1>4. CASE CleansAddresses
  <2>1. addrs' \subseteq (Others \cup {Ours}) \X NetAddrs
    BY <1>4 DEF CleansAddresses, DeleteIPAddresses
  <2>2. netFaults' \in 0 .. MaxNetFaults
    BY <1>4, FaultTyped DEF CleansAddresses
  <2> QED
    BY <1>4, <2>1, <2>2 DEF CleansAddresses, netWorld, ConfigurePcs
<1>5. CASE ReadsRow
  <2>1. GetRow(row) \in Rows /\ GetRow(row).site = "valid"
    BY GetRowTyped
  <2> QED
    BY <1>5, <2>1 DEF ReadsRow, NetFine, netWorld, netTables, ConfigurePcs
<1>6. CASE SetsRow
  <2>1. row' \in Rows
    BY <1>6, RowWithTyped DEF SetsRow
  <2> QED
    BY <1>6, <2>1 DEF SetsRow, NetFine, netWorld, ConfigurePcs
<1>7. CASE SetsDns
  BY <1>7 DEF SetsDns, NetFine, netWorld, ConfigurePcs
<1>8. CASE NoMonitor
  BY <1>8 DEF NoMonitor, netWorld, netTables, ConfigurePcs
<1>9. CASE MonitorRegisters
  BY <1>9 DEF MonitorRegisters, Registered, netWorld, netTables, ConfigurePcs
<1>10. CASE ConfigureFails
  <2>1. netFaults' \in 0 .. MaxNetFaults
    BY <1>10, FaultTyped DEF ConfigureFails
  <2>2. routeTable' \subseteq (Others \cup {Ours}) \X RoutePrefixes
    <3>1. CASE cfg.pc = "routes"
      <4>1. PICK S \in (SUBSET DedupedRoutes) \cup (SUBSET OwnRoutes) :
              routeTable' = SetRoutesForFamily(routeTable, S)
        BY <1>10, <3>1 DEF ConfigureFails
      <4>2. S \in SUBSET DedupedRoutes \/ S \in SUBSET OwnRoutes
        OBVIOUS
      <4>3. S \in SUBSET RoutePrefixes
        BY <4>2, ConfTyped
      <4> QED
        BY <4>1, <4>3, RoutesTyped
    <3> QED
      BY <1>10, <3>1 DEF ConfigureFails
  <2>3. addrs' \subseteq (Others \cup {Ours}) \X NetAddrs
    <3>1. CASE addrs' = addrs
      BY <3>1
    <3>2. CASE addrs' # addrs
      <4>1. PICK S \in SUBSET conf.addrs : addrs' = SetIPAddressesForFamily(addrs, S)
        BY <1>10, <3>2 DEF ConfigureFails
      <4>2. S \in SUBSET NetAddrs
        BY ConfTyped
      <4> QED
        BY <4>1, <4>2, AddressesTyped
    <3> QED
      BY <3>1, <3>2
  <2>4. cfg' \in [pc : ConfigurePcs, tryTimes : 0 .. MaxTries, row : Rows, down : SUBSET Others]
        /\ cfg'.row.site = "valid"
    <3>1. CASE cfg' = [cfg EXCEPT !.pc = "failed"]
      BY <3>1 DEF ConfigurePcs
    <3>2. CASE MayRetry /\ cfg' = StartOver
      <4>1. cfg.tryTimes + 1 \in 0 .. MaxTries
        BY <3>2, NetAssumption DEF MayRetry
      <4>2. StartOver = [pc |-> "routes", tryTimes |-> cfg.tryTimes + 1, row |-> NoRow, down |-> {}]
        <5> DEFINE n == cfg.tryTimes + 1
        <5>1. StartOver = [Configuring EXCEPT !.pc = "routes", !.tryTimes = n]
          BY DEF StartOver
        <5> HIDE DEF n
        <5>2. StartOver = [pc |-> "routes", tryTimes |-> n, row |-> NoRow, down |-> {}]
          BY <5>1 DEF Configuring
        <5> QED
          BY <5>2 DEF n
      <4>3. NoRow \in Rows /\ NoRow.site = "valid"
        BY DEF NoRow, Rows
      <4> QED
        BY <3>2, <4>1, <4>2, <4>3 DEF ConfigurePcs
    <3> QED
      BY <1>10, <3>1, <3>2 DEF ConfigureFails
  <2> QED
    BY <1>10, <2>1, <2>2, <2>3, <2>4 DEF ConfigureFails, netWorld
<1>11. CASE Looks
  <2>1. (IF DefaultInterface = NoIf THEN 0 ELSE others[DefaultInterface].mtu) \in Nat
    BY DefaultIsOther, NetAssumption
  <2> DEFINE mtu == IF DefaultInterface = NoIf THEN 0 ELSE others[DefaultInterface].mtu
             p == IF mtu > 0 /\ mtu # monitor.last THEN "read" ELSE "idle"
             n == IF monitor.pending > 0 THEN monitor.pending - 1 ELSE 0
  <2>2. monitor' = [monitor EXCEPT !.looked = TRUE, !.pending = n, !.mtu = mtu, !.pc = p]
    BY <1>11 DEF Looks
  <2>3. p \in {"idle", "read", "set"} /\ n \in 0 .. 2
    OBVIOUS
  <2> HIDE DEF mtu, p, n
  <2>4. mtu \in Nat
    BY <2>1 DEF mtu
  <2>5. monitor' \in [pc : {"idle", "read", "set"}, looked : BOOLEAN, registered : BOOLEAN,
                      pending : 0 .. 2, last : Nat, mtu : Nat, row : Rows]
    BY <2>2, <2>3, <2>4
  <2> QED
    BY <1>11, <2>5 DEF Looks, netWorld, netTables
<1>12. CASE MonitorReadsRow
  <2>1. GetRow(row) \in Rows
    BY GetRowTyped
  <2> QED
    BY <1>12, <2>1 DEF MonitorReadsRow, netWorld, netTables
<1>13. CASE MonitorSetsRow
  <2>1. NlMtu(monitor.mtu) \in Int
    BY NlMtuIsInt
  <2>2. row' \in Rows
    BY <1>13, <2>1 DEF MonitorSetsRow, Rows
  <2> QED
    BY <1>13, <2>2 DEF MonitorSetsRow, NetFine, netWorld
<1>14. CASE MonitorFails
  <2>1. netFaults' \in 0 .. MaxNetFaults
    BY <1>14, FaultTyped DEF MonitorFails
  <2> DEFINE n == IF monitor.pc = "idle" /\ monitor.pending > 0 THEN monitor.pending - 1
                  ELSE monitor.pending
  <2>2. monitor' = [monitor EXCEPT !.pc = "idle", !.pending = n] /\ n \in 0 .. 2
    BY <1>14 DEF MonitorFails
  <2> HIDE DEF n
  <2>3. cfg' = cfg \/ cfg' = [cfg EXCEPT !.pc = "failed"]
    BY <1>14 DEF MonitorFails
  <2> QED
    BY <1>14, <2>1, <2>2, <2>3 DEF MonitorFails, netWorld, netTables, ConfigurePcs
<1>15. CASE \E i \in Others, r \in [up : BOOLEAN, mtu : Mtus, metric : {0, 1}] : OtherChanges(i, r)
  <2>1. PICK i \in Others, r \in [up : BOOLEAN, mtu : Mtus, metric : {0, 1}] : OtherChanges(i, r)
    BY <1>15
  <2>2. others' \in [Others -> [up : BOOLEAN, mtu : Mtus, metric : {0, 1}]]
    BY <2>1 DEF OtherChanges
  <2>3. weather' \in 0 .. MaxWeather
    BY <2>1, NetAssumption DEF OtherChanges
  <2>4. Min({2, monitor.pending + 1}) \in 0 .. 2
    <3> DEFINE n == monitor.pending
    <3>1. n \in 0 .. 2
      OBVIOUS
    <3> HIDE DEF n
    <3>2. Min({2, n + 1}) \in 1 .. 2
      BY <3>1, OneMorePending
    <3> QED
      BY <3>2 DEF n
  <2>5. monitor' \in [pc : {"idle", "read", "set"}, looked : BOOLEAN, registered : BOOLEAN,
                      pending : 0 .. 2, last : Nat, mtu : Nat, row : Rows]
    BY <2>1, <2>4 DEF OtherChanges, Notified
  <2>6. untold' \in BOOLEAN
    BY <2>1 DEF OtherChanges
  <2> QED
    BY <2>1, <2>2, <2>3, <2>5, <2>6 DEF OtherChanges, netTables
<1>16. CASE UNCHANGED netVars
  BY <1>16 DEF netVars
<1> QED
  BY <1>1, <1>2, <1>3, <1>4, <1>5, <1>6, <1>7, <1>8, <1>9, <1>10, <1>11, <1>12, <1>13, <1>14,
     <1>15, <1>16 DEF NetNext, ConfigureStep, MonitorStep

-----------------------------------------------------------------------------
(* The steps that leave the tables, and configureInterface unless it ends. *)
OtherStep ==
  \/ Looks \/ MonitorReadsRow \/ MonitorSetsRow \/ MonitorFails
  \/ \E i \in Others, r \in [up : BOOLEAN, mtu : Mtus, metric : {0, 1}] : OtherChanges(i, r)
  \/ UNCHANGED netVars

LEMMA NetSteps ==
  ASSUME [NetNext]_netVars
  PROVE  \/ SetsRoutes \/ SetsAddresses \/ ListsInterfaces \/ CleansAddresses
         \/ ReadsRow \/ SetsRow \/ SetsDns \/ NoMonitor \/ MonitorRegisters
         \/ ConfigureFails \/ OtherStep
BY DEF NetNext, ConfigureStep, MonitorStep, OtherStep

LEMMA OtherStepEffect ==
  ASSUME NetTypes, OtherStep
  PROVE  /\ UNCHANGED <<routeTable, addrs, dns>>
         /\ cfg' = cfg \/ (cfg' = [cfg EXCEPT !.pc = "failed"] /\ netFaults' < MaxNetFaults)
         /\ netFaults' <= netFaults /\ weather' <= weather
         /\ others' = others \/ weather' < MaxWeather
<1>0. netFaults \in Nat /\ weather \in 0 .. MaxWeather /\ MaxWeather \in Nat
  BY NetAssumption DEF NetTypes
<1>1. CASE Looks
  BY <1>0, <1>1 DEF Looks, netTables, netWorld
<1>2. CASE MonitorReadsRow
  BY <1>0, <1>2 DEF MonitorReadsRow, netTables, netWorld
<1>3. CASE MonitorSetsRow
  BY <1>0, <1>3 DEF MonitorSetsRow, NetFine, netWorld
<1>4. CASE MonitorFails
  <2>1. netFaults' < MaxNetFaults /\ netFaults' <= netFaults
    BY <1>0, <1>4, FaultTyped DEF MonitorFails, NetFault
  <2> QED
    BY <1>0, <1>4, <2>1 DEF MonitorFails, netTables, netWorld
<1>5. CASE \E i \in Others, r \in [up : BOOLEAN, mtu : Mtus, metric : {0, 1}] : OtherChanges(i, r)
  BY <1>0, <1>5 DEF OtherChanges, netTables
<1>6. CASE UNCHANGED netVars
  BY <1>0, <1>6 DEF netVars
<1> QED
  BY <1>1, <1>2, <1>3, <1>4, <1>5, <1>6 DEF OtherStep

LEMMA TablesFitStep ==
  ASSUME NetTypes, TablesFit, [NetNext]_netVars
  PROVE  TablesFit'
<1>0. /\ conf' = conf /\ DedupedRoutes' = DedupedRoutes /\ AddsRoutes' = AddsRoutes
      /\ cfg.pc \in ConfigurePcs /\ "pc" \in DOMAIN cfg
  BY ConfStays, AsksTheSame DEF NetTypes
<1>1. CASE SetsRoutes
  <2>1. cfg.pc = "routes" /\ cfg'.pc = "addrs" /\ addrs' = addrs
    BY <1>1 DEF SetsRoutes, NetTypes
  <2>2. CASE AddsRoutes
    <3>1. routeTable' = SetRoutesForFamily(routeTable, DedupedRoutes)
      BY <1>1, <2>2 DEF SetsRoutes
    <3>2. {r[2] : r \in OurRoutes'} = DedupedRoutes
      BY <3>1, RoutesOfOurs DEF OurRoutes
    <3> QED
      BY <1>0, <2>1, <2>2, <3>2 DEF TablesFit, OurAddrs
  <2>3. CASE ~AddsRoutes
    <3>1. routeTable' = routeTable
      BY <1>1, <2>3 DEF SetsRoutes
    <3> QED
      BY <1>0, <2>1, <2>3, <3>1 DEF TablesFit, OurAddrs, OurRoutes
  <2> QED
    BY <2>2, <2>3
<1>2. CASE SetsAddresses
  <2>1. /\ cfg.pc \in {"addrs", "readd"} /\ cfg'.pc \in {"read", "list", "failed"}
        /\ routeTable' = routeTable /\ OurRoutes' = OurRoutes
    BY <1>2 DEF SetsAddresses, NetTypes, OurRoutes
  <2>2. CASE conf.addrs = {}
    <3>1. addrs' = addrs
      BY <1>2, <2>2 DEF SetsAddresses
    <3> QED
      BY <1>0, <2>1, <2>2, <3>1 DEF TablesFit, OurAddrs
  <2>3. CASE conf.addrs # {} /\ Conflicts = {}
    <3>1. addrs' = SetIPAddressesForFamily(addrs, conf.addrs)
      BY <1>2, <2>3 DEF SetsAddresses
    <3>2. {a[2] : a \in OurAddrs'} = conf.addrs
      BY <3>1, AddressesOfOurs DEF OurAddrs
    <3> QED
      BY <1>0, <2>1, <2>3, <3>2 DEF TablesFit
  <2>4. CASE conf.addrs # {} /\ Conflicts # {}
    <3>1. cfg'.pc \in {"list", "failed"}
      BY <1>2, <2>4 DEF SetsAddresses, NetTypes
    <3> QED
      BY <1>0, <2>1, <2>4, <3>1 DEF TablesFit
  <2> QED
    BY <2>2, <2>3, <2>4
<1>3. CASE ListsInterfaces
  <2>1. cfg.pc = "list" /\ cfg'.pc \in {"clean", "readd"} /\ OurRoutes' = OurRoutes /\ OurAddrs' = OurAddrs
    BY <1>3 DEF ListsInterfaces, NetTypes, netTables, OurRoutes, OurAddrs, netWorld
  <2> QED
    BY <1>0, <2>1 DEF TablesFit
<1>4. CASE CleansAddresses
  <2>1. cfg.pc = "clean" /\ cfg'.pc = "readd" /\ OurRoutes' = OurRoutes
    BY <1>4 DEF CleansAddresses, NetTypes, OurRoutes
  <2>2. conf.addrs = {} => OurAddrs' = OurAddrs
    BY <1>4 DEF CleansAddresses, DeleteIPAddresses, OurAddrs
  <2> QED
    BY <1>0, <2>1, <2>2 DEF TablesFit
<1>5. CASE ReadsRow \/ SetsRow
  <2>1. /\ cfg.pc \in {"read", "set"} /\ cfg'.pc \in {"set", "dns", "failed"}
        /\ OurRoutes' = OurRoutes /\ OurAddrs' = OurAddrs
    BY <1>5 DEF ReadsRow, SetsRow, NetTypes, netTables, OurRoutes, OurAddrs
  <2> QED
    BY <1>0, <2>1 DEF TablesFit
<1>6. CASE SetsDns
  <2>1. /\ cfg.pc = "dns" /\ cfg'.pc = "done" /\ dns' = SetDNS(conf.dns)
        /\ OurRoutes' = OurRoutes /\ OurAddrs' = OurAddrs
    BY <1>6 DEF SetsDns, NetTypes, OurRoutes, OurAddrs
  <2>2. SetDNS(conf.dns)' = SetDNS(conf.dns)
    BY <1>0 DEF SetDNS
  <2> QED
    BY <1>0, <2>1, <2>2 DEF TablesFit
<1>7. CASE NoMonitor \/ MonitorRegisters
  <2>1. cfg'.pc = "routes" /\ OurRoutes' = OurRoutes /\ OurAddrs' = OurAddrs
    BY <1>7 DEF NoMonitor, MonitorRegisters, NetTypes, netTables, OurRoutes, OurAddrs
  <2> QED
    BY <1>0, <2>1 DEF TablesFit
<1>8. CASE ConfigureFails
  <2>1. cfg'.pc \in {"routes", "failed"}
    BY <1>8 DEF ConfigureFails, NetTypes, StartOver, Configuring
  <2>2. ~AddsRoutes => OurRoutes' = OurRoutes
    BY <1>8 DEF ConfigureFails, OurRoutes
  <2>3. conf.addrs = {} => OurAddrs' = OurAddrs
    BY <1>8 DEF ConfigureFails, OurAddrs
  <2> QED
    BY <1>0, <2>1, <2>2, <2>3 DEF TablesFit
<1>9. CASE OtherStep
  <2>1. /\ OurRoutes' = OurRoutes /\ OurAddrs' = OurAddrs /\ dns' = dns
        /\ cfg'.pc \in {cfg.pc, "failed"}
    BY <1>0, <1>9, OtherStepEffect DEF OurRoutes, OurAddrs, NetTypes
  <2>2. SetDNS(conf.dns)' = SetDNS(conf.dns)
    BY <1>0 DEF SetDNS
  <2> QED
    BY <1>0, <2>1, <2>2 DEF TablesFit
<1> QED
  BY <1>1, <1>2, <1>3, <1>4, <1>5, <1>6, <1>7, <1>8, <1>9, NetSteps

LEMMA FailsStep ==
  ASSUME NetTypes, FailsForAReason, DownFits, [NetNext]_netVars
  PROVE  FailsForAReason'
<1>0. conf' = conf
  BY ConfStays
<1>1. CASE SetsRoutes \/ ListsInterfaces \/ CleansAddresses \/ ReadsRow \/ SetsDns \/ NoMonitor
           \/ MonitorRegisters
  <2>1. cfg'.pc # "failed"
    BY <1>1 DEF SetsRoutes, ListsInterfaces, CleansAddresses, ReadsRow, SetsDns, NoMonitor,
                MonitorRegisters, NetTypes
  <2> QED
    BY <2>1 DEF FailsForAReason
<1>2. CASE SetsRow
  <2>1. cfg'.pc # "failed"
    BY <1>2 DEF SetsRow, NetTypes
  <2> QED
    BY <2>1 DEF FailsForAReason
<1>3. CASE SetsAddresses
  <2>0. netFaults' = netFaults /\ netFaults \in Int /\ netFaults <= MaxNetFaults
        /\ MaxNetFaults \in Int
    BY <1>3, FaultTyped, NetAssumption DEF SetsAddresses, NetTypes
  <2> SUFFICES ASSUME cfg'.pc = "failed", netFaults = MaxNetFaults
               PROVE  \E a \in Conflicts' : a[1] \notin cfg'.down
    BY <2>0 DEF FailsForAReason
  <2>1. cfg.pc = "readd" /\ cfg'.down = cfg.down /\ conf.addrs # {} /\ Conflicts # {}
    BY <1>3 DEF SetsAddresses, NetTypes
  <2>2. PICK a \in Conflicts : TRUE
    BY <2>1
  <2>3. a \in addrs /\ a[1] # Ours /\ a[2] \in conf.addrs
    BY <2>2 DEF Conflicts
  <2>4. a[1] \notin cfg.down
    BY <2>1, <2>3 DEF DownFits
  <2>5. PICK S : addrs' = SetIPAddressesForFamily(addrs, S)
    BY <1>3, <2>1 DEF SetsAddresses
  <2>6. a \in addrs'
    BY <2>3, <2>5, AddressesOfOurs
  <2>7. a \in Conflicts'
    BY <1>0, <2>3, <2>6 DEF Conflicts
  <2> QED
    BY <2>1, <2>4, <2>7
<1>4. CASE ConfigureFails
  <2>1. netFaults' < MaxNetFaults
    BY <1>4, FaultTyped DEF ConfigureFails
  <2> QED
    BY <2>1 DEF FailsForAReason
<1>5. CASE OtherStep
  <2>1. CASE cfg' = cfg
    <3>1. Conflicts' = Conflicts
      BY <1>0, <1>5, OtherStepEffect DEF Conflicts
    <3>2. netFaults' <= netFaults /\ {netFaults, netFaults', MaxNetFaults} \subseteq Int
      BY <1>5, OtherStepEffect, NetTypesStep, NetAssumption DEF NetTypes
    <3>3. netFaults < MaxNetFaults => netFaults' < MaxNetFaults
      BY <3>2
    <3> QED
      BY <2>1, <3>1, <3>3 DEF FailsForAReason
  <2>2. CASE netFaults' < MaxNetFaults
    BY <2>2 DEF FailsForAReason
  <2> QED
    BY <1>5, <2>1, <2>2, OtherStepEffect
<1> QED
  BY <1>1, <1>2, <1>3, <1>4, <1>5, NetSteps

LEMMA DownStep ==
  ASSUME NetTypes, DownFits, [NetNext]_netVars
  PROVE  DownFits'
<1>0. conf' = conf /\ weather \in Int /\ MaxWeather \in Int
  BY ConfStays, NetAssumption DEF NetTypes
<1>1. CASE SetsRoutes \/ SetsAddresses \/ ReadsRow \/ SetsRow \/ SetsDns \/ NoMonitor
           \/ MonitorRegisters
  <2>1. cfg'.pc # "readd" /\ cfg'.down = cfg.down /\ others' = others /\ weather' = weather
    BY <1>1 DEF SetsRoutes, SetsAddresses, ReadsRow, SetsRow, SetsDns, NoMonitor,
                MonitorRegisters, NetTypes, netWorld
  <2> QED
    BY <2>1 DEF DownFits
<1>2. CASE ListsInterfaces
  <2>1. others' = others /\ weather' = weather
    BY <1>2 DEF ListsInterfaces, netWorld
  <2>2. CASE cfg' = [cfg EXCEPT !.pc = "clean", !.down = {i \in Others : Disconnected(i)}]
    BY <2>1, <2>2 DEF DownFits, Disconnected, NetTypes
  <2>3. CASE cfg' = [cfg EXCEPT !.pc = "readd"] /\ NetFault
    BY <2>1, <2>3, FaultTyped DEF DownFits, NetTypes
  <2> QED
    BY <1>2, <2>2, <2>3 DEF ListsInterfaces
<1>3. CASE CleansAddresses
  <2>1. /\ cfg'.down = cfg.down /\ others' = others /\ weather' = weather
        /\ addrs' = DeleteIPAddresses(addrs, cfg.down, conf.addrs) \/ netFaults' < MaxNetFaults
    BY <1>3, FaultTyped DEF CleansAddresses, NetTypes, netWorld
  <2>2. netFaults' = MaxNetFaults =>
          \A a \in addrs' : ~(a[1] \in cfg'.down /\ a[2] \in conf'.addrs)
    BY <1>0, <2>1, NetAssumption DEF DeleteIPAddresses
  <2> QED
    BY <2>1, <2>2 DEF DownFits
<1>4. CASE ConfigureFails
  <2>1. /\ cfg'.pc # "readd" /\ cfg'.down \in {cfg.down, {}}
        /\ others' = others /\ weather' = weather
    BY <1>4 DEF ConfigureFails, NetTypes, StartOver, Configuring, netWorld
  <2> QED
    BY <2>1 DEF DownFits
<1>5. CASE OtherStep
  <2>1. /\ cfg'.down = cfg.down /\ cfg'.pc \in {cfg.pc, "failed"} /\ addrs' = addrs
        /\ weather' <= weather /\ weather' \in Int
        /\ others' = others \/ weather' < MaxWeather
    BY <1>5, OtherStepEffect, NetTypesStep DEF NetTypes
  <2>0. netFaults' = MaxNetFaults => netFaults = MaxNetFaults
    <3>1. netFaults' <= netFaults /\ netFaults \in 0 .. MaxNetFaults /\ MaxNetFaults \in Nat
          /\ netFaults' \in 0 .. MaxNetFaults
      BY <1>5, OtherStepEffect, NetTypesStep, NetAssumption DEF NetTypes
    <3> QED
      BY <3>1
  <2>2. \A i \in cfg'.down : ~others'[i].up \/ weather' < MaxWeather
    BY <1>0, <2>1 DEF DownFits
  <2>3. cfg'.pc = "readd" /\ netFaults' = MaxNetFaults =>
          \A a \in addrs' : ~(a[1] \in cfg'.down /\ a[2] \in conf'.addrs)
    BY <1>0, <2>0, <2>1 DEF DownFits
  <2> QED
    BY <2>2, <2>3 DEF DownFits
<1> QED
  BY <1>1, <1>2, <1>3, <1>4, <1>5, NetSteps

\* What the monitor's own steps, and the changes of others, do to what it knows.
LEMMA MonitorFitsStep ==
  ASSUME NetTypes, MonitorFits, [NetNext]_netVars
  PROVE  MonitorFits'
<1>0. /\ conf' = conf /\ conf.mtu \in Nat
      /\ monitor.pc \in {"idle", "read", "set"} /\ monitor.pending \in 0 .. 2
      /\ monitor.looked \in BOOLEAN /\ monitor.registered \in BOOLEAN
      /\ monitor.mtu \in Nat /\ monitor.last \in Nat
  BY ConfStays, ConfTyped DEF NetTypes
<1>1. CASE SetsRoutes \/ SetsAddresses \/ ListsInterfaces \/ CleansAddresses \/ ReadsRow \/ SetsRow
           \/ SetsDns \/ ConfigureFails
  <2>1. monitor' = monitor /\ others' = others /\ untold' = untold
    BY <1>1 DEF SetsRoutes, SetsAddresses, ListsInterfaces, CleansAddresses, ReadsRow, SetsRow,
                SetsDns, ConfigureFails, netWorld
  <2>2. cfg.pc \notin {"monitor", "failed"}
    BY <1>1 DEF SetsRoutes, SetsAddresses, ListsInterfaces, CleansAddresses, ReadsRow, SetsRow,
                SetsDns, ConfigureFails
  <2> QED
    BY <1>0, <2>1, <2>2, SameDefault DEF MonitorFits
<1>2. CASE NoMonitor
  <2>1. monitor' = monitor /\ others' = others /\ untold' = untold /\ conf.mtu > 0
    BY <1>2 DEF NoMonitor, netWorld
  <2> QED
    BY <1>0, <2>1, SameDefault DEF MonitorFits
<1>3. CASE MonitorRegisters
  <2>1. /\ monitor.looked /\ monitor.pc = "idle" /\ monitor' = [monitor EXCEPT !.registered = TRUE]
        /\ others' = others /\ untold' = untold
    BY <1>3 DEF MonitorRegisters, Registers, Registered, netWorld
  <2>2. /\ monitor'.pc = monitor.pc /\ monitor'.looked = monitor.looked /\ monitor'.registered
        /\ monitor'.pending = monitor.pending /\ monitor'.last = monitor.last
        /\ monitor'.mtu = monitor.mtu
    BY <2>1 DEF NetTypes
  <2>3. conf.mtu = 0
    BY <1>0, <2>1 DEF MonitorFits
  <2> QED
    BY <1>0, <2>1, <2>2, <2>3, SameDefault DEF MonitorFits
<1>4. CASE Looks
  <2> DEFINE mtu == IF DefaultInterface = NoIf THEN 0 ELSE others[DefaultInterface].mtu
             p == IF mtu > 0 /\ mtu # monitor.last THEN "read" ELSE "idle"
             n == IF monitor.pending > 0 THEN monitor.pending - 1 ELSE 0
  <2>1. monitor' = [monitor EXCEPT !.looked = TRUE, !.pending = n, !.mtu = mtu, !.pc = p]
    BY <1>4 DEF Looks
  <2>2. /\ others' = others /\ untold' = untold /\ cfg' = cfg
        /\ monitor.pc = "idle" /\ LookDue
    BY <1>4 DEF Looks, netWorld
  <2>3. conf.mtu = 0
    BY <1>0, <2>2 DEF MonitorFits, LookDue
  <2>4. DefaultInterface # NoIf => mtu = others[DefaultInterface].mtu /\ mtu > 0
    <3>1. \A m \in Mtus : m > 0
      BY MtusPositive
    <3> QED
      BY <3>1, DefaultIsOther
  <2>5. p \in {"idle", "read"} /\ (p = "read" => mtu > 0) /\ (p = "idle" /\ mtu > 0 => mtu = monitor.last)
    OBVIOUS
  <2>6. n = 0 \/ monitor.pending > 0
    OBVIOUS
  <2> HIDE DEF mtu, p, n
  <2>7. /\ monitor'.pc = p /\ monitor'.looked /\ monitor'.registered = monitor.registered
        /\ monitor'.pending = n /\ monitor'.last = monitor.last /\ monitor'.mtu = mtu
    BY <2>1 DEF NetTypes
  <2>8. ~monitor.registered => n = 0
    BY <1>0, <2>6 DEF MonitorFits
  <2>9. DefaultInterface' # NoIf =>
          others'[DefaultInterface'].mtu = IF monitor'.pc = "idle" THEN monitor'.last ELSE monitor'.mtu
    BY <2>2, <2>4, <2>5, <2>7, SameDefault
  <2> QED
    BY <1>0, <2>3, <2>5, <2>7, <2>8, <2>9 DEF MonitorFits
<1>5. CASE MonitorReadsRow
  <2>1. /\ monitor.pc = "read" /\ monitor' = [monitor EXCEPT !.pc = "set", !.row = GetRow(row)]
        /\ others' = others /\ untold' = untold /\ cfg' = cfg
    BY <1>5 DEF MonitorReadsRow, netWorld
  <2>2. /\ monitor'.pc = "set" /\ monitor'.looked = monitor.looked
        /\ monitor'.registered = monitor.registered
        /\ monitor'.pending = monitor.pending /\ monitor'.last = monitor.last
        /\ monitor'.mtu = monitor.mtu
    BY <2>1 DEF NetTypes
  <2> QED
    BY <1>0, <2>1, <2>2, SameDefault DEF MonitorFits
<1>6. CASE MonitorSetsRow
  <2>1. /\ monitor.pc = "set" /\ monitor' = [monitor EXCEPT !.pc = "idle", !.last = monitor.mtu]
        /\ others' = others /\ untold' = untold /\ cfg' = cfg
    BY <1>6 DEF MonitorSetsRow, netWorld
  <2>2. /\ monitor'.pc = "idle" /\ monitor'.looked = monitor.looked
        /\ monitor'.registered = monitor.registered
        /\ monitor'.pending = monitor.pending /\ monitor'.last = monitor.mtu
        /\ monitor'.mtu = monitor.mtu
    BY <2>1 DEF NetTypes
  <2> QED
    BY <1>0, <2>1, <2>2, SameDefault DEF MonitorFits
<1>7. CASE MonitorFails
  <2> DEFINE n == IF monitor.pc = "idle" /\ monitor.pending > 0 THEN monitor.pending - 1
                  ELSE monitor.pending
  <2>1. /\ monitor' = [monitor EXCEPT !.pc = "idle", !.pending = n]
        /\ untold' /\ cfg' \in {cfg, [cfg EXCEPT !.pc = "failed"]}
    BY <1>7 DEF MonitorFails
  <2>2. monitor.pending = 0 => n = 0
    OBVIOUS
  <2> HIDE DEF n
  <2>3. /\ monitor'.pc = "idle" /\ monitor'.looked = monitor.looked
        /\ monitor'.registered = monitor.registered
        /\ monitor'.pending = n /\ monitor'.last = monitor.last
    BY <2>1 DEF NetTypes
  <2>4. cfg'.pc \in {cfg.pc, "failed"}
    BY <2>1 DEF NetTypes
  <2> QED
    BY <1>0, <2>1, <2>2, <2>3, <2>4 DEF MonitorFits
<1>8. CASE \E i \in Others, r \in [up : BOOLEAN, mtu : Mtus, metric : {0, 1}] : OtherChanges(i, r)
  <2>1. /\ cfg' = cfg /\ monitor' = Notified(monitor)
        /\ untold' = (untold \/ (monitor.looked /\ ~monitor.registered))
    BY <1>8 DEF OtherChanges
  <2>2. CASE monitor.registered
    <3> DEFINE k == monitor.pending
               n == Min({2, k + 1})
    <3>1. n \in 1 .. 2
      <4>1. k \in 0 .. 2
        BY <1>0
      <4> HIDE DEF k
      <4> QED
        BY <4>1, OneMorePending
    <3>2. monitor' = [monitor EXCEPT !.pending = n]
      BY <2>1, <2>2 DEF Notified
    <3> HIDE DEF n
    <3>3. /\ monitor'.pc = monitor.pc /\ monitor'.looked = monitor.looked /\ monitor'.registered
          /\ monitor'.pending = n /\ monitor'.last = monitor.last /\ monitor'.mtu = monitor.mtu
      BY <2>2, <3>2 DEF NetTypes
    <3>4. conf.mtu = 0
      BY <1>0, <2>2 DEF MonitorFits
    <3> QED
      BY <1>0, <2>1, <3>1, <3>3, <3>4 DEF MonitorFits
  <2>3. CASE ~monitor.registered
    <3>1. monitor' = monitor
      BY <2>1, <2>3 DEF Notified
    <3>2. ~untold' => ~monitor'.looked
      BY <2>1, <2>3, <3>1
    <3> QED
      BY <1>0, <2>1, <2>3, <3>1, <3>2 DEF MonitorFits
  <2> QED
    BY <2>2, <2>3
<1>9. CASE UNCHANGED netVars
  <2>1. monitor' = monitor /\ others' = others /\ untold' = untold /\ cfg' = cfg
    BY <1>9 DEF netVars
  <2> QED
    BY <1>0, <2>1, SameDefault DEF MonitorFits
<1> QED
  BY <1>1, <1>2, <1>3, <1>4, <1>5, <1>6, <1>7, <1>8, <1>9, NetSteps DEF OtherStep

LEMMA RowFitsStep ==
  ASSUME NetTypes, MonitorFits, RowFits, [NetNext]_netVars
  PROVE  RowFits'
<1>0. /\ conf' = conf /\ HasRoutes' = HasRoutes /\ NeedsMetric' = NeedsMetric
      /\ conf.mtu \in Nat /\ monitor.last \in Nat /\ overlapped \in BOOLEAN
      /\ \A m : NlMtu(m)' = NlMtu(m)
  BY ConfStays, AsksTheSame, ConfTyped DEF NetTypes, NlMtu
<1>1. CASE SetsRoutes \/ SetsAddresses \/ ListsInterfaces \/ CleansAddresses \/ NoMonitor
           \/ ConfigureFails
  <2>1. /\ cfg'.pc \notin {"set", "dns", "done"}
        /\ monitor' = monitor /\ row' = row /\ overlapped' = overlapped
    BY <1>1 DEF SetsRoutes, SetsAddresses, ListsInterfaces, CleansAddresses, NoMonitor,
                ConfigureFails, StartOver, Configuring, NetTypes, netTables
  <2> QED
    BY <1>0, <2>1 DEF RowFits
<1>2. CASE MonitorRegisters
  <2>1. /\ cfg'.pc = "routes" /\ monitor'.pc = monitor.pc /\ monitor'.last = monitor.last
        /\ row' = row /\ overlapped' = overlapped
    BY <1>2 DEF MonitorRegisters, Registered, NetTypes, netTables
  <2> QED
    BY <1>0, <2>1 DEF RowFits
<1>3. CASE ReadsRow
  <2>1. /\ cfg'.pc = "set" /\ cfg'.row = GetRow(row) /\ monitor' = monitor /\ row' = row
        /\ overlapped' = (overlapped \/ monitor.pc = "set")
    BY <1>3 DEF ReadsRow, NetTypes, netTables
  <2>2. cfg'.row.mtu = row.mtu
    BY <2>1, GetRowTyped DEF NetTypes
  <2> QED
    BY <1>0, <2>1, <2>2 DEF RowFits
<1>4. CASE SetsRow
  <2>1. /\ cfg.pc = "set" /\ cfg'.pc = "dns" /\ row' = RowWith(cfg.row)
        /\ monitor' = monitor /\ overlapped' = overlapped
    BY <1>4 DEF SetsRow, NetTypes
  <2>2. /\ row'.mtu = IF conf.mtu > 0 /\ (HasRoutes \/ conf.addrs # {}) THEN conf.mtu ELSE cfg.row.mtu
        /\ NeedsMetric => row'.metric = 0
    <3>1. cfg.row \in Rows
      BY DEF NetTypes
    <3> QED
      BY <2>1, <3>1, RowWithTyped
  <2>3. monitor.last > 0 => ~(conf.mtu > 0)
    BY <1>0 DEF MonitorFits
  <2> QED
    BY <1>0, <2>1, <2>2, <2>3 DEF RowFits
<1>5. CASE SetsDns
  <2>1. /\ cfg.pc = "dns" /\ cfg'.pc = "done" /\ row' = row
        /\ monitor' = monitor /\ overlapped' = overlapped
    BY <1>5 DEF SetsDns, NetTypes
  <2> QED
    BY <1>0, <2>1 DEF RowFits
<1>6. CASE Looks
  <2>1. /\ cfg' = cfg /\ row' = row /\ overlapped' = overlapped
        /\ monitor'.pc # "set" /\ monitor'.last = monitor.last
    BY <1>6 DEF Looks, NetTypes, netTables
  <2> QED
    BY <1>0, <2>1 DEF RowFits
<1>7. CASE MonitorReadsRow
  <2>1. /\ cfg' = cfg /\ row' = row /\ overlapped' = (overlapped \/ cfg.pc = "set")
        /\ monitor'.pc = "set" /\ monitor'.last = monitor.last /\ monitor'.row = GetRow(row)
    BY <1>7 DEF MonitorReadsRow, NetTypes, netTables
  <2>2. monitor'.row.metric = row.metric
    BY <2>1, GetRowTyped DEF NetTypes
  <2> QED
    BY <1>0, <2>1, <2>2 DEF RowFits
<1>8. CASE MonitorSetsRow
  <2>1. /\ monitor.pc = "set" /\ cfg' = cfg /\ overlapped' = overlapped
        /\ row' = [monitor.row EXCEPT !.mtu = NlMtu(monitor.mtu)]
        /\ monitor'.pc = "idle" /\ monitor'.last = monitor.mtu
    BY <1>8 DEF MonitorSetsRow, NetTypes
  <2>2. monitor.row \in Rows
    BY DEF NetTypes
  <2>3. row'.mtu = NlMtu(monitor.mtu) /\ row'.metric = monitor.row.metric
    BY <2>1, <2>2 DEF Rows
  <2>4. ~(conf.mtu > 0)
    BY <2>1 DEF MonitorFits
  <2> QED
    BY <1>0, <2>1, <2>3, <2>4 DEF RowFits
<1>9. CASE MonitorFails
  <2>1. /\ cfg' \in {cfg, [cfg EXCEPT !.pc = "failed"]} /\ row' = row /\ overlapped' = overlapped
        /\ monitor'.pc = "idle" /\ monitor'.last = monitor.last
    BY <1>9 DEF MonitorFails, NetTypes, netTables
  <2>2. cfg' = cfg \/ cfg'.pc = "failed"
    BY <2>1 DEF NetTypes
  <2> QED
    BY <1>0, <2>1, <2>2 DEF RowFits
<1>10. CASE \E i \in Others, r \in [up : BOOLEAN, mtu : Mtus, metric : {0, 1}] : OtherChanges(i, r)
  <2>1. /\ cfg' = cfg /\ row' = row /\ overlapped' = overlapped
        /\ monitor'.pc = monitor.pc /\ monitor'.last = monitor.last /\ monitor'.row = monitor.row
    BY <1>10 DEF OtherChanges, Notified, NetTypes, netTables
  <2> QED
    BY <1>0, <2>1 DEF RowFits
<1>11. CASE UNCHANGED netVars
  BY <1>0, <1>11 DEF RowFits, netVars
<1> QED
  BY <1>1, <1>2, <1>3, <1>4, <1>5, <1>6, <1>7, <1>8, <1>9, <1>10, <1>11, NetSteps DEF OtherStep

-----------------------------------------------------------------------------
LEMMA NetInitInv == NetInit => NetInv
<1> SUFFICES ASSUME NetInit
             PROVE  NetInv
  OBVIOUS
<1> USE DEF NetInit
<1>1. others \in [Others -> [up : BOOLEAN, mtu : Mtus, metric : {0, 1}]]
  <2>1. [up : BOOLEAN, mtu : {Max(Mtus)}, metric : {1}] \subseteq [up : BOOLEAN, mtu : Mtus, metric : {0, 1}]
    BY LargestMtu
  <2> QED
    BY <2>1
<1>2. Max(Mtus) \in Int
  BY LargestMtu, MtusPositive
<1>3. row \in Rows /\ NoRow \in Rows /\ NoRow.site = "valid"
  BY <1>2 DEF Rows, NoRow
<1>4. /\ routeTable \subseteq (Others \cup {Ours}) \X RoutePrefixes
      /\ addrs \subseteq (Others \cup {Ours}) \X NetAddrs
      /\ OurRoutes = {} /\ OurAddrs = {}
  BY NetAssumption DEF RoutePrefixes, OurRoutes, OurAddrs
<1>5. cfg.pc = "monitor" /\ cfg.tryTimes = 0 /\ cfg.row = NoRow /\ cfg.down = {}
  BY DEF Configuring
<1>6. NetTypes
  <2>1. MaxTries \in Nat /\ MaxWeather \in Nat /\ MaxNetFaults \in Nat
    BY NetAssumption
  <2>2. cfg \in [pc : ConfigurePcs, tryTimes : 0 .. MaxTries, row : Rows, down : SUBSET Others]
    BY <1>3, <2>1 DEF Configuring, ConfigurePcs
  <2>3. monitor \in [pc : {"idle", "read", "set"}, looked : BOOLEAN, registered : BOOLEAN,
                     pending : 0 .. 2, last : Nat, mtu : Nat, row : Rows]
    BY <1>3
  <2>4. weather \in 0 .. MaxWeather /\ netFaults \in 0 .. MaxNetFaults
    BY <2>1
  <2> QED
    BY <1>1, <1>3, <1>4, <1>5, <2>2, <2>3, <2>4 DEF NetTypes
<1>7. TablesFit /\ FailsForAReason /\ DownFits
  BY <1>4, <1>5 DEF TablesFit, FailsForAReason, DownFits
<1>8. MonitorFits /\ RowFits
  BY <1>5 DEF MonitorFits, RowFits
<1> QED
  BY <1>6, <1>7, <1>8 DEF NetInv

LEMMA NetInvStep == NetInv /\ [NetNext]_netVars => NetInv'
BY NetTypesStep, TablesFitStep, FailsStep, DownStep, MonitorFitsStep, RowFitsStep DEF NetInv

\* Once the changes have been worked on, what the monitor used last is what counts.
LEMMA NetInvSettles ==
  ASSUME NetInv
  PROVE  RowSettles
<1> SUFFICES ASSUME Settled, ~overlapped, ~untold
             PROVE  /\ conf.mtu > 0 /\ (HasRoutes \/ conf.addrs # {}) => row.mtu = conf.mtu
                    /\ conf.mtu = 0 /\ DefaultInterface # NoIf =>
                         row.mtu = NlMtu(others[DefaultInterface].mtu)
                    /\ NeedsMetric => row.metric = 0
  BY DEF RowSettles, NeedsMetric
<1>1. cfg.pc = "done" /\ monitor.pc = "idle" /\ monitor.pending = 0
  BY DEF Settled
<1>2. ASSUME conf.mtu = 0, DefaultInterface # NoIf
      PROVE  row.mtu = NlMtu(others[DefaultInterface].mtu)
  <2>1. monitor.looked
    BY <1>1, <1>2 DEF NetInv, MonitorFits
  <2>2. others[DefaultInterface].mtu = monitor.last
    BY <1>1, <1>2, <2>1 DEF NetInv, MonitorFits
  <2>3. monitor.last > 0
    BY <1>2, <2>2, DefaultIsOther, MtusPositive DEF NetInv
  <2> QED
    BY <2>2, <2>3 DEF NetInv, RowFits
<1> QED
  BY <1>1, <1>2 DEF NetInv, RowFits

LEMMA NetInvConfigured ==
  ASSUME NetInv
  PROVE  NetTypeOK /\ ConfiguredExactly /\ FailsForAReason /\ RowSettles
<1>1. NetTypeOK
  BY DEF NetInv, NetTypes, NetTypeOK, ConfigurePcs, RoutePrefixes
<1>2. ConfiguredExactly
  <2> SUFFICES ASSUME cfg.pc = "done"
               PROVE  /\ {r[2] : r \in OurRoutes} = IF conf.tableOff THEN {} ELSE DedupedRoutes
                      /\ {a[2] : a \in OurAddrs} = conf.addrs
                      /\ dns = {d \in conf.dns : d[2] = NetFamily}
    BY DEF ConfiguredExactly, OurRoutes, OurAddrs
  <2>1. CASE AddsRoutes
    <3>1. ~conf.tableOff /\ {r[2] : r \in OurRoutes} = DedupedRoutes
      BY <2>1 DEF NetInv, TablesFit, AddsRoutes
    <3> QED
      BY <3>1 DEF NetInv, TablesFit, SetDNS
  <2>2. CASE ~AddsRoutes
    <3>1. OurRoutes = {} /\ (conf.tableOff \/ conf.routes = {})
      BY <2>2 DEF NetInv, TablesFit, AddsRoutes, HasRoutes
    <3>2. {r[2] : r \in OurRoutes} = IF conf.tableOff THEN {} ELSE DedupedRoutes
      BY <3>1 DEF DedupedRoutes
    <3> QED
      BY <3>2 DEF NetInv, TablesFit, SetDNS
  <2> QED
    BY <2>1, <2>2
<1>3. FailsForAReason
  BY DEF NetInv
<1> QED
  BY <1>1, <1>2, <1>3, NetInvSettles

\* Only CleansAddresses takes an address from another interface.
LEMMA OthersKeepStep ==
  ASSUME NetInv, [NetNext]_netVars
  PROVE  \A a \in addrs \ addrs' : a[1] # Ours =>
           a[2] \in conf.addrs /\ (~others[a[1]].up \/ weather < MaxWeather)
<1> SUFFICES ASSUME NEW a \in addrs, a \notin addrs', a[1] # Ours
             PROVE  a[2] \in conf.addrs /\ (~others[a[1]].up \/ weather < MaxWeather)
  OBVIOUS
<1>1. CASE SetsAddresses \/ ConfigureFails
  <2>1. addrs' = addrs \/ \E S : addrs' = SetIPAddressesForFamily(addrs, S)
    BY <1>1 DEF SetsAddresses, ConfigureFails
  <2> QED
    BY <2>1, AddressesOfOurs
<1>2. CASE CleansAddresses
  <2>1. a[1] \in cfg.down /\ a[2] \in conf.addrs
    BY <1>2 DEF CleansAddresses, DeleteIPAddresses
  <2> QED
    BY <2>1 DEF NetInv, DownFits
<1>3. CASE SetsRoutes \/ ListsInterfaces \/ ReadsRow \/ SetsRow \/ SetsDns \/ NoMonitor
           \/ MonitorRegisters
  BY <1>3 DEF SetsRoutes, ListsInterfaces, ReadsRow, SetsRow, SetsDns, NoMonitor,
              MonitorRegisters, netTables
<1>4. CASE OtherStep
  BY <1>4, OtherStepEffect DEF NetInv
<1> QED
  BY <1>1, <1>2, <1>3, <1>4, NetSteps

(* After any number of failures and retries at boot: our interface has the *)
(* masked prefixes and the addresses of the configuration and no others, a *)
(* setup fails for a reason, the MTU settles, and other interfaces lose    *)
(* only an address that we need, when they are down (addressconfig.go,     *)
(* mtumonitor.go, winipcfg/luid.go).                                       *)
THEOREM NetIsConfigured == NetSpec => NetConfigured
<1>1. NetSpec => []NetInv
  BY NetInitInv, NetInvStep, PTL DEF NetSpec
<1>2. NetInv => NetTypeOK /\ ConfiguredExactly /\ FailsForAReason /\ RowSettles
  BY NetInvConfigured
<1>3. NetInv /\ [NetNext]_netVars =>
        [\A a \in addrs \ addrs' : a[1] # Ours =>
           a[2] \in conf.addrs /\ (~others[a[1]].up \/ weather < MaxWeather)]_netVars
  BY OthersKeepStep
<1> QED
  BY <1>1, <1>2, <1>3, PTL DEF NetSpec, NetConfigured, OthersKeepAddresses
=============================================================================
