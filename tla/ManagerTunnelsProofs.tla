----------------------- MODULE ManagerTunnelsProofs -----------------------
(***************************************************************************)
(* For every set of tunnels and connections: the manager's variables keep  *)
(* their types, and a name is in trackedTunnels only while its service     *)
(* exists.  The two need each other: a tracker records a state it queried, *)
(* which is a state of a service only because its handle pins the service. *)
(* Last, that a service which runs is followed, and under which conditions *)
(* on its start, on deletions and on the end of the manager.               *)
(***************************************************************************)
EXTENDS ManagerTunnels, TLAPS

(* An open handle keeps the service in the SCM. *)
Pinned == \A t \in Tunnels : Held(t) => Exists(t)

(* A name in the map has a tracker, and so a handle. *)
TrackerPresent == \A t \in Tunnels : tracked[t] # "none" => tracker[t].pc # "none"

(* What the tracker queried is the state of a service. *)
SeenState ==
  \A t \in Tunnels : tracker[t].pc \in {"callback", "compared"} => tracker[t].seen \in ServiceStates

IInv == TypeOK /\ Pinned /\ TrackerPresent /\ SeenState

-----------------------------------------------------------------------------
(* Facts about the operators on services. *)

(* A service in the SCM has one of the four states. *)
LEMMA ExistingState ==
  ASSUME NEW s \in Services, s.state # "absent"
  PROVE  s.state \in ServiceStates
BY DEF Services, ServiceStates

(* Control(Stop) leaves every service in its state. *)
LEMMA SentStopFacts ==
  ASSUME NEW f \in [Tunnels -> Services], NEW t \in Tunnels
  PROVE  /\ SentStop(f, t) \in [Tunnels -> Services]
         /\ \A x \in Tunnels : SentStop(f, t)[x].state = f[x].state
BY DEF SentStop, Services

(* The same of Delete. *)
LEMMA MarkedFacts ==
  ASSUME NEW f \in [Tunnels -> Services], NEW t \in Tunnels
  PROVE  /\ Marked(f, t) \in [Tunnels -> Services]
         /\ \A x \in Tunnels : Marked(f, t)[x].state = f[x].state
BY DEF Marked, Services

(* A status change only lengthens the queue of a subscriber. *)
LEMMA QueuedFacts ==
  ASSUME tracker \in [Tunnels -> Trackers], NEW t \in Tunnels, NEW s \in ServiceStates
  PROVE  /\ Queued(t, s) \in [Tunnels -> Trackers]
         /\ \A x \in Tunnels : /\ Queued(t, s)[x].pc = tracker[x].pc
                               /\ Queued(t, s)[x].seen = tracker[x].seen
<1>1. CASE ~Subscribed(t)
  BY <1>1 DEF Queued
<1>2. CASE Subscribed(t)
  <2> DEFINE r == [tracker[t] EXCEPT !.queue = Append(@, s)]
  <2>1. Append(tracker[t].queue, s) \in Seq(ServiceStates)
    BY DEF Trackers
  <2>2. r \in Trackers /\ r.pc = tracker[t].pc /\ r.seen = tracker[t].seen
    BY <2>1 DEF Trackers
  <2>3. Queued(t, s) = [tracker EXCEPT ![t] = r]
    BY <1>2 DEF Queued
  <2> HIDE DEF r
  <2> QED BY <2>2, <2>3
<1> QED BY <1>1, <1>2

(* The state of a service is a tunnel state. *)
LEMMA TunStateType == ASSUME NEW s \in ServiceStates PROVE TunState(s) \in States
BY DEF TunState, ServiceStates, States

(* What the uninstall loop does to its record. *)
LEMMA UninstallType ==
  ASSUME NEW u \in Uninstalls, NEW t \in Tunnels
  PROVE  /\ Opened(u, t) \in Uninstalls
         /\ Opened(u, t).cur # NoTunnel => Opened(u, t).cur = t /\ Exists(t)
         /\ Closed(u) \in Uninstalls /\ Closed(u).cur = NoTunnel
         /\ Rechecked(u, t) \in Uninstalls /\ Rechecked(u, t).cur = u.cur
<1>1. Opened(u, t) \in Uninstalls
  BY DEF Opened, Uninstalls
<1>2. Opened(u, t).cur # NoTunnel => Opened(u, t).cur = t /\ Exists(t)
  BY DEF Opened, Uninstalls
<1>3. Closed(u) \in Uninstalls /\ Closed(u).cur = NoTunnel
  BY DEF Closed, Uninstalls
<1>4. Rechecked(u, t) \in Uninstalls /\ Rechecked(u, t).cur = u.cur
  BY DEF Rechecked, Uninstalls
<1>. QED BY <1>1, <1>2, <1>3, <1>4

(* An uninstall with nothing left to do. *)
LEMMA NothingType == NothingToStop \in Uninstalls /\ NothingToStop.cur = NoTunnel
BY DEF NothingToStop, Uninstalls

(* Stopping a set of tunnels. *)
LEMMA StoppingType ==
  ASSUME NEW names \in SUBSET Tunnels
  PROVE  Stopping(names) \in Uninstalls /\ Stopping(names).cur = NoTunnel
BY DEF Stopping, NothingToStop, Uninstalls

(* A connection between two methods holds no handle. *)
LEMMA IdleType == Idle \in ClientRecords /\ Idle.pc = "idle" /\ Idle.u.cur = NoTunnel
BY NothingType DEF Idle, ClientRecords, ClientPcs
-----------------------------------------------------------------------------
(* Each step keeps the invariant. *)

(* The tunnel process changes the state of its service. *)
LEMMA ServiceStepKeeps ==
  ASSUME IInv, NEW t \in Tunnels, NEW s \in Services, s.state \in ServiceStates,
         ServiceStep(t, s)
  PROVE  IInv'
<1>1. s.state # "absent"
  BY DEF ServiceStates
<1>2. /\ tracker' \in [Tunnels -> Trackers]
      /\ \A x \in Tunnels : tracker'[x].pc = tracker[x].pc /\ tracker'[x].seen = tracker[x].seen
  BY QueuedFacts DEF ServiceStep, IInv, TypeOK
<1>3. TypeOK'
  BY <1>2 DEF ServiceStep, IInv, TypeOK
<1>4. \A x \in Tunnels : Exists(x) => Exists(x)'
  BY <1>1 DEF ServiceStep, Exists, IInv, TypeOK
<1>5. \A x \in Tunnels : Held(x)' => Held(x)
  BY <1>2 DEF ServiceStep, Held
<1>6. Pinned'
  BY <1>4, <1>5 DEF IInv, Pinned
<1>7. TrackerPresent' /\ SeenState'
  BY <1>2 DEF ServiceStep, IInv, TrackerPresent, SeenState
<1> QED BY <1>3, <1>6, <1>7 DEF IInv

(* The environment's steps of one service. *)
LEMMA EnvironmentKeeps ==
  ASSUME IInv, NEW t \in Tunnels,
         ServiceProgress(t) \/ ServiceFails(t) \/ ServiceRemoved(t)
  PROVE  IInv'
<1>1. scm[t] \in Services
  BY DEF IInv, TypeOK
<1>2. CASE ServiceAccepts(t)
  <2> DEFINE s == [scm[t] EXCEPT !.accepts = TRUE]
  <2>1. s \in Services /\ s.state \in ServiceStates
    BY <1>1, <1>2 DEF ServiceAccepts, Services, ServiceStates
  <2> QED BY <1>2, <2>1, ServiceStepKeeps DEF ServiceAccepts
<1>3. CASE ServiceRuns(t)
  <2> DEFINE s == [scm[t] EXCEPT !.state = "running"]
  <2>1. s \in Services /\ s.state \in ServiceStates
    BY <1>1 DEF Services, ServiceStates
  <2> QED BY <1>3, <2>1, ServiceStepKeeps DEF ServiceRuns
<1>4. CASE ServiceStops(t)
  <2> DEFINE s == [scm[t] EXCEPT !.state = "stoppending", !.accepts = FALSE]
  <2>1. s \in Services /\ s.state \in ServiceStates
    BY <1>1 DEF Services, ServiceStates
  <2> QED BY <1>4, <2>1, ServiceStepKeeps DEF ServiceStops
<1>5. CASE ServiceEnds(t)
  <2> DEFINE s == [scm[t] EXCEPT !.state = "stopped"]
  <2>1. s \in Services /\ s.state \in ServiceStates
    BY <1>1 DEF Services, ServiceStates
  <2> QED BY <1>5, <2>1, ServiceStepKeeps DEF ServiceEnds
<1>6. CASE ServiceFails(t)
  <2> DEFINE s == [scm[t] EXCEPT !.state = "stoppending", !.accepts = FALSE, !.failed = TRUE]
  <2>1. s \in Services /\ s.state \in ServiceStates
    BY <1>1 DEF Services, ServiceStates
  <2> QED BY <1>6, <2>1, ServiceStepKeeps DEF ServiceFails
<1>7. CASE ServiceRemoved(t)
  <2>1. Absent \in Services
    BY DEF Absent, Services, ServiceStates
  <2>2. TypeOK'
    BY <1>7, <2>1 DEF ServiceRemoved, IInv, TypeOK
  <2>3. \A x \in Tunnels : Held(x)' <=> Held(x)
    BY <1>7 DEF ServiceRemoved, Held
  <2>4. \A x \in Tunnels : x # t => (Exists(x)' <=> Exists(x))
    BY <1>7 DEF ServiceRemoved, Exists, IInv, TypeOK
  <2>5. Pinned'
    BY <1>7, <2>3, <2>4 DEF ServiceRemoved, IInv, Pinned
  <2>6. TrackerPresent' /\ SeenState'
    BY <1>7 DEF ServiceRemoved, IInv, TrackerPresent, SeenState
  <2> QED BY <2>2, <2>5, <2>6 DEF IInv
<1> QED BY <1>2, <1>3, <1>4, <1>5, <1>6, <1>7 DEF ServiceProgress

(* A stopper, or a method, works through its list of names. *)
LEMMA StopperKeeps ==
  ASSUME IInv, NEW c \in Clients, NEW t \in Tunnels, StopperStep(c, t)
  PROVE  IInv'
<1>1. /\ scm' \in [Tunnels -> Services]
      /\ \A x \in Tunnels : scm'[x].state = scm[x].state
  <2>1. scm \in [Tunnels -> Services]
    BY DEF IInv, TypeOK
  <2>2. scm' \in {SentStop(scm, t), Marked(scm, t), scm}
    BY DEF StopperStep
  <2> QED BY <2>1, <2>2, SentStopFacts, MarkedFacts
<1>2. PICK u \in Uninstalls : /\ stopper' = [stopper EXCEPT ![c] = u]
                              /\ u.cur # NoTunnel => (u.cur = stopper[c].cur \/ (u.cur = t /\ Exists(t)))
  BY UninstallType DEF StopperStep, IInv, TypeOK
<1>3. TypeOK'
  BY <1>1, <1>2 DEF StopperStep, IInv, TypeOK
<1>4. Pinned'
  <2> SUFFICES ASSUME NEW x \in Tunnels, Held(x)' PROVE Exists(x)'
    BY DEF Pinned
  <2>1. Held(x) \/ Exists(x)
    BY <1>2, NoTunnelAssumption DEF StopperStep, Held, IInv, TypeOK
  <2> QED BY <2>1, <1>1 DEF IInv, Pinned, Exists
<1>5. TrackerPresent' /\ SeenState'
  BY DEF StopperStep, IInv, TrackerPresent, SeenState
<1> QED BY <1>3, <1>4, <1>5 DEF IInv
(* A connection goes on to a record r, whose handles are open. *)
LEMMA ClientKeeps ==
  ASSUME IInv, NEW c \in Clients, NEW r \in ClientRecords,
         client' = [client EXCEPT ![c] = r],
         UNCHANGED <<tracked, arriving, closing, stopper>>,
         tracker' \in [Tunnels -> Trackers],
         \A x \in Tunnels : tracker'[x].pc = tracker[x].pc /\ tracker'[x].seen = tracker[x].seen,
         scm' \in [Tunnels -> Services],
         \A x \in Tunnels : Exists(x) => Exists(x)',
         stored' \in SUBSET Tunnels, dbChanged' \in BOOLEAN, haveQuit' \in BOOLEAN,
         created' \in Nat, restarts' \in Nat,
         \A x \in Tunnels : r.t = x /\ r.pc \in {"delete", "start", "track"} => Exists(x)',
         \A x \in Tunnels : r.u.cur = x => Exists(x)'
  PROVE  IInv'
<1>1. TypeOK'
  BY DEF IInv, TypeOK
<1>2. Pinned'
  <2> SUFFICES ASSUME NEW x \in Tunnels, Held(x)' PROVE Exists(x)'
    BY DEF Pinned
  <2>1. Held(x) \/ Exists(x)'
    BY DEF Held, IInv, TypeOK
  <2> QED BY <2>1 DEF IInv, Pinned
<1>3. TrackerPresent' /\ SeenState'
  BY DEF IInv, TrackerPresent, SeenState
<1> QED BY <1>1, <1>2, <1>3 DEF IInv

(* Moving on within a method changes nothing else of its record. *)
LEMMA PcType ==
  ASSUME NEW k \in ClientRecords, NEW pc \in ClientPcs
  PROVE  LET r == [k EXCEPT !.pc = pc] IN
         r \in ClientRecords /\ r.pc = pc /\ r.t = k.t /\ r.u = k.u
BY DEF ClientRecords

(* The methods between two calls of the SCM. *)
LEMMA OnlyClientKeeps ==
  ASSUME IInv, NEW c \in Clients, NEW r \in ClientRecords,
         client' = [client EXCEPT ![c] = r], OnlyClient,
         \A x \in Tunnels : r.t = x /\ r.pc \in {"delete", "start", "track"} => Exists(x),
         \A x \in Tunnels : r.u.cur = x => Exists(x)
  PROVE  IInv'
<1>1. /\ scm' = scm /\ tracked' = tracked /\ tracker' = tracker /\ arriving' = arriving
      /\ closing' = closing /\ stopper' = stopper /\ stored' = stored
      /\ dbChanged' = dbChanged /\ haveQuit' = haveQuit /\ created' = created
      /\ restarts' = restarts
  BY DEF OnlyClient
<1>2. TypeOK'
  BY <1>1 DEF IInv, TypeOK
<1>3. Pinned'
  <2> SUFFICES ASSUME NEW x \in Tunnels, Held(x)' PROVE Exists(x)'
    BY DEF Pinned
  <2>1. Held(x) \/ Exists(x)
    BY <1>1 DEF Held, IInv, TypeOK
  <2> QED BY <1>1, <2>1 DEF IInv, Pinned, Exists
<1>4. TrackerPresent' /\ SeenState'
  BY <1>1 DEF IInv, TrackerPresent, SeenState
<1> QED BY <1>2, <1>3, <1>4 DEF IInv

(* A connection that returns holds nothing. *)
LEMMA ReturnsKeeps ==
  ASSUME IInv, NEW c \in Clients, Returns(c), OnlyClient
  PROVE  IInv'
<1>1. \A x \in Tunnels : Idle.u.cur # x
  BY IdleType, NoTunnelAssumption
<1> QED BY <1>1, IdleType, OnlyClientKeeps DEF Returns

(* What a connection's own handles pin. *)
LEMMA OwnHandles ==
  ASSUME IInv, NEW c \in Clients, NEW x \in Tunnels
  PROVE  /\ client[c].t = x /\ client[c].pc \in {"delete", "start", "track"} => Exists(x)
         /\ client[c].u.cur = x => Exists(x)
BY DEF IInv, Pinned, Held

(* installTunnel up to the creation of the service. *)
LEMMA InstallKeeps ==
  ASSUME IInv, NEW c \in Clients,
         InstallOpens(c) \/ InstallFindsGone(c) \/ CreateFails(c) \/ WaitEnds(c)
  PROVE  IInv'
<1>k. client[c] \in ClientRecords
  BY DEF IInv, TypeOK
<1>1. ASSUME NEW pc \in ClientPcs, client' = [client EXCEPT ![c].pc = pc], OnlyClient,
             pc \in {"start", "track"} => FALSE, pc = "delete" => Exists(client[c].t)
      PROVE  IInv'
  <2> DEFINE r == [client[c] EXCEPT !.pc = pc]
  <2>1. r \in ClientRecords /\ r.pc = pc /\ r.t = client[c].t /\ r.u = client[c].u
    BY <1>k, PcType
  <2>2. client' = [client EXCEPT ![c] = r]
    BY <1>1
  <2> HIDE DEF r
  <2>3. \A x \in Tunnels : r.t = x /\ r.pc \in {"delete", "start", "track"} => Exists(x)
    BY <1>1, <2>1
  <2>4. \A x \in Tunnels : r.u.cur = x => Exists(x)
    BY <2>1, OwnHandles
  <2> QED BY <1>1, <2>1, <2>2, <2>3, <2>4, OnlyClientKeeps
<1>2. CASE InstallOpens(c)
  <2>1. CASE ~Exists(client[c].t)
    <3>1. client' = [client EXCEPT ![c].pc = "create"] /\ OnlyClient
      BY <1>2, <2>1 DEF InstallOpens
    <3> QED BY <3>1, <1>1 DEF ClientPcs
  <2>2. CASE Exists(client[c].t) /\ scm[client[c].t].state = "stopped"
    <3>1. client' = [client EXCEPT ![c].pc = "delete"] /\ OnlyClient
      BY <1>2, <2>2 DEF InstallOpens
    <3> QED BY <2>2, <3>1, <1>1 DEF ClientPcs
  <2>3. CASE Exists(client[c].t) /\ scm[client[c].t].state # "stopped"
    BY <1>2, <2>3, ReturnsKeeps DEF InstallOpens
  <2> QED BY <2>1, <2>2, <2>3
<1>3. CASE InstallFindsGone(c)
  BY <1>1, <1>3 DEF InstallFindsGone, ClientPcs
<1>4. CASE CreateFails(c)
  BY <1>4, ReturnsKeeps DEF CreateFails
<1>5. CASE WaitEnds(c)
  BY <1>5, ReturnsKeeps DEF WaitEnds
<1> QED BY <1>2, <1>3, <1>4, <1>5
(* Delete, Create and Start of the service. *)
LEMMA InstallServiceKeeps ==
  ASSUME IInv, NEW c \in Clients,
         InstallDeletes(c) \/ InstallCreates(c) \/ InstallStarts(c) \/ StartFails(c)
  PROVE  IInv'
<1> DEFINE t == client[c].t
<1>k. /\ client[c] \in ClientRecords /\ scm \in [Tunnels -> Services]
      /\ tracker \in [Tunnels -> Trackers] /\ stored \in SUBSET Tunnels
      /\ dbChanged \in BOOLEAN /\ haveQuit \in BOOLEAN /\ created \in Nat /\ restarts \in Nat
  BY DEF IInv, TypeOK
<1>i. \A x \in Tunnels : Idle.u.cur # x
  BY IdleType, NoTunnelAssumption
<1>m. /\ Marked(scm, t) \in [Tunnels -> Services]
      /\ \A x \in Tunnels : Marked(scm, t)[x].state = scm[x].state
  BY <1>k DEF Marked, Services
<1>n. New \in Services /\ New.state = "stopped"
  BY DEF New, Absent, Services, ServiceStates
<1>h. \A x \in Tunnels : /\ client[c].u.cur = x => Exists(x)
                         /\ t = x /\ client[c].pc \in {"delete", "start", "track"} => Exists(x)
  BY OwnHandles
<1>1. CASE InstallDeletes(c)
  <2> DEFINE r == [client[c] EXCEPT !.pc = "gone"]
  <2>1. r \in ClientRecords /\ r.pc = "gone" /\ r.u = client[c].u
    BY <1>k, PcType DEF ClientPcs
  <2>2. /\ client' = [client EXCEPT ![c] = r] /\ scm' = Marked(scm, t)
        /\ UNCHANGED <<stored, tracked, tracker, arriving, closing, stopper, dbChanged,
                       haveQuit, created, restarts>>
    BY <1>1 DEF InstallDeletes
  <2>3. \A x \in Tunnels : Exists(x) => Exists(x)'
    BY <1>m, <2>2 DEF Exists
  <2> HIDE DEF r
  <2>4. \A x \in Tunnels : r.u.cur = x => Exists(x)'
    BY <1>h, <2>1, <2>3
  <2> QED BY <1>k, <1>m, <2>1, <2>2, <2>3, <2>4, ClientKeeps
<1>2. CASE InstallCreates(c)
  <2> DEFINE r == [client[c] EXCEPT !.pc = "start"]
  <2>1. r \in ClientRecords /\ r.t = t /\ r.u = client[c].u
    BY <1>k, PcType DEF ClientPcs
  <2>2. /\ client' = [client EXCEPT ![c] = r]
        /\ scm' = [scm EXCEPT ![t] = New]
        /\ created' = created + 1 /\ dbChanged' = TRUE
        /\ UNCHANGED <<stored, tracked, tracker, arriving, closing, stopper, haveQuit, restarts>>
    BY <1>2 DEF InstallCreates
  <2>n. New \in Services /\ New.state = "stopped" /\ created' \in Nat
    BY <1>k, <1>n, <2>2
  <2>3. scm' \in [Tunnels -> Services] /\ dbChanged' \in BOOLEAN
    BY <1>k, <2>2, <2>n
  <2>4. \A x \in Tunnels : Exists(x) => Exists(x)'
    BY <1>k, <2>2, <2>n DEF Exists
  <2>5. \A x \in Tunnels : t = x => Exists(x)'
    BY <1>k, <2>2, <2>n DEF Exists
  <2> HIDE DEF r
  <2>6. \A x \in Tunnels : r.u.cur = x => Exists(x)'
    BY <1>h, <2>1, <2>4
  <2>7. \A x \in Tunnels : r.t = x /\ r.pc \in {"delete", "start", "track"} => Exists(x)'
    BY <2>1, <2>5
  <2> QED BY <1>k, <2>1, <2>2, <2>n, <2>3, <2>4, <2>6, <2>7, ClientKeeps
<1>3. CASE InstallStarts(c)
  <2> DEFINE r == [client[c] EXCEPT !.pc = "track"]
  <2>1. r \in ClientRecords /\ r.t = t /\ r.u = client[c].u
    BY <1>k, PcType DEF ClientPcs
  <2>2. /\ client' = [client EXCEPT ![c] = r]
        /\ scm' = [scm EXCEPT ![t].state = "startpending"]
        /\ tracker' = Queued(t, "startpending") /\ client[c].pc = "start"
        /\ UNCHANGED <<stored, tracked, arriving, closing, stopper, dbChanged, haveQuit,
                       created, restarts>>
    BY <1>3 DEF InstallStarts
  <2>3. scm' \in [Tunnels -> Services]
    BY <1>k, <2>2 DEF Services, ServiceStates
  <2>4. \A x \in Tunnels : Exists(x) => Exists(x)'
    BY <1>k, <2>2 DEF Exists, Services
  <2> HIDE DEF r
  <2>5. \A x \in Tunnels : (r.u.cur = x => Exists(x)') /\ (r.t = x => Exists(x)')
    BY <1>h, <2>1, <2>2, <2>4
  <2>6. /\ tracker' \in [Tunnels -> Trackers]
        /\ \A x \in Tunnels : tracker'[x].pc = tracker[x].pc /\ tracker'[x].seen = tracker[x].seen
    <3>1. CASE t \in Tunnels
      BY <1>k, <2>2, <3>1, QueuedFacts DEF ServiceStates
    <3>2. CASE t \notin Tunnels
      BY <1>k, <2>2, <3>2 DEF Queued
    <3> QED BY <3>1, <3>2
  <2> QED BY <1>k, <2>1, <2>2, <2>3, <2>4, <2>5, <2>6, ClientKeeps
<1>4. CASE StartFails(c)
  <2>1. /\ client' = [client EXCEPT ![c] = Idle] /\ scm' = Marked(scm, t)
        /\ UNCHANGED <<stored, tracked, tracker, arriving, closing, stopper, dbChanged,
                       haveQuit, created, restarts>>
    BY <1>4 DEF StartFails, Returns
  <2>2. \A x \in Tunnels : Exists(x) => Exists(x)'
    BY <1>m, <2>1 DEF Exists
  <2> QED BY <1>k, <1>m, <1>i, <2>1, <2>2, IdleType, ClientKeeps
<1> QED BY <1>1, <1>2, <1>3, <1>4
(* installTunnel hands its handle to trackTunnelService. *)
LEMMA InstallTracksKeeps ==
  ASSUME IInv, NEW c \in Clients, InstallTracks(c)
  PROVE  IInv'
<1> DEFINE t == client[c].t
<1>1. /\ client[c].pc = "track" /\ client' = [client EXCEPT ![c] = Idle]
      /\ arriving' = [arriving EXCEPT ![t] = arriving[t] + 1]
      /\ UNCHANGED <<stored, scm, tracked, tracker, closing, stopper, dbChanged, haveQuit,
                     created, restarts>>
  BY DEF InstallTracks, Returns
<1>a. arriving' \in [Tunnels -> Nat]
  <2>1. CASE t \in Tunnels
    <3>1. arriving[t] + 1 \in Nat
      BY <2>1 DEF IInv, TypeOK
    <3> QED BY <1>1, <3>1 DEF IInv, TypeOK
  <2>2. CASE t \notin Tunnels
    BY <1>1, <2>2 DEF IInv, TypeOK
  <2> QED BY <2>1, <2>2
<1>2. TypeOK'
  BY <1>1, <1>a, IdleType DEF IInv, TypeOK
<1>3. Pinned'
  <2> SUFFICES ASSUME NEW x \in Tunnels, Held(x)' PROVE Exists(x)
    BY <1>1 DEF Pinned, Exists
  <2>1. CASE x = t
    BY <1>1, <2>1, OwnHandles
  <2>2. CASE x # t
    <3>1. arriving'[x] = arriving[x]
      BY <1>1, <2>2 DEF IInv, TypeOK
    <3>2. Held(x)
      BY <1>1, <3>1, IdleType, NoTunnelAssumption DEF Held, IInv, TypeOK
    <3> QED BY <3>2 DEF IInv, Pinned
  <2> QED BY <2>1, <2>2
<1>4. TrackerPresent' /\ SeenState'
  BY <1>1 DEF IInv, TrackerPresent, SeenState
<1> QED BY <1>2, <1>3, <1>4 DEF IInv

(* Stop, Delete or Quit works through its list of names. *)
LEMMA UninstallKeeps ==
  ASSUME IInv, NEW c \in Clients, NEW t \in Tunnels, ClientUninstalls(c, t)
  PROVE  IInv'
<1>k. /\ client[c] \in ClientRecords /\ client[c].u \in Uninstalls
      /\ scm \in [Tunnels -> Services]
      /\ tracker \in [Tunnels -> Trackers] /\ stored \in SUBSET Tunnels
      /\ dbChanged \in BOOLEAN /\ haveQuit \in BOOLEAN /\ created \in Nat /\ restarts \in Nat
  BY DEF IInv, TypeOK, ClientRecords
<1>1. PICK u \in Uninstalls :
        /\ client' = [client EXCEPT ![c].u = u]
        /\ u.cur # NoTunnel => u.cur = t /\ Exists(t)
        /\ scm' \in {SentStop(scm, t), Marked(scm, t)}
  BY <1>k, UninstallType DEF ClientUninstalls
<1>2. /\ client[c].pc = "stop"
      /\ UNCHANGED <<stored, tracked, tracker, arriving, closing, stopper, dbChanged,
                     haveQuit, created, restarts>>
  BY DEF ClientUninstalls
<1> DEFINE r == [client[c] EXCEPT !.u = u]
<1>3. r \in ClientRecords /\ r.pc = "stop" /\ r.u = u
  BY <1>k, <1>2 DEF ClientRecords
<1>4. client' = [client EXCEPT ![c] = r]
  BY <1>1
<1>5. /\ scm' \in [Tunnels -> Services]
      /\ \A x \in Tunnels : scm'[x].state = scm[x].state
  BY <1>k, <1>1, SentStopFacts, MarkedFacts
<1> HIDE DEF r
<1>6. \A x \in Tunnels : Exists(x) => Exists(x)'
  BY <1>5 DEF Exists
<1>7. \A x \in Tunnels : r.u.cur = x => Exists(x)'
  BY <1>1, <1>3, <1>6, NoTunnelAssumption
<1> QED BY <1>k, <1>2, <1>3, <1>4, <1>5, <1>6, <1>7, ClientKeeps

(* A connection that has just called a method holds no handle. *)
LEMMA CallType ==
  ASSUME NEW op \in {"stop", "wait", "delete", "quit"}, NEW pc \in {"stop", "wait"},
         NEW x \in Tunnels \cup {NoTunnel}, NEW names \in SUBSET Tunnels
  PROVE  LET r == [pc |-> pc, op |-> op, t |-> x, u |-> Stopping(names)] IN
         r \in ClientRecords /\ r.pc \in {"stop", "wait"} /\ r.u.cur = NoTunnel
BY StoppingType DEF ClientRecords, ClientPcs

(* The calls that begin with the name of a tunnel. *)
LEMMA CallsKeep ==
  ASSUME IInv, NEW c \in Clients, NEW t \in Tunnels,
         Stop(c, t) \/ Delete(c, t) \/ WaitForStop(c, t) \/ Create(c, t)
  PROVE  IInv'
<1>c. ASSUME NEW op \in {"stop", "wait", "delete"}, NEW pc \in {"stop", "wait"},
             NEW names \in SUBSET Tunnels, Calls(c, op, pc, t, names), OnlyClient
      PROVE  IInv'
  <2> DEFINE r == [pc |-> pc, op |-> op, t |-> t, u |-> Stopping(names)]
  <2>1. r \in ClientRecords /\ r.pc \in {"stop", "wait"} /\ r.u.cur = NoTunnel
    BY CallType
  <2>2. client' = [client EXCEPT ![c] = r]
    BY <1>c DEF Calls
  <2> HIDE DEF r
  <2> QED BY <1>c, <2>1, <2>2, OnlyClientKeeps, NoTunnelAssumption
<1>1. CASE Stop(c, t)
  BY <1>1, <1>c DEF Stop
<1>2. CASE Delete(c, t)
  BY <1>2, <1>c DEF Delete
<1>3. CASE WaitForStop(c, t)
  BY <1>3, <1>c DEF WaitForStop
<1>4. CASE Create(c, t)
  <2>1. TypeOK'
    BY <1>4 DEF Create, IInv, TypeOK
  <2>2. \A x \in Tunnels : (Held(x)' <=> Held(x)) /\ (Exists(x)' <=> Exists(x))
    BY <1>4 DEF Create, Held, Exists
  <2>3. TrackerPresent' /\ SeenState'
    BY <1>4 DEF Create, IInv, TrackerPresent, SeenState
  <2> QED BY <2>1, <2>2, <2>3 DEF IInv, Pinned
<1> QED BY <1>1, <1>2, <1>3, <1>4

(* Quit begins with the list of stored tunnels or with none. *)
LEMMA QuitKeeps ==
  ASSUME IInv, NEW c \in Clients, Quit(c)
  PROVE  IInv'
<1>k. /\ scm \in [Tunnels -> Services]
      /\ tracker \in [Tunnels -> Trackers] /\ stored \in SUBSET Tunnels
      /\ dbChanged \in BOOLEAN /\ haveQuit \in BOOLEAN /\ created \in Nat /\ restarts \in Nat
  BY DEF IInv, TypeOK
<1>1. PICK names \in SUBSET Tunnels : Calls(c, "quit", "stop", NoTunnel, names)
  BY <1>k DEF Quit
<1>2. /\ haveQuit' = TRUE /\ restarts' = restarts + 1
      /\ UNCHANGED <<stored, scm, tracked, tracker, arriving, closing, stopper, dbChanged,
                     created>>
  BY DEF Quit
<1> DEFINE r == [pc |-> "stop", op |-> "quit", t |-> NoTunnel, u |-> Stopping(names)]
<1>3. r \in ClientRecords /\ r.pc \in {"stop", "wait"} /\ r.u.cur = NoTunnel
  BY CallType
<1>4. client' = [client EXCEPT ![c] = r]
  BY <1>1 DEF Calls
<1>5. \A x \in Tunnels : Exists(x) => Exists(x)'
  BY <1>2 DEF Exists
<1>6. haveQuit' \in BOOLEAN /\ restarts' \in Nat
  BY <1>k, <1>2
<1> HIDE DEF r
<1> QED BY <1>k, <1>2, <1>3, <1>4, <1>5, <1>6, ClientKeeps, NoTunnelAssumption

(* Stop and Delete return. *)
LEMMA ReturnKeeps ==
  ASSUME IInv, NEW c \in Clients, UninstallReturns(c)
  PROVE  IInv'
<1>k. /\ scm \in [Tunnels -> Services]
      /\ tracker \in [Tunnels -> Trackers] /\ stored \in SUBSET Tunnels
      /\ dbChanged \in BOOLEAN /\ haveQuit \in BOOLEAN /\ created \in Nat /\ restarts \in Nat
  BY DEF IInv, TypeOK
<1>i. \A x \in Tunnels : Idle.u.cur # x
  BY IdleType, NoTunnelAssumption
<1>1. /\ client' = [client EXCEPT ![c] = Idle]
      /\ UNCHANGED <<scm, tracked, tracker, arriving, closing, stopper, dbChanged, haveQuit,
                     created, restarts>>
  BY DEF UninstallReturns, Returns
<1>2. stored' \in SUBSET Tunnels
  BY <1>k DEF UninstallReturns
<1>3. \A x \in Tunnels : Exists(x) => Exists(x)'
  BY <1>1 DEF Exists
<1> QED BY <1>k, <1>i, <1>1, <1>2, <1>3, IdleType, ClientKeeps

(* Start up to InstallTunnel. *)
LEMMA StartKeeps ==
  ASSUME IInv, NEW c \in Clients, NEW t \in Tunnels, Start(c, t)
  PROVE  IInv'
<1> DEFINE r == [Idle EXCEPT !.pc = "open", !.op = "start", !.t = t]
           u == [Stopping(Intersecting(t)) EXCEPT !.again = Intersecting(t)]
<1>1. /\ client' = [client EXCEPT ![c] = r] /\ stopper' = [stopper EXCEPT ![c] = u]
      /\ UNCHANGED <<stored, scm, tracked, tracker, arriving, closing, dbChanged, haveQuit,
                     created, restarts>>
  BY DEF Start
<1>2. r \in ClientRecords /\ r.pc = "open" /\ r.u.cur = NoTunnel
  BY NothingType DEF Idle, ClientRecords, ClientPcs
<1>3. Intersecting(t) \subseteq Tunnels
  BY DEF Intersecting, IInv, TypeOK
<1>4. u \in Uninstalls /\ u.cur = NoTunnel
  BY <1>3 DEF Stopping, NothingToStop, Uninstalls
<1> HIDE DEF r, u
<1>5. TypeOK'
  BY <1>1, <1>2, <1>4 DEF IInv, TypeOK
<1>6. \A x \in Tunnels : (Held(x)' => Held(x)) /\ (Exists(x)' <=> Exists(x))
  BY <1>1, <1>2, <1>4, NoTunnelAssumption DEF Held, Exists, IInv, TypeOK
<1>7. TrackerPresent' /\ SeenState'
  BY <1>1 DEF IInv, TrackerPresent, SeenState
<1> QED BY <1>5, <1>6, <1>7 DEF IInv, Pinned

(* A new manager process begins without handles, or with those it opened. *)
LEMMA NewManagerKeeps ==
  ASSUME IInv, NewManager, restarts' \in Nat
  PROVE  IInv'
<1>1. NoTracker \in Trackers /\ NoTracker.pc = "none"
  <2>1. <<>> \in Seq(ServiceStates)
    OBVIOUS
  <2> QED BY <2>1 DEF NoTracker, Trackers, TrackerPcs, States
<1>2. TypeOK'
  BY <1>1, IdleType, NothingType DEF NewManager, IInv, TypeOK
<1>3. \A x \in Tunnels : Held(x)' => arriving'[x] > 0
  BY <1>1, IdleType, NothingType, NoTunnelAssumption DEF NewManager, Held
<1>4. \A x \in Tunnels : arriving'[x] > 0 => Exists(x)'
  BY DEF NewManager, Exists
<1>5. TrackerPresent' /\ SeenState'
  BY <1>1 DEF NewManager, TrackerPresent, SeenState
<1> QED BY <1>2, <1>3, <1>4, <1>5 DEF IInv, Pinned
(* A tracker goes on to a record r, with its handle open. *)
LEMMA TrackerKeeps ==
  ASSUME IInv, NEW t \in Tunnels, NEW r \in Trackers, NEW k \in States \cup {"none"},
         tracker' = [tracker EXCEPT ![t] = r], tracked' = [tracked EXCEPT ![t] = k],
         UNCHANGED <<stored, closing, client, stopper, dbChanged, haveQuit, created, restarts>>,
         arriving' \in [Tunnels -> Nat], \A x \in Tunnels : arriving'[x] <= arriving[x],
         scm' \in [Tunnels -> Services], \A x \in Tunnels : scm'[x].state = scm[x].state,
         Exists(t), r.pc # "none",
         r.pc \in {"callback", "compared"} => r.seen \in ServiceStates
  PROVE  IInv'
<1>1. TypeOK'
  BY DEF IInv, TypeOK
<1>2. \A x \in Tunnels : Exists(x)' <=> Exists(x)
  BY DEF Exists
<1>3. \A x \in Tunnels : Held(x)' => Held(x) \/ x = t
  <2> SUFFICES ASSUME NEW x \in Tunnels, x # t, Held(x)' PROVE Held(x)
    OBVIOUS
  <2>1. tracker'[x] = tracker[x] /\ arriving'[x] <= arriving[x] /\ closing'[x] = closing[x]
    BY DEF IInv, TypeOK
  <2>2. arriving[x] \in Nat /\ arriving'[x] \in Nat /\ closing[x] \in Nat
    BY DEF IInv, TypeOK
  <2>3. arriving'[x] + closing'[x] > 0 => arriving[x] + closing[x] > 0
    BY <2>1, <2>2
  <2> QED BY <2>1, <2>3 DEF Held
<1>4. Pinned'
  BY <1>2, <1>3 DEF IInv, Pinned
<1>5. TrackerPresent'
  BY DEF IInv, TrackerPresent, TypeOK
<1>6. SeenState'
  BY DEF IInv, SeenState, TypeOK
<1> QED BY <1>1, <1>4, <1>5, <1>6 DEF IInv

(* The same when only the position of the goroutine changes. *)
LEMMA TrackerPcKeeps ==
  ASSUME IInv, NEW t \in Tunnels, NEW pc \in TrackerPcs \ {"none"}, NEW k \in States \cup {"none"},
         TrackerPc(t, pc), tracked' = [tracked EXCEPT ![t] = k],
         UNCHANGED <<stored, closing, client, stopper, dbChanged, haveQuit, created, restarts>>,
         arriving' \in [Tunnels -> Nat], \A x \in Tunnels : arriving'[x] <= arriving[x],
         scm' \in [Tunnels -> Services], \A x \in Tunnels : scm'[x].state = scm[x].state,
         Exists(t), pc \in {"callback", "compared"} => tracker[t].seen \in ServiceStates
  PROVE  IInv'
<1> DEFINE r == [tracker[t] EXCEPT !.pc = pc]
<1>1. tracker[t] \in Trackers /\ tracker' = [tracker EXCEPT ![t] = r]
  BY DEF IInv, TypeOK, TrackerPc
<1>2. r \in Trackers /\ r.pc = pc /\ r.seen = tracker[t].seen
  BY <1>1 DEF Trackers
<1> HIDE DEF r
<1> QED BY <1>1, <1>2, TrackerKeeps

(* What the callback records is a tunnel state, and it moves no service. *)
LEMMA CallbackFacts ==
  ASSUME IInv, NEW t \in Tunnels, NEW s \in ServiceStates, Callback(t, s)
  PROVE  /\ scm' \in [Tunnels -> Services]
         /\ \A x \in Tunnels : scm'[x].state = scm[x].state
         /\ \E k \in States \cup {"none"} : tracked' = [tracked EXCEPT ![t] = k]
         /\ UNCHANGED <<stored, arriving, closing, client, stopper, dbChanged, haveQuit,
                        created, restarts>>
<1>1. scm \in [Tunnels -> Services] /\ tracked \in [Tunnels -> States \cup {"none"}]
  BY DEF IInv, TypeOK
<1>2. /\ scm' \in [Tunnels -> Services]
      /\ \A x \in Tunnels : scm'[x].state = scm[x].state
  BY <1>1, MarkedFacts DEF Callback
<1>3. tracked' = [tracked EXCEPT ![t] = TunState(s)] \/ tracked' = [tracked EXCEPT ![t] = tracked[t]]
  BY <1>1 DEF Callback, Record
<1>4. TunState(s) \in States \cup {"none"} /\ tracked[t] \in States \cup {"none"}
  BY <1>1, TunStateType
<1> QED BY <1>2, <1>3, <1>4 DEF Callback

(* The tracker goroutine and the notifications it is sent. *)
LEMMA TrackerStepsKeep ==
  ASSUME IInv, NEW t \in Tunnels, TrackerSteps(t) \/ TrackerNotified(t) \/ TrackerToldOfMark(t) \/ TrackerCloses(t)
  PROVE  IInv'
<1>k. /\ scm \in [Tunnels -> Services] /\ tracked \in [Tunnels -> States \cup {"none"}]
      /\ tracker \in [Tunnels -> Trackers] /\ tracker[t] \in Trackers
      /\ arriving \in [Tunnels -> Nat] /\ closing \in [Tunnels -> Nat]
      /\ \A x \in Tunnels : arriving[x] <= arriving[x]
  BY DEF IInv, TypeOK
<1>h. tracker[t].pc # "none" => Exists(t)
  BY DEF IInv, Pinned, Held
<1>s. tracked[t] \in States \cup {"none"} /\ tracked = [tracked EXCEPT ![t] = tracked[t]]
  BY <1>k
<1>p. ASSUME NEW pc \in TrackerPcs \ {"none"}, TrackerPc(t, pc), OnlyTracker,
             tracker[t].pc # "none",
             pc \in {"callback", "compared"} => tracker[t].seen \in ServiceStates
      PROVE  IInv'
  BY <1>k, <1>h, <1>s, <1>p, TrackerPcKeeps DEF OnlyTracker
<1>1. CASE TrackerArrives(t)
  <2>1. Exists(t)
    <3>1. arriving[t] + closing[t] > 0
      BY <1>1, <1>k DEF TrackerArrives
    <3> QED BY <3>1 DEF IInv, Pinned, Held
  <2>2. /\ arriving' = [arriving EXCEPT ![t] = arriving[t] - 1]
        /\ UNCHANGED <<stored, scm, closing, client, stopper, dbChanged, haveQuit, created,
                       restarts>>
    BY <1>1 DEF TrackerArrives
  <2>3. arriving' \in [Tunnels -> Nat] /\ \A x \in Tunnels : arriving'[x] <= arriving[x]
    <3>1. arriving[t] - 1 \in Nat /\ arriving[t] - 1 <= arriving[t]
      BY <1>1, <1>k DEF TrackerArrives
    <3> QED BY <3>1, <2>2, <1>k
  <2>4. CASE tracked[t] # "none"
    <3>1. tracked' = tracked /\ tracker' = [tracker EXCEPT ![t] = tracker[t]]
      BY <1>1, <2>4, <1>k DEF TrackerArrives
    <3>2. tracker[t].pc # "none"
      BY <2>4 DEF IInv, TrackerPresent
    <3>3. tracker[t].pc \in {"callback", "compared"} => tracker[t].seen \in ServiceStates
      BY DEF IInv, SeenState
    <3> QED BY <1>k, <1>s, <2>1, <2>2, <2>3, <3>1, <3>2, <3>3, TrackerKeeps
  <2>5. CASE tracked[t] = "none"
    <3>1. tracked' = [tracked EXCEPT ![t] = "unknown"] /\ TrackerPc(t, "settle")
      BY <1>1, <2>5 DEF TrackerArrives
    <3>2. "settle" \in TrackerPcs \ {"none"} /\ "unknown" \in States \cup {"none"}
      BY DEF TrackerPcs, States
    <3> QED BY <1>k, <2>1, <2>2, <2>3, <3>1, <3>2, TrackerPcKeeps
  <2> QED BY <2>4, <2>5
<1>2. CASE TrackerSettles(t) \/ TrackerChecks(t) \/ TrackerSubscribes(t) \/ TrackerWakes(t)
  BY <1>2, <1>p DEF TrackerSettles, TrackerChecks, TrackerSubscribes, TrackerWakes, TrackerPcs
<1>3. CASE TrackerFindsDisabled(t)
  <2>1. /\ tracker[t].pc # "none" /\ TrackerPc(t, "forget")
        /\ tracked' = [tracked EXCEPT ![t] = "stopped"]
        /\ UNCHANGED <<stored, scm, arriving, closing, client, stopper, dbChanged, haveQuit,
                       created, restarts>>
    BY <1>3 DEF TrackerFindsDisabled, Record
  <2>2. "forget" \in TrackerPcs \ {"none"} /\ "stopped" \in States \cup {"none"}
    BY DEF TrackerPcs, States
  <2> QED BY <1>k, <1>h, <2>1, <2>2, TrackerPcKeeps
<1>4. CASE SubscribeFails(t)
  <2>1. /\ tracker[t].pc # "none" /\ TrackerPc(t, "forget") /\ scm' = SentStop(scm, t)
        /\ tracked' = [tracked EXCEPT ![t] = "stopped"]
        /\ UNCHANGED <<stored, arriving, closing, client, stopper, dbChanged, haveQuit,
                       created, restarts>>
    BY <1>4 DEF SubscribeFails, Record
  <2>2. "forget" \in TrackerPcs \ {"none"} /\ "stopped" \in States \cup {"none"}
    BY DEF TrackerPcs, States
  <2>3. scm' \in [Tunnels -> Services] /\ \A x \in Tunnels : scm'[x].state = scm[x].state
    BY <1>k, <2>1, SentStopFacts
  <2> QED BY <1>k, <1>h, <2>1, <2>2, <2>3, TrackerPcKeeps
<1>5. CASE TrackerQueries(t)
  <2> DEFINE r == [tracker[t] EXCEPT !.seen = scm[t].state, !.pc = "callback"]
  <2>1. tracker[t].pc # "none" /\ OnlyTracker /\ tracker' = [tracker EXCEPT ![t] = r]
    BY <1>5 DEF TrackerQueries
  <2>2. scm[t].state \in ServiceStates /\ Exists(t)
    BY <1>k, <1>h, <2>1, ExistingState DEF Exists
  <2>3. r \in Trackers /\ r.pc = "callback" /\ r.seen = scm[t].state
    BY <1>k, <2>2 DEF Trackers, TrackerPcs
  <2> HIDE DEF r
  <2> QED BY <1>k, <1>s, <2>1, <2>2, <2>3, TrackerKeeps DEF OnlyTracker
<1>6. CASE TrackerCallback(t)
  <2>1. tracker[t].seen \in ServiceStates /\ Exists(t)
    BY <1>6, <1>h DEF TrackerCallback, IInv, SeenState
  <2>2. PICK pc \in TrackerPcs \ {"none"} : TrackerPc(t, pc)
    BY <1>6 DEF TrackerCallback, TrackerPcs
  <2>3. Callback(t, tracker[t].seen)
    BY <1>6 DEF TrackerCallback
  <2>4. PICK k \in States \cup {"none"} : tracked' = [tracked EXCEPT ![t] = k]
    BY <2>1, <2>3, CallbackFacts
  <2> QED BY <1>k, <2>1, <2>2, <2>3, <2>4, CallbackFacts, TrackerPcKeeps
<1>7. CASE TrackerCompared(t)
  <2> DEFINE r == [tracker[t] EXCEPT !.last = TunState(tracker[t].seen), !.pc = "wait"]
  <2>1. tracker[t].pc = "compared" /\ OnlyTracker /\ tracker' = [tracker EXCEPT ![t] = r]
    BY <1>7 DEF TrackerCompared
  <2>2. TunState(tracker[t].seen) \in States /\ Exists(t)
    BY <1>h, <2>1, TunStateType DEF IInv, SeenState
  <2>3. r \in Trackers /\ r.pc = "wait"
    BY <1>k, <2>2 DEF Trackers, TrackerPcs
  <2> HIDE DEF r
  <2> QED BY <1>k, <1>s, <2>1, <2>2, <2>3, TrackerKeeps DEF OnlyTracker
<1>8. CASE TrackerNotified(t)
  <2> DEFINE s == Head(tracker[t].queue)
             l == IF tracker[t].once THEN tracker[t].last ELSE TunState(s)
             o == tracker[t].once \/ s = "stopped"
             r == [tracker[t] EXCEPT !.queue = Tail(@), !.last = l, !.once = o]
  <2>1. /\ tracker[t].pc # "none" /\ tracker[t].queue # <<>>
        /\ tracker' = [tracker EXCEPT ![t] = r]
    BY <1>8 DEF TrackerNotified, Subscribed
  <2>2. tracker[t].queue \in Seq(ServiceStates) /\ tracker[t].last \in States
        /\ tracker[t].once \in BOOLEAN
    BY <1>k DEF Trackers
  <2>3. s \in ServiceStates /\ Tail(tracker[t].queue) \in Seq(ServiceStates)
    BY <2>1, <2>2
  <2>4. l \in States /\ o \in BOOLEAN
    BY <2>2, <2>3, TunStateType
  <2>5. r \in Trackers /\ r.pc = tracker[t].pc /\ r.seen = tracker[t].seen
    <3> HIDE DEF l, o, s
    <3> QED BY <1>k, <2>3, <2>4, Zenon DEF Trackers
  <2>6. /\ scm' \in [Tunnels -> Services]
        /\ \A x \in Tunnels : scm'[x].state = scm[x].state
        /\ \E k \in States \cup {"none"} : tracked' = [tracked EXCEPT ![t] = k]
        /\ UNCHANGED <<stored, arriving, closing, client, stopper, dbChanged, haveQuit,
                       created, restarts>>
    <3>1. CASE tracker[t].once
      BY <1>8, <3>1, <1>k, <1>s DEF TrackerNotified
    <3>2. CASE ~tracker[t].once
      <4>1. Callback(t, s)
        BY <1>8, <3>2 DEF TrackerNotified
      <4> HIDE DEF s
      <4> QED BY <2>3, <4>1, CallbackFacts
    <3> QED BY <3>1, <3>2
  <2>7. tracker[t].pc \in {"callback", "compared"} => tracker[t].seen \in ServiceStates
    BY DEF IInv, SeenState
  <2>8. PICK k \in States \cup {"none"} : tracked' = [tracked EXCEPT ![t] = k]
    BY <2>6
  <2> HIDE DEF r, s, l, o
  <2> QED BY <1>k, <1>h, <2>1, <2>5, <2>6, <2>7, <2>8, TrackerKeeps
<1>9. CASE TrackerForgets(t)
  <2>1. NoTracker \in Trackers /\ NoTracker.pc = "none"
    <3>1. <<>> \in Seq(ServiceStates)
      OBVIOUS
    <3> QED BY <3>1 DEF NoTracker, Trackers, TrackerPcs, States
  <2>2. TypeOK'
    BY <1>9, <1>k, <2>1 DEF TrackerForgets, IInv, TypeOK
  <2>3. Exists(t) /\ \A x \in Tunnels : Exists(x)' <=> Exists(x)
    BY <1>9, <1>h DEF TrackerForgets, Exists
  <2>4. \A x \in Tunnels : Held(x)' => Held(x) \/ x = t
    BY <1>9, <1>k DEF TrackerForgets, Held
  <2>5. Pinned'
    BY <2>3, <2>4 DEF IInv, Pinned
  <2>6. TrackerPresent' /\ SeenState'
    BY <1>9, <1>k, <2>1 DEF TrackerForgets, IInv, TrackerPresent, SeenState
  <2> QED BY <2>2, <2>5, <2>6 DEF IInv
<1>10. CASE TrackerCloses(t)
  <2>1. closing[t] - 1 \in Nat /\ closing' = [closing EXCEPT ![t] = closing[t] - 1]
    BY <1>10, <1>k DEF TrackerCloses
  <2>2. TypeOK'
    BY <1>10, <1>k, <2>1 DEF TrackerCloses, IInv, TypeOK
  <2>3. \A x \in Tunnels : Held(x)' => Held(x)
    BY <1>10, <1>k DEF TrackerCloses, Held
  <2>4. Pinned'
    BY <1>10, <2>3 DEF TrackerCloses, IInv, Pinned, Exists
  <2>5. TrackerPresent' /\ SeenState'
    BY <1>10 DEF TrackerCloses, IInv, TrackerPresent, SeenState
  <2> QED BY <2>2, <2>4, <2>5 DEF IInv
<1>11. CASE TrackerToldOfMark(t)
  <2> DEFINE r == [tracker[t] EXCEPT !.last = "stopping"]
  <2>1. /\ tracker[t].pc # "none" /\ tracker' = [tracker EXCEPT ![t] = r]
        /\ tracked' = [tracked EXCEPT ![t] = "stopping"]
        /\ UNCHANGED <<stored, scm, arriving, closing, client, stopper, dbChanged, haveQuit,
                       created, restarts>>
    BY <1>11 DEF TrackerToldOfMark, Subscribed, Record
  <2>2. "stopping" \in States
    BY DEF States
  <2>3. r \in Trackers /\ r.pc = tracker[t].pc /\ r.seen = tracker[t].seen
    BY <1>k, <2>2 DEF Trackers
  <2>4. tracker[t].pc \in {"callback", "compared"} => tracker[t].seen \in ServiceStates
    BY DEF IInv, SeenState
  <2> HIDE DEF r
  <2> QED BY <1>k, <1>h, <2>1, <2>2, <2>3, <2>4, TrackerKeeps
<1> QED BY <1>1, <1>2, <1>3, <1>4, <1>5, <1>6, <1>7, <1>8, <1>9, <1>10, <1>11 DEF TrackerSteps
(* trackExistingTunnels opens the services it finds. *)
LEMMA TrackExistingKeeps ==
  ASSUME IInv, TrackExistingTunnels
  PROVE  IInv'
<1>1. arriving' = [x \in Tunnels |->
        IF x \in stored /\ tracked[x] = "none" /\ Exists(x) THEN arriving[x] + 1 ELSE arriving[x]]
  BY DEF TrackExistingTunnels
<1>2. /\ dbChanged' = FALSE
      /\ UNCHANGED <<stored, scm, tracked, tracker, closing, client, stopper, haveQuit, created,
                     restarts>>
  BY DEF TrackExistingTunnels
<1>3. \A x \in Tunnels : arriving[x] \in Nat /\ closing[x] \in Nat
  BY DEF IInv, TypeOK
<1>4. arriving' \in [Tunnels -> Nat]
  BY <1>1, <1>3
<1>5. TypeOK'
  BY <1>2, <1>4 DEF IInv, TypeOK
<1>6. \A x \in Tunnels : Held(x)' => Held(x) \/ Exists(x)
  BY <1>1, <1>2, <1>3 DEF Held
<1>7. Pinned'
  BY <1>2, <1>6 DEF IInv, Pinned, Exists
<1>8. TrackerPresent' /\ SeenState'
  BY <1>2 DEF IInv, TrackerPresent, SeenState
<1> QED BY <1>5, <1>7, <1>8 DEF IInv

(* The invariant holds when the manager starts for the first time. *)
LEMMA InitEstablishes == Init => IInv
<1> SUFFICES ASSUME Init PROVE IInv
  OBVIOUS
<1>1. NoTracker \in Trackers /\ NoTracker.pc = "none"
  <2>1. <<>> \in Seq(ServiceStates)
    OBVIOUS
  <2> QED BY <2>1 DEF NoTracker, Trackers, TrackerPcs, States
<1>2. Absent \in Services
  BY DEF Absent, Services, ServiceStates
<1>3. TypeOK
  <2>1. restarts \in Nat
    BY BoundAssumption DEF Init
  <2> QED BY <1>1, <1>2, <2>1, IdleType, NothingType DEF Init, TypeOK
<1>4. \A x \in Tunnels : ~Held(x)
  BY <1>1, IdleType, NothingType, NoTunnelAssumption DEF Init, Held
<1>5. TrackerPresent /\ SeenState
  BY <1>1 DEF Init, TrackerPresent, SeenState
<1> QED BY <1>3, <1>4, <1>5 DEF IInv, Pinned

(* Every step of the manager, its connections and its environment keeps the invariant. *)
LEMMA NextKeeps == IInv /\ [Next]_vars => IInv'
<1> SUFFICES ASSUME IInv, [Next]_vars PROVE IInv'
  OBVIOUS
<1>1. CASE UNCHANGED vars
  <2>1. UNCHANGED <<stored, scm, tracked, tracker, arriving, closing, client, stopper,
                    dbChanged, haveQuit, created, restarts>>
    BY <1>1 DEF vars
  <2>2. TypeOK'
    BY <2>1 DEF IInv, TypeOK
  <2>3. \A x \in Tunnels : (Held(x)' <=> Held(x)) /\ (Exists(x)' <=> Exists(x))
    BY <2>1 DEF Held, Exists
  <2>4. TrackerPresent' /\ SeenState'
    BY <2>1 DEF IInv, TrackerPresent, SeenState
  <2> QED BY <2>2, <2>3, <2>4 DEF IInv, Pinned
<1>2. CASE \E t \in Tunnels : ServiceProgress(t) \/ ServiceFails(t) \/ ServiceRemoved(t)
  BY <1>2, EnvironmentKeeps
<1>3. CASE \E t \in Tunnels : TrackerSteps(t) \/ TrackerNotified(t) \/ TrackerToldOfMark(t) \/ TrackerCloses(t)
  BY <1>3, TrackerStepsKeep
<1>4. ASSUME NEW c \in Clients, ClientSteps(c) PROVE IInv'
  <2>1. CASE InstallOpens(c) \/ InstallFindsGone(c) \/ CreateFails(c) \/ WaitEnds(c)
    BY <2>1, InstallKeeps
  <2>2. CASE InstallDeletes(c) \/ InstallCreates(c) \/ InstallStarts(c) \/ StartFails(c)
    BY <2>2, InstallServiceKeeps
  <2>3. CASE InstallTracks(c)
    BY <2>3, InstallTracksKeeps
  <2>4. CASE \E t \in Tunnels : ClientUninstalls(c, t)
    BY <2>4, UninstallKeeps
  <2>5. CASE UninstallReturns(c)
    BY <2>5, ReturnKeeps
  <2>6. CASE QuitEnds(c)
    <3>1. NewManager /\ restarts' \in Nat
      BY <2>6 DEF QuitEnds, IInv, TypeOK
    <3> QED BY <3>1, NewManagerKeeps
  <2> QED BY <1>4, <2>1, <2>2, <2>3, <2>4, <2>5, <2>6 DEF ClientSteps
<1>5. ASSUME NEW c \in Clients, Quit(c) PROVE IInv'
  BY <1>5, QuitKeeps
<1>6. ASSUME NEW c \in Clients, NEW t \in Tunnels,
             Start(c, t) \/ Stop(c, t) \/ Delete(c, t) \/ WaitForStop(c, t)
             \/ Create(c, t) \/ StopperStep(c, t)
      PROVE  IInv'
  BY <1>6, StartKeeps, CallsKeep, StopperKeeps
<1>7. CASE TrackExistingTunnels
  BY <1>7, TrackExistingKeeps
<1>8. CASE Crash
  <2>1. NewManager /\ restarts' \in Nat
    BY <1>8 DEF Crash, IInv, TypeOK
  <2> QED BY <2>1, NewManagerKeeps
<1> QED BY <1>1, <1>2, <1>3, <1>4, <1>5, <1>6, <1>7, <1>8 DEF Next

(***************************************************************************)
(* The invariant holds in every state of every manager, whatever the set   *)
(* of tunnels, the connections and the methods they call.                  *)
(***************************************************************************)
THEOREM InvariantHolds == Spec => []IInv
<1>1. Init => IInv
  BY InitEstablishes
<1>2. IInv /\ [Next]_vars => IInv'
  BY NextKeeps
<1> QED BY <1>1, <1>2, PTL DEF Spec

(***************************************************************************)
(* The variables keep their types, in particular a tracker never records   *)
(* the state of a service that is gone (tunneltracker.go:95-125), and a    *)
(* name is in trackedTunnels only while its service exists                 *)
(* (tunneltracker.go:136-146).                                             *)
(***************************************************************************)
THEOREM TrackersAreSafe == Spec => []TrackersSafe
<1>1. IInv => TrackersSafe
  BY DEF IInv, Pinned, TrackerPresent, TrackedIsPinned, TrackersSafe, Held
<1> QED BY <1>1, InvariantHolds, PTL

-----------------------------------------------------------------------------
(***************************************************************************)
(* No service is left without a tracker.                                   *)
(*                                                                         *)
(* A manager that starts anew looks for services by the names of the       *)
(* stored profiles, so a service whose profile was deleted while it was    *)
(* being started is not found, and it stays unknown when a profile of that *)
(* name is created again: either no profile is deleted, or the manager     *)
(* does not end.  A tracker that settles before a slow Service.Start       *)
(* returns, or that cannot subscribe, gives up on a service that runs.     *)
(***************************************************************************)
NoDeletes == \A c \in Clients : "delete" \notin Methods[c]
OneManager == MaxRestarts = 0

(* No profile goes that a new manager would have to look for. *)
ProfilesStay ==
  /\ NoDeletes => stored = Tunnels /\ \A c \in Clients : client[c].op # "delete"
  /\ OneManager => restarts = 0 /\ \A c \in Clients : client[c].op # "quit"

(* installTunnel works on the service of a tunnel. *)
Installing ==
  \A c \in Clients :
    client[c].pc \in {"open", "delete", "gone", "create", "start", "track"} =>
      client[c].t \in Tunnels

(* One connection starts a service it has created, before its tracker, if  *)
(* there is one already, goes on.                                          *)
StartsIt(c, t) == client[c].pc = "start" /\ client[c].t = t

OneStarter ==
  \A c \in Clients, t \in Tunnels : StartsIt(c, t) =>
    /\ scm[t].state = "stopped" /\ tracker[t].pc \in {"none", "settle"}
    /\ \A d \in Clients : StartsIt(d, t) => d = c

(* A name that is not in the map has no tracker. *)
InMap == \A t \in Tunnels : tracked[t] = "none" => tracker[t].pc = "none"

(* A tracker that has not subscribed was told nothing. *)
Untold(r) ==
  r.pc \in {"none", "settle", "check", "subscribe"} => r.queue = <<>> /\ ~r.once

FreshTracker == \A t \in Tunnels : Untold(tracker[t])

(* The service has stopped for good, or is disabled. *)
Ended(t) == scm[t].state = "stopped" \/ scm[t].marked

(* What a tracker goes by when it lets its service go. *)
SeesTheEnd(r) ==
  \/ r.pc \in {"callback", "compared"} /\ r.seen = "stopped"
  \/ r.pc = "forget" \/ r.once
  \/ \E i \in 1 .. Len(r.queue) : r.queue[i] = "stopped"

SawTheEnd == \A t \in Tunnels : SeesTheEnd(tracker[t]) => Ended(t)

(* A service that has not ended has a tracker, or one is on its way. *)
Follows(t) ==
  \/ tracked[t] # "none"
  \/ arriving[t] > 0
  \/ \E c \in Clients : client[c].pc = "track" /\ client[c].t = t

Followed == \A t \in Tunnels : Exists(t) /\ ~Ended(t) => Follows(t)

FollowInv == Installing /\ OneStarter /\ InMap /\ FreshTracker /\ SawTheEnd /\ Followed

(* A tracker that was told nothing has not seen the end. *)
LEMMA UntoldSeesNothing ==
  ASSUME NEW r \in Trackers, r.pc \in {"none", "settle", "check", "subscribe", "query"},
         r.queue = <<>>, ~r.once
  PROVE  ~SeesTheEnd(r)
BY DEF SeesTheEnd

(* A step that changes no state of a service and no tracker, and lets no   *)
(* connection begin to start or stop being about to track.                 *)
LEMMA FollowKept ==
  ASSUME IInv, FollowInv, UNCHANGED <<tracker, tracked>>,
         \A x \in Tunnels : /\ scm'[x].state = scm[x].state
                            /\ scm[x].marked => scm'[x].marked
                            /\ arriving[x] > 0 => arriving'[x] > 0,
         \A c \in Clients : \/ client'[c] = client[c]
                            \/ /\ client[c].pc # "track"
                               /\ client'[c].pc \notin {"start", "track"}
                               /\ client'[c].pc \in {"open", "delete", "gone", "create"} =>
                                    client'[c].t \in Tunnels
  PROVE  FollowInv'
<1>1. Installing'
  BY DEF FollowInv, Installing
<1>2. \A c \in Clients, t \in Tunnels : StartsIt(c, t)' => StartsIt(c, t)
  BY DEF StartsIt
<1>3. OneStarter'
  BY <1>2 DEF FollowInv, OneStarter
<1>4. InMap' /\ FreshTracker'
  BY DEF FollowInv, InMap, FreshTracker
<1>5. \A t \in Tunnels : Ended(t) => Ended(t)'
  BY DEF Ended
<1>6. SawTheEnd'
  BY <1>5 DEF FollowInv, SawTheEnd
<1>7. \A t \in Tunnels : Follows(t) => Follows(t)'
  BY DEF Follows
<1>8. Followed'
  BY <1>5, <1>7 DEF FollowInv, Followed, Exists
<1> QED BY <1>1, <1>3, <1>4, <1>6, <1>8 DEF FollowInv

(* The tunnel process moves its service from a state it is running in. *)
LEMMA ServiceMoves ==
  ASSUME IInv, FollowInv, NEW t \in Tunnels, NEW s \in Services, s.state \in ServiceStates,
         ServiceStep(t, s), scm[t].state \in {"startpending", "running", "stoppending"},
         s.marked = scm[t].marked
  PROVE  FollowInv'
<1>k. /\ scm \in [Tunnels -> Services] /\ tracker \in [Tunnels -> Trackers]
      /\ tracker[t] \in Trackers /\ tracker[t].queue \in Seq(ServiceStates)
  BY DEF IInv, TypeOK, Trackers
<1>1. /\ scm' = [scm EXCEPT ![t] = s]
      /\ UNCHANGED <<stored, tracked, arriving, closing, client, stopper>>
  BY DEF ServiceStep
<1>2. PICK r \in Trackers :
        /\ tracker' = [tracker EXCEPT ![t] = r]
        /\ r.pc = tracker[t].pc /\ Untold(r)
        /\ SeesTheEnd(r) => SeesTheEnd(tracker[t]) \/ s.state = "stopped"
  <2>1. CASE tracker' = tracker
    <3>1. tracker' = [tracker EXCEPT ![t] = tracker[t]]
      BY <1>k, <2>1
    <3> QED BY <1>k, <3>1 DEF FollowInv, FreshTracker
  <2>2. CASE tracker' # tracker
    <3> DEFINE q == Append(tracker[t].queue, s.state)
               r == [tracker[t] EXCEPT !.queue = q]
    <3>1. Subscribed(t) /\ tracker' = [tracker EXCEPT ![t] = r]
      BY <2>2 DEF ServiceStep, Queued
    <3>2. /\ q \in Seq(ServiceStates)
          /\ \A i \in 1 .. Len(q) : q[i] = "stopped" =>
               s.state = "stopped" \/ \E j \in 1 .. Len(tracker[t].queue) : tracker[t].queue[j] = "stopped"
      BY <1>k
    <3> HIDE DEF q
    <3>3. /\ r \in Trackers /\ r.pc = tracker[t].pc /\ r.seen = tracker[t].seen
          /\ r.once = tracker[t].once /\ r.queue = q
      BY <1>k, <3>2 DEF Trackers
    <3> HIDE DEF r
    <3>4. Untold(r)
      BY <3>1, <3>3 DEF Subscribed, Untold
    <3>5. SeesTheEnd(r) => SeesTheEnd(tracker[t]) \/ s.state = "stopped"
      BY <3>2, <3>3 DEF SeesTheEnd
    <3> QED BY <3>1, <3>3, <3>4, <3>5
  <2> QED BY <2>1, <2>2
<1>3. Installing'
  BY <1>1 DEF FollowInv, Installing
<1>4. OneStarter'
  <2> SUFFICES ASSUME NEW c \in Clients, NEW x \in Tunnels, StartsIt(c, x)'
               PROVE  /\ scm'[x].state = "stopped" /\ tracker'[x].pc \in {"none", "settle"}
                      /\ \A d \in Clients : StartsIt(d, x)' => d = c
    BY DEF OneStarter
  <2>1. /\ scm[x].state = "stopped" /\ tracker[x].pc \in {"none", "settle"}
        /\ \A d \in Clients : StartsIt(d, x) => d = c
    BY <1>1 DEF FollowInv, OneStarter, StartsIt
  <2>2. x # t
    BY <2>1
  <2> QED BY <1>k, <1>1, <1>2, <2>1, <2>2 DEF StartsIt
<1>5. InMap'
  BY <1>k, <1>1, <1>2 DEF FollowInv, InMap
<1>6. FreshTracker'
  BY <1>k, <1>1, <1>2 DEF FollowInv, FreshTracker
<1>7. \A x \in Tunnels : x # t => (Ended(x)' <=> Ended(x)) /\ (Exists(x)' <=> Exists(x))
  BY <1>k, <1>1 DEF Ended, Exists
<1>8. /\ s.state = "stopped" => Ended(t)'
      /\ Ended(t) => Ended(t)'
      /\ Exists(t)
  BY <1>k, <1>1 DEF Ended, Exists
<1>9. SawTheEnd'
  <2> SUFFICES ASSUME NEW x \in Tunnels, SeesTheEnd(tracker'[x]) PROVE Ended(x)'
    BY DEF SawTheEnd
  <2>1. CASE x = t
    BY <1>k, <1>2, <1>8, <2>1 DEF FollowInv, SawTheEnd
  <2>2. CASE x # t
    BY <1>k, <1>2, <1>7, <2>2 DEF FollowInv, SawTheEnd
  <2> QED BY <2>1, <2>2
<1>10. Followed'
  <2>1. \A x \in Tunnels : Follows(x)' <=> Follows(x)
    BY <1>1 DEF Follows
  <2> QED BY <1>7, <1>8, <2>1 DEF FollowInv, Followed
<1> QED BY <1>3, <1>4, <1>5, <1>6, <1>9, <1>10 DEF FollowInv

(* The environment's steps of one service. *)
LEMMA EnvironmentFollows ==
  ASSUME IInv, FollowInv, NEW t \in Tunnels,
         ServiceProgress(t) \/ ServiceFails(t) \/ ServiceRemoved(t)
  PROVE  FollowInv'
<1>1. scm[t] \in Services
  BY DEF IInv, TypeOK
<1>2. CASE ServiceAccepts(t)
  <2> DEFINE s == [scm[t] EXCEPT !.accepts = TRUE]
  <2>1. s \in Services /\ s.state \in ServiceStates /\ s.marked = scm[t].marked
    BY <1>1, <1>2 DEF ServiceAccepts, Services, ServiceStates
  <2> QED BY <1>2, <2>1, ServiceMoves DEF ServiceAccepts
<1>3. CASE ServiceRuns(t)
  <2> DEFINE s == [scm[t] EXCEPT !.state = "running"]
  <2>1. s \in Services /\ s.state \in ServiceStates /\ s.marked = scm[t].marked
    BY <1>1 DEF Services, ServiceStates
  <2> QED BY <1>3, <2>1, ServiceMoves DEF ServiceRuns
<1>4. CASE ServiceStops(t)
  <2> DEFINE s == [scm[t] EXCEPT !.state = "stoppending", !.accepts = FALSE]
  <2>1. s \in Services /\ s.state \in ServiceStates /\ s.marked = scm[t].marked
    BY <1>1 DEF Services, ServiceStates
  <2> QED BY <1>4, <2>1, ServiceMoves DEF ServiceStops
<1>5. CASE ServiceEnds(t)
  <2> DEFINE s == [scm[t] EXCEPT !.state = "stopped"]
  <2>1. s \in Services /\ s.state \in ServiceStates /\ s.marked = scm[t].marked
    BY <1>1 DEF Services, ServiceStates
  <2> QED BY <1>5, <2>1, ServiceMoves DEF ServiceEnds
<1>6. CASE ServiceFails(t)
  <2> DEFINE s == [scm[t] EXCEPT !.state = "stoppending", !.accepts = FALSE, !.failed = TRUE]
  <2>1. s \in Services /\ s.state \in ServiceStates /\ s.marked = scm[t].marked
    BY <1>1 DEF Services, ServiceStates
  <2> QED BY <1>6, <2>1, ServiceMoves DEF ServiceFails
<1>7. CASE ServiceRemoved(t)
  <2>1. /\ scm \in [Tunnels -> Services] /\ tracker[t] \in Trackers /\ ~Held(t)
        /\ scm' = [scm EXCEPT ![t] = Absent]
        /\ UNCHANGED <<stored, tracked, tracker, arriving, closing, client, stopper>>
    BY <1>7 DEF ServiceRemoved, IInv, TypeOK
  <2>2. \A c \in Clients, x \in Tunnels : StartsIt(c, x)' => StartsIt(c, x) /\ x # t
    BY <2>1 DEF StartsIt, Held
  <2>3. \A x \in Tunnels : x # t => scm'[x] = scm[x]
    BY <2>1
  <2>4. OneStarter'
    BY <2>1, <2>2, <2>3 DEF FollowInv, OneStarter
  <2>5. Installing' /\ InMap' /\ FreshTracker'
    BY <2>1 DEF FollowInv, Installing, InMap, FreshTracker
  <2>6. SawTheEnd'
    <3> SUFFICES ASSUME NEW x \in Tunnels, SeesTheEnd(tracker[x]) PROVE Ended(x)'
      BY <2>1 DEF SawTheEnd
    <3>1. x # t
      BY <2>1, UntoldSeesNothing DEF Held, FollowInv, FreshTracker, Untold
    <3> QED BY <2>3, <3>1 DEF FollowInv, SawTheEnd, Ended
  <2>7. Followed'
    <3>1. \A x \in Tunnels : Follows(x)' <=> Follows(x)
      BY <2>1 DEF Follows
    <3>2. ~Exists(t)'
      BY <2>1 DEF Exists, Absent
    <3> QED BY <2>3, <3>1, <3>2 DEF FollowInv, Followed, Exists, Ended
  <2> QED BY <2>4, <2>5, <2>6, <2>7 DEF FollowInv
<1> QED BY <1>2, <1>3, <1>4, <1>5, <1>6, <1>7 DEF ServiceProgress

(* A stopper, or a method, between two calls that begin or track a service. *)
LEMMA ClientsFollow ==
  ASSUME IInv, FollowInv, NEW c \in Clients,
         \/ InstallOpens(c) \/ InstallDeletes(c) \/ InstallFindsGone(c) \/ CreateFails(c)
         \/ StartFails(c) \/ WaitEnds(c) \/ UninstallReturns(c) \/ Quit(c)
         \/ \E t \in Tunnels : \/ StopperStep(c, t) \/ ClientUninstalls(c, t) \/ Start(c, t)
                               \/ Stop(c, t) \/ Delete(c, t) \/ WaitForStop(c, t) \/ Create(c, t)
  PROVE  FollowInv'
<1>k. /\ scm \in [Tunnels -> Services] /\ client \in [Clients -> ClientRecords]
      /\ stored \subseteq Tunnels
  BY DEF IInv, TypeOK
<1>1. UNCHANGED <<tracker, tracked, arriving>>
  BY DEF StopperStep, ClientUninstalls, InstallOpens, InstallDeletes, InstallFindsGone, CreateFails,
         StartFails, WaitEnds, UninstallReturns, Quit, Start, Stop, Delete, WaitForStop, Create,
         OnlyClient
<1>2. scm' = scm \/ \E t : scm' \in {Marked(scm, t), SentStop(scm, t)}
  BY DEF StopperStep, ClientUninstalls, InstallOpens, InstallDeletes, InstallFindsGone, CreateFails,
         StartFails, WaitEnds, UninstallReturns, Quit, Start, Stop, Delete, WaitForStop, Create,
         OnlyClient
<1>3. \A x \in Tunnels : scm'[x].state = scm[x].state /\ (scm[x].marked => scm'[x].marked)
  BY <1>k, <1>2 DEF Marked, SentStop, Services
<1>4. \/ client' = client
      \/ /\ client[c].pc # "track"
         /\ \E r : /\ client' = [client EXCEPT ![c] = r]
                   /\ r.pc \notin {"start", "track"}
                   /\ r.pc \in {"open", "delete", "gone", "create"} => r.t \in Tunnels
  <2>1. CASE \E t \in Tunnels : StopperStep(c, t) \/ Create(c, t)
    BY <2>1 DEF StopperStep, Create
  <2>2. CASE \E t \in Tunnels : ClientUninstalls(c, t)
    <3>1. PICK u : client' = [client EXCEPT ![c] = [client[c] EXCEPT !.u = u]]
      BY <2>2 DEF ClientUninstalls
    <3> DEFINE r == [client[c] EXCEPT !.u = u]
    <3>2. r.pc = "stop" /\ client[c].pc = "stop"
      BY <1>k, <2>2 DEF ClientUninstalls, ClientRecords
    <3>3. client' = [client EXCEPT ![c] = r]
      BY <3>1
    <3> HIDE DEF r
    <3> QED BY <3>2, <3>3
  <2>3. ASSUME NEW pc \in {"delete", "gone", "create"}, client' = [client EXCEPT ![c].pc = pc],
               client[c].pc \in {"open", "delete", "gone"}
        PROVE  <1>4
    <3> DEFINE r == [client[c] EXCEPT !.pc = pc]
    <3>1. client' = [client EXCEPT ![c] = r]
      BY <2>3
    <3>2. r.pc = pc /\ r.t = client[c].t
      BY <1>k, <2>3 DEF ClientRecords
    <3>3. client[c].t \in Tunnels
      BY <2>3 DEF FollowInv, Installing
    <3> HIDE DEF r
    <3> QED BY <2>3, <3>1, <3>2, <3>3
  <2>4. ASSUME Returns(c), client[c].pc # "track" PROVE <1>4
    BY <2>4, IdleType DEF Returns
  <2>5. CASE InstallOpens(c) \/ InstallDeletes(c) \/ InstallFindsGone(c)
    BY <2>3, <2>4, <2>5 DEF InstallOpens, InstallDeletes, InstallFindsGone
  <2>6. CASE CreateFails(c) \/ StartFails(c) \/ WaitEnds(c) \/ UninstallReturns(c)
    <3>1. Returns(c) /\ client[c].pc # "track"
      BY <2>6 DEF CreateFails, StartFails, WaitEnds, UninstallReturns
    <3> QED BY <2>4, <3>1
  <2>7. ASSUME NEW t \in Tunnels, Start(c, t) PROVE <1>4
    <3> DEFINE r == [Idle EXCEPT !.pc = "open", !.op = "start", !.t = t]
    <3>1. client[c].pc = "idle" /\ client' = [client EXCEPT ![c] = r]
      BY <2>7 DEF Start
    <3>2. r.pc = "open" /\ r.t = t
      BY DEF Idle
    <3> HIDE DEF r
    <3> QED BY <3>1, <3>2
  <2>8. CASE Quit(c) \/ \E t \in Tunnels : Stop(c, t) \/ Delete(c, t) \/ WaitForStop(c, t)
    <3>1. PICK op, pc, x, names : Calls(c, op, pc, x, names) /\ pc \in {"stop", "wait"}
      BY <2>8 DEF Quit, Stop, Delete, WaitForStop
    <3> DEFINE r == [pc |-> pc, op |-> op, t |-> x, u |-> Stopping(names)]
    <3>2. client[c].pc = "idle" /\ client' = [client EXCEPT ![c] = r] /\ r.pc = pc
      BY <3>1 DEF Calls
    <3> HIDE DEF r
    <3> QED BY <3>1, <3>2
  <2> QED BY <2>1, <2>2, <2>5, <2>6, <2>7, <2>8
<1>5. \A d \in Clients : \/ client'[d] = client[d]
                         \/ /\ client[d].pc # "track"
                            /\ client'[d].pc \notin {"start", "track"}
                            /\ client'[d].pc \in {"open", "delete", "gone", "create"} =>
                                 client'[d].t \in Tunnels
  BY <1>k, <1>4
<1> QED BY <1>1, <1>3, <1>5, FollowKept

(* The service is new, and no goroutine of an older one is left. *)
LEMMA CreationFollows ==
  ASSUME IInv, FollowInv, NEW c \in Clients, InstallCreates(c)
  PROVE  FollowInv'
<1> DEFINE t == client[c].t
<1>k. /\ scm \in [Tunnels -> Services] /\ client \in [Clients -> ClientRecords]
      /\ client[c] \in ClientRecords /\ t \in Tunnels /\ tracker[t] \in Trackers
  BY DEF IInv, TypeOK, FollowInv, Installing, InstallCreates
<1>1. /\ scm' = [scm EXCEPT ![t] = New] /\ client' = [client EXCEPT ![c].pc = "start"]
      /\ client[c].pc = "create" /\ ~Exists(t)
      /\ UNCHANGED <<tracked, tracker, arriving>>
  BY DEF InstallCreates
<1>2. /\ \A d \in Clients : d # c => client'[d] = client[d]
      /\ client'[c].pc = "start" /\ client'[c].t = t
  BY <1>k, <1>1 DEF ClientRecords
<1>3. ~Held(t)
  BY <1>k, <1>1 DEF IInv, Pinned
<1>4. tracker[t].pc = "none" /\ \A d \in Clients : ~StartsIt(d, t)
  BY <1>3 DEF Held, StartsIt
<1>5. scm'[t].state = "stopped" /\ \A x \in Tunnels : x # t => scm'[x] = scm[x]
  BY <1>k, <1>1 DEF New, Absent
<1>6. Installing'
  BY <1>k, <1>2 DEF FollowInv, Installing
<1>7. OneStarter'
  <2> SUFFICES ASSUME NEW d \in Clients, NEW x \in Tunnels, StartsIt(d, x)'
               PROVE  /\ scm'[x].state = "stopped" /\ tracker'[x].pc \in {"none", "settle"}
                      /\ \A e \in Clients : StartsIt(e, x)' => e = d
    BY DEF OneStarter
  <2>1. CASE x = t
    BY <1>1, <1>2, <1>4, <1>5, <2>1 DEF StartsIt
  <2>2. CASE x # t
    <3>1. \A e \in Clients : StartsIt(e, x)' => StartsIt(e, x)
      BY <1>2, <2>2 DEF StartsIt
    <3> QED BY <1>1, <1>5, <2>2, <3>1 DEF FollowInv, OneStarter
  <2> QED BY <2>1, <2>2
<1>8. InMap' /\ FreshTracker'
  BY <1>1 DEF FollowInv, InMap, FreshTracker
<1>9. SawTheEnd'
  BY <1>1, <1>5 DEF FollowInv, SawTheEnd, Ended
<1>10. Followed'
  <2>1. \A x \in Tunnels : Follows(x) => Follows(x)'
    BY <1>1, <1>2 DEF Follows
  <2> QED BY <1>5, <2>1 DEF FollowInv, Followed, Exists, Ended
<1> QED BY <1>6, <1>7, <1>8, <1>9, <1>10 DEF FollowInv

(* The service starts before its tracker looks at it. *)
LEMMA StartFollows ==
  ASSUME IInv, FollowInv, NEW c \in Clients, InstallStarts(c)
  PROVE  FollowInv'
<1>t. PICK t \in Tunnels : t = client[c].t
  BY DEF FollowInv, Installing, InstallStarts
<1>k. /\ scm \in [Tunnels -> Services] /\ client \in [Clients -> ClientRecords]
      /\ client[c] \in ClientRecords /\ tracker[t] \in Trackers /\ scm[t] \in Services
  BY DEF IInv, TypeOK
<1>1. /\ scm' = [scm EXCEPT ![t].state = "startpending"]
      /\ client' = [client EXCEPT ![c].pc = "track"]
      /\ StartsIt(c, t) /\ tracker' = Queued(t, "startpending")
      /\ UNCHANGED <<tracked, arriving>>
  BY <1>t DEF InstallStarts, StartsIt
<1>2. tracker[t].pc \in {"none", "settle"} /\ \A d \in Clients : StartsIt(d, t) => d = c
  BY <1>k, <1>1 DEF FollowInv, OneStarter
<1>3. tracker' = tracker
  BY <1>1, <1>2 DEF Queued, Subscribed
<1>4. ~SeesTheEnd(tracker[t])
  BY <1>k, <1>2, UntoldSeesNothing DEF FollowInv, FreshTracker, Untold
<1>5. /\ \A d \in Clients : d # c => client'[d] = client[d]
      /\ client'[c].pc = "track" /\ client'[c].t = t
  BY <1>t, <1>k, <1>1 DEF ClientRecords
<1>6. \A x \in Tunnels : x # t => scm'[x] = scm[x]
  BY <1>k, <1>1
<1>7. Installing'
  BY <1>k, <1>5 DEF FollowInv, Installing
<1>8. OneStarter'
  <2>1. \A d \in Clients, x \in Tunnels : StartsIt(d, x)' => StartsIt(d, x) /\ x # t
    BY <1>2, <1>5 DEF StartsIt
  <2> QED BY <1>3, <1>6, <2>1 DEF FollowInv, OneStarter
<1>9. InMap' /\ FreshTracker'
  BY <1>1, <1>3 DEF FollowInv, InMap, FreshTracker
<1>10. SawTheEnd'
  BY <1>3, <1>4, <1>6 DEF FollowInv, SawTheEnd, Ended
<1>11. Followed'
  <2>1. Follows(t)'
    BY <1>5 DEF Follows
  <2>2. \A x \in Tunnels : x # t => (Follows(x) => Follows(x)')
    BY <1>1, <1>5 DEF Follows, StartsIt
  <2> QED BY <1>6, <2>1, <2>2 DEF FollowInv, Followed, Exists, Ended
<1> QED BY <1>7, <1>8, <1>9, <1>10, <1>11 DEF FollowInv

(* The handle of the installation becomes a tracker's. *)
LEMMA TrackingFollows ==
  ASSUME IInv, FollowInv, NEW c \in Clients, InstallTracks(c)
  PROVE  FollowInv'
<1> DEFINE t == client[c].t
<1>k. /\ client \in [Clients -> ClientRecords] /\ arriving \in [Tunnels -> Nat]
      /\ t \in Tunnels /\ arriving[t] \in Nat
  BY DEF IInv, TypeOK, FollowInv, Installing, InstallTracks
<1>1. /\ arriving' = [arriving EXCEPT ![t] = arriving[t] + 1]
      /\ client' = [client EXCEPT ![c] = Idle]
      /\ UNCHANGED <<scm, tracked, tracker>>
  BY DEF InstallTracks, Returns
<1>2. /\ \A d \in Clients : d # c => client'[d] = client[d]
      /\ client'[c].pc = "idle"
  BY <1>k, <1>1 DEF Idle
<1>3. arriving'[t] > 0 /\ \A x \in Tunnels : arriving[x] > 0 => arriving'[x] > 0
  BY <1>k, <1>1
<1>4. Installing'
  BY <1>2 DEF FollowInv, Installing
<1>5. \A d \in Clients, x \in Tunnels : StartsIt(d, x)' => StartsIt(d, x)
  BY <1>2 DEF StartsIt
<1>6. OneStarter' /\ InMap' /\ FreshTracker' /\ SawTheEnd'
  BY <1>1, <1>5 DEF FollowInv, OneStarter, InMap, FreshTracker, SawTheEnd, Ended
<1>7. \A x \in Tunnels : Follows(x) => Follows(x)'
  <2> SUFFICES ASSUME NEW x \in Tunnels, Follows(x) PROVE Follows(x)'
    OBVIOUS
  <2>1. CASE x = t
    BY <1>3, <2>1 DEF Follows
  <2>2. CASE x # t
    BY <1>1, <1>2, <1>3, <2>2 DEF Follows
  <2> QED BY <2>1, <2>2
<1>8. Followed'
  BY <1>1, <1>7 DEF FollowInv, Followed, Exists, Ended
<1> QED BY <1>4, <1>6, <1>8 DEF FollowInv

(* A tracker goes on to a record r, with its name in the map.  It sees the *)
(* end of its service only when the service has ended.                     *)
LEMMA TrackerMoves ==
  ASSUME IInv, FollowInv, NEW t \in Tunnels, NEW r \in Trackers, NEW k \in States,
         tracker' = [tracker EXCEPT ![t] = r], tracked' \in {tracked, [tracked EXCEPT ![t] = k]},
         UNCHANGED <<arriving, client>>,
         \A x \in Tunnels : /\ scm'[x].state = scm[x].state
                            /\ scm[x].marked => scm'[x].marked,
         tracker[t].pc # "none", r.pc # "none",
         \A c \in Clients : ~StartsIt(c, t),
         Untold(r), SeesTheEnd(r) => SeesTheEnd(tracker[t]) \/ Ended(t)
  PROVE  FollowInv'
<1>k. /\ tracker \in [Tunnels -> Trackers] /\ tracked \in [Tunnels -> States \cup {"none"}]
  BY DEF IInv, TypeOK
<1>1. k # "none" /\ tracked[t] # "none"
  BY DEF FollowInv, InMap, States
<1>2. \A x \in Tunnels : tracked'[x] = "none" <=> tracked[x] = "none"
  BY <1>k, <1>1
<1>3. tracker'[t] = r /\ \A x \in Tunnels : x # t => tracker'[x] = tracker[x]
  BY <1>k
<1>4. Installing'
  BY DEF FollowInv, Installing
<1>5. OneStarter'
  <2>1. \A c \in Clients, x \in Tunnels : StartsIt(c, x)' => StartsIt(c, x) /\ x # t
    BY DEF StartsIt
  <2> QED BY <1>3, <2>1 DEF FollowInv, OneStarter
<1>6. InMap'
  BY <1>1, <1>2, <1>3 DEF FollowInv, InMap
<1>7. FreshTracker'
  <2>1. \A x \in Tunnels : Untold(tracker'[x])
    BY <1>3 DEF FollowInv, FreshTracker
  <2> QED BY <2>1 DEF FreshTracker
<1>8. \A x \in Tunnels : Ended(x) => Ended(x)'
  BY DEF Ended
<1>9. SawTheEnd'
  <2> SUFFICES ASSUME NEW x \in Tunnels, SeesTheEnd(tracker'[x]) PROVE Ended(x)'
    BY DEF SawTheEnd
  <2> QED BY <1>3, <1>8 DEF FollowInv, SawTheEnd
<1>10. Followed'
  <2>1. \A x \in Tunnels : Follows(x) => Follows(x)'
    BY <1>2 DEF Follows
  <2> QED BY <1>8, <2>1 DEF FollowInv, Followed, Exists
<1> QED BY <1>4, <1>5, <1>6, <1>7, <1>9, <1>10 DEF FollowInv

(* The same when only the position of the goroutine changes. *)
LEMMA TrackerPcMoves ==
  ASSUME IInv, FollowInv, NEW t \in Tunnels, NEW k \in States,
         NEW pc \in {"check", "subscribe", "query", "compared", "forget"},
         TrackerPc(t, pc), tracked' \in {tracked, [tracked EXCEPT ![t] = k]},
         UNCHANGED <<arriving, client>>,
         \A x \in Tunnels : /\ scm'[x].state = scm[x].state
                            /\ scm[x].marked => scm'[x].marked,
         tracker[t].pc # "none", \A c \in Clients : ~StartsIt(c, t),
         pc \in {"check", "subscribe", "query"} => tracker[t].pc \in {"settle", "check", "subscribe"},
         pc = "compared" => tracker[t].pc = "callback",
         pc = "forget" => SeesTheEnd(tracker[t]) \/ Ended(t)
  PROVE  FollowInv'
<1> DEFINE r == [tracker[t] EXCEPT !.pc = pc]
<1>1. tracker[t] \in Trackers /\ tracker' = [tracker EXCEPT ![t] = r]
  BY DEF IInv, TypeOK, TrackerPc
<1>2. /\ r \in Trackers /\ r.pc = pc /\ r.seen = tracker[t].seen
      /\ r.once = tracker[t].once /\ r.queue = tracker[t].queue
  BY <1>1 DEF Trackers, TrackerPcs
<1> HIDE DEF r
<1>3. Untold(r)
  BY <1>2 DEF Untold, FollowInv, FreshTracker
<1>4. SeesTheEnd(r) => SeesTheEnd(tracker[t]) \/ Ended(t)
  BY <1>2 DEF SeesTheEnd
<1> QED BY <1>1, <1>2, <1>3, <1>4, TrackerMoves

(* A tracker past the settling has no connection starting its service. *)
LEMMA PastTheStart ==
  ASSUME FollowInv, NEW t \in Tunnels, tracker[t].pc \notin {"none", "settle"}
  PROVE  \A c \in Clients : ~StartsIt(c, t)
BY DEF FollowInv, OneStarter

(* What the callback does to the service and to the map. *)
LEMMA CallbackMoves ==
  ASSUME IInv, NEW t \in Tunnels, NEW s \in ServiceStates, Callback(t, s)
  PROVE  /\ \A x \in Tunnels : /\ scm'[x].state = scm[x].state
                               /\ scm[x].marked => scm'[x].marked
         /\ tracked' \in {tracked, [tracked EXCEPT ![t] = TunState(s)]}
         /\ UNCHANGED <<arriving, client>>
<1>1. scm \in [Tunnels -> Services]
  BY DEF IInv, TypeOK
<1>2. scm' \in {scm, Marked(scm, t)}
  BY DEF Callback
<1>3. \A x \in Tunnels : scm'[x].state = scm[x].state /\ (scm[x].marked => scm'[x].marked)
  BY <1>1, <1>2 DEF Marked, Services
<1> QED BY <1>3 DEF Callback, Record

(* The tracker goroutine between its arrival and its end, and the          *)
(* notifications it is sent.                                               *)
LEMMA TrackerFollows ==
  ASSUME IInv, FollowInv, ~SlowStart, ~SubscribeMayFail, NEW t \in Tunnels,
         \/ TrackerSettles(t) \/ TrackerFindsDisabled(t) \/ TrackerChecks(t)
         \/ TrackerSubscribes(t) \/ SubscribeFails(t) \/ TrackerQueries(t)
         \/ TrackerCallback(t) \/ TrackerCompared(t) \/ TrackerWakes(t) \/ TrackerNotified(t)
         \/ TrackerToldOfMark(t)
  PROVE  FollowInv'
<1>k. /\ scm \in [Tunnels -> Services] /\ tracker \in [Tunnels -> Trackers]
      /\ tracker[t] \in Trackers /\ tracker[t].queue \in Seq(ServiceStates)
      /\ tracker[t].once \in BOOLEAN
  BY DEF IInv, TypeOK, Trackers
<1>c. "stopped" \in States /\ "unknown" \in States
  BY DEF States
<1>1. CASE TrackerSettles(t)
  <2>1. /\ TrackerPc(t, "check") /\ tracker[t].pc = "settle"
        /\ UNCHANGED <<tracked, arriving, client, scm>>
    BY <1>1 DEF TrackerSettles, OnlyTracker
  <2>2. \A c \in Clients : ~StartsIt(c, t)
    <3>1. scm[t].state # "stopped" \/ \A c \in Clients : ~StartsIt(c, t)
      BY <1>1 DEF TrackerSettles, StartsIt
    <3> QED BY <3>1 DEF FollowInv, OneStarter
  <2> QED BY <1>c, <2>1, <2>2, TrackerPcMoves
<1>2. CASE TrackerChecks(t) \/ TrackerSubscribes(t)
  <2>1. PICK pc \in {"subscribe", "query"} :
          /\ TrackerPc(t, pc) /\ tracker[t].pc \in {"check", "subscribe"}
          /\ UNCHANGED <<tracked, arriving, client, scm>>
    BY <1>2 DEF TrackerChecks, TrackerSubscribes, OnlyTracker
  <2>2. \A c \in Clients : ~StartsIt(c, t)
    BY <2>1, PastTheStart
  <2> QED BY <1>c, <2>1, <2>2, TrackerPcMoves
<1>3. CASE TrackerFindsDisabled(t)
  <2>1. /\ TrackerPc(t, "forget") /\ tracker[t].pc = "check" /\ scm[t].marked
        /\ tracked' = [tracked EXCEPT ![t] = "stopped"]
        /\ UNCHANGED <<arriving, client, scm>>
    BY <1>3 DEF TrackerFindsDisabled, Record
  <2>2. \A c \in Clients : ~StartsIt(c, t)
    BY <2>1, PastTheStart
  <2> QED BY <1>c, <2>1, <2>2, TrackerPcMoves DEF Ended
<1>4. CASE SubscribeFails(t)
  BY <1>4 DEF SubscribeFails
<1>5. CASE TrackerWakes(t)
  <2>1. /\ TrackerPc(t, "forget") /\ tracker[t].pc = "wait" /\ tracker[t].once
        /\ UNCHANGED <<tracked, arriving, client, scm>>
    BY <1>5 DEF TrackerWakes, OnlyTracker
  <2>2. \A c \in Clients : ~StartsIt(c, t)
    BY <2>1, PastTheStart
  <2>3. SeesTheEnd(tracker[t])
    BY <2>1 DEF SeesTheEnd
  <2> QED BY <1>c, <2>1, <2>2, <2>3, TrackerPcMoves
<1>6. CASE TrackerQueries(t)
  <2> DEFINE r == [tracker[t] EXCEPT !.seen = scm[t].state, !.pc = "callback"]
  <2>1. /\ tracker[t].pc = "query" /\ tracker' = [tracker EXCEPT ![t] = r]
        /\ UNCHANGED <<tracked, arriving, client, scm>>
    BY <1>6 DEF TrackerQueries, OnlyTracker
  <2>2. scm[t].state \in ServiceStates
    BY <1>k, <2>1, ExistingState DEF IInv, Pinned, Held, Exists
  <2>3. /\ r \in Trackers /\ r.pc = "callback" /\ r.seen = scm[t].state
        /\ r.once = tracker[t].once /\ r.queue = tracker[t].queue
    BY <1>k, <2>2 DEF Trackers, TrackerPcs
  <2> HIDE DEF r
  <2>4. SeesTheEnd(r) => SeesTheEnd(tracker[t]) \/ Ended(t)
    BY <2>3 DEF SeesTheEnd, Ended
  <2>5. Untold(r) /\ \A c \in Clients : ~StartsIt(c, t)
    BY <2>1, <2>3, PastTheStart DEF Untold
  <2> QED BY <1>c, <2>1, <2>3, <2>4, <2>5, TrackerMoves
<1>7. CASE TrackerCallback(t)
  <2>1. /\ tracker[t].pc = "callback" /\ Callback(t, tracker[t].seen)
        /\ TrackerPc(t, IF tracker[t].seen = "stopped" THEN "forget" ELSE "compared")
    BY <1>7 DEF TrackerCallback
  <2>2. tracker[t].seen \in ServiceStates /\ TunState(tracker[t].seen) \in States
    BY <2>1, TunStateType DEF IInv, SeenState
  <2>3. \A c \in Clients : ~StartsIt(c, t)
    BY <2>1, PastTheStart
  <2>4. /\ \A x \in Tunnels : /\ scm'[x].state = scm[x].state
                              /\ scm[x].marked => scm'[x].marked
        /\ tracked' \in {tracked, [tracked EXCEPT ![t] = TunState(tracker[t].seen)]}
        /\ UNCHANGED <<arriving, client>>
    BY <2>1, <2>2, CallbackMoves
  <2>5. CASE tracker[t].seen = "stopped"
    <3>1. TrackerPc(t, "forget") /\ SeesTheEnd(tracker[t])
      BY <2>1, <2>5 DEF SeesTheEnd
    <3> QED BY <2>1, <2>2, <2>3, <2>4, <3>1, TrackerPcMoves
  <2>6. CASE tracker[t].seen # "stopped"
    <3>1. TrackerPc(t, "compared")
      BY <2>1, <2>6
    <3> QED BY <2>1, <2>2, <2>3, <2>4, <3>1, TrackerPcMoves
  <2> QED BY <2>5, <2>6
<1>8. CASE TrackerCompared(t)
  <2> DEFINE r == [tracker[t] EXCEPT !.last = TunState(tracker[t].seen), !.pc = "wait"]
  <2>1. /\ tracker[t].pc = "compared" /\ tracker' = [tracker EXCEPT ![t] = r]
        /\ UNCHANGED <<tracked, arriving, client, scm>>
    BY <1>8 DEF TrackerCompared, OnlyTracker
  <2>2. TunState(tracker[t].seen) \in States
    BY <2>1, TunStateType DEF IInv, SeenState
  <2>3. /\ r \in Trackers /\ r.pc = "wait"
        /\ r.once = tracker[t].once /\ r.queue = tracker[t].queue
    BY <1>k, <2>2 DEF Trackers, TrackerPcs
  <2> HIDE DEF r
  <2>4. SeesTheEnd(r) => SeesTheEnd(tracker[t])
    BY <2>3 DEF SeesTheEnd
  <2>5. Untold(r) /\ \A c \in Clients : ~StartsIt(c, t)
    BY <2>1, <2>3, PastTheStart DEF Untold
  <2> QED BY <1>c, <2>1, <2>3, <2>4, <2>5, TrackerMoves
<1>9. CASE TrackerNotified(t)
  <2> DEFINE q == tracker[t].queue
             s == Head(q)
             l == IF tracker[t].once THEN tracker[t].last ELSE TunState(s)
             o == tracker[t].once \/ s = "stopped"
             r == [tracker[t] EXCEPT !.queue = Tail(@), !.last = l, !.once = o]
  <2>1. /\ tracker[t].pc \in {"query", "callback", "compared", "wait"} /\ q # <<>>
        /\ tracker' = [tracker EXCEPT ![t] = r]
    BY <1>9 DEF TrackerNotified, Subscribed
  <2>2. /\ s \in ServiceStates /\ s = q[1] /\ Len(q) >= 1 /\ Tail(q) \in Seq(ServiceStates)
        /\ \A i \in 1 .. Len(Tail(q)) : Tail(q)[i] = q[i + 1] /\ i + 1 \in 1 .. Len(q)
    BY <1>k, <2>1
  <2>3. tracker[t].last \in States /\ TunState(s) \in States
    BY <1>k, <2>2, TunStateType DEF Trackers
  <2>4. l \in States /\ o \in BOOLEAN
    BY <1>k, <2>3
  <2>5. /\ r \in Trackers /\ r.pc = tracker[t].pc /\ r.seen = tracker[t].seen
        /\ r.queue = Tail(q)
    <3> HIDE DEF l, o, s
    <3> QED BY <1>k, <2>2, <2>4, Zenon DEF Trackers
  <2>6. r.once <=> o
    <3> HIDE DEF l, o, s
    <3> QED BY <1>k, <2>4, Zenon DEF Trackers
  <2>7. SeesTheEnd(r) => SeesTheEnd(tracker[t])
    <3>1. r.once => SeesTheEnd(tracker[t])
      <4>1. s = "stopped" => \E i \in 1 .. Len(q) : q[i] = "stopped"
        BY <2>2
      <4> HIDE DEF s
      <4> QED BY <2>6, <4>1 DEF SeesTheEnd
    <3>2. (\E i \in 1 .. Len(r.queue) : r.queue[i] = "stopped") => SeesTheEnd(tracker[t])
      <4>1. (\E i \in 1 .. Len(Tail(q)) : Tail(q)[i] = "stopped") =>
              \E i \in 1 .. Len(q) : q[i] = "stopped"
        BY <2>2
      <4> QED BY <2>5, <4>1 DEF SeesTheEnd
    <3> HIDE DEF r, q
    <3> QED BY <2>5, <3>1, <3>2 DEF SeesTheEnd
  <2>8. /\ \A x \in Tunnels : /\ scm'[x].state = scm[x].state
                              /\ scm[x].marked => scm'[x].marked
        /\ tracked' \in {tracked, [tracked EXCEPT ![t] = TunState(s)]}
        /\ UNCHANGED <<arriving, client>>
    <3>1. CASE tracker[t].once
      BY <1>9, <3>1 DEF TrackerNotified
    <3>2. CASE ~tracker[t].once
      <4>1. Callback(t, s)
        BY <1>9, <3>2 DEF TrackerNotified
      <4> HIDE DEF s
      <4> QED BY <2>2, <4>1, CallbackMoves
    <3> QED BY <3>1, <3>2
  <2>9. \A c \in Clients : ~StartsIt(c, t)
    BY <2>1, PastTheStart
  <2> HIDE DEF q, s, l, o, r
  <2>10. Untold(r)
    BY <2>1, <2>5 DEF Untold
  <2> QED BY <2>1, <2>3, <2>5, <2>7, <2>8, <2>9, <2>10, TrackerMoves
<1>10. CASE TrackerToldOfMark(t)
  <2> DEFINE r == [tracker[t] EXCEPT !.last = "stopping"]
  <2>1. /\ tracker[t].pc \in {"query", "callback", "compared", "wait"}
        /\ tracker' = [tracker EXCEPT ![t] = r]
        /\ tracked' = [tracked EXCEPT ![t] = "stopping"]
        /\ UNCHANGED <<arriving, client, scm>>
    BY <1>10 DEF TrackerToldOfMark, Subscribed, Record
  <2>2. "stopping" \in States
    BY DEF States
  <2>3. /\ r \in Trackers /\ r.pc = tracker[t].pc /\ r.seen = tracker[t].seen
        /\ r.once = tracker[t].once /\ r.queue = tracker[t].queue
    BY <1>k, <2>2 DEF Trackers
  <2> HIDE DEF r
  <2>4. SeesTheEnd(r) => SeesTheEnd(tracker[t])
    BY <2>3 DEF SeesTheEnd
  <2>5. Untold(r) /\ \A c \in Clients : ~StartsIt(c, t)
    BY <2>1, <2>3, PastTheStart DEF Untold
  <2> QED BY <2>1, <2>2, <2>3, <2>4, <2>5, TrackerMoves
<1> QED BY <1>1, <1>2, <1>3, <1>4, <1>5, <1>6, <1>7, <1>8, <1>9, <1>10

(* The first tracker to arrive enters the name in the map. *)
LEMMA ArrivalFollows ==
  ASSUME IInv, FollowInv, NEW t \in Tunnels, TrackerArrives(t)
  PROVE  FollowInv'
<1>k. /\ tracker \in [Tunnels -> Trackers] /\ tracked \in [Tunnels -> States \cup {"none"}]
      /\ tracker[t] \in Trackers /\ arriving \in [Tunnels -> Nat]
  BY DEF IInv, TypeOK
<1>1. /\ \A x \in Tunnels : x # t => arriving'[x] = arriving[x]
      /\ UNCHANGED <<scm, client>>
  BY <1>k DEF TrackerArrives
<1>2. \A c \in Clients, x \in Tunnels : StartsIt(c, x)' <=> StartsIt(c, x)
  BY <1>1 DEF StartsIt
<1>3. Installing'
  BY <1>1 DEF FollowInv, Installing
<1>4. CASE tracked[t] # "none"
  <2>1. UNCHANGED <<tracked, tracker>>
    BY <1>4 DEF TrackerArrives
  <2>2. OneStarter' /\ InMap' /\ FreshTracker' /\ SawTheEnd'
    BY <1>1, <1>2, <2>1 DEF FollowInv, OneStarter, InMap, FreshTracker, SawTheEnd, Ended
  <2>3. \A x \in Tunnels : Follows(x) => Follows(x)'
    BY <1>1, <1>4, <2>1 DEF Follows
  <2>4. Followed'
    BY <1>1, <2>3 DEF FollowInv, Followed, Exists, Ended
  <2> QED BY <1>3, <2>2, <2>4 DEF FollowInv
<1>5. CASE tracked[t] = "none"
  <2> DEFINE r == [tracker[t] EXCEPT !.pc = "settle"]
  <2>1. tracked' = [tracked EXCEPT ![t] = "unknown"] /\ tracker' = [tracker EXCEPT ![t] = r]
    BY <1>5 DEF TrackerArrives, TrackerPc
  <2>2. tracker[t].pc = "none" /\ Untold(tracker[t])
    BY <1>5 DEF FollowInv, InMap, FreshTracker
  <2>3. r \in Trackers /\ r.pc = "settle" /\ r.queue = <<>> /\ ~r.once
    BY <1>k, <2>2 DEF Trackers, TrackerPcs, Untold
  <2> HIDE DEF r
  <2>4. ~SeesTheEnd(r) /\ Untold(r)
    BY <2>3, UntoldSeesNothing DEF Untold
  <2>5. /\ tracker'[t] = r /\ tracked'[t] # "none"
        /\ \A x \in Tunnels : x # t => tracker'[x] = tracker[x] /\ tracked'[x] = tracked[x]
    BY <1>k, <2>1
  <2>6. OneStarter'
    <3>1. \A x \in Tunnels : tracker[x].pc \in {"none", "settle"} => tracker'[x].pc \in {"none", "settle"}
      BY <2>3, <2>5
    <3> QED BY <1>1, <1>2, <3>1 DEF FollowInv, OneStarter
  <2>7. InMap'
    BY <2>5 DEF FollowInv, InMap
  <2>8. FreshTracker'
    <3>1. \A x \in Tunnels : Untold(tracker'[x])
      BY <2>4, <2>5 DEF FollowInv, FreshTracker
    <3> QED BY <3>1 DEF FreshTracker
  <2>9. SawTheEnd'
    <3> SUFFICES ASSUME NEW x \in Tunnels, SeesTheEnd(tracker'[x]) PROVE Ended(x)'
      BY DEF SawTheEnd
    <3> QED BY <1>1, <2>4, <2>5 DEF FollowInv, SawTheEnd, Ended
  <2>10. \A x \in Tunnels : Follows(x) => Follows(x)'
    BY <1>1, <2>5 DEF Follows
  <2>11. Followed'
    BY <1>1, <2>10 DEF FollowInv, Followed, Exists, Ended
  <2> QED BY <1>3, <2>6, <2>7, <2>8, <2>9, <2>11 DEF FollowInv
<1> QED BY <1>4, <1>5

(* A tracker without a service: the one of a name that is not in the map. *)
LEMMA NoTrackerFacts ==
  /\ NoTracker \in Trackers /\ NoTracker.pc = "none"
  /\ Untold(NoTracker) /\ ~SeesTheEnd(NoTracker)
<1>1. <<>> \in Seq(ServiceStates)
  OBVIOUS
<1>2. NoTracker \in Trackers /\ NoTracker.pc = "none" /\ NoTracker.queue = <<>> /\ ~NoTracker.once
  BY <1>1 DEF NoTracker, Trackers, TrackerPcs, States
<1> QED BY <1>2, UntoldSeesNothing DEF Untold

(* The tracker that leaves the map has seen the end of its service. *)
LEMMA ForgettingFollows ==
  ASSUME IInv, FollowInv, NEW t \in Tunnels, TrackerForgets(t)
  PROVE  FollowInv'
<1>k. tracker \in [Tunnels -> Trackers] /\ tracked \in [Tunnels -> States \cup {"none"}]
  BY DEF IInv, TypeOK
<1>1. /\ tracker[t].pc = "forget" /\ tracker'[t] = NoTracker
      /\ \A x \in Tunnels : x # t => tracker'[x] = tracker[x] /\ tracked'[x] = tracked[x]
      /\ UNCHANGED <<scm, client, arriving>>
  BY <1>k DEF TrackerForgets
<1>2. Ended(t)
  BY <1>1 DEF FollowInv, SawTheEnd, SeesTheEnd
<1>3. Installing'
  BY <1>1 DEF FollowInv, Installing
<1>4. OneStarter'
  <2>1. \A c \in Clients, x \in Tunnels : StartsIt(c, x)' => StartsIt(c, x) /\ x # t
    BY <1>1, PastTheStart DEF StartsIt
  <2> QED BY <1>1, <2>1 DEF FollowInv, OneStarter
<1>5. InMap'
  BY <1>1, NoTrackerFacts DEF FollowInv, InMap
<1>6. FreshTracker'
  <2>1. \A x \in Tunnels : Untold(tracker'[x])
    BY <1>1, NoTrackerFacts DEF FollowInv, FreshTracker
  <2> QED BY <2>1 DEF FreshTracker
<1>7. SawTheEnd'
  <2> SUFFICES ASSUME NEW x \in Tunnels, SeesTheEnd(tracker'[x]) PROVE Ended(x)'
    BY DEF SawTheEnd
  <2> QED BY <1>1, NoTrackerFacts DEF FollowInv, SawTheEnd, Ended
<1>8. \A x \in Tunnels : x # t /\ Follows(x) => Follows(x)'
  BY <1>1 DEF Follows
<1>9. Followed'
  BY <1>1, <1>2, <1>8 DEF FollowInv, Followed, Exists, Ended
<1> QED BY <1>3, <1>4, <1>5, <1>6, <1>7, <1>9 DEF FollowInv

(* trackExistingTunnels, and the end of a handle. *)
LEMMA ExistingFollows ==
  ASSUME IInv, FollowInv,
         TrackExistingTunnels \/ (\E t \in Tunnels : TrackerCloses(t)) \/ UNCHANGED vars
  PROVE  FollowInv'
<1>1. UNCHANGED <<tracker, tracked, scm, client>>
  BY DEF TrackExistingTunnels, TrackerCloses, vars
<1>2. \A x \in Tunnels : arriving[x] \in Nat
  BY DEF IInv, TypeOK
<1>3. \A x \in Tunnels : arriving[x] > 0 => arriving'[x] > 0
  <2>1. CASE TrackExistingTunnels
    BY <1>2, <2>1 DEF TrackExistingTunnels
  <2>2. CASE ~TrackExistingTunnels
    BY <2>2 DEF TrackerCloses, vars
  <2> QED BY <2>1, <2>2
<1> QED BY <1>1, <1>3, FollowKept

(* A new manager finds every service by the name of its stored profile. *)
LEMMA NewManagerFollows ==
  ASSUME IInv, FollowInv, NewManager, stored = Tunnels
  PROVE  FollowInv'
<1>1. /\ \A x \in Tunnels : tracker'[x] = NoTracker
      /\ \A x \in Tunnels : Exists(x) => arriving'[x] > 0
      /\ \A c \in Clients : client'[c].pc = "idle"
      /\ scm' = scm
  BY IdleType DEF NewManager
<1>2. Installing' /\ OneStarter'
  BY <1>1 DEF Installing, OneStarter, StartsIt
<1>3. InMap' /\ FreshTracker' /\ SawTheEnd'
  BY <1>1, NoTrackerFacts DEF InMap, FreshTracker, SawTheEnd
<1>4. \A x \in Tunnels : Exists(x)' => Follows(x)'
  BY <1>1 DEF Follows, Exists
<1>5. Followed'
  BY <1>4 DEF Followed
<1> QED BY <1>2, <1>3, <1>5 DEF FollowInv

(* A connection begins a Delete only if it may, and a Quit only while a    *)
(* manager may end.                                                        *)
MayCall(c, op) ==
  \/ op \in {client[c].op, "none", "start", "stop", "wait"}
  \/ op = "delete" /\ "delete" \in Methods[c]
  \/ op = "quit" /\ restarts < MaxRestarts

LEMMA CallsAllowed ==
  ASSUME IInv, [Next]_vars, NEW c \in Clients
  PROVE  MayCall(c, client'[c].op)
<1>k. client \in [Clients -> ClientRecords]
  BY DEF IInv, TypeOK
<1>1. ASSUME client' = client PROVE MayCall(c, client'[c].op)
  BY <1>1 DEF MayCall
<1>2. ASSUME NEW d \in Clients, NEW r, client' = [client EXCEPT ![d] = r], MayCall(d, r.op)
      PROVE  MayCall(c, client'[c].op)
  BY <1>k, <1>2 DEF MayCall
<1>3. ASSUME NEW d \in Clients, NEW pc, client' = [client EXCEPT ![d].pc = pc]
      PROVE  MayCall(c, client'[c].op)
  <2> DEFINE r == [client[d] EXCEPT !.pc = pc]
  <2>1. client' = [client EXCEPT ![d] = r] /\ r.op = client[d].op
    BY <1>k, <1>3 DEF ClientRecords
  <2> HIDE DEF r
  <2> QED BY <1>2, <2>1 DEF MayCall
<1>4. ASSUME NEW d \in Clients, Returns(d) PROVE MayCall(c, client'[c].op)
  <2>1. MayCall(d, Idle.op)
    BY DEF MayCall, Idle
  <2> QED BY <1>2, <1>4, <2>1 DEF Returns
<1>5. ASSUME NEW d \in Clients, NEW op, NEW pc, NEW x, NEW names, Calls(d, op, pc, x, names),
             MayCall(d, op)
      PROVE  MayCall(c, client'[c].op)
  <2> DEFINE r == [pc |-> pc, op |-> op, t |-> x, u |-> Stopping(names)]
  <2>1. client' = [client EXCEPT ![d] = r] /\ r.op = op
    BY <1>5 DEF Calls
  <2> HIDE DEF r
  <2> QED BY <1>2, <1>5, <2>1
<1>6. ASSUME NewManager PROVE MayCall(c, client'[c].op)
  BY <1>6 DEF NewManager, Idle, MayCall
<1>7. CASE UNCHANGED vars \/ TrackExistingTunnels
  BY <1>1, <1>7 DEF vars, TrackExistingTunnels
<1>8. ASSUME NEW t \in Tunnels,
             \/ ServiceProgress(t) \/ ServiceFails(t) \/ ServiceRemoved(t)
             \/ TrackerSteps(t) \/ TrackerNotified(t) \/ TrackerToldOfMark(t) \/ TrackerCloses(t)
      PROVE  MayCall(c, client'[c].op)
  <2>1. client' = client
    BY <1>8 DEF ServiceProgress, ServiceAccepts, ServiceRuns, ServiceStops, ServiceEnds, ServiceFails,
      ServiceStep, ServiceRemoved, TrackerSteps, TrackerArrives, TrackerSettles,
      TrackerFindsDisabled, TrackerChecks, TrackerSubscribes, SubscribeFails, TrackerQueries,
      TrackerCallback, TrackerCompared, TrackerWakes, TrackerForgets, OnlyTracker, Callback,
      TrackerNotified, TrackerToldOfMark, Record, TrackerCloses
  <2> QED BY <1>1, <2>1
<1>9. ASSUME NEW d \in Clients, ClientSteps(d) PROVE MayCall(c, client'[c].op)
  <2>1. CASE InstallOpens(d) \/ InstallDeletes(d) \/ InstallFindsGone(d) \/ InstallCreates(d)
             \/ InstallStarts(d)
    BY <1>3, <1>4, <2>1
       DEF InstallOpens, InstallDeletes, InstallFindsGone, InstallCreates, InstallStarts
  <2>2. CASE CreateFails(d) \/ StartFails(d) \/ InstallTracks(d) \/ WaitEnds(d)
             \/ UninstallReturns(d)
    BY <1>4, <2>2 DEF CreateFails, StartFails, InstallTracks, WaitEnds, UninstallReturns
  <2>3. CASE QuitEnds(d)
    BY <1>6, <2>3 DEF QuitEnds
  <2>4. ASSUME NEW t \in Tunnels, ClientUninstalls(d, t) PROVE MayCall(c, client'[c].op)
    <3>1. PICK u : client' = [client EXCEPT ![d].u = u]
      BY <2>4 DEF ClientUninstalls
    <3> DEFINE r == [client[d] EXCEPT !.u = u]
    <3>2. client' = [client EXCEPT ![d] = r] /\ r.op = client[d].op
      BY <1>k, <3>1 DEF ClientRecords
    <3> HIDE DEF r
    <3> QED BY <1>2, <3>2 DEF MayCall
  <2> QED BY <1>9, <2>1, <2>2, <2>3, <2>4 DEF ClientSteps
<1>10. ASSUME NEW d \in Clients, Quit(d) PROVE MayCall(c, client'[c].op)
  <2>1. /\ \E names : Calls(d, "quit", "stop", NoTunnel, names)
        /\ restarts < MaxRestarts
    BY <1>10 DEF Quit
  <2> QED BY <1>5, <2>1 DEF MayCall
<1>11. ASSUME NEW d \in Clients, NEW t \in Tunnels,
              Start(d, t) \/ Stop(d, t) \/ Delete(d, t) \/ WaitForStop(d, t)
              \/ Create(d, t) \/ StopperStep(d, t)
       PROVE  MayCall(c, client'[c].op)
  <2>1. CASE Create(d, t) \/ StopperStep(d, t)
    BY <1>1, <2>1 DEF Create, StopperStep
  <2>2. CASE Start(d, t)
    <3> DEFINE r == [Idle EXCEPT !.pc = "open", !.op = "start", !.t = t]
    <3>1. client' = [client EXCEPT ![d] = r] /\ r.op = "start"
      BY <2>2 DEF Start, Idle
    <3> HIDE DEF r
    <3> QED BY <1>2, <3>1 DEF MayCall
  <2>3. CASE Stop(d, t) \/ Delete(d, t) \/ WaitForStop(d, t)
    <3>1. \E op, pc, names : /\ Calls(d, op, pc, t, names)
                             /\ MayCall(d, op)
      <4>1. \A pc, names : Calls(d, "delete", pc, t, names) => "delete" \in Methods[d]
        BY DEF Calls
      <4> QED BY <2>3, <4>1 DEF Stop, Delete, WaitForStop, MayCall
    <3> QED BY <1>5, <3>1
  <2> QED BY <1>11, <2>1, <2>2, <2>3
<1>12. CASE Crash
  BY <1>6, <1>12 DEF Crash
<1> QED BY <1>7, <1>8, <1>9, <1>10, <1>11, <1>12 DEF Next

(* What a step does to the profiles and to the count of managers. *)
LEMMA ProfileEffects ==
  ASSUME [Next]_vars
  PROVE  /\ \/ stored \subseteq stored'
            \/ \E c \in Clients : client[c].op = "delete"
         /\ restarts' = restarts \/ restarts < MaxRestarts
<1>1. CASE UNCHANGED vars \/ TrackExistingTunnels \/ Crash
  BY <1>1 DEF vars, TrackExistingTunnels, Crash, NewManager
<1>2. ASSUME NEW t \in Tunnels,
             \/ ServiceProgress(t) \/ ServiceFails(t) \/ ServiceRemoved(t)
             \/ TrackerSteps(t) \/ TrackerNotified(t) \/ TrackerToldOfMark(t) \/ TrackerCloses(t)
      PROVE  UNCHANGED <<stored, restarts>>
  BY <1>2 DEF ServiceProgress, ServiceAccepts, ServiceRuns, ServiceStops, ServiceEnds, ServiceFails,
    ServiceStep, ServiceRemoved, TrackerSteps, TrackerArrives, TrackerSettles,
    TrackerFindsDisabled, TrackerChecks, TrackerSubscribes, SubscribeFails, TrackerQueries,
    TrackerCallback, TrackerCompared, TrackerWakes, TrackerForgets, OnlyTracker, Callback,
    TrackerNotified, TrackerToldOfMark, Record, TrackerCloses
<1>3. ASSUME NEW c \in Clients, ClientSteps(c)
      PROVE  /\ stored' = stored \/ client[c].op = "delete"
             /\ restarts' = restarts
  BY <1>3 DEF ClientSteps, InstallOpens, InstallDeletes, InstallFindsGone, InstallCreates,
    CreateFails, InstallStarts, StartFails, InstallTracks, WaitEnds, UninstallReturns, QuitEnds,
    NewManager, ClientUninstalls, OnlyClient
<1>4. ASSUME NEW c \in Clients, Quit(c) PROVE stored' = stored /\ restarts < MaxRestarts
  BY <1>4 DEF Quit
<1>5. ASSUME NEW c \in Clients, NEW t \in Tunnels,
             Start(c, t) \/ Stop(c, t) \/ Delete(c, t) \/ WaitForStop(c, t)
             \/ Create(c, t) \/ StopperStep(c, t)
      PROVE  stored \subseteq stored' /\ restarts' = restarts
  BY <1>5 DEF Start, Stop, Delete, WaitForStop, Create, StopperStep, OnlyClient
<1> QED BY <1>1, <1>2, <1>3, <1>4, <1>5 DEF Next

(* No profile goes, or no manager ends. *)
LEMMA ProfilesAreKept == IInv /\ IInv' /\ ProfilesStay /\ [Next]_vars => ProfilesStay'
<1> SUFFICES ASSUME IInv, IInv', ProfilesStay, [Next]_vars PROVE ProfilesStay'
  OBVIOUS
<1>k. stored' \subseteq Tunnels /\ restarts \in Nat
  BY DEF IInv, TypeOK
<1>1. ASSUME NoDeletes
      PROVE  stored' = Tunnels /\ \A c \in Clients : client'[c].op # "delete"
  BY <1>k, <1>1, CallsAllowed, ProfileEffects DEF ProfilesStay, NoDeletes, MayCall
<1>2. ASSUME OneManager
      PROVE  restarts' = 0 /\ \A c \in Clients : client'[c].op # "quit"
  <2>1. ~(restarts < MaxRestarts)
    BY <1>2 DEF ProfilesStay, OneManager
  <2> QED BY <1>2, <2>1, CallsAllowed, ProfileEffects DEF ProfilesStay, MayCall
<1> QED BY <1>1, <1>2 DEF ProfilesStay, NoDeletes, OneManager

(* Every step keeps the invariant while no profile goes or no manager ends. *)
LEMMA NextFollows ==
  ASSUME ~SlowStart, ~SubscribeMayFail, NoDeletes \/ OneManager,
         IInv, FollowInv, ProfilesStay, [Next]_vars
  PROVE  FollowInv'
<1>1. ASSUME NEW t \in Tunnels, TrackerSteps(t) \/ TrackerNotified(t) \/ TrackerToldOfMark(t) \/ TrackerCloses(t)
      PROVE  FollowInv'
  BY <1>1, TrackerFollows, ArrivalFollows, ForgettingFollows, ExistingFollows DEF TrackerSteps
<1>2. ASSUME NEW t \in Tunnels, ServiceProgress(t) \/ ServiceFails(t) \/ ServiceRemoved(t)
      PROVE  FollowInv'
  BY <1>2, EnvironmentFollows
<1>3. ASSUME NEW c \in Clients, ClientSteps(c) PROVE FollowInv'
  <2>1. CASE QuitEnds(c)
    <3>1. NewManager /\ client[c].op = "quit"
      BY <2>1 DEF QuitEnds
    <3>2. NoDeletes
      BY <3>1 DEF ProfilesStay
    <3> QED BY <3>1, <3>2, NewManagerFollows DEF ProfilesStay
  <2>2. CASE ~QuitEnds(c)
    BY <1>3, <2>2, ClientsFollow, CreationFollows, StartFollows, TrackingFollows DEF ClientSteps
  <2> QED BY <2>1, <2>2
<1>4. ASSUME NEW c \in Clients,
             \/ Quit(c)
             \/ \E t \in Tunnels : \/ Start(c, t) \/ Stop(c, t) \/ Delete(c, t)
                                   \/ WaitForStop(c, t) \/ Create(c, t) \/ StopperStep(c, t)
      PROVE  FollowInv'
  BY <1>4, ClientsFollow
<1>5. CASE TrackExistingTunnels \/ UNCHANGED vars
  BY <1>5, ExistingFollows
<1>6. CASE Crash
  <2>1. NewManager /\ restarts < MaxRestarts
    BY <1>6 DEF Crash
  <2>2. NoDeletes
    BY <2>1 DEF ProfilesStay, OneManager
  <2> QED BY <2>1, <2>2, NewManagerFollows DEF ProfilesStay
<1> QED BY <1>1, <1>2, <1>3, <1>4, <1>5, <1>6 DEF Next

(* Before the first service there is nothing to follow. *)
LEMMA InitFollows == Init => FollowInv /\ ProfilesStay
<1> SUFFICES ASSUME Init PROVE FollowInv /\ ProfilesStay
  OBVIOUS
<1>1. /\ \A t \in Tunnels : tracker[t] = NoTracker /\ ~Exists(t)
      /\ \A c \in Clients : client[c] = Idle
  BY DEF Init, Exists, Absent
<1>2. Idle.pc = "idle" /\ Idle.op = "none"
  BY DEF Idle
<1>3. Installing /\ OneStarter
  BY <1>1, <1>2 DEF Installing, OneStarter, StartsIt
<1>4. InMap /\ FreshTracker /\ SawTheEnd /\ Followed
  BY <1>1, NoTrackerFacts DEF InMap, FreshTracker, SawTheEnd, Followed
<1>5. ProfilesStay
  BY <1>1, <1>2 DEF Init, ProfilesStay, OneManager
<1> QED BY <1>3, <1>4, <1>5 DEF FollowInv

(***************************************************************************)
(* A tunnel service that runs and is not about to be deleted is followed   *)
(* by a tracker, or one is on its way (install.go:313,                     *)
(* tunneltracker.go:128, 223), for every set of tunnels and connections:   *)
(* when the service starts within the four seconds a tracker waits for it, *)
(* the tracker can subscribe, and either no profile is deleted or the      *)
(* manager does not end.                                                   *)
(***************************************************************************)
THEOREM ServicesAreFollowed ==
  ASSUME ~SlowStart, ~SubscribeMayFail, NoDeletes \/ OneManager
  PROVE  Spec => []NoOrphans
<1>1. Init => FollowInv /\ ProfilesStay
  BY InitFollows
<1>2. /\ IInv /\ IInv' /\ FollowInv /\ ProfilesStay /\ [Next]_vars
      => FollowInv' /\ ProfilesStay'
  BY NextFollows, ProfilesAreKept
<1>3. FollowInv => NoOrphans
  BY DEF FollowInv, Followed, Follows, NoOrphans, Exists, Ended
<1> QED BY <1>1, <1>2, <1>3, InvariantHolds, PTL DEF Spec

=============================================================================
