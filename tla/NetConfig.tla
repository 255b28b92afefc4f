----------------------------- MODULE NetConfig -----------------------------
(***************************************************************************)
(* What a tunnel does to the network stack for one address family:         *)
(* configureInterface (routes, addresses, interface row, DNS) with its     *)
(* retries at boot, and the MTU monitor whose callbacks run next to it.    *)
(* Both read the row of our interface, change fields of it and write the   *)
(* whole row back.  Other programs and the weather change the rest.        *)
(***************************************************************************)
EXTENDS Naturals, FiniteSets, FiniteSetsExt

CONSTANTS NetConfigs,  \* [routes, addrs, dns, tableOff, mtu, boot], boot: started at boot
          Others,      \* the other interfaces of the machine
          NetRoutes,   \* allowed prefixes, <<network, host bits>>
          NetAddrs,
          DefaultRoute,\* the prefix of length 0
          Mtus,        \* MTUs other interfaces may have
          Overhead,    \* 80 bytes
          NetFamily,
          MinMtu,      \* 576 or 1280
          MaxTries,    \* 15: retries of a service that was started at boot
          MaxWeather,  \* changes of other interfaces
          MaxNetFaults \* calls that fail

Ours == "ours"
NoIf == "none"

ASSUME NetAssumption ==
    /\ \A c \in NetConfigs : c.routes \subseteq NetRoutes /\ c.addrs \subseteq NetAddrs /\ c.mtu \in Nat
    /\ Ours \notin Others
    /\ Mtus \subseteq Nat \ {0} /\ \E m \in Mtus : \A n \in Mtus : n <= m
    /\ {Overhead, MinMtu, MaxTries, MaxWeather, MaxNetFaults} \subseteq Nat

VARIABLES
  conf,     \* one of NetConfigs
  cfg,      \* configureInterface: pc, tries, and what it has read
  monitor,  \* monitorMTU and its callbacks
  routeTable,   \* <<interface, prefix>> of this family
  addrs,    \* <<interface, address>> of this family
  row,      \* our MIB_IPINTERFACE_ROW: [mtu, metric, site prefix length]
  dns,
  others,   \* [up, mtu, metric] of the other interfaces
  weather, netFaults,
  overlapped, \* history: the two writers of the row have overlapped
  untold      \* history: a change the monitor was not told of, or failed on

netVars == <<conf, cfg, monitor, routeTable, addrs, row, dns, others, weather, netFaults, overlapped, untold>>
netTables == <<routeTable, addrs, row, dns>>
netWorld == <<conf, others, weather>>

NetFault == netFaults > 0 /\ netFaults' = netFaults - 1
NetFine == UNCHANGED netFaults

NoRow == [mtu |-> 0, metric |-> 0, site |-> "valid"]
Configuring == [pc |-> "monitor", tryTimes |-> 0, row |-> NoRow, down |-> {}]

-----------------------------------------------------------------------------
(* winipcfg: what is asked of the tables, always of our interface only.    *)
FlushRoutes(R) == {r \in R : r[1] # Ours}
SetRoutesForFamily(R, D) == FlushRoutes(R) \cup {<<Ours, d>> : d \in D}
FlushIPAddresses(A) == {a \in A : a[1] # Ours}
SetIPAddressesForFamily(A, S) == FlushIPAddresses(A) \cup {<<Ours, a>> : a \in S}
DeleteIPAddresses(A, I, S) == {a \in A : ~(a[1] \in I /\ a[2] \in S)}
SetDNS(servers) == {d \in servers : d[2] = NetFamily}
\* The row as it is read: a prefix length Windows itself would refuse is corrected.
GetRow(r) == [r EXCEPT !.site = "valid"]

-----------------------------------------------------------------------------
(* configureInterface.                                                     *)
HasRoutes == conf.routes # {}
Masked(p) == p[1]
DedupedRoutes == {Masked(p) : p \in conf.routes}

AddsRoutes == ~conf.tableOff /\ HasRoutes

\* goto startOver: allowed for a service started at boot, MaxTries times.
MayRetry == conf.boot /\ cfg.tryTimes < MaxTries
StartOver == [Configuring EXCEPT !.pc = "routes", !.tryTimes = cfg.tryTimes + 1]
OwnRoutes == {r[2] : r \in routeTable \ FlushRoutes(routeTable)}

\* A call fails.  ERROR_NOT_FOUND is retried while the system boots, except by the
\* read of the row; any other error is returned.
ConfigureFails ==
    /\ cfg.pc \in {"routes", "addrs", "readd", "read", "set", "dns"} /\ NetFault
    /\ (cfg.pc = "routes" => AddsRoutes) /\ (cfg.pc \in {"addrs", "readd"} => conf.addrs # {})
    /\ \/ cfg' = [cfg EXCEPT !.pc = "failed"]
       \/ cfg.pc # "read" /\ MayRetry /\ cfg' = StartOver
    /\ IF cfg.pc = "routes"     \* flushed in part, or flushed and the first few added
       THEN \E S \in (SUBSET DedupedRoutes) \cup (SUBSET OwnRoutes) :
              routeTable' = SetRoutesForFamily(routeTable, S)
       ELSE UNCHANGED routeTable
    /\ IF cfg.pc \in {"addrs", "readd"}
       THEN \/ UNCHANGED addrs
            \/ \E S \in SUBSET conf.addrs : addrs' = SetIPAddressesForFamily(addrs, S)
       ELSE UNCHANGED addrs
    /\ UNCHANGED <<row, dns, monitor, netWorld, overlapped, untold>>

\* SetRoutesForFamily: our routes flushed, the masked ones added.
SetsRoutes ==
    /\ cfg.pc = "routes" /\ NetFine
    /\ routeTable' = IF AddsRoutes
                 THEN SetRoutesForFamily(routeTable, DedupedRoutes) ELSE routeTable
    /\ cfg' = [cfg EXCEPT !.pc = "addrs"]
    /\ UNCHANGED <<addrs, row, dns, monitor, netWorld, overlapped, untold>>

Conflicts == {a \in addrs : a[1] # Ours /\ a[2] \in conf.addrs}

\* SetIPAddressesForFamily: an address that another interface has
\* stops it, after those before it in the list have been added.
SetsAddresses ==
    /\ cfg.pc \in {"addrs", "readd"} /\ NetFine
    /\ IF conf.addrs = {} THEN cfg' = [cfg EXCEPT !.pc = "read"] /\ UNCHANGED addrs
       ELSE IF Conflicts = {}
       THEN /\ addrs' = SetIPAddressesForFamily(addrs, conf.addrs)
            /\ cfg' = [cfg EXCEPT !.pc = "read"]
       ELSE /\ \E S \in SUBSET {a \in conf.addrs : \A c \in Conflicts : c[2] # a} :
                  addrs' = SetIPAddressesForFamily(addrs, S)
            /\ cfg' = [cfg EXCEPT !.pc = IF cfg.pc = "addrs" THEN "list" ELSE "failed"]
    /\ UNCHANGED <<routeTable, row, dns, monitor, netWorld, overlapped, untold>>

\* Mutant: every interface is cleaned.
DisconnectedOrNot(i) == TRUE
\* cleanupAddressesOnDisconnectedInterfaces: the interfaces are listed, then they lose the
\* address.  Nothing is cleaned if the list fails, and an address that stays is passed over.
Disconnected(i) == ~others[i].up
ListsInterfaces ==
    /\ cfg.pc = "list"
    /\ \/ cfg' = [cfg EXCEPT !.pc = "clean", !.down = {i \in Others : Disconnected(i)}] /\ NetFine
       \/ cfg' = [cfg EXCEPT !.pc = "readd"] /\ NetFault
    /\ UNCHANGED <<netTables, monitor, netWorld, overlapped, untold>>
CleansAddresses ==
    /\ cfg.pc = "clean"
    /\ \/ addrs' = DeleteIPAddresses(addrs, cfg.down, conf.addrs) /\ NetFine
       \/ NetFault /\ \E A \in SUBSET addrs : addrs' = DeleteIPAddresses(addrs, cfg.down, conf.addrs) \cup A
    /\ cfg' = [cfg EXCEPT !.pc = "readd"]
    /\ UNCHANGED <<routeTable, row, dns, monitor, netWorld, overlapped, untold>>

ReadsRow ==
    /\ cfg.pc = "read" /\ NetFine
    /\ cfg' = [cfg EXCEPT !.pc = "set", !.row = GetRow(row)]
    /\ overlapped' = (overlapped \/ monitor.pc = "set")
    /\ UNCHANGED <<netTables, monitor, netWorld, untold>>

RowWith(r) ==
    [r EXCEPT
     !.mtu = IF conf.mtu > 0 /\ (HasRoutes \/ conf.addrs # {}) THEN conf.mtu ELSE @,
     !.metric = IF \E p \in conf.routes : Masked(p) = DefaultRoute THEN 0 ELSE @]
SetsRow ==
    /\ cfg.pc = "set" /\ NetFine
    /\ IF cfg.row.site = "valid"
       THEN row' = RowWith(cfg.row) /\ cfg' = [cfg EXCEPT !.pc = "dns"]
       ELSE UNCHANGED row /\ cfg' = [cfg EXCEPT !.pc = "failed"]
    /\ UNCHANGED <<routeTable, addrs, dns, monitor, netWorld, overlapped, untold>>

SetsDns ==
    /\ cfg.pc = "dns" /\ NetFine
    /\ dns' = SetDNS(conf.dns)
    /\ cfg' = [cfg EXCEPT !.pc = "done"]
    /\ UNCHANGED <<routeTable, addrs, row, monitor, netWorld, overlapped, untold>>

-----------------------------------------------------------------------------
(* monitorMTU: looks once, then registers; afterwards every change of a    *)
(* default route or of an interface starts a goroutine that looks again,   *)
(* one at a time under the mutex.                                          *)
Usable == {i \in Others : others[i].up}
\* findDefaultLUID: the usable default route with the lowest combined metric, never ours.
DefaultInterface ==
    IF Usable = {} THEN NoIf
    ELSE CHOOSE i \in Usable : \A j \in Usable : others[i].metric <= others[j].metric
NlMtu(mtu) == Max({mtu - Overhead, MinMtu})

NoMonitor ==
    /\ cfg.pc = "monitor" /\ conf.mtu > 0
    /\ cfg' = [cfg EXCEPT !.pc = "routes"]
    /\ UNCHANGED <<netTables, monitor, netWorld, netFaults, overlapped, untold>>

LookDue == (cfg.pc = "monitor" /\ conf.mtu = 0 /\ ~monitor.looked) \/ monitor.pending > 0

\* A look: the default interface's MTU, compared with the one used last.
Looks ==
    /\ monitor.pc = "idle" /\ LookDue
    /\ LET mtu == IF DefaultInterface = NoIf THEN 0 ELSE others[DefaultInterface].mtu IN
         monitor' = [monitor EXCEPT
             !.looked = TRUE, !.pending = IF @ > 0 THEN @ - 1 ELSE 0,
             !.mtu = mtu, !.pc = IF mtu > 0 /\ mtu # monitor.last THEN "read" ELSE "idle"]
    /\ UNCHANGED <<cfg, netTables, netWorld, netFaults, overlapped, untold>>

MonitorReadsRow ==
    /\ monitor.pc = "read"
    /\ monitor' = [monitor EXCEPT !.pc = "set", !.row = GetRow(row)]
    /\ overlapped' = (overlapped \/ cfg.pc = "set")
    /\ UNCHANGED <<cfg, netTables, netWorld, netFaults, untold>>

MonitorSetsRow ==
    /\ monitor.pc = "set" /\ NetFine
    /\ row' = [monitor.row EXCEPT !.mtu = NlMtu(monitor.mtu)]
    /\ monitor' = [monitor EXCEPT !.pc = "idle", !.last = monitor.mtu]
    /\ UNCHANGED <<cfg, routeTable, addrs, dns, netWorld, overlapped, untold>>

Registers == cfg.pc = "monitor" /\ monitor.looked /\ monitor.pc = "idle" /\ ~monitor.registered

\* The first look's error, and the registration's, end the setup; a callback's is dropped.
MonitorFails ==
    /\ monitor.pc \in {"read", "set"} \/ (monitor.pc = "idle" /\ LookDue) \/ Registers
    /\ NetFault
    /\ monitor' = [monitor EXCEPT !.pc = "idle",
           !.pending = IF monitor.pc = "idle" /\ @ > 0 THEN @ - 1 ELSE @]
    /\ cfg' = IF monitor.registered THEN cfg ELSE [cfg EXCEPT !.pc = "failed"]
    /\ untold' = TRUE
    /\ UNCHANGED <<netTables, netWorld, overlapped>>

\* RegisterRouteChangeCallback, and routeChanged: a goroutine per callback and
\* notification; two waiting ones do what one does.
Registered(m) == [m EXCEPT !.registered = TRUE]
Notified(m) == IF m.registered THEN [m EXCEPT !.pending = Min({2, @ + 1})] ELSE m

MonitorRegisters ==
    /\ Registers
    /\ monitor' = Registered(monitor)
    /\ cfg' = [cfg EXCEPT !.pc = "routes"]
    /\ UNCHANGED <<netTables, netWorld, netFaults, overlapped, untold>>

OtherChanges(i, r) ==
    /\ weather > 0 /\ weather' = weather - 1 /\ others[i] # r
    /\ others' = [others EXCEPT ![i] = r]
    /\ monitor' = Notified(monitor)
    /\ untold' = (untold \/ (monitor.looked /\ ~monitor.registered))
    /\ UNCHANGED <<conf, cfg, netTables, netFaults, overlapped>>

-----------------------------------------------------------------------------
NetInit ==
    /\ conf \in NetConfigs
    /\ cfg = Configuring
    /\ monitor = [pc |-> "idle", looked |-> FALSE, registered |-> FALSE, pending |-> 0,
                  last |-> 0, mtu |-> 0, row |-> NoRow]
    /\ others \in [Others -> [up : BOOLEAN, mtu : {Max(Mtus)}, metric : {1}]]
    /\ routeTable = {<<i, DefaultRoute>> : i \in Others}
    /\ \E i \in Others, S \in SUBSET NetAddrs : addrs = {<<i, a>> : a \in S}
    /\ row \in [mtu : {Max(Mtus)}, metric : {1}, site : {"valid", "wild"}] /\ dns = {}
    /\ weather = MaxWeather /\ netFaults = MaxNetFaults /\ overlapped = FALSE /\ untold = FALSE

ConfigureStep ==
    \/ SetsRoutes \/ SetsAddresses \/ ListsInterfaces \/ CleansAddresses
    \/ ReadsRow \/ SetsRow \/ SetsDns \/ NoMonitor \/ MonitorRegisters
MonitorStep == Looks \/ MonitorReadsRow \/ MonitorSetsRow

NetNext ==
    \/ ConfigureStep \/ ConfigureFails \/ MonitorStep \/ MonitorFails
    \/ \E i \in Others, r \in [up : BOOLEAN, mtu : Mtus, metric : {0, 1}] : OtherChanges(i, r)

\* The thread that configures and the one of the callbacks run.
NetFairness == WF_netVars(ConfigureStep) /\ WF_netVars(MonitorStep)

NetSpec == NetInit /\ [][NetNext]_netVars /\ NetFairness

-----------------------------------------------------------------------------
(* The interface, its routes, addresses and monitors keep their types. *)
NetTypeOK ==
    /\ cfg.pc \in {"monitor", "routes", "addrs", "list", "clean", "readd", "read", "set", "dns",
                   "done", "failed"}
    /\ cfg.tryTimes \in 0..MaxTries
    /\ routeTable \subseteq (Others \cup {Ours}) \X ({DefaultRoute} \cup {Masked(p) : p \in NetRoutes})
    /\ addrs \subseteq (Others \cup {Ours}) \X NetAddrs
    /\ monitor.pending \in 0..2

(* When configureInterface succeeds, after whatever failures and retries,  *)
(* our interface has exactly the masked allowed prefixes as routes and     *)
(* exactly the configured addresses, unless the table is off.              *)
ConfiguredExactly ==
    cfg.pc = "done" =>
        /\ {r[2] : r \in {x \in routeTable : x[1] = Ours}} = IF conf.tableOff THEN {} ELSE DedupedRoutes
        /\ {a[2] : a \in {x \in addrs : x[1] = Ours}} = conf.addrs
        /\ dns = {d \in conf.dns : d[2] = NetFamily}

(* It fails only for an error of a call, or because an interface that is   *)
(* connected has one of our addresses; never for a value the row came with.*)
FailsForAReason ==
    cfg.pc = "failed" =>
        netFaults < MaxNetFaults \/ \E a \in Conflicts : a[1] \notin cfg.down

(* Another interface loses an address only if we need that address and it  *)
(* is disconnected, or came up after the interfaces were listed.           *)
OthersKeepAddresses ==
    [][\A a \in addrs \ addrs' : a[1] # Ours =>
          a[2] \in conf.addrs /\ (~others[a[1]].up \/ weather < MaxWeather)]_netVars

\* No notification is being worked on.
Settled == cfg.pc = "done" /\ monitor.pc = "idle" /\ monitor.pending = 0

(* Once the changes have been worked on, our MTU is the one configured, or *)
(* 80 less than that of the interface that carries the default route, and  *)
(* an interface with a default route has metric 0: unless the monitor was  *)
(* not told of a change, or it read the row while configureInterface was   *)
(* changing it, in which case the later writer takes the other's fields    *)
(* back for good.                                                          *)
RowSettles ==
    Settled /\ ~overlapped /\ ~untold =>
        /\ conf.mtu > 0 /\ (HasRoutes \/ conf.addrs # {}) => row.mtu = conf.mtu
        /\ conf.mtu = 0 /\ DefaultInterface # NoIf =>
               row.mtu = NlMtu(others[DefaultInterface].mtu)
        /\ (\E p \in conf.routes : Masked(p) = DefaultRoute) => row.metric = 0

(* configureInterface returns, with the routes set or with an error: the   *)
(* retries at boot end.                                                    *)
ConfigureEnds == []<>(cfg.pc \in {"done", "failed"})

(* What a configured interface is like, why a configuration fails, what    *)
(* the MTU monitor leaves, and what other interfaces lose.                 *)
NetConfigured ==
    /\ [](NetTypeOK /\ ConfiguredExactly /\ FailsForAReason /\ RowSettles)
    /\ OthersKeepAddresses
=============================================================================
