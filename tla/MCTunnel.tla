------------------------------ MODULE MCTunnel ------------------------------
(***************************************************************************)
(* The process of a tunnel, from three sides: its service and interface    *)
(* watcher, which start and stop everything; the configuration of the      *)
(* interface and the MTU monitor, for one address family, which the        *)
(* service only sees succeed or fail; and the files it leaves for the app. *)
(* A behaviour picks one of them; the others have ended.                   *)
(***************************************************************************)
EXTENDS MCTunnelService, NetConfig, RuntimeFiles

VARIABLE part

\* Three configurations: everything at boot; one prefix that is not masked, with
\* an MTU; no table.
NetConf(R, A, tableOff, mtu, boot) ==
    [routes |-> R, addrs |-> A, dns |-> {<<"d", "v4">>, <<"d", "v6">>},
     tableOff |-> tableOff, mtu |-> mtu, boot |-> boot]
MCNetRoutes == {<<"default", 0>>, <<"lan", 0>>, <<"lan", 1>>}
MCNetConfigs ==
    {NetConf({<<"lan", 0>>, <<"lan", 1>>, <<"default", 0>>}, {"a1"}, FALSE, 0, TRUE),
     NetConf({<<"lan", 1>>}, {}, FALSE, 5, FALSE),
     NetConf({<<"default", 0>>}, {"a1"}, TRUE, 0, FALSE)}

\* What the driver answers: no peer, one, several whose sum fits or does not; no sum
\* is 1, which is what is left of one that wraps.
MCPeers == {<<>>, <<2>>, <<1, 1>>, <<2, 1>>, <<3, 2>>, <<2, 3, 3>>}

\* Two changes of other interfaces, two failing calls, or one of each.
TwoDisturbances == weather' + netFaults' >= MaxWeather + MaxNetFaults - 2

ServiceRests ==
    /\ pc = "end" /\ state = "stopped" /\ complete = FALSE /\ stop = TRUE /\ mtuAuto = FALSE
    /\ adapter = FALSE /\ up = FALSE /\ firewall = FALSE /\ routes = {} /\ appeared = {}
    /\ reg = FALSE /\ luid = FALSE /\ stored = <<>> /\ thread = [e \in Events |-> NoSetup]
    /\ holder = Nobody /\ setup = NoSetup
    /\ cbs = [f \in Families |-> 0] /\ old = [f \in Families |-> 0]
    /\ monitors = {} /\ made = 0 /\ arMutex = FALSE /\ started = 0 /\ errors = 0
    /\ watchdog = "stopped" /\ failures = 0 /\ unflushed = {}

NetRests ==
    /\ conf = NetConf({}, {}, FALSE, 5, FALSE) /\ cfg = [Configuring EXCEPT !.pc = "failed"]
    /\ monitor = [pc |-> "idle", looked |-> FALSE, registered |-> FALSE, pending |-> 0,
                  last |-> 0, mtu |-> 0, row |-> NoRow]
    /\ others = [i \in Others |-> [up |-> FALSE, mtu |-> Max(Mtus), metric |-> 1]]
    /\ routeTable = {} /\ addrs = {} /\ row = NoRow /\ dns = {}
    /\ weather = 0 /\ netFaults = 0 /\ overlapped = FALSE /\ untold = FALSE

FilesRest ==
    /\ main = "ended" /\ tunnelUp = FALSE /\ meter = "none" /\ stopMeter = FALSE
    /\ tunnelLog = [len |-> 0, size |-> 0, offset |-> 0, open |-> FALSE]
    /\ sample = 0 /\ metrics = <<>> /\ lastWritten = -1 /\ processes = 0 /\ fileFaults = 0

PartsInit ==
    /\ part \in {"service", "net", "files"}
    /\ IF part = "service" THEN Init ELSE ServiceRests
    /\ IF part = "net" THEN NetInit ELSE NetRests
    /\ IF part = "files" THEN RuntimeInit ELSE FilesRest

PartsNext ==
    /\ \/ part = "service" /\ Next /\ ThirdOrFailure /\ UNCHANGED <<netVars, runtimeVars>>
       \/ part = "net" /\ NetNext /\ TwoDisturbances /\ UNCHANGED <<vars, runtimeVars>>
       \/ part = "files" /\ RuntimeNext /\ UNCHANGED <<vars, netVars>>
    /\ UNCHANGED part

PartsSpec ==
    /\ PartsInit /\ [][PartsNext]_<<part, vars, netVars, runtimeVars>>
    /\ Fairness /\ NetFairness /\ RuntimeFairness

(* Every thread of a tunnel's process ends: a start completes or ends, an  *)
(* accepted stop ends the process, configureInterface returns, and the     *)
(* metrics thread stops when it is told to.                                *)
ProcessEnds == StartEnds /\ StopEnds /\ ConfigureEnds /\ MeterStops
=============================================================================
