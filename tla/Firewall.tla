------------------------------- MODULE Firewall -------------------------------
(***************************************************************************)
(* The firewall of a tunnel service: the filters of tunnel/firewall that   *)
(* EnableFirewall installs in one transaction of a dynamic session, and    *)
(* when enableFirewall (tunnel/addressconfig.go) makes them restrictive.   *)
(*                                                                         *)
(* A filter gives, for every field of a packet, the values it matches;     *)
(* conditions on the same field are alternatives.  The filters share one   *)
(* sublayer: of those that match, the one with the greatest weight decides.*)
(***************************************************************************)
EXTENDS Integers, Sequences

CONSTANTS
  Addr4, Addr6,      \* remote addresses
  LinkLocal,         \* those in fe80::/10
  Broadcast,         \* 255.255.255.255
  DhcpLinkLocal,     \* ff02::1:2
  DhcpSiteLocal,     \* ff05::1:3
  RouterMulticast,   \* ff02::2
  LocalAddr,         \* the addresses of this computer
  LocalPorts, RemotePorts,
  Configs            \* the tunnel configurations

Addresses == Addr4 \cup Addr6

ASSUME AddressAssumption ==
  /\ Addr4 \cap Addr6 = {}
  /\ LinkLocal \cup {DhcpLinkLocal, DhcpSiteLocal, RouterMulticast} \subseteq Addr6
  /\ Broadcast \in Addr4
  /\ LocalAddr \subseteq Addresses
ASSUME PortAssumption == LocalPorts \cup RemotePorts \subseteq 0 .. 65535

VARIABLES
  config,      \* the configuration of the service
  pc,          \* the step of EnableFirewall
  txn,         \* the filters added in the open transaction
  active,      \* the filters in force
  wfpSession   \* whether the package holds an open session

vars == <<config, pc, txn, active, wfpSession>>

-----------------------------------------------------------------------------
Layers == {"out4", "in4", "out6", "in6"}
Protocols == {"udp", "tcp", "icmp6", "other"}

(* On these layers an ICMP type is a local port and its code a remote one. *)
PacketsOf(layers, addresses) ==
  [layer: layers, exe: BOOLEAN, user: BOOLEAN, loopback: BOOLEAN, tun: BOOLEAN,
   proto: Protocols, lport: LocalPorts, rport: RemotePorts,
   laddr: addresses \cap LocalAddr, raddr: addresses]

Packets == PacketsOf({"out4", "in4"}, Addr4) \cup PacketsOf({"out6", "in6"}, Addr6)

Everything(weight, permit) ==
  [layer |-> Layers, exe |-> BOOLEAN, user |-> BOOLEAN, loopback |-> BOOLEAN, tun |-> BOOLEAN,
   proto |-> Protocols, lport |-> LocalPorts, rport |-> RemotePorts,
   laddr |-> Addresses, raddr |-> Addresses, weight |-> weight, permit |-> permit]

Permit(weight) == Everything(weight, TRUE)
Block(weight) == Everything(weight, FALSE)

Matches(f, p) ==
  /\ p.layer \in f.layer /\ p.exe \in f.exe /\ p.user \in f.user
  /\ p.loopback \in f.loopback /\ p.tun \in f.tun
  /\ p.proto \in f.proto /\ p.lport \in f.lport /\ p.rport \in f.rport
  /\ p.laddr \in f.laddr /\ p.raddr \in f.raddr

Decisive(fs, p) ==
  {f \in fs : Matches(f, p) /\ \A g \in fs : Matches(g, p) => g.weight <= f.weight}

Permitted(fs, p) == \A f \in Decisive(fs, p) : f.permit

-----------------------------------------------------------------------------
(***************************************************************************)
(* rules.go.                                                               *)
(***************************************************************************)
permitTunInterface(weight) == {[Permit(weight) EXCEPT !.tun = {TRUE}]}

(* The executable and the service SID of the process. *)
permitWireGuardService(weight) == {[Permit(weight) EXCEPT !.exe = {TRUE}, !.user = {TRUE}]}

permitLoopback(weight) == {[Permit(weight) EXCEPT !.loopback = {TRUE}]}

permitDHCPIPv4(weight) ==
  {[Permit(weight) EXCEPT !.layer = {"out4"}, !.proto = {"udp"}, !.lport = {68}, !.rport = {67},
                          !.raddr = {Broadcast}],
   [Permit(weight) EXCEPT !.layer = {"in4"}, !.proto = {"udp"}, !.lport = {68}, !.rport = {67}]}

permitDHCPIPv6(weight) ==
  {[Permit(weight) EXCEPT !.layer = {"out6"}, !.proto = {"udp"}, !.lport = {546}, !.rport = {547},
                          !.raddr = {DhcpLinkLocal, DhcpSiteLocal}, !.laddr = LinkLocal],
   [Permit(weight) EXCEPT !.layer = {"in6"}, !.proto = {"udp"}, !.lport = {546}, !.rport = {547},
                          !.raddr = LinkLocal, !.laddr = LinkLocal]}

Icmp(weight, layers, type) ==
  [Permit(weight) EXCEPT !.layer = layers, !.proto = {"icmp6"}, !.lport = {type}, !.rport = {0}]

RouterSolicitation(weight) == [Icmp(weight, {"out6"}, 133) EXCEPT !.raddr = {RouterMulticast}]
RouterAdvertisement(weight) == [Icmp(weight, {"in6"}, 134) EXCEPT !.raddr = LinkLocal]
NeighborSolicitation(weight) == Icmp(weight, {"out6", "in6"}, 135)
NeighborAdvertisement(weight) == Icmp(weight, {"out6", "in6"}, 136)
Redirect(weight) == [Icmp(weight, {"in6"}, 137) EXCEPT !.raddr = LinkLocal]

permitNdp(weight) ==
  {RouterSolicitation(weight), RouterAdvertisement(weight), NeighborSolicitation(weight),
   NeighborAdvertisement(weight), Redirect(weight)}

(* Mutant: only the outbound layers. *)
blockOutbound(weight) == {[Block(weight) EXCEPT !.layer = {"out4", "out6"}]}

blockAll(weight) == {Block(weight)}

Dns(filter) == [filter EXCEPT !.rport = {53}, !.proto = {"udp", "tcp"}]

(* The allowing filter of an address family: none without a server of it. *)
Allows(weight, layers, servers) ==
  IF servers = {} THEN {}
  ELSE {[Dns(Permit(weight)) EXCEPT !.layer = layers, !.raddr = servers]}

(* Mutant: the blocking filter has the weight of the permission of the service. *)
blockDNSAtSameWeight(except, weightAllow, weightDeny) ==
  {Dns(Block(weightAllow))}
  \cup Allows(weightAllow, {"out4", "in4"}, except \cap Addr4)
  \cup Allows(weightAllow, {"out6", "in6"}, except \cap Addr6)

blockDNS(except, weightAllow, weightDeny) ==
  {Dns(Block(weightDeny))}
  \cup Allows(weightAllow, {"out4", "in4"}, except \cap Addr4)
  \cup Allows(weightAllow, {"out6", "in6"}, except \cap Addr6)

-----------------------------------------------------------------------------
(***************************************************************************)
(* blocker.go.                                                             *)
(***************************************************************************)
(* The allowed prefixes of the first peer are pairs of length and whether  *)
(* the host bits are zero.                                                 *)
doNotRestrict(c) ==
  ~ (c.peers = 1 /\ ~c.tableOff /\ \E a \in c.allowed : a.bits = 0 /\ a.masked)

(* What objectInstaller adds, in order. *)
Installers(c) ==
  IF doNotRestrict(c) THEN << permitWireGuardService(15) >>
  ELSE << permitWireGuardService(15),
          IF c.dns = {} THEN {} ELSE blockDNS(c.dns, 15, 14),
          permitLoopback(13), permitTunInterface(12), permitDHCPIPv4(12),
          permitDHCPIPv6(12), permitNdp(12), blockAll(0) >>

Init ==
  /\ config \in Configs
  /\ pc = 0
  /\ txn = {} /\ active = {}
  /\ wfpSession = FALSE

(* A call fails: the transaction is aborted and the session closed. *)
Fails ==
  /\ pc \in 0 .. Len(Installers(config)) + 1
  /\ pc' = -1
  /\ txn' = {}
  /\ UNCHANGED <<config, active, wfpSession>>

(* createWfpSession, fwpmTransactionBegin0, registerBaseObjects. *)
Begins ==
  /\ pc = 0
  /\ pc' = 1
  /\ UNCHANGED <<config, txn, active, wfpSession>>

Installs ==
  /\ pc \in 1 .. Len(Installers(config))
  /\ txn' = txn \cup Installers(config)[pc]
  /\ pc' = pc + 1
  /\ UNCHANGED <<config, active, wfpSession>>

Commits ==
  /\ pc = Len(Installers(config)) + 1
  /\ active' = txn /\ txn' = {}
  /\ wfpSession' = TRUE
  /\ pc' = pc + 1
  /\ UNCHANGED config

(* DisableFirewall, called when the service ends. *)
Disables ==
  /\ wfpSession
  /\ active' = {} /\ wfpSession' = FALSE
  /\ pc' = -1
  /\ UNCHANGED <<config, txn>>

(* The process is gone, and its dynamic session with it. *)
Killed ==
  /\ pc >= 0
  /\ active' = {} /\ txn' = {} /\ wfpSession' = FALSE
  /\ pc' = -1
  /\ UNCHANGED config

Next == Begins \/ Installs \/ Commits \/ Fails \/ Disables \/ Killed

Spec == Init /\ [][Next]_vars

-----------------------------------------------------------------------------
TypeOK ==
  /\ config \in Configs
  /\ pc \in -1 .. 10
  /\ wfpSession \in BOOLEAN
  /\ wfpSession <=> active # {}

Restricted == active # {} /\ ~doNotRestrict(config)

FromService(p) == p.exe /\ p.user
IsDns(p) == p.rport = 53 /\ p.proto \in {"udp", "tcp"}
IsDhcp(p) ==
  /\ p.proto = "udp"
  /\ \/ p.layer \in {"out4", "in4"} /\ p.lport = 68 /\ p.rport = 67
     \/ p.layer \in {"out6", "in6"} /\ p.lport = 546 /\ p.rport = 547 /\ p.laddr \in LinkLocal
IsNdp(p) ==
  p.layer \in {"out6", "in6"} /\ p.proto = "icmp6" /\ p.lport \in 133 .. 137 /\ p.rport = 0

(***************************************************************************)
(* The kill switch: as soon as any filter is in force, and however the     *)
(* installation went, a packet that is not the service's own passes only   *)
(* through the tunnel or on loopback, or if it is DHCP, neighbor discovery *)
(* or a query to a configured DNS server (docs/netquirk.md:20-28).         *)
(***************************************************************************)
KillSwitch ==
  Restricted => \A p \in Packets :
    Permitted(active, p) =>
      \/ FromService(p) \/ p.tun \/ p.loopback
      \/ IsDhcp(p) \/ IsNdp(p)
      \/ IsDns(p) /\ p.raddr \in config.dns

(***************************************************************************)
(* With DNS servers configured, nothing but the service reaches another    *)
(* one, not in the tunnel and not on loopback (blockDNS outranks both),    *)
(* also for an address family that has no server.                          *)
(***************************************************************************)
DnsOnlyToServers ==
  Restricted /\ config.dns # {} => \A p \in Packets :
    IsDns(p) /\ ~FromService(p) => (Permitted(active, p) <=> p.raddr \in config.dns)

(***************************************************************************)
(* What the tunnel and the physical network need is not cut off: the       *)
(* service, the tunnel and loopback apart from DNS, an address lease asked *)
(* for and granted, and the discovery of neighbors (docs/netquirk.md:22-26).*)
(***************************************************************************)
EssentialsPass ==
  Restricted => \A p \in Packets :
    \/ FromService(p)
    \/ (p.tun \/ p.loopback) /\ ~IsDns(p)
    \/ IsDhcp(p) /\ p.layer = "out4" /\ p.raddr = Broadcast
    \/ IsDhcp(p) /\ p.layer = "in4"
    \/ IsDhcp(p) /\ p.layer = "out6" /\ p.raddr \in {DhcpLinkLocal, DhcpSiteLocal}
    \/ IsDhcp(p) /\ p.layer = "in6" /\ p.raddr \in LinkLocal
    \/ IsNdp(p) /\ p.lport \in {135, 136}
    => Permitted(active, p)

(***************************************************************************)
(* The weights decide: no packet matches a permitting and a blocking       *)
(* filter of the same greatest weight (blocker.go:118-164).                *)
(***************************************************************************)
WeightsDecide ==
  Restricted => \A p \in Packets : \A f, g \in Decisive(active, p) : f.permit = g.permit

(* What passes: DNS to the configured servers alone, and the traffic a     *)
(* tunnel and its network need, as the weights of the rules decide.        *)
PacketsDecided == TypeOK /\ DnsOnlyToServers /\ EssentialsPass /\ WeightsDecide
=============================================================================
