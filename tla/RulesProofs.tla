----------------------------- MODULE RulesProofs -----------------------------
(***************************************************************************)
(* The parts that decide: the kill switch of Firewall and what its filters *)
(* let through, for every set of addresses, ports and configurations; the  *)
(* priority of the network rules, for every set of profiles and names; the *)
(* order of the tunnels' names; and the names that imports choose, for     *)
(* every set of connections, names and texts.                              *)
(***************************************************************************)
EXTENDS Firewall, NetworkRules, TunnelNames, ManagerProfiles, TLAPS, SequenceTheorems, FiniteSetTheorems, WellFoundedInduction

(* A packet that the firewall has no reason to let through. *)
Outside(p, c) ==
  ~ \/ FromService(p) \/ p.tun \/ p.loopback
    \/ IsDhcp(p) \/ IsNdp(p)
    \/ IsDns(p) /\ p.raddr \in c.dns

(***************************************************************************)
(* One lemma per permitting rule: what it matches is not outside.          *)
(***************************************************************************)
LEMMA TunFilter ==
  ASSUME NEW p, NEW c, NEW w, NEW f \in permitTunInterface(w), Matches(f, p)
  PROVE  ~Outside(p, c)
<1>1. p.tun \in f.tun
  BY DEF Matches
<1>2. f.tun = {TRUE}
  BY DEF permitTunInterface, Permit, Everything
<1> QED
  BY <1>1, <1>2 DEF Outside

LEMMA ServiceFilter ==
  ASSUME NEW p, NEW c, NEW w, NEW f \in permitWireGuardService(w), Matches(f, p)
  PROVE  ~Outside(p, c)
<1>1. p.exe \in f.exe /\ p.user \in f.user
  BY DEF Matches
<1>2. f.exe = {TRUE} /\ f.user = {TRUE}
  BY DEF permitWireGuardService, Permit, Everything
<1> QED
  BY <1>1, <1>2 DEF Outside, FromService

LEMMA LoopbackFilter ==
  ASSUME NEW p, NEW c, NEW w, NEW f \in permitLoopback(w), Matches(f, p)
  PROVE  ~Outside(p, c)
<1>1. p.loopback \in f.loopback
  BY DEF Matches
<1>2. f.loopback = {TRUE}
  BY DEF permitLoopback, Permit, Everything
<1> QED
  BY <1>1, <1>2 DEF Outside

LEMMA DhcpFilter4 ==
  ASSUME NEW p, NEW c, NEW w, NEW f \in permitDHCPIPv4(w), Matches(f, p)
  PROVE  ~Outside(p, c)
<1>1. p.layer \in f.layer /\ p.proto \in f.proto /\ p.lport \in f.lport /\ p.rport \in f.rport
  BY DEF Matches
<1>2. f.layer = {"out4"} \/ f.layer = {"in4"}
  BY DEF permitDHCPIPv4, Permit, Everything
<1>3. f.proto = {"udp"}
  BY DEF permitDHCPIPv4, Permit, Everything
<1>4. f.lport = {68}
  BY DEF permitDHCPIPv4, Permit, Everything
<1>5. f.rport = {67}
  BY DEF permitDHCPIPv4, Permit, Everything
<1> QED
  BY <1>1, <1>2, <1>3, <1>4, <1>5 DEF Outside, IsDhcp

LEMMA DhcpFilter6 ==
  ASSUME NEW p, NEW c, NEW w, NEW f \in permitDHCPIPv6(w), Matches(f, p)
  PROVE  ~Outside(p, c)
<1>1. /\ p.layer \in f.layer /\ p.proto \in f.proto /\ p.lport \in f.lport /\ p.rport \in f.rport
      /\ p.laddr \in f.laddr
  BY DEF Matches
<1>2. /\ f.layer = {"out6"} \/ f.layer = {"in6"}
      /\ f.proto = {"udp"} /\ f.lport = {546} /\ f.rport = {547} /\ f.laddr = LinkLocal
  <2> DEFINE out == [Permit(w) EXCEPT !.layer = {"out6"}, !.proto = {"udp"}, !.lport = {546},
                       !.rport = {547}, !.raddr = {DhcpLinkLocal, DhcpSiteLocal},
                       !.laddr = LinkLocal]
             in == [Permit(w) EXCEPT !.layer = {"in6"}, !.proto = {"udp"}, !.lport = {546},
                       !.rport = {547}, !.raddr = LinkLocal, !.laddr = LinkLocal]
  <2>1. f = out \/ f = in
    BY DEF permitDHCPIPv6
  <2>2. /\ out.layer = {"out6"} /\ out.proto = {"udp"} /\ out.lport = {546}
        /\ out.rport = {547} /\ out.laddr = LinkLocal
    BY DEF Permit, Everything
  <2>3. /\ in.layer = {"in6"} /\ in.proto = {"udp"} /\ in.lport = {546}
        /\ in.rport = {547} /\ in.laddr = LinkLocal
    BY DEF Permit, Everything
  <2> HIDE DEF out, in
  <2> QED
    BY <2>1, <2>2, <2>3
<1> QED
  BY <1>1, <1>2 DEF Outside, IsDhcp

LEMMA NdpFilter ==
  ASSUME NEW p, NEW c, NEW w, NEW f \in permitNdp(w), Matches(f, p)
  PROVE  ~Outside(p, c)
<1>1. p.layer \in f.layer /\ p.proto \in f.proto /\ p.lport \in f.lport /\ p.rport \in f.rport
  BY DEF Matches
<1>2. /\ f.layer \subseteq {"out6", "in6"}
      /\ f.proto = {"icmp6"} /\ f.rport = {0}
      /\ \E type \in 133 .. 137 : f.lport = {type}
  <2>1. CASE f = RouterSolicitation(w)
    BY <2>1 DEF RouterSolicitation, Icmp, Permit, Everything
  <2>2. CASE f = RouterAdvertisement(w)
    BY <2>2 DEF RouterAdvertisement, Icmp, Permit, Everything
  <2>3. CASE f = NeighborSolicitation(w)
    <3>1. /\ f.layer = {"out6", "in6"} /\ f.proto = {"icmp6"}
          /\ f.lport = {135} /\ f.rport = {0}
      BY <2>3 DEF NeighborSolicitation, Icmp, Permit, Everything
    <3> QED
      BY <3>1
  <2>4. CASE f = NeighborAdvertisement(w)
    <3>1. /\ f.layer = {"out6", "in6"} /\ f.proto = {"icmp6"}
          /\ f.lport = {136} /\ f.rport = {0}
      BY <2>4 DEF NeighborAdvertisement, Icmp, Permit, Everything
    <3> QED
      BY <3>1
  <2>5. CASE f = Redirect(w)
    BY <2>5 DEF Redirect, Icmp, Permit, Everything
  <2> QED
    BY <2>1, <2>2, <2>3, <2>4, <2>5 DEF permitNdp
<1> QED
  BY <1>1, <1>2 DEF Outside, IsNdp

(* The filters of blockDNS: one that blocks, and permissions for servers. *)
LEMMA DnsBlockFields ==
  /\ Dns(Block(14)).permit = FALSE
  /\ Dns(Block(14)).weight = 14
  BY DEF Dns, Block, Everything

LEMMA DnsFilter ==
  ASSUME NEW p, NEW c, NEW layers, NEW servers, servers \subseteq c.dns,
         NEW f \in Allows(15, layers, servers), Matches(f, p)
  PROVE  ~Outside(p, c)
<1>1. p.rport \in f.rport /\ p.proto \in f.proto /\ p.raddr \in f.raddr
  BY DEF Matches
<1>2. f = [Dns(Permit(15)) EXCEPT !.layer = layers, !.raddr = servers]
  BY DEF Allows
<1>3. f.rport = {53} /\ f.proto = {"udp", "tcp"} /\ f.raddr = servers
  BY <1>2 DEF Dns, Permit, Everything
<1> QED
  BY <1>1, <1>3 DEF Outside, IsDns

All(c) == UNION {Installers(c)[k] : k \in DOMAIN Installers(c)}

(* A filter of a restrictive configuration that matches an outside packet blocks. *)
LEMMA OnlyBlocks ==
  ASSUME NEW p, NEW c, ~doNotRestrict(c), Outside(p, c),
         NEW f \in All(c), Matches(f, p)
  PROVE  f = Block(0) \/ f = Dns(Block(14))
<1>1. PICK k \in DOMAIN Installers(c) : f \in Installers(c)[k]
  BY DEF All
<1>2. DOMAIN Installers(c) = 1 .. 8
  BY DEF Installers
<1>3. \/ f \in permitWireGuardService(15)
      \/ f \in (IF c.dns = {} THEN {} ELSE blockDNS(c.dns, 15, 14))
      \/ f \in permitLoopback(13) \/ f \in permitTunInterface(12) \/ f \in permitDHCPIPv4(12)
      \/ f \in permitDHCPIPv6(12) \/ f \in permitNdp(12) \/ f \in blockAll(0)
  BY <1>1, <1>2 DEF Installers
<1>4. f \in (IF c.dns = {} THEN {} ELSE blockDNS(c.dns, 15, 14)) \/ f \in blockAll(0)
  BY <1>3, ServiceFilter, LoopbackFilter, TunFilter, DhcpFilter4, DhcpFilter6, NdpFilter
<1>5. CASE f \in blockDNS(c.dns, 15, 14)
  <2>1. c.dns \cap Addr4 \subseteq c.dns /\ c.dns \cap Addr6 \subseteq c.dns
    OBVIOUS
  <2>2. f \notin Allows(15, {"out4", "in4"}, c.dns \cap Addr4)
    BY <2>1, DnsFilter
  <2>3. f \notin Allows(15, {"out6", "in6"}, c.dns \cap Addr6)
    BY <2>1, DnsFilter
  <2> QED
    BY <1>5, <2>2, <2>3 DEF blockDNS
<1>6. CASE f \in blockAll(0)
  BY <1>6 DEF blockAll
<1> QED
  BY <1>4, <1>5, <1>6

(* Block(0) matches every packet. *)
LEMMA BlockAllMatches ==
  ASSUME NEW p \in Packets
  PROVE  Matches(Block(0), p)
<1>1. /\ p.layer \in Layers /\ p.exe \in BOOLEAN /\ p.user \in BOOLEAN
      /\ p.loopback \in BOOLEAN /\ p.tun \in BOOLEAN /\ p.proto \in Protocols
      /\ p.lport \in LocalPorts /\ p.rport \in RemotePorts
      /\ p.laddr \in Addresses /\ p.raddr \in Addresses
  BY DEF Packets, PacketsOf, Layers, Addresses
<1> QED
  BY <1>1 DEF Matches, Block, Everything

LEMMA OutsideIsBlocked ==
  ASSUME NEW p \in Packets, NEW c, ~doNotRestrict(c), Outside(p, c),
         NEW fs \in SUBSET All(c), Block(0) \in fs
  PROVE  ~Permitted(fs, p)
<1>1. \A f \in fs : Matches(f, p) => f = Block(0) \/ f = Dns(Block(14))
  BY OnlyBlocks
<1>2. Block(0).permit = FALSE /\ Block(0).weight = 0
  BY DEF Block, Everything
<1>3. CASE Dns(Block(14)) \in fs /\ Matches(Dns(Block(14)), p)
  <2>1. Dns(Block(14)) \in Decisive(fs, p)
    BY <1>1, <1>2, <1>3, DnsBlockFields DEF Decisive
  <2> QED
    BY <2>1, DnsBlockFields DEF Permitted
<1>4. CASE ~(Dns(Block(14)) \in fs /\ Matches(Dns(Block(14)), p))
  <2>1. \A f \in fs : Matches(f, p) => f = Block(0)
    BY <1>1, <1>4
  <2>2. Block(0) \in Decisive(fs, p)
    BY <2>1, <1>2, BlockAllMatches DEF Decisive
  <2> QED
    BY <2>2, <1>2 DEF Permitted
<1> QED
  BY <1>3, <1>4

-----------------------------------------------------------------------------
(***************************************************************************)
(* The inductive invariant: filters come only from the rules, and a        *)
(* restrictive set is not committed without the rule that blocks the rest. *)
(***************************************************************************)
FromRules == txn \subseteq All(config) /\ active \subseteq All(config)

Complete ==
  ~doNotRestrict(config) =>
    /\ pc = 9 => Block(0) \in txn
    /\ active # {} => Block(0) \in active

IInv == pc \in Int /\ FromRules /\ Complete

LEMMA InitInv == Init => IInv
  BY DEF Init, IInv, FromRules, Complete

LEMMA NextInv == IInv /\ [Next]_vars => IInv'
<1> SUFFICES ASSUME IInv, [Next]_vars PROVE IInv'
  OBVIOUS
<1> USE DEF IInv
<1>1. CASE Begins
  BY <1>1 DEF Begins, FromRules, Complete
<1>2. CASE Installs
  <2>1. config' = config /\ active' = active /\ pc' = pc + 1 /\ pc \in DOMAIN Installers(config)
        /\ txn' = txn \cup Installers(config)[pc]
    BY <1>2 DEF Installs, Installers
  <2>2. FromRules'
    <3>1. Installers(config)[pc] \subseteq All(config)
      BY <2>1 DEF All
    <3> QED
      BY <2>1, <3>1 DEF FromRules
  <2>3. Complete'
    <3>1. ~doNotRestrict(config) /\ pc' = 9 => Block(0) \in Installers(config)[pc]
      BY <2>1 DEF Installers, blockAll
    <3> QED
      BY <2>1, <3>1 DEF Complete
  <2> QED
    BY <2>1, <2>2, <2>3
<1>3. CASE Commits
  <2>1. ~doNotRestrict(config) => Len(Installers(config)) = 8
    BY DEF Installers
  <2>2. config' = config /\ active' = txn /\ txn' = {} /\ pc' = pc + 1
        /\ pc = Len(Installers(config)) + 1
    BY <1>3 DEF Commits
  <2>3. FromRules'
    BY <2>2 DEF FromRules
  <2>4. Complete'
    <3>1. SUFFICES ASSUME ~doNotRestrict(config)
                   PROVE  (pc' = 9 => Block(0) \in txn') /\ (active' # {} => Block(0) \in active')
      BY <2>2 DEF Complete
    <3>2. pc = 9 /\ pc' = 10
      <4>1. Len(Installers(config)) = 8
        BY <2>1, <3>1
      <4> QED
        BY <2>2, <4>1
    <3>3. Block(0) \in txn
      BY <3>1, <3>2 DEF Complete
    <3> QED
      BY <2>2, <3>2, <3>3
  <2> QED
    BY <2>2, <2>3, <2>4
<1>4. CASE Fails
  BY <1>4 DEF Fails, FromRules, Complete
<1>5. CASE Disables
  BY <1>5 DEF Disables, FromRules, Complete
<1>6. CASE Killed
  BY <1>6 DEF Killed, FromRules, Complete
<1>7. CASE UNCHANGED vars
  BY <1>7 DEF vars, FromRules, Complete
<1> QED
  BY <1>1, <1>2, <1>3, <1>4, <1>5, <1>6, <1>7 DEF Next

(***************************************************************************)
(* The kill switch holds in every reachable state, for any addresses,      *)
(* ports and configurations: an installation that fails or is killed at    *)
(* any point leaves no half-restrictive set behind.                        *)
(***************************************************************************)
THEOREM KillSwitchHolds == Spec => []KillSwitch
<1>1. IInv => KillSwitch
  <2> SUFFICES ASSUME IInv, Restricted, NEW p \in Packets, Permitted(active, p),
                      Outside(p, config)
               PROVE  FALSE
    BY DEF KillSwitch, Outside
  <2>1. ~doNotRestrict(config) /\ Block(0) \in active /\ active \in SUBSET All(config)
    BY DEF IInv, Restricted, Complete, FromRules
  <2> QED
    BY <2>1, OutsideIsBlocked
<1> QED
  BY <1>1, InitInv, NextInv, PTL DEF Spec

-----------------------------------------------------------------------------
(***************************************************************************)
(* How a complete set of filters decides a packet.                         *)
(***************************************************************************)
(* The fields every packet has.                                            *)
LEMMA PacketFields ==
  ASSUME NEW p \in Packets
  PROVE  /\ p.layer \in Layers /\ p.exe \in BOOLEAN /\ p.user \in BOOLEAN
         /\ p.loopback \in BOOLEAN /\ p.tun \in BOOLEAN /\ p.proto \in Protocols
         /\ p.lport \in LocalPorts /\ p.rport \in RemotePorts
         /\ p.laddr \in Addresses /\ p.raddr \in Addresses
         /\ p.layer \in {"out4", "in4"} => p.raddr \in Addr4
         /\ p.layer \in {"out6", "in6"} => p.raddr \in Addr6
  BY DEF Packets, PacketsOf, Layers, Addresses

(* The rules, as the filters of a restrictive configuration. *)
LEMMA RulesOf ==
  ASSUME NEW c, ~doNotRestrict(c)
  PROVE  All(c) = permitWireGuardService(15)
                  \cup (IF c.dns = {} THEN {} ELSE blockDNS(c.dns, 15, 14))
                  \cup permitLoopback(13) \cup permitTunInterface(12) \cup permitDHCPIPv4(12)
                  \cup permitDHCPIPv6(12) \cup permitNdp(12) \cup blockAll(0)
<1>1. DOMAIN Installers(c) = 1 .. 8
  BY DEF Installers
<1>2. /\ Installers(c)[1] = permitWireGuardService(15)
      /\ Installers(c)[2] = IF c.dns = {} THEN {} ELSE blockDNS(c.dns, 15, 14)
      /\ Installers(c)[3] = permitLoopback(13) /\ Installers(c)[4] = permitTunInterface(12)
      /\ Installers(c)[5] = permitDHCPIPv4(12) /\ Installers(c)[6] = permitDHCPIPv6(12)
      /\ Installers(c)[7] = permitNdp(12) /\ Installers(c)[8] = blockAll(0)
  BY DEF Installers
<1>3. \A k \in 1 .. 8 : k \in {1, 2, 3, 4, 5, 6, 7, 8}
  OBVIOUS
<1> HIDE DEF Installers
<1> QED
  BY <1>1, <1>2, <1>3 DEF All

(* What the rules say of their filters. *)
LEMMA FilterWeights ==
  ASSUME NEW w \in Nat
  PROVE  /\ \A f \in permitWireGuardService(w) \cup permitLoopback(w) \cup permitTunInterface(w)
                     \cup permitDHCPIPv4(w) \cup permitDHCPIPv6(w) : f.permit = TRUE /\ f.weight = w
         /\ \A f \in permitNdp(w) : f.permit = TRUE /\ f.weight = w
<1>1. \A f \in permitWireGuardService(w) \cup permitLoopback(w) \cup permitTunInterface(w)
            \cup permitDHCPIPv4(w) \cup permitDHCPIPv6(w) : f.permit = TRUE /\ f.weight = w
  <2>1. \A f \in permitWireGuardService(w) : f.permit = TRUE /\ f.weight = w
    BY DEF permitWireGuardService, Permit, Everything
  <2>2. \A f \in permitLoopback(w) : f.permit = TRUE /\ f.weight = w
    BY DEF permitLoopback, Permit, Everything
  <2>3. \A f \in permitTunInterface(w) : f.permit = TRUE /\ f.weight = w
    BY DEF permitTunInterface, Permit, Everything
  <2>4. \A f \in permitDHCPIPv4(w) : f.permit = TRUE /\ f.weight = w
    BY DEF permitDHCPIPv4, Permit, Everything
  <2>5. ASSUME NEW f \in permitDHCPIPv6(w) PROVE f.permit = TRUE /\ f.weight = w
    <3> DEFINE out == [Permit(w) EXCEPT !.layer = {"out6"}, !.proto = {"udp"}, !.lport = {546},
                         !.rport = {547}, !.raddr = {DhcpLinkLocal, DhcpSiteLocal},
                         !.laddr = LinkLocal]
               in == [Permit(w) EXCEPT !.layer = {"in6"}, !.proto = {"udp"}, !.lport = {546},
                         !.rport = {547}, !.raddr = LinkLocal, !.laddr = LinkLocal]
    <3>1. f = out \/ f = in
      BY DEF permitDHCPIPv6
    <3>2. out.permit = TRUE /\ out.weight = w /\ in.permit = TRUE /\ in.weight = w
      BY DEF Permit, Everything
    <3> HIDE DEF out, in
    <3> QED
      BY <3>1, <3>2
  <2> QED
    BY <2>1, <2>2, <2>3, <2>4, <2>5
<1>2. \A f \in permitNdp(w) : f.permit = TRUE /\ f.weight = w
  <2>1. \A layers, type : Icmp(w, layers, type).permit = TRUE /\ Icmp(w, layers, type).weight = w
    BY DEF Icmp, Permit, Everything
  <2>2. RouterSolicitation(w).permit = TRUE /\ RouterSolicitation(w).weight = w
    BY DEF RouterSolicitation, Icmp, Permit, Everything
  <2>3. RouterAdvertisement(w).permit = TRUE /\ RouterAdvertisement(w).weight = w
    BY DEF RouterAdvertisement, Icmp, Permit, Everything
  <2>4. Redirect(w).permit = TRUE /\ Redirect(w).weight = w
    BY DEF Redirect, Icmp, Permit, Everything
  <2> QED
    BY <2>1, <2>2, <2>3, <2>4 DEF permitNdp, NeighborSolicitation, NeighborAdvertisement
<1> QED
  BY <1>1, <1>2

(* Two filters block; the others permit, with weights of their own.        *)
LEMMA WeightOf ==
  ASSUME NEW c, ~doNotRestrict(c), NEW f \in All(c)
  PROVE  \/ f = Block(0) \/ f = Dns(Block(14))
         \/ f.permit = TRUE /\ f.weight \in {12, 13}
         \/ /\ f.permit = TRUE /\ f.weight = 15
            /\ \/ f \in permitWireGuardService(15)
               \/ \E layers : \E servers \in SUBSET c.dns : f \in Allows(15, layers, servers)
<1>1. CASE f \in blockDNS(c.dns, 15, 14)
  <2>1. c.dns \cap Addr4 \in SUBSET c.dns /\ c.dns \cap Addr6 \in SUBSET c.dns
    OBVIOUS
  <2>2. f = Dns(Block(14)) \/ \E layers : \E servers \in SUBSET c.dns : f \in Allows(15,
        layers, servers)
    BY <1>1, <2>1 DEF blockDNS
  <2>3. CASE f = Dns(Block(14))
    BY <2>3
  <2>4. ASSUME NEW layers, NEW servers \in SUBSET c.dns, f \in Allows(15, layers, servers)
        PROVE  f.permit = TRUE /\ f.weight = 15
    BY <2>4 DEF Allows, Dns, Permit, Everything
  <2> QED
    BY <2>2, <2>3, <2>4
<1>2. CASE f \in permitLoopback(13)
  BY <1>2, FilterWeights
<1>3. CASE f \in permitTunInterface(12) \cup permitDHCPIPv4(12) \cup permitDHCPIPv6(12) \cup permitNdp(12)
  BY <1>3, FilterWeights
<1>4. CASE f \in permitWireGuardService(15)
  BY <1>4, FilterWeights
<1>5. CASE f \in blockAll(0)
  BY <1>5 DEF blockAll
<1> QED
  BY <1>1, <1>2, <1>3, <1>4, <1>5, RulesOf

(* The blocking filter of blockDNS matches DNS, and nothing else. *)
LEMMA DnsBlockMatches ==
  ASSUME NEW p \in Packets PROVE Matches(Dns(Block(14)), p) <=> IsDns(p)
<1> DEFINE f == Dns(Block(14))
<1>1. /\ f.layer = Layers /\ f.exe = BOOLEAN /\ f.user = BOOLEAN /\ f.loopback = BOOLEAN
      /\ f.tun = BOOLEAN /\ f.proto = {"udp", "tcp"} /\ f.lport = LocalPorts /\ f.rport = {53}
      /\ f.laddr = Addresses /\ f.raddr = Addresses
  BY DEF Dns, Block, Everything
<1> HIDE DEF f
<1>2. Matches(f, p) <=> IsDns(p)
  BY <1>1, PacketFields DEF Matches, IsDns
<1> QED
  BY <1>2 DEF f

(* A permission decides unless it is DNS that a lesser weight permits.     *)
LEMMA PermissionDecides ==
  ASSUME NEW p \in Packets, NEW c, ~doNotRestrict(c),
         NEW g \in All(c), Matches(g, p), g.permit = TRUE, IsDns(p) => g.weight = 15
  PROVE  Permitted(All(c), p)
<1> SUFFICES ASSUME NEW f \in All(c), Matches(f, p), g.weight <= f.weight
             PROVE  f.permit
  BY DEF Permitted, Decisive
<1>0. Block(0).permit = FALSE /\ Block(0).weight = 0
  BY DEF Block, Everything
<1>1. g.weight \in {12, 13, 15}
  BY <1>0, WeightOf, DnsBlockFields
<1>2. f # Block(0)
  BY <1>0, <1>1
<1>3. f # Dns(Block(14))
  BY <1>1, DnsBlockFields, DnsBlockMatches
<1> QED
  BY <1>2, <1>3, WeightOf

(***************************************************************************)
(* What a tunnel and its network need: each packet matches a permission    *)
(* that no block outweighs.                                                *)
(***************************************************************************)
LEMMA ServicePasses ==
  ASSUME NEW p \in Packets, NEW c, ~doNotRestrict(c), FromService(p) PROVE Permitted(All(c), p)
<1> DEFINE f == [Permit(15) EXCEPT !.exe = {TRUE}, !.user = {TRUE}]
<1>1. /\ f.layer = Layers /\ f.exe = {TRUE} /\ f.user = {TRUE} /\ f.loopback = BOOLEAN
      /\ f.tun = BOOLEAN /\ f.proto = Protocols /\ f.lport = LocalPorts /\ f.rport = RemotePorts
      /\ f.laddr = Addresses /\ f.raddr = Addresses /\ f.permit = TRUE /\ f.weight = 15
  BY DEF Permit, Everything
<1>2. f \in All(c)
  BY RulesOf DEF permitWireGuardService
<1> HIDE DEF f
<1>3. Matches(f, p)
  BY <1>1, PacketFields DEF Matches, FromService
<1> QED
  BY <1>1, <1>2, <1>3, PermissionDecides

LEMMA TunnelAndLoopbackPass ==
  ASSUME NEW p \in Packets, NEW c, ~doNotRestrict(c), p.tun \/ p.loopback, ~IsDns(p)
  PROVE  Permitted(All(c), p)
<1> DEFINE f == [Permit(12) EXCEPT !.tun = {TRUE}]
           g == [Permit(13) EXCEPT !.loopback = {TRUE}]
<1>1. /\ f.layer = Layers /\ f.exe = BOOLEAN /\ f.user = BOOLEAN /\ f.loopback = BOOLEAN
      /\ f.tun = {TRUE} /\ f.proto = Protocols /\ f.lport = LocalPorts /\ f.rport = RemotePorts
      /\ f.laddr = Addresses /\ f.raddr = Addresses /\ f.permit = TRUE
  BY DEF Permit, Everything
<1>2. /\ g.layer = Layers /\ g.exe = BOOLEAN /\ g.user = BOOLEAN /\ g.loopback = {TRUE}
      /\ g.tun = BOOLEAN /\ g.proto = Protocols /\ g.lport = LocalPorts /\ g.rport = RemotePorts
      /\ g.laddr = Addresses /\ g.raddr = Addresses /\ g.permit = TRUE
  BY DEF Permit, Everything
<1>3. f \in All(c) /\ g \in All(c)
  BY RulesOf DEF permitTunInterface, permitLoopback
<1> HIDE DEF f, g
<1>4. (p.tun => Matches(f, p)) /\ (p.loopback => Matches(g, p))
  BY <1>1, <1>2, PacketFields DEF Matches
<1> QED
  BY <1>1, <1>2, <1>3, <1>4, PermissionDecides

LEMMA LeasesPass4 ==
  ASSUME NEW p \in Packets, NEW c, ~doNotRestrict(c), IsDhcp(p),
         p.layer = "in4" \/ (p.layer = "out4" /\ p.raddr = Broadcast)
  PROVE  Permitted(All(c), p)
<1> DEFINE out == [Permit(12) EXCEPT !.layer = {"out4"}, !.proto = {"udp"}, !.lport = {68},
                     !.rport = {67}, !.raddr = {Broadcast}]
           in == [Permit(12) EXCEPT !.layer = {"in4"}, !.proto = {"udp"}, !.lport = {68},
                    !.rport = {67}]
<1>1. /\ out.layer = {"out4"} /\ out.exe = BOOLEAN /\ out.user = BOOLEAN /\ out.loopback = BOOLEAN
      /\ out.tun = BOOLEAN /\ out.proto = {"udp"} /\ out.lport = {68} /\ out.rport = {67}
      /\ out.laddr = Addresses /\ out.raddr = {Broadcast} /\ out.permit = TRUE
  BY DEF Permit, Everything
<1>2. /\ in.layer = {"in4"} /\ in.exe = BOOLEAN /\ in.user = BOOLEAN /\ in.loopback = BOOLEAN
      /\ in.tun = BOOLEAN /\ in.proto = {"udp"} /\ in.lport = {68} /\ in.rport = {67}
      /\ in.laddr = Addresses /\ in.raddr = Addresses /\ in.permit = TRUE
  BY DEF Permit, Everything
<1>3. out \in All(c) /\ in \in All(c)
  BY RulesOf DEF permitDHCPIPv4
<1> HIDE DEF out, in
<1>4. p.proto = "udp" /\ p.lport = 68 /\ p.rport = 67
  BY DEF IsDhcp
<1>5. Matches(out, p) \/ Matches(in, p)
  BY <1>1, <1>2, <1>4, PacketFields DEF Matches
<1>6. ~IsDns(p)
  BY <1>4 DEF IsDns
<1> QED
  BY <1>1, <1>2, <1>3, <1>5, <1>6, PermissionDecides

LEMMA LeasesPass6 ==
  ASSUME NEW p \in Packets, NEW c, ~doNotRestrict(c), IsDhcp(p),
         \/ p.layer = "in6" /\ p.raddr \in LinkLocal
         \/ p.layer = "out6" /\ p.raddr \in {DhcpLinkLocal, DhcpSiteLocal}
  PROVE  Permitted(All(c), p)
<1> DEFINE out == [Permit(12) EXCEPT !.layer = {"out6"}, !.proto = {"udp"}, !.lport = {546},
                     !.rport = {547}, !.raddr = {DhcpLinkLocal, DhcpSiteLocal},
                     !.laddr = LinkLocal]
           in == [Permit(12) EXCEPT !.layer = {"in6"}, !.proto = {"udp"}, !.lport = {546},
                    !.rport = {547}, !.raddr = LinkLocal, !.laddr = LinkLocal]
<1>1. /\ out.layer = {"out6"} /\ out.exe = BOOLEAN /\ out.user = BOOLEAN /\ out.loopback = BOOLEAN
      /\ out.tun = BOOLEAN /\ out.proto = {"udp"} /\ out.lport = {546} /\ out.rport = {547}
      /\ out.laddr = LinkLocal /\ out.raddr = {DhcpLinkLocal, DhcpSiteLocal} /\ out.permit = TRUE
  BY DEF Permit, Everything
<1>2. /\ in.layer = {"in6"} /\ in.exe = BOOLEAN /\ in.user = BOOLEAN /\ in.loopback = BOOLEAN
      /\ in.tun = BOOLEAN /\ in.proto = {"udp"} /\ in.lport = {546} /\ in.rport = {547}
      /\ in.laddr = LinkLocal /\ in.raddr = LinkLocal /\ in.permit = TRUE
  BY DEF Permit, Everything
<1>3. out \in All(c) /\ in \in All(c)
  BY RulesOf DEF permitDHCPIPv6
<1> HIDE DEF out, in
<1>4. p.proto = "udp" /\ p.lport = 546 /\ p.rport = 547 /\ p.laddr \in LinkLocal
  BY DEF IsDhcp
<1>5. Matches(out, p) \/ Matches(in, p)
  BY <1>1, <1>2, <1>4, PacketFields DEF Matches
<1>6. ~IsDns(p)
  BY <1>4 DEF IsDns
<1> QED
  BY <1>1, <1>2, <1>3, <1>5, <1>6, PermissionDecides

LEMMA NeighborsPass ==
  ASSUME NEW p \in Packets, NEW c, ~doNotRestrict(c), IsNdp(p), p.lport \in {135, 136}
  PROVE  Permitted(All(c), p)
<1> DEFINE f == NeighborSolicitation(12)
           g == NeighborAdvertisement(12)
<1>1. /\ f.layer = {"out6", "in6"} /\ f.exe = BOOLEAN /\ f.user = BOOLEAN /\ f.loopback = BOOLEAN
      /\ f.tun = BOOLEAN /\ f.proto = {"icmp6"} /\ f.lport = {135} /\ f.rport = {0}
      /\ f.laddr = Addresses /\ f.raddr = Addresses /\ f.permit = TRUE
  BY DEF NeighborSolicitation, Icmp, Permit, Everything
<1>2. /\ g.layer = {"out6", "in6"} /\ g.exe = BOOLEAN /\ g.user = BOOLEAN /\ g.loopback = BOOLEAN
      /\ g.tun = BOOLEAN /\ g.proto = {"icmp6"} /\ g.lport = {136} /\ g.rport = {0}
      /\ g.laddr = Addresses /\ g.raddr = Addresses /\ g.permit = TRUE
  BY DEF NeighborAdvertisement, Icmp, Permit, Everything
<1>3. f \in All(c) /\ g \in All(c)
  BY RulesOf DEF permitNdp
<1> HIDE DEF f, g
<1>4. p.layer \in {"out6", "in6"} /\ p.proto = "icmp6" /\ p.rport = 0
  BY DEF IsNdp
<1>5. Matches(f, p) \/ Matches(g, p)
  BY <1>1, <1>2, <1>4, PacketFields DEF Matches
<1>6. ~IsDns(p)
  BY <1>4 DEF IsDns
<1> QED
  BY <1>1, <1>2, <1>3, <1>5, <1>6, PermissionDecides

(* DNS passes to the configured servers and, the service apart, to no other. *)
LEMMA DnsDecided ==
  ASSUME NEW p \in Packets, NEW c, ~doNotRestrict(c), c.dns # {}, IsDns(p), ~FromService(p)
  PROVE  Permitted(All(c), p) <=> p.raddr \in c.dns
<1>1. ASSUME p.raddr \in c.dns PROVE Permitted(All(c), p)
  <2> DEFINE layers == IF p.raddr \in Addr4 THEN {"out4", "in4"} ELSE {"out6", "in6"}
             servers == c.dns \cap (IF p.raddr \in Addr4 THEN Addr4 ELSE Addr6)
             f == [Dns(Permit(15)) EXCEPT !.layer = layers, !.raddr = servers]
  <2>1. /\ f.layer = layers /\ f.exe = BOOLEAN /\ f.user = BOOLEAN /\ f.loopback = BOOLEAN
        /\ f.tun = BOOLEAN /\ f.proto = {"udp", "tcp"} /\ f.lport = LocalPorts /\ f.rport = {53}
        /\ f.laddr = Addresses /\ f.raddr = servers /\ f.permit = TRUE /\ f.weight = 15
    BY DEF Dns, Permit, Everything
  <2>2. p.raddr \in servers /\ p.layer \in layers
    BY <1>1, PacketFields, AddressAssumption DEF Addresses, Layers
  <2>3. f \in All(c)
    <3>1. f \in Allows(15, layers, servers)
      BY <2>2 DEF Allows
    <3>2. f \in blockDNS(c.dns, 15, 14)
      BY <3>1 DEF blockDNS
    <3> QED
      BY <3>2, RulesOf
  <2> HIDE DEF layers, servers, f
  <2>4. Matches(f, p)
    BY <2>1, <2>2, PacketFields DEF Matches, IsDns
  <2> QED
    BY <2>1, <2>3, <2>4, PermissionDecides
<1>2. ASSUME p.raddr \notin c.dns PROVE ~Permitted(All(c), p)
  <2>1. Dns(Block(14)) \in All(c) /\ Matches(Dns(Block(14)), p)
    <3>1. Dns(Block(14)) \in blockDNS(c.dns, 15, 14)
      BY DEF blockDNS
    <3> QED
      BY <3>1, DnsBlockMatches, RulesOf
  <2>2. ASSUME NEW g \in All(c), Matches(g, p) PROVE g.weight <= 14
    <3>1. ASSUME g \in permitWireGuardService(15) PROVE FALSE
      <4>1. \A f \in permitWireGuardService(15) : f.exe = {TRUE} /\ f.user = {TRUE}
        BY DEF permitWireGuardService, Permit, Everything
      <4>2. p.exe \in g.exe /\ p.user \in g.user
        BY <2>2 DEF Matches
      <4>3. p.exe = TRUE /\ p.user = TRUE
        BY <3>1, <4>1, <4>2
      <4> QED
        BY <4>3 DEF FromService
    <3>2. ASSUME NEW layers, NEW servers \in SUBSET c.dns PROVE g \notin Allows(15, layers, servers)
      <4>1. \A f \in Allows(15, layers, servers) : f.raddr = servers
        BY DEF Allows, Dns, Permit, Everything
      <4> QED
        BY <1>2, <2>2, <4>1 DEF Matches
    <3>3. Block(0).weight = 0
      BY DEF Block, Everything
    <3>4. \/ g = Block(0) \/ g = Dns(Block(14)) \/ g.weight \in {12, 13}
          \/ g \in permitWireGuardService(15)
          \/ \E layers : \E servers \in SUBSET c.dns : g \in Allows(15, layers, servers)
      BY WeightOf
    <3> QED
      BY <3>1, <3>2, <3>3, <3>4, DnsBlockFields
  <2>3. Dns(Block(14)) \in Decisive(All(c), p)
    BY <2>1, <2>2, DnsBlockFields DEF Decisive
  <2> QED
    BY <2>3, DnsBlockFields DEF Permitted
<1> QED
  BY <1>1, <1>2

(* Two decisive filters have one weight, and a weight permits or blocks.   *)
LEMMA DecisiveAgree ==
  ASSUME NEW p, NEW c, ~doNotRestrict(c), NEW f \in Decisive(All(c), p),
      NEW g \in Decisive(All(c), p)
  PROVE  f.permit = g.permit
<1>1. f \in All(c) /\ g \in All(c) /\ f.weight <= g.weight /\ g.weight <= f.weight
  BY DEF Decisive
<1>2. Block(0).permit = FALSE /\ Block(0).weight = 0
  BY DEF Block, Everything
<1>3. ASSUME NEW h \in All(c)
      PROVE  \/ h.weight = 0 /\ h.permit = FALSE
             \/ h.weight = 14 /\ h.permit = FALSE
             \/ h.weight = 12 /\ h.permit = TRUE
             \/ h.weight = 13 /\ h.permit = TRUE
             \/ h.weight = 15 /\ h.permit = TRUE
  <2>1. \/ h = Block(0) \/ h = Dns(Block(14))
        \/ h.permit = TRUE /\ h.weight \in {12, 13}
        \/ h.permit = TRUE /\ h.weight = 15
    BY WeightOf
  <2> QED
    BY <1>2, <2>1, DnsBlockFields
<1> DEFINE Decides(h) == \/ h.weight = 0 /\ h.permit = FALSE
                         \/ h.weight = 14 /\ h.permit = FALSE
                         \/ h.weight = 12 /\ h.permit = TRUE
                         \/ h.weight = 13 /\ h.permit = TRUE
                         \/ h.weight = 15 /\ h.permit = TRUE
<1>4. Decides(f) /\ Decides(g)
  BY <1>1, <1>3
<1>5. f.weight = g.weight
  <2>1. f.weight \in 0 .. 15 /\ g.weight \in 0 .. 15
    BY <1>4
  <2> QED
    BY <1>1, <2>1
<1>6. CASE f.permit = TRUE
  <2>1. g.permit = TRUE
    BY <1>4, <1>5, <1>6
  <2> QED
    BY <1>6, <2>1
<1>7. CASE f.permit = FALSE
  <2>1. g.permit = FALSE
    BY <1>4, <1>5, <1>7
  <2> QED
    BY <1>7, <2>1
<1> QED
  BY <1>4, <1>6, <1>7

-----------------------------------------------------------------------------
(***************************************************************************)
(* The transaction holds the filters of the rules added so far, and what   *)
(* is in force is all of them or nothing.                                  *)
(***************************************************************************)
AddedBy(c, k) == UNION {Installers(c)[j] : j \in 1 .. k}

Transaction ==
  /\ config \in Configs
  /\ pc \in -1 .. Len(Installers(config)) + 2
  /\ txn = IF pc \in 1 .. Len(Installers(config)) + 1 THEN AddedBy(config, pc - 1) ELSE {}
  /\ active # {} => active = All(config)
  /\ wfpSession \in BOOLEAN /\ (wfpSession <=> active # {})
  /\ wfpSession => pc = Len(Installers(config)) + 2 \/ pc = -1

LEMMA InstallersFacts ==
  ASSUME NEW c
  PROVE  /\ Len(Installers(c)) \in {1, 8} /\ DOMAIN Installers(c) = 1 .. Len(Installers(c))
         /\ AddedBy(c, Len(Installers(c))) = All(c) /\ All(c) # {}
         /\ AddedBy(c, 0) = {}
         /\ \A k \in 1 .. Len(Installers(c)) : AddedBy(c, k) = AddedBy(c,
            k - 1) \cup Installers(c)[k]
<1>1. Len(Installers(c)) \in {1, 8} /\ DOMAIN Installers(c) = 1 .. Len(Installers(c))
  <2>1. CASE doNotRestrict(c)
    <3>1. Installers(c) = << permitWireGuardService(15) >>
      BY <2>1 DEF Installers
    <3>2. Len(Installers(c)) = 1 /\ DOMAIN Installers(c) = 1 .. 1
      BY <3>1
    <3> QED
      BY <3>2
  <2>2. CASE ~doNotRestrict(c)
    <3>1. Len(Installers(c)) = 8 /\ DOMAIN Installers(c) = 1 .. 8
      BY <2>2 DEF Installers
    <3> QED
      BY <3>1
  <2> QED
    BY <2>1, <2>2
<1>2. Installers(c)[1] = permitWireGuardService(15)
  BY DEF Installers
<1>3. permitWireGuardService(15) # {}
  BY DEF permitWireGuardService
<1>4. AddedBy(c, Len(Installers(c))) = All(c)
  BY <1>1 DEF AddedBy, All
<1>5. All(c) # {}
  <2>1. 1 \in DOMAIN Installers(c)
    BY <1>1
  <2> QED
    BY <1>2, <1>3, <2>1 DEF All
<1>6. AddedBy(c, 0) = {}
  BY DEF AddedBy
<1>7. ASSUME NEW k \in 1 .. Len(Installers(c))
      PROVE  AddedBy(c, k) = AddedBy(c, k - 1) \cup Installers(c)[k]
  <2>1. k \in Int /\ 1 .. k = (1 .. k - 1) \cup {k}
    BY <1>1
  <2> QED
    BY <2>1 DEF AddedBy
<1> QED
  BY <1>1, <1>4, <1>5, <1>6, <1>7

LEMMA TransactionInductive ==
  /\ Init => Transaction
  /\ Transaction /\ [Next]_vars => Transaction'
<1>1. ASSUME Init PROVE Transaction
  <2> DEFINE n == Len(Installers(config))
  <2>1. n \in Nat
    BY InstallersFacts
  <2> HIDE DEF n
  <2>2. pc \in -1 .. n + 2 /\ ~(pc \in 1 .. n + 1)
    BY <1>1, <2>1 DEF Init
  <2>3. txn = {} /\ active = {} /\ wfpSession = FALSE /\ config \in Configs
    BY <1>1 DEF Init
  <2> QED
    BY <2>2, <2>3 DEF Transaction, n
<1>2. ASSUME Transaction, [Next]_vars PROVE Transaction'
  <2> DEFINE n == Len(Installers(config))
             added(k) == AddedBy(config, k)
             all == All(config)
             Fits(i, tx, act, s) ==
                 /\ i \in -1 .. n + 2
                 /\ tx = IF i \in 1 .. n + 1 THEN added(i - 1) ELSE {}
                 /\ act # {} => act = all
                 /\ s \in BOOLEAN /\ (s <=> act # {})
                 /\ s => i = n + 2 \/ i = -1
  <2>0. /\ n = 1 \/ n = 8
        /\ added(n) = all /\ all # {} /\ added(0) = {}
        /\ \A k \in 1 .. n : added(k) = added(k - 1) \cup Installers(config)[k]
    BY InstallersFacts
  <2>1. config' = config /\ config \in Configs
    BY <1>2 DEF Next, Begins, Installs, Commits, Fails, Disables, Killed, vars, Transaction
  <2>2. Fits(pc, txn, active, wfpSession)
    BY <1>2 DEF Transaction
  <2>3. SUFFICES Fits(pc', txn', active', wfpSession')
    BY <2>1 DEF Transaction
  <2>a. /\ Installs <=> /\ pc \in 1 .. n /\ txn' = txn \cup Installers(config)[pc] /\ pc' = pc + 1
                       /\ UNCHANGED <<config, active, wfpSession>>
        /\ Commits <=> /\ pc = n + 1 /\ active' = txn /\ txn' = {} /\ wfpSession' = TRUE
                      /\ pc' = pc + 1 /\ UNCHANGED config
        /\ Fails => pc' = -1 /\ txn' = {} /\ pc \in 0 .. n + 1 /\ UNCHANGED <<active, wfpSession>>
    BY DEF Installs, Commits, Fails
  <2> HIDE DEF n, added, all
  <2>4. CASE Begins
    BY <2>0, <2>2, <2>4 DEF Begins
  <2>5. CASE Installs
    <3>1. pc \in 1 .. n /\ pc' = pc + 1 /\ UNCHANGED <<active, wfpSession>> /\ ~wfpSession
      BY <2>0, <2>2, <2>5, <2>a
    <3>2. txn' = added(pc' - 1) /\ pc' \in 1 .. n + 1
      <4>1. txn = added(pc - 1) /\ pc' - 1 = pc
        BY <2>0, <2>2, <3>1
      <4> QED
        <5>1. txn' = txn \cup Installers(config)[pc]
                /\ added(pc) = added(pc - 1) \cup Installers(config)[pc]
          BY <2>0, <2>5, <2>a, <3>1
        <5>2. pc' \in 1 .. n + 1
          BY <2>0, <3>1
        <5> QED
          BY <4>1, <5>1, <5>2
    <3> QED
      BY <2>0, <2>2, <3>1, <3>2
  <2>6. CASE Commits
    <3>1. /\ pc = n + 1 /\ pc' = n + 2 /\ active' = txn /\ txn' = {} /\ wfpSession' = TRUE
          /\ txn = added(n)
      BY <2>0, <2>2, <2>6, <2>a
    <3>2. pc' \in -1 .. n + 2 /\ ~(pc' \in 1 .. n + 1) /\ active' = all /\ all # {}
      BY <2>0, <3>1
    <3> QED
      BY <3>1, <3>2
  <2>7. CASE Fails
    BY <2>0, <2>2, <2>7, <2>a
  <2>8. CASE Disables
    <3>1. pc' = -1 /\ active' = {} /\ wfpSession' = FALSE /\ txn' = txn /\ txn = {}
      BY <2>0, <2>2, <2>8 DEF Disables
    <3>2. pc' \in -1 .. n + 2 /\ ~(pc' \in 1 .. n + 1)
      BY <2>0, <3>1
    <3> QED
      BY <3>1, <3>2
  <2>9. CASE Killed
    <3>1. pc' = -1 /\ active' = {} /\ wfpSession' = FALSE /\ txn' = {}
      BY <2>9 DEF Killed
    <3>2. pc' \in -1 .. n + 2 /\ ~(pc' \in 1 .. n + 1)
      BY <2>0, <3>1
    <3> QED
      BY <3>1, <3>2
  <2>10. CASE UNCHANGED vars
    BY <2>2, <2>10 DEF vars
  <2> QED
    BY <1>2, <2>4, <2>5, <2>6, <2>7, <2>8, <2>9, <2>10 DEF Next
<1> QED
  BY <1>1, <1>2

(***************************************************************************)
(* A firewall in force is a complete one, so it decides every packet: DNS  *)
(* goes to the configured servers alone, what a tunnel and its network     *)
(* need passes, and no packet is left to filters that disagree, for any    *)
(* addresses, ports and configurations.                                    *)
(***************************************************************************)
THEOREM PacketsAreDecided == Spec => []PacketsDecided
<1>1. Transaction => PacketsDecided
  <2> SUFFICES ASSUME Transaction PROVE PacketsDecided
    OBVIOUS
  <2>1. TypeOK
    <3> DEFINE n == Len(Installers(config))
    <3>1. (n = 1 \/ n = 8) /\ pc \in -1 .. n + 2
      BY InstallersFacts DEF Transaction
    <3> HIDE DEF n
    <3>2. pc \in -1 .. 10
      BY <3>1
    <3> QED
      BY <3>2 DEF Transaction, TypeOK
  <2>2. Restricted => active = All(config) /\ ~doNotRestrict(config)
    BY DEF Transaction, Restricted
  <2>3. DnsOnlyToServers
    BY <2>2, DnsDecided DEF DnsOnlyToServers
  <2>4. EssentialsPass
    BY <2>2, ServicePasses, TunnelAndLoopbackPass, LeasesPass4, LeasesPass6, NeighborsPass
       DEF EssentialsPass
  <2>5. WeightsDecide
    BY <2>2, DecisiveAgree DEF WeightsDecide
  <2> QED
    BY <2>1, <2>3, <2>4, <2>5 DEF PacketsDecided
<1> QED
  BY <1>1, TransactionInductive, PTL DEF Spec

-----------------------------------------------------------------------------
(***************************************************************************)
(* The network rules.  RulesStart is what Validate accepted and what the   *)
(* evaluator has observed of the network; no step changes the policy.      *)
(***************************************************************************)
Assignment == [Ssid : Names, ProfileId : Ids]

RulesInv ==
  /\ policy \in Policies
  /\ Valid(policy, 2 * MaxNames)
  /\ transport \in Transports
  /\ ssid \in Names \cup {Nil}
  /\ available \in SUBSET Ids

\* The lists of a policy are sequences.
LEMMA ListsAreSequences ==
  ASSUME NEW S, NEW l \in Lists(S)
  PROVE  l \in Seq(S)
<1>1. PICK n \in 0 .. MaxNames : l \in [1 .. n -> S]
  BY DEF Lists
<1>2. n \in Nat
  BY RulesAssumption
<1> QED
  BY <1>1, <1>2, SeqDef

\* What a sequence has at its indices; one that is not empty has an index.
LEMMA SequenceFacts ==
  ASSUME NEW S, NEW s \in Seq(S)
  PROVE  /\ Len(s) \in Nat
         /\ DOMAIN s = 1 .. Len(s)
         /\ \A i \in DOMAIN s : s[i] \in S
         /\ s # <<>> <=> DOMAIN s # {}
<1>1. Len(s) \in Nat /\ s \in [1 .. Len(s) -> S] /\ DOMAIN s = 1 .. Len(s)
  BY LenProperties
<1>2. \A i \in DOMAIN s : s[i] \in S
  BY <1>1
<1>3. ASSUME s # <<>>
      PROVE  1 \in DOMAIN s
  <2>1. Len(s) \in Nat \ {0}
    BY <1>3, EmptySeq
  <2> QED
    BY <1>1, <2>1
<1>4. ASSUME s = <<>>
      PROVE  DOMAIN s = {}
  <2>1. Len(s) = 0
    BY <1>4, EmptySeq
  <2> QED
    BY <1>1, <2>1
<1> QED
  BY <1>1, <1>2, <1>3, <1>4

\* Where the second of two lists that are joined has its elements.
LEMMA JoinedLists ==
  ASSUME NEW S, NEW s \in Seq(S), NEW t \in Seq(S), NEW i \in 1 .. Len(t)
  PROVE  Len(s) + i \in DOMAIN (s \o t) /\ (s \o t)[Len(s) + i] = t[i]
<1>1. Len(s) \in Nat /\ Len(t) \in Nat
  BY LenProperties
<1>2. s \o t \in Seq(S) /\ Len(s \o t) = Len(s) + Len(t)
  BY ConcatProperties
<1>3. \A k \in 1 .. Len(s) + Len(t) :
        (s \o t)[k] = IF k <= Len(s) THEN s[k] ELSE t[k - Len(s)]
  BY ConcatProperties
<1>4. DOMAIN (s \o t) = 1 .. Len(s) + Len(t)
  BY <1>2, LenProperties
<1> DEFINE n == Len(s) + i
<1>5. n \in 1 .. Len(s) + Len(t) /\ ~(n <= Len(s)) /\ n - Len(s) = i
  BY <1>1
<1> HIDE DEF n
<1>6. (s \o t)[n] = t[n - Len(s)]
  BY <1>3, <1>5
<1> QED
  BY <1>4, <1>5, <1>6 DEF n

\* What the fields of a policy are.
LEMMA PolicyFields ==
  ASSUME NEW p \in Policies
  PROVE  /\ p.Enabled \in BOOLEAN
         /\ p.DefaultProfileId \in Ids \cup {Nil}
         /\ p.WiFi \in Targets
         /\ p.TrustedSsids \in Seq(Names)
         /\ p.Assignments \in Seq(Assignment)
<1>1. p.TrustedSsids \in Lists(Names) /\ p.Assignments \in Lists(Assignment)
  BY DEF Policies, Assignment
<1>2. p.TrustedSsids \in Seq(Names) /\ p.Assignments \in Seq(Assignment)
  BY <1>1, ListsAreSequences
<1> QED
  BY <1>2 DEF Policies

(* Validate compares all names of both lists: the names of the assignments *)
(* follow the trusted ones, so no two assignments are for one network.     *)
LEMMA OneAssignment ==
  ASSUME NEW p \in Policies, Valid(p, 2 * MaxNames),
         NEW i \in DOMAIN p.Assignments, NEW j \in DOMAIN p.Assignments,
         p.Assignments[i].Ssid = p.Assignments[j].Ssid
  PROVE  i = j
<1> DEFINE T == p.TrustedSsids
           A == p.Assignments
           B == [k \in DOMAIN A |-> A[k].Ssid]
<1>1. T \in Seq(Names) /\ A \in Seq(Assignment)
  BY PolicyFields
<1>2. /\ Len(A) \in Nat
      /\ DOMAIN A = 1 .. Len(A)
      /\ \A k \in DOMAIN A : A[k] \in Assignment
  BY <1>1, SequenceFacts
<1>3. B \in [1 .. Len(A) -> Names]
  BY <1>2 DEF Assignment
<1>4. B \in Seq(Names)
  BY <1>2, <1>3, SeqDef
<1>5. i \in 1 .. Len(B) /\ j \in 1 .. Len(B)
  BY <1>2, <1>3, <1>4, LenProperties
<1>6. \A k, l \in DOMAIN (T \o B) : (T \o B)[k] = (T \o B)[l] => k = l
  BY DEF Valid, RuleNames
<1>7. B[i] = B[j]
  OBVIOUS
<1>8. Len(T) \in Nat /\ i \in Nat /\ j \in Nat
  BY <1>1, <1>2, LenProperties
<1> HIDE DEF T, B
<1>9. \A m \in 1 .. Len(B) : Len(T) + m \in DOMAIN (T \o B) /\ (T \o B)[Len(T) + m] = B[m]
  BY <1>1, <1>4, JoinedLists
<1>10. Len(T) + i = Len(T) + j
  BY <1>5, <1>6, <1>7, <1>9
<1> QED
  BY <1>8, <1>10

(* FirstOrDefault gives the profile of the only assignment of a network,   *)
(* wherever it stands in the list.                                         *)
LEMMA FirstIsTheAssignment ==
  ASSUME NEW p \in Policies, Valid(p, 2 * MaxNames),
         NEW i \in DOMAIN p.Assignments
  PROVE  FirstAssignment(p, p.Assignments[i].Ssid) = p.Assignments[i].ProfileId
<1> DEFINE s == p.Assignments[i].Ssid
           hits == {k \in DOMAIN p.Assignments : p.Assignments[k].Ssid = s}
           first == CHOOSE k \in hits : \A l \in hits : k <= l
<1>1. p.Assignments \in Seq(Assignment)
  BY PolicyFields
<1>2. DOMAIN p.Assignments = 1 .. Len(p.Assignments) /\ Len(p.Assignments) \in Nat
  BY <1>1, LenProperties
<1>3. i \in hits /\ i \in Nat
  BY <1>2
<1>4. \A k \in hits : k = i
  BY OneAssignment
<1>5. \E k \in hits : \A l \in hits : k <= l
  <2>1. \A l \in hits : i <= l
    BY <1>3, <1>4
  <2> QED
    BY <1>3, <2>1
<1>6. first \in hits
  BY <1>5
<1>7. first = i
  BY <1>4, <1>6
<1>8. FirstAssignment(p, s) = IF hits = {} THEN Nil ELSE p.Assignments[first].ProfileId
  BY DEF FirstAssignment
<1> HIDE DEF hits, first
<1> QED
  BY <1>3, <1>7, <1>8

\* The three kinds of target are different, and so are two profiles.
LEMMA TargetsDiffer ==
  /\ TargetOff # TargetDefault
  /\ \A id : ForProfile(id) # TargetOff /\ ForProfile(id) # TargetDefault
  /\ \A id, other : ForProfile(id) = ForProfile(other) => id = other
<1>1. TargetOff.Kind = "Off" /\ TargetDefault.Kind = "Default"
  BY DEF TargetOff, TargetDefault
<1>2. \A id : ForProfile(id).Kind = "Profile" /\ ForProfile(id).ProfileId = id
  BY DEF ForProfile
<1>3. \A id, other : ForProfile(id) = ForProfile(other) => id = other
  <2> SUFFICES ASSUME NEW id, NEW other, ForProfile(id) = ForProfile(other)
               PROVE  id = other
    OBVIOUS
  <2>1. ForProfile(id).ProfileId = ForProfile(other).ProfileId
    OBVIOUS
  <2> QED
    BY <1>2, <2>1
<1> QED
  BY <1>1, <1>2, <1>3

\* A target that names a profile gives it, or holds when it is gone.
LEMMA ResolveProfile ==
  ASSUME NEW p, NEW id \in Ids, NEW S
  PROVE  Resolve(p, ForProfile(id), S) = IF id \in S THEN Use(id) ELSE Hold
BY RulesAssumption DEF Resolve, ForProfile

LEMMA ResolveDefault ==
  ASSUME NEW p, NEW S
  PROVE  Resolve(p, TargetDefault, S) =
           IF p.DefaultProfileId = Nil \/ p.DefaultProfileId \in S
           THEN Use(p.DefaultProfileId) ELSE Hold
BY DEF Resolve, TargetDefault

LEMMA ResolveOff ==
  ASSUME NEW p, NEW S
  PROVE  Resolve(p, TargetOff, S) = Use(Nil)
BY DEF Resolve, TargetOff

\* The policy stays as Validate accepted it.
LEMMA RulesInvariant == RulesSpec => []RulesInv
<1>1. RulesInit => RulesInv
  BY DEF RulesInit, RulesInv, Transports
<1>2. RulesInv /\ [RulesNext]_rulesVars => RulesInv'
  BY DEF RulesInv, RulesNext, Observe, rulesVars
<1> QED
  BY <1>1, <1>2, PTL DEF RulesSpec

\* A network that has an assignment, and is not trusted.
LEMMA AssignedWins ==
  ASSUME RulesInv, NEW a \in Ids, Assigned(a)
  PROVE  /\ WiFiTarget(policy, ssid) = ForProfile(a)
         /\ \A id \in Ids : Assigned(id) => id = a
<1>1. PICK i \in DOMAIN policy.Assignments :
        policy.Assignments[i].Ssid = ssid /\ policy.Assignments[i].ProfileId = a
  BY DEF Assigned
<1>2. FirstAssignment(policy, ssid) = a
  BY <1>1, FirstIsTheAssignment DEF RulesInv
<1>3. a # Nil
  BY RulesAssumption
<1>4. WiFiTarget(policy, ssid) = ForProfile(a)
  BY <1>2, <1>3 DEF WiFiTarget
<1>5. ASSUME NEW id \in Ids, Assigned(id)
      PROVE  id = a
  <2>1. PICK j \in DOMAIN policy.Assignments :
          policy.Assignments[j].Ssid = ssid /\ policy.Assignments[j].ProfileId = id
    BY <1>5 DEF Assigned
  <2>2. i = j
    BY <1>1, <2>1, OneAssignment DEF RulesInv
  <2> QED
    BY <1>1, <2>1, <2>2
<1> QED
  BY <1>4, <1>5

\* A network without one gets the target of the other Wi-Fi networks.
LEMMA UnassignedFallsThrough ==
  ASSUME RulesInv, \A a \in Ids : ~Assigned(a)
  PROVE  WiFiTarget(policy, ssid) = policy.WiFi
<1>1. policy.Assignments \in Seq(Assignment)
  BY PolicyFields DEF RulesInv
<1>2. \A i \in DOMAIN policy.Assignments : policy.Assignments[i].ProfileId \in Ids
  <2>1. \A i \in DOMAIN policy.Assignments : policy.Assignments[i] \in Assignment
    BY <1>1, SequenceFacts
  <2> QED
    BY <2>1 DEF Assignment
<1>3. {i \in DOMAIN policy.Assignments : policy.Assignments[i].Ssid = ssid} = {}
  BY <1>2 DEF Assigned
<1>4. FirstAssignment(policy, ssid) = Nil
  BY <1>3 DEF FirstAssignment
<1> QED
  BY <1>4 DEF WiFiTarget

\* What the target of a Wi-Fi network gives is what the reference wants.
LEMMA TargetDecides ==
  ASSUME RulesInv
  PROVE  LET outcome == Resolve(policy, WiFiTarget(policy, ssid), available)
         IN  IF \E id \in Ids : Wanted(id)
             THEN \A id \in Ids :
                    Wanted(id) => outcome = IF id \in available THEN Use(id) ELSE Hold
             ELSE outcome = Use(Nil)
<1> DEFINE outcome == Resolve(policy, WiFiTarget(policy, ssid), available)
<1>1. CASE \E a \in Ids : Assigned(a)
  <2>1. PICK a \in Ids : Assigned(a)
    BY <1>1
  <2>2. outcome = IF a \in available THEN Use(a) ELSE Hold
    BY <2>1, AssignedWins, ResolveProfile
  <2>3. \A id \in Ids : Wanted(id) => id = a
    BY <1>1, <2>1, AssignedWins DEF Wanted
  <2>4. Wanted(a)
    BY <1>1, <2>1 DEF Wanted
  <2> QED
    BY <2>2, <2>3, <2>4
<1>2. CASE \A a \in Ids : ~Assigned(a)
  <2>1. WiFiTarget(policy, ssid) = policy.WiFi
    BY <1>2, UnassignedFallsThrough
  <2>2. \A id \in Ids : Wanted(id) <=>
          \/ policy.WiFi = ForProfile(id)
          \/ policy.WiFi = TargetDefault /\ policy.DefaultProfileId = id
    BY <1>2 DEF Wanted
  <2>3. policy.WiFi \in Targets /\ policy.DefaultProfileId \in Ids \cup {Nil}
    BY PolicyFields DEF RulesInv
  <2>4. CASE policy.WiFi = TargetOff
    <3>1. outcome = Use(Nil)
      BY <2>1, <2>4, ResolveOff
    <3>2. \A id \in Ids : ~Wanted(id)
      BY <2>2, <2>4, TargetsDiffer
    <3> QED
      BY <3>1, <3>2
  <2>5. CASE policy.WiFi = TargetDefault
    <3>1. outcome = IF policy.DefaultProfileId = Nil \/ policy.DefaultProfileId \in available
                    THEN Use(policy.DefaultProfileId) ELSE Hold
      BY <2>1, <2>5, ResolveDefault
    <3>2. \A id \in Ids : Wanted(id) <=> policy.DefaultProfileId = id
      BY <2>2, <2>5, TargetsDiffer
    <3>3. \A id \in Ids : id # Nil
      BY RulesAssumption
    <3> QED
      BY <2>3, <3>1, <3>2, <3>3
  <2>6. CASE \E a \in Ids : policy.WiFi = ForProfile(a)
    <3>1. PICK a \in Ids : policy.WiFi = ForProfile(a)
      BY <2>6
    <3>2. outcome = IF a \in available THEN Use(a) ELSE Hold
      BY <2>1, <3>1, ResolveProfile
    <3>3. \A id \in Ids : Wanted(id) <=> id = a
      BY <2>2, <3>1, TargetsDiffer
    <3> QED
      BY <3>2, <3>3
  <2> QED
    BY <2>3, <2>4, <2>5, <2>6 DEF Targets
<1> QED
  BY <1>1, <1>2

\* The lists are empty exactly when they name no network.
LEMMA NamesAreNeeded ==
  ASSUME RulesInv
  PROVE  NeedsWiFiNames(policy) <=>
           TrustedNames \cup {policy.Assignments[i].Ssid : i \in DOMAIN policy.Assignments} # {}
<1>1. policy.TrustedSsids \in Seq(Names) /\ policy.Assignments \in Seq(Assignment)
  BY PolicyFields DEF RulesInv
<1>2. policy.TrustedSsids # <<>> <=> DOMAIN policy.TrustedSsids # {}
  BY <1>1, SequenceFacts
<1>3. policy.Assignments # <<>> <=> DOMAIN policy.Assignments # {}
  BY <1>1, SequenceFacts
<1> QED
  BY <1>2, <1>3 DEF NeedsWiFiNames, TrustedNames

(* Decide gives what the documented priority asks for: nothing while the   *)
(* name is unknown and a rule needs one, no VPN on a trusted network, the  *)
(* profile of the network's only assignment, and otherwise the target of   *)
(* the other Wi-Fi networks; a profile that is gone holds the connection.  *)
(* It is about Decide, Resolve, FirstOrDefault and Validate.               *)
THEOREM RulesDecide == RulesSpec => []WiFiPriority
<1>1. RulesInv => WiFiPriority
  <2> SUFFICES ASSUME RulesInv, policy.Enabled, transport = "WiFi"
               PROVE  WiFiPriority
    BY DEF WiFiPriority
  <2> DEFINE named == TrustedNames \cup
                        {policy.Assignments[i].Ssid : i \in DOMAIN policy.Assignments} # {}
  <2>1. Outcome = IF NeedsWiFiNames(policy) /\ ssid = Nil THEN Hold
                  ELSE IF Trusts(policy, ssid) THEN Use(Nil)
                  ELSE Resolve(policy, WiFiTarget(policy, ssid), available)
    BY DEF Outcome, Decide
  <2>2. NeedsWiFiNames(policy) <=> named
    BY NamesAreNeeded
  <2>3. Trusts(policy, ssid) <=> ssid \in TrustedNames
    BY DEF Trusts, TrustedNames
  <2>4. CASE ssid = Nil /\ named
    <3>1. Outcome.hold
      BY <2>1, <2>2, <2>4 DEF Hold
    <3> QED
      BY <2>4, <3>1 DEF WiFiPriority
  <2>5. CASE ~(ssid = Nil /\ named) /\ ssid \in TrustedNames
    <3>1. Outcome = Use(Nil)
      BY <2>1, <2>2, <2>3, <2>5
    <3> QED
      BY <2>5, <3>1 DEF WiFiPriority
  <2>6. CASE ~(ssid = Nil /\ named) /\ ssid \notin TrustedNames
    <3>1. Outcome = Resolve(policy, WiFiTarget(policy, ssid), available)
      BY <2>1, <2>2, <2>3, <2>6
    <3>2. IF \E id \in Ids : Wanted(id)
          THEN \A id \in Ids :
                 Wanted(id) => Outcome = IF id \in available THEN Use(id) ELSE Hold
          ELSE Outcome = Use(Nil)
      BY <3>1, TargetDecides
    <3> QED
      BY <2>6, <3>2 DEF WiFiPriority
  <2> QED
    BY <2>4, <2>5, <2>6
<1> QED
  BY <1>1, RulesInvariant, PTL
-----------------------------------------------------------------------------
(* The order of the tunnels' names.                                        *)
NamesOfRuns == UNION {[1 .. n -> NameRuns] : n \in 1 .. MaxRuns}
IsToken(f) == f \in Nat \X Nat /\ (f[1] # 0 => f[2] = 0)
Token(a, i) == SortToken(a[i])

\* The run at which a name comes before another one, and names that are shown as equal.
LessAt(a, b, i) ==
  /\ i \in 1 .. Len(b)
  /\ \A j \in 1 .. i - 1 : j <= Len(a) /\ Token(a, j) = Token(b, j)
  /\ i = Len(a) + 1 \/ (i <= Len(a) /\ Cmp(Token(a, i), Token(b, i)) = -1)
Same(a, b) == Len(a) = Len(b) /\ \A j \in 1 .. Len(a) : Token(a, j) = Token(b, j)

LEMMA TokensOfRuns ==
  ASSUME NEW r \in NameRuns
  PROVE  IsToken(SortToken(r))
<1>1. CASE \E n \in NumberRuns : r = <<"number", n>>
  <2>1. PICK n \in NumberRuns : r = <<"number", n>>
    BY <1>1
  <2>2. n \in Nat /\ LargestInt \in Nat /\ (n <= LargestInt \/ n > 0)
    BY NamesAssumption
  <2>3. SortToken(r) = <<0, n>> \/ (SortToken(r) = <<n, 0>> /\ n > 0)
    BY <2>1, <2>2 DEF SortToken
  <2> QED
    BY <2>2, <2>3 DEF IsToken
<1>2. CASE \E s \in StringRuns : r = <<"string", s>>
  BY <1>2, NamesAssumption DEF SortToken, IsToken
<1> QED
  BY <1>1, <1>2 DEF NameRuns

LEMMA NamesAreRuns ==
  ASSUME NEW a \in NamesOfRuns
  PROVE  Len(a) \in Nat /\ DOMAIN a = 1 .. Len(a) /\ \A i \in 1 .. Len(a) : IsToken(Token(a, i))
<1>1. PICK n \in 1 .. MaxRuns : a \in [1 .. n -> NameRuns]
  BY DEF NamesOfRuns
<1>2. n \in Nat
  BY NamesAssumption
<1>3. a \in Seq(NameRuns) /\ Len(a) = n
  BY <1>1, <1>2
<1>4. \A i \in 1 .. n : a[i] \in NameRuns
  BY <1>1
<1> QED
  BY <1>2, <1>3, <1>4, TokensOfRuns DEF Token

\* naturalSortString's comparison of two runs is a total order.
LEMMA CmpIsAnOrder ==
  ASSUME NEW f, NEW g, IsToken(f), IsToken(g)
  PROVE  /\ Cmp(f, g) \in {-1, 0, 1} /\ Cmp(f, f) = 0
         /\ Cmp(f, g) = 0 => f = g
         /\ Cmp(f, g) = 1 <=> Cmp(g, f) = -1
         /\ \A h : IsToken(h) /\ Cmp(f, g) = -1 /\ Cmp(g, h) = -1 => Cmp(f, h) = -1
<1>1. /\ f[1] \in Nat /\ f[2] \in Nat /\ f = <<f[1], f[2]>> /\ (f[1] # 0 => f[2] = 0)
      /\ g[1] \in Nat /\ g[2] \in Nat /\ g = <<g[1], g[2]>> /\ (g[1] # 0 => g[2] = 0)
  BY DEF IsToken
<1>2. Cmp(f, g) \in {-1, 0, 1} /\ Cmp(f, f) = 0
  BY <1>1 DEF Cmp
<1>3. Cmp(f, g) = 0 => f = g
  <2>1. SUFFICES ASSUME Cmp(f, g) = 0 PROVE f[1] = g[1] /\ f[2] = g[2]
    BY <1>1
  <2>2. CASE f[1] = 0
    BY <1>1, <2>1, <2>2 DEF Cmp
  <2>3. CASE f[1] # 0
    BY <1>1, <2>1, <2>3 DEF Cmp
  <2> QED
    BY <2>2, <2>3
<1>4. Cmp(f, g) = 1 <=> Cmp(g, f) = -1
  <2>1. CASE f[1] = 0
    BY <1>1, <2>1 DEF Cmp
  <2>2. CASE f[1] # 0
    BY <1>1, <2>2 DEF Cmp
  <2> QED
    BY <2>1, <2>2
<1>5. ASSUME NEW h, IsToken(h), Cmp(f, g) = -1, Cmp(g, h) = -1 PROVE Cmp(f, h) = -1
  <2>1. h[1] \in Nat /\ h[2] \in Nat /\ (h[1] # 0 => h[2] = 0)
    BY <1>5 DEF IsToken
  <2>2. CASE f[1] = 0
    BY <1>1, <1>5, <2>1, <2>2 DEF Cmp
  <2>3. CASE f[1] # 0
    BY <1>1, <1>5, <2>1, <2>3 DEF Cmp
  <2> QED
    BY <2>2, <2>3
<1> QED
  BY <1>2, <1>3, <1>4, <1>5

LEMMA LessSomewhere ==
  ASSUME NEW a \in NamesOfRuns, NEW b \in NamesOfRuns
  PROVE  TunnelNameIsLess(a, b) <=> \E i \in Nat : LessAt(a, b, i)
<1>1. /\ Len(a) \in Nat /\ DOMAIN a = 1 .. Len(a) /\ Len(b) \in Nat /\ DOMAIN b = 1 .. Len(b)
      /\ \A i \in 1 .. Len(a) : IsToken(Token(a, i))
      /\ \A i \in 1 .. Len(b) : IsToken(Token(b, i))
  BY NamesAreRuns
<1>2. ASSUME NEW j \in Nat, j \in 1 .. Len(a), j \in 1 .. Len(b)
      PROVE  Cmp(Token(a, j), Token(b, j)) = 0 <=> Token(a, j) = Token(b, j)
  BY <1>1, <1>2, CmpIsAnOrder
<1>3. ASSUME NEW i \in 1 .. Len(b)
      PROVE  LessAt(a, b, i) <=>
               /\ \A j \in 1 .. i - 1 : j \in DOMAIN a /\ Cmp(SortToken(a[j]), SortToken(b[j])) = 0
               /\ i = Len(a) + 1 \/ (i <= Len(a) /\ Cmp(SortToken(a[i]), SortToken(b[i])) = -1)
  <2>1. \A j \in 1 .. i - 1 : j \in Nat /\ j \in 1 .. Len(b) /\ (j <= Len(a) <=> j \in 1 .. Len(a))
    BY <1>1, <1>3
  <2>2. \A j \in 1 .. i - 1 : (j <= Len(a) /\ Token(a, j) = Token(b, j)) <=>
                              (j \in DOMAIN a /\ Cmp(Token(a, j), Token(b, j)) = 0)
    BY <1>1, <1>2, <2>1
  <2> QED
    BY <2>2 DEF LessAt, Token
<1>4. \A i : LessAt(a, b, i) => i \in 1 .. Len(b) /\ i \in Nat
  BY <1>1 DEF LessAt
<1> QED
  BY <1>1, <1>3, <1>4 DEF TunnelNameIsLess

LEMMA LessIsTransitive ==
  ASSUME NEW a \in NamesOfRuns, NEW b \in NamesOfRuns, NEW c \in NamesOfRuns,
         TunnelNameIsLess(a, b), TunnelNameIsLess(b, c)
  PROVE  TunnelNameIsLess(a, c)
<1>1. /\ Len(a) \in Nat /\ Len(b) \in Nat /\ Len(c) \in Nat
      /\ \A i \in 1 .. Len(a) : IsToken(Token(a, i))
      /\ \A i \in 1 .. Len(b) : IsToken(Token(b, i))
      /\ \A i \in 1 .. Len(c) : IsToken(Token(c, i))
  BY NamesAreRuns
<1>2. PICK i \in Nat : LessAt(a, b, i)
  BY LessSomewhere
<1>3. PICK k \in Nat : LessAt(b, c, k)
  BY LessSomewhere
<1>4. /\ i \in 1 .. Len(b) /\ k \in 1 .. Len(c)
      /\ \A j \in 1 .. i - 1 : j <= Len(a) /\ Token(a, j) = Token(b, j)
      /\ \A j \in 1 .. k - 1 : j <= Len(b) /\ Token(b, j) = Token(c, j)
      /\ i = Len(a) + 1 \/ (i <= Len(a) /\ Cmp(Token(a, i), Token(b, i)) = -1)
      /\ k = Len(b) + 1 \/ (k <= Len(b) /\ Cmp(Token(b, k), Token(c, k)) = -1)
  BY <1>2, <1>3 DEF LessAt
<1>5. \E m \in Nat : LessAt(a, c, m)
  <2>1. CASE i < k
    <3>1. i \in 1 .. Len(c) /\ i \in 1 .. k - 1 /\ \A j \in 1 .. i - 1 : j \in 1 .. k - 1
      BY <1>1, <1>4, <2>1
    <3>2. LessAt(a, c, i)
      BY <1>4, <3>1 DEF LessAt
    <3> QED
      BY <3>2
  <2>2. CASE i = k
    <3>1. k # Len(b) + 1 /\ i \in 1 .. Len(c)
      BY <1>1, <1>4, <2>2
    <3>2. \A j \in 1 .. i - 1 : j <= Len(a) /\ Token(a, j) = Token(c, j)
      BY <1>4, <2>2
    <3>3. i = Len(a) + 1 \/ (i <= Len(a) /\ Cmp(Token(a, i), Token(c, i)) = -1)
      <4>1. SUFFICES ASSUME i <= Len(a), Cmp(Token(a, i), Token(b, i)) = -1
                     PROVE  Cmp(Token(a, i), Token(c, i)) = -1
        BY <1>4
      <4>2. Cmp(Token(b, i), Token(c, i)) = -1
        BY <1>4, <2>2, <3>1
      <4>3. IsToken(Token(a, i)) /\ IsToken(Token(b, i)) /\ IsToken(Token(c, i))
        BY <1>1, <1>4, <2>2, <4>1
      <4> QED
        BY <4>1, <4>2, <4>3, CmpIsAnOrder
    <3>4. LessAt(a, c, i)
      BY <3>1, <3>2, <3>3 DEF LessAt
    <3> QED
      BY <3>4
  <2>3. CASE k < i
    <3>1. k \in 1 .. i - 1 /\ k <= Len(a) /\ k <= Len(b) /\ \A j \in 1 .. k - 1 : j \in 1 .. i - 1
      BY <1>1, <1>4, <2>3
    <3>2. Token(a, k) = Token(b, k) /\ Cmp(Token(b, k), Token(c, k)) = -1
      BY <1>1, <1>4, <3>1
    <3>3. LessAt(a, c, k)
      BY <1>4, <3>1, <3>2 DEF LessAt
    <3> QED
      BY <3>3
  <2> QED
    BY <2>1, <2>2, <2>3
<1> QED
  BY <1>5, LessSomewhere

LEMMA LessIsIrreflexive ==
  ASSUME NEW a \in NamesOfRuns
  PROVE  ~TunnelNameIsLess(a, a)
<1>1. SUFFICES ASSUME NEW i \in Nat, LessAt(a, a, i) PROVE FALSE
  BY LessSomewhere
<1>2. Len(a) \in Nat /\ i \in 1 .. Len(a) /\ IsToken(Token(a, i)) /\ Cmp(Token(a, i), Token(a, i)) = -1
  BY <1>1, NamesAreRuns DEF LessAt
<1> QED
  BY <1>2, CmpIsAnOrder

\* The first number of which something is true.
LEMMA FirstNumber ==
  ASSUME NEW S \in SUBSET Nat, S # {}
  PROVE  \E n \in S : \A m \in S : n <= m
<1> DEFINE below == {p \in Nat \X Nat : p[1] < p[2]}
<1>1. IsWellFoundedOn(below, Nat)
  <2>1. below = OpToRel(<, Nat)
    BY DEF OpToRel
  <2> QED
    BY <2>1, NatLessThanWellFounded
<1>2. PICK n \in S : \A m \in S : ~(<<m, n>> \in below)
  BY <1>1, WFMin
<1>3. ASSUME NEW m \in S PROVE n <= m
  <2>1. m \in Nat /\ n \in Nat /\ (m < n => <<m, n>> \in below)
    OBVIOUS
  <2> HIDE DEF below
  <2> QED
    BY <1>2, <2>1
<1> QED
  BY <1>3

\* Names that differ somewhere are in an order: the first run that differs decides.
LEMMA AlikeIsSame ==
  ASSUME NEW a \in NamesOfRuns, NEW b \in NamesOfRuns
  PROVE  Alike(a, b) <=> Same(a, b)
<1>1. /\ Len(a) \in Nat /\ Len(b) \in Nat
      /\ \A i \in 1 .. Len(a) : IsToken(Token(a, i))
      /\ \A i \in 1 .. Len(b) : IsToken(Token(b, i))
  BY NamesAreRuns
<1>2. ASSUME Same(a, b) PROVE Alike(a, b)
  <2>1. ASSUME NEW i \in Nat, LessAt(a, b, i) PROVE FALSE
    <3>1. i \in 1 .. Len(a) /\ Token(a, i) = Token(b, i) /\ Cmp(Token(a, i), Token(b, i)) = -1
      BY <1>1, <1>2, <2>1 DEF Same, LessAt
    <3> QED
      BY <1>1, <3>1, CmpIsAnOrder
  <2>2. ASSUME NEW i \in Nat, LessAt(b, a, i) PROVE FALSE
    <3>1. i \in 1 .. Len(a) /\ Token(a, i) = Token(b, i) /\ Cmp(Token(b, i), Token(a, i)) = -1
      BY <1>1, <1>2, <2>2 DEF Same, LessAt
    <3> QED
      BY <1>1, <3>1, CmpIsAnOrder
  <2> QED
    BY <2>1, <2>2, LessSomewhere DEF Alike
<1>3. ASSUME ~Same(a, b) PROVE ~Alike(a, b)
  <2> DEFINE D == {i \in Nat \ {0} : ~(i <= Len(a) /\ i <= Len(b) /\ Token(a, i) = Token(b, i))
                                     /\ (i <= Len(a) \/ i <= Len(b))}
  <2>1. D # {}
    <3>1. CASE Len(a) = Len(b)
      <4>1. PICK j \in 1 .. Len(a) : Token(a, j) # Token(b, j)
        BY <1>3, <3>1 DEF Same
      <4>2. j \in D
        BY <1>1, <4>1
      <4> QED
        BY <4>2
    <3>2. CASE Len(a) < Len(b)
      <4>1. Len(b) \in D
        BY <1>1, <3>2
      <4> QED
        BY <4>1
    <3>3. CASE Len(b) < Len(a)
      <4>1. Len(a) \in D
        BY <1>1, <3>3
      <4> QED
        BY <4>1
    <3> QED
      BY <1>1, <3>1, <3>2, <3>3
  <2>2. PICK i \in D : \A j \in D : i <= j
    <3>1. D \in SUBSET Nat
      OBVIOUS
    <3> HIDE DEF D
    <3> QED
      BY <2>1, <3>1, FirstNumber
  <2>3. i \in Nat /\ i >= 1 /\ (i <= Len(a) \/ i <= Len(b))
        /\ ~(i <= Len(a) /\ i <= Len(b) /\ Token(a, i) = Token(b, i))
    BY <2>2
  <2>4. ASSUME NEW j \in 1 .. i - 1
        PROVE  j <= Len(a) /\ j <= Len(b) /\ Token(a, j) = Token(b, j)
    <3>1. j \in Nat \ {0} /\ ~(i <= j) /\ (j <= Len(a) \/ j <= Len(b))
      BY <1>1, <2>3, <2>4
    <3>2. j \notin D
      BY <2>2, <3>1
    <3> QED
      BY <3>1, <3>2
  <2> HIDE DEF D
  <2>5. CASE i > Len(a)
    <3>1. i \in 1 .. Len(b) /\ (i = Len(a) + 1 \/ Len(a) + 1 \in 1 .. i - 1)
      BY <1>1, <2>3, <2>5
    <3>2. i = Len(a) + 1
      BY <1>1, <2>4, <3>1
    <3>3. LessAt(a, b, i)
      BY <2>4, <3>1, <3>2 DEF LessAt
    <3> QED
      BY <2>3, <3>3, LessSomewhere DEF Alike
  <2>6. CASE i > Len(b)
    <3>1. i \in 1 .. Len(a) /\ (i = Len(b) + 1 \/ Len(b) + 1 \in 1 .. i - 1)
      BY <1>1, <2>3, <2>6
    <3>2. i = Len(b) + 1
      BY <1>1, <2>4, <3>1
    <3>3. LessAt(b, a, i)
      BY <2>4, <3>1, <3>2 DEF LessAt
    <3> QED
      BY <2>3, <3>3, LessSomewhere DEF Alike
  <2>7. CASE i <= Len(a) /\ i <= Len(b)
    <3>1. i \in 1 .. Len(a) /\ i \in 1 .. Len(b) /\ Token(a, i) # Token(b, i)
      BY <1>1, <2>3, <2>7
    <3>2. Cmp(Token(a, i), Token(b, i)) = -1 \/ Cmp(Token(b, i), Token(a, i)) = -1
      BY <1>1, <3>1, CmpIsAnOrder
    <3>3. LessAt(a, b, i) \/ LessAt(b, a, i)
      BY <2>4, <2>7, <3>1, <3>2 DEF LessAt
    <3> QED
      BY <2>3, <3>3, LessSomewhere DEF Alike
  <2> QED
    BY <1>1, <2>3, <2>5, <2>6, <2>7
<1> QED
  BY <1>2, <1>3

(* TunnelNameIsLess orders any names as sort.Slice and sort.Search need    *)
(* it: no name is before itself, no two are before each other, and both    *)
(* `before' and `neither before the other' are transitive; names of any    *)
(* number of runs, whatever their numbers and LargestInt (conf/name.go).   *)
THEOREM TunnelNamesSort == NamesInit => NamesSort
<1> SUFFICES ASSUME NamesInit PROVE NamesSort
  OBVIOUS
<1> DEFINE a == namesCompared[1]
           b == namesCompared[2]
           c == namesCompared[3]
<1>1. a \in NamesOfRuns /\ b \in NamesOfRuns /\ c \in NamesOfRuns
  BY DEF NamesInit, NamesOfRuns
<1> HIDE DEF a, b, c
<1>2. ~TunnelNameIsLess(a, a) /\ ~(TunnelNameIsLess(a, b) /\ TunnelNameIsLess(b, a))
  BY <1>1, LessIsIrreflexive, LessIsTransitive
<1>3. TunnelNameIsLess(a, b) /\ TunnelNameIsLess(b, c) => TunnelNameIsLess(a, c)
  BY <1>1, LessIsTransitive
<1>4. Alike(a, b) /\ Alike(b, c) => Alike(a, c)
  <2>1. Same(a, b) /\ Same(b, c) => Same(a, c)
    BY DEF Same
  <2> QED
    BY <1>1, <2>1, AlikeIsSame
<1> QED
  BY <1>2, <1>3, <1>4 DEF NamesSort, a, b, c

-----------------------------------------------------------------------------
(* Importing and listing profiles.                                         *)
CallPcs == {"idle", "locks", "derives", "saves", "exists", "lists", "answered"}
IsCall(r) ==
  /\ r.pc \in CallPcs
  /\ r = [pc |-> r.pc, display |-> r.display, text |-> r.text, name |-> r.name, config |-> r.config,
          rest |-> r.rest, shown |-> r.shown, crossed |-> r.crossed]
CallsTyped == profileCall = [c \in Connections |-> profileCall[c]]
              /\ \A c \in Connections : IsCall(profileCall[c])

\* A file is kept by its folded name, and the callers were told of all of them.
FilesFit ==
  /\ IsFiniteSet(DOMAIN files) /\ told = Cardinality(DOMAIN files)
  /\ \A n \in DOMAIN files : Fold(files[n].name) = n

\* Between its look at the list and its Save an import holds the lock, and the name it
\* chose is free unless it was crossed.
ImportsFit ==
  /\ importLock \in Connections \cup {NoConnection}
  /\ \A c \in Connections : importLock = c <=> profileCall[c].pc \in {"derives", "saves"}
  /\ \A c \in Connections :
       /\ profileCall[c].pc = "saves" =>
            Fold(profileCall[c].name) \notin DOMAIN files \/ Fold(profileCall[c].name) \in profileCall[c].crossed
       /\ profileCall[c].pc = "exists" => Fold(profileCall[c].name) \in profileCall[c].crossed

\* What a list has still to load, and what it shows already.
ListsFit ==
  \A c \in Connections : profileCall[c].pc \in Listings =>
    /\ profileCall[c].pc = "answered" => profileCall[c].rest = {}
    /\ \A n \in DOMAIN files \ profileCall[c].crossed :
         files[n].name \in profileCall[c].rest \/ \E d : <<files[n].name, d>> \in profileCall[c].shown

ProfilesInv == CallsTyped /\ FilesFit /\ ImportsFit /\ ListsFit

LEMMA StoredFiles ==
  ASSUME NEW name, NEW conf, NEW display, files' = Stored(name, conf, display)
  PROVE  /\ DOMAIN files' = DOMAIN files \cup {Fold(name)} /\ files'[Fold(name)].name = name
         /\ \A n \in DOMAIN files : n # Fold(name) => files'[n] = files[n]
<1> DEFINE k == Fold(name)
           r == [name |-> name, text |-> ToWgQuick(conf), display |-> display]
<1>1. r.name = name
  OBVIOUS
<1>2. files' = [n \in DOMAIN files \cup {k} |-> IF n = k THEN r ELSE files[n]]
  BY DEF Stored
<1> HIDE DEF k, r
<1>3. DOMAIN files' = DOMAIN files \cup {k} /\ files'[k] = r
      /\ \A n \in DOMAIN files : n # k => files'[n] = files[n]
  BY <1>2
<1> QED
  BY <1>1, <1>3 DEF k

\* A file more, or the same one again.
LEMMA StoredFits ==
  ASSUME FilesFit, NEW name, NEW conf, NEW display, files' = Stored(name, conf, display),
         told' = told + (IF Fold(name) \in DOMAIN files THEN 0 ELSE 1)
  PROVE  FilesFit'
<1>1. /\ DOMAIN files' = DOMAIN files \cup {Fold(name)} /\ files'[Fold(name)].name = name
      /\ \A n \in DOMAIN files : n # Fold(name) => files'[n] = files[n]
  BY StoredFiles
<1>2. IsFiniteSet(DOMAIN files') /\ told' = Cardinality(DOMAIN files')
  BY <1>1, FS_AddElement, FS_CardinalityType DEF FilesFit
<1>3. \A n \in DOMAIN files' : Fold(files'[n].name) = n
  BY <1>1 DEF FilesFit
<1> QED
  BY <1>2, <1>3 DEF FilesFit

LEMMA ListedNames ==
  ASSUME FilesFit, NEW name
  PROVE  Taken(Listed, name) <=> Fold(name) \in DOMAIN files
BY DEF FilesFit, Taken, Listed

\* managerV1AvailableName answers with no name of the list, in whichever case.
LEMMA AvailableIsFree ==
  ASSUME NEW display, NEW existing, managerV1AvailableName(display, existing) # NoName
  PROVE  ~Taken(existing, managerV1AvailableName(display, existing))
<1> DEFINE base == BaseName(display)
           free == {i \in 2 .. LastIndex : IsFree(Suffixed(base, i), existing)}
<1>1. managerV1AvailableName(display, existing) =
        IF ~TunnelNameIsValid(base) THEN NoName
        ELSE IF ~Taken(existing, base) THEN base
        ELSE IF free = {} THEN NoName
        ELSE Suffixed(base, CHOOSE i \in free : \A j \in free : i <= j)
  BY DEF managerV1AvailableName, FirstFree
<1>2. free # {} => \E i \in free : \A j \in free : i <= j
  <2>1. free \in SUBSET Nat
    BY ProfilesAssumption
  <2> HIDE DEF free
  <2> QED
    BY <2>1, FirstNumber
<1>3. \A i \in free : ~Taken(existing, Suffixed(base, i))
  BY DEF IsFree
<1> HIDE DEF base, free
<1>4. free # {} => (CHOOSE i \in free : \A j \in free : i <= j) \in free
  BY <1>2
<1> QED
  BY <1>1, <1>3, <1>4

LEMMA ProfilesStart ==
  ASSUME ProfilesInit
  PROVE  ProfilesInv
<1>1. files = <<>> /\ DOMAIN files = {} /\ told = 0 /\ importLock = NoConnection
      /\ profileCall = [c \in Connections |-> Idle]
  BY DEF ProfilesInit
<1>2. \A c \in Connections : profileCall[c] = Idle
  BY <1>1
<1>3. CallsTyped
  BY <1>1, <1>2 DEF CallsTyped, IsCall, Idle, CallPcs
<1>4. FilesFit
  BY <1>1, FS_EmptySet DEF FilesFit
<1>5. ImportsFit
  BY <1>1, <1>2, ProfilesAssumption DEF ImportsFit, Idle
<1>6. ListsFit
  <2>1. \A c \in Connections : profileCall[c].pc = "idle"
    <3>1. Idle.pc = "idle"
      BY DEF Idle
    <3> QED
      BY <1>2, <3>1
  <2> QED
    BY <2>1 DEF ListsFit, Listings
<1> QED
  BY <1>3, <1>4, <1>5, <1>6 DEF ProfilesInv

\* A call of one connection leaves those of the others alone.
LEMMA OneCall ==
  ASSUME CallsTyped, NEW c \in Connections, NEW call, profileCall' = [profileCall EXCEPT ![c] = call], IsCall(call)
  PROVE  CallsTyped' /\ profileCall'[c] = call /\ \A x \in Connections \ {c} : profileCall'[x] = profileCall[x]
<1>1. profileCall'[c] = call /\ \A x \in Connections \ {c} : profileCall'[x] = profileCall[x]
  BY DEF CallsTyped
<1>2. profileCall' = [x \in Connections |-> profileCall'[x]]
  BY DEF CallsTyped
<1>3. \A x \in Connections : IsCall(profileCall'[x])
  BY <1>1 DEF CallsTyped
<1> QED
  BY <1>1, <1>2, <1>3 DEF CallsTyped, IsCall

LEMMA CallBeginsKeeps ==
  ASSUME ProfilesInv, NEW c \in Connections, NEW call, CallBegins(c, call), IsCall(call),
         call.pc \in {"idle", "locks", "lists"}, call.pc = "lists" => call.rest = Listed
  PROVE  ProfilesInv'
<1>1. /\ CallsTyped' /\ profileCall'[c] = call /\ \A x \in Connections \ {c} : profileCall'[x] = profileCall[x]
      /\ profileCall[c].pc \in {"idle", "exists", "answered"} /\ UNCHANGED <<files, importLock, told>>
  BY OneCall DEF CallBegins, ProfilesInv
<1>2. FilesFit'
  BY <1>1 DEF ProfilesInv, FilesFit
<1>3. ImportsFit'
  BY <1>1 DEF ProfilesInv, ImportsFit
<1>4. ListsFit'
  BY <1>1 DEF ProfilesInv, ListsFit, Listings, Listed
<1> QED
  BY <1>1, <1>2, <1>3, <1>4 DEF ProfilesInv

LEMMA ImportBeginsKeeps ==
  ASSUME ProfilesInv, NEW c \in Connections, NEW display, NEW text, ImportBegins(c, display, text)
  PROVE  ProfilesInv'
<1> DEFINE call == IF c \in Elevated /\ managerV1ValidateDisplayName(display) /\ text # <<>>
                   THEN [Idle EXCEPT !.pc = "locks", !.display = display, !.text = text] ELSE Idle
<1>1. CallBegins(c, call)
  BY DEF ImportBegins
<1>2. IsCall(call) /\ call.pc \in {"idle", "locks", "lists"} /\ call.pc # "lists"
  BY DEF IsCall, Idle, CallPcs
<1> HIDE DEF call
<1> QED
  BY <1>1, <1>2, CallBeginsKeeps

LEMMA ListBeginsKeeps ==
  ASSUME ProfilesInv, NEW c \in Connections, ListBegins(c)
  PROVE  ProfilesInv'
<1> DEFINE call == [Idle EXCEPT !.pc = "lists", !.rest = Listed]
<1>1. CallBegins(c, call)
  BY DEF ListBegins
<1>2. IsCall(call) /\ call.pc \in {"idle", "locks", "lists"} /\ call.rest = Listed
  <2> DEFINE L == Listed
  <2>1. call = [Idle EXCEPT !.pc = "lists", !.rest = L]
    OBVIOUS
  <2> HIDE DEF L, call
  <2>2. IsCall(call) /\ call.pc = "lists" /\ call.rest = L
    BY <2>1 DEF IsCall, Idle, CallPcs
  <2> QED
    BY <2>2 DEF L
<1> HIDE DEF call
<1> QED
  BY <1>1, <1>2, CallBeginsKeeps

LEMMA ImportLocksKeeps ==
  ASSUME ProfilesInv, NEW c \in Connections, ImportLocks(c)
  PROVE  ProfilesInv'
<1> DEFINE call == [profileCall[c] EXCEPT !.pc = "derives"]
<1>1. /\ profileCall[c].pc = "locks" /\ importLock = NoConnection /\ importLock' = c
      /\ profileCall' = [profileCall EXCEPT ![c] = call] /\ UNCHANGED <<files, told>>
  BY DEF ImportLocks
<1>2. IsCall(call) /\ call.pc = "derives"
  BY DEF ProfilesInv, CallsTyped, IsCall, CallPcs
<1> HIDE DEF call
<1>3. CallsTyped' /\ profileCall'[c] = call /\ \A x \in Connections \ {c} : profileCall'[x] = profileCall[x]
  BY <1>1, <1>2, OneCall DEF ProfilesInv
<1>4. FilesFit'
  BY <1>1 DEF ProfilesInv, FilesFit
<1>5. ImportsFit'
  BY <1>1, <1>2, <1>3, ProfilesAssumption DEF ProfilesInv, ImportsFit
<1>6. ListsFit'
  BY <1>1, <1>2, <1>3 DEF ProfilesInv, ListsFit, Listings
<1> QED
  BY <1>3, <1>4, <1>5, <1>6 DEF ProfilesInv

LEMMA ImportDerivesKeeps ==
  ASSUME ProfilesInv, NEW c \in Connections, ImportDerives(c)
  PROVE  ProfilesInv'
<1> DEFINE name == managerV1AvailableName(profileCall[c].display, Listed)
           conf == FromWgQuick(profileCall[c].text)
           refused == name = NoName \/ conf.err \/ (~conf.err /\ HasHooks(conf))
           call == IF refused THEN Idle
                   ELSE [Idle EXCEPT !.pc = "saves", !.display = profileCall[c].display, !.name = name,
                                     !.config = WithDisplayName(conf, profileCall[c].display)]
<1>1. /\ profileCall[c].pc = "derives" /\ UNCHANGED <<files, told>>
      /\ profileCall' = [profileCall EXCEPT ![c] = call]
      /\ importLock' = IF refused /\ importLock = c THEN NoConnection ELSE importLock
  BY DEF ImportDerives
<1>2. importLock = c
  BY <1>1 DEF ProfilesInv, ImportsFit
<1>3. IsCall(call)
  BY DEF IsCall, Idle, CallPcs
<1>4. /\ refused => call.pc = "idle" /\ importLock' = NoConnection
      /\ ~refused => call.pc = "saves" /\ importLock' = c /\ call.name = name
  BY <1>1, <1>2 DEF Idle
<1>5. ~refused => Fold(name) \notin DOMAIN files
  <2>1. ~refused => name # NoName
    OBVIOUS
  <2> HIDE DEF refused, call, conf
  <2> QED
    BY <2>1, AvailableIsFree, ListedNames DEF ProfilesInv
<1> HIDE DEF name, conf, refused, call
<1>6. CallsTyped' /\ profileCall'[c] = call /\ \A x \in Connections \ {c} : profileCall'[x] = profileCall[x]
  BY <1>1, <1>3, OneCall DEF ProfilesInv
<1>7. FilesFit'
  BY <1>1 DEF ProfilesInv, FilesFit
<1>8. ImportsFit'
  <2>1. CASE refused
    BY <1>1, <1>2, <1>4, <1>6, <2>1, ProfilesAssumption DEF ProfilesInv, ImportsFit
  <2>2. CASE ~refused
    BY <1>1, <1>2, <1>4, <1>5, <1>6, <2>2 DEF ProfilesInv, ImportsFit
  <2> QED
    BY <2>1, <2>2
<1>9. ListsFit'
  BY <1>1, <1>4, <1>6 DEF ProfilesInv, ListsFit, Listings
<1> QED
  BY <1>6, <1>7, <1>8, <1>9 DEF ProfilesInv

LEMMA CrossedCalls ==
  ASSUME CallsTyped, NEW name, NEW calls, NEW c \in Connections
  PROVE  LET r == Crossing(name, calls)[c] IN
         /\ IsCall(r) /\ r.pc = profileCall[c].pc /\ r.name = profileCall[c].name
         /\ r.rest = profileCall[c].rest /\ r.shown = profileCall[c].shown
         /\ profileCall[c].crossed \subseteq r.crossed
         /\ r.pc \in calls => Fold(name) \in r.crossed
<1> DEFINE r == Crossing(name, calls)[c]
           k == Fold(name)
<1>1. IsCall(profileCall[c])
  BY DEF CallsTyped
<1>2. r = IF profileCall[c].pc \in calls
          THEN [profileCall[c] EXCEPT !.crossed = profileCall[c].crossed \cup {k}] ELSE profileCall[c]
  BY DEF Crossing
<1> HIDE DEF r, k
<1>3. CASE profileCall[c].pc \in calls
  <2>1. r = [profileCall[c] EXCEPT !.crossed = profileCall[c].crossed \cup {k}]
    BY <1>2, <1>3
  <2>2. /\ r.pc = profileCall[c].pc /\ r.name = profileCall[c].name
        /\ r.rest = profileCall[c].rest /\ r.shown = profileCall[c].shown
        /\ r.crossed = profileCall[c].crossed \cup {k} /\ IsCall(r)
    BY <1>1, <2>1 DEF IsCall
  <2> QED
    BY <2>2 DEF r, k
<1>4. CASE profileCall[c].pc \notin calls
  <2>1. r = profileCall[c]
    BY <1>2, <1>4
  <2> QED
    BY <1>1, <1>4, <2>1 DEF r, k
<1> QED
  BY <1>3, <1>4

LEMMA ImportSavesKeeps ==
  ASSUME ProfilesInv, NEW c \in Connections, ImportSaves(c)
  PROVE  ProfilesInv'
<1> DEFINE call == profileCall[c]
           key == Fold(call.name)
           left == [Idle EXCEPT !.pc = "exists", !.name = call.name, !.crossed = call.crossed]
           crossing == Crossing(call.name, Listings)
<1>1. /\ call.pc = "saves" /\ importLock' = IF importLock = c THEN NoConnection ELSE importLock
      /\ key \in DOMAIN files => UNCHANGED <<files, told>> /\ profileCall' = [profileCall EXCEPT ![c] = left]
      /\ key \notin DOMAIN files => /\ files' = Stored(call.name, call.config, call.display) /\ told' = told + 1
                                    /\ profileCall' = [crossing EXCEPT ![c] = Idle]
  BY DEF ImportSaves
<1>2. importLock = c /\ importLock' = NoConnection
      /\ \A x \in Connections \ {c} : profileCall[x].pc \notin {"derives", "saves"}
  BY <1>1 DEF ProfilesInv, ImportsFit
<1>3. CASE key \in DOMAIN files
  <2>1. IsCall(left) /\ left.pc = "exists" /\ left.name = call.name /\ left.crossed = call.crossed
    <3> DEFINE m == call.name
               L == call.crossed
    <3>1. left = [Idle EXCEPT !.pc = "exists", !.name = m, !.crossed = L]
      OBVIOUS
    <3>2. m = call.name /\ L = call.crossed
      OBVIOUS
    <3> HIDE DEF m, L, left, call
    <3>3. IsCall(left) /\ left.pc = "exists" /\ left.name = m /\ left.crossed = L
      BY <3>1 DEF IsCall, Idle, CallPcs
    <3> QED
      BY <3>2, <3>3
  <2>2. key \in call.crossed
    BY <1>1, <1>3 DEF ProfilesInv, ImportsFit
  <2>3. Fold(left.name) \in left.crossed
    BY <2>1, <2>2
  <2> HIDE DEF left
  <2>4. CallsTyped' /\ profileCall'[c] = left /\ \A x \in Connections \ {c} : profileCall'[x] = profileCall[x]
    BY <1>1, <1>3, <2>1, OneCall DEF ProfilesInv
  <2>5. FilesFit'
    BY <1>1, <1>3 DEF ProfilesInv, FilesFit
  <2>6. ImportsFit'
    BY <1>1, <1>2, <1>3, <2>1, <2>3, <2>4, ProfilesAssumption DEF ProfilesInv, ImportsFit
  <2>7. ListsFit'
    BY <1>1, <1>3, <2>1, <2>4 DEF ProfilesInv, ListsFit, Listings
  <2> QED
    BY <2>4, <2>5, <2>6, <2>7 DEF ProfilesInv
<1>4. CASE key \notin DOMAIN files
  <2>1. /\ DOMAIN files' = DOMAIN files \cup {key} /\ files'[key].name = call.name
        /\ \A n \in DOMAIN files : n # key => files'[n] = files[n]
    <3>1. files' = Stored(call.name, call.config, call.display)
      BY <1>1, <1>4
    <3>2. \A name, conf, display : files' = Stored(name, conf, display) =>
             /\ DOMAIN files' = DOMAIN files \cup {Fold(name)} /\ files'[Fold(name)].name = name
             /\ \A n \in DOMAIN files : n # Fold(name) => files'[n] = files[n]
      BY StoredFiles
    <3> QED
      BY <3>1, <3>2
  <2>2. FilesFit'
    BY <1>1, <1>4, StoredFits DEF ProfilesInv
  <2>3. IsCall(Idle) /\ Idle.pc = "idle"
    BY DEF IsCall, Idle, CallPcs
  <2>4. /\ profileCall'[c] = Idle /\ \A x \in Connections \ {c} : profileCall'[x] = crossing[x]
        /\ profileCall' = [x \in Connections |-> profileCall'[x]]
    BY <1>1, <1>4 DEF Crossing
  <2>5. ASSUME NEW x \in Connections \ {c}
        PROVE  /\ IsCall(crossing[x]) /\ crossing[x].pc = profileCall[x].pc /\ crossing[x].name = profileCall[x].name
               /\ crossing[x].rest = profileCall[x].rest /\ crossing[x].shown = profileCall[x].shown
               /\ profileCall[x].crossed \subseteq crossing[x].crossed
               /\ crossing[x].pc \in Listings => key \in crossing[x].crossed
    BY CrossedCalls DEF ProfilesInv
  <2> HIDE DEF crossing, key
  <2>6. CallsTyped'
    BY <2>3, <2>4, <2>5 DEF CallsTyped, IsCall
  <2>7. ImportsFit'
    <3>1. \A x \in Connections \ {c} : profileCall'[x].pc \notin {"derives", "saves"}
      BY <1>2, <2>4, <2>5
    <3>2. \A x \in Connections \ {c} :
             profileCall'[x].pc = "exists" => Fold(profileCall'[x].name) \in profileCall'[x].crossed
      BY <2>4, <2>5 DEF ProfilesInv, ImportsFit
    <3> QED
      BY <1>2, <2>3, <2>4, <3>1, <3>2, ProfilesAssumption DEF ImportsFit
  <2>8. ListsFit'
    <3>1. ASSUME NEW x \in Connections, profileCall'[x].pc \in Listings
          PROVE  /\ x # c /\ profileCall[x].pc \in Listings /\ profileCall'[x].pc = profileCall[x].pc
                 /\ profileCall'[x].rest = profileCall[x].rest /\ profileCall'[x].shown = profileCall[x].shown
                 /\ profileCall[x].crossed \subseteq profileCall'[x].crossed /\ key \in profileCall'[x].crossed
      BY <2>3, <2>4, <2>5, <3>1 DEF Listings
    <3> QED
      BY <2>1, <3>1 DEF ProfilesInv, ListsFit
  <2> QED
    BY <2>2, <2>6, <2>7, <2>8 DEF ProfilesInv
<1> QED
  BY <1>3, <1>4

LEMMA OlderCreatesKeeps ==
  ASSUME ProfilesInv, NEW name, NEW text, OlderCreates(name, text)
  PROVE  ProfilesInv'
<1> DEFINE key == Fold(name)
           calls == Listings \cup {"saves"}
           crossing == Crossing(name, calls)
<1>1. PICK conf : /\ files' = Stored(name, conf, managerV1DisplayName(conf))
                  /\ told' = told + (IF key \in DOMAIN files THEN 0 ELSE 1)
                  /\ profileCall' = crossing /\ UNCHANGED importLock
  BY DEF OlderCreates
<1>2. /\ DOMAIN files' = DOMAIN files \cup {key} /\ files'[key].name = name
      /\ \A n \in DOMAIN files : n # key => files'[n] = files[n]
  BY <1>1, StoredFiles
<1>3. FilesFit'
  BY <1>1, StoredFits DEF ProfilesInv
<1>4. ASSUME NEW x \in Connections
      PROVE  /\ IsCall(crossing[x]) /\ crossing[x].pc = profileCall[x].pc /\ crossing[x].name = profileCall[x].name
             /\ crossing[x].rest = profileCall[x].rest /\ crossing[x].shown = profileCall[x].shown
             /\ profileCall[x].crossed \subseteq crossing[x].crossed
             /\ crossing[x].pc \in calls => key \in crossing[x].crossed
  BY CrossedCalls DEF ProfilesInv
<1>5. profileCall' = [x \in Connections |-> profileCall'[x]]
  BY <1>1 DEF Crossing
<1>6. "saves" \in calls /\ Listings \subseteq calls
  OBVIOUS
<1> HIDE DEF crossing, key, calls
<1>7. CallsTyped'
  BY <1>1, <1>4, <1>5 DEF CallsTyped, IsCall
<1>8. ImportsFit'
  BY <1>1, <1>2, <1>4, <1>6 DEF ProfilesInv, ImportsFit
<1>9. ListsFit'
  BY <1>1, <1>2, <1>4, <1>6 DEF ProfilesInv, ListsFit
<1> QED
  BY <1>3, <1>7, <1>8, <1>9 DEF ProfilesInv

LEMMA OlderDeletesKeeps ==
  ASSUME ProfilesInv, NEW n \in DOMAIN files, OlderDeletes(n)
  PROVE  ProfilesInv'
<1> DEFINE calls == Listings \cup {"saves"}
           crossing == Crossing(n, calls)
<1>1. /\ files' = [m \in DOMAIN files \ {n} |-> files[m]] /\ told' = told - 1
      /\ profileCall' = crossing /\ UNCHANGED importLock
  BY DEF OlderDeletes
<1>2. DOMAIN files' = DOMAIN files \ {n} /\ \A m \in DOMAIN files' : files'[m] = files[m]
  BY <1>1
<1>3. FilesFit'
  <2>1. IsFiniteSet(DOMAIN files') /\ Cardinality(DOMAIN files') = Cardinality(DOMAIN files) - 1
    BY <1>2, FS_RemoveElement DEF ProfilesInv, FilesFit
  <2> QED
    BY <1>1, <1>2, <2>1 DEF ProfilesInv, FilesFit
<1>4. ASSUME NEW x \in Connections
      PROVE  /\ IsCall(crossing[x]) /\ crossing[x].pc = profileCall[x].pc /\ crossing[x].name = profileCall[x].name
             /\ crossing[x].rest = profileCall[x].rest /\ crossing[x].shown = profileCall[x].shown
             /\ profileCall[x].crossed \subseteq crossing[x].crossed
  BY CrossedCalls DEF ProfilesInv
<1>5. profileCall' = [x \in Connections |-> profileCall'[x]]
  BY <1>1 DEF Crossing
<1> HIDE DEF crossing, calls
<1>6. CallsTyped'
  BY <1>1, <1>4, <1>5 DEF CallsTyped, IsCall
<1>7. ImportsFit'
  BY <1>1, <1>2, <1>4 DEF ProfilesInv, ImportsFit
<1>8. ListsFit'
  BY <1>1, <1>2, <1>4 DEF ProfilesInv, ListsFit
<1> QED
  BY <1>3, <1>6, <1>7, <1>8 DEF ProfilesInv

LEMMA ListLoadsKeeps ==
  ASSUME ProfilesInv, NEW c \in Connections, NEW name, ListLoads(c, name)
  PROVE  ProfilesInv'
<1> DEFINE new == <<name, managerV1DisplayName(FromWgQuick(files[Fold(name)].text))>>
           R == profileCall[c].rest \ {name}
           S == IF Fold(name) \notin DOMAIN files THEN profileCall[c].shown ELSE profileCall[c].shown \cup {new}
           call == [profileCall[c] EXCEPT !.rest = R, !.shown = S]
<1>1. profileCall[c].pc = "lists" /\ UNCHANGED <<files, importLock, told>>
  BY DEF ListLoads
<1>2. profileCall' = [profileCall EXCEPT ![c] = call]
  BY DEF ListLoads
<1>3. /\ profileCall[c].shown \subseteq S
      /\ Fold(name) \in DOMAIN files => \E d : <<name, d>> \in S
      /\ \A m \in profileCall[c].rest : m # name => m \in R
  OBVIOUS
<1> HIDE DEF new, R, S
<1>4. IsCall(call) /\ call.pc = "lists" /\ call.rest = R /\ call.shown = S /\ call.crossed = profileCall[c].crossed
  <2> DEFINE old == profileCall[c]
  <2>1. IsCall(old) /\ old.pc = "lists"
    BY <1>1 DEF ProfilesInv, CallsTyped
  <2>2. call = [old EXCEPT !.rest = R, !.shown = S]
    OBVIOUS
  <2>3. old.crossed = profileCall[c].crossed
    OBVIOUS
  <2> HIDE DEF old, call
  <2>4. IsCall(call) /\ call.pc = "lists" /\ call.rest = R /\ call.shown = S /\ call.crossed = old.crossed
    BY <2>1, <2>2 DEF IsCall
  <2> QED
    BY <2>3, <2>4
<1> HIDE DEF call
<1>5. CallsTyped' /\ profileCall'[c] = call /\ \A x \in Connections \ {c} : profileCall'[x] = profileCall[x]
  BY <1>2, <1>4, OneCall DEF ProfilesInv
<1>6. FilesFit'
  BY <1>1 DEF ProfilesInv, FilesFit
<1>7. ImportsFit'
  BY <1>1, <1>4, <1>5 DEF ProfilesInv, ImportsFit
<1>8. ListsFit'
  <2>1. ASSUME NEW n \in DOMAIN files \ call.crossed
        PROVE  files[n].name \in call.rest \/ \E d : <<files[n].name, d>> \in call.shown
    <3>1. files[n].name \in profileCall[c].rest \/ \E d : <<files[n].name, d>> \in profileCall[c].shown
      BY <1>1, <1>4, <2>1 DEF ProfilesInv, ListsFit, Listings
    <3>2. CASE files[n].name = name
      <4>1. Fold(name) \in DOMAIN files
        BY <2>1, <3>2 DEF ProfilesInv, FilesFit
      <4> QED
        BY <1>3, <1>4, <3>2, <4>1
    <3>3. CASE files[n].name # name
      BY <1>3, <1>4, <3>1, <3>3
    <3> QED
      BY <3>2, <3>3
  <2> QED
    BY <1>1, <1>4, <1>5, <2>1 DEF ProfilesInv, ListsFit, Listings
<1> QED
  BY <1>5, <1>6, <1>7, <1>8 DEF ProfilesInv

LEMMA ListAnswersKeeps ==
  ASSUME ProfilesInv, NEW c \in Connections, ListAnswers(c)
  PROVE  ProfilesInv'
<1> DEFINE call == [profileCall[c] EXCEPT !.pc = "answered"]
<1>1. /\ profileCall[c].pc = "lists" /\ profileCall[c].rest = {} /\ UNCHANGED <<files, importLock, told>>
      /\ profileCall' = [profileCall EXCEPT ![c] = call]
  BY DEF ListAnswers
<1>2. IsCall(call) /\ call.pc = "answered" /\ call.rest = profileCall[c].rest /\ call.shown = profileCall[c].shown
      /\ call.crossed = profileCall[c].crossed
  BY DEF ProfilesInv, CallsTyped, IsCall, CallPcs
<1> HIDE DEF call
<1>3. CallsTyped' /\ profileCall'[c] = call /\ \A x \in Connections \ {c} : profileCall'[x] = profileCall[x]
  BY <1>1, <1>2, OneCall DEF ProfilesInv
<1>4. FilesFit'
  BY <1>1 DEF ProfilesInv, FilesFit
<1>5. ImportsFit'
  BY <1>1, <1>2, <1>3 DEF ProfilesInv, ImportsFit
<1>6. ListsFit'
  BY <1>1, <1>2, <1>3 DEF ProfilesInv, ListsFit, Listings
<1> QED
  BY <1>3, <1>4, <1>5, <1>6 DEF ProfilesInv

LEMMA ProfilesKept ==
  ASSUME ProfilesInv, [ProfilesNext]_profileVars
  PROVE  ProfilesInv'
<1>1. CASE UNCHANGED profileVars
  BY <1>1 DEF profileVars, ProfilesInv, CallsTyped, FilesFit, ImportsFit, ListsFit
<1>2. ASSUME NEW c \in Connections, NEW display, NEW text, ImportBegins(c, display, text) PROVE ProfilesInv'
  BY <1>2, ImportBeginsKeeps
<1>3. ASSUME NEW c \in Connections, ImportLocks(c) \/ ImportDerives(c) \/ ImportSaves(c)
      PROVE  ProfilesInv'
  BY <1>3, ImportLocksKeeps, ImportDerivesKeeps, ImportSavesKeeps
<1>4. ASSUME NEW c \in Connections, ListBegins(c) \/ ListAnswers(c) \/ \E name : ListLoads(c, name)
      PROVE  ProfilesInv'
  BY <1>4, ListBeginsKeeps, ListAnswersKeeps, ListLoadsKeeps
<1>5. ASSUME NEW name, NEW text, OlderCreates(name, text) PROVE ProfilesInv'
  BY <1>5, OlderCreatesKeeps
<1>6. ASSUME NEW n \in DOMAIN files, OlderDeletes(n) PROVE ProfilesInv'
  BY <1>6, OlderDeletesKeeps
<1> QED
  BY <1>1, <1>2, <1>3, <1>4, <1>5, <1>6 DEF ProfilesNext

\* A list has the name of every profile that was there all the time it was made.
ListIsNamed ==
  \A c \in Connections : profileCall[c].pc = "answered" =>
    \A n \in DOMAIN files \ profileCall[c].crossed : \E d : <<files[n].name, d>> \in profileCall[c].shown

(* Imports do not get in each other's way, for any number of connections,  *)
(* display names and texts: no profile replaces another, an import fails   *)
(* at its Save only when the older interface wrote its very name since it  *)
(* was chosen, and a list names every profile that stayed while it was     *)
(* made (managerV1ImportLock, Save(false), listProfiles).                  *)
THEOREM ImportsDoNotClash ==
  ProfilesInit /\ [][ProfilesNext]_profileVars => [](ProfilesCounted /\ ImportSucceeds /\ ListIsNamed)
<1>1. ProfilesInit => ProfilesInv
  BY ProfilesStart
<1>2. ProfilesInv /\ [ProfilesNext]_profileVars => ProfilesInv'
  BY ProfilesKept
<1>3. ProfilesInv => ProfilesCounted /\ ImportSucceeds /\ ListIsNamed
  <2>1. ProfilesInv => ProfilesCounted /\ ImportSucceeds
    BY DEF ProfilesInv, FilesFit, ImportsFit, ProfilesCounted, ImportSucceeds
  <2>2. ProfilesInv => ListIsNamed
    BY DEF ProfilesInv, ListsFit, Listings, ListIsNamed
  <2> QED
    BY <2>1, <2>2
<1> QED
  BY <1>1, <1>2, <1>3, PTL
=============================================================================
