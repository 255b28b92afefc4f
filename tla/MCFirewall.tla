----------------------------- MODULE MCFirewall -----------------------------
(***************************************************************************)
(* Firewall with one address and one port of every kind the filters tell   *)
(* apart, and one that none of them names.                                 *)
(***************************************************************************)
EXTENDS Firewall

CONSTANTS broadcast, dns4, other4, dhcpLink, dhcpSite, router, link, dns6, other6

MCAddr4 == {broadcast, dns4, other4}
MCAddr6 == {dhcpLink, dhcpSite, router, link, dns6, other6}
MCLinkLocal == {link}
MCLocalAddr == {other4, link, other6}

MCLocalPorts == {1, 68, 133, 134, 135, 136, 137, 546}
MCRemotePorts == {0, 1, 53, 67, 547}

AllowedPrefixes == [bits: {0, 24}, masked: BOOLEAN]

MCConfigs ==
  [peers: {1, 2}, tableOff: BOOLEAN, allowed: {{}} \cup {{a} : a \in AllowedPrefixes},
   dns: SUBSET {dns4, dns6}]
=============================================================================
