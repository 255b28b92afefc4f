-------------------------- MODULE MCTunnelService --------------------------
(***************************************************************************)
(* TunnelService with IPv4 and IPv6.  The interface appears up to three    *)
(* times, or up to twice and something fails.                              *)
(***************************************************************************)
EXTENDS TunnelService

BothFamilies == {"v4", "v6"}
ThreeEvents == 1 .. 3

ThirdOrFailure == thread'[3].pc = "none" \/ failures' = 0
ScenarioSpec == Init /\ [][Next /\ ThirdOrFailure]_vars /\ Fairness
=============================================================================
