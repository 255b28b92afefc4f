-------------------------- MODULE MCManagerTunnels --------------------------
(***************************************************************************)
(* Instances of ManagerTunnels: one or two tunnels, which intersect with   *)
(* themselves and with each other, and one or two connections.             *)
(***************************************************************************)
EXTENDS ManagerTunnels, TLC

CONSTANTS t1, t2, c1, c2

OneTunnel == {t1}
TwoTunnels == {t1, t2}
OneClient == {c1}
NoClient == {}
TwoClients == {c1, c2}
OnlyStart == [c \in Clients |-> {"start"}]
StartStop == [c \in Clients |-> {"start", "stop"}]
AllMethods == [c \in Clients |-> {"start", "stop", "wait", "delete", "create", "quit"}]
All == Tunnels \X Tunnels
=============================================================================
