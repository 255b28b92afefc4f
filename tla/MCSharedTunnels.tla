-------------------------- MODULE MCSharedTunnels --------------------------
EXTENDS MCManagerTunnels

(* Either both connections start tunnels while the manager keeps running   *)
(* (the initial states in which no restart is left), or one of them calls  *)
(* every method and the manager may end once.                              *)
Scenario ==
  IF restarts = MaxRestarts
  THEN /\ stored' = stored
       /\ \A c \in Clients : client'[c].op \in {client[c].op, "start"} \/ client'[c].pc = "idle"
  ELSE /\ restarts' < MaxRestarts
       /\ client'[c2] = client[c2] \/ restarts' # restarts
=============================================================================
