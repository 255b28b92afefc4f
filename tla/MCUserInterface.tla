-------------------------- MODULE MCUserInterface ---------------------------
(***************************************************************************)
(* The two ways a window learns what the manager does: the protocol of the *)
(* app, with two callers, and the pipes of the older user interface, with  *)
(* its list, tray and configuration view.  A behaviour picks one of them;  *)
(* the other rests.                                                        *)
(***************************************************************************)
EXTENDS MCManagerProtocol, LegacyUi

VARIABLE part

PartsInit ==
    /\ part \in {"protocol", "legacy"}
    /\ Init
    /\ UiInit /\ (part # "legacy" => rows = {})

PartsNext ==
    /\ \/ part = "protocol" /\ Next /\ LastChange /\ UNCHANGED uiVars
       \/ part = "legacy" /\ UiNext /\ UNCHANGED vars
    /\ UNCHANGED part

PartsSpec == PartsInit /\ [][PartsNext]_<<part, vars, uiVars>> /\ Fairness /\ UiFairness
=============================================================================
