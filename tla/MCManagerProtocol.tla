------------------------- MODULE MCManagerProtocol -------------------------
(* ManagerProtocol with one or two callers. *)
EXTENDS ManagerProtocol

CONSTANTS a, b

One == {a}
Two == {a, b}

(* The last change of the tunnel happens when no request is under way and  *)
(* none was cancelled, and no request follows it: it is there to find the  *)
(* event pipe full, with an event that waits for room in it.               *)
AllIdle == \A c \in Callers : task[c].pc = "idle"
LastChange ==
  /\ state' # state /\ state = MaxChanges => AllIdle /\ cancels = 0
  /\ state > MaxChanges /\ AllIdle => AllIdle'
ScenarioSpec == Init /\ [][Next /\ LastChange]_vars /\ Fairness
=============================================================================
