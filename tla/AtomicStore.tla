---------------------------- MODULE AtomicStore ----------------------------
(***************************************************************************)
(* What the configuration store promises: the place of a name holds one    *)
(* whole configuration or none, sealed with the name it was saved under; a *)
(* save takes effect in one step or not at all, a save that may not        *)
(* overwrite never does, and a crash of the manager forgets the saves      *)
(* under way and nothing else.                                             *)
(***************************************************************************)
CONSTANTS Names, Contents, Savers, NoConf

VARIABLES
  store,    \* the place of a name: [name, data] or NoConf
  request   \* the save a thread has under way: <<name, content, overwrite>>

vars == <<store, request>>

Init == store = [n \in Names |-> NoConf] /\ request = [w \in Savers |-> NoConf]

Request(w) ==
    /\ request[w] = NoConf
    /\ \E r \in Names \X Contents \X BOOLEAN : request' = [request EXCEPT ![w] = r]
    /\ UNCHANGED store

Commit(w) ==
    LET r == request[w] IN
    /\ r # NoConf
    /\ r[3] \/ store[r[1]] = NoConf
    /\ store' = [store EXCEPT ![r[1]] = [name |-> r[1], data |-> r[2]]]
    /\ request' = [request EXCEPT ![w] = NoConf]

Abort(w) ==
    /\ request[w] # NoConf
    /\ request' = [request EXCEPT ![w] = NoConf] /\ UNCHANGED store

\* DeleteName.
Remove(n) ==
    /\ store' = [store EXCEPT ![n] = NoConf]
    /\ UNCHANGED request

\* An administrator moves a file by hand; the seal stays what it was.
Move(n, m) ==
    /\ store[n] # NoConf /\ n # m
    /\ store' = [store EXCEPT ![m] = store[n], ![n] = NoConf]
    /\ UNCHANGED request

Crash == request' = [w \in Savers |-> NoConf] /\ UNCHANGED store

Next ==
    \/ \E w \in Savers : Request(w) \/ Commit(w) \/ Abort(w)
    \/ \E n \in Names : Remove(n)
    \/ \E n, m \in Names : Move(n, m)
    \/ Crash

Spec == Init /\ [][Next]_vars
=============================================================================
