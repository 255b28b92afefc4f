--------------------------- MODULE ServicesProofs ---------------------------
(***************************************************************************)
(* The services of Windows that the program installs: the copies of the    *)
(* persistent tunnel service, and the user interfaces of the manager.      *)
(*                                                                         *)
(* The theorems on the tunnel service are about elevated commands that run *)
(* one at a time (Serial): with two at once the rollback of one takes away *)
(* the copy the other has saved.  AutoHasCopy is not inductive: a command  *)
(* has to remember whether the copy it found may go again (MayDrop).       *)
(***************************************************************************)
EXTENDS WireRouteServices, ManagerSessions, TLAPS, FiniteSetTheorems

(* One elevated command at a time. *)
Serial == \A p, q \in Procs : p = q

StopKinds == {"stopE", "uninstallP"}
Installing == {"open", "delete", "gone", "create"}

(* No service depends on the protected copy. *)
MayDrop == ~svc.auto \/ svc.state = "absent" \/ svc.marked

(* What each command may do at each of its steps. *)
KindFits(p) ==
  /\ cmd[p].pc # "free" => cmd[p].owner \in Owners /\ cmd[p].kind \in Commands
  /\ cmd[p].pc \in {"save", "rollback"} => cmd[p].kind = "installP"
  /\ cmd[p].pc = "load" => cmd[p].kind \in {"installP", "uninstallP"}
  /\ cmd[p].pc = "remove" => cmd[p].kind = "uninstallP"
  /\ cmd[p].pc = "poll" => cmd[p].kind = "installE"
  /\ cmd[p].pc \in {"delete", "gone", "create", "start"} =>
       cmd[p].kind \in {"installE", "installP"}

(* The copy is the owner's from its marker check to its end, and the one a *)
(* rollback would delete is needed by nobody.                              *)
CopyFits(p) ==
  /\ cmd[p].pc = "save" => copy = cmd[p].prev /\ cmd[p].prev \in {Nobody, cmd[p].owner}
  /\ cmd[p].kind = "installP" /\ cmd[p].pc \in Installing \cup {"start", "rollback"} =>
       copy = cmd[p].owner /\ cmd[p].prev \in {Nobody, cmd[p].owner}
  /\ cmd[p].kind = "installP" /\ cmd[p].pc \in Installing \cup {"save", "rollback"} /\ cmd[p].prev = Nobody =>
       MayDrop
  /\ cmd[p].kind = "uninstallP" /\ cmd[p].pc \in {"open", "remove"} => copy = cmd[p].owner

(* A stop that has succeeded has left only a marked service, and an app    *)
(* that waits for an exit code waits for the command it asked for.         *)
StopFits(p) ==
  /\ cmd[p].pc = "remove" \/ (cmd[p].pc = "exit" /\ cmd[p].ok /\ cmd[p].kind \in StopKinds) =>
       svc.state = "absent" \/ svc.marked
  /\ cmd[p].pc # "free" /\ cmd[p].live =>
       /\ op[cmd[p].owner].pc = "elevated"
       /\ op[cmd[p].owner].call = "stop" => cmd[p].kind \in StopKinds
  /\ cmd[p].pc # "free" => op[cmd[p].owner].pc # "wait"

(* A profile that has stopped has no service that could come up again. *)
StoppedStays ==
  /\ svc.state = "absent" => svc.owner = Nobody
  /\ \A o \in Owners : op[o].pc = "wait" /\ op[o].call = "stop" => svc.owner # o \/ svc.marked

ServiceInv ==
  /\ TypeOK /\ AutoHasCopy /\ StoppedStays
  /\ \A p \in Procs : KindFits(p) /\ CopyFits(p) /\ StopFits(p)
-----------------------------------------------------------------------------
(* Nothing is installed and nothing runs at first. *)
LEMMA ServiceInit == Init => ServiceInv
<1> SUFFICES ASSUME Init PROVE ServiceInv
  OBVIOUS
<1>1. TypeOK
  BY DEF Init, TypeOK, Absent, Services, Idle, Ops, NoCmd, Cmds
<1>2. AutoHasCopy /\ StoppedStays
  BY DEF Init, AutoHasCopy, StoppedStays, Absent, Idle
<1>3. \A p \in Procs : KindFits(p) /\ CopyFits(p) /\ StopFits(p)
  BY DEF Init, KindFits, CopyFits, StopFits, NoCmd, Installing
<1> QED  BY <1>1, <1>2, <1>3 DEF ServiceInv

(* A step of an app that leaves the service and the commands alone.        *)
LEMMA AppStep ==
  ASSUME ServiceInv, NEW o \in Owners, op[o].pc # "elevated", NEW t \in Ops,
         t.pc \in {"idle", "prompt"}, op' = [op EXCEPT ![o] = t], UNCHANGED <<svc, copy, cmd>>,
         file' \in [Owners -> BOOLEAN], mode' \in [Owners -> BOOLEAN],
         {ops', failures', exits'} \subseteq Nat
  PROVE  ServiceInv'
<1>1. op \in [Owners -> Ops] /\ op' \in [Owners -> Ops] /\ op'[o] = t
      /\ \A d \in Owners : d # o => op'[d] = op[d]
  BY DEF ServiceInv, TypeOK
<1>2. TypeOK'
  BY <1>1 DEF ServiceInv, TypeOK
<1>3. AutoHasCopy' /\ StoppedStays'
  BY <1>1 DEF ServiceInv, AutoHasCopy, StoppedStays
<1>4. ASSUME NEW p \in Procs PROVE KindFits(p)' /\ CopyFits(p)' /\ StopFits(p)'
  <2>1. KindFits(p) /\ CopyFits(p) /\ StopFits(p)
    BY DEF ServiceInv
  <2>2. KindFits(p)' /\ CopyFits(p)'
    BY <2>1 DEF KindFits, CopyFits, MayDrop
  <2>3. StopFits(p)'
    BY <1>1, <2>1 DEF StopFits, KindFits
  <2> QED  BY <2>2, <2>3
<1> QED  BY <1>2, <1>3, <1>4 DEF ServiceInv

(* An app begins a call, or ends one. *)
Begins(o) ==
  /\ \E t \in Ops : t.pc \in {"idle", "prompt"} /\ op' = [op EXCEPT ![o] = t]
  /\ file' \in [Owners -> BOOLEAN]

(* Starting a tunnel waits for a prompt. *)
LEMMA BeginStartFacts ==
  ASSUME TypeOK, NEW o \in Owners, NEW k \in {"activate", "enable", "restore"}, NEW b \in BOOLEAN,
         BeginStart(o, k, b)
  PROVE  Begins(o)
<1>1. file \in [Owners -> BOOLEAN]
  BY DEF TypeOK
<1> QED  BY <1>1 DEF BeginStart, Ops, Begins

(* So does stopping one. *)
LEMMA BeginStopFacts ==
  ASSUME TypeOK, NEW o \in Owners, NEW k \in {"deactivate", "enable", "disable"}, BeginStop(o, k)
  PROVE  Begins(o)
<1> DEFINE t == [pc |-> "prompt", kind |-> k, call |-> "stop", persistent |-> IsPersistentService]
<1>1. file \in [Owners -> BOOLEAN] /\ IsPersistentService \in BOOLEAN
  BY DEF TypeOK, IsPersistentService, Services
<1>2. t \in Ops /\ t.pc = "prompt"
  BY <1>1 DEF Ops
<1>3. op' = [op EXCEPT ![o] = t] /\ file' = file
  BY DEF BeginStop
<1> HIDE DEF t
<1> QED  BY <1>1, <1>2, <1>3 DEF Begins

(* The end of a call begins another one, or none. *)
LEMMA CallFacts ==
  ASSUME TypeOK, NEW o \in Owners, CallSucceeds(o) \/ CallFails(o)
  PROVE  Begins(o) /\ mode' \in [Owners -> BOOLEAN]
<1>0. file \in [Owners -> BOOLEAN] /\ mode \in [Owners -> BOOLEAN]
  BY DEF TypeOK
<1>1. ASSUME op' = [op EXCEPT ![o] = Idle], file' \in [Owners -> BOOLEAN] PROVE Begins(o)
  BY <1>1 DEF Idle, Ops, Begins
<1>2. CASE CallSucceeds(o)
  <2>1. mode' \in [Owners -> BOOLEAN]
    BY <1>0, <1>2 DEF CallSucceeds
  <2>2. Begins(o)
    BY <1>0, <1>1, <1>2, BeginStartFacts DEF CallSucceeds
  <2> QED  BY <2>1, <2>2
<1>3. CASE CallFails(o)
  <2>1. mode' \in [Owners -> BOOLEAN]
    BY <1>0, <1>3 DEF CallFails
  <2>2. Begins(o)
    BY <1>0, <1>1, <1>3, BeginStartFacts DEF CallFails
  <2> QED  BY <2>1, <2>2
<1> QED  BY <1>2, <1>3

(* The user's operations, refused prompts and the waits of the app. *)
LEMMA AppSteps1 ==
  ASSUME ServiceInv, NEW o \in Owners,
         \/ Activate(o) \/ Deactivate(o) \/ Enable(o) \/ Disable(o)
         \/ Declined(o) \/ WaitSees(o) \/ WaitTimesOut(o)
  PROVE  ServiceInv'
<1>0. /\ TypeOK /\ op \in [Owners -> Ops] /\ file \in [Owners -> BOOLEAN]
      /\ mode \in [Owners -> BOOLEAN] /\ {ops, failures, exits} \subseteq Nat
  BY DEF ServiceInv, TypeOK
<1>1. ASSUME Begins(o), mode' \in [Owners -> BOOLEAN], op[o].pc # "elevated",
             UNCHANGED <<svc, copy, cmd, failures, exits>>, ops' \in {ops, ops + 1}
      PROVE  ServiceInv'
  <2>1. PICK t \in Ops : t.pc \in {"idle", "prompt"} /\ op' = [op EXCEPT ![o] = t]
    BY <1>1 DEF Begins
  <2>2. {ops', failures', exits'} \subseteq Nat
    BY <1>0, <1>1
  <2>3. file' \in [Owners -> BOOLEAN]
    BY <1>1 DEF Begins
  <2> QED  BY <1>1, <2>1, <2>2, <2>3, AppStep
<1>2. ASSUME UNCHANGED <<op, file>>, op[o].pc = "idle" PROVE Begins(o)
  <2>1. op[o] \in Ops /\ op' = [op EXCEPT ![o] = op[o]]
    BY <1>0, <1>2
  <2> QED  BY <1>0, <1>2, <2>1 DEF Begins
<1>3. CASE Activate(o)
  BY <1>0, <1>1, <1>3, BeginStartFacts DEF Activate, NewOp
<1>4. CASE Deactivate(o)
  BY <1>0, <1>1, <1>4, BeginStopFacts DEF Deactivate, NewOp
<1>5. CASE Enable(o)
  <2>1. Begins(o) /\ mode' \in [Owners -> BOOLEAN]
    BY <1>0, <1>2, <1>5, BeginStopFacts DEF Enable, NewOp
  <2> QED  BY <1>1, <1>5, <2>1 DEF Enable, NewOp
<1>6. CASE Disable(o)
  <2>1. Begins(o) /\ mode' \in [Owners -> BOOLEAN]
    BY <1>0, <1>2, <1>6, BeginStopFacts DEF Disable, NewOp
  <2> QED  BY <1>1, <1>6, <2>1 DEF Disable, NewOp
<1>7. CASE Declined(o)
  BY <1>0, <1>1, <1>7, CallFacts DEF Declined
<1>8. CASE WaitSees(o)
  BY <1>0, <1>1, <1>8, CallFacts DEF WaitSees
<1>9. CASE WaitTimesOut(o)
  BY <1>0, <1>1, <1>9, CallFacts DEF WaitTimesOut
<1> QED  BY <1>3, <1>4, <1>5, <1>6, <1>7, <1>8, <1>9

(* The app exits: its command goes on, but nobody waits for it. *)
LEMMA AppExitsStep ==
  ASSUME ServiceInv, NEW o \in Owners, AppExits(o)
  PROVE  ServiceInv'
<1>0. /\ op \in [Owners -> Ops] /\ cmd \in [Procs -> Cmds] /\ Idle \in Ops /\ Idle.pc = "idle"
      /\ UNCHANGED <<svc, copy, file, mode, ops, failures>> /\ exits' = exits + 1
      /\ op' = [op EXCEPT ![o] = Idle]
  BY DEF ServiceInv, TypeOK, AppExits, Idle, Ops
<1>1. ASSUME NEW p \in Procs
      PROVE  /\ cmd'[p] \in Cmds
             /\ cmd'[p].pc = cmd[p].pc /\ cmd'[p].kind = cmd[p].kind /\ cmd'[p].owner = cmd[p].owner
             /\ cmd'[p].prev = cmd[p].prev /\ cmd'[p].ok = cmd[p].ok
             /\ cmd'[p].live => cmd[p].live /\ cmd[p].owner # o
  <2>1. cmd'[p] = IF cmd[p].owner = o THEN [cmd[p] EXCEPT !.live = FALSE] ELSE cmd[p]
    BY DEF AppExits
  <2> QED  BY <1>0, <2>1 DEF Cmds
<1>2. cmd' \in [Procs -> Cmds]
  <2>1. DOMAIN cmd' = Procs /\ cmd' = [p \in Procs |-> cmd'[p]]
    BY DEF AppExits
  <2> QED  BY <1>1, <2>1
<1>3. TypeOK'
  BY <1>0, <1>2 DEF ServiceInv, TypeOK
<1>4. AutoHasCopy' /\ StoppedStays'
  BY <1>0 DEF ServiceInv, AutoHasCopy, StoppedStays
<1>5. ASSUME NEW p \in Procs PROVE KindFits(p)' /\ CopyFits(p)' /\ StopFits(p)'
  <2>1. KindFits(p) /\ CopyFits(p) /\ StopFits(p)
    BY DEF ServiceInv
  <2>2. KindFits(p)'
    BY <1>1, <2>1 DEF KindFits
  <2>3. CopyFits(p)'
    BY <1>0, <1>1, <2>1 DEF CopyFits, MayDrop
  <2>4. StopFits(p)'
    BY <1>0, <1>1, <2>1 DEF StopFits, KindFits
  <2> QED  BY <2>2, <2>3, <2>4
<1> QED  BY <1>3, <1>4, <1>5 DEF ServiceInv

-----------------------------------------------------------------------------
(* With one command at a time, its own facts are all there is to show.     *)
LEMMA CommandFrame ==
  ASSUME Serial, ServiceInv, NEW p \in Procs, cmd' \in [Procs -> Cmds], svc' \in Services,
         copy' \in Owners \cup {Nobody}, UNCHANGED <<file, mode, op, ops, exits>>,
         failures' \in Nat, AutoHasCopy', StoppedStays', KindFits(p)', CopyFits(p)', StopFits(p)'
  PROVE  ServiceInv'
<1>1. TypeOK'
  BY DEF ServiceInv, TypeOK
<1>2. \A q \in Procs : q = p
  BY DEF Serial
<1> QED  BY <1>1, <1>2 DEF ServiceInv

(* A command goes on to another step. *)
LEMMA GoesFacts ==
  ASSUME cmd \in [Procs -> Cmds], NEW p \in Procs,
         NEW pc \in {"save", "open", "delete", "gone", "create", "start", "poll", "rollback",
                     "remove"},
         Goes(p, pc)
  PROVE  /\ cmd' \in [Procs -> Cmds] /\ cmd'[p].pc = pc /\ cmd'[p].kind = cmd[p].kind
         /\ cmd'[p].owner = cmd[p].owner /\ cmd'[p].prev = cmd[p].prev
         /\ cmd'[p].live = cmd[p].live
<1> DEFINE c == [cmd[p] EXCEPT !.pc = pc]
<1>1. cmd[p] \in Cmds
  OBVIOUS
<1>2. /\ c \in Cmds /\ c.pc = pc /\ c.kind = cmd[p].kind /\ c.owner = cmd[p].owner
      /\ c.prev = cmd[p].prev /\ c.live = cmd[p].live
  BY <1>1 DEF Cmds
<1>3. cmd' = [cmd EXCEPT ![p] = c]
  BY DEF Goes
<1> HIDE DEF c
<1> QED  BY <1>2, <1>3

(* A command ends with an exit code. *)
LEMMA EndsFacts ==
  ASSUME cmd \in [Procs -> Cmds], NEW p \in Procs, NEW ok \in BOOLEAN, Ends(p, ok)
  PROVE  /\ cmd' \in [Procs -> Cmds] /\ cmd'[p].pc = "exit" /\ cmd'[p].kind = cmd[p].kind
         /\ cmd'[p].owner = cmd[p].owner /\ cmd'[p].prev = cmd[p].prev
         /\ cmd'[p].live = cmd[p].live /\ cmd'[p].ok = ok
<1> DEFINE c == [cmd[p] EXCEPT !.pc = "exit", !.ok = ok]
<1>1. cmd[p] \in Cmds
  OBVIOUS
<1>2. /\ c \in Cmds /\ c.pc = "exit" /\ c.kind = cmd[p].kind /\ c.owner = cmd[p].owner
      /\ c.prev = cmd[p].prev /\ c.live = cmd[p].live /\ c.ok = ok
  BY <1>1 DEF Cmds
<1>3. cmd' = [cmd EXCEPT ![p] = c]
  BY DEF Ends
<1> HIDE DEF c
<1> QED  BY <1>2, <1>3

(* A failed installation ends, or first takes the copy back. *)
LEMMA FailsFacts ==
  ASSUME cmd \in [Procs -> Cmds], NEW p \in Procs, Fails(p)
  PROVE  /\ cmd' \in [Procs -> Cmds] /\ cmd'[p].kind = cmd[p].kind
         /\ cmd'[p].owner = cmd[p].owner /\ cmd'[p].prev = cmd[p].prev
         /\ cmd'[p].live = cmd[p].live
         /\ \/ cmd[p].kind = "installP" /\ cmd'[p].pc = "rollback"
            \/ cmd[p].kind # "installP" /\ cmd'[p].pc = "exit"
  BY GoesFacts, EndsFacts DEF Fails

(* Whatever is known of a command before its step. *)
LEMMA CommandFacts ==
  ASSUME ServiceInv, NEW p \in Procs
  PROVE  /\ cmd \in [Procs -> Cmds] /\ svc \in Services /\ copy \in Owners \cup {Nobody}
         /\ op \in [Owners -> Ops] /\ failures \in Nat /\ AutoHasCopy /\ StoppedStays
         /\ KindFits(p) /\ CopyFits(p) /\ StopFits(p)
  BY DEF ServiceInv, TypeOK

(* The check of the marker, and the copy that is written after it.         *)
LEMMA LoadsStep ==
  ASSUME Serial, ServiceInv, NEW p \in Procs, Loads(p) \/ Saves(p)
  PROVE  ServiceInv'
<1>0. /\ cmd \in [Procs -> Cmds] /\ svc \in Services /\ copy \in Owners \cup {Nobody}
      /\ failures \in Nat /\ AutoHasCopy /\ StoppedStays
      /\ KindFits(p) /\ CopyFits(p) /\ StopFits(p)
      /\ UNCHANGED <<svc, file, mode, op, ops, exits>>
  BY CommandFacts DEF Loads, Saves, OnlyCmd
<1>1. StoppedStays'
  BY <1>0 DEF StoppedStays
<1>2. CASE Loads(p) /\ ~(copy = cmd[p].owner \/ (copy = Nobody /\ cmd[p].kind = "installP"))
  <2>1. Ends(p, FALSE) /\ cmd[p].pc = "load" /\ UNCHANGED <<copy, failures>>
    BY <1>2 DEF Loads
  <2>2. /\ cmd' \in [Procs -> Cmds] /\ cmd'[p].pc = "exit" /\ cmd'[p].kind = cmd[p].kind
        /\ cmd'[p].owner = cmd[p].owner /\ cmd'[p].live = cmd[p].live /\ ~cmd'[p].ok
    BY <1>0, <2>1, EndsFacts
  <2>3. KindFits(p)' /\ CopyFits(p)'
    BY <1>0, <2>1, <2>2 DEF KindFits, CopyFits, Installing
  <2>4. StopFits(p)'
    BY <1>0, <2>1, <2>2 DEF StopFits
  <2>5. AutoHasCopy'
    BY <1>0, <2>1 DEF AutoHasCopy
  <2> QED  BY <1>0, <1>1, <2>1, <2>2, <2>3, <2>4, <2>5, CommandFrame
<1>3. CASE Loads(p) /\ (copy = cmd[p].owner \/ (copy = Nobody /\ cmd[p].kind = "installP"))
  <2> DEFINE pc == IF cmd[p].kind = "installP" THEN "save" ELSE "open"
             c == [cmd[p] EXCEPT !.prev = copy, !.pc = pc]
  <2>1. cmd' = [cmd EXCEPT ![p] = c] /\ cmd[p].pc = "load" /\ UNCHANGED <<copy, failures>>
    BY <1>3 DEF Loads
  <2>2. /\ c \in Cmds /\ c.pc = pc /\ c.kind = cmd[p].kind /\ c.owner = cmd[p].owner
        /\ c.prev = copy /\ c.live = cmd[p].live
    <3>1. cmd[p] \in Cmds /\ copy \in Owners \cup {Nobody} /\ pc \in {"save", "open"}
      BY <1>0
    <3> HIDE DEF pc
    <3> QED  BY <3>1 DEF Cmds
  <2> HIDE DEF c
  <2>3. cmd' \in [Procs -> Cmds] /\ cmd'[p] = c
    BY <1>0, <2>1, <2>2
  <2>4. KindFits(p)'
    BY <1>0, <2>1, <2>2, <2>3 DEF KindFits
  <2>5. CopyFits(p)'
    <3>1. copy = Nobody => MayDrop
      BY <1>0 DEF AutoHasCopy, MayDrop
    <3>2. copy' = copy /\ MayDrop' = MayDrop
      BY <1>0, <2>1 DEF MayDrop
    <3> QED  BY <1>0, <1>3, <2>1, <2>2, <2>3, <3>1, <3>2 DEF CopyFits, KindFits, Installing
  <2>6. StopFits(p)'
    BY <1>0, <2>1, <2>2, <2>3 DEF StopFits
  <2>7. AutoHasCopy'
    BY <1>0, <2>1 DEF AutoHasCopy
  <2> QED  BY <1>0, <1>1, <2>1, <2>3, <2>4, <2>5, <2>6, <2>7, CommandFrame
<1>4. CASE Saves(p) /\ copy' = cmd[p].owner /\ Goes(p, "open") /\ UNCHANGED failures
  <2>1. /\ cmd' \in [Procs -> Cmds] /\ cmd'[p].pc = "open" /\ cmd'[p].kind = cmd[p].kind
        /\ cmd'[p].owner = cmd[p].owner /\ cmd'[p].prev = cmd[p].prev
        /\ cmd'[p].live = cmd[p].live /\ cmd[p].pc = "save"
    BY <1>0, <1>4, GoesFacts DEF Saves
  <2>2. cmd[p].owner \in Owners /\ cmd[p].owner # Nobody
    BY <1>0, <2>1, OwnersAssumption DEF KindFits
  <2>3. KindFits(p)'
    BY <1>0, <2>1 DEF KindFits
  <2>4. CopyFits(p)'
    BY <1>0, <1>4, <2>1 DEF CopyFits, KindFits, MayDrop, Installing
  <2>5. StopFits(p)'
    BY <1>0, <2>1 DEF StopFits
  <2>6. AutoHasCopy' /\ copy' \in Owners \cup {Nobody}
    BY <1>0, <1>4, <2>2 DEF AutoHasCopy
  <2> QED  BY <1>0, <1>1, <1>4, <2>1, <2>3, <2>4, <2>5, <2>6, CommandFrame
<1>5. CASE Saves(p) /\ failures' = failures + 1 /\ Ends(p, FALSE) /\ UNCHANGED copy
  <2>1. /\ cmd' \in [Procs -> Cmds] /\ cmd'[p].pc = "exit" /\ cmd'[p].kind = cmd[p].kind
        /\ cmd'[p].owner = cmd[p].owner /\ cmd'[p].live = cmd[p].live /\ ~cmd'[p].ok
        /\ cmd[p].pc = "save"
    BY <1>0, <1>5, EndsFacts DEF Saves
  <2>2. KindFits(p)' /\ CopyFits(p)'
    BY <1>0, <2>1 DEF KindFits, CopyFits, Installing
  <2>3. StopFits(p)'
    BY <1>0, <2>1 DEF StopFits
  <2>4. AutoHasCopy'
    BY <1>0, <1>5 DEF AutoHasCopy
  <2> QED  BY <1>0, <1>1, <1>5, <2>1, <2>2, <2>3, <2>4, CommandFrame
<1> QED  BY <1>2, <1>3, <1>4, <1>5 DEF Loads, Saves

(* A step of an installation that creates nothing: the service may get its *)
(* mark, and the copy stays.                                               *)
LEMMA InstallFrame ==
  ASSUME Serial, ServiceInv, NEW p \in Procs,
         UNCHANGED <<copy, file, mode, op, ops, exits>>, failures' \in Nat,
         svc' \in Services, svc'.owner = svc.owner, svc'.state = svc.state, svc'.auto = svc.auto,
         svc.marked => svc'.marked,
         cmd' \in [Procs -> Cmds], cmd'[p].kind = cmd[p].kind, cmd'[p].owner = cmd[p].owner,
         cmd'[p].prev = cmd[p].prev, cmd'[p].live = cmd[p].live,
         cmd[p].kind \in {"installE", "installP"}, cmd[p].pc \in Installing \cup {"start", "poll"},
         cmd'[p].pc \in {"delete", "gone", "create", "start", "poll", "rollback", "exit"},
         cmd'[p].pc = "rollback" => cmd[p].kind = "installP",
         cmd'[p].pc = "poll" => cmd[p].kind = "installE",
         cmd[p].pc = "start" => cmd'[p].pc \in {"exit", "poll"} \/ svc'.marked,
         cmd[p].pc = "poll" => cmd'[p].pc = "exit"
  PROVE  ServiceInv'
<1>0. /\ svc \in Services /\ copy \in Owners \cup {Nobody} /\ AutoHasCopy /\ StoppedStays
      /\ KindFits(p) /\ CopyFits(p) /\ StopFits(p)
  BY CommandFacts
<1>1. KindFits(p)'
  BY <1>0 DEF KindFits, Installing
<1>2. CopyFits(p)'
  <2>1. MayDrop => MayDrop'
    BY DEF MayDrop
  <2>2. svc'.marked => MayDrop'
    BY DEF MayDrop
  <2> HIDE DEF MayDrop
  <2> QED  BY <1>0, <2>1, <2>2 DEF CopyFits, KindFits, Installing
<1>3. StopFits(p)'
  BY <1>0 DEF StopFits, StopKinds, Installing
<1>4. AutoHasCopy' /\ StoppedStays'
  BY <1>0 DEF AutoHasCopy, StoppedStays
<1> QED  BY <1>0, <1>1, <1>2, <1>3, <1>4, CommandFrame

(* Up to the point where the old service is gone. *)
LEMMA InstallOpensStep ==
  ASSUME Serial, ServiceInv, NEW p \in Procs,
         InstallOpens(p) \/ InstallDeletes(p) \/ InstallFindsGone(p)
  PROVE  ServiceInv'
<1>0. /\ cmd \in [Procs -> Cmds] /\ svc \in Services /\ failures \in Nat /\ KindFits(p)
  BY CommandFacts
<1>1. CASE InstallOpens(p)
  <2>1. /\ cmd' \in [Procs -> Cmds] /\ cmd'[p].kind = cmd[p].kind
        /\ cmd'[p].owner = cmd[p].owner /\ cmd'[p].prev = cmd[p].prev
        /\ cmd'[p].live = cmd[p].live
        /\ \/ cmd'[p].pc \in {"create", "delete", "exit"}
           \/ cmd[p].kind = "installP" /\ cmd'[p].pc = "rollback"
    BY <1>0, <1>1, GoesFacts, FailsFacts DEF InstallOpens
  <2>2. UNCHANGED <<svc, copy, file, mode, op, ops, exits, failures>>
    BY <1>1 DEF InstallOpens, OnlyCmd
  <2>3. cmd[p].pc = "open" /\ cmd[p].kind \in {"installE", "installP"}
    BY <1>1 DEF InstallOpens
  <2> QED  BY <1>0, <2>1, <2>2, <2>3, InstallFrame DEF Installing
<1>2. CASE InstallDeletes(p)
  <2> DEFINE s == [svc EXCEPT !.marked = TRUE]
  <2>1. svc' = s /\ s \in Services /\ s.owner = svc.owner /\ s.state = svc.state
          /\ s.auto = svc.auto
        /\ s.marked
    BY <1>0, <1>2 DEF InstallDeletes, Services
  <2>2. /\ cmd' \in [Procs -> Cmds] /\ cmd'[p].kind = cmd[p].kind /\ cmd'[p].pc = "gone"
        /\ cmd'[p].owner = cmd[p].owner /\ cmd'[p].prev = cmd[p].prev
        /\ cmd'[p].live = cmd[p].live
    BY <1>0, <1>2, GoesFacts DEF InstallDeletes
  <2>3. /\ UNCHANGED <<copy, file, mode, op, ops, exits, failures>>
        /\ cmd[p].pc = "delete" /\ cmd[p].kind \in {"installE", "installP"}
    BY <1>0, <1>2 DEF InstallDeletes, KindFits
  <2> HIDE DEF s
  <2> QED  BY <1>0, <2>1, <2>2, <2>3, InstallFrame DEF Installing
<1>3. CASE InstallFindsGone(p)
  <2>2. /\ cmd' \in [Procs -> Cmds] /\ cmd'[p].kind = cmd[p].kind /\ cmd'[p].pc = "create"
        /\ cmd'[p].owner = cmd[p].owner /\ cmd'[p].prev = cmd[p].prev
        /\ cmd'[p].live = cmd[p].live
    BY <1>0, <1>3, GoesFacts DEF InstallFindsGone
  <2>3. /\ UNCHANGED <<svc, copy, file, mode, op, ops, exits, failures>>
        /\ cmd[p].pc = "gone" /\ cmd[p].kind \in {"installE", "installP"}
    BY <1>0, <1>3 DEF InstallFindsGone, OnlyCmd, KindFits
  <2> QED  BY <1>0, <2>2, <2>3, InstallFrame DEF Installing
<1> QED  BY <1>1, <1>2, <1>3

(* The new service: it starts with Windows only if its copy is there. *)
LEMMA InstallCreatesStep ==
  ASSUME Serial, ServiceInv, NEW p \in Procs, InstallCreates(p)
  PROVE  ServiceInv'
<1>0. /\ cmd \in [Procs -> Cmds] /\ svc \in Services /\ copy \in Owners \cup {Nobody}
      /\ failures \in Nat /\ AutoHasCopy /\ StoppedStays
      /\ KindFits(p) /\ CopyFits(p) /\ StopFits(p)
      /\ UNCHANGED <<copy, file, mode, op, ops, exits>> /\ cmd[p].pc = "create"
      /\ cmd[p].kind \in {"installE", "installP"} /\ cmd[p].owner \in Owners
  BY CommandFacts DEF InstallCreates, KindFits
<1>1. CASE svc.state = "absent" /\ Goes(p, "start") /\ UNCHANGED failures
           /\ svc' = [Absent EXCEPT !.state = "stopped", !.auto = (cmd[p].kind = "installP"),
                                    !.owner = cmd[p].owner]
  <2>1. /\ svc' \in Services /\ svc'.state = "stopped" /\ svc'.owner = cmd[p].owner
        /\ svc'.auto => cmd[p].kind = "installP"
    <3> DEFINE a == (cmd[p].kind = "installP")
    <3>1. a \in BOOLEAN
      OBVIOUS
    <3>2. svc' = [Absent EXCEPT !.state = "stopped", !.auto = a, !.owner = cmd[p].owner]
      BY <1>1
    <3> HIDE DEF a
    <3>3. svc' \in Services /\ svc'.state = "stopped" /\ svc'.owner = cmd[p].owner /\ svc'.auto = a
      BY <1>0, <3>1, <3>2 DEF Absent, Services
    <3> QED  BY <3>3 DEF a
  <2>2. /\ cmd' \in [Procs -> Cmds] /\ cmd'[p].kind = cmd[p].kind /\ cmd'[p].pc = "start"
        /\ cmd'[p].owner = cmd[p].owner /\ cmd'[p].prev = cmd[p].prev
        /\ cmd'[p].live = cmd[p].live
    BY <1>0, <1>1, GoesFacts
  <2>3. KindFits(p)' /\ CopyFits(p)' /\ StopFits(p)'
    BY <1>0, <2>1, <2>2 DEF KindFits, CopyFits, StopFits, Installing
  <2>4. AutoHasCopy'
    BY <1>0, <2>1, <2>2, OwnersAssumption DEF AutoHasCopy, CopyFits, Installing
  <2>5. StoppedStays'
    BY <1>0, <2>1 DEF StoppedStays, StopFits
  <2> QED  BY <1>0, <1>1, <2>1, <2>2, <2>3, <2>4, <2>5, CommandFrame
<1>2. CASE Fails(p) /\ UNCHANGED svc /\ failures' \in {failures, failures + 1}
  <2>1. /\ cmd' \in [Procs -> Cmds] /\ cmd'[p].kind = cmd[p].kind
        /\ cmd'[p].owner = cmd[p].owner /\ cmd'[p].prev = cmd[p].prev
        /\ cmd'[p].live = cmd[p].live
        /\ \/ cmd[p].kind = "installP" /\ cmd'[p].pc = "rollback"
           \/ cmd[p].kind # "installP" /\ cmd'[p].pc = "exit"
    BY <1>0, <1>2, FailsFacts
  <2> QED  BY <1>0, <1>2, <2>1, InstallFrame DEF Installing
<1> QED  BY <1>1, <1>2 DEF InstallCreates

(* The new service starts, or is marked. *)
LEMMA InstallStartsStep ==
  ASSUME Serial, ServiceInv, NEW p \in Procs, InstallStarts(p) \/ InstallPolls(p)
  PROVE  ServiceInv'
<1>0. /\ cmd \in [Procs -> Cmds] /\ svc \in Services /\ copy \in Owners \cup {Nobody}
      /\ failures \in Nat /\ AutoHasCopy /\ StoppedStays
      /\ KindFits(p) /\ CopyFits(p) /\ StopFits(p)
      /\ UNCHANGED <<copy, file, mode, op, ops, exits>> /\ cmd[p].pc \in {"start", "poll"}
      /\ cmd[p].kind \in {"installE", "installP"} /\ cmd[p].owner \in Owners
      /\ (cmd[p].pc = "poll" => cmd[p].kind = "installE")
  BY CommandFacts DEF InstallStarts, InstallPolls, KindFits
<1>1. /\ [svc EXCEPT !.marked = TRUE] \in Services
      /\ [svc EXCEPT !.marked = TRUE].owner = svc.owner
      /\ [svc EXCEPT !.marked = TRUE].state = svc.state
      /\ [svc EXCEPT !.marked = TRUE].auto = svc.auto /\ [svc EXCEPT !.marked = TRUE].marked
  BY <1>0 DEF Services
<1>2. /\ [SentStop(svc) EXCEPT !.marked = TRUE] \in Services
      /\ [SentStop(svc) EXCEPT !.marked = TRUE].owner = svc.owner
      /\ [SentStop(svc) EXCEPT !.marked = TRUE].state = svc.state
      /\ [SentStop(svc) EXCEPT !.marked = TRUE].auto = svc.auto
      /\ [SentStop(svc) EXCEPT !.marked = TRUE].marked
  <2>1. SentStop(svc) = svc \/ SentStop(svc) = [svc EXCEPT !.stop = TRUE]
    BY DEF SentStop
  <2> QED  BY <1>0, <2>1 DEF Services
<1>3. CASE svc.state = "stopped" /\ ~svc.marked /\ svc' = [svc EXCEPT !.state = "startpending"]
           /\ (IF cmd[p].kind = "installP" THEN Ends(p, TRUE) ELSE Goes(p, "poll"))
           /\ UNCHANGED failures /\ cmd[p].pc = "start"
  <2>1. /\ svc' \in Services /\ svc'.state = "startpending" /\ svc'.owner = svc.owner
        /\ svc'.auto = svc.auto /\ svc'.marked = svc.marked
    BY <1>0, <1>3 DEF Services
  <2>2. /\ cmd' \in [Procs -> Cmds] /\ cmd'[p].kind = cmd[p].kind
        /\ cmd'[p].owner = cmd[p].owner /\ cmd'[p].prev = cmd[p].prev
        /\ cmd'[p].live = cmd[p].live
        /\ cmd'[p].pc = IF cmd[p].kind = "installP" THEN "exit" ELSE "poll"
    BY <1>0, <1>3, GoesFacts, EndsFacts
  <2>3. KindFits(p)'
    BY <1>0, <2>2 DEF KindFits
  <2>4. CopyFits(p)'
    BY <1>0, <2>2 DEF CopyFits, Installing
  <2>5. StopFits(p)'
    BY <1>0, <1>3, <2>2 DEF StopFits, StopKinds
  <2>6. AutoHasCopy' /\ StoppedStays'
    BY <1>0, <1>3, <2>1 DEF AutoHasCopy, StoppedStays
  <2> QED  BY <1>0, <1>3, <2>1, <2>2, <2>3, <2>4, <2>5, <2>6, CommandFrame
<1>4. CASE svc' = [svc EXCEPT !.marked = TRUE] /\ failures' \in {failures, failures + 1}
           /\ (Fails(p) \/ Ends(p, FALSE)) /\ (cmd[p].pc = "poll" => Ends(p, FALSE))
  <2>1. /\ cmd' \in [Procs -> Cmds] /\ cmd'[p].kind = cmd[p].kind
        /\ cmd'[p].owner = cmd[p].owner /\ cmd'[p].prev = cmd[p].prev
        /\ cmd'[p].live = cmd[p].live
        /\ \/ cmd[p].kind = "installP" /\ cmd'[p].pc = "rollback"
           \/ cmd'[p].pc = "exit"
        /\ cmd[p].pc = "poll" => cmd'[p].pc = "exit"
    BY <1>0, <1>4, FailsFacts, EndsFacts
  <2>2. /\ svc' \in Services /\ svc'.owner = svc.owner /\ svc'.state = svc.state
        /\ svc'.auto = svc.auto /\ svc'.marked /\ failures' \in Nat
    BY <1>0, <1>1, <1>4
  <2> QED  BY <1>0, <2>1, <2>2, InstallFrame
<1>5. CASE cmd[p].pc = "poll" /\ UNCHANGED failures
           /\ \/ Ends(p, TRUE) /\ UNCHANGED svc
              \/ Ends(p, FALSE) /\ svc' = [SentStop(svc) EXCEPT !.marked = TRUE]
  <2>1. /\ cmd' \in [Procs -> Cmds] /\ cmd'[p].kind = cmd[p].kind
        /\ cmd'[p].owner = cmd[p].owner /\ cmd'[p].prev = cmd[p].prev
        /\ cmd'[p].live = cmd[p].live /\ cmd'[p].pc = "exit"
    BY <1>0, <1>5, EndsFacts
  <2> QED  BY <1>0, <1>2, <1>5, <2>1, InstallFrame
<1> QED  BY <1>3, <1>4, <1>5 DEF InstallStarts, InstallPolls

(* A command that stops the tunnel, and the copy that goes after it. *)
LEMMA StopsStep ==
  ASSUME Serial, ServiceInv, NEW p \in Procs, Uninstalls(p) \/ RemovesCopy(p) \/ RollsBack(p)
  PROVE  ServiceInv'
<1>0. /\ cmd \in [Procs -> Cmds] /\ svc \in Services /\ copy \in Owners \cup {Nobody}
      /\ failures \in Nat /\ AutoHasCopy /\ StoppedStays
      /\ KindFits(p) /\ CopyFits(p) /\ StopFits(p)
      /\ UNCHANGED <<file, mode, op, ops, exits>>
  BY CommandFacts DEF Uninstalls, RemovesCopy, RollsBack, OnlyCmd
<1>1. CASE Uninstalls(p)
  <2>1. /\ svc' \in Services /\ svc'.owner = svc.owner /\ svc'.state = svc.state
        /\ svc'.auto = svc.auto /\ (svc'.state = "absent" \/ svc'.marked)
        /\ svc.marked => svc'.marked
    <3>1. SentStop(svc) = svc \/ SentStop(svc) = [svc EXCEPT !.stop = TRUE]
      BY DEF SentStop
    <3> QED  BY <1>0, <1>1, <3>1 DEF Uninstalls, Services
  <2>2. /\ cmd' \in [Procs -> Cmds] /\ cmd'[p].kind = cmd[p].kind
        /\ cmd'[p].owner = cmd[p].owner /\ cmd'[p].prev = cmd[p].prev
        /\ cmd'[p].live = cmd[p].live
        /\ cmd'[p].pc = IF cmd[p].kind = "uninstallP" THEN "remove" ELSE "exit"
    BY <1>0, <1>1, GoesFacts, EndsFacts DEF Uninstalls
  <2>3. /\ cmd[p].kind \in {"stopE", "uninstallP"} /\ cmd[p].pc = "open"
        /\ UNCHANGED <<copy, failures>>
    BY <1>1 DEF Uninstalls
  <2>4. KindFits(p)'
    BY <1>0, <2>2, <2>3 DEF KindFits
  <2>5. CopyFits(p)'
    BY <1>0, <2>2, <2>3 DEF CopyFits, Installing
  <2>6. StopFits(p)'
    BY <1>0, <2>1, <2>2, <2>3 DEF StopFits
  <2>7. AutoHasCopy' /\ StoppedStays'
    BY <1>0, <2>1, <2>3 DEF AutoHasCopy, StoppedStays
  <2> QED  BY <1>0, <2>1, <2>2, <2>3, <2>4, <2>5, <2>6, <2>7, CommandFrame
<1>2. CASE RemovesCopy(p)
  <2>1. PICK ok \in BOOLEAN : Ends(p, ok) /\ copy' \in {Nobody, copy}
    BY <1>2 DEF RemovesCopy
  <2>2. /\ cmd' \in [Procs -> Cmds] /\ cmd'[p].kind = cmd[p].kind
        /\ cmd'[p].owner = cmd[p].owner /\ cmd'[p].prev = cmd[p].prev
        /\ cmd'[p].live = cmd[p].live /\ cmd'[p].pc = "exit"
    BY <1>0, <2>1, EndsFacts
  <2>3. cmd[p].pc = "remove" /\ UNCHANGED svc /\ failures' \in Nat
    <3>1. cmd[p].pc = "remove" /\ UNCHANGED svc /\ failures' \in {failures, failures + 1}
      BY <1>2 DEF RemovesCopy, OnlyCmd
    <3> QED  BY <1>0, <3>1
  <2>4. KindFits(p)' /\ CopyFits(p)'
    BY <1>0, <2>2, <2>3 DEF KindFits, CopyFits, Installing
  <2>5. StopFits(p)'
    BY <1>0, <2>2, <2>3 DEF StopFits
  <2>6. AutoHasCopy' /\ StoppedStays'
    BY <1>0, <2>3 DEF AutoHasCopy, StoppedStays, StopFits
  <2> QED  BY <1>0, <2>1, <2>2, <2>3, <2>4, <2>5, <2>6, CommandFrame
<1>3. CASE RollsBack(p)
  <2>1. /\ cmd' \in [Procs -> Cmds] /\ cmd'[p].kind = cmd[p].kind
        /\ cmd'[p].owner = cmd[p].owner /\ cmd'[p].prev = cmd[p].prev
        /\ cmd'[p].live = cmd[p].live /\ cmd'[p].pc = "exit" /\ ~cmd'[p].ok
    BY <1>0, <1>3, EndsFacts DEF RollsBack
  <2>2. /\ cmd[p].pc = "rollback" /\ UNCHANGED svc /\ copy' \in {cmd[p].prev, copy}
        /\ failures' \in Nat
    <3>1. failures' \in {failures, failures + 1}
      BY <1>3 DEF RollsBack
    <3> QED  BY <1>0, <1>3, <3>1 DEF RollsBack, OnlyCmd
  <2>3. cmd[p].kind = "installP" /\ cmd[p].prev \in Owners \cup {Nobody}
        /\ (cmd[p].prev = Nobody => MayDrop)
    BY <1>0, <2>2 DEF KindFits, CopyFits
  <2>4. KindFits(p)' /\ CopyFits(p)'
    BY <1>0, <2>1, <2>2 DEF KindFits, CopyFits, Installing
  <2>5. StopFits(p)'
    BY <1>0, <2>1, <2>2 DEF StopFits
  <2>6. AutoHasCopy' /\ StoppedStays'
    BY <1>0, <2>2, <2>3 DEF AutoHasCopy, StoppedStays, MayDrop
  <2> QED  BY <1>0, <2>1, <2>2, <2>3, <2>4, <2>5, <2>6, CommandFrame
<1> QED  BY <1>1, <1>2, <1>3

(* The prompt is answered with yes: the app waits for that command alone. *)
LEMMA ApprovedStep ==
  ASSUME Serial, ServiceInv, NEW o \in Owners, NEW p \in Procs, Approved(o, p)
  PROVE  ServiceInv'
<1>0. /\ op \in [Owners -> Ops] /\ cmd \in [Procs -> Cmds] /\ AutoHasCopy /\ StoppedStays
      /\ UNCHANGED <<svc, copy, file, mode, ops, failures, exits>>
      /\ op[o].pc = "prompt" /\ TypeOK
  BY CommandFacts DEF Approved, ServiceInv
<1> DEFINE c == [NoCmd EXCEPT !.pc = IF op[o].persistent THEN "load" ELSE "open",
                              !.kind = Kind(o), !.owner = o, !.live = TRUE]
           t == [op[o] EXCEPT !.pc = "elevated"]
<1>1. /\ c \in Cmds /\ c.pc = (IF op[o].persistent THEN "load" ELSE "open") /\ c.kind = Kind(o)
      /\ c.owner = o
  <2>1. Kind(o) \in Commands
    BY DEF Kind, Commands
  <2>2. (IF op[o].persistent THEN "load" ELSE "open") \in {"load", "open"}
    OBVIOUS
  <2> QED  BY <2>1, <2>2 DEF NoCmd, Cmds
<1>2. t \in Ops /\ t.pc = "elevated" /\ t.call = op[o].call
  BY <1>0 DEF Ops
<1>3. cmd' = [cmd EXCEPT ![p] = c] /\ op' = [op EXCEPT ![o] = t]
  BY DEF Approved
<1> HIDE DEF c, t
<1>4. /\ cmd' \in [Procs -> Cmds] /\ cmd'[p] = c /\ op' \in [Owners -> Ops] /\ op'[o] = t
      /\ \A d \in Owners : d # o => op'[d] = op[d]
  BY <1>0, <1>1, <1>2, <1>3
<1>5. TypeOK'
  BY <1>0, <1>4 DEF TypeOK
<1>6. AutoHasCopy' /\ StoppedStays'
  BY <1>0, <1>2, <1>4 DEF AutoHasCopy, StoppedStays
<1>7. c.kind = "installP" \/ c.kind = "uninstallP" <=> op[o].persistent
  BY <1>1 DEF Kind
<1>8. KindFits(p)' /\ CopyFits(p)'
  BY <1>1, <1>4, <1>7 DEF KindFits, CopyFits, Installing, Commands, Kind
<1>9. StopFits(p)'
  BY <1>1, <1>2, <1>4 DEF StopFits, StopKinds, Kind
<1>10. \A q \in Procs : q = p
  BY DEF Serial
<1> QED  BY <1>5, <1>6, <1>8, <1>9, <1>10 DEF ServiceInv

(* The app sees the exit code of the command it waits for, if it does. *)
LEMMA CommandExitsStep ==
  ASSUME Serial, ServiceInv, NEW p \in Procs, CommandExits(p)
  PROVE  ServiceInv'
<1> DEFINE o == cmd[p].owner
<1>0. /\ op \in [Owners -> Ops] /\ cmd \in [Procs -> Cmds] /\ AutoHasCopy /\ StoppedStays
      /\ KindFits(p) /\ StopFits(p) /\ TypeOK
      /\ UNCHANGED <<svc, copy, ops, failures, exits>> /\ cmd[p].pc = "exit"
      /\ cmd' = [cmd EXCEPT ![p] = NoCmd]
  BY CommandFacts DEF CommandExits, ServiceInv
<1>1. NoCmd \in Cmds /\ NoCmd.pc = "free" /\ NoCmd.kind = "none"
  BY DEF NoCmd, Cmds
<1>2. cmd' \in [Procs -> Cmds] /\ cmd'[p] = NoCmd /\ \A q \in Procs : q = p
  BY <1>0, <1>1 DEF Serial
<1>3. KindFits(p)' /\ CopyFits(p)' /\ StopFits(p)'
  BY <1>1, <1>2 DEF KindFits, CopyFits, StopFits, Installing
<1>4. AutoHasCopy'
  BY <1>0 DEF AutoHasCopy
<1>5. o \in Owners
  BY <1>0 DEF KindFits
<1> HIDE DEF o
<1>6. ASSUME NEW t \in Ops, op' = [op EXCEPT ![o] = t], file' \in [Owners -> BOOLEAN],
             mode' \in [Owners -> BOOLEAN],
             t.pc = "wait" /\ t.call = "stop" => svc.owner # o \/ svc.marked
      PROVE  ServiceInv'
  <2>1. op' \in [Owners -> Ops] /\ op'[o] = t /\ \A d \in Owners : d # o => op'[d] = op[d]
    BY <1>0, <1>5, <1>6
  <2>2. TypeOK'
    BY <1>0, <1>2, <1>6, <2>1 DEF TypeOK
  <2>3. StoppedStays'
    BY <1>0, <1>6, <2>1 DEF StoppedStays
  <2> QED  BY <1>2, <1>3, <1>4, <2>2, <2>3 DEF ServiceInv
<1>7. CASE cmd[p].live /\ cmd[p].ok /\ op' = [op EXCEPT ![o].pc = "wait"] /\ UNCHANGED <<file,
                                                                                         mode>>
  <2> DEFINE t == [op[o] EXCEPT !.pc = "wait"]
  <2>1. t \in Ops /\ t.call = op[o].call /\ op' = [op EXCEPT ![o] = t]
    BY <1>0, <1>5, <1>7 DEF Ops
  <2> HIDE DEF t
  <2>2. file' \in [Owners -> BOOLEAN] /\ mode' \in [Owners -> BOOLEAN]
    BY <1>0, <1>7 DEF TypeOK
  <2>3. t.call = "stop" => svc.owner # o \/ svc.marked
    BY <1>0, <1>5, <1>7, <2>1, OwnersAssumption DEF StopFits, StoppedStays, o
  <2> QED  BY <1>6, <2>1, <2>2, <2>3
<1>8. CASE CallFails(o)
  <2>1. Begins(o) /\ mode' \in [Owners -> BOOLEAN]
    BY <1>0, <1>5, <1>8, CallFacts
  <2>2. PICK t \in Ops : t.pc \in {"idle", "prompt"} /\ op' = [op EXCEPT ![o] = t]
    BY <2>1 DEF Begins
  <2>3. file' \in [Owners -> BOOLEAN]
    BY <2>1 DEF Begins
  <2> QED  BY <1>6, <2>1, <2>2, <2>3
<1>9. CASE UNCHANGED <<op, file, mode>>
  <2>1. TypeOK'
    BY <1>0, <1>2, <1>9 DEF TypeOK
  <2>2. StoppedStays'
    BY <1>0, <1>9 DEF StoppedStays
  <2> QED  BY <1>2, <1>3, <1>4, <2>1, <2>2 DEF ServiceInv
<1> QED  BY <1>7, <1>8, <1>9 DEF CommandExits, o

(* Every step of an elevated command. *)
LEMMA CommandStep ==
  ASSUME Serial, ServiceInv, NEW p \in Procs, CmdSteps(p)
  PROVE  ServiceInv'
  BY LoadsStep, InstallOpensStep, InstallCreatesStep, InstallStartsStep, StopsStep,
     CommandExitsStep DEF CmdSteps

(* The SCM and the tunnel process never take a mark back, and a service    *)
(* that goes away takes its owner with it.                                 *)
LEMMA EnvironmentStep ==
  ASSUME ServiceInv, Environment \/ ServiceFails
  PROVE  ServiceInv'
<1>0. svc \in Services /\ TypeOK
  BY DEF ServiceInv, TypeOK
<1>1. UNCHANGED <<copy, file, mode, op, cmd, ops, exits>> /\ failures' \in Nat
  <2>1. failures \in Nat
    BY <1>0 DEF TypeOK
  <2> QED  BY <2>1 DEF Environment, ServiceAccepts, ServiceRuns, ServiceStops, ServiceEnds,
      ServiceRemoved,
       ServiceFails, ServiceSteps
<1> DEFINE Kept == /\ svc' \in Services
                   /\ svc'.owner = svc.owner /\ svc'.auto = svc.auto /\ svc'.marked = svc.marked
                   /\ svc'.state # "absent" /\ svc.state # "absent"
<1>2. Kept \/ svc' = Absent
  <2>1. CASE ServiceAccepts
    BY <1>0, <2>1 DEF ServiceAccepts, Services
  <2>2. CASE ServiceRuns
    BY <1>0, <2>2 DEF ServiceRuns, Services
  <2>3. CASE ServiceStops
    BY <1>0, <2>3 DEF ServiceStops, Services
  <2>4. CASE ServiceFails
    BY <1>0, <2>4 DEF ServiceFails, Services
  <2>5. CASE ServiceEnds
    BY <1>0, <2>5 DEF ServiceEnds, Services
  <2>6. CASE ServiceRemoved
    BY <2>6 DEF ServiceRemoved
  <2> HIDE DEF Kept
  <2> QED  BY <2>1, <2>2, <2>3, <2>4, <2>5, <2>6 DEF Environment
<1>3. TypeOK'
  <2>1. Absent \in Services /\ Absent.state = "absent" /\ Absent.owner = Nobody
    BY DEF Absent, Services
  <2> QED  BY <1>0, <1>1, <1>2, <2>1 DEF TypeOK
<1>4. AutoHasCopy'
  <2>1. CASE svc' = Absent
    BY <2>1 DEF AutoHasCopy, Absent
  <2>2. CASE Kept
    BY <1>1, <2>2 DEF ServiceInv, AutoHasCopy
  <2> QED  BY <1>2, <2>1, <2>2
<1>5. StoppedStays'
  <2>1. CASE svc' = Absent
    BY <2>1, OwnersAssumption DEF StoppedStays, Absent
  <2>2. CASE Kept
    BY <1>1, <2>2 DEF ServiceInv, StoppedStays
  <2> QED  BY <1>2, <2>1, <2>2
<1>6. ASSUME NEW p \in Procs PROVE KindFits(p)' /\ CopyFits(p)' /\ StopFits(p)'
  <2>1. KindFits(p) /\ CopyFits(p) /\ StopFits(p)
    BY DEF ServiceInv
  <2>2. KindFits(p)'
    BY <1>1, <2>1 DEF KindFits
  <2>3. MayDrop => MayDrop'
    BY <1>2 DEF MayDrop, Absent
  <2>4. CopyFits(p)'
    BY <1>1, <2>1, <2>3 DEF CopyFits
  <2>5. svc.state = "absent" \/ svc.marked => svc'.state = "absent" \/ svc'.marked
    BY <1>2 DEF Absent
  <2>6. StopFits(p)'
    BY <1>1, <2>1, <2>5 DEF StopFits
  <2> QED  BY <2>2, <2>4, <2>6
<1> QED  BY <1>3, <1>4, <1>5, <1>6 DEF ServiceInv

(* Windows restarts: only what is not marked is left. *)
LEMMA RebootStep ==
  ASSUME ServiceInv, Reboot
  PROVE  ServiceInv'
<1>0. /\ svc \in Services /\ TypeOK /\ UNCHANGED <<copy, file, mode, ops, failures>>
      /\ op' = [o \in Owners |-> Idle] /\ cmd' = [p \in Procs |-> NoCmd] /\ exits' = exits + 1
  BY DEF ServiceInv, TypeOK, Reboot
<1> DEFINE Left == /\ svc' \in Services /\ svc'.auto = svc.auto /\ svc'.state # "absent"
                   /\ svc.state # "absent" /\ ~svc.marked
<1>1. Left \/ svc' = Absent
  BY <1>0 DEF Reboot, Services
<1>2. op' \in [Owners -> Ops] /\ cmd' \in [Procs -> Cmds]
  BY <1>0 DEF Idle, Ops, NoCmd, Cmds
<1>3. TypeOK'
  <2>1. Absent \in Services
    BY DEF Absent, Services
  <2> QED  BY <1>0, <1>1, <1>2, <2>1 DEF TypeOK
<1>4. AutoHasCopy'
  <2>1. CASE svc' = Absent
    BY <2>1 DEF AutoHasCopy, Absent
  <2>2. CASE Left
    BY <1>0, <2>2 DEF ServiceInv, AutoHasCopy
  <2> QED  BY <1>1, <2>1, <2>2
<1>5. StoppedStays'
  <2>1. svc'.state = "absent" => svc'.owner = Nobody
    BY <1>1 DEF Absent
  <2>2. \A o \in Owners : op'[o].pc = "idle"
    BY <1>0 DEF Idle
  <2> QED  BY <2>1, <2>2 DEF StoppedStays
<1>6. \A p \in Procs : KindFits(p)' /\ CopyFits(p)' /\ StopFits(p)'
  BY <1>0 DEF KindFits, CopyFits, StopFits, NoCmd, Installing
<1> QED  BY <1>3, <1>4, <1>5, <1>6 DEF ServiceInv

(* Every step keeps the invariant. *)
LEMMA ServiceStep ==
  ASSUME Serial, ServiceInv, [Next]_vars
  PROVE  ServiceInv'
<1>1. CASE Next
  BY <1>1, AppSteps1, AppExitsStep, ApprovedStep, CommandStep, EnvironmentStep, RebootStep
     DEF Next, AppSteps
<1>2. CASE UNCHANGED vars
  <2>1. TypeOK' /\ AutoHasCopy' /\ StoppedStays'
    BY <1>2 DEF ServiceInv, TypeOK, AutoHasCopy, StoppedStays, vars
  <2>2. \A p \in Procs : KindFits(p)' /\ CopyFits(p)' /\ StopFits(p)'
    BY <1>2 DEF ServiceInv, KindFits, CopyFits, StopFits, MayDrop, vars
  <2> QED  BY <2>1, <2>2 DEF ServiceInv
<1> QED  BY <1>1, <1>2

(* The copy that belongs to a profile changes in a step of its command.    *)
LEMMA CopyChanges ==
  ASSUME Serial, ServiceInv, Next, copy # Nobody, copy' # copy
  PROVE  \E p \in Procs : cmd[p].owner = copy /\ cmd'[p] # cmd[p]
<1>1. PICK p \in Procs : Saves(p) \/ RollsBack(p) \/ RemovesCopy(p)
  <2>1. \A o \in Owners : ~(Activate(o) \/ Deactivate(o) \/ Enable(o) \/ Disable(o)
                            \/ AppSteps(o) \/ AppExits(o))
    BY DEF Activate, Deactivate, Enable, Disable, AppSteps, AppExits, Declined, Approved, WaitSees,
           WaitTimesOut
  <2>2. ~(Environment \/ ServiceFails \/ Reboot)
    BY DEF Environment, ServiceAccepts, ServiceRuns, ServiceStops, ServiceEnds, ServiceRemoved,
           ServiceFails, ServiceSteps, Reboot
  <2>3. PICK p \in Procs : CmdSteps(p)
    BY <2>1, <2>2 DEF Next
  <2>4. ~(Loads(p) \/ InstallOpens(p) \/ InstallDeletes(p) \/ InstallFindsGone(p) \/ InstallCreates(p)
          \/ InstallStarts(p) \/ InstallPolls(p) \/ Uninstalls(p) \/ CommandExits(p))
    BY DEF Loads, InstallOpens, InstallDeletes, InstallFindsGone, InstallCreates, InstallStarts,
           InstallPolls, Uninstalls, CommandExits
  <2> QED  BY <2>3, <2>4 DEF CmdSteps
<1>2. /\ cmd \in [Procs -> Cmds] /\ KindFits(p) /\ CopyFits(p)
  BY CommandFacts
<1>3. cmd[p].pc \in {"save", "rollback", "remove"} /\ (cmd'[p].pc = "exit" \/ cmd'[p].pc = "open")
  BY <1>1, <1>2, GoesFacts, EndsFacts DEF Saves, RollsBack, RemovesCopy
<1>4. cmd[p].owner = copy
  BY <1>1, <1>2, <1>3 DEF Saves, RollsBack, RemovesCopy, KindFits, CopyFits
<1> QED  BY <1>3, <1>4

(* As long as elevated commands run one at a time: a service that starts   *)
(* with Windows has its protected copy, on every error path, and the copy  *)
(* is replaced or deleted only by a command of the profile it belongs to   *)
(* (install.go:138-202).                                                   *)
THEOREM CopiesStay ==
  ASSUME Serial PROVE Spec => CopiesKept
<1>1. ServiceInv /\ [Next]_vars => ServiceInv'
  BY ServiceStep
<1>2. ServiceInv => TypeOK /\ AutoHasCopy
  BY DEF ServiceInv
<1>3. ServiceInv /\ [Next]_vars =>
        [copy # Nobody /\ copy' # copy => \E p \in Procs : cmd[p].owner = copy
            /\ cmd'[p] # cmd[p]]_vars
  BY CopyChanges
<1> QED  BY ServiceInit, <1>1, <1>2, <1>3, PTL DEF Spec, CopiesKept, CopyIsOwn

(* As long as elevated commands run one at a time: when an app has been    *)
(* told that its tunnel is stopped, no service of that profile is left     *)
(* that Windows would start again (TunnelServiceController.cs:227-238).    *)
THEOREM StopsAreFinal ==
  ASSUME Serial PROVE Spec => StopIsFinal
<1>1. ServiceInv /\ [Next]_vars => ServiceInv'
  BY ServiceStep
<1>2. ServiceInv /\ [Next]_vars =>
        [\A o \in Owners :
           /\ op[o].pc = "wait" /\ op[o].call = "stop" /\ GetState = "Inactive"
           /\ op'[o].pc # "wait" /\ exits' = exits
           => svc.owner # o \/ svc.marked]_vars
  BY DEF ServiceInv, StoppedStays
<1> QED  BY ServiceInit, <1>1, <1>2, PTL DEF Spec, StopIsFinal

-----------------------------------------------------------------------------
(***************************************************************************)
(* The user interfaces of the manager.  Two of them never share a session  *)
(* because two loops do not: a session that is looked after keeps its mark *)
(* until its loop has gone, and a logon that finds such a loop is what     *)
(* relogged records.                                                       *)
(***************************************************************************)
LoopSteps == {"unused", "token", "top", "alive", "pipes", "launch", "record", "wait",
    "forget", "exit",
              "done"}
UiStates == {"none", "running", "exited", "logoff"}

SessionData ==
  /\ todo \subseteq Sessions /\ logged \subseteq Sessions
  /\ inbox \in Seq({"logon", "logoff"} \X Sessions)
  /\ loop \in [UiLoops -> [pc : LoopSteps, session : Sessions \cup {NoLoop}]]
  /\ ui \in [UiLoops -> UiStates]
  /\ \A l \in UiLoops : /\ loop[l].pc # "unused" => loop[l].session \in Sessions
                        /\ loop[l].pc = "forget" => ui[l] # "running"

(* One loop looks after a session, and once its interface is on record it  *)
(* is the one on record.                                                   *)
OneLoop ==
  \A s \in Sessions \ relogged :
    /\ \A l, m \in Active(s) : l = m
    /\ \A l \in UiLoops : loop[l].session = s /\ loop[l].pc = "wait" => procs[s] = l

SessionsInv == SessionsTypeOK /\ SessionData /\ OneLoop /\ StoppedIsEmpty

(* No loop has been started at first. *)
LEMMA SessionsInitInv == SessionsInit => SessionsInv
<1> SUFFICES ASSUME SessionsInit PROVE SessionsInv
  OBVIOUS
<1>1. SessionsTypeOK
  BY DEF SessionsInit, SessionsTypeOK
<1>2. SessionData
  BY DEF SessionsInit, SessionData, LoopSteps, UiStates
<1>3. OneLoop
  BY DEF SessionsInit, OneLoop, Active
<1>4. StoppedIsEmpty
  BY DEF SessionsInit, StoppedIsEmpty
<1> QED  BY <1>1, <1>2, <1>3, <1>4 DEF SessionsInv

(* A loop that goes on touches its own interface and the record of its own *)
(* session.                                                                *)
LEMMA LoopMoves ==
  ASSUME SessionsInv, NEW l \in UiLoops, loop[l].pc \notin {"unused", "done"},
         NEW pc \in LoopSteps \ {"unused"}, LoopGoes(l, pc),
         UNCHANGED <<phase, todo, logged, inbox, relogged>>, aliveSessions' \subseteq Sessions,
         procs' \in [Sessions -> UiLoops \cup {NoLoop}],
         \A s \in Sessions : s # loop[l].session => procs'[s] = procs[s],
         ui' \in [UiLoops -> UiStates], \A m \in UiLoops : m # l => ui'[m] = ui[m],
         ui'[l] # "none" => pc \in {"record", "wait", "forget"},
         pc = "forget" => ui'[l] # "running",
         pc = "wait" => procs'[loop[l].session] = l,
         listening' \subseteq UiLoops, told' \subseteq UiLoops
  PROVE  SessionsInv'
<1> DEFINE r == [loop[l] EXCEPT !.pc = pc]
<1>1. loop[l] \in [pc : LoopSteps, session : Sessions \cup {NoLoop}] /\ loop[l].session \in Sessions
  BY DEF SessionsInv, SessionData
<1>2. /\ r \in [pc : LoopSteps, session : Sessions \cup {NoLoop}] /\ r.pc = pc
      /\ r.session = loop[l].session
  BY <1>1
<1>3. loop' = [loop EXCEPT ![l] = r]
  BY DEF LoopGoes
<1> HIDE DEF r
<1>4. /\ loop' \in [UiLoops -> [pc : LoopSteps, session : Sessions \cup {NoLoop}]]
      /\ loop'[l] = r /\ \A m \in UiLoops : m # l => loop'[m] = loop[m]
  BY <1>2, <1>3 DEF SessionsInv, SessionData
<1>5. SessionData'
  BY <1>1, <1>2, <1>4 DEF SessionsInv, SessionData
<1>6. SessionsTypeOK'
  <2>1. \A m \in UiLoops : /\ loop'[m].session \in Sessions \cup {NoLoop}
                           /\ ui'[m] \in {"none", "running", "exited", "logoff"}
                           /\ ui'[m] # "none" => loop'[m].pc \in {"record", "wait", "forget"}
    BY <1>1, <1>2, <1>4 DEF SessionsInv, SessionsTypeOK, UiStates
  <2> QED  BY <2>1 DEF SessionsInv, SessionsTypeOK
<1>7. OneLoop'
  <2> SUFFICES ASSUME NEW s \in Sessions \ relogged
               PROVE  /\ \A m, n \in Active(s)' : m = n
                      /\ \A m \in UiLoops : loop'[m].session = s
                           /\ loop'[m].pc = "wait" => procs'[s] = m
    BY DEF OneLoop
  <2>1. Active(s)' \subseteq Active(s)
    BY <1>2, <1>4 DEF Active
  <2>2. \A m \in UiLoops : loop'[m].session = s /\ loop'[m].pc = "wait" => procs'[s] = m
    <3> SUFFICES ASSUME NEW m \in UiLoops, loop'[m].session = s, loop'[m].pc = "wait"
                 PROVE  procs'[s] = m
      OBVIOUS
    <3>1. CASE m = l
      BY <1>2, <1>4, <3>1
    <3>2. CASE m # l
      <4>1. m \in Active(s) /\ procs[s] = m
        BY <1>4, <3>2 DEF SessionsInv, OneLoop, Active
      <4>2. s # loop[l].session
        BY <3>2, <4>1 DEF SessionsInv, OneLoop, Active
      <4> QED  BY <4>1, <4>2
    <3> QED  BY <3>1, <3>2
  <2> QED  BY <2>1, <2>2 DEF SessionsInv, OneLoop
<1>8. StoppedIsEmpty'
  BY DEF SessionsInv, StoppedIsEmpty
<1> QED  BY <1>5, <1>6, <1>7, <1>8 DEF SessionsInv

(* A step of the service or of Windows that starts no loop and no interface. *)
LEMMA UisMove ==
  ASSUME SessionsInv, UNCHANGED <<loop, procs, relogged>>,
         phase' \in {"starting", "running", "waiting", "stopped", "uninstalled", "failed"},
         phase' \in {"stopped", "uninstalled", "failed"} =>
           \A l \in UiLoops : loop[l].pc \in {"unused", "done"},
         todo' \subseteq Sessions, logged' \subseteq Sessions, aliveSessions' \subseteq Sessions,
         inbox' \in Seq({"logon", "logoff"} \X Sessions),
         ui' \in [UiLoops -> UiStates],
         \A l \in UiLoops : /\ ui'[l] # "none" => ui[l] # "none"
                            /\ ui'[l] = "running" => ui[l] = "running",
         listening' \subseteq UiLoops, told' \subseteq UiLoops
  PROVE  SessionsInv'
<1>1. SessionData'
  BY DEF SessionsInv, SessionData
<1>2. SessionsTypeOK'
  BY DEF SessionsInv, SessionsTypeOK, UiStates
<1>3. OneLoop'
  BY DEF SessionsInv, OneLoop, Active
<1>4. StoppedIsEmpty'
  BY <1>2 DEF SessionsTypeOK, StoppedIsEmpty
<1> QED  BY <1>1, <1>2, <1>3, <1>4 DEF SessionsInv

(* A session that appears gets a loop of its own, if nothing is left of an *)
(* earlier one.                                                            *)
LEMMA AppearsStep ==
  ASSUME SessionsInv, NEW s \in Sessions, Appears(s), phase \in {"starting", "running"},
         UNCHANGED <<phase, procs, ui, listening, told, logged>>, todo' \subseteq Sessions,
         inbox' \in Seq({"logon", "logoff"} \X Sessions)
  PROVE  SessionsInv'
<1>1. /\ relogged' = IF Active(s) # {} THEN relogged \cup {s} ELSE relogged
      /\ aliveSessions' = aliveSessions \cup {s} /\ aliveSessions \subseteq Sessions
  BY DEF Appears, SessionsInv, SessionsTypeOK
<1>2. StoppedIsEmpty'
  BY DEF StoppedIsEmpty
<1>3. CASE UNCHANGED loop
  <2>1. SessionData' /\ SessionsTypeOK'
    BY <1>1, <1>3 DEF SessionsInv, SessionData, SessionsTypeOK
  <2>2. OneLoop'
    BY <1>1, <1>3 DEF SessionsInv, OneLoop, Active
  <2> QED  BY <1>2, <2>1, <2>2 DEF SessionsInv
<1>4. ASSUME NEW l \in UiLoops, loop[l].pc = "unused",
             loop' = [loop EXCEPT ![l] = [pc |-> "token", session |-> s]]
      PROVE  SessionsInv'
  <2>1. /\ loop' \in [UiLoops -> [pc : LoopSteps, session : Sessions \cup {NoLoop}]]
        /\ loop'[l].pc = "token" /\ loop'[l].session = s
        /\ \A m \in UiLoops : m # l => loop'[m] = loop[m]
    BY <1>4 DEF SessionsInv, SessionData, LoopSteps
  <2>2. ui[l] = "none"
    BY <1>4 DEF SessionsInv, SessionsTypeOK
  <2>3. SessionData'
    BY <2>1 DEF SessionsInv, SessionData
  <2>4. SessionsTypeOK'
    BY <1>1, <2>1, <2>2 DEF SessionsInv, SessionsTypeOK
  <2>5. OneLoop'
    <3> SUFFICES ASSUME NEW r \in Sessions \ relogged'
                 PROVE  /\ \A m, n \in Active(r)' : m = n
                        /\ \A m \in UiLoops :
                             loop'[m].session = r /\ loop'[m].pc = "wait" => procs'[r] = m
      BY DEF OneLoop
    <3>1. r \notin relogged /\ (r = s => Active(s) = {})
      BY <1>1
    <3>2. \A m \in UiLoops : loop'[m].session = r /\ loop'[m].pc = "wait" => procs'[r] = m
      BY <2>1, <3>1 DEF SessionsInv, OneLoop
    <3>3. \A m \in Active(r)' : m = l \/ m \in Active(r)
      BY <2>1 DEF Active
    <3>4. l \in Active(r)' => r = s
      BY <2>1 DEF Active
    <3>5. \A m, n \in Active(r) : m = n
      BY <3>1 DEF SessionsInv, OneLoop
    <3>6. CASE r = s
      BY <3>1, <3>2, <3>3, <3>6
    <3>7. CASE r # s
      BY <3>2, <3>3, <3>4, <3>5, <3>7
    <3> QED  BY <3>6, <3>7
  <2> QED  BY <1>2, <2>3, <2>4, <2>5 DEF SessionsInv
<1> QED  BY <1>3, <1>4 DEF Appears

(* Every step of a respawn loop. *)
LEMMA LoopStepInv ==
  ASSUME SessionsInv, NEW l \in UiLoops, LoopStep(l) \/ GivesUp(l)
  PROVE  SessionsInv'
<1> USE DEF shared, outside, sessionHistory
<1>0. /\ loop[l].session \in Sessions \cup {NoLoop} /\ aliveSessions \subseteq Sessions
      /\ procs \in [Sessions -> UiLoops \cup {NoLoop}] /\ ui \in [UiLoops -> UiStates]
      /\ listening \subseteq UiLoops /\ told \subseteq UiLoops
      /\ ui[l] # "none" => loop[l].pc \in {"record", "wait", "forget"}
      /\ loop[l].pc # "unused" => loop[l].session \in Sessions
      /\ loop[l].pc = "forget" => ui[l] # "running"
  BY DEF SessionsInv, SessionsTypeOK, SessionData
<1>1. CASE TokenChecked(l) \/ TopOfLoop(l) \/ LooksAlive(l) \/ OpensPipes(l)
  <2>1. PICK pc \in {"top", "exit", "alive", "pipes", "launch"} : LoopGoes(l, pc)
    BY <1>1 DEF TokenChecked, TopOfLoop, LooksAlive, OpensPipes
  <2>2. /\ UNCHANGED <<phase, todo, logged, inbox, relogged, aliveSessions, procs, ui,
                       listening, told>>
        /\ loop[l].pc \in {"token", "top", "alive", "pipes"}
    BY <1>1 DEF TokenChecked, TopOfLoop, LooksAlive, OpensPipes
  <2> QED  BY <1>0, <2>1, <2>2, LoopMoves DEF LoopSteps
<1>2. CASE Launches(l)
  <2>1. UNCHANGED <<phase, todo, logged, inbox, relogged, aliveSessions, procs, told>>
        /\ loop[l].pc = "launch"
    BY <1>2 DEF Launches
  <2>2. CASE LoopGoes(l, "record") /\ ui' = [ui EXCEPT ![l] = "running"] /\ UNCHANGED listening
    <3>1. ui' \in [UiLoops -> UiStates] /\ ui'[l] = "running"
          /\ \A m \in UiLoops : m # l => ui'[m] = ui[m]
      BY <1>0, <2>2 DEF UiStates
    <3> QED  BY <1>0, <2>1, <2>2, <3>1, LoopMoves DEF LoopSteps
  <2>3. CASE LoopGoes(l, "exit") /\ listening' = listening \ {l} /\ UNCHANGED ui
    BY <1>0, <2>1, <2>3, LoopMoves DEF LoopSteps
  <2> QED  BY <1>2, <2>2, <2>3 DEF Launches
<1>3. CASE GivesUp(l)
  <2>1. /\ UNCHANGED <<phase, todo, logged, inbox, relogged, aliveSessions, procs, ui, told>>
        /\ loop[l].pc \in {"token", "pipes", "launch"} /\ LoopGoes(l, "exit")
        /\ listening' = listening \ {l}
    BY <1>3 DEF GivesUp
  <2> QED  BY <1>0, <2>1, LoopMoves DEF LoopSteps
<1>4. CASE RecordsProcess(l)
  <2>1. /\ UNCHANGED <<phase, todo, logged, inbox, relogged, aliveSessions, ui, listening, told>>
        /\ loop[l].pc = "record" /\ LoopGoes(l, "wait")
        /\ procs' = [procs EXCEPT ![loop[l].session] = l]
    BY <1>4 DEF RecordsProcess
  <2>2. /\ procs' \in [Sessions -> UiLoops \cup {NoLoop}] /\ procs'[loop[l].session] = l
        /\ \A s \in Sessions : s # loop[l].session => procs'[s] = procs[s]
    BY <1>0, <2>1
  <2> QED  BY <1>0, <2>1, <2>2, LoopMoves DEF LoopSteps
<1>5. CASE WaitReturns(l)
  <2>1. /\ UNCHANGED <<phase, todo, logged, inbox, relogged, aliveSessions, procs, ui,
                       listening, told>>
        /\ loop[l].pc = "wait" /\ LoopGoes(l, "forget") /\ ui[l] # "running"
    BY <1>5 DEF WaitReturns
  <2> QED  BY <1>0, <2>1, LoopMoves DEF LoopSteps
<1>6. CASE ForgetsProcess(l)
  <2>1. /\ UNCHANGED <<phase, todo, logged, inbox, relogged, aliveSessions>>
        /\ loop[l].pc = "forget" /\ (LoopGoes(l, "exit") \/ LoopGoes(l, "top"))
        /\ procs' = [procs EXCEPT ![loop[l].session] = NoLoop] /\ ui' = [ui EXCEPT ![l] = "none"]
        /\ listening' = listening \ {l} /\ told' = told \ {l}
    BY <1>6 DEF ForgetsProcess
  <2>2. /\ procs' \in [Sessions -> UiLoops \cup {NoLoop}]
        /\ \A s \in Sessions : s # loop[l].session => procs'[s] = procs[s]
    BY <1>0, <2>1
  <2>3. ui' \in [UiLoops -> UiStates] /\ ui'[l] = "none"
        /\ \A m \in UiLoops : m # l => ui'[m] = ui[m]
    BY <1>0, <2>1 DEF UiStates
  <2> QED  BY <1>0, <2>1, <2>2, <2>3, LoopMoves DEF LoopSteps
<1>7. CASE LoopEnds(l)
  <2>1. /\ UNCHANGED <<phase, todo, logged, inbox, relogged, procs, ui, listening, told>>
        /\ loop[l].pc = "exit" /\ LoopGoes(l, "done")
        /\ aliveSessions' = aliveSessions \ {loop[l].session}
    BY <1>7 DEF LoopEnds
  <2> QED  BY <1>0, <2>1, LoopMoves DEF LoopSteps
<1> QED  BY <1>1, <1>2, <1>3, <1>4, <1>5, <1>6, <1>7 DEF LoopStep

(* The service, Windows and the interfaces themselves. *)
LEMMA ServiceLoopInv ==
  ASSUME SessionsInv,
         \/ SessionStep \/ StartFails \/ Stops
         \/ \E l \in UiLoops : Listens(l) \/ UiExits(l) \/ UiObeys(l) \/ UiLosesSession(l)
         \/ \E s \in Sessions, event \in {"logon", "logoff"} : SessionChanges(s, event)
  PROVE  SessionsInv'
<1> USE DEF shared, outside, sessionHistory
<1>0. /\ aliveSessions \subseteq Sessions /\ todo \subseteq Sessions /\ logged \subseteq Sessions
      /\ inbox \in Seq({"logon", "logoff"} \X Sessions) /\ ui \in [UiLoops -> UiStates]
      /\ listening \subseteq UiLoops /\ told \subseteq UiLoops
      /\ phase \in {"starting", "running", "waiting", "stopped", "uninstalled", "failed"}
      /\ phase \in {"stopped", "uninstalled", "failed"} =>
           \A l \in UiLoops : loop[l].pc \in {"unused", "done"}
  BY DEF SessionsInv, SessionsTypeOK, SessionData, StoppedIsEmpty
<1>1. ASSUME NEW s \in Sessions, EnumeratesSession(s) PROVE SessionsInv'
  BY <1>0, <1>1, AppearsStep DEF EnumeratesSession
<1>2. inbox # <<>> => /\ Head(inbox)[1] \in {"logon", "logoff"} /\ Head(inbox)[2] \in Sessions
                      /\ Tail(inbox) \in Seq({"logon", "logoff"} \X Sessions)
  <2>1. inbox # <<>> => /\ Head(inbox) \in {"logon", "logoff"} \X Sessions
                        /\ Tail(inbox) \in Seq({"logon", "logoff"} \X Sessions)
    BY <1>0
  <2> QED  BY <2>1
<1>3. CASE HandlesLogon
  BY <1>0, <1>2, <1>3, AppearsStep DEF HandlesLogon
<1>4. CASE HandlesLogoff
  <2> DEFINE s == Head(inbox)[2]
  <2>1. /\ UNCHANGED <<phase, todo, procs, loop, listening, told, logged, relogged>>
        /\ phase = "running" /\ aliveSessions' = aliveSessions \ {s}
        /\ inbox' \in Seq({"logon", "logoff"} \X Sessions)
        /\ ui' = [l \in UiLoops |-> IF procs[s] = l THEN Killed(ui[l]) ELSE ui[l]]
    BY <1>2, <1>4 DEF HandlesLogoff
  <2> HIDE DEF s
  <2>2. /\ ui' \in [UiLoops -> UiStates]
        /\ \A l \in UiLoops : /\ ui'[l] # "none" => ui[l] # "none"
                              /\ ui'[l] = "running" => ui[l] = "running"
    BY <1>0, <2>1 DEF Killed, UiStates
  <2> QED  BY <1>0, <2>1, <2>2, UisMove
<1>5. CASE Stops
  <2>1. /\ UNCHANGED <<todo, aliveSessions, procs, loop, listening, logged, inbox, relogged>>
        /\ phase' = "waiting" /\ told' = listening
        /\ ui' = [l \in UiLoops |-> IF \E s \in Sessions : procs[s] = l THEN Killed(ui[l]) ELSE ui[l]]
    BY <1>5 DEF Stops
  <2>2. /\ ui' \in [UiLoops -> UiStates]
        /\ \A l \in UiLoops : /\ ui'[l] # "none" => ui[l] # "none"
                              /\ ui'[l] = "running" => ui[l] = "running"
    BY <1>0, <2>1 DEF Killed, UiStates
  <2> QED  BY <1>0, <2>1, <2>2, UisMove
<1>6. CASE Runs \/ StartFails \/ \E final \in {"stopped", "uninstalled"} : ManagerEnds(final)
  <2>1. /\ UNCHANGED <<todo, aliveSessions, procs, loop, ui, listening, told, logged, inbox,
                       relogged>>
        /\ phase' \in {"running", "failed", "stopped", "uninstalled"}
        /\ phase' # "running" => \A l \in UiLoops : loop[l].pc \in {"unused", "done"}
    BY <1>6 DEF Runs, StartFails, ManagerEnds
  <2> QED  BY <1>0, <2>1, UisMove
<1>7. ASSUME NEW l \in UiLoops, Listens(l) PROVE SessionsInv'
  <2>1. /\ UNCHANGED <<phase, todo, aliveSessions, procs, loop, ui, told, logged, inbox, relogged>>
        /\ listening' = listening \cup {l}
    BY <1>7 DEF Listens
  <2> QED  BY <1>0, <2>1, UisMove
<1>8. ASSUME NEW l \in UiLoops, UiExits(l) \/ UiObeys(l) \/ UiLosesSession(l) PROVE SessionsInv'
  <2>1. PICK how \in {"exited", "logoff"} : UiEnds(l, how)
    BY <1>8 DEF UiExits, UiObeys, UiLosesSession
  <2>2. /\ UNCHANGED <<phase, todo, aliveSessions, procs, loop, listening, told, logged,
                       inbox, relogged>>
        /\ ui[l] = "running" /\ ui' = [ui EXCEPT ![l] = how]
    BY <2>1 DEF UiEnds
  <2>3. /\ ui' \in [UiLoops -> UiStates]
        /\ \A m \in UiLoops : /\ ui'[m] # "none" => ui[m] # "none"
                              /\ ui'[m] = "running" => ui[m] = "running"
    BY <1>0, <2>2 DEF UiStates
  <2> QED  BY <1>0, <2>2, <2>3, UisMove
<1>9. ASSUME NEW s \in Sessions, NEW event \in {"logon", "logoff"}, SessionChanges(s, event)
      PROVE  SessionsInv'
  <2>1. /\ UNCHANGED <<phase, todo, aliveSessions, procs, loop, ui, listening, told, relogged>>
        /\ logged' \in {logged \cup {s}, logged \ {s}}
        /\ inbox' \in {inbox, Append(inbox, <<event, s>>)}
    BY <1>9 DEF SessionChanges
  <2>2. Append(inbox, <<event, s>>) \in Seq({"logon", "logoff"} \X Sessions)
    BY <1>0
  <2> QED  BY <1>0, <2>1, <2>2, UisMove
<1> QED  BY <1>1, <1>3, <1>4, <1>5, <1>6, <1>7, <1>8, <1>9 DEF SessionStep

(* Every step of the manager keeps the invariant. *)
LEMMA SessionsStepInv == SessionsInv /\ [SessionsNext]_sessionVars => SessionsInv'
<1> SUFFICES ASSUME SessionsInv, [SessionsNext]_sessionVars PROVE SessionsInv'
  OBVIOUS
<1>1. CASE SessionsNext
  BY <1>1, LoopStepInv, ServiceLoopInv DEF SessionsNext
<1>2. CASE UNCHANGED sessionVars
  BY <1>2 DEF sessionVars, SessionsInv, SessionsTypeOK, SessionData, OneLoop, Active, StoppedIsEmpty
<1> QED  BY <1>1, <1>2

(* One loop has at most one interface. *)
LEMMA OneLoopOneUi == SessionsInv => OneUiPerSession
<1> SUFFICES ASSUME SessionsInv, NEW s \in Sessions \ relogged
             PROVE  /\ Cardinality(RunningUis(s)) <= 1
                    /\ \A l \in RunningUis(s) : procs[s] = l \/ loop[l].pc = "record"
  BY DEF OneUiPerSession
<1>1. \A l \in RunningUis(s) : l \in Active(s) /\ loop[l].pc \in {"record", "wait"}
  BY DEF SessionsInv, SessionsTypeOK, SessionData, RunningUis, Active
<1>2. \A l, m \in RunningUis(s) : l = m
  BY <1>1 DEF SessionsInv, OneLoop
<1>3. \A l \in RunningUis(s) : procs[s] = l \/ loop[l].pc = "record"
  BY <1>1 DEF SessionsInv, OneLoop, RunningUis
<1>4. CASE RunningUis(s) = {}
  BY <1>3, <1>4, FS_EmptySet
<1>5. CASE RunningUis(s) # {}
  <2>1. PICK l : RunningUis(s) = {l}
    BY <1>2, <1>5
  <2> QED  BY <1>3, <2>1, FS_Singleton
<1> QED  BY <1>4, <1>5

(* Whatever logs on, exits, crashes or fails, and for any number of        *)
(* sessions and loops: a session has one user interface at most, which a   *)
(* logoff can find, unless two logons of it overlapped; and a manager that *)
(* has stopped has left none (manager/service.go:60-345).                  *)
THEOREM SessionsAreSafe == SessionsSpec => []SessionsSafe
<1>1. SessionsInv => SessionsSafe
  BY OneLoopOneUi DEF SessionsInv, SessionsSafe
<1> QED  BY SessionsInitInv, SessionsStepInv, <1>1, PTL DEF SessionsSpec
=============================================================================
