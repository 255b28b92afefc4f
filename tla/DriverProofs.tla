--------------------------- MODULE DriverProofs ----------------------------
(***************************************************************************)
(* The manager's handles to adapters and the library of the driver, for    *)
(* any number of callers, calls, threads, procedures and failing steps.    *)
(*                                                                         *)
(* A handle in use is open because it is the one in the map: it can leave  *)
(* the map only with its mutex free, and between finding and locking it    *)
(* the map is locked (Lookups).  That no number is given to two handles    *)
(* needs a count of the calls that may still open one (RoomLeft).          *)
(*                                                                         *)
(* A load that fails gives back everything, because at each of its steps   *)
(* only some things are acquired, and the image always when the range is   *)
(* (Progress).                                                             *)
(***************************************************************************)
EXTENDS DriverAdapters, DriverLibrary, TLAPS, FiniteSetTheorems

CallerPcs == {"idle", "find", "look", "take", "find again", "use", "tracker", "release"}

AdapterTypes ==
    /\ life \in Nat /\ entry \in AdapterIds \cup {NoAdapter}
    /\ opened \in [AdapterIds -> Nat] /\ closed \subseteq AdapterIds
    /\ mutex \in [AdapterIds -> AdapterCallers \cup {NoCaller}]
    /\ readers \subseteq AdapterCallers /\ queued \subseteq AdapterCallers
    /\ lockWriter \in AdapterCallers \cup {NoCaller} /\ adapterCalls \in Nat
    /\ caller \in [AdapterCallers -> [pc : CallerPcs, id : AdapterIds \cup {NoAdapter}]]

(* The readers-writer lock, and who holds or waits for it.                 *)
LockInv ==
    /\ lockWriter # NoCaller => readers = {}
    /\ queued \cap (readers \cup {lockWriter}) = {}
    /\ \A c \in AdapterCallers :
         /\ c \in readers => caller[c].pc \in {"look", "take"}
         /\ CallerAt(c, "look") => c \in readers
         /\ c \in queued => caller[c].pc \in {"find again", "release"}
         /\ lockWriter = c => caller[c].pc \in {"find again", "release", "take"}

(* Whoever has found a handle keeps the lock until he has its mutex; then  *)
(* the mutex keeps it in the map.                                          *)
Lookups ==
    \A c \in AdapterCallers :
        /\ CallerAt(c, "take") => /\ c \in readers \/ lockWriter = c
                                  /\ caller[c].id = entry /\ entry # NoAdapter
        /\ CallerAt(c, "use") => /\ caller[c].id = entry /\ entry # NoAdapter
                                 /\ mutex[entry] = c

OpenHandles ==
    /\ closed \subseteq {id \in AdapterIds : opened[id] # 0}
    /\ entry # NoAdapter => opened[entry] # 0 /\ entry \notin closed
    /\ NoAdapterLeaks

(* The handles are numbered in the order they were opened, and there are   *)
(* numbers for all that are still to come.                                 *)
Finders == {c \in AdapterCallers : caller[c].pc \in {"find", "look", "find again"}}
RoomLeft ==
    /\ IsFiniteSet(Finders)
    /\ \E n \in 0 .. MaxAdapterCalls :
         /\ {id \in AdapterIds : opened[id] # 0} = 1 .. n
         /\ n + Cardinality(Finders) + adapterCalls <= MaxAdapterCalls

AdapterInv == AdapterTypes /\ LockInv /\ Lookups /\ OpenHandles /\ RoomLeft

(* What a step does to the count.                                          *)
LEMMA RoomKept ==
    ASSUME AdapterTypes, RoomLeft, UNCHANGED opened, adapterCalls' \in Nat,
           \/ Finders' \subseteq Finders /\ adapterCalls' <= adapterCalls
           \/ \E c \in AdapterCallers : Finders' \subseteq Finders \cup {c} /\ adapterCalls' = adapterCalls - 1
    PROVE  RoomLeft'
<1>1. PICK n \in 0 .. MaxAdapterCalls :
         /\ {id \in AdapterIds : opened[id] # 0} = 1 .. n
         /\ n + Cardinality(Finders) + adapterCalls <= MaxAdapterCalls
  BY DEF RoomLeft
<1>2. IsFiniteSet(Finders) /\ Cardinality(Finders) \in Nat
  BY FS_CardinalityType DEF RoomLeft
<1>3. MaxAdapterCalls \in Nat /\ adapterCalls \in Nat
  BY AdaptersAssumption DEF AdaptersAssumption, AdapterTypes
<1>4. CASE Finders' \subseteq Finders /\ adapterCalls' <= adapterCalls
  <2>1. IsFiniteSet(Finders') /\ Cardinality(Finders') <= Cardinality(Finders) /\ Cardinality(Finders') \in Nat
    <3>1. Finders' \in SUBSET Finders
      BY <1>4
    <3>2. IsFiniteSet(Finders') /\ Cardinality(Finders') <= Cardinality(Finders)
      BY <1>2, <3>1, FS_Subset
    <3> QED  BY <3>2, FS_CardinalityType
  <2>2. n + Cardinality(Finders') + adapterCalls' <= MaxAdapterCalls
    BY <1>1, <1>2, <1>3, <1>4, <2>1
  <2> QED  BY <1>1, <2>1, <2>2 DEF RoomLeft
<1>5. ASSUME NEW c \in AdapterCallers, Finders' \subseteq Finders \cup {c}, adapterCalls' = adapterCalls - 1
      PROVE  RoomLeft'
  <2>1. IsFiniteSet(Finders \cup {c}) /\ Cardinality(Finders \cup {c}) <= Cardinality(Finders) + 1
        /\ Cardinality(Finders \cup {c}) \in Nat
    <3>1. /\ IsFiniteSet(Finders \cup {c})
          /\ \/ Cardinality(Finders \cup {c}) = Cardinality(Finders)
             \/ Cardinality(Finders \cup {c}) = Cardinality(Finders) + 1
      BY <1>2, FS_AddElement
    <3> QED  BY <1>2, <3>1
  <2>2. /\ IsFiniteSet(Finders') /\ Cardinality(Finders') <= Cardinality(Finders \cup {c})
        /\ Cardinality(Finders') \in Nat
    BY <1>5, <2>1, FS_Subset, FS_CardinalityType
  <2>3. n + Cardinality(Finders') + adapterCalls' <= MaxAdapterCalls
    BY <1>1, <1>2, <1>3, <1>5, <2>1, <2>2
  <2> QED  BY <1>1, <2>2, <2>3 DEF RoomLeft
<1> QED  BY <1>4, <1>5

(* The next number is free, and one of the numbers there are.              *)
LEMMA NextNumber ==
    ASSUME AdapterTypes, RoomLeft, NEW c \in Finders
    PROVE  /\ NewAdapter \in AdapterIds /\ opened[NewAdapter] = 0
           /\ \A l \in Nat \ {0} :
                opened' = [opened EXCEPT ![NewAdapter] = l] /\ Finders' = Finders \ {c}
                  /\ UNCHANGED adapterCalls => RoomLeft'
<1>1. PICK n \in 0 .. MaxAdapterCalls :
         /\ {id \in AdapterIds : opened[id] # 0} = 1 .. n
         /\ n + Cardinality(Finders) + adapterCalls <= MaxAdapterCalls
  BY DEF RoomLeft
<1>2. IsFiniteSet(Finders) /\ Cardinality(Finders) \in Nat /\ Cardinality(Finders) >= 1
  <2>1. IsFiniteSet(Finders) /\ Cardinality(Finders) \in Nat
    BY FS_CardinalityType DEF RoomLeft
  <2>2. Cardinality(Finders) # 0
    BY <2>1, FS_EmptySet
  <2> QED  BY <2>1, <2>2
<1>3. MaxAdapterCalls \in Nat /\ adapterCalls \in Nat /\ n \in Nat
  BY AdaptersAssumption, <1>1 DEF AdaptersAssumption, AdapterTypes
<1>4. n + 1 <= MaxAdapterCalls
  BY <1>1, <1>2, <1>3
<1>5. Cardinality(1 .. n) = n
  BY <1>3, FS_Interval
<1>6. NewAdapter = n + 1
  BY <1>1, <1>5 DEF NewAdapter
<1>7. NewAdapter \in AdapterIds /\ NewAdapter \notin 1 .. n
  BY <1>3, <1>4, <1>6 DEF AdapterIds
<1>8. opened[NewAdapter] = 0
  BY <1>1, <1>7
<1>9. ASSUME NEW l \in Nat \ {0}, opened' = [opened EXCEPT ![NewAdapter] = l],
             Finders' = Finders \ {c}, UNCHANGED adapterCalls
      PROVE  RoomLeft'
  <2>1. \A id \in AdapterIds : opened'[id] # 0 <=> opened[id] # 0 \/ id = n + 1
    BY <1>6, <1>9 DEF AdapterTypes
  <2>2. {id \in AdapterIds : opened'[id] # 0} = 1 .. (n + 1)
    <3>1. n + 1 \in AdapterIds
      BY <1>6, <1>7
    <3>2. \A id \in AdapterIds : opened'[id] # 0 <=> id \in 1 .. n \/ id = n + 1
      BY <1>1, <2>1
    <3>3. 1 .. (n + 1) \subseteq AdapterIds /\ 1 .. (n + 1) = (1 .. n) \cup {n + 1}
      BY <1>3, <3>1 DEF AdapterIds
    <3> QED  BY <3>2, <3>3
  <2>3. IsFiniteSet(Finders') /\ Cardinality(Finders') = Cardinality(Finders) - 1
    BY <1>2, <1>9, FS_RemoveElement
  <2>4. n + 1 + Cardinality(Finders') + adapterCalls' <= MaxAdapterCalls /\ n + 1 \in 0 .. MaxAdapterCalls
    BY <1>1, <1>2, <1>3, <1>4, <1>9, <2>3
  <2> QED  BY <2>2, <2>3, <2>4 DEF RoomLeft
<1> QED  BY <1>7, <1>8, <1>9

(* A caller goes on to pc: who else is where does not change.              *)
LEMMA CallerMoves ==
    ASSUME AdapterTypes, NEW c \in AdapterCallers, NEW pc \in CallerPcs, NEW id \in AdapterIds \cup {NoAdapter},
           caller' = [caller EXCEPT ![c] = [pc |-> pc, id |-> id]]
    PROVE  /\ caller' \in [AdapterCallers -> [pc : CallerPcs, id : AdapterIds \cup {NoAdapter}]]
           /\ caller'[c].pc = pc /\ caller'[c].id = id
           /\ \A d \in AdapterCallers : d # c => caller'[d] = caller[d]
           /\ pc \notin {"find", "look", "find again"} => Finders' = Finders \ {c}
           /\ pc \in {"find", "look", "find again"} => Finders' = Finders \cup {c}
<1>1. /\ caller' \in [AdapterCallers -> [pc : CallerPcs, id : AdapterIds \cup {NoAdapter}]]
      /\ caller'[c] = [pc |-> pc, id |-> id]
      /\ \A d \in AdapterCallers : d # c => caller'[d] = caller[d]
  BY DEF AdapterTypes
<1>2. caller'[c].pc = pc /\ caller'[c].id = id
  BY <1>1
<1> QED  BY <1>1, <1>2 DEF Finders

(* Moved leaves the handle a caller has found.                             *)
LEMMA CallerMoved ==
    ASSUME AdapterTypes, NEW c \in AdapterCallers, NEW pc
    PROVE  Moved(c, pc) => caller' = [caller EXCEPT ![c] = [pc |-> pc, id |-> caller[c].id]]
BY DEF AdapterTypes, Moved

(* Every step of a caller keeps the invariant.                             *)
LEMMA CallerStepInv ==
    ASSUME AdapterInv, NEW c \in AdapterCallers,
           CallerStep(c) \/ Calls(c, "find") \/ Calls(c, "tracker")
    PROVE  AdapterInv'
<1> DEFINE Finding == {"find", "look", "find again"}
<1>k. /\ AdapterTypes /\ LockInv /\ Lookups /\ OpenHandles /\ RoomLeft /\ c # NoCaller
      /\ caller[c].id \in AdapterIds \cup {NoAdapter} /\ NoAdapter \notin AdapterIds
      /\ NoCaller \notin AdapterCallers /\ NoCaller \notin queued /\ adapterCalls \in Nat
  BY AdaptersAssumption DEF AdapterInv, AdapterTypes, AdaptersAssumption, NoAdapter, AdapterIds
<1>m. ASSUME NEW pc \in CallerPcs, NEW id \in AdapterIds \cup {NoAdapter},
             caller' = [caller EXCEPT ![c] = [pc |-> pc, id |-> id]]
      PROVE  /\ caller' \in [AdapterCallers -> [pc : CallerPcs, id : AdapterIds \cup {NoAdapter}]]
             /\ caller'[c].pc = pc /\ caller'[c].id = id
             /\ \A d \in AdapterCallers : d # c => caller'[d] = caller[d]
             /\ pc \notin Finding => Finders' = Finders \ {c}
             /\ pc \in Finding => Finders' = Finders \cup {c}
             /\ caller[c].pc \in Finding \/ pc \notin Finding => Finders' \subseteq Finders
  <2>1. /\ caller' \in [AdapterCallers -> [pc : CallerPcs, id : AdapterIds \cup {NoAdapter}]]
        /\ caller'[c].pc = pc /\ caller'[c].id = id
        /\ \A d \in AdapterCallers : d # c => caller'[d] = caller[d]
        /\ pc \notin Finding => Finders' = Finders \ {c}
        /\ pc \in Finding => Finders' = Finders \cup {c}
    BY <1>k, <1>m, CallerMoves
  <2>2. caller[c].pc \in Finding => c \in Finders
    BY DEF Finders
  <2>3. caller[c].pc \in Finding \/ pc \notin Finding => Finders' \subseteq Finders
    BY <2>1, <2>2
  <2> QED  BY <2>1, <2>3
<1>p. \A pc : Moved(c, pc) => caller' = [caller EXCEPT ![c] = [pc |-> pc, id |-> caller[c].id]]
  BY <1>k, CallerMoved
<1>f. caller[c].pc \in Finding => c \in Finders
  BY DEF Finders
<1>r. Finders' \subseteq Finders /\ opened' = opened /\ adapterCalls' = adapterCalls => RoomLeft'
  BY <1>k, RoomKept
<1>o. UNCHANGED <<entry, opened, closed>> => OpenHandles'
  BY <1>k DEF OpenHandles, NoAdapterLeaks
<1>1. ASSUME NEW pc \in {"find", "tracker"}, Calls(c, pc) PROVE AdapterInv'
  <2>1. /\ CallerAt(c, "idle") /\ adapterCalls' = adapterCalls - 1 /\ adapterCalls > 0
        /\ caller' = [caller EXCEPT ![c] = [pc |-> pc, id |-> caller[c].id]]
        /\ UNCHANGED <<life, entry, opened, closed, mutex, readers, lockWriter, queued>>
    BY <1>1, <1>p DEF Calls, locks
  <2>2. /\ caller' \in [AdapterCallers -> [pc : CallerPcs, id : AdapterIds \cup {NoAdapter}]]
        /\ caller'[c].pc = pc /\ \A d \in AdapterCallers : d # c => caller'[d] = caller[d]
        /\ Finders' \subseteq Finders \cup {c}
    BY <1>k, <1>m, <2>1 DEF CallerPcs
  <2>3. AdapterTypes'
    BY <1>k, <2>1, <2>2 DEF AdapterTypes
  <2>4. LockInv' /\ Lookups'
    BY <1>k, <2>1, <2>2 DEF LockInv, Lookups, CallerAt
  <2>5. RoomLeft'
    BY <1>k, <2>1, <2>2, <2>3, RoomKept
  <2> QED  BY <1>o, <2>1, <2>2, <2>3, <2>4, <2>5 DEF AdapterInv
<1>2. CASE FindsReading(c)
  <2>1. /\ CallerAt(c, "find") /\ lockWriter = NoCaller /\ queued = {} /\ readers' = readers \cup {c}
        /\ caller' = [caller EXCEPT ![c] = [pc |-> "look", id |-> caller[c].id]]
        /\ UNCHANGED <<life, entry, opened, closed, mutex, lockWriter, queued, adapterCalls>>
    BY <1>2, <1>p DEF FindsReading
  <2>2. /\ caller' \in [AdapterCallers -> [pc : CallerPcs, id : AdapterIds \cup {NoAdapter}]]
        /\ caller'[c].pc = "look" /\ \A d \in AdapterCallers : d # c => caller'[d] = caller[d]
        /\ Finders' \subseteq Finders
    BY <1>k, <1>m, <2>1 DEF CallerPcs, CallerAt
  <2>3. AdapterTypes'
    BY <1>k, <2>1, <2>2 DEF AdapterTypes
  <2>4. LockInv' /\ Lookups'
    BY <1>k, <2>1, <2>2 DEF LockInv, Lookups, CallerAt
  <2>5. RoomLeft'
    BY <1>r, <2>1, <2>2
  <2> QED  BY <1>o, <2>1, <2>2, <2>3, <2>4, <2>5 DEF AdapterInv
<1>3. CASE FindsLooking(c)
  <2>1. /\ CallerAt(c, "look")
        /\ UNCHANGED <<life, entry, opened, closed, mutex, lockWriter, adapterCalls>>
    BY <1>3 DEF FindsLooking
  <2>2. CASE entry # NoAdapter
    <3>1. /\ caller' = [caller EXCEPT ![c] = [pc |-> "take", id |-> entry]]
          /\ UNCHANGED <<readers, queued>>
      BY <1>3, <2>2 DEF FindsLooking, Got
    <3>2. /\ caller' \in [AdapterCallers -> [pc : CallerPcs, id : AdapterIds \cup {NoAdapter}]]
          /\ caller'[c].pc = "take" /\ caller'[c].id = entry
          /\ \A d \in AdapterCallers : d # c => caller'[d] = caller[d]
          /\ Finders' \subseteq Finders
      BY <1>k, <1>m, <3>1 DEF CallerPcs, AdapterTypes
    <3>3. AdapterTypes'
      BY <1>k, <2>1, <3>1, <3>2 DEF AdapterTypes
    <3>4. LockInv' /\ Lookups'
      BY <1>k, <2>1, <2>2, <3>1, <3>2 DEF LockInv, Lookups, CallerAt
    <3>5. RoomLeft'
      BY <1>r, <2>1, <3>2
    <3> QED  BY <1>o, <2>1, <3>2, <3>3, <3>4, <3>5 DEF AdapterInv
  <2>3. CASE entry = NoAdapter
    <3>1. /\ caller' = [caller EXCEPT ![c] = [pc |-> "find again", id |-> caller[c].id]]
          /\ readers' = readers \ {c} /\ queued' = queued \cup {c}
      BY <1>3, <1>p, <2>3 DEF FindsLooking
    <3>2. /\ caller' \in [AdapterCallers -> [pc : CallerPcs, id : AdapterIds \cup {NoAdapter}]]
          /\ caller'[c].pc = "find again" /\ \A d \in AdapterCallers : d # c => caller'[d] = caller[d]
          /\ Finders' \subseteq Finders
      BY <1>k, <1>m, <2>1, <3>1 DEF CallerPcs, CallerAt
    <3>3. AdapterTypes'
      BY <1>k, <2>1, <3>1, <3>2 DEF AdapterTypes
    <3>4. LockInv' /\ Lookups'
      BY <1>k, <2>1, <2>3, <3>1, <3>2 DEF LockInv, Lookups, CallerAt
    <3>5. RoomLeft'
      BY <1>r, <2>1, <3>2
    <3> QED  BY <1>o, <2>1, <3>2, <3>3, <3>4, <3>5 DEF AdapterInv
  <2> QED  BY <2>2, <2>3
<1>4. CASE Takes(c)
  <2>1. /\ CallerAt(c, "take") /\ mutex' = [mutex EXCEPT ![caller[c].id] = c]
        /\ mutex[caller[c].id] = NoCaller
        /\ caller' = [caller EXCEPT ![c] = [pc |-> "use", id |-> caller[c].id]]
        /\ readers' = readers \ {c} /\ lockWriter' = (IF lockWriter = c THEN NoCaller ELSE lockWriter)
        /\ UNCHANGED <<life, entry, opened, closed, queued, adapterCalls>>
    BY <1>4, <1>p DEF Takes
  <2>2. /\ caller' \in [AdapterCallers -> [pc : CallerPcs, id : AdapterIds \cup {NoAdapter}]]
        /\ caller'[c].pc = "use" /\ caller'[c].id = caller[c].id
        /\ \A d \in AdapterCallers : d # c => caller'[d] = caller[d]
        /\ Finders' \subseteq Finders
    BY <1>k, <1>m, <2>1 DEF CallerPcs
  <2>3. caller[c].id = entry /\ entry # NoAdapter /\ entry \in AdapterIds
    BY <1>k, <2>1 DEF Lookups, CallerAt, AdapterTypes
  <2>4. AdapterTypes'
    BY <1>k, <2>1, <2>2, <2>3 DEF AdapterTypes
  <2>5. LockInv'
    BY <1>k, <2>1, <2>2 DEF LockInv, CallerAt
  <2>6. Lookups'
    <3>1. mutex'[entry] = c /\ \A d \in AdapterCallers : ~CallerAt(d, "use")
      BY <1>k, <2>1, <2>3 DEF Lookups, CallerAt, AdapterTypes
    <3> QED  BY <1>k, <2>1, <2>2, <2>3, <3>1 DEF Lookups, CallerAt
  <2>7. RoomLeft'
    BY <1>r, <2>1, <2>2
  <2> QED  BY <1>o, <2>1, <2>2, <2>4, <2>5, <2>6, <2>7 DEF AdapterInv
<1>5. CASE WritesLock(c)
  <2>1. /\ c \in queued /\ readers = {} /\ lockWriter = NoCaller /\ lockWriter' = c /\ queued' = queued \ {c}
        /\ UNCHANGED <<life, entry, opened, closed, mutex, readers, caller, adapterCalls>>
    BY <1>5 DEF WritesLock
  <2>2. AdapterTypes' /\ LockInv' /\ Lookups'
    BY <1>k, <2>1 DEF AdapterTypes, LockInv, Lookups, CallerAt
  <2>3. RoomLeft'
    BY <1>k, <2>1 DEF RoomLeft, Finders
  <2> QED  BY <1>o, <2>1, <2>2, <2>3 DEF AdapterInv
<1>6. CASE FindsAgain(c)
  <2>1. /\ CallerAt(c, "find again") /\ lockWriter = c
        /\ UNCHANGED <<life, closed, readers, queued, adapterCalls>>
    BY <1>6 DEF FindsAgain
  <2>2. CASE entry # NoAdapter
    <3>1. /\ caller' = [caller EXCEPT ![c] = [pc |-> "take", id |-> entry]]
          /\ UNCHANGED <<lockWriter, opened, entry, mutex>>
      BY <1>6, <2>2 DEF FindsAgain, Got
    <3>2. /\ caller' \in [AdapterCallers -> [pc : CallerPcs, id : AdapterIds \cup {NoAdapter}]]
          /\ caller'[c].pc = "take" /\ caller'[c].id = entry
          /\ \A d \in AdapterCallers : d # c => caller'[d] = caller[d]
          /\ Finders' \subseteq Finders
      BY <1>k, <1>m, <3>1 DEF CallerPcs, AdapterTypes
    <3>3. AdapterTypes'
      BY <1>k, <2>1, <3>1, <3>2 DEF AdapterTypes
    <3>4. LockInv' /\ Lookups'
      BY <1>k, <2>1, <2>2, <3>1, <3>2 DEF LockInv, Lookups, CallerAt
    <3>5. RoomLeft'
      BY <1>r, <2>1, <3>1, <3>2
    <3> QED  BY <1>o, <2>1, <3>1, <3>2, <3>3, <3>4, <3>5 DEF AdapterInv
  <2>3. CASE entry = NoAdapter /\ ~Alive(life)
    <3>1. /\ caller' = [caller EXCEPT ![c] = [pc |-> "idle", id |-> caller[c].id]]
          /\ lockWriter' = NoCaller /\ UNCHANGED <<opened, entry, mutex>>
      BY <1>6, <1>p, <2>3 DEF FindsAgain
    <3>2. /\ caller' \in [AdapterCallers -> [pc : CallerPcs, id : AdapterIds \cup {NoAdapter}]]
          /\ caller'[c].pc = "idle" /\ \A d \in AdapterCallers : d # c => caller'[d] = caller[d]
          /\ Finders' \subseteq Finders
      BY <1>k, <1>m, <3>1 DEF CallerPcs
    <3>3. AdapterTypes'
      BY <1>k, <2>1, <3>1, <3>2 DEF AdapterTypes
    <3>4. LockInv' /\ Lookups'
      <4>1. \A d \in AdapterCallers : ~CallerAt(d, "take")
        BY <1>k, <2>3 DEF Lookups
      <4>2. LockInv'
        BY <1>k, <2>1, <3>1, <3>2 DEF LockInv, CallerAt
      <4>3. Lookups'
        BY <1>k, <3>1, <3>2, <4>1 DEF Lookups, CallerAt
      <4> QED  BY <4>2, <4>3
    <3>5. RoomLeft'
      BY <1>r, <2>1, <3>1, <3>2
    <3> QED  BY <1>o, <2>1, <3>1, <3>2, <3>3, <3>4, <3>5 DEF AdapterInv
  <2>4. CASE entry = NoAdapter /\ Alive(life)
    <3> DEFINE new == NewAdapter
    <3>1. /\ caller' = [caller EXCEPT ![c] = [pc |-> "use", id |-> new]] /\ lockWriter' = NoCaller
          /\ opened' = [opened EXCEPT ![new] = life] /\ entry' = new
          /\ mutex' = [mutex EXCEPT ![new] = c]
      BY <1>6, <2>4 DEF FindsAgain, Got
    <3>2. life \in Nat \ {0}
      BY <1>k, <2>4 DEF Alive, AdapterTypes
    <3>3. c \in Finders
      BY <1>f, <2>1 DEF CallerAt
    <3>4. /\ new \in AdapterIds /\ opened[new] = 0
          /\ opened' = [opened EXCEPT ![new] = life] /\ Finders' = Finders \ {c}
               /\ UNCHANGED adapterCalls => RoomLeft'
      BY <1>k, <3>2, <3>3, NextNumber
    <3> HIDE DEF new
    <3>5. /\ caller' \in [AdapterCallers -> [pc : CallerPcs, id : AdapterIds \cup {NoAdapter}]]
          /\ caller'[c].pc = "use" /\ caller'[c].id = new
          /\ \A d \in AdapterCallers : d # c => caller'[d] = caller[d]
          /\ Finders' = Finders \ {c}
      BY <1>k, <1>m, <3>1, <3>4 DEF CallerPcs
    <3>6. AdapterTypes'
      BY <1>k, <2>1, <3>1, <3>2, <3>4, <3>5 DEF AdapterTypes
    <3>7. LockInv'
      BY <1>k, <2>1, <3>1, <3>5 DEF LockInv, CallerAt
    <3>8. Lookups'
      <4>1. \A d \in AdapterCallers : ~CallerAt(d, "use") /\ ~CallerAt(d, "take")
        BY <1>k, <2>4 DEF Lookups
      <4>2. mutex'[new] = c /\ new # NoAdapter
        BY <1>k, <3>1, <3>4 DEF AdapterTypes
      <4> QED  BY <3>1, <3>5, <4>1, <4>2 DEF Lookups, CallerAt
    <3>9. OpenHandles'
      <4>1. \A id \in AdapterIds : opened'[id] = IF id = new THEN life ELSE opened[id]
        BY <1>k, <3>1, <3>4 DEF AdapterTypes
      <4>2. new \notin closed
        BY <1>k, <3>4 DEF OpenHandles
      <4> QED  BY <1>k, <2>1, <2>4, <3>1, <3>2, <3>4, <4>1, <4>2 DEF OpenHandles, NoAdapterLeaks
    <3> QED  BY <2>1, <3>1, <3>4, <3>5, <3>6, <3>7, <3>8, <3>9 DEF AdapterInv
  <2> QED  BY <2>2, <2>3, <2>4
<1>7. CASE Uses(c)
  <2>1. PICK pc \in {"idle", "release"} :
          /\ CallerAt(c, "use") /\ mutex' = [mutex EXCEPT ![caller[c].id] = NoCaller]
          /\ caller' = [caller EXCEPT ![c] = [pc |-> pc, id |-> caller[c].id]]
          /\ queued' = queued \/ (pc = "release" /\ queued' = queued \cup {c})
          /\ UNCHANGED <<life, entry, opened, closed, readers, lockWriter, adapterCalls>>
    BY <1>7, <1>p DEF Uses
  <2>2. /\ caller' \in [AdapterCallers -> [pc : CallerPcs, id : AdapterIds \cup {NoAdapter}]]
        /\ caller'[c].pc = pc /\ \A d \in AdapterCallers : d # c => caller'[d] = caller[d]
        /\ Finders' \subseteq Finders
    BY <1>k, <1>m, <2>1 DEF CallerPcs
  <2>3. AdapterTypes'
    BY <1>k, <2>1, <2>2 DEF AdapterTypes
  <2>4. LockInv'
    BY <1>k, <2>1, <2>2 DEF LockInv, CallerAt
  <2>5. Lookups'
    <3>1. \A d \in AdapterCallers : d # c => ~CallerAt(d, "use")
      BY <1>k, <2>1 DEF Lookups
    <3> QED  BY <1>k, <2>1, <2>2, <3>1 DEF Lookups, CallerAt
  <2>6. RoomLeft'
    BY <1>r, <2>1, <2>2
  <2> QED  BY <1>o, <2>1, <2>2, <2>3, <2>4, <2>5, <2>6 DEF AdapterInv
<1>8. CASE TrackerReleases(c)
  <2>1. /\ CallerAt(c, "tracker") /\ queued' = queued \cup {c}
        /\ caller' = [caller EXCEPT ![c] = [pc |-> "release", id |-> caller[c].id]]
        /\ UNCHANGED <<life, entry, opened, closed, mutex, readers, lockWriter, adapterCalls>>
    BY <1>8, <1>p DEF TrackerReleases
  <2>2. /\ caller' \in [AdapterCallers -> [pc : CallerPcs, id : AdapterIds \cup {NoAdapter}]]
        /\ caller'[c].pc = "release" /\ \A d \in AdapterCallers : d # c => caller'[d] = caller[d]
        /\ Finders' \subseteq Finders
    BY <1>k, <1>m, <2>1 DEF CallerPcs
  <2>3. AdapterTypes'
    BY <1>k, <2>1, <2>2 DEF AdapterTypes
  <2>4. LockInv' /\ Lookups'
    <3>1. c \notin readers /\ lockWriter # c
      BY <1>k, <2>1 DEF LockInv, CallerAt
    <3>2. LockInv'
      BY <1>k, <2>1, <2>2, <3>1 DEF LockInv, CallerAt
    <3>3. Lookups'
      BY <1>k, <2>1, <2>2 DEF Lookups, CallerAt
    <3> QED  BY <3>2, <3>3
  <2>5. RoomLeft'
    BY <1>r, <2>1, <2>2
  <2> QED  BY <1>o, <2>1, <2>2, <2>3, <2>4, <2>5 DEF AdapterInv
<1>9. CASE Releases(c)
  <2>1. /\ CallerAt(c, "release") /\ lockWriter = c /\ lockWriter' = NoCaller
        /\ caller' = [caller EXCEPT ![c] = [pc |-> "idle", id |-> caller[c].id]]
        /\ entry # NoAdapter => mutex[entry] = NoCaller
        /\ entry' = NoAdapter /\ closed' = closed \cup ({entry} \ {NoAdapter})
        /\ UNCHANGED <<life, opened, mutex, readers, queued, adapterCalls>>
    BY <1>9, <1>p DEF Releases
  <2>2. /\ caller' \in [AdapterCallers -> [pc : CallerPcs, id : AdapterIds \cup {NoAdapter}]]
        /\ caller'[c].pc = "idle" /\ \A d \in AdapterCallers : d # c => caller'[d] = caller[d]
        /\ Finders' \subseteq Finders
    BY <1>k, <1>m, <2>1 DEF CallerPcs
  <2>3. AdapterTypes'
    BY <1>k, <2>1, <2>2 DEF AdapterTypes
  <2>4. LockInv'
    BY <1>k, <2>1, <2>2 DEF LockInv, CallerAt
  <2>5. Lookups'
    <3>1. \A d \in AdapterCallers : ~CallerAt(d, "use")
      BY <1>k, <2>1, AdaptersAssumption DEF Lookups, AdaptersAssumption
    <3>2. \A d \in AdapterCallers : ~CallerAt(d, "take")
      BY <1>k, <2>1 DEF Lookups, LockInv, CallerAt
    <3> QED  BY <2>2, <3>1, <3>2 DEF Lookups, CallerAt
  <2>6. OpenHandles'
    BY <1>k, <2>1 DEF OpenHandles, NoAdapterLeaks, AdapterTypes
  <2>7. RoomLeft'
    BY <1>r, <2>1, <2>2
  <2> QED  BY <2>3, <2>4, <2>5, <2>6, <2>7 DEF AdapterInv
<1> QED  BY <1>1, <1>2, <1>3, <1>4, <1>5, <1>6, <1>7, <1>8, <1>9 DEF CallerStep

(* Whatever the callers, the tracker and the service do in between, a      *)
(* handle in use is open and its user's alone, and none is lost.           *)
THEOREM AdaptersAreSafe == AdapterSpec => []AdaptersSafe
<1>1. AdapterInit => AdapterInv
  <2> SUFFICES ASSUME AdapterInit PROVE AdapterInv
    OBVIOUS
  <2>1. AdapterTypes /\ LockInv /\ Lookups /\ OpenHandles
    BY AdaptersAssumption
    DEF AdapterInit, AdaptersAssumption, AdapterTypes, LockInv, Lookups, OpenHandles, NoAdapterLeaks,
        CallerAt, CallerPcs, AdapterIds, NoAdapter
  <2>2. Finders = {} /\ {id \in AdapterIds : opened[id] # 0} = {}
    BY DEF AdapterInit, Finders
  <2>3. IsFiniteSet(Finders) /\ Cardinality(Finders) = 0
    BY <2>2, FS_EmptySet
  <2>4. MaxAdapterCalls \in Nat /\ adapterCalls = MaxAdapterCalls
    BY AdaptersAssumption DEF AdapterInit, AdaptersAssumption
  <2>5. 0 \in 0 .. MaxAdapterCalls /\ 1 .. 0 = {} /\ 0 + Cardinality(Finders) + adapterCalls <= MaxAdapterCalls
    BY <2>3, <2>4
  <2>6. RoomLeft
    BY <2>2, <2>3, <2>5 DEF RoomLeft
  <2> QED  BY <2>1, <2>6 DEF AdapterInv
<1>2. AdapterInv /\ [AdapterNext]_adapterVars => AdapterInv'
  <2> SUFFICES ASSUME AdapterInv, [AdapterNext]_adapterVars PROVE AdapterInv'
    OBVIOUS
  <2>1. ASSUME UNCHANGED <<entry, opened, closed, mutex, readers, lockWriter, queued, caller, adapterCalls>>,
               life' \in Nat
        PROVE  AdapterInv'
    BY <2>1
    DEF AdapterInv, AdapterTypes, LockInv, Lookups, OpenHandles, NoAdapterLeaks, RoomLeft, Finders, CallerAt
  <2>2. CASE AdapterChanges
    BY <2>1, <2>2 DEF AdapterChanges, locks, AdapterInv, AdapterTypes
  <2>3. CASE UNCHANGED adapterVars
    BY <2>1, <2>3 DEF adapterVars, AdapterInv, AdapterTypes
  <2>4. ASSUME NEW c \in AdapterCallers, CallerStep(c) \/ Calls(c, "find") \/ Calls(c, "tracker")
        PROVE  AdapterInv'
    BY <2>4, CallerStepInv
  <2> QED  BY <2>2, <2>3, <2>4 DEF AdapterNext
<1>3. AdapterInv => AdaptersSafe
  BY DEF AdapterInv, AdapterTypes, LockInv, Lookups, OpenHandles, AdaptersSafe, AdapterTypeOK, UsedIsOpen
<1> QED  BY <1>1, <1>2, <1>3, PTL DEF AdapterSpec

-----------------------------------------------------------------------------
(***************************************************************************)
(* The library.                                                            *)
(***************************************************************************)
DllPcs == {"idle", "find", "lock", "load", "dll lock", "loading", "logger", "name", "version", "panic"}
Steps == {LoadSteps[i] : i \in DOMAIN LoadSteps}

(* What is acquired before each step.                                      *)
Progress ==
    /\ step \in {"resource", "check", "alloc"} => acquired = {}
    /\ step = "boundary" => acquired = {"image"}
    /\ step \in {"headers", "sections", "relocate", "imports"} =>
         "image" \in acquired /\ acquired \subseteq {"image", "blocked"}
    /\ step \in {"finalize", "tables"} =>
         "image" \in acquired /\ acquired \subseteq {"image", "blocked", "libraries"}
    /\ step = "ranges" =>
         "image" \in acquired /\ acquired \subseteq {"image", "blocked", "libraries", "function table"}
    /\ step \in {"hook", "attach"} =>
         /\ {"image", "range"} \subseteq acquired
         /\ acquired \subseteq {"image", "blocked", "libraries", "function table", "range"}
    /\ step \in {"exports", "done"} =>
         /\ {"image", "range"} \subseteq acquired
         /\ acquired \subseteq {"image", "blocked", "libraries", "function table", "range", "attached"}
    /\ step \in {"attach", "exports", "done"} => hook = "hooked"

(* One thread loads, with the lock, and publishes what is complete.        *)
LoadInv ==
    /\ dllThread \in [DllThreads -> [pc : DllPcs, proc : DllProcs \cup {NoProc}]]
    /\ step \in Steps \cup {"none", "done"}
    /\ \A t \in DllThreads :
         /\ ThreadAt(t, "loading") => dllMutex = t /\ ~published /\ step # "none"
         /\ ThreadAt(t, "logger") => dllMutex = t /\ published /\ logger = 0
         /\ ThreadAt(t, "name") => published
         /\ ThreadAt(t, "version") => base
         /\ dllMutex = t => ThreadAt(t, "loading") \/ ThreadAt(t, "logger")
    /\ published \in BOOLEAN /\ base \in BOOLEAN /\ logger \in {0, 1}
    /\ published => step = "done" /\ base
    /\ ~published => logger = 0
    /\ dllMutex = NoThread /\ ~published => step = "none" /\ acquired = {}
    /\ address # {} => published

DllInv == LoadInv /\ Progress

StepSet == {"resource", "check", "alloc", "boundary", "headers", "sections", "relocate", "imports",
            "finalize", "tables", "ranges", "hook", "attach", "exports"}
After == [resource |-> "check", check |-> "alloc", alloc |-> "boundary", boundary |-> "headers",
          headers |-> "sections", sections |-> "relocate", relocate |-> "imports", imports |-> "finalize",
          finalize |-> "tables", tables |-> "ranges", ranges |-> "hook", hook |-> "attach",
          attach |-> "exports", exports |-> "done"]
(* The steps of a load, each with the next.                                *)
LEMMA StepOrder ==
    /\ Steps = StepSet /\ Head(LoadSteps) = "resource" /\ Last(LoadSteps) = "exports"
    /\ \A s \in StepSet \ {"exports"} : LoadSteps[IndexOfStep(s) + 1] = After[s]
<1>1. DOMAIN LoadSteps = 1 .. 14 /\ Len(LoadSteps) = 14
  BY DEF LoadSteps
<1>2. /\ LoadSteps[1] = "resource" /\ LoadSteps[2] = "check" /\ LoadSteps[3] = "alloc"
      /\ LoadSteps[4] = "boundary" /\ LoadSteps[5] = "headers" /\ LoadSteps[6] = "sections"
      /\ LoadSteps[7] = "relocate" /\ LoadSteps[8] = "imports" /\ LoadSteps[9] = "finalize"
      /\ LoadSteps[10] = "tables" /\ LoadSteps[11] = "ranges" /\ LoadSteps[12] = "hook"
      /\ LoadSteps[13] = "attach" /\ LoadSteps[14] = "exports"
  BY DEF LoadSteps
<1>3. Head(LoadSteps) = "resource" /\ Last(LoadSteps) = "exports"
  <2>1. Head(LoadSteps) = "resource"
    BY DEF LoadSteps
  <2> QED  BY <1>1, <1>2, <2>1 DEF Last
<1>4. Steps = StepSet
  BY <1>1, <1>2 DEF Steps, StepSet
<1>5. ASSUME NEW s \in StepSet \ {"exports"}
      PROVE  LoadSteps[IndexOfStep(s) + 1] = After[s]
  <2> DEFINE i == IndexOfStep(s)
  <2>1. \E k \in DOMAIN LoadSteps : LoadSteps[k] = s
    BY <1>1, <1>2 DEF StepSet
  <2>2. i \in DOMAIN LoadSteps /\ LoadSteps[i] = s
    BY <2>1 DEF IndexOfStep
  <2> HIDE DEF i
  <2>3. i \in 1 .. 13
    BY <1>1, <1>2, <2>2
  <2>4. LoadSteps[i + 1] = After[LoadSteps[i]]
    BY <1>2, <2>3 DEF After
  <2> QED  BY <2>2, <2>4 DEF i
<1> QED  BY <1>3, <1>4, <1>5

(* A thread goes on to pc: the others stay where they are.                 *)
LEMMA ThreadMoves ==
    ASSUME LoadInv, NEW t \in DllThreads, NEW pc \in DllPcs, ThreadGoes(t, pc)
    PROVE  /\ dllThread' \in [DllThreads -> [pc : DllPcs, proc : DllProcs \cup {NoProc}]]
           /\ dllThread'[t].pc = pc /\ \A u \in DllThreads : u # t => dllThread'[u] = dllThread[u]
BY DEF LoadInv, ThreadGoes

(* A thread that only goes on, without the lock of the library.            *)
LEMMA ThreadOnly ==
    ASSUME DllInv, NEW t \in DllThreads, NEW pc \in DllPcs, ThreadGoes(t, pc),
           ~ThreadAt(t, "loading"), ~ThreadAt(t, "logger"), pc \notin {"loading", "logger"},
           pc \in {"name", "version"} => published,
           UNCHANGED <<published, base, dllMutex, dllLoad, logger>>,
           address' # {} => published
    PROVE  DllInv'
<1>1. LoadInv /\ Progress
  BY DEF DllInv
<1>2. /\ dllThread' \in [DllThreads -> [pc : DllPcs, proc : DllProcs \cup {NoProc}]]
      /\ dllThread'[t].pc = pc /\ \A u \in DllThreads : u # t => dllThread'[u] = dllThread[u]
  BY <1>1, ThreadMoves
<1>3. LoadInv'
  BY <1>1, <1>2 DEF LoadInv, ThreadAt, dllLoad
<1>4. Progress'
  BY <1>1 DEF Progress, dllLoad
<1> QED  BY <1>3, <1>4 DEF DllInv

(* A step of a load that succeeds.                                         *)
LEMMA GoingOn ==
    ASSUME DllInv, NEW t \in DllThreads, LoadGoesOn(t)
    PROVE  DllInv'
<1>1. LoadInv /\ Progress /\ step \in StepSet /\ ~published /\ dllMutex = t
  BY StepOrder DEF DllInv, LoadInv, LoadGoesOn
<1>2. step' = IF step = "exports" THEN "done" ELSE After[step]
  BY <1>1, StepOrder DEF LoadGoesOn
<1>3. step' \in Steps \cup {"done"}
  BY <1>1, <1>2, StepOrder DEF StepSet, After
<1>4. LoadInv'
  <2>1. step' # "none" /\ UNCHANGED <<published, base, dllMutex, address, dllThread, logger>>
    BY <1>3, StepOrder DEF LoadGoesOn, StepSet
  <2> QED  BY <1>1, <1>3, <2>1, NoThreadAssumption DEF LoadInv, ThreadAt, NoThreadAssumption
<1>5. Progress'
  <2>1. acquired' = acquired \cup Acquires(step) \/ (step \in Optional /\ acquired' = acquired)
    <3>1. acquired' \in {acquired \cup Acquires(step)} \cup (IF step \in Optional THEN {acquired} ELSE {})
      BY DEF LoadGoesOn
    <3>2. CASE step \in Optional
      BY <3>1, <3>2
    <3>3. CASE step \notin Optional
      BY <3>1, <3>3
    <3> QED  BY <3>2, <3>3
  <2>2. step = "hook" => hook' = "hooked"
    BY DEF LoadGoesOn
  <2>3. step \in {"attach", "exports"} => hook' = "hooked"
    BY <1>1 DEF LoadGoesOn, Progress
  <2>4. CASE step = "resource"
    <3>1. step' = "check" /\ acquired' = acquired
      BY <1>2, <2>1, <2>4 DEF After, Acquires, Optional
    <3> QED  BY <1>1, <2>2, <2>3, <2>4, <3>1 DEF Progress
  <2>5. CASE step = "check"
    <3>1. step' = "alloc" /\ acquired' = acquired
      BY <1>2, <2>1, <2>5 DEF After, Acquires, Optional
    <3> QED  BY <1>1, <2>2, <2>3, <2>5, <3>1 DEF Progress
  <2>6. CASE step = "alloc"
    <3>1. step' = "boundary" /\ acquired' = acquired \cup {"image"}
      BY <1>2, <2>1, <2>6 DEF After, Acquires, Optional
    <3> QED  BY <1>1, <2>2, <2>3, <2>6, <3>1 DEF Progress
  <2>7. CASE step = "boundary"
    <3>1. step' = "headers" /\ (acquired' = acquired \cup {"blocked"} \/ acquired' = acquired)
      BY <1>2, <2>1, <2>7 DEF After, Acquires, Optional
    <3> QED  BY <1>1, <2>2, <2>3, <2>7, <3>1 DEF Progress
  <2>8. CASE step = "headers"
    <3>1. step' = "sections" /\ acquired' = acquired
      BY <1>2, <2>1, <2>8 DEF After, Acquires, Optional
    <3> QED  BY <1>1, <2>2, <2>3, <2>8, <3>1 DEF Progress
  <2>9. CASE step = "sections"
    <3>1. step' = "relocate" /\ acquired' = acquired
      BY <1>2, <2>1, <2>9 DEF After, Acquires, Optional
    <3> QED  BY <1>1, <2>2, <2>3, <2>9, <3>1 DEF Progress
  <2>10. CASE step = "relocate"
    <3>1. step' = "imports" /\ acquired' = acquired
      BY <1>2, <2>1, <2>10 DEF After, Acquires, Optional
    <3> QED  BY <1>1, <2>2, <2>3, <2>10, <3>1 DEF Progress
  <2>11. CASE step = "imports"
    <3>1. step' = "finalize" /\ (acquired' = acquired \cup {"libraries"} \/ acquired' = acquired)
      BY <1>2, <2>1, <2>11 DEF After, Acquires, Optional
    <3> QED  BY <1>1, <2>2, <2>3, <2>11, <3>1 DEF Progress
  <2>12. CASE step = "finalize"
    <3>1. step' = "tables" /\ acquired' = acquired
      BY <1>2, <2>1, <2>12 DEF After, Acquires, Optional
    <3> QED  BY <1>1, <2>2, <2>3, <2>12, <3>1 DEF Progress
  <2>13. CASE step = "tables"
    <3>1. step' = "ranges" /\ (acquired' = acquired \cup {"function table"} \/ acquired' = acquired)
      BY <1>2, <2>1, <2>13 DEF After, Acquires, Optional
    <3> QED  BY <1>1, <2>2, <2>3, <2>13, <3>1 DEF Progress
  <2>14. CASE step = "ranges"
    <3>1. step' = "hook" /\ acquired' = acquired \cup {"range"}
      BY <1>2, <2>1, <2>14 DEF After, Acquires, Optional
    <3> QED  BY <1>1, <2>2, <2>3, <2>14, <3>1 DEF Progress
  <2>15. CASE step = "hook"
    <3>1. step' = "attach" /\ acquired' = acquired
      BY <1>2, <2>1, <2>15 DEF After, Acquires, Optional
    <3> QED  BY <1>1, <2>2, <2>3, <2>15, <3>1 DEF Progress
  <2>16. CASE step = "attach"
    <3>1. step' = "exports" /\ (acquired' = acquired \cup {"attached"} \/ acquired' = acquired)
      BY <1>2, <2>1, <2>16 DEF After, Acquires, Optional
    <3> QED  BY <1>1, <2>2, <2>3, <2>16, <3>1 DEF Progress
  <2>17. CASE step = "exports"
    <3>1. step' = "done" /\ acquired' = acquired
      BY <1>2, <2>1, <2>17 DEF After, Acquires, Optional
    <3> QED  BY <1>1, <2>2, <2>3, <2>17, <3>1 DEF Progress
  <2> QED  BY <1>1, <2>4, <2>5, <2>6, <2>7, <2>8, <2>9, <2>10, <2>11, <2>12, <2>13, <2>14, <2>15, <2>16, <2>17 DEF StepSet
<1> QED  BY <1>4, <1>5 DEF DllInv

(* A step that fails gives everything back.                                *)
LEMMA Failing ==
    ASSUME DllInv, NEW t \in DllThreads, LoadFails(t)
    PROVE  DllInv'
<1>1. LoadInv /\ Progress /\ step \in StepSet /\ ~published /\ dllMutex = t
  BY StepOrder DEF DllInv, LoadInv, LoadFails
<1>2. /\ acquired' = Free(AfterFailure(step, acquired)) /\ step' = "none" /\ dllMutex' = NoThread
      /\ UNCHANGED <<published, base, address, logger>> /\ step \notin Sure
      /\ \E pc \in {"idle", "panic"} : ThreadGoes(t, pc)
  BY DEF LoadFails, GivesUpLoad
<1>3. acquired' = {}
  <2>1. CASE step \in {"resource", "check", "alloc"}
    BY <1>1, <1>2, <2>1 DEF Progress, AfterFailure, Free
  <2>2. CASE step = "boundary"
    BY <1>1, <1>2, <2>2 DEF Progress, AfterFailure, Free
  <2>3. CASE step \in {"headers", "sections", "relocate", "imports"}
    BY <1>1, <1>2, <2>3 DEF Progress, AfterFailure, Free
  <2>4. CASE step \in {"finalize", "hook", "attach"}
    BY <1>1, <1>2, <2>4 DEF Progress, AfterFailure, Free
  <2> QED  BY <1>1, <1>2, <2>1, <2>2, <2>3, <2>4 DEF StepSet, Sure
<1>4. PICK pc \in {"idle", "panic"} : ThreadGoes(t, pc)
  BY <1>2
<1>5. /\ dllThread' \in [DllThreads -> [pc : DllPcs, proc : DllProcs \cup {NoProc}]]
      /\ dllThread'[t].pc = pc /\ \A u \in DllThreads : u # t => dllThread'[u] = dllThread[u]
  BY <1>1, <1>4, ThreadMoves DEF DllPcs
<1>6. LoadInv'
  BY <1>1, <1>2, <1>3, <1>5, NoThreadAssumption DEF LoadInv, ThreadAt, NoThreadAssumption
<1>7. Progress'
  BY <1>2 DEF Progress
<1> QED  BY <1>6, <1>7 DEF DllInv

(* Every step of a thread keeps the invariant.                             *)
LEMMA DllStepInv ==
    ASSUME DllInv, NEW t \in DllThreads, DllStep(t)
    PROVE  DllInv'
<1>1. LoadInv /\ Progress
  BY DEF DllInv
<1>2. ASSUME FindFast(t) \/ FindLocked(t) \/ TellsVersion(t) \/ Panics(t) PROVE DllInv'
  <2>1. PICK pc \in {"idle", "lock", "load"} : ThreadGoes(t, pc)
    BY <1>2 DEF FindFast, FindLocked, TellsVersion, Panics
  <2>2. /\ dllThread[t].pc \in {"find", "lock", "version", "panic"}
        /\ UNCHANGED <<published, base, dllMutex, address, dllLoad, logger>>
    BY <1>2 DEF FindFast, FindLocked, TellsVersion, Panics, ThreadAt
  <2>3. pc \in DllPcs /\ (address' # {} => published)
    BY <1>1, <2>2 DEF DllPcs, LoadInv
  <2> QED  BY <2>1, <2>2, <2>3, ThreadOnly DEF ThreadAt
<1>3. ASSUME LoadFast(t) PROVE DllInv'
  <2>1. PICK pc \in {"version", "name", "dll lock"} : ThreadGoes(t, pc) /\ (pc # "dll lock" => published)
    BY <1>3 DEF LoadFast, Loaded
  <2>2. /\ dllThread[t].pc = "load"
        /\ UNCHANGED <<published, base, dllMutex, address, dllLoad, logger>>
    BY <1>3 DEF LoadFast, ThreadAt
  <2>3. pc \in DllPcs /\ (address' # {} => published)
    BY <1>1, <2>2 DEF DllPcs, LoadInv
  <2> QED  BY <2>1, <2>2, <2>3, ThreadOnly DEF ThreadAt
<1>4. ASSUME LoadLocked(t), published PROVE DllInv'
  <2>1. PICK pc \in {"version", "name"} : ThreadGoes(t, pc)
    BY <1>4 DEF LoadLocked, Loaded
  <2>2. /\ dllThread[t].pc = "dll lock"
        /\ UNCHANGED <<published, base, dllMutex, address, dllLoad, logger>>
    BY <1>4 DEF LoadLocked, ThreadAt, dllLoad
  <2>3. pc \in DllPcs /\ (address' # {} => published)
    BY <1>4 DEF DllPcs
  <2> QED  BY <1>4, <2>1, <2>2, <2>3, ThreadOnly DEF ThreadAt
<1>5. ASSUME LoadLocked(t), ~published PROVE DllInv'
  <2>1. /\ ThreadGoes(t, "loading") /\ dllMutex = NoThread /\ dllMutex' = t /\ step' = "resource"
        /\ ThreadAt(t, "dll lock") /\ UNCHANGED <<published, base, address, acquired, hook, logger>>
    BY <1>5, StepOrder DEF LoadLocked
  <2>2. /\ dllThread' \in [DllThreads -> [pc : DllPcs, proc : DllProcs \cup {NoProc}]]
        /\ dllThread'[t].pc = "loading" /\ \A u \in DllThreads : u # t => dllThread'[u] = dllThread[u]
    BY <1>1, <2>1, ThreadMoves DEF DllPcs
  <2>3. "resource" \in Steps /\ acquired = {}
    BY <1>1, <1>5, <2>1, StepOrder DEF StepSet, LoadInv
  <2>4. LoadInv'
    BY <1>1, <1>5, <2>1, <2>2, <2>3, NoThreadAssumption DEF LoadInv, ThreadAt, NoThreadAssumption
  <2>5. Progress'
    BY <2>1, <2>3 DEF Progress
  <2> QED  BY <2>4, <2>5 DEF DllInv
<1>6. ASSUME Publishes(t) PROVE DllInv'
  <2>1. /\ ThreadAt(t, "loading") /\ step = "done" /\ base' = TRUE /\ published' = TRUE
        /\ ThreadGoes(t, "logger") /\ UNCHANGED <<dllMutex, address, step, acquired, hook, logger>>
    BY <1>6 DEF Publishes, dllLoad
  <2>2. /\ dllThread' \in [DllThreads -> [pc : DllPcs, proc : DllProcs \cup {NoProc}]]
        /\ dllThread'[t].pc = "logger" /\ \A u \in DllThreads : u # t => dllThread'[u] = dllThread[u]
    BY <1>1, <2>1, ThreadMoves DEF DllPcs
  <2>3. LoadInv'
    BY <1>1, <2>1, <2>2, NoThreadAssumption DEF LoadInv, ThreadAt, NoThreadAssumption
  <2>4. Progress'
    BY <1>1, <2>1 DEF Progress
  <2> QED  BY <2>3, <2>4 DEF DllInv
<1>7. ASSUME SetsLogger(t) PROVE DllInv'
  <2>1. PICK pc \in {"version", "name"} : ThreadGoes(t, pc)
    BY <1>7 DEF SetsLogger, Loaded
  <2>2. /\ ThreadAt(t, "logger") /\ logger' = logger + 1 /\ dllMutex' = NoThread
        /\ UNCHANGED <<published, base, address, step, acquired, hook>>
    BY <1>7 DEF SetsLogger, dllLoad
  <2>3. /\ dllThread' \in [DllThreads -> [pc : DllPcs, proc : DllProcs \cup {NoProc}]]
        /\ dllThread'[t].pc = pc /\ \A u \in DllThreads : u # t => dllThread'[u] = dllThread[u]
    BY <1>1, <2>1, ThreadMoves DEF DllPcs
  <2>4. published /\ logger = 0 /\ dllMutex = t
    BY <1>1, <2>2 DEF LoadInv
  <2>5. LoadInv'
    BY <1>1, <2>1, <2>2, <2>3, <2>4, NoThreadAssumption DEF LoadInv, ThreadAt, NoThreadAssumption
  <2>6. Progress'
    BY <1>1, <2>2 DEF Progress
  <2> QED  BY <2>5, <2>6 DEF DllInv
<1>8. ASSUME LoggerNotFound(t) PROVE DllInv'
  <2>1. /\ ThreadAt(t, "logger") /\ ThreadGoes(t, "panic") /\ dllMutex' = NoThread
        /\ UNCHANGED <<published, base, address, step, acquired, hook, logger>>
    BY <1>8 DEF LoggerNotFound, dllLoad
  <2>2. /\ dllThread' \in [DllThreads -> [pc : DllPcs, proc : DllProcs \cup {NoProc}]]
        /\ dllThread'[t].pc = "panic" /\ \A u \in DllThreads : u # t => dllThread'[u] = dllThread[u]
    BY <1>1, <2>1, ThreadMoves DEF DllPcs
  <2>3. published /\ dllMutex = t
    BY <1>1, <2>1 DEF LoadInv
  <2>4. LoadInv'
    BY <1>1, <2>1, <2>2, <2>3, NoThreadAssumption DEF LoadInv, ThreadAt, NoThreadAssumption
  <2>5. Progress'
    BY <1>1, <2>1 DEF Progress
  <2> QED  BY <2>4, <2>5 DEF DllInv
<1>9. ASSUME NamesAddress(t) \/ NameNotFound(t) PROVE DllInv'
  <2>1. PICK pc \in {"idle", "panic"} : ThreadGoes(t, pc)
    BY <1>9 DEF NamesAddress, NameNotFound
  <2>2. ThreadAt(t, "name") /\ UNCHANGED <<published, base, dllMutex, dllLoad, logger>>
    BY <1>9 DEF NamesAddress, NameNotFound
  <2>3. pc \in DllPcs /\ published
    BY <1>1, <2>2 DEF DllPcs, LoadInv
  <2> QED  BY <2>1, <2>2, <2>3, ThreadOnly DEF ThreadAt
<1> QED
  BY <1>2, <1>3, <1>4, <1>5, <1>6, <1>7, <1>8, <1>9, GoingOn, Failing DEF DllStep

(* Whichever step of a load fails, and whoever calls meanwhile: nothing of *)
(* a failed load stays, and nobody calls into what is not loaded.          *)
THEOREM DllIsSafe == DllSpec => []DllSafe
<1>1. DllInit => DllInv
  <2> SUFFICES ASSUME DllInit PROVE DllInv
    OBVIOUS
  <2>1. /\ published = FALSE /\ base = FALSE /\ dllMutex = NoThread /\ address = {} /\ step = "none"
        /\ acquired = {} /\ logger = 0 /\ dllThread = [t \in DllThreads |-> [pc |-> "idle", proc |-> NoProc]]
    BY DEF DllInit, DllIdle
  <2>2. /\ dllThread \in [DllThreads -> [pc : DllPcs, proc : DllProcs \cup {NoProc}]]
        /\ \A t \in DllThreads : dllThread[t].pc = "idle"
    BY <2>1 DEF DllPcs
  <2>3. LoadInv
    BY <2>1, <2>2, NoThreadAssumption DEF LoadInv, ThreadAt, NoThreadAssumption
  <2>4. Progress
    BY <2>1 DEF Progress
  <2> QED  BY <2>3, <2>4 DEF DllInv
<1>2. DllInv /\ [DllNext]_dllVars => DllInv'
  <2> SUFFICES ASSUME DllInv, [DllNext]_dllVars PROVE DllInv'
    OBVIOUS
  <2>1. ASSUME NEW t \in DllThreads, DllStep(t) PROVE DllInv'
    BY <2>1, DllStepInv
  <2>2. ASSUME NEW t \in DllThreads, NEW p \in DllProcs \cup {NoProc}, DllCall(t, p) PROVE DllInv'
    <3>1. /\ ThreadAt(t, "idle") /\ UNCHANGED <<published, base, dllMutex, address, step, acquired, hook, logger>>
          /\ \E pc \in {"load", "find"} : dllThread' = [dllThread EXCEPT ![t] = [pc |-> pc, proc |-> p]]
      BY <2>2 DEF DllCall, dllLoad
    <3>2. PICK pc \in {"load", "find"} : dllThread' = [dllThread EXCEPT ![t] = [pc |-> pc, proc |-> p]]
      BY <3>1
    <3>3. /\ dllThread' \in [DllThreads -> [pc : DllPcs, proc : DllProcs \cup {NoProc}]]
          /\ dllThread'[t].pc = pc /\ \A u \in DllThreads : u # t => dllThread'[u] = dllThread[u]
      BY <3>2 DEF DllInv, LoadInv, DllPcs
    <3>4. LoadInv'
      BY <3>1, <3>3 DEF DllInv, LoadInv, ThreadAt
    <3>5. Progress'
      BY <3>1 DEF DllInv, Progress
    <3> QED  BY <3>4, <3>5 DEF DllInv
  <2>3. CASE UNCHANGED dllVars
    BY <2>3 DEF dllVars, DllInv, LoadInv, Progress, ThreadAt
  <2> QED  BY <2>1, <2>2, <2>3 DEF DllNext
<1>3. DllInv => DllSafe
  <2> SUFFICES ASSUME DllInv PROVE DllSafe
    OBVIOUS
  <2>1. LoadLeaksNothing
    BY DEF DllInv, LoadInv, LoadLeaksNothing
  <2>2. published => step = "done" /\ {"image", "range"} \subseteq acquired /\ hook = "hooked" /\ logger <= 1
    <3>1. published => step = "done"
      BY DEF DllInv, LoadInv
    <3>2. logger <= 1
      BY DEF DllInv, LoadInv
    <3>3. step = "done" => {"image", "range"} \subseteq acquired /\ hook = "hooked"
      BY DEF DllInv, Progress
    <3> QED  BY <3>1, <3>2, <3>3
  <2>3. (address # {} => published) /\ \A t \in DllThreads : ThreadAt(t, "version") => base
    BY DEF DllInv, LoadInv
  <2>4. (\E t \in DllThreads : ThreadAt(t, "version")) => base
    BY <2>3
  <2>5. UsedIsLoaded
    BY <2>2, <2>3, <2>4 DEF UsedIsLoaded
  <2> QED  BY <2>1, <2>5 DEF DllSafe
<1> QED  BY <1>1, <1>2, <1>3, PTL DEF DllSpec
=============================================================================
