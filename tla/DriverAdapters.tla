--------------------------- MODULE DriverAdapters ---------------------------
(***************************************************************************)
(* The manager's handles to a tunnel's network adapter (ipc_driver.go):    *)
(* kept open between the calls of RuntimeConfig in a map under a           *)
(* readers-writer lock, each with a mutex of its own, and closed by        *)
(* releaseDriverAdapter when a call fails or the tunnel's service stops.   *)
(* One tunnel is modelled; the map has one entry or none.                  *)
(***************************************************************************)
EXTENDS Naturals, FiniteSets

CONSTANTS AdapterCallers,  \* connections that call RuntimeConfig, and the tunnel's tracker
          MaxAdapterCalls, \* calls
          MaxAdapterLives, \* how often the adapter comes and goes
          NoCaller

ASSUME AdaptersAssumption == NoCaller \notin AdapterCallers /\ MaxAdapterCalls \in Nat

NoAdapter == 0
AdapterIds == 1 .. MaxAdapterCalls

VARIABLES
  life,      \* the adapter's life in the driver: odd while it exists
  entry,     \* driverAdapters[tunnelName]
  opened,    \* per handle: the life it was opened in, 0 before
  closed,    \* handles closed
  mutex,     \* per handle: who holds its mutex
  readers,   \* who holds driverAdaptersLock for reading
  lockWriter,\* who holds it for writing
  queued,    \* who waits to write: Go lets no new reader in
  caller,    \* where a caller is, and the handle it has found
  adapterCalls

adapterVars == <<life, entry, opened, closed, mutex, readers, lockWriter, queued, caller, adapterCalls>>

Alive(l) == l % 2 = 1
CallerAt(c, pc) == caller[c].pc = pc
Moved(c, pc) == caller' = [caller EXCEPT ![c].pc = pc]
Got(c, pc, id) == caller' = [caller EXCEPT ![c] = [pc |-> pc, id |-> id]]
locks == <<readers, lockWriter, queued>>

\* The driver: the service of the tunnel creates and removes the adapter.
AdapterChanges ==
    /\ life < MaxAdapterLives /\ life' = life + 1
    /\ UNCHANGED <<entry, opened, closed, mutex, locks, caller, adapterCalls>>

-----------------------------------------------------------------------------
(* RuntimeConfig: findDriverAdapter, Configuration, and a release if the   *)
(* configuration cannot be read.                                           *)
Calls(c, pc) ==
    /\ CallerAt(c, "idle") /\ adapterCalls > 0 /\ adapterCalls' = adapterCalls - 1
    /\ Moved(c, pc) /\ UNCHANGED <<life, entry, opened, closed, mutex, locks>>

FindsReading(c) ==
    /\ CallerAt(c, "find") /\ lockWriter = NoCaller /\ queued = {}
    /\ readers' = readers \cup {c} /\ Moved(c, "look")
    /\ UNCHANGED <<life, entry, opened, closed, mutex, lockWriter, queued, adapterCalls>>
\* Mutant: the lock is still held for reading when it is asked for for writing.
FindsUpgrading(c) ==
    /\ CallerAt(c, "look")
    /\ IF entry # NoAdapter THEN Got(c, "take", entry) /\ UNCHANGED queued
       ELSE Moved(c, "find again") /\ queued' = queued \cup {c}
    /\ UNCHANGED <<life, entry, opened, closed, mutex, readers, lockWriter, adapterCalls>>
FindsLooking(c) ==
    /\ CallerAt(c, "look")
    /\ IF entry # NoAdapter THEN Got(c, "take", entry) /\ UNCHANGED <<readers, queued>>
       ELSE Moved(c, "find again") /\ readers' = readers \ {c} /\ queued' = queued \cup {c}
    /\ UNCHANGED <<life, entry, opened, closed, mutex, lockWriter, adapterCalls>>
\* The handle's mutex is taken before the lock is left, for reading or for writing.
Takes(c) ==
    /\ CallerAt(c, "take") /\ mutex[caller[c].id] = NoCaller
    /\ mutex' = [mutex EXCEPT ![caller[c].id] = c] /\ Moved(c, "use")
    /\ readers' = readers \ {c} /\ lockWriter' = (IF lockWriter = c THEN NoCaller ELSE lockWriter)
    /\ UNCHANGED <<life, entry, opened, closed, queued, adapterCalls>>

\* sync.RWMutex: a writer is alone, and the readers that come later wait for it.
WritesLock(c) ==
    /\ c \in queued /\ readers = {} /\ lockWriter = NoCaller
    /\ lockWriter' = c /\ queued' = queued \ {c}
    /\ UNCHANGED <<life, entry, opened, closed, mutex, readers, caller, adapterCalls>>
NewAdapter == Cardinality({id \in AdapterIds : opened[id] # 0}) + 1
\* Someone may have opened it meanwhile; if not it is opened, which fails if it does not exist.
FindsAgain(c) ==
    /\ CallerAt(c, "find again") /\ lockWriter = c
    /\ IF entry # NoAdapter THEN Got(c, "take", entry) /\ UNCHANGED <<lockWriter, opened, entry, mutex>>
       ELSE /\ lockWriter' = NoCaller
            /\ IF ~Alive(life) THEN Moved(c, "idle") /\ UNCHANGED <<opened, entry, mutex>>
               ELSE /\ opened' = [opened EXCEPT ![NewAdapter] = life] /\ entry' = NewAdapter
                    /\ mutex' = [mutex EXCEPT ![NewAdapter] = c] /\ Got(c, "use", NewAdapter)
    /\ UNCHANGED <<life, closed, readers, queued, adapterCalls>>

\* Configuration works only on the adapter the handle was opened for, and may fail on that too.
Uses(c) ==
    /\ CallerAt(c, "use") /\ mutex' = [mutex EXCEPT ![caller[c].id] = NoCaller]
    /\ \/ opened[caller[c].id] = life /\ Moved(c, "idle") /\ UNCHANGED queued
       \/ Moved(c, "release") /\ queued' = queued \cup {c}
    /\ UNCHANGED <<life, entry, opened, closed, readers, lockWriter, adapterCalls>>

-----------------------------------------------------------------------------
(* releaseDriverAdapter, also called when the service stops.               *)
TrackerReleases(c) ==
    /\ CallerAt(c, "tracker") /\ Moved(c, "release") /\ queued' = queued \cup {c}
    /\ UNCHANGED <<life, entry, opened, closed, mutex, readers, lockWriter, adapterCalls>>
\* Mutant: the handle is closed without its mutex.
ReleasesUnlocked(c) ==
    /\ CallerAt(c, "release") /\ lockWriter = c /\ lockWriter' = NoCaller /\ Moved(c, "idle")
    /\ entry' = NoAdapter /\ closed' = closed \cup ({entry} \ {NoAdapter})
    /\ UNCHANGED <<life, opened, mutex, readers, queued, adapterCalls>>
\* Whatever is in the map by now is closed, once nobody uses it.
Releases(c) ==
    /\ CallerAt(c, "release") /\ lockWriter = c /\ lockWriter' = NoCaller /\ Moved(c, "idle")
    /\ \A id \in {entry} \ {NoAdapter} : mutex[id] = NoCaller
    /\ entry' = NoAdapter /\ closed' = closed \cup ({entry} \ {NoAdapter})
    /\ UNCHANGED <<life, opened, mutex, readers, queued, adapterCalls>>

-----------------------------------------------------------------------------
AdapterInit ==
    /\ life = 1 /\ entry = NoAdapter /\ opened = [id \in AdapterIds |-> 0] /\ closed = {}
    /\ mutex = [id \in AdapterIds |-> NoCaller] /\ readers = {} /\ lockWriter = NoCaller /\ queued = {}
    /\ caller = [c \in AdapterCallers |-> [pc |-> "idle", id |-> NoAdapter]]
    /\ adapterCalls = MaxAdapterCalls

CallerStep(c) ==
    \/ FindsReading(c) \/ FindsLooking(c) \/ Takes(c) \/ WritesLock(c) \/ FindsAgain(c) \/ Uses(c)
    \/ TrackerReleases(c) \/ Releases(c)
AdapterNext ==
    \/ AdapterChanges
    \/ \E c \in AdapterCallers : CallerStep(c) \/ Calls(c, "find") \/ Calls(c, "tracker")

AdapterSpec == AdapterInit /\ [][AdapterNext]_adapterVars

-----------------------------------------------------------------------------
(* The cached adapters and their handles keep their types. *)
AdapterTypeOK ==
    /\ entry \in AdapterIds \cup {NoAdapter} /\ closed \subseteq AdapterIds
    /\ lockWriter # NoCaller => readers = {}
    /\ queued \cap (readers \cup {lockWriter}) = {}

(* A handle in use is open, and only one caller uses it, however releases  *)
(* of other callers and of the tracker fall between finding and using it.  *)
UsedIsOpen ==
    \A c \in AdapterCallers :
        CallerAt(c, "use") => caller[c].id \notin closed /\ mutex[caller[c].id] = c

(* No handle is lost: one that was opened is in the map or closed.         *)
NoAdapterLeaks == \A id \in AdapterIds : opened[id] # 0 => id = entry \/ id \in closed

(* The callers never wait for one another in a circle, although a release  *)
(* waits for a handle's mutex with the lock held, no reader is let in      *)
(* meanwhile and the holder of the mutex may want the lock itself.         *)
AdaptersNeverStuck ==
    (\E c \in AdapterCallers : ~CallerAt(c, "idle")) => ENABLED (\E c \in AdapterCallers : CallerStep(c))

(* The cached adapters: used only while open, closed once nobody needs     *)
(* them.                                                                   *)
AdaptersSafe == AdapterTypeOK /\ UsedIsOpen /\ NoAdapterLeaks
=============================================================================
