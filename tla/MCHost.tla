------------------------------- MODULE MCHost -------------------------------
(***************************************************************************)
(* Three parts of the manager that share nothing a property is about: the  *)
(* configuration store, the ring log and the updater.  A behaviour picks   *)
(* one of them; the others rest in a state in which nothing of them goes   *)
(* on: a store without a usable directory, a log nobody has opened, an     *)
(* updater that is disabled.                                               *)
(***************************************************************************)
EXTENDS ConfStore, RingLogger, Updater

VARIABLE part
hostVars == <<part, storeVars, ringVars, updaterVars>>

\* Our version, and two lists: with an equal and an older one, and with a newer one.
MCOur == <<1, 2>>
MCLists == {{<<1, 2>>, <<1, 1, 9>>}, {<<1, 2, 1>>}}

UpdaterRests ==
    /\ listed = {} /\ newlyListed = FALSE /\ updateState = "disabled"
    /\ checker = [pc |-> "off", didNotify |-> FALSE, official |-> FALSE]
    /\ upd = [i \in Updates |-> NoUpdate] /\ busy = {} /\ uiNotes = [u \in UpdateUis |-> <<>>]
    /\ conn = [u \in UpdateUis |-> "asked"] /\ page = [u \in UpdateUis |-> "absent"]
    /\ entries = [u \in UpdateUis |-> 0] /\ installed = {} /\ updFaults = 0
    /\ announced = 0 /\ overtook = FALSE

HostInit ==
    /\ part \in {"store", "log", "updater"}
    /\ RingInit
    /\ StoreInit /\ (part # "store" => dataDir = "unusable")
    /\ IF part = "updater" THEN UpdaterInit ELSE UpdaterRests

HostNext ==
    /\ \/ part = "store" /\ StoreNext /\ UNCHANGED <<ringVars, updaterVars>>
       \/ part = "log" /\ RingNext /\ UNCHANGED <<storeVars, updaterVars>>
       \/ part = "updater" /\ UpdaterNext /\ UNCHANGED <<storeVars, ringVars>>
    /\ UNCHANGED part

HostSpec ==
    HostInit /\ [][HostNext]_hostVars /\ StoreFairness /\ RingFairness /\ UpdaterFairness

(* Whatever is handed in shows in the end: a plaintext file as an encrypted*)
(* configuration, a published line on the log page, a release in every UI, *)
(* the end of an update on its page.                                       *)
EverythingShows == PlaintextMigrates /\ PublishedIsShown /\ UpdateIsShown /\ PageSettles
=============================================================================
