----------------------------- MODULE ConfStore -----------------------------
(***************************************************************************)
(* conf/: the encrypted configuration store of the manager, its file       *)
(* writer, the directory watcher and the migration of plaintext files.     *)
(*                                                                         *)
(* Threads: the clients' connections save and delete; the goroutine that   *)
(* registers the callback, the watcher and the retry timers each run the   *)
(* migration, one at a time under `migrating'.  The manager may die at any *)
(* step, the power may fail, a step of the disk may fail, and a user may   *)
(* put plaintext files into the directory while all of this goes on.       *)
(*                                                                         *)
(* A temporary file a crash leaves behind has a name no tunnel can have,   *)
(* so nothing below ever looks at it and it is not kept in the state.      *)
(***************************************************************************)
EXTENDS Naturals, FiniteSets

CONSTANTS Names, Contents, Clients, NoConf,
          Torn,        \* bytes that reached the directory and not the disk
          SharingBase, \* retries of a file held open: 3 in the code, after 1/9, 1/4 and 1 s
          MaxUser,     \* steps of the user and of administrators
          MaxFaults    \* disk and notification failures, crashes, power losses

Mig == "migration"
Savers == Clients \cup {Mig}

\* What is in a .conf.dpapi file, and whether it was flushed to the disk.
Blobs == [name : Names, data : Contents \cup {Torn}]
StoredFiles == [blob : Blobs, durable : BOOLEAN]

\* NoConf is none of the values in whose place it stands.
ASSUME StoreAssumption ==
    /\ SharingBase \in Nat /\ MaxUser \in Nat /\ MaxFaults \in Nat
    /\ Mig \notin Clients
    /\ NoConf \notin Contents \cup Nat \cup (Names \X Contents \X BOOLEAN)
    /\ NoConf \notin Blobs \cup StoredFiles

VARIABLES
  dataDir,    \* the data directory on disk: absent, open, protected or unusable
  cached,     \* cachedConfigFileDir is set
  file,       \* the .conf.dpapi files: [blob, durable] or NoConf
  plain,      \* the .conf files: their text or NoConf
  writing,    \* names whose .conf file another program still holds open
  job,        \* the save of a thread, at the step it has reached
  mig,        \* the migration under way
  timer,      \* the base of lastMigrationTimer, NoConf when it is not armed
  fired,      \* bases of timers that fired and wait for the mutex
  reg,        \* RegisterStoreChangeCallback of the manager service
  watch,      \* the watcher goroutine: off, armed or calling
  changed,    \* the change handle has something to report
  svc,        \* the file a tunnel service has, or is about to be installed with
  user,       \* budget left for the user
  faults,     \* budget left for failures
  owed,       \* history: the text a user put there and nobody replaced
  unseen,     \* history: names that changed, or failed, with nobody to come back to them
  orphaned    \* history: names whose service kept the plaintext path, nobody to rewrite it

storeDisk == <<dataDir, cached, file, plain, writing>>
storeMig == <<mig, timer, fired, reg>>
storeGhost == <<owed, unseen, orphaned>>
storeVars == <<storeDisk, job, storeMig, watch, changed, svc, user, faults, storeGhost>>

IdleJob == [pc |-> "idle", name |-> NoConf, data |-> NoConf, overwrite |-> FALSE,
            durable |-> FALSE]
IdleMig == [pc |-> "idle", by |-> "none", base |-> 0, todo |-> {}, name |-> NoConf,
            data |-> NoConf, ignore |-> FALSE]

Fault == faults > 0 /\ faults' = faults - 1
NoFault == UNCHANGED faults

\* FindFirstChangeNotification remembers a change until it is asked again.
NotesChange == changed' = (changed \/ watch # "off")
MissedIfOff(n) == unseen' = IF watch = "off" THEN unseen \cup {n} ELSE unseen

-----------------------------------------------------------------------------
(* RootDirectory and tunnelConfigurationsDirectory: created or taken over  *)
(* with its access list replaced; a file, a reparse point or a directory   *)
(* that moved is refused, and only a success is cached.                    *)
TakesDirectory(d) == IF d \in {"absent", "open"} THEN "protected" ELSE d

ResolveDirectory ==
    /\ ~cached /\ dataDir # "unusable"
    /\ dataDir' = TakesDirectory(dataDir)
    /\ cached' = TRUE
    /\ UNCHANGED <<file, plain, writing, job, storeMig, watch, changed, svc, user, faults, storeGhost>>

\* Encrypt binds the name; Decrypt refuses a blob whose name differs.
Encrypt(data, name) == [name |-> name, data |-> data]
Decrypt(blob, name) == IF blob.name = name THEN blob.data ELSE NoConf

\* LoadFromName and LoadFromPath: NoConf stands for every error.
LoadFromName(n) == IF file[n] = NoConf THEN NoConf ELSE Decrypt(file[n].blob, n)

-----------------------------------------------------------------------------
(* Save and writeLockedDownFile, for every thread: temporary file, write,  *)
(* flush, rename.                                                          *)
BeginJob(n, c, overwrite) == [pc |-> "create", name |-> n, data |-> c, overwrite |-> overwrite,
                            durable |-> FALSE]

Create(w, n, c) ==
    /\ cached /\ user > 0 /\ job[w] = IdleJob
    /\ job' = [job EXCEPT ![w] = BeginJob(n, c, TRUE)]
    /\ user' = user - 1
    /\ UNCHANGED <<storeDisk, storeMig, watch, changed, svc, faults, storeGhost>>

\* Mutant: the file is not flushed before it is renamed.
NextUnflushed == [create |-> "write", write |-> "rename", flush |-> "rename"]
NextOf == [create |-> "write", write |-> "flush", flush |-> "rename"]

StepJob(w) ==
    /\ job[w].pc \in {"create", "write", "flush"}
    /\ job' = [job EXCEPT ![w].pc = NextOf[@], ![w].durable = job[w].pc = "flush"]
    /\ NotesChange
    /\ UNCHANGED <<storeDisk, storeMig, watch, svc, user, faults, storeGhost>>

CanRename(j) == j.overwrite \/ file[j.name] = NoConf

Rename(w) ==
    LET j == job[w] IN
    /\ j.pc = "rename" /\ CanRename(j)
    /\ file' = [file EXCEPT ![j.name] =
           [blob |-> Encrypt(j.data, j.name), durable |-> j.durable]]
    /\ job' = [job EXCEPT ![w] = IF w = Mig THEN [@ EXCEPT !.pc = "done"] ELSE IdleJob]
    /\ owed' = IF w = Mig THEN owed ELSE [owed EXCEPT ![j.name] = NoConf]
    /\ NotesChange
    /\ UNCHANGED <<dataDir, cached, plain, writing, storeMig, watch, svc, user, faults, unseen, orphaned>>

\* An error of any step, or a destination that exists: deleteIt, and the error is returned.
FailJob(w) ==
    LET j == job[w] IN
    /\ j.pc \in {"create", "write", "flush", "rename"}
    /\ IF j.pc = "rename" /\ ~CanRename(j) THEN NoFault ELSE Fault
    /\ job' = [job EXCEPT ![w] = IF w = Mig THEN [@ EXCEPT !.pc = "failed"] ELSE IdleJob]
    /\ NotesChange
    /\ UNCHANGED <<storeDisk, storeMig, watch, svc, user, storeGhost>>

DeleteName(n) ==
    /\ cached /\ user > 0 /\ file[n] # NoConf
    /\ file' = [file EXCEPT ![n] = NoConf]
    /\ user' = user - 1 /\ owed' = [owed EXCEPT ![n] = NoConf] /\ NotesChange /\ MissedIfOff(n)
    /\ UNCHANGED <<dataDir, cached, plain, writing, job, storeMig, watch, svc, faults, orphaned>>

-----------------------------------------------------------------------------
(* migrateUnencryptedConfigs, one caller at a time.                        *)
MigrationBegins(by, base) ==
    /\ mig = IdleMig /\ cached
    /\ mig' = [IdleMig EXCEPT !.pc = "next", !.by = by, !.base = base,
                              !.todo = {n \in Names : plain[n] # NoConf}]

\* Back to the caller: the watcher asks for the next change, the registration adds itself.
MigrationEnds ==
    /\ mig.pc = "next" /\ mig.todo = {}
    /\ mig' = IdleMig
    /\ reg' = IF mig.by = "register" THEN "adding" ELSE reg
    /\ watch' = IF mig.by = "watch" THEN "again" ELSE watch
    /\ UNCHANGED <<storeDisk, job, timer, fired, changed, svc, user, faults, storeGhost>>

\* The file is being written: the first one met arms the timer, the last base gives up.
SkipsLocked(n) ==
    /\ mig.pc = "next" /\ n \in mig.todo /\ n \in writing
    /\ mig' = [mig EXCEPT !.todo = @ \ {n}, !.ignore = @ \/ mig.base > 0]
    /\ timer' = IF ~mig.ignore /\ mig.base > 0 THEN mig.base - 1 ELSE timer
    /\ UNCHANGED <<storeDisk, job, fired, reg, watch, changed, svc, user, faults, storeGhost>>

\* The text is read and parsed, the file is closed, Save(false) begins.
ReadsPlain(n) ==
    /\ mig.pc = "next" /\ n \in mig.todo /\ n \notin writing /\ job[Mig] = IdleJob
    /\ mig' = [mig EXCEPT !.pc = "saving", !.todo = @ \ {n}, !.name = n, !.data = plain[n]]
    /\ job' = [job EXCEPT ![Mig] = BeginJob(n, plain[n], FALSE)]
    /\ UNCHANGED <<storeDisk, timer, fired, reg, watch, changed, svc, user, faults, storeGhost>>

\* It cannot be opened, read or parsed: logged, and the next one.
PlainFails(n) ==
    /\ mig.pc = "next" /\ n \in mig.todo /\ n \notin writing /\ Fault
    /\ mig' = [mig EXCEPT !.todo = @ \ {n}] /\ unseen' = unseen \cup {n}
    /\ UNCHANGED <<storeDisk, job, timer, fired, reg, watch, changed, svc, user, owed, orphaned>>

\* Mutant: the plaintext is removed although Save failed.
SaveReturnsAnyway ==
    /\ mig.pc = "saving" /\ job[Mig].pc \in {"done", "failed"}
    /\ mig' = [mig EXCEPT !.pc = "remove"]
    /\ job' = [job EXCEPT ![Mig] = IdleJob]
    /\ UNCHANGED <<storeDisk, timer, fired, reg, watch, changed, svc, user, faults, storeGhost>>
SaveReturns ==
    /\ mig.pc = "saving" /\ job[Mig].pc \in {"done", "failed"}
    /\ mig' = [mig EXCEPT !.pc = IF job[Mig].pc = "done" THEN "remove" ELSE "next"]
    /\ job' = [job EXCEPT ![Mig] = IdleJob]
    /\ UNCHANGED <<storeDisk, timer, fired, reg, watch, changed, svc, user, faults, storeGhost>>

RemovesPlain ==
    /\ mig.pc = "remove" /\ mig.name \notin writing
    /\ plain' = [plain EXCEPT ![mig.name] = NoConf]
    /\ mig' = [mig EXCEPT !.pc = "callback"] /\ NotesChange
    /\ UNCHANGED <<dataDir, cached, file, writing, job, timer, fired, reg, watch, svc, user, faults, storeGhost>>

\* Another program has it open again, or the removal fails: logged, the plaintext stays.
RemoveFails ==
    /\ mig.pc = "remove"
    /\ IF mig.name \in writing THEN NoFault ELSE Fault
    /\ mig' = [mig EXCEPT !.pc = "next"]
    /\ UNCHANGED <<storeDisk, job, timer, fired, reg, watch, changed, svc, user, storeGhost>>

\* Nobody comes back to a service of n that has the plaintext path.
LeavesService(n) == orphaned' = IF svc[n] = "plain" THEN orphaned \cup {n} ELSE orphaned

\* changeTunnelServiceConfigFilePath, which touches a service only if it names the old
\* path; a call to the service manager that fails is logged and not repeated.
Migrated ==
    /\ mig.pc = "callback"
    /\ \/ /\ svc' = [svc EXCEPT ![mig.name] = IF @ = "plain" THEN "encrypted" ELSE @]
          /\ NoFault /\ UNCHANGED orphaned
       \/ Fault /\ LeavesService(mig.name) /\ UNCHANGED svc
    /\ mig' = [mig EXCEPT !.pc = "next"]
    /\ UNCHANGED <<storeDisk, job, timer, fired, reg, watch, changed, user, owed, unseen>>

-----------------------------------------------------------------------------
(* Who runs the migration.                                                 *)
RegisterCalls ==
    /\ reg = "start" /\ MigrationBegins("register", SharingBase)
    /\ reg' = "calling"
    /\ UNCHANGED <<storeDisk, job, timer, fired, watch, changed, svc, user, faults, storeGhost>>

RegisterAdds ==
    /\ reg = "adding" /\ watch # "calling"      \* storeCallbacksLock
    /\ reg' = "added"
    /\ UNCHANGED <<storeDisk, job, mig, timer, fired, watch, changed, svc, user, faults, storeGhost>>

TimerFires ==
    /\ timer # NoConf
    /\ timer' = NoConf /\ fired' = fired \cup {timer}
    /\ UNCHANGED <<storeDisk, job, mig, reg, watch, changed, svc, user, faults, storeGhost>>

TimerCalls(base) ==
    /\ base \in fired /\ MigrationBegins("timer", base)
    /\ fired' = fired \ {base}
    /\ UNCHANGED <<storeDisk, job, timer, reg, watch, changed, svc, user, faults, storeGhost>>

\* startWatchingConfigDir.  The goroutine of the Once is only started, not awaited.
WatchStarts ==
    /\ watch = "off" /\ cached
    /\ watch' = "armed" /\ changed' = FALSE
    /\ UNCHANGED <<storeDisk, job, storeMig, svc, user, faults, storeGhost>>

WatchWakes ==
    /\ watch = "armed" /\ changed
    /\ changed' = FALSE
    /\ watch' = IF reg = "added" THEN "calling" ELSE "again"
    /\ unseen' = IF reg = "added" THEN unseen ELSE Names
    /\ UNCHANGED <<storeDisk, job, storeMig, svc, user, faults, owed, orphaned>>

WatchCalls ==
    /\ watch = "calling" /\ MigrationBegins("watch", SharingBase)
    /\ unseen' = {}
    /\ UNCHANGED <<storeDisk, job, timer, fired, reg, watch, changed, svc, user, faults, owed, orphaned>>

\* Mutant: what changed during the callbacks is forgotten, as with a new handle.
WatchAfresh ==
    /\ watch = "again" /\ watch' = "armed" /\ changed' = FALSE
    /\ UNCHANGED <<storeDisk, job, storeMig, svc, user, faults, storeGhost>>
WatchAgain ==
    /\ watch = "again" /\ watch' = "armed"
    /\ UNCHANGED <<storeDisk, job, storeMig, changed, svc, user, faults, storeGhost>>

\* The wait or FindNextChangeNotification fails: the handle and what it remembered are gone.
WatchFails ==
    /\ watch \in {"armed", "again"} /\ Fault
    /\ watch' = "off" /\ changed' = FALSE
    /\ unseen' = Names
    /\ UNCHANGED <<storeDisk, job, storeMig, svc, user, owed, orphaned>>

-----------------------------------------------------------------------------
(* Outside the program.                                                    *)
\* A program creates or opens a .conf file and holds it while it writes.  Between the
\* migration's read and its removal of the same file nobody is owed the new text.
UserOpens(n, c) ==
    /\ user > 0 /\ user' = user - 1 /\ n \notin writing
    /\ plain' = [plain EXCEPT ![n] = c] /\ writing' = writing \cup {n}
    /\ owed' = [owed EXCEPT ![n] =
           IF mig.name = n /\ mig.pc \in {"saving", "remove"} THEN NoConf ELSE c]
    /\ NotesChange
    /\ UNCHANGED <<dataDir, cached, file, job, storeMig, watch, svc, faults, unseen, orphaned>>

UserCloses(n) ==
    /\ n \in writing
    /\ writing' = writing \ {n} /\ NotesChange
    /\ MissedIfOff(n)
    /\ UNCHANGED <<dataDir, cached, file, plain, job, storeMig, watch, svc, user, faults, owed, orphaned>>

\* wireguard /installtunnelservice <a .conf file> begins.
UserInstalls(n) ==
    /\ user > 0 /\ user' = user - 1 /\ svc[n] = "none" /\ plain[n] # NoConf
    /\ svc' = [svc EXCEPT ![n] = "asked"]
    /\ UNCHANGED <<storeDisk, job, storeMig, watch, changed, faults, storeGhost>>

\* Its CreateService, a while later, and nobody looks at the file in between; or a call fails.
InstallsService(n) ==
    /\ svc[n] = "asked"
    /\ \/ /\ svc' = [svc EXCEPT ![n] = "plain"] /\ NoFault
          /\ orphaned' = IF plain[n] # NoConf \/ (mig.pc = "callback" /\ mig.name = n)
                         THEN orphaned ELSE orphaned \cup {n}
       \/ svc' = [svc EXCEPT ![n] = "none"] /\ Fault /\ UNCHANGED orphaned
    /\ UNCHANGED <<storeDisk, job, storeMig, watch, changed, user, owed, unseen>>

\* An administrator gives an encrypted file the name of another tunnel.
AdminMoves(n, m) ==
    /\ user > 0 /\ user' = user - 1 /\ n # m /\ file[n] # NoConf
    /\ file' = [file EXCEPT ![m] = file[n], ![n] = NoConf]
    /\ owed' = [owed EXCEPT ![n] = NoConf, ![m] = NoConf] /\ NotesChange /\ MissedIfOff(n)
    /\ UNCHANGED <<dataDir, cached, plain, writing, job, storeMig, watch, svc, faults, orphaned>>

\* The manager dies, and is started again; without power, unflushed bytes are lost too.
ManagerDies(powerLoss) ==
    /\ cached /\ Fault
    /\ IF mig.pc = "callback" THEN LeavesService(mig.name) ELSE UNCHANGED orphaned
    /\ file' = [n \in Names |-> IF powerLoss /\ file[n] # NoConf /\ ~file[n].durable
                                THEN [file[n] EXCEPT !.blob.data = Torn] ELSE file[n]]
    /\ cached' = FALSE /\ job' = [w \in Savers |-> IdleJob] /\ mig' = IdleMig
    /\ timer' = NoConf /\ fired' = {} /\ reg' = "start" /\ watch' = "off" /\ changed' = FALSE
    /\ UNCHANGED <<dataDir, plain, writing, svc, user, owed, unseen>>

-----------------------------------------------------------------------------
StoreInit ==
    /\ dataDir \in {"absent", "open", "unusable"} /\ cached = FALSE
    /\ file = [n \in Names |-> NoConf] /\ plain = [n \in Names |-> NoConf] /\ writing = {}
    /\ job = [w \in Savers |-> IdleJob] /\ mig = IdleMig /\ timer = NoConf /\ fired = {}
    /\ reg = "start" /\ watch = "off" /\ changed = FALSE
    /\ svc = [n \in Names |-> "none"] /\ user = MaxUser /\ faults = MaxFaults
    /\ owed = [n \in Names |-> NoConf] /\ unseen = {} /\ orphaned = {}

JobStep(w) == StepJob(w) \/ Rename(w) \/ FailJob(w)
MigrationStep ==
    \/ MigrationEnds \/ SaveReturns \/ RemovesPlain \/ RemoveFails \/ Migrated
    \/ \E n \in Names : SkipsLocked(n) \/ ReadsPlain(n) \/ PlainFails(n)
TimerStep == \E base \in 0..SharingBase : TimerCalls(base)
RegisterStep == RegisterCalls \/ RegisterAdds
WatchStep == WatchStarts \/ WatchWakes \/ WatchCalls \/ WatchAgain

StoreNext ==
    \/ ResolveDirectory
    \/ \E w \in Savers : JobStep(w)
    \/ MigrationStep \/ RegisterStep \/ TimerFires \/ TimerStep \/ WatchStep \/ WatchFails
    \/ \E w \in Clients, n \in Names, c \in Contents : Create(w, n, c)
    \/ \E n \in Names : DeleteName(n) \/ UserCloses(n) \/ UserInstalls(n) \/ InstallsService(n)
    \/ \E n \in Names, c \in Contents : UserOpens(n, c)
    \/ \E n, m \in Names : AdminMoves(n, m)
    \/ \E p \in BOOLEAN : ManagerDies(p)

\* Threads, timers and callbacks run, and one that waits for the mutex of the
\* migration, which is free again and again, gets it in the end.
StoreFairness ==
    /\ WF_storeVars(ResolveDirectory) /\ \A w \in Savers : WF_storeVars(JobStep(w))
    /\ WF_storeVars(MigrationStep) /\ WF_storeVars(TimerFires)
    /\ SF_storeVars(RegisterStep) /\ SF_storeVars(TimerStep) /\ SF_storeVars(WatchStep)

StoreSpec == StoreInit /\ [][StoreNext]_storeVars /\ StoreFairness

-----------------------------------------------------------------------------
(* The types, and that every path the store ever hands out lies in a       *)
(* directory whose access list RootDirectory has replaced.                 *)
StoreTypeOK ==
    /\ dataDir \in {"absent", "open", "protected", "unusable"}
    /\ cached \in BOOLEAN /\ (cached => dataDir = "protected")
    /\ file \in [Names -> StoredFiles \cup {NoConf}]
    /\ plain \in [Names -> Contents \cup {NoConf}] /\ writing \subseteq Names
    /\ DOMAIN job = Savers
    /\ mig.pc \in {"idle", "next", "saving", "remove", "callback"} /\ mig.base \in 0..SharingBase
    /\ timer \in (0..SharingBase - 1) \cup {NoConf} /\ fired \subseteq 0..SharingBase - 1
    /\ reg \in {"start", "calling", "adding", "added"}
    /\ watch \in {"off", "armed", "calling", "again"} /\ changed \in BOOLEAN
    /\ svc \in [Names -> {"none", "asked", "plain", "encrypted"}]
    /\ user \in 0..MaxUser /\ faults \in 0..MaxFaults

\* The save under way, as the abstract store sees it: until the rename has decided.
RequestOf(w) ==
    IF job[w].pc \in {"create", "write", "flush", "rename"}
    THEN <<job[w].name, job[w].data, job[w].overwrite>> ELSE NoConf

\* The file in the place of a name, with the name it was encrypted for.
BlobOf(n) == IF file[n] = NoConf THEN NoConf ELSE file[n].blob

Abstract == INSTANCE AtomicStore WITH
    store <- [n \in Names |-> BlobOf(n)], request <- [w \in Savers |-> RequestOf(w)]

(* The directory is a store whose saves are atomic, seal what they save    *)
(* with its name, refuse to overwrite when asked to and survive a power    *)
(* loss whole: Save, writeLockedDownFile, Encrypt and the migration        *)
(* together implement AtomicStore.                                         *)
StoreIsAtomic == Abstract!Spec

(* A plaintext configuration somebody put into the directory is there, in  *)
(* plaintext or encrypted, until somebody replaces or deletes it, whatever *)
(* step of the migration fails or dies.                                    *)
NoConfigLost ==
    \A n \in Names : owed[n] # NoConf => owed[n] \in {plain[n], LoadFromName(n)}

(* A tunnel service installed with the plaintext path has that file, or    *)
(* the migration is about to rewrite its command line.  Three things leave *)
(* a service whose file is gone: a manager that dies in that one step, a   *)
(* call of that step that fails, which is only logged, and a service that  *)
(* is created after the step is over, with a path nobody looks at again.   *)
ServicePathExists ==
    \A n \in Names : svc[n] = "plain" /\ plain[n] = NoConf =>
        n \in orphaned \/ (mig.pc = "callback" /\ mig.name = n)

(* A finished plaintext file is encrypted in the end, however long it was  *)
(* held open and whenever the manager died, unless an encrypted file has   *)
(* its name or it changed while the watcher had no handle or the callback  *)
(* was not registered yet.                                                 *)
PlaintextMigrates ==
    \A n \in Names :
        []<>(\/ plain[n] = NoConf \/ n \in writing \/ file[n] # NoConf \/ n \in unseen
             \/ dataDir = "unusable")

(* No text a user handed in is lost, and a service names a file that the   *)
(* migration has removed only where ServicePathExists says.                *)
ConfigsKept == StoreTypeOK /\ NoConfigLost /\ ServicePathExists
=============================================================================
