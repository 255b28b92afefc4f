---------------------------- MODULE HostProofs ----------------------------
(***************************************************************************)
(* What the manager does for all users.  The configuration store loses     *)
(* nothing and implements AtomicStore: a file is sealed before it has its  *)
(* name, and what a save found stays or is replaced as a whole.  The       *)
(* updater installs only what a signed list names: an update of a process  *)
(* is the only one, and carries what it has verified from stage to stage.  *)
(* The log page shows the lines of the ring in their order: a line and the *)
(* one a lap later share a slot, and until the first race no slot that a   *)
(* writer or the follower is at has been used again.                       *)
(***************************************************************************)
EXTENDS ConfStore, Updater, RingLogger, TLAPS, WellFoundedInduction, SequenceTheorems

Saving == {"create", "write", "flush", "rename"}
Jobs == [pc : Saving \cup {"done", "failed"}, name : Names, data : Contents,
         overwrite : BOOLEAN, durable : BOOLEAN]

Migrations == [pc : {"idle", "next", "saving", "remove", "callback"},
               by : {"none", "register", "timer", "watch"}, base : 0..SharingBase,
               todo : SUBSET Names, name : Names \cup {NoConf},
               data : Contents \cup {NoConf}, ignore : BOOLEAN]

(* The types of the threads.  A save is renamed only after it was flushed; *)
(* only the migration keeps the result of its save for another step.       *)
ThreadsOK ==
    /\ job \in [Savers -> Jobs \cup {IdleJob}]
    /\ \A w \in Savers : job[w].pc = "rename" => job[w].durable
    /\ \A w \in Clients : job[w].pc \in Saving \cup {"idle"}
    /\ mig \in Migrations
    /\ mig.pc \in {"saving", "remove", "callback"} => mig.name \in Names /\ mig.data \in Contents
    /\ unseen \subseteq Names /\ owed \in [Names -> Contents \cup {NoConf}]
    /\ orphaned \subseteq Names

(* Whatever is in the directory has reached the disk: no power loss tears it. *)
Durable == \A n \in Names : file[n] # NoConf => file[n].durable /\ file[n].blob.data \in Contents

(* The save of the migration is the one its own step says. *)
MigrationSaves ==
    /\ mig.pc = "saving" => /\ job[Mig].pc # "idle" /\ ~job[Mig].overwrite
                            /\ job[Mig].name = mig.name /\ job[Mig].data = mig.data
    /\ mig.pc # "saving" => job[Mig] = IdleJob
    /\ \A n \in mig.todo : plain[n] # NoConf
    /\ mig.pc \in {"saving", "remove", "callback"} => mig.name \notin mig.todo

(* The text a user is owed is the plaintext, as long as there is one, and the *)
(* encrypted one after that; once the migration has saved it, it is both.     *)
OwedKept ==
    \A n \in Names : owed[n] # NoConf =>
        /\ owed[n] = plain[n] \/ (plain[n] = NoConf /\ owed[n] = LoadFromName(n))
        /\ n = mig.name /\ mig.pc \in {"saving", "remove"} => owed[n] = mig.data
        /\ n = mig.name /\ (mig.pc = "remove" \/ (mig.pc = "saving" /\ job[Mig].pc = "done"))
               => owed[n] = LoadFromName(n)

StoreInv == StoreTypeOK /\ ThreadsOK /\ Durable /\ MigrationSaves /\ OwedKept /\ ServicePathExists
-----------------------------------------------------------------------------
(* Every initial state of the store satisfies its invariant. *)
LEMMA StoreInitInv == StoreInit => StoreInv
<1> SUFFICES ASSUME StoreInit PROVE StoreInv
  OBVIOUS
<1>1. StoreTypeOK
  <2>1. /\ dataDir \in {"absent", "open", "unusable"} /\ cached = FALSE /\ writing = {}
          /\ timer = NoConf /\ fired = {}
        /\ reg = "start" /\ watch = "off" /\ changed = FALSE
        /\ mig.pc = "idle" /\ mig.base = 0
    BY DEF StoreInit, IdleMig
  <2>2. /\ DOMAIN job = Savers /\ file \in [Names -> StoredFiles \cup {NoConf}]
        /\ plain \in [Names -> Contents \cup {NoConf}]
             /\ svc \in [Names -> {"none", "asked", "plain", "encrypted"}]
    BY DEF StoreInit
  <2>3. user \in 0..MaxUser /\ faults \in 0..MaxFaults /\ 0 \in 0..SharingBase
    BY StoreAssumption DEF StoreInit, StoreAssumption
  <2> QED  BY <2>1, <2>2, <2>3 DEF StoreTypeOK
<1>2. ThreadsOK
  <2>1. mig = IdleMig /\ IdleMig \in Migrations /\ IdleMig.pc = "idle"
    BY StoreAssumption DEF StoreAssumption, StoreInit, IdleMig, Migrations
  <2>2. job \in [Savers -> {IdleJob}] /\ IdleJob.pc = "idle"
    BY DEF StoreInit, IdleJob
  <2>3. unseen = {} /\ orphaned = {} /\ owed \in [Names -> Contents \cup {NoConf}]
    BY DEF StoreInit
  <2> QED  BY <2>1, <2>2, <2>3 DEF ThreadsOK, Saving, Savers
<1>3. Durable /\ MigrationSaves /\ OwedKept /\ ServicePathExists
  BY DEF StoreInit, IdleMig, Savers, Durable, MigrationSaves, OwedKept, ServicePathExists
<1> QED  BY <1>1, <1>2, <1>3 DEF StoreInv

(* A fault uses up its budget and no more. *)
LEMMA FaultInRange ==
    ASSUME faults \in 0..MaxFaults, Fault
    PROVE  faults' \in 0..MaxFaults
  BY StoreAssumption DEF StoreAssumption, Fault

(* A step of a user uses up the budget and no more. *)
LEMMA UserInRange ==
    ASSUME user \in 0..MaxUser, user > 0, user' = user - 1
    PROVE  user' \in 0..MaxUser
  BY StoreAssumption DEF StoreAssumption

(* StepJob takes a save from one step to the next and touches nothing else. *)
LEMMA StepJobInv ==
    ASSUME StoreInv, NEW w \in Savers, StepJob(w)
    PROVE  StoreInv'
<1>0. /\ job[w].pc \in {"create", "write", "flush"}
    /\ job' = [job EXCEPT ![w].pc = NextOf[@], ![w].durable = job[w].pc = "flush"]
  BY DEF StepJob
<1>u. UNCHANGED <<dataDir, cached, file, plain, writing, mig, timer, fired, reg, watch, svc,
                  user, faults, owed, unseen, orphaned>>
  BY DEF StepJob, storeDisk, storeMig, storeGhost
<1>c. changed' \in BOOLEAN
  BY DEF StepJob, NotesChange, StoreInv, StoreTypeOK
<1>j. DOMAIN job = Savers /\ job \in [Savers -> Jobs \cup {IdleJob}]
  BY DEF StoreInv, ThreadsOK, StoreTypeOK
<1>k. job[w] \in Jobs
  BY <1>0, <1>j DEF IdleJob
<1>l. /\ job'[w] \in Jobs
      /\ job'[w].pc = NextOf[job[w].pc] /\ job'[w].pc \in {"write", "flush", "rename"}
      /\ job'[w].pc = "rename" => job[w].pc = "flush" /\ job'[w].durable
      /\ job'[w].name = job[w].name /\ job'[w].data = job[w].data
           /\ job'[w].overwrite = job[w].overwrite
      /\ \A v \in Savers \ {w} : job'[v] = job[v]
      /\ job' \in [Savers -> Jobs \cup {IdleJob}]
  <2> DEFINE d == job[w].pc = "flush"
  <2> DEFINE j == [job[w] EXCEPT !.pc = NextOf[job[w].pc], !.durable = d]
  <2>1. job' = [job EXCEPT ![w] = j]
     BY <1>0, <1>j
  <2>2. NextOf[job[w].pc] \in {"write", "flush", "rename"}
          /\ (NextOf[job[w].pc] = "rename" => job[w].pc = "flush")
     BY <1>0 DEF NextOf
  <2>3. d \in BOOLEAN OBVIOUS
  <2>4. j \in Jobs /\ j.pc = NextOf[job[w].pc] /\ j.durable = d /\ j.name = job[w].name
          /\ j.data = job[w].data /\ j.overwrite = job[w].overwrite
    <3> HIDE DEF d
    <3> QED BY <1>k, <2>2, <2>3 DEF Jobs, Saving
  <2> HIDE DEF j
  <2>5. job'[w] = j /\ (\A v \in Savers \ {w} : job'[v] = job[v])
          /\ job' \in [Savers -> Jobs \cup {IdleJob}]
     BY <2>1, <2>4, <1>j
  <2>6. j.pc = "rename" => d
     BY <2>2, <2>4
  <2> QED BY <2>2, <2>4, <2>5, <2>6
<1>1. StoreTypeOK'
  BY <1>u, <1>c, <1>l DEF StoreInv, StoreTypeOK
<1>2. ThreadsOK'
  BY <1>u, <1>c, <1>l, <1>j DEF StoreInv, ThreadsOK, Saving, Savers
<1>3. Durable' 
 BY <1>u DEF StoreInv, Durable
<1>4. MigrationSaves'
  <2>1. CASE w = Mig
    <3>1. job'[Mig].pc # "idle" /\ mig.pc = "saving"
      BY <2>1, <1>l, <1>0 DEF StoreInv, MigrationSaves, IdleJob
    <3> QED BY <3>1, <2>1, <1>u, <1>l DEF StoreInv, MigrationSaves
  <2>2. CASE w # Mig
    BY <2>2, <1>u, <1>l DEF StoreInv, MigrationSaves, Savers
  <2> QED BY <2>1, <2>2
<1>5. ServicePathExists'
  BY <1>u DEF StoreInv, ServicePathExists
<1>6. OwedKept'
  BY <1>u, <1>l, <1>0 DEF OwedKept, LoadFromName, Decrypt, StoreInv, Savers
<1> QED  BY <1>1, <1>2, <1>3, <1>4, <1>5, <1>6 DEF StoreInv

(* A step that leaves the directory, the saves, the migration and the      *)
(* services alone keeps what the invariant says of them.                   *)
LEMMA Elsewhere ==
    ASSUME StoreInv, UNCHANGED <<file, plain, job, mig, svc, owed, orphaned>>,
           StoreTypeOK', unseen' \subseteq Names
    PROVE  StoreInv'
<1>1. ThreadsOK'
  BY DEF StoreInv, ThreadsOK
<1>2. Durable' /\ MigrationSaves' /\ ServicePathExists'
  BY DEF StoreInv, Durable, MigrationSaves, ServicePathExists
<1>3. OwedKept'
  BY DEF StoreInv, OwedKept, LoadFromName
<1> QED  BY <1>1, <1>2, <1>3 DEF StoreInv

(* The steps of the directory, the timer, the registration and the watcher that run no migration. *)
LEMMA AroundInv ==
    ASSUME StoreInv,
           \/ ResolveDirectory \/ RegisterAdds \/ TimerFires \/ WatchStarts \/ WatchWakes \/ WatchAgain
           \/ WatchFails \/ \E n \in Names : UserCloses(n)
    PROVE  StoreInv'
<1> USE DEF storeDisk, storeMig, storeGhost, StoreInv
<1>1. CASE ResolveDirectory
  <2>1. StoreTypeOK'
    BY <1>1 DEF ResolveDirectory, TakesDirectory, StoreTypeOK
  <2> QED BY <1>1, <2>1, Elsewhere DEF ResolveDirectory, ThreadsOK
<1>2. CASE RegisterAdds
  <2>1. StoreTypeOK'
    BY <1>2 DEF RegisterAdds, StoreTypeOK
  <2> QED BY <1>2, <2>1, Elsewhere DEF RegisterAdds, ThreadsOK
<1>3. CASE TimerFires
  <2>1. StoreTypeOK'
    BY <1>3 DEF TimerFires, StoreTypeOK
  <2> QED BY <1>3, <2>1, Elsewhere DEF TimerFires, ThreadsOK
<1>4. CASE WatchStarts
  <2>1. StoreTypeOK'
    BY <1>4 DEF WatchStarts, StoreTypeOK
  <2> QED BY <1>4, <2>1, Elsewhere DEF WatchStarts, ThreadsOK
<1>5. CASE WatchWakes
  <2>1. StoreTypeOK'
    BY <1>5 DEF WatchWakes, StoreTypeOK
  <2> QED BY <1>5, <2>1, Elsewhere DEF WatchWakes, ThreadsOK
<1>6. CASE WatchAgain
  <2>1. StoreTypeOK'
    BY <1>6 DEF WatchAgain, StoreTypeOK
  <2> QED BY <1>6, <2>1, Elsewhere DEF WatchAgain, ThreadsOK
<1>7. CASE WatchFails
  <2>1. StoreTypeOK'
    BY <1>7, FaultInRange DEF WatchFails, StoreTypeOK
  <2> QED BY <1>7, <2>1, Elsewhere DEF WatchFails, ThreadsOK
<1>8. ASSUME NEW n \in Names, UserCloses(n) PROVE StoreInv'
  <2>1. StoreTypeOK'
    BY <1>8 DEF UserCloses, NotesChange, StoreTypeOK
  <2>2. unseen' \subseteq Names
    BY <1>8 DEF UserCloses, MissedIfOff, ThreadsOK
  <2> QED BY <1>8, <2>1, <2>2, Elsewhere DEF UserCloses
<1> QED  BY <1>1, <1>2, <1>3, <1>4, <1>5, <1>6, <1>7, <1>8

(* The migration begins, goes on with the next file or ends: nothing of what it saved is open. *)
LEMMA BetweenFiles ==
    ASSUME StoreInv, UNCHANGED <<file, plain, job, svc, owed, orphaned>>,
           mig.pc \notin {"saving", "callback"}, mig'.pc \in {"idle", "next"},
           \A n \in mig'.todo : plain[n] # NoConf,
           StoreTypeOK', ThreadsOK'
    PROVE  StoreInv'
<1>1. Durable' /\ MigrationSaves' /\ ServicePathExists'
  BY DEF StoreInv, Durable, MigrationSaves, ServicePathExists
<1>2. OwedKept'
  BY DEF StoreInv, OwedKept, LoadFromName
<1> QED  BY <1>1, <1>2 DEF StoreInv

(* A migration that begins has every plaintext file before it. *)
LEMMA BeginsWell ==
    ASSUME StoreInv, NEW by \in {"register", "timer", "watch"}, NEW base \in 0..SharingBase,
           MigrationBegins(by, base)
    PROVE  /\ mig.pc = "idle" /\ mig'.pc = "next" /\ mig'.base = base /\ mig'.name = NoConf
           /\ mig' \in Migrations
           /\ \A n \in mig'.todo : plain[n] # NoConf
  BY DEF MigrationBegins, IdleMig, Migrations

(* The callers of the migration. *)
LEMMA CallersInv ==
    ASSUME StoreInv, RegisterCalls \/ WatchCalls \/ TimerStep
    PROVE  StoreInv'
<1> USE DEF storeDisk, storeMig, storeGhost
<1>0. SharingBase \in 0..SharingBase
  BY StoreAssumption DEF StoreAssumption
<1>1. CASE RegisterCalls
  <2>1. MigrationBegins("register", SharingBase)
    BY <1>1 DEF RegisterCalls
  <2>2. StoreTypeOK'
    BY <1>0, <1>1, <2>1, BeginsWell DEF RegisterCalls, StoreInv, StoreTypeOK
  <2>3. ThreadsOK'
    BY <1>0, <1>1, <2>1, BeginsWell DEF RegisterCalls, StoreInv, ThreadsOK
  <2> QED  BY <1>0, <1>1, <2>1, <2>2, <2>3, BeginsWell, BetweenFiles DEF RegisterCalls
<1>2. CASE WatchCalls
  <2>1. MigrationBegins("watch", SharingBase)
    BY <1>2 DEF WatchCalls
  <2>2. StoreTypeOK'
    BY <1>0, <1>2, <2>1, BeginsWell DEF WatchCalls, StoreInv, StoreTypeOK
  <2>3. ThreadsOK'
    BY <1>0, <1>2, <2>1, BeginsWell DEF WatchCalls, StoreInv, ThreadsOK
  <2> QED  BY <1>0, <1>2, <2>1, <2>2, <2>3, BeginsWell, BetweenFiles DEF WatchCalls
<1>3. ASSUME NEW base \in 0..SharingBase, TimerCalls(base) PROVE StoreInv'
  <2>1. MigrationBegins("timer", base)
    BY <1>3 DEF TimerCalls
  <2>2. StoreTypeOK'
    BY <1>3, <2>1, BeginsWell DEF TimerCalls, StoreInv, StoreTypeOK
  <2>3. ThreadsOK'
    BY <1>3, <2>1, BeginsWell DEF TimerCalls, StoreInv, ThreadsOK
  <2> QED  BY <1>3, <2>1, <2>2, <2>3, BeginsWell, BetweenFiles DEF TimerCalls
<1> QED  BY <1>1, <1>2, <1>3 DEF TimerStep

(* What the migration does between two files. *)
LEMMA NextFileInv ==
    ASSUME StoreInv,
           MigrationEnds \/ RemoveFails \/ \E n \in Names : SkipsLocked(n) \/ PlainFails(n)
    PROVE  StoreInv'
<1> USE DEF storeDisk, storeMig, storeGhost
<1>1. CASE MigrationEnds
  <2>1. mig' = IdleMig /\ IdleMig \in Migrations /\ IdleMig.pc = "idle" /\ IdleMig.todo = {}
          /\ mig.pc = "next"
        /\ IdleMig.base \in 0..SharingBase
    BY <1>1, StoreAssumption DEF StoreAssumption, MigrationEnds, IdleMig, Migrations
  <2>2. StoreTypeOK'
    BY <1>1, <2>1 DEF MigrationEnds, StoreInv, StoreTypeOK
  <2>3. ThreadsOK'
    BY <1>1, <2>1 DEF MigrationEnds, StoreInv, ThreadsOK
  <2> QED  BY <1>1, <2>1, <2>2, <2>3, BetweenFiles DEF MigrationEnds
<1>2. CASE RemoveFails
  <2>1. mig' \in Migrations /\ mig'.pc = "next" /\ mig.pc = "remove" /\ mig'.todo = mig.todo
          /\ mig'.base = mig.base
    BY <1>2 DEF RemoveFails, Migrations, StoreInv, ThreadsOK
  <2>2. StoreTypeOK'
    BY <1>2, <2>1, FaultInRange DEF RemoveFails, NoFault, StoreInv, StoreTypeOK
  <2>3. ThreadsOK'
    BY <1>2, <2>1 DEF RemoveFails, StoreInv, ThreadsOK
  <2> QED  BY <1>2, <2>1, <2>2, <2>3, BetweenFiles DEF RemoveFails, StoreInv, MigrationSaves
<1>3. ASSUME NEW n \in Names, SkipsLocked(n) PROVE StoreInv'
  <2> DEFINE i == mig.ignore \/ mig.base > 0
  <2>0. i \in BOOLEAN  BY DEF StoreInv, ThreadsOK, Migrations
  <2>1. mig' = [mig EXCEPT !.todo = @ \ {n}, !.ignore = i] /\ mig.pc = "next"
    BY <1>3 DEF SkipsLocked
  <2>2. mig' \in Migrations /\ mig'.pc = "next" /\ mig'.todo = mig.todo \ {n}
          /\ mig'.base = mig.base
    <3> HIDE DEF i
    <3> QED BY <2>0, <2>1 DEF StoreInv, ThreadsOK, Migrations
  <2>3. timer' \in (0..SharingBase - 1) \cup {NoConf}
    <3>1. SharingBase \in Nat /\ mig.base \in 0..SharingBase
            /\ timer \in (0..SharingBase - 1) \cup {NoConf}
      BY StoreAssumption DEF StoreAssumption, StoreInv, StoreTypeOK
    <3>2. timer' = timer \/ (mig.base > 0 /\ timer' = mig.base - 1)
      BY <1>3 DEF SkipsLocked
    <3> QED BY <3>1, <3>2
  <2>4. StoreTypeOK'
    BY <1>3, <2>1, <2>2, <2>3 DEF SkipsLocked, StoreInv, StoreTypeOK
  <2>5. ThreadsOK'
    BY <1>3, <2>1, <2>2 DEF SkipsLocked, StoreInv, ThreadsOK
  <2> QED  BY <1>3, <2>1, <2>2, <2>4, <2>5, BetweenFiles DEF SkipsLocked, StoreInv, MigrationSaves
<1>4. ASSUME NEW n \in Names, PlainFails(n) PROVE StoreInv'
  <2>2. mig' \in Migrations /\ mig.pc = "next" /\ mig'.pc = "next"
          /\ mig'.todo = mig.todo \ {n} /\ mig'.base = mig.base
    BY <1>4 DEF PlainFails, StoreInv, ThreadsOK, Migrations
  <2>4. StoreTypeOK'
    BY <1>4, <2>2, FaultInRange DEF PlainFails, StoreInv, StoreTypeOK
  <2>5. ThreadsOK'
    BY <1>4, <2>2 DEF PlainFails, StoreInv, ThreadsOK
  <2> QED  BY <1>4, <2>2, <2>4, <2>5, BetweenFiles DEF PlainFails, StoreInv, MigrationSaves
<1> QED  BY <1>1, <1>2, <1>3, <1>4

(* A thread takes its save to another step, and nothing else happens to any save. *)
LEMMA SetJob ==
    ASSUME StoreInv, NEW w \in Savers, NEW j \in Jobs \cup {IdleJob}, job' = [job EXCEPT ![w] = j],
           j.pc = "rename" => j.durable, w = Mig \/ j.pc \in Saving \cup {"idle"}
    PROVE  /\ job'[w] = j /\ \A v \in Savers : v # w => job'[v] = job[v]
           /\ DOMAIN job' = Savers /\ job' \in [Savers -> Jobs \cup {IdleJob}]
           /\ \A v \in Savers : job'[v].pc = "rename" => job'[v].durable
           /\ \A v \in Clients : job'[v].pc \in Saving \cup {"idle"}
<1>1. /\ job \in [Savers -> Jobs \cup {IdleJob}]
        /\ \A v \in Savers : job[v].pc = "rename" => job[v].durable
      /\ \A v \in Clients : job[v].pc \in Saving \cup {"idle"}
  BY DEF StoreInv, ThreadsOK
<1>2. job'[w] = j /\ \A v \in Savers : v # w => job'[v] = job[v]
  BY <1>1
<1>3. DOMAIN job' = Savers /\ job' \in [Savers -> Jobs \cup {IdleJob}]
  BY <1>1
<1>4. Mig \notin Clients
  BY StoreAssumption DEF StoreAssumption
<1> QED  BY <1>1, <1>2, <1>3, <1>4 DEF Savers

(* The save of a thread that has begun one. *)
LEMMA JobFacts ==
    ASSUME StoreInv, NEW w \in Savers
    PROVE  /\ IdleJob.pc = "idle"
           /\ job[w] = IdleJob \/ (job[w] \in Jobs /\ job[w].pc # "idle")
           /\ job[w].pc \in Saving => job[w] \in Jobs
           /\ w = Mig /\ job[w].pc # "idle" => mig.pc = "saving" /\ job[w].name = mig.name
                /\ job[w].data = mig.data
  BY DEF StoreInv, ThreadsOK, IdleJob, Jobs, MigrationSaves, Saving

(* A client's Save begins. *)
LEMMA CreateInv ==
    ASSUME StoreInv, NEW w \in Clients, NEW n \in Names, NEW c \in Contents, Create(w, n, c)
    PROVE  StoreInv'
<1> DEFINE j == BeginJob(n, c, TRUE)
<1>1. w \in Savers /\ w # Mig /\ Mig \in Savers
  BY StoreAssumption DEF Savers, StoreAssumption
<1>2. j \in Jobs /\ j.pc = "create" /\ job' = [job EXCEPT ![w] = j]
  BY DEF Create, BeginJob, Jobs, Saving
<1>3. UNCHANGED <<dataDir, cached, file, plain, writing, mig, timer, fired, reg, watch,
                  changed, svc, faults, owed, unseen, orphaned>>
  BY DEF Create, storeDisk, storeMig, storeGhost
<1> HIDE DEF j
<1>4. /\ DOMAIN job' = Savers /\ job' \in [Savers -> Jobs \cup {IdleJob}]
      /\ \A v \in Savers : job'[v].pc = "rename" => job'[v].durable
      /\ \A v \in Clients : job'[v].pc \in Saving \cup {"idle"}
      /\ job'[Mig] = job[Mig]
  BY <1>1, <1>2, SetJob DEF Saving
<1>5. StoreTypeOK'
  <2>1. user' \in 0..MaxUser
    BY UserInRange DEF Create, StoreInv, StoreTypeOK
  <2> QED  BY <1>3, <1>4, <2>1 DEF StoreInv, StoreTypeOK
<1>6. ThreadsOK'
  BY <1>3, <1>4 DEF StoreInv, ThreadsOK
<1>7. Durable' /\ MigrationSaves' /\ ServicePathExists'
  BY <1>3, <1>4 DEF StoreInv, Durable, MigrationSaves, ServicePathExists
<1>8. OwedKept'
  BY <1>3, <1>4 DEF StoreInv, OwedKept, LoadFromName
<1> QED  BY <1>5, <1>6, <1>7, <1>8 DEF StoreInv

(* A save that fails removes its temporary file and returns the error. *)
LEMMA FailJobInv ==
    ASSUME StoreInv, NEW w \in Savers, FailJob(w)
    PROVE  StoreInv'
<1> DEFINE j == IF w = Mig THEN [job[w] EXCEPT !.pc = "failed"] ELSE IdleJob
<1>1. job[w].pc \in Saving /\ job[w] \in Jobs /\ IdleJob.pc = "idle"
  BY JobFacts DEF FailJob, Saving
<1>2. /\ j \in Jobs \cup {IdleJob} /\ j.pc \in {"failed", "idle"}
      /\ w = Mig => j.pc = "failed" /\ j.name = job[w].name /\ j.data = job[w].data
           /\ j.overwrite = job[w].overwrite
      /\ w # Mig => j.pc = "idle"
  BY <1>1 DEF Jobs
<1>3. job' = [job EXCEPT ![w] = j]
  BY DEF FailJob
<1>4. UNCHANGED <<dataDir, cached, file, plain, writing, mig, timer, fired, reg, watch, svc,
                  user, owed, unseen, orphaned>>
  BY DEF FailJob, storeDisk, storeMig, storeGhost
<1>5. changed' \in BOOLEAN /\ faults' \in 0..MaxFaults
  <2>1. faults \in 0..MaxFaults /\ changed \in BOOLEAN
    BY DEF StoreInv, StoreTypeOK
  <2>2. Fault \/ UNCHANGED faults
    BY DEF FailJob, NoFault
  <2> QED  BY <2>1, <2>2, FaultInRange DEF FailJob, NotesChange
<1> HIDE DEF j
<1>6. /\ DOMAIN job' = Savers /\ job' \in [Savers -> Jobs \cup {IdleJob}]
      /\ \A v \in Savers : job'[v].pc = "rename" => job'[v].durable
      /\ \A v \in Clients : job'[v].pc \in Saving \cup {"idle"}
      /\ job'[w] = j /\ \A v \in Savers : v # w => job'[v] = job[v]
  BY <1>2, <1>3, SetJob
<1>7. StoreTypeOK'
  BY <1>4, <1>5, <1>6 DEF StoreInv, StoreTypeOK
<1>8. ThreadsOK'
  BY <1>4, <1>6 DEF StoreInv, ThreadsOK
<1>9. Durable' /\ ServicePathExists'
  BY <1>4 DEF StoreInv, Durable, ServicePathExists
<1>10. MigrationSaves' /\ (mig.pc = "saving" /\ job'[Mig].pc = "done" => job[Mig].pc = "done")
  <2>1. CASE w = Mig
    <3>1. mig.pc = "saving"
      BY <2>1, <1>1 DEF StoreInv, MigrationSaves, Saving
    <3> QED  BY <2>1, <3>1, <1>2, <1>4, <1>6 DEF StoreInv, MigrationSaves
  <2>2. CASE w # Mig
    BY <2>2, <1>4, <1>6 DEF StoreInv, MigrationSaves, Savers
  <2> QED  BY <2>1, <2>2
<1>11. OwedKept'
  BY <1>4, <1>10 DEF StoreInv, OwedKept, LoadFromName
<1> QED  BY <1>7, <1>8, <1>9, <1>10, <1>11 DEF StoreInv

(* The rename of a save: the whole new configuration, flushed, or the old one. *)
LEMMA RenameInv ==
    ASSUME StoreInv, NEW w \in Savers, Rename(w)
    PROVE  StoreInv'
<1> DEFINE f == [blob |-> [name |-> job[w].name, data |-> job[w].data], durable |-> job[w].durable]
           j == IF w = Mig THEN [job[w] EXCEPT !.pc = "done"] ELSE IdleJob
<1>1. job[w].pc = "rename" /\ job[w] \in Jobs /\ job[w].durable /\ IdleJob.pc = "idle"
  BY JobFacts DEF Rename, Saving, StoreInv, ThreadsOK
<1>2. /\ j \in Jobs \cup {IdleJob} /\ j.pc \in {"done", "idle"}
      /\ w = Mig => j.pc = "done" /\ j.name = job[w].name /\ j.data = job[w].data
           /\ j.overwrite = job[w].overwrite
      /\ w # Mig => j.pc = "idle"
  BY <1>1 DEF Jobs
<1>3. /\ job' = [job EXCEPT ![w] = j] /\ file' = [file EXCEPT ![job[w].name] = f]
      /\ job[w].overwrite \/ file[job[w].name] = NoConf
      /\ owed' = IF w = Mig THEN owed ELSE [owed EXCEPT ![job[w].name] = NoConf]
      /\ UNCHANGED <<dataDir, cached, plain, writing, mig, timer, fired, reg, watch, svc,
                     user, faults, unseen, orphaned>>
      /\ changed' = (changed \/ watch # "off")
  BY DEF Rename, CanRename, Encrypt, NotesChange, storeMig
<1>4. job[w].name \in Names /\ job[w].data \in Contents /\ f \in StoredFiles /\ f.durable
      /\ f.blob.name = job[w].name /\ f.blob.data = job[w].data
  BY <1>1 DEF Jobs, StoredFiles, Blobs
<1> HIDE DEF j, f
<1>5. /\ DOMAIN job' = Savers /\ job' \in [Savers -> Jobs \cup {IdleJob}]
      /\ \A v \in Savers : job'[v].pc = "rename" => job'[v].durable
      /\ \A v \in Clients : job'[v].pc \in Saving \cup {"idle"}
      /\ job'[w] = j /\ \A v \in Savers : v # w => job'[v] = job[v]
  BY <1>2, <1>3, SetJob
<1>6. file' \in [Names -> StoredFiles \cup {NoConf}] /\ f # NoConf
      /\ file'[job[w].name] = f /\ \A n \in Names : n # job[w].name => file'[n] = file[n]
  BY <1>3, <1>4, StoreAssumption DEF StoreAssumption, StoreInv, StoreTypeOK
<1>7. StoreTypeOK'
  <2>1. changed' \in BOOLEAN
    BY <1>3 DEF StoreInv, StoreTypeOK
  <2> QED  BY <1>3, <1>5, <1>6, <2>1 DEF StoreInv, StoreTypeOK
<1>8. ThreadsOK'
  <2>1. owed' \in [Names -> Contents \cup {NoConf}]
    BY <1>3 DEF StoreInv, ThreadsOK
  <2> QED  BY <1>3, <1>5, <2>1 DEF StoreInv, ThreadsOK
<1>9. Durable' /\ ServicePathExists'
  BY <1>3, <1>4, <1>6 DEF StoreInv, Durable, ServicePathExists
<1>10. MigrationSaves' /\ (w # Mig => job'[Mig] = job[Mig])
       /\ (w = Mig => mig.pc = "saving" /\ job[w].name = mig.name /\ job[w].data = mig.data
            /\ ~job[w].overwrite)
  <2>1. CASE w = Mig
    <3>1. mig.pc = "saving"
      BY <2>1, <1>1 DEF StoreInv, MigrationSaves
    <3> QED  BY <2>1, <3>1, <1>2, <1>3, <1>5 DEF StoreInv, MigrationSaves
  <2>2. CASE w # Mig
    BY <2>2, <1>3, <1>5 DEF StoreInv, MigrationSaves, Savers
  <2> QED  BY <2>1, <2>2
<1>11. \A n \in Names : n # job[w].name => LoadFromName(n)' = LoadFromName(n)
  BY <1>6 DEF LoadFromName
<1>12. \A n \in Names : n = job[w].name => LoadFromName(n)' = job[w].data
  BY <1>4, <1>6 DEF LoadFromName, Decrypt
<1>13. OwedKept'
  <2> SUFFICES ASSUME NEW n \in Names, owed'[n] # NoConf
               PROVE  /\ owed'[n] = plain[n] \/ (plain[n] = NoConf /\ owed'[n] = LoadFromName(n)')
                      /\ n = mig.name /\ mig.pc \in {"saving", "remove"} => owed'[n] = mig.data
                      /\ n = mig.name /\ (mig.pc = "remove" \/ (mig.pc = "saving"
                           /\ job'[Mig].pc = "done"))
                             => owed'[n] = LoadFromName(n)'
    BY <1>3 DEF OwedKept
  <2>1. owed'[n] = owed[n] /\ (w # Mig => n # job[w].name)
    BY <1>3 DEF StoreInv, ThreadsOK
  <2>2. CASE n # job[w].name
    BY <2>1, <2>2, <1>10, <1>11 DEF StoreInv, OwedKept
  <2>3. CASE n = job[w].name
    <3>1. w = Mig /\ file[n] = NoConf /\ LoadFromName(n) = NoConf
      BY <2>1, <2>3, <1>3, <1>10 DEF LoadFromName
    <3> QED  BY <2>1, <2>3, <3>1, <1>10, <1>12 DEF StoreInv, OwedKept
  <2> QED  BY <2>2, <2>3
<1> QED  BY <1>7, <1>8, <1>9, <1>10, <1>13 DEF StoreInv

(* The migration reads a plaintext file and begins its Save. *)
LEMMA ReadsPlainInv ==
    ASSUME StoreInv, NEW n \in Names, ReadsPlain(n)
    PROVE  StoreInv'
<1> DEFINE j == BeginJob(n, plain[n], FALSE)
<1>1. /\ mig.pc = "next" /\ n \in mig.todo /\ plain[n] \in Contents /\ plain[n] # NoConf
      /\ mig \in Migrations /\ Mig \in Savers
  BY DEF ReadsPlain, StoreInv, StoreTypeOK, ThreadsOK, MigrationSaves, Savers
<1>2. j \in Jobs /\ j.pc = "create" /\ j.name = n /\ j.data = plain[n] /\ ~j.overwrite
        /\ job' = [job EXCEPT ![Mig] = j]
  BY <1>1 DEF ReadsPlain, BeginJob, Jobs, Saving
<1>3. /\ mig' \in Migrations /\ mig'.pc = "saving" /\ mig'.name = n /\ mig'.data = plain[n]
      /\ mig'.todo = mig.todo \ {n} /\ mig'.base = mig.base
  BY <1>1 DEF ReadsPlain, Migrations
<1>4. UNCHANGED <<dataDir, cached, file, plain, writing, timer, fired, reg, watch, changed,
                  svc, user, faults, owed, unseen, orphaned>>
  BY DEF ReadsPlain, storeDisk, storeGhost
<1> HIDE DEF j
<1>5. /\ DOMAIN job' = Savers /\ job' \in [Savers -> Jobs \cup {IdleJob}]
      /\ \A v \in Savers : job'[v].pc = "rename" => job'[v].durable
      /\ \A v \in Clients : job'[v].pc \in Saving \cup {"idle"}
      /\ job'[Mig] = j
  BY <1>1, <1>2, SetJob
<1>6. StoreTypeOK'
  BY <1>3, <1>4, <1>5 DEF StoreInv, StoreTypeOK
<1>7. ThreadsOK'
  BY <1>1, <1>3, <1>4, <1>5 DEF StoreInv, ThreadsOK
<1>8. Durable' /\ ServicePathExists' /\ MigrationSaves'
  BY <1>1, <1>2, <1>3, <1>4, <1>5 DEF StoreInv, Durable, ServicePathExists, MigrationSaves
<1>9. OwedKept'
  BY <1>1, <1>2, <1>3, <1>4, <1>5 DEF StoreInv, OwedKept, LoadFromName
<1> QED  BY <1>6, <1>7, <1>8, <1>9 DEF StoreInv

(* Save returns to the migration. *)
LEMMA SaveReturnsInv ==
    ASSUME StoreInv, SaveReturns
    PROVE  StoreInv'
<1>1. Mig \in Savers /\ mig \in Migrations /\ mig.pc = "saving" /\ IdleJob.pc = "idle"
  BY DEF SaveReturns, StoreInv, ThreadsOK, Savers, IdleJob
<1>2. /\ mig' \in Migrations /\ mig'.pc \in {"remove", "next"}
        /\ (mig'.pc = "remove" => job[Mig].pc = "done")
      /\ mig'.name = mig.name /\ mig'.data = mig.data /\ mig'.todo = mig.todo
           /\ mig'.base = mig.base
  BY <1>1 DEF SaveReturns, Migrations
<1>3. UNCHANGED <<dataDir, cached, file, plain, writing, timer, fired, reg, watch, changed,
                  svc, user, faults, owed, unseen, orphaned>>
  BY DEF SaveReturns, storeDisk, storeGhost
<1>4. /\ DOMAIN job' = Savers /\ job' \in [Savers -> Jobs \cup {IdleJob}]
      /\ \A v \in Savers : job'[v].pc = "rename" => job'[v].durable
      /\ \A v \in Clients : job'[v].pc \in Saving \cup {"idle"}
      /\ job'[Mig] = IdleJob
  <2>1. job' = [job EXCEPT ![Mig] = IdleJob]
    BY DEF SaveReturns
  <2> QED  BY <1>1, <2>1, SetJob
<1>5. StoreTypeOK'
  BY <1>2, <1>3, <1>4 DEF StoreInv, StoreTypeOK
<1>6. ThreadsOK'
  BY <1>1, <1>2, <1>3, <1>4 DEF StoreInv, ThreadsOK
<1>7. Durable' /\ ServicePathExists' /\ MigrationSaves'
  BY <1>1, <1>2, <1>3, <1>4 DEF StoreInv, Durable, ServicePathExists, MigrationSaves
<1>8. OwedKept'
  BY <1>1, <1>2, <1>3, <1>4 DEF StoreInv, OwedKept, LoadFromName
<1> QED  BY <1>5, <1>6, <1>7, <1>8 DEF StoreInv

(* The plaintext is removed only once the encrypted configuration has its text. *)
LEMMA RemovesPlainInv ==
    ASSUME StoreInv, RemovesPlain
    PROVE  StoreInv'
<1>1. mig \in Migrations /\ mig.pc = "remove" /\ mig.name \in Names /\ mig.name \notin mig.todo
  BY DEF RemovesPlain, StoreInv, ThreadsOK, MigrationSaves
<1>2. /\ mig' \in Migrations /\ mig'.pc = "callback" /\ mig'.name = mig.name /\ mig'.data = mig.data
      /\ mig'.todo = mig.todo /\ mig'.base = mig.base
  BY <1>1 DEF RemovesPlain, Migrations
<1>3. /\ UNCHANGED <<dataDir, cached, file, writing, job, timer, fired, reg, watch, svc, user,
                     faults, owed, unseen, orphaned>>
      /\ changed' \in BOOLEAN
  BY DEF RemovesPlain, NotesChange, storeGhost, StoreInv, StoreTypeOK
<1>4. /\ plain' \in [Names -> Contents \cup {NoConf}] /\ plain'[mig.name] = NoConf
      /\ \A n \in Names : n # mig.name => plain'[n] = plain[n]
  BY <1>1 DEF RemovesPlain, StoreInv, StoreTypeOK
<1>5. StoreTypeOK'
  BY <1>2, <1>3, <1>4 DEF StoreInv, StoreTypeOK
<1>6. ThreadsOK'
  BY <1>1, <1>2, <1>3 DEF StoreInv, ThreadsOK
<1>7. Durable' /\ ServicePathExists'
  BY <1>1, <1>2, <1>3, <1>4 DEF StoreInv, Durable, ServicePathExists
<1>8. MigrationSaves'
  <2>1. mig.todo \subseteq Names
    BY <1>1 DEF Migrations
  <2> QED  BY <1>1, <1>2, <1>3, <1>4, <2>1 DEF StoreInv, MigrationSaves
<1>9. OwedKept'
  BY <1>1, <1>2, <1>3, <1>4 DEF StoreInv, OwedKept, LoadFromName
<1> QED  BY <1>5, <1>6, <1>7, <1>8, <1>9 DEF StoreInv

(* The callback points the service of the tunnel at the encrypted file, or *)
(* leaves it behind.                                                       *)
LEMMA MigratedInv ==
    ASSUME StoreInv, Migrated
    PROVE  StoreInv'
<1>1. mig \in Migrations /\ mig.pc = "callback" /\ mig.name \in Names
  BY DEF Migrated, StoreInv, ThreadsOK
<1>2. mig' \in Migrations /\ mig'.pc = "next" /\ mig'.todo = mig.todo /\ mig'.base = mig.base
  BY <1>1 DEF Migrated, Migrations
<1>3. UNCHANGED <<dataDir, cached, file, plain, writing, job, timer, fired, reg, watch,
                  changed, user, owed, unseen>>
  BY DEF Migrated, storeDisk
<1>4. /\ svc' \in [Names -> {"none", "asked", "plain", "encrypted"}]
      /\ svc'[mig.name] = "plain" => mig.name \in orphaned'
      /\ \A n \in Names : n # mig.name => svc'[n] = svc[n]
      /\ orphaned \subseteq orphaned' /\ orphaned' \subseteq orphaned \cup {mig.name}
  BY <1>1 DEF Migrated, LeavesService, StoreInv, StoreTypeOK
<1>9. faults' \in 0..MaxFaults
  BY FaultInRange DEF Migrated, NoFault, StoreInv, StoreTypeOK
<1>5. StoreTypeOK'
  BY <1>2, <1>3, <1>4, <1>9 DEF StoreInv, StoreTypeOK
<1>6. ThreadsOK'
  BY <1>1, <1>2, <1>3, <1>4 DEF StoreInv, ThreadsOK
<1>7. Durable' /\ ServicePathExists' /\ MigrationSaves'
  BY <1>1, <1>2, <1>3, <1>4 DEF StoreInv, Durable, ServicePathExists, MigrationSaves
<1>8. OwedKept'
  BY <1>1, <1>2, <1>3 DEF StoreInv, OwedKept, LoadFromName
<1> QED  BY <1>5, <1>6, <1>7, <1>8 DEF StoreInv

(* A configuration that is deleted is owed to nobody. *)
LEMMA DeleteNameInv ==
    ASSUME StoreInv, NEW n \in Names, DeleteName(n)
    PROVE  StoreInv'
<1>1. /\ UNCHANGED <<dataDir, cached, plain, writing, job, mig, timer, fired, reg, watch, svc,
                     faults, orphaned>>
      /\ changed' \in BOOLEAN /\ unseen' \subseteq Names
  BY DEF DeleteName, NotesChange, MissedIfOff, storeMig, StoreInv, StoreTypeOK, ThreadsOK
<1>2. /\ file' \in [Names -> StoredFiles \cup {NoConf}] /\ file'[n] = NoConf
      /\ \A m \in Names : m # n => file'[m] = file[m]
  BY DEF DeleteName, StoreInv, StoreTypeOK
<1>3. /\ owed' \in [Names -> Contents \cup {NoConf}] /\ owed'[n] = NoConf
      /\ \A m \in Names : m # n => owed'[m] = owed[m]
  BY DEF DeleteName, StoreInv, ThreadsOK
<1>4. StoreTypeOK'
  <2>1. user' \in 0..MaxUser
    BY UserInRange DEF DeleteName, StoreInv, StoreTypeOK
  <2> QED  BY <1>1, <1>2, <2>1 DEF StoreInv, StoreTypeOK
<1>5. ThreadsOK'
  BY <1>1, <1>3 DEF StoreInv, ThreadsOK
<1>6. Durable' /\ ServicePathExists' /\ MigrationSaves'
  BY <1>1, <1>2 DEF StoreInv, Durable, ServicePathExists, MigrationSaves
<1>7. OwedKept'
  BY <1>1, <1>2, <1>3 DEF StoreInv, OwedKept, LoadFromName
<1> QED  BY <1>4, <1>5, <1>6, <1>7 DEF StoreInv

(* An administrator's move deletes two configurations at once: the moved file *)
(* does not answer for its new name.                                          *)
LEMMA AdminMovesInv ==
    ASSUME StoreInv, NEW n \in Names, NEW m \in Names, AdminMoves(n, m)
    PROVE  StoreInv'
<1>1. /\ UNCHANGED <<dataDir, cached, plain, writing, job, mig, timer, fired, reg, watch, svc,
                     faults, orphaned>>
      /\ changed' \in BOOLEAN /\ unseen' \subseteq Names /\ n # m /\ file[n] # NoConf
  BY DEF AdminMoves, NotesChange, MissedIfOff, storeMig, StoreInv, StoreTypeOK, ThreadsOK
<1>2. /\ file' \in [Names -> StoredFiles \cup {NoConf}] /\ file'[n] = NoConf /\ file'[m] = file[n]
      /\ \A k \in Names : k # n /\ k # m => file'[k] = file[k]
  BY <1>1 DEF AdminMoves, StoreInv, StoreTypeOK
<1>3. /\ owed' \in [Names -> Contents \cup {NoConf}] /\ owed'[n] = NoConf /\ owed'[m] = NoConf
      /\ \A k \in Names : k # n /\ k # m => owed'[k] = owed[k]
  BY DEF AdminMoves, StoreInv, ThreadsOK
<1>4. StoreTypeOK'
  <2>1. user' \in 0..MaxUser
    BY UserInRange DEF AdminMoves, StoreInv, StoreTypeOK
  <2> QED  BY <1>1, <1>2, <2>1 DEF StoreInv, StoreTypeOK
<1>5. ThreadsOK'
  BY <1>1, <1>3 DEF StoreInv, ThreadsOK
<1>6. Durable' /\ ServicePathExists' /\ MigrationSaves'
  BY <1>1, <1>2 DEF StoreInv, Durable, ServicePathExists, MigrationSaves
<1>7. OwedKept'
  BY <1>1, <1>2, <1>3 DEF StoreInv, OwedKept, LoadFromName
<1> QED  BY <1>4, <1>5, <1>6, <1>7 DEF StoreInv

(* A user writes a plaintext file, also one the migration has read already. *)
LEMMA UserOpensInv ==
    ASSUME StoreInv, NEW n \in Names, NEW c \in Contents, UserOpens(n, c)
    PROVE  StoreInv'
<1>1. /\ UNCHANGED <<dataDir, cached, file, job, mig, timer, fired, reg, watch, svc, faults,
                     unseen, orphaned>>
      /\ changed' \in BOOLEAN /\ writing' \subseteq Names /\ c # NoConf
  BY StoreAssumption DEF StoreAssumption, UserOpens, NotesChange, storeMig, StoreInv, StoreTypeOK
<1>2. /\ plain' \in [Names -> Contents \cup {NoConf}] /\ plain'[n] = c
      /\ \A m \in Names : m # n => plain'[m] = plain[m]
  BY DEF UserOpens, StoreInv, StoreTypeOK
<1>3. /\ owed' \in [Names -> Contents \cup {NoConf}]
      /\ owed'[n] = IF mig.name = n /\ mig.pc \in {"saving", "remove"} THEN NoConf ELSE c
      /\ \A m \in Names : m # n => owed'[m] = owed[m]
  BY DEF UserOpens, StoreInv, ThreadsOK
<1>4. StoreTypeOK'
  <2>1. user' \in 0..MaxUser
    BY UserInRange DEF UserOpens, StoreInv, StoreTypeOK
  <2> QED  BY <1>1, <1>2, <2>1 DEF StoreInv, StoreTypeOK
<1>5. ThreadsOK'
  BY <1>1, <1>3 DEF StoreInv, ThreadsOK
<1>6. Durable' /\ ServicePathExists'
  BY <1>1, <1>2 DEF StoreInv, Durable, ServicePathExists
<1>7. MigrationSaves'
  <2>1. mig.todo \subseteq Names
    BY DEF StoreInv, ThreadsOK, Migrations
  <2> QED  BY <1>1, <1>2, <2>1 DEF StoreInv, MigrationSaves
<1>8. OwedKept'
  BY <1>1, <1>2, <1>3 DEF StoreInv, OwedKept, LoadFromName
<1> QED  BY <1>4, <1>5, <1>6, <1>7, <1>8 DEF StoreInv

(* A service is asked for with the path of a plaintext file that exists. *)
LEMMA UserInstallsInv ==
    ASSUME StoreInv, NEW n \in Names, UserInstalls(n)
    PROVE  StoreInv'
<1>1. /\ UNCHANGED <<dataDir, cached, file, plain, writing, job, mig, timer, fired, reg,
                     watch, changed, faults, owed, unseen, orphaned>>
  BY DEF UserInstalls, storeDisk, storeMig, storeGhost
<1>2. /\ svc' \in [Names -> {"none", "asked", "plain", "encrypted"}] /\ svc'[n] # "plain"
      /\ \A m \in Names : m # n => svc'[m] = svc[m]
  BY DEF UserInstalls, StoreInv, StoreTypeOK
<1>3. StoreTypeOK'
  <2>1. user' \in 0..MaxUser
    BY UserInRange DEF UserInstalls, StoreInv, StoreTypeOK
  <2> QED  BY <1>1, <1>2, <2>1 DEF StoreInv, StoreTypeOK
<1>4. ThreadsOK'
  BY <1>1 DEF StoreInv, ThreadsOK
<1>5. Durable' /\ ServicePathExists' /\ MigrationSaves'
  BY <1>1, <1>2 DEF StoreInv, Durable, ServicePathExists, MigrationSaves
<1>6. OwedKept'
  BY <1>1 DEF StoreInv, OwedKept, LoadFromName
<1> QED  BY <1>3, <1>4, <1>5, <1>6 DEF StoreInv

(* It is created whether the file is still there or not. *)
LEMMA InstallsServiceInv ==
    ASSUME StoreInv, NEW n \in Names, InstallsService(n)
    PROVE  StoreInv'
<1>1. UNCHANGED <<dataDir, cached, file, plain, writing, job, mig, timer, fired, reg, watch,
                  changed, user, owed, unseen>>
  BY DEF InstallsService, storeDisk, storeMig
<1>2. /\ svc' \in [Names -> {"none", "asked", "plain", "encrypted"}]
      /\ svc'[n] = "plain" /\ plain[n] = NoConf =>
           n \in orphaned' \/ (mig.pc = "callback" /\ mig.name = n)
      /\ \A m \in Names : m # n => svc'[m] = svc[m]
      /\ orphaned \subseteq orphaned' /\ orphaned' \subseteq orphaned \cup {n}
  BY DEF InstallsService, StoreInv, StoreTypeOK
<1>3. faults' \in 0..MaxFaults
  BY FaultInRange DEF InstallsService, NoFault, StoreInv, StoreTypeOK
<1>4. StoreTypeOK'
  BY <1>1, <1>2, <1>3 DEF StoreInv, StoreTypeOK
<1>5. ThreadsOK'
  BY <1>1, <1>2 DEF StoreInv, ThreadsOK
<1>6. Durable' /\ ServicePathExists' /\ MigrationSaves'
  BY <1>1, <1>2 DEF StoreInv, Durable, ServicePathExists, MigrationSaves
<1>7. OwedKept'
  BY <1>1 DEF StoreInv, OwedKept, LoadFromName
<1> QED  BY <1>4, <1>5, <1>6, <1>7 DEF StoreInv

(* What is in the directory was flushed, so that not even a power loss tears it. *)
LEMMA NothingTorn ==
    ASSUME StoreInv, NEW p \in BOOLEAN, ManagerDies(p)
    PROVE  file' = file
  BY DEF ManagerDies, StoreInv, StoreTypeOK, Durable

(* The manager dies: the saves and the migration are forgotten, the files stay. *)
LEMMA ManagerDiesInv ==
    ASSUME StoreInv, NEW p \in BOOLEAN, ManagerDies(p)
    PROVE  StoreInv'
<1>1. /\ UNCHANGED <<dataDir, file, plain, writing, svc, user, owed, unseen>>
      /\ cached' = FALSE /\ mig' = IdleMig /\ job' = [w \in Savers |-> IdleJob]
      /\ timer' = NoConf /\ fired' = {} /\ reg' = "start" /\ watch' = "off" /\ changed' = FALSE
  BY NothingTorn DEF ManagerDies
<1>2. orphaned' = IF mig.pc = "callback" /\ svc[mig.name] = "plain"
                   THEN orphaned \cup {mig.name} ELSE orphaned
  BY DEF ManagerDies, LeavesService
<1>3. IdleMig \in Migrations /\ IdleMig.pc = "idle" /\ IdleMig.todo = {} /\ IdleMig.base = 0
        /\ 0 \in 0..SharingBase
      /\ IdleJob.pc = "idle"
  BY StoreAssumption DEF StoreAssumption, IdleMig, IdleJob, Migrations
<1>4. faults' \in 0..MaxFaults
  BY FaultInRange DEF ManagerDies, StoreInv, StoreTypeOK
<1>5. StoreTypeOK'
  BY <1>1, <1>3, <1>4 DEF StoreInv, StoreTypeOK
<1>6. ThreadsOK'
  <2>1. orphaned' \subseteq Names
    BY <1>2 DEF StoreInv, ThreadsOK
  <2> QED  BY <1>1, <1>3, <2>1 DEF StoreInv, ThreadsOK, Saving, Savers
<1>7. Durable' /\ ServicePathExists' /\ MigrationSaves'
  BY <1>1, <1>2, <1>3 DEF StoreInv, Durable, ServicePathExists, MigrationSaves, Savers
<1>8. OwedKept'
  BY <1>1, <1>3 DEF StoreInv, OwedKept, LoadFromName
<1> QED  BY <1>5, <1>6, <1>7, <1>8 DEF StoreInv

(* Every step of the store keeps its invariant. *)
LEMMA StoreStepInv == StoreInv /\ [StoreNext]_storeVars => StoreInv'
<1> SUFFICES ASSUME StoreInv, [StoreNext]_storeVars PROVE StoreInv'
  OBVIOUS
<1>1. CASE UNCHANGED storeVars
  <2>1. UNCHANGED <<dataDir, cached, file, plain, writing, job, mig, timer, fired, reg, watch,
                    changed, svc, user, faults, owed, unseen, orphaned>>
    BY <1>1 DEF storeVars, storeDisk, storeMig, storeGhost
  <2>2. StoreTypeOK' /\ unseen' \subseteq Names
    BY <2>1 DEF StoreInv, StoreTypeOK, ThreadsOK
  <2> QED  BY <2>1, <2>2, Elsewhere
<1>2. ASSUME NEW w \in Savers, JobStep(w) PROVE StoreInv'
  BY <1>2, StepJobInv, RenameInv, FailJobInv DEF JobStep
<1>3. CASE MigrationStep
  BY <1>3, NextFileInv, SaveReturnsInv, RemovesPlainInv, MigratedInv,
      ReadsPlainInv DEF MigrationStep
<1>4. CASE ResolveDirectory \/ RegisterStep \/ TimerFires \/ TimerStep \/ WatchStep \/ WatchFails
  BY <1>4, AroundInv, CallersInv DEF RegisterStep, WatchStep
<1>5. ASSUME NEW w \in Clients, NEW n \in Names, NEW c \in Contents, Create(w, n, c) PROVE StoreInv'
  BY <1>5, CreateInv
<1>6. ASSUME NEW n \in Names,
             DeleteName(n) \/ UserCloses(n) \/ UserInstalls(n) \/ InstallsService(n)
      PROVE  StoreInv'
  BY <1>6, DeleteNameInv, AroundInv, UserInstallsInv, InstallsServiceInv
<1>7. ASSUME NEW n \in Names, NEW c \in Contents, UserOpens(n, c) PROVE StoreInv'
  BY <1>7, UserOpensInv
<1>8. ASSUME NEW n \in Names, NEW m \in Names, AdminMoves(n, m) PROVE StoreInv'
  BY <1>8, AdminMovesInv
<1>9. ASSUME NEW p \in BOOLEAN, ManagerDies(p) PROVE StoreInv'
  BY <1>9, ManagerDiesInv
<1> QED  BY <1>1, <1>2, <1>3, <1>4, <1>5, <1>6, <1>7, <1>8, <1>9 DEF StoreNext

(* The invariant of the store holds always. *)
LEMMA StoreInvariant == StoreSpec => []StoreInv
<1>1. StoreInit => StoreInv
  BY StoreInitInv
<1>2. StoreInv /\ [StoreNext]_storeVars => StoreInv'
  BY StoreStepInv
<1> QED  BY <1>1, <1>2, PTL DEF StoreSpec

(* No configuration a user handed to the store is lost, whatever step of a *)
(* save or of the migration fails or dies, and a tunnel service is left    *)
(* with the path of a file the migration has removed only if the manager   *)
(* died, or a call failed, when it was about to be rewritten, or it was    *)
(* created after that (migration_windows.go, install.go:370).              *)
THEOREM StoreKeepsConfigs == StoreSpec => []ConfigsKept
<1>1. StoreInv => ConfigsKept
  BY DEF StoreInv, ConfigsKept, NoConfigLost, OwedKept
<1> QED  BY <1>1, StoreInvariant, PTL

-----------------------------------------------------------------------------
(* The abstract store and the abstract requests in a state of the detailed one. *)
Stored == [n \in Names |-> BlobOf(n)]
Requests == [w \in Savers |-> RequestOf(w)]

(* A save under way is a request, and only a save under way is. *)
LEMMA RequestFacts ==
    ASSUME StoreInv, NEW w \in Savers
    PROVE  /\ job[w].pc \in Saving => /\ RequestOf(w) = <<job[w].name, job[w].data,
                                                          job[w].overwrite>>
                                      /\ RequestOf(w) \in Names \X Contents \X BOOLEAN
                                      /\ RequestOf(w) # NoConf
           /\ job[w].pc \notin Saving => RequestOf(w) = NoConf
<1>1. CASE job[w].pc \in Saving
  <2>1. job[w] \in Jobs
    BY <1>1, JobFacts
  <2>2. RequestOf(w) = <<job[w].name, job[w].data, job[w].overwrite>>
    BY <1>1 DEF RequestOf, Saving
  <2>3. RequestOf(w) \in Names \X Contents \X BOOLEAN
    BY <2>1, <2>2 DEF Jobs
  <2> QED  BY <1>1, <2>2, <2>3, StoreAssumption DEF StoreAssumption
<1>2. CASE job[w].pc \notin Saving
  BY <1>2 DEF RequestOf, Saving
<1> QED  BY <1>1, <1>2

(* A step that changes no file and no save is no step of the abstract store. *)
LEMMA NothingAbstract ==
    ASSUME UNCHANGED <<file, job>>
    PROVE  UNCHANGED <<Stored, Requests>>
  BY DEF Stored, Requests, BlobOf, RequestOf

(* The requests of all others stay when one save changes. *)
LEMMA OneRequest ==
    ASSUME NEW w \in Savers, \A v \in Savers : v # w => job'[v] = job[v]
    PROVE  /\ \A v \in Savers : v # w => RequestOf(v)' = RequestOf(v)
           /\ Requests' = [Requests EXCEPT ![w] = RequestOf(w)']
  BY DEF Requests, RequestOf

(* StepJob is invisible, a save begins as a Request and ends as a Commit or an Abort. *)
LEMMA StepJobAbstract ==
    ASSUME StoreInv, NEW w \in Savers, StepJob(w)
    PROVE  UNCHANGED <<Stored, Requests>>
<1>1. file' = file
  BY DEF StepJob, storeDisk
<1>2. job[w] \in Jobs /\ job[w].pc \in {"create", "write", "flush"}
  BY JobFacts DEF StepJob, Saving
<1>3. job' = [job EXCEPT ![w].pc = NextOf[job[w].pc], ![w].durable = (job[w].pc = "flush")]
  BY DEF StepJob
<1>4. /\ \A v \in Savers : v # w => job'[v] = job[v]
      /\ job'[w].pc \in {"write", "flush", "rename"}
      /\ job'[w].name = job[w].name /\ job'[w].data = job[w].data
           /\ job'[w].overwrite = job[w].overwrite
  BY <1>2, <1>3 DEF NextOf, StoreInv, StoreTypeOK, ThreadsOK, Jobs
<1>5. RequestOf(w)' = RequestOf(w)
  BY <1>2, <1>4 DEF RequestOf
<1> QED  BY <1>1, <1>4, <1>5, OneRequest DEF Stored, Requests, BlobOf

(* A save that begins is a Request. *)
LEMMA BeginsAbstract ==
    ASSUME StoreInv, NEW w \in Savers, NEW n \in Names, NEW c \in Contents, NEW o \in BOOLEAN,
           job[w] = IdleJob, job' = [job EXCEPT ![w] = BeginJob(n, c, o)], file' = file
    PROVE  Abstract!Request(w)
<1>1. RequestOf(w) = NoConf /\ Requests[w] = NoConf
  BY DEF RequestOf, Requests, IdleJob
<1>2. job'[w] = BeginJob(n, c, o) /\ \A v \in Savers : v # w => job'[v] = job[v]
  BY DEF StoreInv, StoreTypeOK, ThreadsOK
<1>3. RequestOf(w)' = <<n, c, o>>
  BY <1>2 DEF RequestOf, BeginJob
<1>4. Requests' = [Requests EXCEPT ![w] = <<n, c, o>>]
        /\ <<n, c, o>> \in Names \X Contents \X BOOLEAN
  BY <1>2, <1>3, OneRequest
<1>5. Stored' = Stored
  BY DEF Stored, BlobOf
<1> QED  BY <1>1, <1>4, <1>5 DEF Abstract!Request, Stored, Requests

(* A save that fails is an Abort. *)
LEMMA FailsAbstract ==
    ASSUME StoreInv, NEW w \in Savers, FailJob(w)
    PROVE  Abstract!Abort(w)
<1>1. job[w] \in Jobs /\ job[w].pc \in Saving /\ IdleJob.pc = "idle"
  BY JobFacts DEF FailJob, Saving
<1>2. Requests[w] # NoConf
  BY <1>1, RequestFacts DEF Requests
<1>3. job'[w].pc \in {"failed", "idle"} /\ \A v \in Savers : v # w => job'[v] = job[v]
  BY <1>1 DEF FailJob, StoreInv, StoreTypeOK, ThreadsOK, Jobs
<1>4. RequestOf(w)' = NoConf
  BY <1>3 DEF RequestOf
<1>5. Requests' = [Requests EXCEPT ![w] = NoConf]
  BY <1>3, <1>4, OneRequest
<1>6. Stored' = Stored
  BY DEF FailJob, storeDisk, Stored, BlobOf
<1> QED  BY <1>2, <1>5, <1>6 DEF Abstract!Abort, Stored, Requests

(* A rename is a Commit: the new configuration is there at once, whole, and only *)
(* where it may overwrite or there was none.                                     *)
LEMMA RenameAbstract ==
    ASSUME StoreInv, NEW w \in Savers, Rename(w)
    PROVE  Abstract!Commit(w)
<1> DEFINE f == [blob |-> [name |-> job[w].name, data |-> job[w].data], durable |-> job[w].durable]
<1>1. job[w] \in Jobs /\ job[w].pc \in Saving /\ IdleJob.pc = "idle"
  BY JobFacts DEF Rename, Saving
<1>2. /\ file' = [file EXCEPT ![job[w].name] = f]
      /\ job[w].overwrite \/ file[job[w].name] = NoConf
  BY DEF Rename, CanRename, Encrypt
<1>3. job[w].name \in Names /\ job[w].data \in Contents /\ f \in StoredFiles /\ f # NoConf
      /\ f.blob = [name |-> job[w].name, data |-> job[w].data]
  BY <1>1, StoreAssumption DEF StoreAssumption, Jobs, StoredFiles, Blobs
<1>4. Requests[w] = <<job[w].name, job[w].data, job[w].overwrite>> /\ Requests[w] # NoConf
  BY <1>1, RequestFacts DEF Requests
<1>5. job'[w].pc \in {"done", "idle"} /\ \A v \in Savers : v # w => job'[v] = job[v]
  BY <1>1 DEF Rename, StoreInv, StoreTypeOK, ThreadsOK, Jobs
<1>6. Requests' = [Requests EXCEPT ![w] = NoConf]
  <2>1. RequestOf(w)' = NoConf
    BY <1>5 DEF RequestOf
  <2> QED  BY <1>5, <2>1, OneRequest
<1> HIDE DEF f
<1>7. file'[job[w].name] = f /\ \A n \in Names : n # job[w].name => file'[n] = file[n]
  BY <1>2, <1>3 DEF StoreInv, StoreTypeOK
<1>8. \A n \in Names : BlobOf(n)' = IF n = job[w].name THEN f.blob ELSE BlobOf(n)
  BY <1>3, <1>7 DEF BlobOf
<1>9. Stored' = [Stored EXCEPT ![job[w].name] = f.blob]
  BY <1>3, <1>8 DEF Stored
<1>10. job[w].overwrite \/ Stored[job[w].name] = NoConf
  BY <1>2, <1>3 DEF Stored, BlobOf
<1> QED
  <2> DEFINE r == Requests[w]
  <2>1. r[1] = job[w].name /\ r[2] = job[w].data /\ r[3] = job[w].overwrite
    BY <1>4
  <2>2. (r[3] \/ Stored[r[1]] = NoConf)
          /\ Stored' = [Stored EXCEPT ![r[1]] = [name |-> r[1], data |-> r[2]]] /\ r # NoConf
    BY <1>3, <1>4, <1>9, <1>10, <2>1
  <2> QED  BY <1>6, <2>2 DEF Abstract!Commit, Stored, Requests

(* DeleteName is a Remove. *)
LEMMA DeleteAbstract ==
    ASSUME StoreInv, NEW n \in Names, DeleteName(n)
    PROVE  Abstract!Remove(n)
<1>1. job' = job /\ \A k \in Names : file'[k] = IF k = n THEN NoConf ELSE file[k]
  BY DEF DeleteName, StoreInv, StoreTypeOK
<1>2. Requests' = Requests
  BY <1>1 DEF Requests, RequestOf
<1>3. \A k \in Names : BlobOf(k)' = IF k = n THEN NoConf ELSE BlobOf(k)
  BY <1>1 DEF BlobOf
<1>4. Stored' = [Stored EXCEPT ![n] = NoConf]
  BY <1>3 DEF Stored
<1> QED  BY <1>2, <1>4 DEF Abstract!Remove, Stored, Requests

(* An administrator's move is a Move. *)
LEMMA MovesAbstract ==
    ASSUME StoreInv, NEW n \in Names, NEW m \in Names, AdminMoves(n, m)
    PROVE  Abstract!Move(n, m)
<1>1. /\ job' = job /\ file[n] # NoConf /\ n # m
      /\ \A k \in Names : file'[k] = IF k = n THEN NoConf ELSE IF k = m THEN file[n] ELSE file[k]
  BY DEF AdminMoves, StoreInv, StoreTypeOK
<1>2. Requests' = Requests
  BY <1>1 DEF Requests, RequestOf
<1>3. file[n] \in StoredFiles /\ file[n].blob # NoConf
  BY <1>1, StoreAssumption DEF StoreAssumption, StoredFiles, StoreInv, StoreTypeOK
<1>4. \A k \in Names : BlobOf(k)' = IF k = n THEN NoConf ELSE IF k = m THEN BlobOf(n) ELSE BlobOf(k)
  BY <1>1 DEF BlobOf
<1>5. Stored' = [Stored EXCEPT ![m] = Stored[n], ![n] = NoConf] /\ Stored[n] # NoConf
  BY <1>1, <1>3, <1>4 DEF Stored, BlobOf
<1> QED  BY <1>1, <1>2, <1>5 DEF Abstract!Move, Stored, Requests

(* The manager's death is a Crash. *)
LEMMA DiesAbstract ==
    ASSUME StoreInv, NEW p \in BOOLEAN, ManagerDies(p)
    PROVE  Abstract!Crash
<1>1. file' = file /\ job' = [w \in Savers |-> IdleJob] /\ IdleJob.pc = "idle"
  BY NothingTorn DEF ManagerDies, IdleJob
<1>2. Requests' = [w \in Savers |-> NoConf]
  BY <1>1 DEF Requests, RequestOf
<1>3. Stored' = Stored
  BY <1>1 DEF Stored, BlobOf
<1> QED  BY <1>2, <1>3 DEF Abstract!Crash, Stored, Requests

(* Every step of the detailed store is a step of the abstract one or invisible. *)
LEMMA StoreStepAbstract ==
    StoreInv /\ [StoreNext]_storeVars => [Abstract!Next]_<<Stored, Requests>>
<1> SUFFICES ASSUME StoreInv, [StoreNext]_storeVars
             PROVE  Abstract!Next \/ UNCHANGED <<Stored, Requests>>
  OBVIOUS
<1> USE DEF storeDisk, storeMig, storeGhost
<1>1. CASE UNCHANGED storeVars
  BY <1>1, NothingAbstract DEF storeVars
<1>2. ASSUME NEW w \in Savers, JobStep(w) PROVE Abstract!Next \/ UNCHANGED <<Stored, Requests>>
  BY <1>2, StepJobAbstract, RenameAbstract, FailsAbstract DEF JobStep, Abstract!Next
<1>3. CASE MigrationStep
  <2>1. CASE MigrationEnds \/ RemovesPlain \/ RemoveFails \/ Migrated
    BY <2>1, NothingAbstract DEF MigrationEnds, RemovesPlain, RemoveFails, Migrated
  <2>2. CASE SaveReturns
    <3>1. file' = file /\ \A v \in Savers : v # Mig => job'[v] = job[v]
      BY <2>2 DEF SaveReturns, StoreInv, StoreTypeOK, ThreadsOK
    <3>2. RequestOf(Mig) = NoConf /\ RequestOf(Mig)' = NoConf
      BY <2>2 DEF SaveReturns, RequestOf, IdleJob, StoreInv, StoreTypeOK, ThreadsOK, Savers
    <3> QED  BY <3>1, <3>2, OneRequest DEF Stored, Requests, BlobOf, Savers
  <2>3. ASSUME NEW n \in Names, SkipsLocked(n) \/ PlainFails(n) PROVE UNCHANGED <<Stored, Requests>>
    BY <2>3, NothingAbstract DEF SkipsLocked, PlainFails
  <2>4. ASSUME NEW n \in Names, ReadsPlain(n) PROVE Abstract!Next
    <3>1. plain[n] \in Contents /\ Mig \in Savers
      BY <2>4 DEF ReadsPlain, StoreInv, StoreTypeOK, MigrationSaves, Savers
    <3>2. Abstract!Request(Mig)
      BY <2>4, <3>1, BeginsAbstract DEF ReadsPlain
    <3> QED  BY <3>1, <3>2 DEF Abstract!Next
  <2> QED  BY <1>3, <2>1, <2>2, <2>3, <2>4 DEF MigrationStep
<1>4. CASE ResolveDirectory \/ RegisterStep \/ TimerFires \/ TimerStep
  BY <1>4, NothingAbstract DEF ResolveDirectory, RegisterStep, RegisterCalls, RegisterAdds,
      TimerFires,
       TimerStep, TimerCalls
<1>5. CASE WatchStep \/ WatchFails
  BY <1>5, NothingAbstract DEF WatchStep, WatchStarts, WatchWakes, WatchCalls, WatchAgain,
      WatchFails
<1>6. ASSUME NEW w \in Clients, NEW n \in Names, NEW c \in Contents, Create(w, n,
      c) PROVE Abstract!Next
  <2>1. w \in Savers /\ job[w] = IdleJob /\ job' = [job EXCEPT ![w] = BeginJob(n, c, TRUE)]
          /\ file' = file
    BY <1>6 DEF Create, Savers
  <2>2. Abstract!Request(w)
    BY <2>1, BeginsAbstract
  <2> QED  BY <2>1, <2>2 DEF Abstract!Next
<1>7. ASSUME NEW n \in Names,
             DeleteName(n) \/ UserCloses(n) \/ UserInstalls(n) \/ InstallsService(n)
      PROVE  Abstract!Next \/ UNCHANGED <<Stored, Requests>>
  <2>1. CASE DeleteName(n)
    BY <2>1, DeleteAbstract DEF Abstract!Next
  <2>2. CASE UserCloses(n) \/ UserInstalls(n) \/ InstallsService(n)
    BY <2>2, NothingAbstract DEF UserCloses, UserInstalls, InstallsService
  <2> QED  BY <1>7, <2>1, <2>2
<1>8. ASSUME NEW n \in Names, NEW c \in Contents, UserOpens(n, c) PROVE UNCHANGED <<Stored,
                                                                                    Requests>>
  BY <1>8, NothingAbstract DEF UserOpens
<1>9. ASSUME NEW n \in Names, NEW m \in Names, AdminMoves(n, m) PROVE Abstract!Next
  BY <1>9, MovesAbstract DEF Abstract!Next
<1>10. ASSUME NEW p \in BOOLEAN, ManagerDies(p) PROVE Abstract!Next
  BY <1>10, DiesAbstract DEF Abstract!Next
<1> QED  BY <1>1, <1>2, <1>3, <1>4, <1>5, <1>6, <1>7, <1>8, <1>9, <1>10 DEF StoreNext

(* The configuration store implements AtomicStore: a save is all or nothing *)
(* to whoever loads, for any number of clients, whatever fails.             *)
THEOREM StoreImplementsAtomic == StoreSpec => StoreIsAtomic
<1>1. StoreInit => Abstract!Init
  BY DEF StoreInit, Abstract!Init, BlobOf, RequestOf, IdleJob
<1>2. StoreInv /\ [StoreNext]_storeVars => [Abstract!Next]_Abstract!vars
  BY StoreStepAbstract DEF Abstract!vars, Stored, Requests
<1> QED  BY <1>1, <1>2, StoreInvariant, PTL DEF StoreSpec, StoreIsAtomic, Abstract!Spec

-----------------------------------------------------------------------------
(***************************************************************************)
(* The updater.  An update that is under way has its process marked busy,  *)
(* and no other update of that process is under way: so the handles of one *)
(* that is over were closed before the next began.                         *)
(***************************************************************************)
UpdatePcs == {"none", "check", "file", "get", "copy", "verify", "run", "failed", "refused",
              "defer", "flag", "done"}
Handles == {"session", "connection", "response"}
ProgressKinds == {"activity", "error", "complete"}
NoteKinds == {"found", "disabled"} \cup ProgressKinds

UpdateRecords == [pc : UpdatePcs, proc : {"manager", "command"}, open : SUBSET Handles,
                  file : {"none", "open", "closed", "left"}, v : Versions, right : BOOLEAN,
                  chan : Seq(ProgressKinds), reader : BOOLEAN]

UnderWay(r) == r.pc \notin {"none", "done"}

(* What holds of an update at each stage. *)
StageFits(r) ==
    /\ r.pc = "none" => r.proc = "manager" /\ ~r.reader
    /\ r.pc \in {"none", "check", "refused", "flag"} => r.open = {} /\ r.file = "none"
    /\ r.pc = "done" => r.open = {} /\ (r.file = "none" \/ (r.proc = "command" /\ r.file = "left"))
    /\ r.pc = "run" => r.right
    /\ r.pc \in {"file", "get", "copy", "verify", "run"} => Later(r.v, OurVersion)
    /\ Len(r.chan) <= ProgressSize

StagesFit ==
    /\ upd \in [Updates -> UpdateRecords] /\ \A i \in Updates : StageFits(upd[i])
    /\ busy \subseteq {"manager", "command"} /\ updFaults \in Nat

(* The flag of a process and its one update; there is only one command. *)
OneAtATime ==
    /\ \A i \in Updates : UnderWay(upd[i]) => upd[i].proc \in busy
    /\ \A i, j \in Updates : UnderWay(upd[i]) /\ UnderWay(upd[j]) /\ upd[i].proc = upd[j].proc => i = j
    /\ \A i, j \in Updates : upd[i].proc = "command" /\ upd[j].proc = "command" => i = j

(* checkForUpdates announces one state, once. *)
AnnouncedOnce ==
    /\ listed \in ReleaseLists /\ updateState \in {"unknown", "found", "disabled"}
    /\ checker \in [pc : {"start", "check", "off"}, didNotify : BOOLEAN, official : BOOLEAN]
    /\ announced \in {0, 1}
    /\ announced = 1 => checker.pc # "start" /\ (checker.pc = "check" => checker.didNotify)
    /\ announced = 0 => updateState = "unknown"

(* A found update reaches an interface by its notification and when it asks. *)
FoundAmong(s) == \E k \in DOMAIN s : s[k] = "found"
FoundOnce(s) == \A j, k \in DOMAIN s : s[j] = "found" /\ s[k] = "found" => j = k

EntryFits(u) ==
    /\ FoundOnce(uiNotes[u])
    /\ announced = 0 => ~FoundAmong(uiNotes[u]) /\ entries[u] = 0
    /\ entries[u] <= 2
    /\ conn[u] # "asked" => entries[u] <= 1
    /\ FoundAmong(uiNotes[u]) => entries[u] <= 1 /\ (conn[u] # "asked" => entries[u] = 0)

NotesFit ==
    /\ uiNotes \in [UpdateUis -> Seq(NoteKinds)]
    /\ conn \in [UpdateUis -> {"off", "on", "registered", "asked"}]
    /\ page \in [UpdateUis -> {"absent", "ready", "updating"}]
    /\ entries \in [UpdateUis -> Nat]
    /\ \A u \in UpdateUis : EntryFits(u)

UpdaterInv == StagesFit /\ OneAtATime /\ AnnouncedOnce /\ NotesFit /\ InstalledIsVerified

(* A set of positive numbers that is not empty has a least element. *)
LEMMA LeastOne ==
    ASSUME NEW S \in SUBSET (Nat \ {0}), S # {}
    PROVE  Min(S) \in S /\ \A x \in S : Min(S) <= x
<1> DEFINE R == {ss \in Nat \X Nat : ss[1] < ss[2]}
<1>1. IsWellFoundedOn(R, Nat)
  <2>1. R = OpToRel(<, Nat)
    BY DEF OpToRel
  <2> QED  BY <2>1, NatLessThanWellFounded
<1>2. PICK x \in S : \A y \in S : ~(<<y, x>> \in R)
  BY <1>1, WFMin
<1>3. ASSUME NEW y \in S PROVE x <= y
  <2>1. y \in Nat /\ x \in Nat /\ (y < x => <<y, x>> \in R)
    OBVIOUS
  <2> HIDE DEF R
  <2> QED  BY <1>2, <2>1
<1> QED  BY <1>2, <1>3 DEF Min

(* The larger of two numbers. *)
LEMMA LargerOne == ASSUME NEW a \in Nat, NEW b \in Nat PROVE Max({a, b}) \in Nat
<1>1. \E x \in {a, b} : \A y \in {a, b} : x >= y
  OBVIOUS
<1> QED  BY <1>1 DEF Max

(* versionNewerThanUs is the order of versions. *)
LEMMA NewerIsLater ==
    ASSUME NEW v \in Versions, VersionNewerThanUs(v) = "newer"
    PROVE  Later(v, OurVersion)
<1> DEFINE n == Max({Len(v), Len(OurVersion)})
           diff == {i \in 1 .. n : VersionPart(v, i) # VersionPart(OurVersion, i)}
           d == Min(diff)
<1>1. n \in Nat
  <2>1. Len(v) \in Nat /\ Len(OurVersion) \in Nat
    BY UpdaterAssumption DEF UpdaterAssumption, Versions
  <2> QED  BY <2>1, LargerOne
<1>2. diff # {} /\ VersionPart(v, d) > VersionPart(OurVersion, d)
  BY DEF VersionNewerThanUs
<1>3. d \in diff /\ \A x \in diff : d <= x
  <2>1. diff \in SUBSET (Nat \ {0})
    BY <1>1
  <2> HIDE DEF diff
  <2> QED  BY <1>2, <2>1, LeastOne
<1> HIDE DEF d
<1>4. d \in 1 .. n /\ \A j \in 1 .. (d - 1) : VersionPart(v, j) = VersionPart(OurVersion, j)
  <2> HIDE DEF n
  <2>1. d \in 1 .. n
    BY <1>3
  <2>2. ASSUME NEW j \in 1 .. (d - 1) PROVE VersionPart(v, j) = VersionPart(OurVersion, j)
    <3>1. j \in 1 .. n /\ ~(d <= j)
      BY <1>1, <2>1
    <3> QED  BY <1>3, <3>1
  <2> QED  BY <2>1, <2>2
<1> QED  BY <1>2, <1>4 DEF Later

(* What the list that was read gives: a version is found only if it is later. *)
LEMMA ChecksFacts ==
    ASSUME UpdaterInv, NEW keep \in BOOLEAN, NEW fails \in BOOLEAN, NEW c \in Checks(keep, fails)
    PROVE  /\ c.res \in {"found", "none", "error"} /\ c.v \in Versions
           /\ c.open \in SUBSET Handles /\ (c.res = "error" => c.open = {})
           /\ c.res = "found" => Later(c.v, OurVersion)
<1>1. NoRelease \in Versions
  BY DEF NoRelease, Versions
<1>2. ReadFileList(fails) \subseteq Versions
  BY UpdaterAssumption DEF UpdaterAssumption, ReadFileList, UpdaterInv, AnnouncedOnce
<1>3. \A f \in FindCandidate(ReadFileList(fails)) :
         /\ f.res \in {"found", "none", "error"} /\ f.v \in Versions
         /\ f.res = "found" => Later(f.v, OurVersion)
  BY <1>1, <1>2, NewerIsLater DEF FindCandidate
<1> QED  BY <1>1, <1>3 DEF Checks, KeptOpen, Handles

(* An update goes on to a record r, and may reset the flag of its process. *)
LEMMA UpdateMoves ==
    ASSUME UpdaterInv, NEW i \in Updates, NEW r \in UpdateRecords, Sets(i, r), StageFits(r),
           r.proc = upd[i].proc, UnderWay(r) => UnderWay(upd[i]),
           \/ busy' = busy
           \/ /\ busy' = busy \ {r.proc} /\ ~UnderWay(r)
              /\ UnderWay(upd[i]) \/ r.proc = "command",
           updFaults' \in Nat
    PROVE  StagesFit' /\ OneAtATime'
<1>1. /\ upd \in [Updates -> UpdateRecords] /\ upd'[i] = r
      /\ \A j \in Updates : j # i => upd'[j] = upd[j]
  BY DEF UpdaterInv, StagesFit, Sets
<1>2. StagesFit'
  BY <1>1 DEF UpdaterInv, StagesFit, Sets
<1>3. \A j \in Updates : /\ upd'[j].proc = upd[j].proc
                         /\ UnderWay(upd'[j]) => UnderWay(upd[j])
  BY <1>1
<1>4. \A j \in Updates : UnderWay(upd'[j]) => upd'[j].proc \in busy'
  <2> SUFFICES ASSUME NEW j \in Updates, UnderWay(upd'[j]) PROVE upd[j].proc \in busy'
    BY <1>3
  <2>1. UnderWay(upd[j]) /\ upd[j].proc \in busy
    BY <1>3 DEF UpdaterInv, OneAtATime
  <2>2. CASE busy' = busy
    BY <2>1, <2>2
  <2>3. CASE busy' # busy
    <3>1. j # i
      BY <1>1, <2>3
    <3>2. upd[j].proc # r.proc
      BY <2>1, <2>3, <3>1 DEF UpdaterInv, OneAtATime
    <3> QED  BY <2>1, <2>3, <3>2
  <2> QED  BY <2>2, <2>3
<1>5. \A j, k \in Updates : /\ UnderWay(upd'[j]) /\ UnderWay(upd'[k]) /\ upd'[j].proc = upd'[k].proc => j = k
                            /\ upd'[j].proc = "command" /\ upd'[k].proc = "command" => j = k
  BY <1>3 DEF UpdaterInv, OneAtATime
<1> QED  BY <1>2, <1>4, <1>5 DEF OneAtATime

(* The other variables stay. *)
LEMMA OthersStay ==
    ASSUME UpdaterInv, UNCHANGED <<listed, updateState, checker, announced, uiNotes, conn, page, entries>>
    PROVE  AnnouncedOnce' /\ NotesFit'
BY DEF UpdaterInv, AnnouncedOnce, NotesFit, EntryFits

(* What is put into a channel with room for it. *)
LEMMA ReportFacts ==
    ASSUME NEW s \in Seq(ProgressKinds), NEW m \in ProgressKinds, Len(s) < ProgressSize
    PROVE  Append(s, m) \in Seq(ProgressKinds) /\ Len(Append(s, m)) <= ProgressSize
BY UpdaterAssumption DEF UpdaterAssumption

(* Each stage of an update leaves what the next one needs. *)
LEMMA StageInv ==
    ASSUME UpdaterInv, NEW i \in Updates, UpdateStep(i)
    PROVE  UpdaterInv'
<1> DEFINE c == upd[i].chan
<1>k. /\ upd[i] \in UpdateRecords /\ StageFits(upd[i]) /\ upd[i].proc \in {"manager", "command"}
      /\ c \in Seq(ProgressKinds) /\ Len(c) <= ProgressSize /\ updFaults \in Nat
  BY DEF UpdaterInv, StagesFit, StageFits, UpdateRecords
<1>f. \A fails : MayFail(fails) => updFaults' \in Nat
  BY <1>k DEF MayFail
<1>o. UNCHANGED <<listed, updateState, checker, announced, uiNotes, conn, page, entries>>
  BY DEF UpdateStep, Checking, CreatesFile, Gets, Copies, Verifies, RunsMsi, Fails, Defers, ResetsFlag,
         Stage, updateFrame
<1>m. ASSUME NEW r \in UpdateRecords, Sets(i, r), StageFits(r), r.proc = upd[i].proc,
             UnderWay(upd[i]), updFaults' \in Nat, busy' = busy, installed' = installed
      PROVE  UpdaterInv'
  <2>1. StagesFit' /\ OneAtATime'
    BY <1>m, UpdateMoves
  <2> QED  BY <1>m, <1>o, <2>1, OthersStay DEF UpdaterInv, InstalledIsVerified
<1>1. ASSUME NEW fails \in BOOLEAN, Checking(i, fails) PROVE UpdaterInv'
  <2>1. /\ upd[i].pc = "check" /\ busy' = busy /\ installed' = installed /\ updFaults' \in Nat
    BY <1>1, <1>f DEF Checking, Stage
  <2>2. PICK k \in Checks(TRUE, fails) :
          LET u == [upd[i] EXCEPT !.open = k.open, !.v = k.v] IN
          Sets(i, IF k.res = "found" THEN [u EXCEPT !.pc = "file"]
                  ELSE IF k.res = "none" THEN Gives(u) ELSE [u EXCEPT !.pc = "refused"])
    BY <1>1 DEF Checking
  <2> DEFINE pc == IF k.res = "found" THEN "file" ELSE IF k.res = "none" THEN "failed" ELSE "refused"
             r == [upd[i] EXCEPT !.open = k.open, !.v = k.v, !.pc = pc]
  <2>3. /\ k.res \in {"found", "none", "error"} /\ k.v \in Versions /\ k.open \in SUBSET Handles
        /\ k.res = "error" => k.open = {}
        /\ k.res = "found" => Later(k.v, OurVersion)
    BY ChecksFacts
  <2>4. Sets(i, r)
    BY <1>k, <2>2, <2>3 DEF Sets, Gives, UpdateRecords
  <2>5. pc \in UpdatePcs
    BY DEF UpdatePcs
  <2>6. /\ r \in UpdateRecords /\ r.pc = pc /\ r.open = k.open /\ r.v = k.v /\ r.file = upd[i].file
        /\ r.proc = upd[i].proc /\ r.chan = c
    <3> HIDE DEF pc
    <3> QED  BY <1>k, <2>3, <2>5 DEF UpdateRecords
  <2> HIDE DEF r
  <2>7. StageFits(r)
    BY <1>k, <2>1, <2>3, <2>6 DEF StageFits
  <2> QED  BY <1>m, <2>1, <2>4, <2>6, <2>7 DEF UnderWay
<1>2. ASSUME NEW fails \in BOOLEAN, CreatesFile(i, fails) PROVE UpdaterInv'
  <2>1. /\ upd[i].pc = "file" /\ busy' = busy /\ installed' = installed /\ updFaults' \in Nat
    BY <1>2, <1>f DEF CreatesFile, Stage
  <2> DEFINE r == IF fails THEN Gives(upd[i]) ELSE [upd[i] EXCEPT !.pc = "get", !.file = "open"]
  <2>2. Sets(i, r)
    BY <1>2 DEF CreatesFile
  <2>3. /\ r \in UpdateRecords /\ r.pc \in {"failed", "get"} /\ r.proc = upd[i].proc
        /\ r.chan = c /\ r.v = upd[i].v
    BY <1>k DEF UpdateRecords, Gives, UpdatePcs
  <2> HIDE DEF r
  <2>4. StageFits(r)
    BY <1>k, <2>1, <2>3 DEF StageFits
  <2> QED  BY <1>m, <2>1, <2>2, <2>3, <2>4 DEF UnderWay
<1>3. ASSUME NEW fails \in BOOLEAN, Gets(i, fails) PROVE UpdaterInv'
  <2>1. /\ upd[i].pc = "get" /\ busy' = busy /\ installed' = installed /\ updFaults' \in Nat
    BY <1>3, <1>f DEF Gets, Stage
  <2> DEFINE r == IF fails THEN Gives(upd[i])
                  ELSE [upd[i] EXCEPT !.pc = "copy", !.open = @ \cup {"response"}]
  <2>2. Sets(i, r)
    BY <1>3 DEF Gets
  <2>3. /\ r \in UpdateRecords /\ r.pc \in {"failed", "copy"} /\ r.proc = upd[i].proc
        /\ r.chan = c /\ r.v = upd[i].v
    BY <1>k DEF UpdateRecords, Gives, UpdatePcs, Handles
  <2> HIDE DEF r
  <2>4. StageFits(r)
    BY <1>k, <2>1, <2>3 DEF StageFits
  <2> QED  BY <1>m, <2>1, <2>2, <2>3, <2>4 DEF UnderWay
<1>4. ASSUME NEW fails \in BOOLEAN, Copies(i, fails) PROVE UpdaterInv'
  <2>1. /\ upd[i].pc = "copy" /\ busy' = busy /\ installed' = installed /\ updFaults' \in Nat
        /\ Len(c) < ProgressSize
    BY <1>4, <1>f DEF Copies, Stage, Reports
  <2> DEFINE q == Append(c, "activity")
             r == [upd[i] EXCEPT !.pc = "verify", !.right = ~fails, !.chan = q]
  <2>2. q \in Seq(ProgressKinds) /\ Len(q) <= ProgressSize
    BY <1>k, <2>1, ReportFacts DEF ProgressKinds
  <2>3. Sets(i, r)
    BY <1>k, <1>4 DEF Copies, Reports, Sets, UpdateRecords
  <2> HIDE DEF q
  <2>4. /\ r \in UpdateRecords /\ r.pc = "verify" /\ r.proc = upd[i].proc
        /\ r.chan = q /\ r.v = upd[i].v
    BY <1>k, <2>2 DEF UpdateRecords, UpdatePcs
  <2> HIDE DEF r
  <2>5. StageFits(r)
    BY <1>k, <2>1, <2>2, <2>4 DEF StageFits
  <2> QED  BY <1>m, <2>1, <2>3, <2>4, <2>5 DEF UnderWay
<1>5. CASE Verifies(i)
  <2>1. /\ upd[i].pc = "verify" /\ busy' = busy /\ installed' = installed /\ updFaults' \in Nat
    BY <1>5, <1>f DEF Verifies, Stage
  <2> DEFINE r == IF upd[i].right THEN [upd[i] EXCEPT !.pc = "run", !.file = "closed"] ELSE Gives(upd[i])
  <2>2. Sets(i, r)
    BY <1>5 DEF Verifies
  <2>3. /\ r \in UpdateRecords /\ r.proc = upd[i].proc
        /\ r.chan = c /\ r.v = upd[i].v /\ (r.pc = "failed" \/ (r.pc = "run" /\ r.right))
    BY <1>k DEF UpdateRecords, Gives, UpdatePcs
  <2> HIDE DEF r
  <2>4. StageFits(r)
    BY <1>k, <2>1, <2>3 DEF StageFits
  <2> QED  BY <1>m, <2>1, <2>2, <2>3, <2>4 DEF UnderWay
<1>6. ASSUME NEW fails \in BOOLEAN, RunsMsi(i, fails) PROVE UpdaterInv'
  <2>1. /\ upd[i].pc = "run" /\ busy' = busy /\ updFaults' \in Nat
        /\ installed' = installed \cup {[v |-> upd[i].v, right |-> upd[i].right]}
        /\ ~fails => Len(c) < ProgressSize
    BY <1>6, <1>f DEF RunsMsi, Stage, Reports
  <2> DEFINE q == IF fails THEN c ELSE Append(c, "complete")
             pc == IF fails THEN "failed" ELSE "defer"
             r == [upd[i] EXCEPT !.pc = pc, !.chan = q]
  <2>2. q \in Seq(ProgressKinds) /\ Len(q) <= ProgressSize /\ pc \in {"failed", "defer"}
    BY <1>k, <2>1, ReportFacts DEF ProgressKinds
  <2>3. Sets(i, r)
    BY <1>k, <1>6 DEF RunsMsi, Reports, Sets, Gives, UpdateRecords
  <2> HIDE DEF q, pc
  <2>4. /\ r \in UpdateRecords /\ r.pc = pc /\ r.proc = upd[i].proc /\ r.chan = q
    BY <1>k, <2>2 DEF UpdateRecords, UpdatePcs
  <2> HIDE DEF r
  <2>5. StageFits(r)
    BY <1>k, <2>1, <2>2, <2>4 DEF StageFits
  <2>6. InstalledIsVerified'
    BY <1>k, <2>1 DEF StageFits, UpdaterInv, InstalledIsVerified
  <2>7. StagesFit' /\ OneAtATime'
    BY <2>1, <2>3, <2>4, <2>5, UpdateMoves DEF UnderWay
  <2> QED  BY <1>o, <2>6, <2>7, OthersStay DEF UpdaterInv
<1>7. ASSUME NEW pc0 \in {"failed", "refused"}, Fails(i, pc0) PROVE UpdaterInv'
  <2>1. /\ upd[i].pc = pc0 /\ busy' = busy /\ installed' = installed /\ updFaults' \in Nat
        /\ Len(c) < ProgressSize
    BY <1>7, <1>f DEF Fails, Stage, Reports
  <2> DEFINE q == Append(c, "error")
             pc == IF pc0 = "refused" THEN "flag" ELSE "defer"
             r == [upd[i] EXCEPT !.pc = pc, !.chan = q]
  <2>2. q \in Seq(ProgressKinds) /\ Len(q) <= ProgressSize
    BY <1>k, <2>1, ReportFacts DEF ProgressKinds
  <2>3. Sets(i, r)
    BY <1>k, <1>7 DEF Fails, Reports, Sets, UpdateRecords
  <2> HIDE DEF q
  <2>4. pc = "defer" \/ (pc = "flag" /\ upd[i].open = {} /\ upd[i].file = "none")
    BY <1>k, <2>1 DEF StageFits
  <2> HIDE DEF pc
  <2>5. /\ r \in UpdateRecords /\ r.pc = pc /\ r.proc = upd[i].proc /\ r.chan = q
        /\ r.open = upd[i].open /\ r.file = upd[i].file
    BY <1>k, <2>2, <2>4 DEF UpdateRecords, UpdatePcs
  <2> HIDE DEF r
  <2>6. StageFits(r)
    BY <1>k, <2>1, <2>2, <2>4, <2>5 DEF StageFits
  <2> QED  BY <1>m, <2>1, <2>3, <2>5, <2>6 DEF UnderWay
<1>8. CASE Defers(i)
  <2> DEFINE r == [upd[i] EXCEPT !.pc = "flag", !.open = {}, !.file = "none"]
  <2>1. /\ upd[i].pc = "defer" /\ busy' = busy /\ installed' = installed /\ updFaults' \in Nat
        /\ Sets(i, r)
    BY <1>8, <1>k DEF Defers
  <2>2. /\ r \in UpdateRecords /\ r.pc = "flag" /\ r.proc = upd[i].proc /\ r.chan = c
        /\ r.open = {} /\ r.file = "none"
    BY <1>k DEF UpdateRecords, UpdatePcs
  <2> HIDE DEF r
  <2>3. StageFits(r)
    BY <1>k, <2>1, <2>2 DEF StageFits
  <2> QED  BY <1>m, <2>1, <2>2, <2>3 DEF UnderWay
<1>9. CASE ResetsFlag(i)
  <2> DEFINE r == [upd[i] EXCEPT !.pc = "done"]
  <2>1. /\ upd[i].pc = "flag" /\ busy' = busy \ {upd[i].proc} /\ installed' = installed
        /\ updFaults' \in Nat /\ Sets(i, r)
    BY <1>9, <1>k DEF ResetsFlag
  <2>2. /\ r \in UpdateRecords /\ r.pc = "done" /\ r.proc = upd[i].proc /\ r.chan = c
        /\ r.open = upd[i].open /\ r.file = upd[i].file
    BY <1>k DEF UpdateRecords, UpdatePcs
  <2> HIDE DEF r
  <2>3. StageFits(r)
    BY <1>k, <2>1, <2>2 DEF StageFits
  <2>4. UnderWay(upd[i]) /\ ~UnderWay(r)
    BY <2>1, <2>2 DEF UnderWay
  <2>5. StagesFit' /\ OneAtATime'
    BY <2>1, <2>2, <2>3, <2>4, UpdateMoves
  <2> QED  BY <1>o, <2>1, <2>5, OthersStay DEF UpdaterInv, InstalledIsVerified
<1> QED  BY <1>1, <1>2, <1>3, <1>4, <1>5, <1>6, <1>7, <1>8, <1>9 DEF UpdateStep

(* A notification is put behind those that are on their way. *)
LEMMA NotifyFits ==
    ASSUME UpdaterInv, NEW m \in NoteKinds, NotifyAll(m), UNCHANGED <<conn, page, entries>>,
           announced' \in {0, 1},
           \/ announced' = announced /\ m # "found"
           \/ announced = 0 /\ announced' = 1
    PROVE  NotesFit'
<1>1. /\ uiNotes \in [UpdateUis -> Seq(NoteKinds)] /\ entries \in [UpdateUis -> Nat]
  BY DEF UpdaterInv, NotesFit
<1>2. \A u \in UpdateUis : uiNotes'[u] \in {uiNotes[u], Append(uiNotes[u], m)}
  BY DEF NotifyAll
<1>3. uiNotes' \in [UpdateUis -> Seq(NoteKinds)]
  BY <1>1 DEF NotifyAll
<1>4. ASSUME NEW u \in UpdateUis PROVE EntryFits(u)'
  <2>1. EntryFits(u) /\ uiNotes[u] \in Seq(NoteKinds) /\ entries[u] \in Nat
    BY <1>1 DEF UpdaterInv, NotesFit
  <2>2. CASE uiNotes'[u] = uiNotes[u]
    BY <2>1, <2>2 DEF EntryFits
  <2>3. CASE uiNotes'[u] = Append(uiNotes[u], m)
    <3> DEFINE s == uiNotes[u]
    <3>1. /\ DOMAIN Append(s, m) = 1 .. Len(s) + 1 /\ DOMAIN s = 1 .. Len(s) /\ Len(s) \in Nat
          /\ \A k \in DOMAIN s : Append(s, m)[k] = s[k]
          /\ Append(s, m)[Len(s) + 1] = m
      BY <2>1
    <3> DEFINE q == Append(s, m)
    <3> HIDE DEF q
    <3>2. CASE m # "found"
      <4>1. (FoundAmong(q) => FoundAmong(s)) /\ (FoundOnce(s) => FoundOnce(q))
        BY <3>1, <3>2 DEF FoundAmong, FoundOnce, q
      <4> QED  BY <2>1, <2>3, <4>1 DEF EntryFits, q
    <3>3. CASE m = "found"
      <4>1. announced = 0 /\ announced' = 1 /\ ~FoundAmong(s) /\ entries[u] = 0
        BY <2>1, <3>3 DEF EntryFits
      <4>2. FoundOnce(q)
        BY <3>1, <4>1 DEF FoundAmong, FoundOnce, q
      <4> QED  BY <2>3, <4>1, <4>2 DEF EntryFits, q
    <3> QED  BY <3>2, <3>3
  <2> QED  BY <1>2, <2>2, <2>3
<1> QED  BY <1>3, <1>4 DEF UpdaterInv, NotesFit

(* The updates stay. *)
LEMMA UpdatesStay ==
    ASSUME UpdaterInv, UNCHANGED <<upd, busy, installed>>, updFaults' \in Nat
    PROVE  StagesFit' /\ OneAtATime' /\ InstalledIsVerified'
BY DEF UpdaterInv, StagesFit, OneAtATime, InstalledIsVerified

(* checkForUpdates. *)
LEMMA CheckerInv ==
    ASSUME UpdaterInv, CheckerStep
    PROVE  UpdaterInv'
<1>k. /\ checker \in [pc : {"start", "check", "off"}, didNotify : BOOLEAN, official : BOOLEAN]
      /\ announced \in {0, 1} /\ listed \in ReleaseLists /\ updFaults \in Nat
      /\ announced = 1 => checker.pc # "start" /\ (checker.pc = "check" => checker.didNotify)
      /\ announced = 0 => updateState = "unknown"
  BY DEF UpdaterInv, AnnouncedOnce, StagesFit
<1>o. UNCHANGED <<listed, upd, busy, conn, page, entries, installed>> /\ updFaults' \in Nat
  <2>1. UNCHANGED <<listed, upd, busy, conn, page, entries, installed>>
    BY DEF CheckerStep, CheckerStarts, CheckerChecks
  <2>2. \/ UNCHANGED updFaults
        \/ updFaults > 0 /\ updFaults' = updFaults - 1
    BY DEF CheckerStep, CheckerStarts, CheckerChecks, MayFail
  <2>3. updFaults' \in Nat
    BY <1>k, <2>2
  <2> QED  BY <2>1, <2>3
<1>u. StagesFit' /\ OneAtATime' /\ InstalledIsVerified'
  BY <1>o, UpdatesStay
<1>a. ASSUME NEW s \in {"found", "disabled"}, Announces(s), announced = 0,
             checker' \in [pc : {"start", "check", "off"}, didNotify : BOOLEAN, official : BOOLEAN],
             checker'.pc = "off" \/ (checker'.pc = "check" /\ checker'.didNotify)
      PROVE  AnnouncedOnce' /\ NotesFit'
  <2>1. updateState' = s /\ NotifyAll(s) /\ announced' = 1
    BY <1>a DEF Announces
  <2>2. AnnouncedOnce'
    BY <1>k, <1>o, <1>a, <2>1 DEF AnnouncedOnce
  <2> QED  BY <1>a, <1>o, <2>1, <2>2, NotifyFits DEF NoteKinds
<1>n. ASSUME UNCHANGED <<updateState, uiNotes, announced>>,
             checker' = checker \/ (checker.pc = "start" /\ checker' = [checker EXCEPT !.pc = "check"])
      PROVE  AnnouncedOnce' /\ NotesFit'
  <2>1. AnnouncedOnce'
    BY <1>k, <1>o, <1>n DEF UpdaterInv, AnnouncedOnce
  <2>2. NotesFit'
    BY <1>n, <1>o DEF UpdaterInv, NotesFit, EntryFits
  <2> QED  BY <2>1, <2>2
<1>1. CASE CheckerStarts
  <2>1. CASE checker.official
    BY <1>1, <1>u, <1>n, <2>1 DEF CheckerStarts, UpdaterInv
  <2>2. CASE ~checker.official
    <3>1. /\ checker' = [checker EXCEPT !.pc = "off"] /\ Announces("disabled") /\ announced = 0
      BY <1>1, <1>k, <2>2 DEF CheckerStarts
    <3>2. checker' \in [pc : {"start", "check", "off"}, didNotify : BOOLEAN, official : BOOLEAN]
          /\ checker'.pc = "off"
      BY <1>k, <3>1
    <3> QED  BY <1>u, <1>a, <3>1, <3>2 DEF UpdaterInv
  <2> QED  BY <2>1, <2>2
<1>2. ASSUME NEW fails \in BOOLEAN, CheckerChecks(fails) PROVE UpdaterInv'
  <2>1. \/ /\ ~checker.didNotify /\ checker.pc = "check"
           /\ Announces("found") /\ checker' = [checker EXCEPT !.didNotify = TRUE]
        \/ UNCHANGED <<checker, updateState, uiNotes, announced>>
    BY <1>2 DEF CheckerChecks
  <2>2. CASE UNCHANGED <<checker, updateState, uiNotes, announced>>
    BY <1>u, <1>n, <2>2 DEF UpdaterInv
  <2>3. CASE /\ ~checker.didNotify /\ checker.pc = "check"
             /\ Announces("found") /\ checker' = [checker EXCEPT !.didNotify = TRUE]
    <3>1. announced = 0
      BY <1>k, <2>3
    <3>2. /\ checker' \in [pc : {"start", "check", "off"}, didNotify : BOOLEAN, official : BOOLEAN]
          /\ checker'.pc = "check" /\ checker'.didNotify
      BY <1>k, <2>3
    <3> QED  BY <1>u, <1>a, <2>3, <3>1, <3>2 DEF UpdaterInv
  <2> QED  BY <2>1, <2>2, <2>3
<1> QED  BY <1>1, <1>2 DEF CheckerStep

(* Of the updates that were not started there is a first. *)
LEMMA FirstFree == FreeUpdates # {} => Min(FreeUpdates) \in Updates /\ upd[Min(FreeUpdates)].pc = "none"
<1>1. FreeUpdates \in SUBSET (Nat \ {0})
  BY UpdaterAssumption DEF FreeUpdates, Updates, UpdaterAssumption
<1> QED  BY <1>1, LeastOne DEF FreeUpdates

(* A new update, refused if one of its process is under way. *)
LEMMA StartsInv ==
    ASSUME UpdaterInv, NEW proc \in {"manager", "command"}, Starts(proc),
           proc = "command" => FreeUpdates = Updates,
           UNCHANGED <<listed, updateState, checker, announced, uiNotes, conn, entries, installed,
                       updFaults>>,
           page' \in [UpdateUis -> {"absent", "ready", "updating"}]
    PROVE  UpdaterInv'
<1> DEFINE r == NewUpdate(proc)
<1>1. PICK i \in Updates : upd[i].pc = "none" /\ Sets(i, r) /\ busy' = busy \cup {proc}
  BY FirstFree DEF Starts
<1>2. /\ r \in UpdateRecords /\ r.proc = proc /\ StageFits(r)
      /\ r.pc = IF proc \in busy THEN "done" ELSE "check"
  <2>1. <<"activity">> \in Seq(ProgressKinds) /\ <<"activity", "error">> \in Seq(ProgressKinds)
    BY DEF ProgressKinds
  <2>2. NoRelease \in Versions /\ Len(<<"activity">>) <= ProgressSize
        /\ Len(<<"activity", "error">>) <= ProgressSize
    BY UpdaterAssumption DEF UpdaterAssumption, NoRelease, Versions
  <2>3. CASE proc \in busy
    <3>1. r = [pc |-> "done", proc |-> proc, open |-> {}, file |-> "none", v |-> NoRelease,
               right |-> FALSE, chan |-> <<"activity", "error">>, reader |-> TRUE]
      BY <2>3 DEF NewUpdate, NoUpdate
    <3> HIDE DEF r
    <3> QED  BY <2>1, <2>2, <2>3, <3>1 DEF UpdateRecords, UpdatePcs, StageFits
  <2>4. CASE proc \notin busy
    <3>1. r = [pc |-> "check", proc |-> proc, open |-> {}, file |-> "none", v |-> NoRelease,
               right |-> FALSE, chan |-> <<"activity">>, reader |-> TRUE]
      BY <2>4 DEF NewUpdate, NoUpdate
    <3> HIDE DEF r
    <3> QED  BY <2>1, <2>2, <2>4, <3>1 DEF UpdateRecords, UpdatePcs, StageFits
  <2> QED  BY <2>3, <2>4
<1> HIDE DEF r
<1>3. /\ upd \in [Updates -> UpdateRecords] /\ upd'[i] = r
      /\ \A j \in Updates : j # i => upd'[j] = upd[j]
  BY <1>1 DEF UpdaterInv, StagesFit, Sets
<1>4. StagesFit'
  BY <1>1, <1>2, <1>3 DEF UpdaterInv, StagesFit, Sets
<1>5. \A j \in Updates : UnderWay(upd'[j]) => upd'[j].proc \in busy'
  BY <1>1, <1>2, <1>3 DEF UpdaterInv, OneAtATime
<1>6. \A j \in Updates : UnderWay(upd'[j]) /\ UnderWay(r) /\ upd'[j].proc = proc => j = i
  BY <1>2, <1>3 DEF UpdaterInv, OneAtATime, UnderWay
<1>7. \A j, k \in Updates : UnderWay(upd'[j]) /\ UnderWay(upd'[k]) /\ upd'[j].proc = upd'[k].proc => j = k
  BY <1>2, <1>3, <1>6 DEF UpdaterInv, OneAtATime
<1>8. proc = "command" => \A j \in Updates : upd[j].proc = "manager"
  BY DEF FreeUpdates, UpdaterInv, StagesFit, StageFits
<1>9. \A j, k \in Updates : upd'[j].proc = "command" /\ upd'[k].proc = "command" => j = k
  BY <1>2, <1>3, <1>8 DEF UpdaterInv, OneAtATime
<1>10. AnnouncedOnce' /\ NotesFit' /\ InstalledIsVerified'
  BY DEF UpdaterInv, AnnouncedOnce, NotesFit, EntryFits, InstalledIsVerified
<1> QED  BY <1>4, <1>5, <1>7, <1>9, <1>10 DEF UpdaterInv, OneAtATime

(* The reader forwards a report; that of the command ends its process. *)
LEMMA ReadsInv ==
    ASSUME UpdaterInv, NEW i \in Updates, Reads(i)
    PROVE  UpdaterInv'
<1> DEFINE c == upd[i].chan
           m == Head(c)
           u == [upd[i] EXCEPT !.chan = Tail(@), !.reader = m = "activity"]
           d == [u EXCEPT !.pc = "done", !.open = {}, !.file = IF @ = "none" THEN @ ELSE "left"]
<1>k. /\ upd[i] \in UpdateRecords /\ StageFits(upd[i]) /\ c \in Seq(ProgressKinds) /\ c # <<>>
      /\ Len(c) <= ProgressSize /\ upd[i].reader /\ updFaults \in Nat /\ announced \in {0, 1}
  BY DEF Reads, UpdaterInv, StagesFit, StageFits, UpdateRecords, AnnouncedOnce
<1>1. /\ m \in ProgressKinds /\ Tail(c) \in Seq(ProgressKinds) /\ Len(Tail(c)) <= ProgressSize
  BY <1>k, UpdaterAssumption DEF UpdaterAssumption
<1>2. /\ u \in UpdateRecords /\ u.pc = upd[i].pc /\ u.proc = upd[i].proc /\ u.open = upd[i].open
      /\ u.file = upd[i].file /\ u.v = upd[i].v /\ u.right = upd[i].right /\ u.chan = Tail(c)
  <2> HIDE DEF m
  <2>1. (m = "activity") \in BOOLEAN
    OBVIOUS
  <2> QED  BY <1>k, <1>1, <2>1 DEF UpdateRecords
<1>3. UNCHANGED <<listed, updateState, checker, conn, announced, page, entries, installed, updFaults>>
  BY DEF Reads, updateFrame
<1>4. StageFits(u)
  <2> HIDE DEF u
  <2>1. upd[i].pc # "none"
    BY <1>k DEF StageFits
  <2> QED  BY <1>k, <1>1, <1>2, <2>1 DEF StageFits
<1>5. /\ d \in UpdateRecords /\ d.pc = "done" /\ d.proc = upd[i].proc
      /\ upd[i].proc = "command" => StageFits(d)
  <2> HIDE DEF u
  <2>1. u.file \in {"none", "open", "closed", "left"}
    BY <1>2 DEF UpdateRecords
  <2> DEFINE f == IF u.file = "none" THEN "none" ELSE "left"
  <2>2. d = [u EXCEPT !.pc = "done", !.open = {}, !.file = f]
    BY <1>2 DEF UpdateRecords
  <2>3. f \in {"none", "left"}
    OBVIOUS
  <2> HIDE DEF d, f
  <2>4. /\ d \in UpdateRecords /\ d.pc = "done" /\ d.proc = u.proc /\ d.open = {} /\ d.file = f
        /\ d.chan = u.chan
    BY <1>2, <2>2, <2>3 DEF UpdateRecords, UpdatePcs
  <2> QED  BY <1>1, <1>2, <2>3, <2>4 DEF StageFits
<1>6. UnderWay(u) <=> UnderWay(upd[i])
  <2> HIDE DEF u
  <2> QED  BY <1>2 DEF UnderWay
<1>7. CASE upd[i].proc = "command"
  <2>1. \/ Sets(i, u) /\ busy' = busy
        \/ Sets(i, d) /\ busy' = busy \ {"command"}
    BY <1>7 DEF Reads
  <2>2. uiNotes' = uiNotes
    BY <1>7 DEF Reads
  <2>3. ~UnderWay(d)
    <3> HIDE DEF d
    <3> QED  BY <1>5 DEF UnderWay
  <2> HIDE DEF u, d
  <2>4. StagesFit' /\ OneAtATime'
    BY <1>k, <1>2, <1>3, <1>4, <1>5, <1>6, <1>7, <2>1, <2>3, UpdateMoves
  <2> QED  BY <1>3, <2>2, <2>4, OthersStay DEF UpdaterInv, InstalledIsVerified
<1>8. CASE upd[i].proc # "command"
  <2>1. Sets(i, u) /\ NotifyAll(m) /\ busy' = busy
    BY <1>8 DEF Reads
  <2>2. m \in NoteKinds /\ m # "found"
    BY <1>1 DEF NoteKinds, ProgressKinds
  <2> HIDE DEF u, d, m
  <2>3. StagesFit' /\ OneAtATime'
    BY <1>k, <1>2, <1>3, <1>4, <1>6, <2>1, UpdateMoves
  <2>4. NotesFit'
    BY <1>k, <1>3, <2>1, <2>2, NotifyFits
  <2>5. AnnouncedOnce' /\ InstalledIsVerified'
    BY <1>3 DEF UpdaterInv, AnnouncedOnce, InstalledIsVerified
  <2> QED  BY <2>3, <2>4, <2>5 DEF UpdaterInv
<1> QED  BY <1>7, <1>8


(* What is left of a sequence when one element is taken out. *)
LEMMA TakenOut ==
    ASSUME NEW s \in Seq(NoteKinds), NEW k \in DOMAIN s
    PROVE  /\ RemoveAt(s, k) \in Seq(NoteKinds)
           /\ DOMAIN RemoveAt(s, k) = 1 .. (Len(s) - 1)
           /\ \A j \in 1 .. (Len(s) - 1) : RemoveAt(s, k)[j] = s[IF j < k THEN j ELSE j + 1]
<1> DEFINE a == SubSeq(s, 1, k - 1)
           b == SubSeq(s, k + 1, Len(s))
<1>1. k \in 1 .. Len(s) /\ Len(s) \in Nat
  OBVIOUS
<1>2. /\ a \in Seq(NoteKinds) /\ Len(a) = k - 1 /\ \A j \in 1 .. (k - 1) : a[j] = s[j]
      /\ b \in Seq(NoteKinds) /\ Len(b) = Len(s) - k /\ \A j \in 1 .. (Len(s) - k) : b[j] = s[k + j]
  BY <1>1
<1>3. RemoveAt(s, k) = a \o b
  BY DEF RemoveAt
<1> HIDE DEF a, b
<1>4. a \o b \in Seq(NoteKinds) /\ DOMAIN (a \o b) = 1 .. (Len(s) - 1)
  BY <1>1, <1>2
<1>5. ASSUME NEW j \in 1 .. (Len(s) - 1) PROVE (a \o b)[j] = s[IF j < k THEN j ELSE j + 1]
  <2>1. CASE j < k
    BY <1>1, <1>2, <2>1
  <2>2. CASE ~(j < k)
    <3>0. j \in 1 .. (Len(a) + Len(b)) /\ ~(j <= Len(a))
      BY <1>1, <1>2, <2>2
    <3>1. (a \o b)[j] = b[j - Len(a)]
      BY <1>2, <3>0, ConcatProperties
    <3>2. b[j - (k - 1)] = s[j + 1]
      BY <1>1, <1>2, <2>2
    <3> QED  BY <1>2, <2>2, <3>1, <3>2
  <2> QED  BY <2>1, <2>2
<1> QED  BY <1>3, <1>4, <1>5

(* A found update that is taken out of the notifications is no longer there. *)
LEMMA FoundTaken ==
    ASSUME NEW s \in Seq(NoteKinds), NEW k \in DOMAIN s, FoundOnce(s)
    PROVE  /\ RemoveAt(s, k) \in Seq(NoteKinds) /\ FoundOnce(RemoveAt(s, k))
           /\ FoundAmong(RemoveAt(s, k)) => FoundAmong(s) /\ s[k] # "found"
<1> DEFINE t == RemoveAt(s, k)
<1>1. /\ t \in Seq(NoteKinds) /\ DOMAIN t = 1 .. (Len(s) - 1) /\ DOMAIN s = 1 .. Len(s)
      /\ Len(s) \in Nat /\ k \in 1 .. Len(s)
      /\ \A j \in DOMAIN t : t[j] = s[IF j < k THEN j ELSE j + 1]
  <2>1. DOMAIN s = 1 .. Len(s) /\ Len(s) \in Nat /\ k \in 1 .. Len(s)
    OBVIOUS
  <2>2. /\ t \in Seq(NoteKinds) /\ DOMAIN t = 1 .. (Len(s) - 1)
        /\ \A j \in 1 .. (Len(s) - 1) : t[j] = s[IF j < k THEN j ELSE j + 1]
    BY TakenOut
  <2> HIDE DEF t
  <2> QED  BY <2>1, <2>2
<1> HIDE DEF t
<1>2. \A j \in DOMAIN t : (IF j < k THEN j ELSE j + 1) \in DOMAIN s /\ (IF j < k THEN j ELSE j + 1) # k
  BY <1>1
<1>3. FoundOnce(t)
  <2> SUFFICES ASSUME NEW i \in DOMAIN t, NEW j \in DOMAIN t, t[i] = "found", t[j] = "found"
               PROVE  i = j
    BY DEF FoundOnce
  <2>1. (IF i < k THEN i ELSE i + 1) = (IF j < k THEN j ELSE j + 1)
    BY <1>1, <1>2 DEF FoundOnce
  <2> QED  BY <1>1, <2>1
<1>4. FoundAmong(t) => FoundAmong(s) /\ s[k] # "found"
  <2> SUFFICES ASSUME NEW j \in DOMAIN t, t[j] = "found" PROVE FoundAmong(s) /\ s[k] # "found"
    BY DEF FoundAmong
  <2> DEFINE p == IF j < k THEN j ELSE j + 1
  <2>1. p \in DOMAIN s /\ p # k /\ s[p] = "found"
    BY <1>1, <1>2
  <2> HIDE DEF p
  <2> QED  BY <2>1 DEF FoundAmong, FoundOnce
<1> QED  BY <1>1, <1>3, <1>4 DEF t

(* What an interface does leaves the checks and the updates alone. *)
LEMMA UiLeaves ==
    ASSUME UpdaterInv, uiFrame
    PROVE  StagesFit' /\ OneAtATime' /\ AnnouncedOnce' /\ InstalledIsVerified'
BY DEF uiFrame, UpdaterInv, StagesFit, OneAtATime, AnnouncedOnce, InstalledIsVerified

(* An interface connects, registers and asks. *)
LEMMA UiStepInv ==
    ASSUME UpdaterInv, NEW u \in UpdateUis, UpdateUiStep(u)
    PROVE  UpdaterInv'
<1>k. /\ uiNotes \in [UpdateUis -> Seq(NoteKinds)]
      /\ conn \in [UpdateUis -> {"off", "on", "registered", "asked"}]
      /\ page \in [UpdateUis -> {"absent", "ready", "updating"}]
      /\ entries \in [UpdateUis -> Nat] /\ announced \in {0, 1}
      /\ \A w \in UpdateUis : EntryFits(w)
  BY DEF UpdaterInv, NotesFit, AnnouncedOnce
<1>o. uiFrame /\ UNCHANGED uiNotes /\ announced' = announced
  BY DEF UpdateUiStep, UiConnects, UiRegisters, UiAsks, uiFrame
<1>1. ASSUME NEW c \in {"on", "registered"}, conn[u] # "asked", conn' = [conn EXCEPT ![u] = c],
             UNCHANGED <<page, entries>>
      PROVE  NotesFit'
  <2>1. conn' \in [UpdateUis -> {"off", "on", "registered", "asked"}]
    BY <1>k, <1>1
  <2>2. ASSUME NEW w \in UpdateUis PROVE EntryFits(w)'
    <3>1. conn'[w] # "asked" => conn[w] # "asked"
      BY <1>k, <1>1
    <3> QED  BY <1>k, <1>o, <1>1, <3>1 DEF EntryFits
  <2> QED  BY <1>k, <1>o, <1>1, <2>1, <2>2 DEF NotesFit
<1>2. ASSUME UiAsks(u) PROVE NotesFit'
  <2>1. /\ conn[u] = "registered" /\ conn' = [conn EXCEPT ![u] = "asked"]
        /\ \/ UNCHANGED <<page, entries>>
           \/ updateState = "found" /\ ShowsFound(u)
    BY <1>2 DEF UiAsks
  <2>2. updateState = "found" => announced = 1
    BY DEF UpdaterInv, AnnouncedOnce
  <2>3. /\ conn' \in [UpdateUis -> {"off", "on", "registered", "asked"}]
        /\ page' \in [UpdateUis -> {"absent", "ready", "updating"}]
        /\ entries' \in [UpdateUis -> Nat]
    <3>1. conn' \in [UpdateUis -> {"off", "on", "registered", "asked"}]
      BY <1>k, <2>1
    <3>2. CASE UNCHANGED <<page, entries>>
      BY <1>k, <3>1, <3>2
    <3>3. CASE ShowsFound(u)
      BY <1>k, <3>1, <3>3 DEF ShowsFound
    <3> QED  BY <2>1, <3>2, <3>3
  <2>4. ASSUME NEW w \in UpdateUis, w # u PROVE EntryFits(w)'
    <3>1. conn'[w] = conn[w] /\ entries'[w] = entries[w]
      BY <1>k, <2>1, <2>4 DEF ShowsFound
    <3> QED  BY <1>k, <1>o, <3>1 DEF EntryFits
  <2>5. EntryFits(u)'
    <3>1. /\ conn'[u] = "asked"
          /\ entries'[u] = entries[u] \/ (announced = 1 /\ entries'[u] = entries[u] + 1)
      BY <1>k, <2>1, <2>2 DEF ShowsFound
    <3> QED  BY <1>k, <1>o, <2>1, <3>1 DEF EntryFits
  <2>6. \A w \in UpdateUis : EntryFits(w)'
    BY <2>4, <2>5
  <2>7. uiNotes' \in [UpdateUis -> Seq(NoteKinds)]
    BY <1>k, <1>o
  <2> QED  BY <2>3, <2>6, <2>7 DEF NotesFit
<1>3. ASSUME UiConnects(u) PROVE NotesFit'
  BY <1>1, <1>3 DEF UiConnects
<1>4. ASSUME UiRegisters(u) PROVE NotesFit'
  BY <1>1, <1>4 DEF UiRegisters
<1>5. NotesFit'
  BY <1>2, <1>3, <1>4 DEF UpdateUiStep
<1> QED  BY <1>o, <1>5, UiLeaves DEF UpdaterInv

(* A notification arrives. *)
LEMMA DeliversInv ==
    ASSUME UpdaterInv, NEW u \in UpdateUis, NEW k \in DOMAIN uiNotes[u], Delivers(u, k)
    PROVE  UpdaterInv'
<1> DEFINE s == uiNotes[u]
<1>k. /\ uiNotes \in [UpdateUis -> Seq(NoteKinds)]
      /\ conn \in [UpdateUis -> {"off", "on", "registered", "asked"}]
      /\ page \in [UpdateUis -> {"absent", "ready", "updating"}]
      /\ entries \in [UpdateUis -> Nat] /\ announced \in {0, 1}
      /\ \A w \in UpdateUis : EntryFits(w)
  BY DEF UpdaterInv, NotesFit, AnnouncedOnce
<1>o. uiFrame /\ UNCHANGED conn /\ announced' = announced
  BY DEF Delivers, uiFrame
<1>1. s \in Seq(NoteKinds) /\ FoundOnce(s) /\ k \in DOMAIN s
  BY <1>k DEF EntryFits
<1>2. /\ RemoveAt(s, k) \in Seq(NoteKinds) /\ FoundOnce(RemoveAt(s, k))
      /\ FoundAmong(RemoveAt(s, k)) => FoundAmong(s) /\ s[k] # "found"
  BY <1>1, FoundTaken
<1>3. uiNotes' = [uiNotes EXCEPT ![u] = RemoveAt(s, k)]
  BY DEF Delivers
<1>4. /\ uiNotes' \in [UpdateUis -> Seq(NoteKinds)] /\ uiNotes'[u] = RemoveAt(s, k)
      /\ \A w \in UpdateUis : w # u => uiNotes'[w] = uiNotes[w]
  BY <1>k, <1>2, <1>3
<1>5. \/ UNCHANGED <<page, entries>>
      \/ s[k] = "found" /\ ShowsFound(u)
      \/ /\ page' = [page EXCEPT ![u] = OnProgress(page[u], s[k])]
         /\ UNCHANGED entries
  BY DEF Delivers
<1>6. /\ page' \in [UpdateUis -> {"absent", "ready", "updating"}]
      /\ entries' \in [UpdateUis -> Nat]
      /\ \A w \in UpdateUis : w # u => entries'[w] = entries[w]
      /\ entries'[u] = entries[u] \/ (s[k] = "found" /\ entries'[u] = entries[u] + 1)
  <2>1. CASE UNCHANGED <<page, entries>>
    BY <1>k, <2>1
  <2>2. CASE s[k] = "found" /\ ShowsFound(u)
    BY <1>k, <2>2 DEF ShowsFound
  <2>3. CASE page' = [page EXCEPT ![u] = OnProgress(page[u], s[k])] /\ UNCHANGED entries
    <3>1. OnProgress(page[u], s[k]) \in {"absent", "ready", "updating"}
      BY <1>k DEF OnProgress
    <3> QED  BY <1>k, <2>3, <3>1
  <2> QED  BY <1>5, <2>1, <2>2, <2>3
<1>7. ASSUME NEW w \in UpdateUis, w # u PROVE EntryFits(w)'
  BY <1>k, <1>o, <1>4, <1>6, <1>7 DEF EntryFits
<1>8. EntryFits(u)'
  <2>1. s[k] = "found" => FoundAmong(s)
    BY <1>1 DEF FoundAmong
  <2>2. EntryFits(u) /\ entries[u] \in Nat
    BY <1>k
  <2>3. /\ FoundOnce(uiNotes'[u])
        /\ FoundAmong(uiNotes'[u]) => FoundAmong(s) /\ s[k] # "found"
    BY <1>2, <1>4
  <2>4. conn'[u] = conn[u]
    BY <1>o
  <2> QED  BY <1>o, <1>6, <2>1, <2>2, <2>3, <2>4 DEF EntryFits
<1>9. NotesFit'
  BY <1>k, <1>o, <1>4, <1>6, <1>7, <1>8 DEF NotesFit
<1> QED  BY <1>o, <1>9, UiLeaves DEF UpdaterInv

(* At the start nothing has been found, and no update runs. *)
LEMMA UpdaterInitInv == UpdaterInit => UpdaterInv
<1> SUFFICES ASSUME UpdaterInit PROVE UpdaterInv
  OBVIOUS
<1>1. NoUpdate \in UpdateRecords /\ StageFits(NoUpdate) /\ NoUpdate.pc = "none" /\ NoUpdate.proc = "manager"
  <2>1. NoRelease \in Versions /\ <<>> \in Seq(ProgressKinds) /\ Len(<<>>) <= ProgressSize
    BY UpdaterAssumption DEF UpdaterAssumption, NoRelease, Versions
  <2> QED  BY <2>1 DEF NoUpdate, UpdateRecords, UpdatePcs, StageFits
<1>2. \A i \in Updates : upd[i] = NoUpdate
  BY DEF UpdaterInit
<1>3. StagesFit /\ OneAtATime
  BY <1>1, <1>2, UpdaterAssumption DEF UpdaterInit, UpdaterAssumption, StagesFit, OneAtATime, UnderWay
<1>4. AnnouncedOnce /\ InstalledIsVerified
  <2>1. /\ checker \in [pc : {"start", "check", "off"}, didNotify : BOOLEAN, official : BOOLEAN]
        /\ checker.pc = "start"
    BY DEF UpdaterInit
  <2>2. announced = 0 /\ updateState = "unknown" /\ listed \in ReleaseLists /\ installed = {}
    BY DEF UpdaterInit
  <2> QED  BY <2>1, <2>2 DEF AnnouncedOnce, InstalledIsVerified
<1>5. NotesFit
  BY DEF UpdaterInit, NotesFit, EntryFits, FoundOnce, FoundAmong
<1> QED  BY <1>3, <1>4, <1>5 DEF UpdaterInv

(* Every step keeps the invariant. *)
LEMMA UpdaterStepInv == UpdaterInv /\ [UpdaterNext]_updaterVars => UpdaterInv'
<1> SUFFICES ASSUME UpdaterInv, [UpdaterNext]_updaterVars PROVE UpdaterInv'
  OBVIOUS
<1>1. CASE CheckerStep
  BY <1>1, CheckerInv
<1>2. CASE RunsCommand
  <2>1. /\ FreeUpdates = Updates /\ Starts("command") /\ page' = page
        /\ UNCHANGED <<listed, updateState, checker, announced, uiNotes, conn, entries, installed, updFaults>>
    BY <1>2 DEF RunsCommand, updateFrame
  <2>2. page' \in [UpdateUis -> {"absent", "ready", "updating"}]
    BY <2>1 DEF UpdaterInv, NotesFit
  <2> QED  BY <2>1, <2>2, StartsInv
<1>3. ASSUME NEW l \in ReleaseLists, ListsRelease(l) PROVE UpdaterInv'
  <2>1. /\ UNCHANGED <<updateState, checker, announced, uiNotes, conn, page, entries,
                       upd, busy, installed, updFaults>>
        /\ listed' \in ReleaseLists
    BY <1>3 DEF ListsRelease
  <2>2. StagesFit' /\ OneAtATime' /\ InstalledIsVerified'
    BY <2>1, UpdatesStay DEF UpdaterInv, StagesFit
  <2>3. AnnouncedOnce' /\ NotesFit'
    BY <2>1 DEF UpdaterInv, AnnouncedOnce, NotesFit, EntryFits
  <2> QED  BY <2>2, <2>3 DEF UpdaterInv
<1>4. ASSUME NEW i \in Updates, UpdateStep(i) PROVE UpdaterInv'
  BY <1>4, StageInv
<1>5. ASSUME NEW i \in Updates, Reads(i) PROVE UpdaterInv'
  BY <1>5, ReadsInv
<1>6. ASSUME NEW u \in UpdateUis, UpdateUiStep(u) PROVE UpdaterInv'
  BY <1>6, UiStepInv
<1>7. ASSUME NEW u \in UpdateUis, ClicksUpdate(u) PROVE UpdaterInv'
  <2>1. /\ Starts("manager") /\ page' = [page EXCEPT ![u] = "updating"]
        /\ UNCHANGED <<listed, updateState, checker, announced, uiNotes, conn, entries, installed, updFaults>>
    BY <1>7 DEF ClicksUpdate, updateFrame
  <2>2. page' \in [UpdateUis -> {"absent", "ready", "updating"}]
    BY <2>1 DEF UpdaterInv, NotesFit
  <2> QED  BY <2>1, <2>2, StartsInv
<1>8. ASSUME NEW u \in UpdateUis, NEW k \in DOMAIN uiNotes[u], Delivers(u, k) PROVE UpdaterInv'
  BY <1>8, DeliversInv
<1>9. CASE UNCHANGED updaterVars
  <2>1. UNCHANGED <<listed, updateState, checker, announced, uiNotes, conn, page, entries,
                    upd, busy, installed, updFaults>>
    BY <1>9 DEF updaterVars
  <2>2. StagesFit' /\ OneAtATime' /\ InstalledIsVerified'
    BY <2>1, UpdatesStay DEF UpdaterInv, StagesFit
  <2> QED  BY <2>1, <2>2, OthersStay DEF UpdaterInv
<1> QED  BY <1>1, <1>2, <1>3, <1>4, <1>5, <1>6, <1>7, <1>8, <1>9 DEF UpdaterNext

(* What the property says follows from the invariant. *)
LEMMA UpdaterInvSafe == UpdaterInv => UpdatesSafe
<1> SUFFICES ASSUME UpdaterInv PROVE UpdatesSafe
  OBVIOUS
<1>1. UpdaterTypeOK
  <2>1. entries \in [UpdateUis -> 0 .. 2]
    BY DEF UpdaterInv, NotesFit, EntryFits
  <2>2. announced \in 0 .. 1
    BY DEF UpdaterInv, AnnouncedOnce
  <2> QED  BY <2>1, <2>2 DEF UpdaterInv, StagesFit, StageFits, AnnouncedOnce, NotesFit, UpdaterTypeOK
<1>2. UpdatesDoNotOverlap
  <2> SUFFICES ASSUME NEW i \in Updates, NEW j \in Updates, i # j, upd[i].proc = upd[j].proc,
                      UnderWay(upd[j])
               PROVE  upd[i].pc \in {"none", "done"} /\ upd[i].open = {} /\ upd[i].file \in {"none", "left"}
    BY DEF UpdatesDoNotOverlap, UnderWay
  <2>1. upd[i].pc \in {"none", "done"} /\ StageFits(upd[i])
    BY DEF UpdaterInv, StagesFit, OneAtATime, UnderWay
  <2> QED  BY <2>1 DEF StageFits
<1>3. UpdatesCleanUp
  BY DEF UpdaterInv, StagesFit, StageFits, UpdatesCleanUp
<1> QED  BY <1>1, <1>2, <1>3 DEF UpdatesSafe, UpdaterInv

(* UpdatesSafe holds of every behaviour of the updater: whatever the       *)
(* server lists and whichever calls fail, the installer is started only on *)
(* bytes with the hash of a signed list and only for a later version, one  *)
(* update of a process at a time, and what an update opened it has closed  *)
(* when it is over (downloader.go, versions.go).                           *)
THEOREM UpdatesAreSafe == UpdaterSpec => []UpdatesSafe
<1>1. UpdaterInit => UpdaterInv
  BY UpdaterInitInv
<1>2. UpdaterInv /\ [UpdaterNext]_updaterVars => UpdaterInv'
  BY UpdaterStepInv
<1>3. UpdaterInv => UpdatesSafe
  BY UpdaterInvSafe
<1> QED  BY <1>1, <1>2, <1>3, PTL DEF UpdaterSpec

-----------------------------------------------------------------------------
(* The shared log.  Line n, for n in 1..serial, is written to the slot of  *)
(* n - 1; a line and the one a lap of the ring later share a slot.         *)
Busy == {"reserved", "hidden", "written"}
Shown == items \o scan.found

RingTypes ==
  /\ magic \in BOOLEAN /\ raced \in BOOLEAN
  /\ nextIndex \in 0 .. RingWrap - 1
  /\ slots \in [0 .. RingLines - 1 -> [time : 0 .. MaxWrites, text : 0 .. MaxWrites]]
  /\ serial \in 0 .. MaxWrites
  /\ writer \in [RingWriters -> [pc : {"closed", "clearing", "idle"} \cup Busy,
                                 index : 0 .. RingWrap - 1, serial : 0 .. MaxWrites]]
  /\ scan \in [pc : {"idle", "time", "text", "show"}, cursor : (0 .. RingLines - 1) \cup {CursorAll},
               snap : 0 .. RingWrap - 1, i : Nat, left : 0 .. RingLines, time : 0 .. MaxWrites,
               next : (0 .. RingLines - 1) \cup {CursorAll}, found : Seq(Nat \X Nat)]
  /\ items \in Seq(Nat \X Nat) /\ Len(items) <= MaxShown

\* A writer has the newest line of its slot, no other writer has a line there, and
\* the slot is as far as the writer is.
WriterFits(w) ==
  LET s == writer[w].serial
      k == SlotOf(writer[w].index) IN
  /\ s \in 1 .. serial /\ serial < s + RingLines /\ k = SlotOf(s - 1)
  /\ writer[w].pc = "hidden" => slots[k].time = 0
  /\ writer[w].pc = "written" => slots[k].time = 0 /\ slots[k].text = s
  /\ \A x \in RingWriters \ {w} : ~Owns(x, k)
WritersFit == \A w \in RingWriters : writer[w].pc \in Busy => WriterFits(w)

\* A line that can be seen is whole, and is the newest of its slot unless the writer
\* of a newer one has not hidden it yet.
Unhidden(k) == \E w \in RingWriters : writer[w].pc = "reserved" /\ SlotOf(writer[w].index) = k
SlotFits(k) ==
  LET t == slots[k].time IN
  /\ slots[k].text = t /\ t <= serial /\ k = SlotOf(t - 1)
  /\ serial < t + RingLines \/ Unhidden(k)
SlotsFit == \A k \in 0 .. RingLines - 1 : slots[k].time # 0 => SlotFits(k)

\* The lines shown and found are whole and in the order of their numbers, and the
\* cursor stands behind the last of them.
Whole(s) == \A j \in 1 .. Len(s) : s[j][1] = s[j][2]
Ordered(s) == \A j, k \in 1 .. Len(s) : j < k => s[j][1] < s[k][1]
UpTo(s, p) == \A j \in 1 .. Len(s) : s[j][1] <= p
ShownFit ==
  /\ Whole(Shown) /\ Ordered(Shown)
  /\ IF scan.next = CursorAll THEN Shown = <<>>
     ELSE \E p \in 0 .. serial : scan.next = SlotOf(p) /\ UpTo(Shown, p)

\* A line the follower has seen the time of stays as it is until its text is read.
TextStays(u) ==
  LET k == SlotOf(scan.i) IN
  /\ scan.time # 0 /\ scan.time + RingLines = u + 1
  /\ slots[k].time = scan.time /\ slots[k].text = scan.time
  /\ \A w \in RingWriters : ~Owns(w, k)

\* A follower that set out when s lines had been begun stands at the slot of line
\* u + 1: what it has found is a lap older, and no slot it has still to read has been
\* used again.
Stands(s, u) ==
  /\ s <= serial /\ SlotOf(scan.snap) = SlotOf(s)
  /\ u \in s .. s + RingLines /\ SlotOf(scan.i) = SlotOf(u)
  /\ scan.left >= s + RingLines - u
  /\ IF scan.cursor = CursorAll THEN scan.left = s + RingLines - u ELSE u > s
  /\ u < s + RingLines => serial <= u
  /\ \A j \in 1 .. Len(Shown) : Shown[j][1] + RingLines <= u
  /\ scan.pc = "text" => u < s + RingLines /\ TextStays(u)

ScanFits ==
  /\ scan.pc = "idle" => scan.cursor = scan.next /\ scan.found = <<>>
  /\ scan.pc \in {"time", "text"} => \E s, u \in Nat : Stands(s, u)

RingFits ==
  /\ nextIndex = serial % RingWrap
  /\ WritersFit /\ SlotsFit /\ ShownFit /\ ScanFits

RingInv == RingTypes /\ (raced \/ RingFits)

-----------------------------------------------------------------------------
(* Division with a remainder, for the ring and for its index.              *)
LEMMA RemainderInRange ==
  ASSUME NEW n \in Nat, NEW d \in Nat \ {0}
  PROVE  n % d \in 0 .. d - 1 /\ n \div d \in Nat /\ n = d * (n \div d) + (n % d)
OBVIOUS

LEMMA NoMultipleBetween ==
  ASSUME NEW d \in Nat \ {0}, NEW q \in Int, d * q > - d, d * q < d
  PROVE  q = 0
<1>1. CASE q >= 1
  <2>1. d * q >= d * 1
    BY <1>1
  <2> QED
    BY <2>1
<1>2. CASE q <= -1
  <2>1. d * q <= d * (-1)
    BY <1>2
  <2> QED
    BY <2>1
<1> QED
  BY <1>1, <1>2

LEMMA RemainderIsUnique ==
  ASSUME NEW d \in Nat \ {0}, NEW q \in Int, NEW p \in Int,
         NEW r \in 0 .. d - 1, NEW s \in 0 .. d - 1, d * q + r = d * p + s
  PROVE  q = p /\ r = s
<1>1. d * (q - p) = d * q - d * p
  OBVIOUS
<1>2. d * q \in Int /\ d * p \in Int
  OBVIOUS
<1>3. d * q - d * p = s - r
  BY <1>2
<1>4. d * (q - p) > - d /\ d * (q - p) < d
  BY <1>1, <1>3
<1>5. q - p = 0
  BY <1>4, NoMultipleBetween
<1> QED
  BY <1>3, <1>5

LEMMA RemainderOf ==
  ASSUME NEW d \in Nat \ {0}, NEW n \in Nat, NEW q \in Int, NEW r \in 0 .. d - 1, n = d * q + r
  PROVE  n % d = r
<1>1. n % d \in 0 .. d - 1 /\ n \div d \in Int /\ n = d * (n \div d) + (n % d)
  BY RemainderInRange
<1> DEFINE a == n \div d
           b == n % d
<1>2. d * q + r = d * a + b /\ a \in Int /\ b \in 0 .. d - 1
  BY <1>1
<1> HIDE DEF a, b
<1>3. r = b
  BY <1>2, RemainderIsUnique
<1> QED
  BY <1>3 DEF b

\* Two numbers with the same remainder are at least d apart.
LEMMA SameRemainder ==
  ASSUME NEW d \in Nat \ {0}, NEW a \in Nat, NEW b \in Nat, a % d = b % d, a <= b, b < a + d
  PROVE  a = b
<1> DEFINE p == a \div d
           q == b \div d
           r == a % d
<1>1. p \in Int /\ q \in Int /\ r \in 0 .. d - 1 /\ a = d * p + r /\ b = d * q + r
  BY RemainderInRange
<1> HIDE DEF p, q, r
<1>2. d * p \in Int /\ d * q \in Int /\ d * (q - p) = d * q - d * p
  BY <1>1
<1>3. d * (q - p) = b - a
  BY <1>1, <1>2
<1>4. d * (q - p) > - d /\ d * (q - p) < d
  BY <1>3
<1>5. q - p = 0
  BY <1>1, <1>4, NoMultipleBetween
<1> QED
  BY <1>1, <1>5

LEMMA RemainderOfSum ==
  ASSUME NEW d \in Nat \ {0}, NEW a \in Nat, NEW q \in Int, NEW m \in Nat, a = d * q + m
  PROVE  a % d = m % d
<1> DEFINE p == m \div d
           r == m % d
<1>1. p \in Int /\ r \in 0 .. d - 1 /\ m = d * p + r
  BY RemainderInRange
<1> HIDE DEF p, r
<1>2. d * (q + p) = d * q + d * p /\ d * q \in Int /\ d * p \in Int
  BY <1>1
<1>3. a = d * (q + p) + r
  BY <1>1, <1>2
<1>4. a % d = r
  BY <1>1, <1>3, RemainderOf
<1> QED
  BY <1>4 DEF r

\* The remainder moves on with the number.
LEMMA RemainderMovesOn ==
  ASSUME NEW d \in Nat \ {0}, NEW a \in Nat, NEW b \in Nat, NEW n \in Nat, a % d = b % d
  PROVE  (a + n) % d = (b + n) % d
<1> DEFINE p == a \div d
           q == b \div d
           r == a % d
<1>1. p \in Int /\ q \in Int /\ r \in 0 .. d - 1 /\ a = d * p + r /\ b = d * q + r
  BY RemainderInRange
<1> HIDE DEF p, q, r
<1>2. d * p \in Int /\ d * q \in Int /\ r + n \in Nat
  BY <1>1
<1>3. a + n = d * p + (r + n) /\ b + n = d * q + (r + n)
  BY <1>1, <1>2
<1> DEFINE m == r + n
           e == a + n
           f == b + n
<1>4. m \in Nat /\ e \in Nat /\ f \in Nat /\ e = d * p + m /\ f = d * q + m
  BY <1>1, <1>2, <1>3
<1>5. p \in Int /\ q \in Int
  BY <1>1
<1> HIDE DEF m, e, f
<1>6. \A x \in Nat, c \in Int, y \in Nat : x = d * c + y => x % d = y % d
  BY RemainderOfSum
<1>7. e % d = m % d
  BY <1>4, <1>5, <1>6
<1>8. f % d = m % d
  BY <1>4, <1>5, <1>6
<1> QED
  BY <1>7, <1>8 DEF e, f

LEMMA RemainderOfLap ==
  ASSUME NEW d \in Nat \ {0}, NEW n \in Nat
  PROVE  (n + d) % d = n % d
<1> DEFINE e == n + d
           one == 1
<1>1. e \in Nat /\ one \in Int /\ e = d * one + n
  OBVIOUS
<1> HIDE DEF e, one
<1>2. e % d = n % d
  BY <1>1, RemainderOfSum
<1> QED
  BY <1>2 DEF e

\* A modulus that d divides changes no remainder by d.
LEMMA RemainderOfRemainder ==
  ASSUME NEW d \in Nat \ {0}, NEW m \in Nat \ {0}, m % d = 0, NEW n \in Nat
  PROVE  (n % m) % d = n % d
<1> DEFINE c == m \div d
           q == n \div m
           r == n % m
<1>1. c \in Int /\ m = d * c
  BY RemainderInRange
<1>2. q \in Int /\ r \in Nat /\ n = m * q + r
  BY RemainderInRange
<1> HIDE DEF c, q, r
<1>3. m * q = d * (c * q) /\ c * q \in Int
  BY <1>1, <1>2
<1> DEFINE e == c * q
<1>4. e \in Int /\ n = d * e + r /\ r \in Nat
  BY <1>2, <1>3
<1> HIDE DEF e
<1>5. \A x \in Int, y \in Nat : n = d * x + y => n % d = y % d
  BY RemainderOfSum
<1>6. n % d = r % d
  BY <1>4, <1>5
<1> QED
  BY <1>6 DEF r

\* The smallest number above s with the remainder of p.
LEMMA NextWithRemainder ==
  ASSUME NEW d \in Nat \ {0}, NEW p \in Nat, NEW s \in Nat, p <= s
  PROVE  \E u \in s + 1 .. s + d : u % d = p % d /\ u >= p + d
<1> DEFINE n == s - p
           q == n \div d
           r == n % d
           u == s + d - r
<1>1. n \in Nat
  OBVIOUS
<1> HIDE DEF n
<1>2. q \in Nat /\ r \in 0 .. d - 1 /\ n = d * q + r
  BY <1>1, RemainderInRange
<1> HIDE DEF q, r
<1>3. d * q \in Nat /\ d * (q + 1) = d * q + d
  BY <1>2
<1> DEFINE e == q + 1
<1>4. s = p + n
  BY DEF n
<1>5. u \in s + 1 .. s + d /\ u >= p + d /\ u = d * e + p /\ e \in Int
  BY <1>1, <1>2, <1>3, <1>4
<1> HIDE DEF u, e
<1>6. u \in Nat
  BY <1>5
<1>7. u % d = p % d
  BY <1>5, <1>6, RemainderOfSum
<1> QED
  BY <1>5, <1>7

-----------------------------------------------------------------------------
(* The slots of the ring. *)
LEMMA SlotInRing ==
  ASSUME NEW n \in Nat
  PROVE  SlotOf(n) \in 0 .. RingLines - 1
BY RemainderInRange, RingAssumption DEF SlotOf

LEMMA SameSlot ==
  ASSUME NEW a \in Nat, NEW b \in Nat, SlotOf(a) = SlotOf(b), a <= b, b < a + RingLines
  PROVE  a = b
BY SameRemainder, RingAssumption DEF SlotOf

LEMMA SlotMovesOn ==
  ASSUME NEW a \in Nat, NEW b \in Nat, NEW n \in Nat, SlotOf(a) = SlotOf(b)
  PROVE  SlotOf(a + n) = SlotOf(b + n)
<1>1. RingLines \in Nat \ {0}
  BY RingAssumption
<1>2. a % RingLines = b % RingLines
  BY DEF SlotOf
<1>3. (a + n) % RingLines = (b + n) % RingLines
  BY <1>1, <1>2, RemainderMovesOn, Zenon
<1> QED
  BY <1>3 DEF SlotOf

LEMMA SlotOfLap ==
  ASSUME NEW n \in Nat
  PROVE  SlotOf(n + RingLines) = SlotOf(n)
BY RemainderOfLap, RingAssumption DEF SlotOf

LEMMA NextWithSlot ==
  ASSUME NEW p \in Nat, NEW s \in Nat, p <= s
  PROVE  \E u \in s + 1 .. s + RingLines : SlotOf(u) = SlotOf(p) /\ u >= p + RingLines
BY NextWithRemainder, RingAssumption DEF SlotOf

LEMMA SlotOfItself ==
  ASSUME NEW k \in 0 .. RingLines - 1
  PROVE  SlotOf(k) = k
<1>1. RingLines \in Nat \ {0} /\ 0 \in Int /\ k = RingLines * 0 + k /\ k \in Nat
  BY RingAssumption
<1> QED
  BY <1>1, RemainderOf DEF SlotOf

\* The shared index wraps, the slots do not notice: the wrap is a number of laps.
LEMMA IndexWraps ==
  ASSUME NEW n \in Nat
  PROVE  /\ n % RingWrap \in 0 .. RingWrap - 1
         /\ SlotOf(n % RingWrap) = SlotOf(n)
         /\ ((n % RingWrap) + 1) % RingWrap = (n + 1) % RingWrap
<1>1. SlotOf(n % RingWrap) = SlotOf(n)
  BY RemainderOfRemainder, RingAssumption DEF SlotOf
<1>2. n % RingWrap \in 0 .. RingWrap - 1
  BY RemainderInRange, RingAssumption
<1> DEFINE m == n % RingWrap
<1>3. m \in Nat /\ RingWrap \in Nat \ {0} /\ 0 \in Int /\ m \in 0 .. RingWrap - 1 /\ m = RingWrap * 0 + m
  BY <1>2, RingAssumption
<1>4. m % RingWrap = n % RingWrap
  <2> HIDE DEF m
  <2>1. m % RingWrap = m
    BY <1>3, RemainderOf
  <2> QED
    BY <2>1 DEF m
<1>5. (m + 1) % RingWrap = (n + 1) % RingWrap
  <2> HIDE DEF m
  <2> QED
    <3>1. 1 \in Nat
      OBVIOUS
    <3> QED
      BY <1>3, <1>4, <3>1, RemainderMovesOn, Zenon
<1> QED
  BY <1>1, <1>2, <1>5

\* CursorAll is no slot.
LEMMA AllIsNoSlot == RingWrap >= RingLines
<1>1. SUFFICES ASSUME RingWrap < RingLines PROVE FALSE
  BY RingAssumption
<1>2. RingLines \in Nat \ {0} /\ RingWrap \in Nat /\ 0 \in Int /\ RingWrap \in 0 .. RingLines - 1
      /\ RingWrap = RingLines * 0 + RingWrap
  BY <1>1, RingAssumption
<1>3. RingWrap % RingLines = RingWrap
  BY <1>2, RemainderOf
<1> QED
  BY <1>3, RingAssumption

LEMMA RingNumbers ==
  ASSUME RingTypes
  PROVE  /\ serial \in Nat /\ scan.i \in Nat /\ scan.left \in Nat /\ scan.snap \in Nat /\ scan.time \in Nat
         /\ \A k \in 0 .. RingLines - 1 : slots[k].time \in Nat /\ slots[k].text \in Nat
         /\ \A w \in RingWriters : writer[w].serial \in Nat /\ writer[w].index \in Nat
<1>1. /\ RingLines \in Nat \ {0} /\ RingWrap \in Nat \ {0} /\ MaxWrites \in Nat
  BY RingAssumption
<1>2. serial \in Nat /\ scan.i \in Nat /\ scan.left \in Nat /\ scan.snap \in Nat /\ scan.time \in Nat
  BY <1>1 DEF RingTypes
<1>3. \A k \in 0 .. RingLines - 1 : slots[k].time \in Nat /\ slots[k].text \in Nat
  BY <1>1 DEF RingTypes
<1>4. \A w \in RingWriters : writer[w].serial \in Nat /\ writer[w].index \in Nat
  BY <1>1 DEF RingTypes
<1> QED
  BY <1>2, <1>3, <1>4

\* No line is being written where the follower is about to read a text.
LEMMA TextIsFree ==
  ASSUME RingTypes, RingFits, scan.pc = "text"
  PROVE  /\ \A w \in RingWriters : ~Owns(w, SlotOf(scan.i))
         /\ SlotOf(scan.i) \in 0 .. RingLines - 1 /\ slots[SlotOf(scan.i)].time # 0
<1>1. PICK s, u \in Nat : Stands(s, u)
  BY DEF RingFits, ScanFits
<1>2. SlotOf(scan.i) \in 0 .. RingLines - 1
  BY SlotInRing DEF RingTypes
<1> QED
  BY <1>1, <1>2 DEF Stands, TextStays

\* The follower stays where it is when nothing is done to the text it is reading.
LEMMA FollowerStays ==
  ASSUME RingFits, UNCHANGED <<scan, items, serial>>,
         scan.pc = "text" => LET k == SlotOf(scan.i) IN
                             slots'[k] = slots[k] /\ \A w \in RingWriters : Owns(w, k)' => Owns(w, k)
  PROVE  ShownFit' /\ ScanFits'
<1>1. ShownFit'
  BY DEF RingFits, ShownFit, Shown, Whole, Ordered, UpTo
<1>2. ASSUME NEW s \in Nat, NEW u \in Nat, Stands(s, u)
      PROVE  Stands(s, u)'
  BY <1>2 DEF Stands, TextStays, Shown
<1> QED
  BY <1>1, <1>2 DEF RingFits, ScanFits

-----------------------------------------------------------------------------
(* The writers. *)
LEMMA OpenRingKeeps ==
  ASSUME RingInv, ~raced, NEW w \in RingWriters, OpenRing(w)
  PROVE  RingInv'
<1>1. RingTypes /\ RingFits
  BY DEF RingInv
<1>2. RingTypes'
  BY <1>1 DEF OpenRing, RingTypes, Busy, CursorAll
<1>3. /\ \A x \in RingWriters : writer'[x].pc \in Busy => writer'[x] = writer[x]
      /\ \A x \in RingWriters : writer[x].pc \in Busy => writer'[x] = writer[x]
      /\ \A x \in RingWriters : \A k : Owns(x, k)' <=> Owns(x, k)
      /\ \A k : Unhidden(k)' <=> Unhidden(k)
  BY <1>1 DEF OpenRing, RingTypes, Busy, Owns, Unhidden
<1>4. WritersFit'
  BY <1>1, <1>3 DEF OpenRing, RingFits, WritersFit, WriterFits
<1>5. SlotsFit'
  BY <1>1, <1>3 DEF OpenRing, RingFits, SlotsFit, SlotFits
<1>6. ShownFit' /\ ScanFits'
  BY <1>1, <1>3, FollowerStays DEF OpenRing
<1> QED
  BY <1>1, <1>2, <1>4, <1>5, <1>6 DEF RingInv, RingFits, OpenRing

LEMMA ClearRingKeeps ==
  ASSUME RingInv, ~raced, NEW w \in RingWriters, ClearRing(w)
  PROVE  RingInv'
<1>1. RingTypes /\ RingFits
  BY DEF RingInv
<1>2. RingTypes'
  <2>1. slots' \in [0 .. RingLines - 1 -> [time : 0 .. MaxWrites, text : 0 .. MaxWrites]]
    BY <1>1, RingAssumption DEF ClearRing, RingTypes, Empty
  <2>2. writer' \in [RingWriters -> [pc : {"closed", "clearing", "idle"} \cup Busy,
                                     index : 0 .. RingWrap - 1, serial : 0 .. MaxWrites]]
    BY <1>1 DEF ClearRing, RingTypes
  <2>3. nextIndex' \in 0 .. RingWrap - 1 /\ magic' \in BOOLEAN /\ raced' \in BOOLEAN
    BY <1>1, RingAssumption DEF ClearRing, RingTypes
  <2> QED
    BY <1>1, <2>1, <2>2, <2>3 DEF ClearRing, RingTypes
<1>3. SUFFICES ASSUME ~raced' PROVE RingFits'
  BY <1>2 DEF RingInv
<1>4. serial = 0
  <2>1. ~(serial > 0)
    BY <1>3 DEF ClearRing
  <2> QED
    BY <1>1, <2>1, RingAssumption DEF RingTypes
<1>5. \A x \in RingWriters : writer[x].pc \notin Busy
  BY <1>1, <1>4 DEF RingFits, WritersFit, WriterFits
<1>6. \A x \in RingWriters : writer'[x].pc \notin Busy
  BY <1>1, <1>5 DEF ClearRing, RingTypes, Busy
<1>7. WritersFit'
  BY <1>6 DEF WritersFit
<1>8. SlotsFit'
  BY <1>1 DEF ClearRing, SlotsFit, Empty, RingTypes
<1>9. scan.pc # "text"
  <2>1. \A k \in 0 .. RingLines - 1 : slots[k].time = 0
    <3>1. SUFFICES ASSUME NEW k \in 0 .. RingLines - 1, slots[k].time # 0 PROVE FALSE
      OBVIOUS
    <3>2. slots[k].time <= serial
      BY <1>1, <3>1 DEF RingFits, SlotsFit, SlotFits
    <3>3. slots[k].time \in Nat
      BY <1>1, RingAssumption DEF RingTypes
    <3> QED
      BY <1>4, <3>1, <3>2, <3>3
  <2> QED
    BY <1>1, <2>1, TextIsFree
<1>10. ShownFit' /\ ScanFits'
  BY <1>1, <1>9, FollowerStays DEF ClearRing
<1>11. nextIndex' = serial' % RingWrap
  <2>1. RingWrap \in Nat \ {0} /\ 0 \in Nat /\ 0 \in Int /\ 0 \in 0 .. RingWrap - 1 /\ 0 = RingWrap * 0 + 0
    BY RingAssumption
  <2>2. 0 % RingWrap = 0
    BY <2>1, RemainderOf
  <2> QED
    BY <1>4, <2>2 DEF ClearRing
<1> QED
  BY <1>7, <1>8, <1>10, <1>11 DEF RingFits

LEMMA ReserveKeeps ==
  ASSUME RingInv, ~raced, NEW w \in RingWriters, Reserve(w)
  PROVE  RingInv'
<1> DEFINE k0 == SlotOf(serial)
<1>1. RingTypes /\ RingFits /\ serial \in Nat /\ serial' = serial + 1
  <2>1. RingTypes /\ RingFits /\ serial' = serial + 1
    BY DEF RingInv, Reserve
  <2> QED
    BY <2>1, RingNumbers
<1>2. SlotOf(nextIndex) = k0 /\ nextIndex' = serial' % RingWrap
  BY <1>1, IndexWraps DEF Reserve, RingFits
<1>3. /\ writer[w].pc = "idle"
      /\ writer' = [writer EXCEPT ![w] = [pc |-> "reserved", index |-> nextIndex, serial |-> serial + 1]]
      /\ raced' = (raced \/ Ahead(k0) \/ \E x \in RingWriters \ {w} : Owns(x, k0))
      /\ UNCHANGED <<slots, scan, items>>
  BY <1>2 DEF Reserve
<1> HIDE DEF k0
<1>4. RingTypes'
  <2>1. writer' \in [RingWriters -> [pc : {"closed", "clearing", "idle"} \cup Busy,
                                     index : 0 .. RingWrap - 1, serial : 0 .. MaxWrites]]
    <3>1. serial + 1 \in 0 .. MaxWrites /\ nextIndex \in 0 .. RingWrap - 1
      BY <1>1, RingAssumption DEF Reserve, RingTypes
    <3> QED
      BY <1>1, <1>3, <3>1 DEF RingTypes, Busy
  <2>2. nextIndex' \in 0 .. RingWrap - 1 /\ serial' \in 0 .. MaxWrites /\ raced' \in BOOLEAN
    <3>1. raced' \in BOOLEAN
      BY <1>3
    <3>2. nextIndex' \in 0 .. RingWrap - 1
      BY <1>1, <1>2, IndexWraps
    <3> QED
      BY <1>1, <3>1, <3>2, RingAssumption DEF Reserve
  <2> QED
    BY <1>1, <2>1, <2>2 DEF RingTypes, Reserve
<1>5. SUFFICES ASSUME ~raced' PROVE RingFits'
  BY <1>4 DEF RingInv
<1>6. ~Ahead(k0) /\ \A x \in RingWriters \ {w} : ~Owns(x, k0)
  BY <1>3, <1>5
<1>7. /\ writer'[w] = [pc |-> "reserved", index |-> nextIndex, serial |-> serial + 1]
      /\ \A x \in RingWriters \ {w} : writer'[x] = writer[x]
      /\ \A x \in RingWriters \ {w} : \A k : Owns(x, k)' <=> Owns(x, k)
      /\ \A k : Owns(w, k)' <=> k = k0
      /\ \A k : ~Owns(w, k)
  BY <1>1, <1>2, <1>3 DEF RingTypes, Owns
<1>8. WritersFit'
  <2>1. ASSUME NEW x \in RingWriters, writer'[x].pc \in Busy PROVE WriterFits(x)'
    <3>1. CASE x = w
      <4>1. /\ writer'[x].serial = serial' /\ writer'[x].pc = "reserved"
            /\ SlotOf(writer'[x].index) = k0 /\ serial' - 1 = serial
        BY <1>1, <1>2, <1>7, <3>1
      <4>2. serial' \in 1 .. serial' /\ serial' < serial' + RingLines /\ k0 = SlotOf(serial' - 1)
        BY <1>1, <4>1, RingAssumption DEF k0
      <4>3. \A y \in RingWriters \ {x} : ~(writer'[y].pc \in Busy /\ SlotOf(writer'[y].index) = k0)
        BY <1>6, <1>7, <3>1 DEF Owns, Busy
      <4> QED
        BY <4>1, <4>2, <4>3 DEF WriterFits, Owns, Busy
    <3>2. CASE x # w
      <4> DEFINE s == writer[x].serial
                 k == SlotOf(writer[x].index)
      <4>1. WriterFits(x) /\ writer'[x] = writer[x] /\ Owns(x, k)
        BY <1>1, <1>7, <2>1, <3>2 DEF RingFits, WritersFit, Owns, Busy
      <4>2. s \in 1 .. serial /\ serial < s + RingLines /\ k = SlotOf(s - 1)
        BY <4>1 DEF WriterFits
      <4>3. k # k0
        BY <1>6, <3>2, <4>1
      <4> HIDE DEF s, k
      <4>4. serial # s - 1 + RingLines
        <5>1. SUFFICES ASSUME serial = s - 1 + RingLines PROVE FALSE
          OBVIOUS
        <5>2. s - 1 \in Nat
          BY <1>1, <4>2
        <5>3. SlotOf(serial) = SlotOf(s - 1)
          BY <5>1, <5>2, SlotOfLap
        <5> QED
          BY <4>2, <4>3, <5>3 DEF k0
      <4>5. s \in 1 .. serial' /\ serial' < s + RingLines
        BY <1>1, <4>2, <4>4, RingAssumption
      <4>6. \A y \in RingWriters \ {x} : ~Owns(y, k)'
        BY <1>7, <4>1, <4>3 DEF WriterFits, k
      <4> QED
        BY <1>3, <4>1, <4>2, <4>5, <4>6 DEF WriterFits, s, k
    <3> QED
      BY <3>1, <3>2
  <2> QED
    BY <2>1 DEF WritersFit
<1>9. SlotsFit'
  <2>1. ASSUME NEW k \in 0 .. RingLines - 1, slots'[k].time # 0 PROVE SlotFits(k)'
    <3> DEFINE t == slots[k].time
    <3>1. SlotFits(k) /\ slots' = slots /\ t \in Nat /\ t # 0
      BY <1>1, <1>3, <2>1, RingNumbers DEF RingFits, SlotsFit
    <3>2. slots[k].text = t /\ t <= serial' /\ k = SlotOf(t - 1)
      BY <1>1, <3>1 DEF SlotFits
    <3>3. serial' < t + RingLines \/ Unhidden(k)'
      <4>1. CASE k = k0
        BY <1>2, <1>7, <4>1 DEF Unhidden
      <4>2. CASE k # k0 /\ serial < t + RingLines
        <5> HIDE DEF t
        <5>1. t - 1 \in Nat
          BY <3>1
        <5>2. serial # t - 1 + RingLines
          BY <3>2, <4>2, <5>1, SlotOfLap DEF k0
        <5> QED
          BY <1>1, <3>1, <4>2, <5>2, RingAssumption
      <4>3. CASE Unhidden(k)
        <5>1. PICK x \in RingWriters : writer[x].pc = "reserved" /\ SlotOf(writer[x].index) = k
          BY <4>3 DEF Unhidden
        <5>2. x # w
          BY <1>3, <5>1
        <5> QED
          BY <1>7, <5>1, <5>2 DEF Unhidden
      <4> QED
        BY <3>1, <4>1, <4>2, <4>3 DEF SlotFits
    <3> QED
      BY <3>1, <3>2, <3>3 DEF SlotFits
  <2> QED
    BY <2>1 DEF SlotsFit
<1>10. ShownFit'
  <2>1. Shown' = Shown /\ scan' = scan
    BY <1>3 DEF Shown
  <2>2. \A p \in 0 .. serial : p \in 0 .. serial'
    BY <1>1
  <2> QED
    BY <1>1, <2>1, <2>2 DEF RingFits, ShownFit, Whole, Ordered, UpTo
<1>11. ScanFits'
  <2>1. ASSUME NEW s \in Nat, NEW u \in Nat, Stands(s, u), scan.pc \in {"time", "text"}
        PROVE  Stands(s, u)'
    <3>1. /\ s <= serial /\ SlotOf(scan.snap) = SlotOf(s)
          /\ u >= s /\ u <= s + RingLines /\ SlotOf(scan.i) = SlotOf(u)
          /\ scan.left >= s + RingLines - u
          /\ scan.cursor # CursorAll => u > s
          /\ u < s + RingLines => serial <= u
      BY <2>1 DEF Stands
    <3>2. ASSUME u < s + RingLines PROVE serial # u
      <4>1. SUFFICES ASSUME serial = u PROVE Ahead(k0)
        BY <1>6
      <4>2. scan.left > 0 /\ 0 \in 0 .. RingLines - 1 /\ scan.i + 0 = scan.i
        BY <1>1, <2>1, <3>1, <3>2, RingAssumption, RingNumbers
      <4>3. SlotOf(scan.i) = k0
        BY <3>1, <4>1 DEF k0
      <4>4. scan.cursor # CursorAll => SlotOf(scan.i) # SlotOf(scan.snap)
        BY <3>1, <3>2, SameSlot
      <4>5. \A m \in 0 .. 0 : m = 0
        OBVIOUS
      <4>6. scan.cursor # CursorAll => \A m \in 0 .. 0 : SlotOf(scan.i + m) # SlotOf(scan.snap)
        BY <4>2, <4>4, <4>5
      <4> QED
        BY <2>1, <4>2, <4>3, <4>6 DEF Ahead
    <3>3. ASSUME u < s + RingLines PROVE serial' <= u /\ SlotOf(scan.i) # k0
      <4>1. serial < u
        BY <1>1, <3>1, <3>2, <3>3
      <4>2. u < serial + RingLines
        BY <1>1, <3>1, <3>3, RingAssumption
      <4>3. SlotOf(serial) # SlotOf(u)
        BY <1>1, <4>1, <4>2, SameSlot
      <4> QED
        BY <1>1, <3>1, <4>1, <4>3 DEF k0
    <3>4. scan.pc = "text" => TextStays(u)'
      <4>1. SUFFICES ASSUME scan.pc = "text" PROVE TextStays(u)'
        OBVIOUS
      <4>2. TextStays(u) /\ u < s + RingLines
        BY <2>1, <4>1 DEF Stands
      <4> QED
        BY <1>3, <1>7, <3>3, <4>2 DEF TextStays
    <3>5. s <= serial' /\ Shown' = Shown /\ scan' = scan
      BY <1>1, <1>3, <3>1 DEF Shown
    <3> QED
      BY <2>1, <3>3, <3>4, <3>5 DEF Stands
  <2> QED
    BY <1>1, <1>3, <2>1 DEF RingFits, ScanFits
<1> QED
  BY <1>2, <1>8, <1>9, <1>10, <1>11 DEF RingFits

\* Hiding a line, writing a text and storing a time touch the writer's own slot.
LEMMA AdvanceKeeps ==
  ASSUME RingInv, NEW w \in RingWriters, NEW from \in Busy, NEW to \in {"hidden", "written", "idle"},
         NEW slot \in [time : 0 .. MaxWrites, text : 0 .. MaxWrites], Advance(w, from, to, slot), ~raced,
         to = "hidden" => slot.time = 0,
         to = "written" => slot.time = 0 /\ slot.text = writer[w].serial,
         slot.time # 0 => slot.time = writer[w].serial /\ slot.text = writer[w].serial
  PROVE  RingInv'
<1> DEFINE k0 == SlotOf(writer[w].index)
<1>1. RingTypes /\ RingFits /\ k0 \in 0 .. RingLines - 1
  <2>1. RingTypes /\ RingFits
    BY DEF RingInv
  <2> QED
    BY <2>1, RingNumbers, SlotInRing
<1>2. /\ writer[w].pc = from /\ writer' = [writer EXCEPT ![w].pc = to]
      /\ slots' = [slots EXCEPT ![k0] = slot]
      /\ UNCHANGED <<magic, nextIndex, scan, items, serial, raced>>
  BY DEF Advance
<1>3. WriterFits(w) /\ Owns(w, k0)
  BY <1>1, <1>2 DEF RingFits, WritersFit, Owns, Busy
<1> HIDE DEF k0
<1>4. /\ slots'[k0] = slot
      /\ \A k \in 0 .. RingLines - 1 : k # k0 => slots'[k] = slots[k]
  BY <1>1, <1>2 DEF RingTypes
<1>5. /\ writer'[w].pc = to /\ writer'[w].index = writer[w].index /\ writer'[w].serial = writer[w].serial
      /\ \A x \in RingWriters \ {w} : writer'[x] = writer[x]
      /\ \A x \in RingWriters : \A k : Owns(x, k)' => Owns(x, k)
  BY <1>1, <1>2 DEF RingTypes, Owns, Busy
<1>6. RingTypes'
  <2>1. slots' \in [0 .. RingLines - 1 -> [time : 0 .. MaxWrites, text : 0 .. MaxWrites]]
    BY <1>1, <1>2 DEF RingTypes
  <2>2. writer' \in [RingWriters -> [pc : {"closed", "clearing", "idle"} \cup Busy,
                                     index : 0 .. RingWrap - 1, serial : 0 .. MaxWrites]]
    <3>1. to \in {"closed", "clearing", "idle"} \cup Busy
      BY DEF Busy
    <3> DEFINE P == {"closed", "clearing", "idle"} \cup Busy
               I == 0 .. RingWrap - 1
               S == 0 .. MaxWrites
    <3>2. writer \in [RingWriters -> [pc : P, index : I, serial : S]]
      BY <1>1 DEF RingTypes
    <3>3. to \in P
      BY <3>1
    <3> HIDE DEF P, I, S
    <3>4. [writer[w] EXCEPT !.pc = to] \in [pc : P, index : I, serial : S]
      BY <3>2, <3>3
    <3>5. writer' = [writer EXCEPT ![w] = [writer[w] EXCEPT !.pc = to]]
      BY <1>2
    <3>6. writer' \in [RingWriters -> [pc : P, index : I, serial : S]]
      BY <3>2, <3>4, <3>5
    <3> QED
      BY <3>6 DEF P, I, S
  <2> QED
    BY <1>1, <1>2, <2>1, <2>2 DEF RingTypes
<1>7. WritersFit'
  <2>1. ASSUME NEW x \in RingWriters, writer'[x].pc \in Busy PROVE WriterFits(x)'
    <3>1. CASE x = w
      <4>1. k0 = SlotOf(writer'[w].index)
        BY <1>5 DEF k0
      <4>2. \A y \in RingWriters \ {w} : ~Owns(y, k0)
        BY <1>3 DEF WriterFits, k0
      <4>3. \A y \in RingWriters \ {w} : ~(writer'[y].pc \in Busy /\ SlotOf(writer'[y].index) = k0)
        BY <1>5, <4>2 DEF Owns, Busy
      <4>4. to = "hidden" => slots'[k0].time = 0
        BY <1>4
      <4>5. to = "written" => slots'[k0].time = 0 /\ slots'[k0].text = writer[w].serial
        BY <1>4
      <4> QED
        BY <1>2, <1>3, <1>5, <3>1, <4>1, <4>3, <4>4, <4>5 DEF WriterFits, Owns, Busy
    <3>2. CASE x # w
      <4>1. writer[x].pc \in Busy /\ writer'[x] = writer[x] /\ WriterFits(x)
        BY <1>1, <1>5, <2>1, <3>2 DEF RingFits, WritersFit
      <4> DEFINE k == SlotOf(writer[x].index)
      <4>2. k \in 0 .. RingLines - 1
        BY <1>1, RingNumbers, SlotInRing
      <4>3. k # k0
        BY <1>3, <3>2, <4>1 DEF WriterFits
      <4>4. slots'[k] = slots[k]
        BY <1>4, <4>2, <4>3
      <4>5. \A y \in RingWriters \ {x} : ~Owns(y, k)
        BY <4>1 DEF WriterFits
      <4>6. \A y \in RingWriters \ {x} : ~(writer'[y].pc \in Busy /\ SlotOf(writer'[y].index) = k)
        BY <1>5, <4>5 DEF Owns, Busy
      <4> QED
        BY <1>2, <4>1, <4>4, <4>6 DEF WriterFits, Owns, Busy
    <3> QED
      BY <3>1, <3>2
  <2> QED
    BY <2>1 DEF WritersFit
<1>8. SlotsFit'
  <2>1. ASSUME NEW k \in 0 .. RingLines - 1, slots'[k].time # 0 PROVE SlotFits(k)'
    <3>1. CASE k = k0
      <4>1. slots'[k].time = writer[w].serial /\ slots'[k].text = writer[w].serial
        BY <1>4, <2>1, <3>1
      <4>2. writer[w].serial \in 1 .. serial /\ serial < writer[w].serial + RingLines
            /\ k = SlotOf(writer[w].serial - 1)
        BY <1>3, <3>1 DEF WriterFits, k0
      <4>3. serial' = serial /\ writer[w].serial <= serial
        BY <1>2, <4>2
      <4> QED
        BY <4>1, <4>2, <4>3 DEF SlotFits
    <3>2. CASE k # k0
      <4>1. slots'[k] = slots[k] /\ SlotFits(k)
        BY <1>1, <1>4, <2>1, <3>2 DEF RingFits, SlotsFit
      <4>2. Unhidden(k) => Unhidden(k)'
        BY <1>5, <3>2 DEF Unhidden, k0
      <4> QED
        BY <1>2, <4>1, <4>2 DEF SlotFits
    <3> QED
      BY <3>1, <3>2
  <2> QED
    BY <2>1 DEF SlotsFit
<1>9. ShownFit' /\ ScanFits'
  <2>1. ASSUME scan.pc = "text"
        PROVE  slots'[SlotOf(scan.i)] = slots[SlotOf(scan.i)]
    BY <1>1, <1>3, <1>4, <2>1, TextIsFree
  <2> QED
    BY <1>1, <1>2, <1>5, <2>1, FollowerStays
<1> QED
  BY <1>1, <1>2, <1>6, <1>7, <1>8, <1>9 DEF RingInv, RingFits

LEMMA WriterStepKeeps ==
  ASSUME RingInv, ~raced, NEW w \in RingWriters, WriterStep(w)
  PROVE  RingInv'
<1> DEFINE k == SlotOf(writer[w].index)
<1>1. RingTypes /\ RingFits /\ k \in 0 .. RingLines - 1
  <2>1. RingTypes /\ RingFits
    BY DEF RingInv
  <2> QED
    BY <2>1, RingNumbers, SlotInRing
<1>2. /\ slots[k] \in [time : 0 .. MaxWrites, text : 0 .. MaxWrites]
      /\ writer[w].serial \in 0 .. MaxWrites
  BY <1>1 DEF RingTypes
<1>3. "reserved" \in Busy /\ "hidden" \in Busy /\ "written" \in Busy
  BY DEF Busy
<1>4. CASE HideLine(w)
  <2>1. Empty \in [time : 0 .. MaxWrites, text : 0 .. MaxWrites] /\ Empty.time = 0
    BY RingAssumption DEF Empty
  <2> QED
    BY <1>3, <1>4, <2>1, AdvanceKeeps DEF HideLine
<1>5. CASE WriteText(w)
  <2> DEFINE slot == [slots[k] EXCEPT !.text = writer[w].serial]
  <2>1. Advance(w, "hidden", "written", slot)
    BY <1>5 DEF WriteText
  <2>2. slots[k].time = 0
    BY <1>1, <1>3, <2>1 DEF Advance, RingFits, WritersFit, WriterFits
  <2>3. slot \in [time : 0 .. MaxWrites, text : 0 .. MaxWrites] /\ slot.time = 0 /\ slot.text = writer[w].serial
    BY <1>2, <2>2
  <2> HIDE DEF slot
  <2> QED
    BY <1>3, <2>1, <2>3, AdvanceKeeps
<1>6. CASE StoreTime(w)
  <2> DEFINE slot == [slots[k] EXCEPT !.time = writer[w].serial]
  <2>1. Advance(w, "written", "idle", slot)
    BY <1>6 DEF StoreTime
  <2>2. slots[k].text = writer[w].serial
    BY <1>1, <1>3, <2>1 DEF Advance, RingFits, WritersFit, WriterFits
  <2>3. slot \in [time : 0 .. MaxWrites, text : 0 .. MaxWrites] /\ slot.time = writer[w].serial
        /\ slot.text = writer[w].serial
    BY <1>2, <2>2
  <2> HIDE DEF slot
  <2> QED
    BY <1>3, <2>1, <2>3, AdvanceKeeps
<1> QED
  BY <1>4, <1>5, <1>6 DEF WriterStep

LEMMA KillWriterKeeps ==
  ASSUME RingInv, ~raced, NEW w \in RingWriters, KillWriter(w)
  PROVE  RingInv'
<1> DEFINE k0 == SlotOf(writer[w].index)
<1>1. RingTypes /\ RingFits
  BY DEF RingInv
<1>2. /\ writer' = [writer EXCEPT ![w] = Shut]
      /\ raced' = (raced \/ (writer[w].pc = "reserved" /\ slots[k0].time # 0))
      /\ UNCHANGED <<magic, nextIndex, slots, scan, items, serial>>
  BY DEF KillWriter
<1>3. RingTypes'
  <2>1. Shut \in [pc : {"closed", "clearing", "idle"} \cup Busy,
                  index : 0 .. RingWrap - 1, serial : 0 .. MaxWrites]
    BY RingAssumption DEF Shut
  <2>2. writer' \in [RingWriters -> [pc : {"closed", "clearing", "idle"} \cup Busy,
                                     index : 0 .. RingWrap - 1, serial : 0 .. MaxWrites]]
    BY <1>1, <1>2, <2>1 DEF RingTypes
  <2>3. raced' \in BOOLEAN
    BY <1>2
  <2> QED
    BY <1>1, <1>2, <2>2, <2>3 DEF RingTypes
<1>4. SUFFICES ASSUME ~raced' PROVE RingFits'
  BY <1>3 DEF RingInv
<1>5. writer[w].pc = "reserved" => slots[k0].time = 0
  BY <1>2, <1>4
<1>6. /\ writer'[w].pc = "closed"
      /\ \A x \in RingWriters \ {w} : writer'[x] = writer[x]
      /\ \A x \in RingWriters : \A k : Owns(x, k)' => Owns(x, k)
  BY <1>1, <1>2 DEF RingTypes, Owns, Shut
<1>7. WritersFit'
  <2>1. ASSUME NEW x \in RingWriters, writer'[x].pc \in Busy PROVE WriterFits(x)'
    <3>1. x # w
      BY <1>6, <2>1 DEF Busy
    <3>2. writer'[x] = writer[x] /\ WriterFits(x)
      BY <1>1, <1>6, <2>1, <3>1 DEF RingFits, WritersFit
    <3> QED
      BY <1>2, <1>6, <3>2 DEF WriterFits, Owns
  <2> QED
    BY <2>1 DEF WritersFit
<1>8. SlotsFit'
  <2>1. ASSUME NEW k \in 0 .. RingLines - 1, slots'[k].time # 0 PROVE SlotFits(k)'
    <3>1. SlotFits(k) /\ slots' = slots
      BY <1>1, <1>2, <2>1 DEF RingFits, SlotsFit
    <3>2. Unhidden(k) => Unhidden(k)'
      BY <1>2, <1>5, <1>6, <2>1 DEF Unhidden
    <3> QED
      BY <1>2, <3>1, <3>2 DEF SlotFits
  <2> QED
    BY <2>1 DEF SlotsFit
<1>9. ShownFit' /\ ScanFits'
  BY <1>1, <1>2, <1>6, FollowerStays
<1> QED
  BY <1>1, <1>2, <1>7, <1>8, <1>9 DEF RingFits

-----------------------------------------------------------------------------
(* The follower. *)
LEMMA FollowerWritesNothing ==
  ASSUME RingFits, UNCHANGED <<nextIndex, slots, writer, serial>>
  PROVE  nextIndex' = serial' % RingWrap /\ WritersFit' /\ SlotsFit'
BY DEF RingFits, WritersFit, WriterFits, SlotsFit, SlotFits, Unhidden, Owns

\* The rows are the whole lines of the ones shown before, in their order.
LEMMA LastOfKeeps ==
  ASSUME NEW s \in Seq(Nat \X Nat), NEW n \in Nat
  PROVE  /\ LastOf(s, n) \in Seq(Nat \X Nat) /\ Len(LastOf(s, n)) <= n
         /\ Whole(s) => Whole(LastOf(s, n))
         /\ Ordered(s) => Ordered(LastOf(s, n))
         /\ \A p : UpTo(s, p) => UpTo(LastOf(s, n), p)
         /\ s = <<>> => LastOf(s, n) = <<>>
<1> DEFINE r == LastOf(s, n)
           a == Len(s) - n
<1>1. Len(s) \in Nat
  OBVIOUS
<1>2. CASE Len(s) <= n
  <2>1. r = s
    BY <1>1, <1>2 DEF LastOf
  <2> HIDE DEF r
  <2> QED
    BY <1>1, <1>2, <2>1 DEF r
<1>3. CASE Len(s) > n
  <2>1. r = SubSeq(s, a + 1, Len(s)) /\ a \in Nat /\ a <= Len(s)
    BY <1>1, <1>3 DEF LastOf
  <2> HIDE DEF r, a
  <2>2. r \in Seq(Nat \X Nat) /\ Len(r) = Len(s) - a
        /\ \A j \in 1 .. Len(r) : j + a \in 1 .. Len(s) /\ r[j] = s[j + a]
    BY <1>1, <2>1
  <2>3. Len(r) = n
    BY <1>1, <1>3, <2>2 DEF a
  <2>4. Whole(s) => Whole(r)
    BY <2>2 DEF Whole
  <2>5. Ordered(s) => Ordered(r)
    <3>1. SUFFICES ASSUME Ordered(s), NEW j \in 1 .. Len(r), NEW k \in 1 .. Len(r), j < k
                   PROVE  r[j][1] < r[k][1]
      BY DEF Ordered
    <3>2. j + a \in 1 .. Len(s) /\ k + a \in 1 .. Len(s) /\ j + a < k + a /\ r[j] = s[j + a] /\ r[k] = s[k + a]
      <4>1. \A m \in 1 .. Len(r) : m + a \in 1 .. Len(s) /\ r[m] = s[m + a]
        BY <2>2
      <4>2. j \in Int /\ k \in Int /\ a \in Int
        BY <2>1, <2>2
      <4>3. j + a < k + a
        BY <3>1, <4>2
      <4> QED
        BY <4>1, <4>3
    <3>3. s[j + a][1] < s[k + a][1]
      BY <3>1, <3>2 DEF Ordered
    <3> QED
      BY <3>2, <3>3
  <2>6. \A p : UpTo(s, p) => UpTo(r, p)
    BY <2>2 DEF UpTo
  <2>7. s # <<>>
    BY <1>3
  <2> QED
    BY <2>2, <2>3, <2>4, <2>5, <2>6, <2>7 DEF r
<1> QED
  BY <1>1, <1>2, <1>3

LEMMA ShownNumbers ==
  ASSUME RingTypes
  PROVE  Shown \in Seq(Nat \X Nat) /\ \A j \in 1 .. Len(Shown) : Shown[j][1] \in Nat
<1>1. Shown \in Seq(Nat \X Nat)
  BY DEF RingTypes, Shown
<1>2. \A j \in 1 .. Len(Shown) : Shown[j] \in Nat \X Nat
  BY <1>1
<1> QED
  BY <1>1, <1>2

LEMMA ShowKeeps ==
  ASSUME RingInv, ~raced, Show
  PROVE  RingInv'
<1>1. RingTypes /\ RingFits /\ Shown \in Seq(Nat \X Nat) /\ MaxShown \in Nat
  BY RingAssumption DEF RingInv, RingTypes, Shown
<1>2. items' = LastOf(Shown, MaxShown) /\ scan' = [Rest EXCEPT !.cursor = scan.next, !.next = scan.next]
      /\ UNCHANGED <<magic, nextIndex, slots, writer, serial, raced>>
  BY DEF Show, Shown
<1>3. scan' = [pc |-> "idle", cursor |-> scan.next, snap |-> 0, i |-> 0, left |-> 0, time |-> 0,
               next |-> scan.next, found |-> <<>>]
  BY <1>2 DEF Rest
<1>4. items' \in Seq(Nat \X Nat) /\ Len(items') <= MaxShown
  BY <1>1, <1>2, LastOfKeeps
<1>5. Shown' = items'
  BY <1>3, <1>4 DEF Shown
<1>6. RingTypes'
  <2>1. <<>> \in Seq(Nat \X Nat) /\ 0 \in 0 .. RingWrap - 1 /\ 0 \in 0 .. RingLines /\ 0 \in 0 .. MaxWrites
    BY RingAssumption
  <2>2. scan' \in [pc : {"idle", "time", "text", "show"}, cursor : (0 .. RingLines - 1) \cup {CursorAll},
                   snap : 0 .. RingWrap - 1, i : Nat, left : 0 .. RingLines, time : 0 .. MaxWrites,
                   next : (0 .. RingLines - 1) \cup {CursorAll}, found : Seq(Nat \X Nat)]
    BY <1>1, <1>3, <2>1 DEF RingTypes
  <2> QED
    BY <1>1, <1>2, <1>4, <2>2 DEF RingTypes
<1>7. ShownFit'
  <2>1. Whole(Shown) /\ Ordered(Shown)
    BY <1>1 DEF RingFits, ShownFit
  <2>2. Whole(items') /\ Ordered(items') /\ (\A p : UpTo(Shown, p) => UpTo(items', p))
        /\ (Shown = <<>> => items' = <<>>)
    BY <1>1, <1>2, <2>1, LastOfKeeps
  <2>3. scan'.next = scan.next /\ serial' = serial
    BY <1>2, <1>3
  <2>4. IF scan'.next = CursorAll THEN Shown' = <<>>
        ELSE \E p \in 0 .. serial' : scan'.next = SlotOf(p) /\ UpTo(Shown', p)
    BY <1>1, <1>5, <2>2, <2>3 DEF RingFits, ShownFit
  <2>5. Whole(Shown') /\ Ordered(Shown')
    BY <1>5, <2>2
  <2> QED
    BY <2>4, <2>5 DEF ShownFit, Whole, Ordered, UpTo
<1>8. ScanFits'
  BY <1>3 DEF ScanFits
<1>9. nextIndex' = serial' % RingWrap /\ WritersFit' /\ SlotsFit'
  BY <1>1, <1>2, FollowerWritesNothing
<1> QED
  BY <1>6, <1>7, <1>8, <1>9 DEF RingInv, RingFits

LEMMA FollowBeginsKeeps ==
  ASSUME RingInv, ~raced, FollowBegins
  PROVE  RingInv'
<1>1. RingTypes /\ RingFits /\ serial \in Nat
  <2>1. RingTypes /\ RingFits
    BY DEF RingInv
  <2> QED
    BY <2>1, RingNumbers
<1> DEFINE start == IF scan.cursor = CursorAll THEN nextIndex ELSE scan.cursor
<1>2. /\ scan.pc = "idle" /\ UNCHANGED <<magic, nextIndex, slots, writer, serial, items, raced>>
      /\ scan' = [scan EXCEPT !.pc = "time", !.snap = nextIndex, !.left = RingLines, !.found = <<>>,
                              !.next = scan.cursor, !.i = start]
  BY DEF FollowBegins
<1>3. start \in Nat /\ RingLines \in Nat \ {0} /\ RingWrap \in Nat \ {0}
  BY <1>1, RingAssumption DEF RingTypes
<1>4. /\ scan'.pc = "time" /\ scan'.snap = nextIndex /\ scan'.left = RingLines /\ scan'.found = <<>>
      /\ scan'.next = scan.cursor /\ scan'.i = start /\ scan'.cursor = scan.cursor
  BY <1>1, <1>2 DEF RingTypes
<1>5. scan.cursor = scan.next /\ scan.found = <<>>
  BY <1>1, <1>2 DEF RingFits, ScanFits
<1>6. Shown' = Shown
  BY <1>2, <1>4, <1>5 DEF Shown
<1> HIDE DEF start
<1>7. RingTypes'
  <2>1. <<>> \in Seq(Nat \X Nat) /\ RingLines \in 0 .. RingLines
    BY <1>3
  <2>2. scan' \in [pc : {"idle", "time", "text", "show"}, cursor : (0 .. RingLines - 1) \cup {CursorAll},
                   snap : 0 .. RingWrap - 1, i : Nat, left : 0 .. RingLines, time : 0 .. MaxWrites,
                   next : (0 .. RingLines - 1) \cup {CursorAll}, found : Seq(Nat \X Nat)]
    BY <1>1, <1>2, <1>3, <2>1 DEF RingTypes
  <2> QED
    BY <1>1, <1>2, <2>2 DEF RingTypes
<1>8. ShownFit'
  BY <1>1, <1>2, <1>4, <1>5, <1>6 DEF RingFits, ShownFit, Whole, Ordered, UpTo
<1>9. SlotOf(nextIndex) = SlotOf(serial)
  BY <1>1, IndexWraps DEF RingFits
<1>10. PICK s0 \in Nat : s0 = serial
  BY <1>1
<1>11. \E u \in Nat : Stands(s0, u)'
  <2>1. CASE scan.cursor = CursorAll
    <3>1. Shown' = <<>> /\ start = nextIndex
      BY <1>1, <1>5, <1>6, <2>1 DEF RingFits, ShownFit, start
    <3>2. \A j \in 1 .. Len(Shown') : FALSE
      BY <3>1
    <3>3. serial' = serial /\ serial \in serial .. serial + RingLines /\ RingLines = serial + RingLines - serial
      BY <1>1, <1>2, <1>3
    <3>4. Stands(s0, s0)'
      BY <1>1, <1>3, <1>4, <1>9, <1>10, <2>1, <3>1, <3>2, <3>3 DEF Stands
    <3> QED
      BY <1>1, <3>4
  <2>2. CASE scan.cursor # CursorAll
    <3>1. PICK p \in 0 .. serial : scan.cursor = SlotOf(p) /\ UpTo(Shown, p)
      BY <1>1, <1>5, <2>2 DEF RingFits, ShownFit
    <3>2. p \in Nat /\ p <= serial
      BY <1>1, <3>1
    <3>3. PICK u \in serial + 1 .. serial + RingLines : SlotOf(u) = SlotOf(p) /\ u >= p + RingLines
      BY <1>1, <3>2, NextWithSlot
    <3>4. u \in Nat /\ u > serial /\ u \in serial .. serial + RingLines /\ RingLines >= serial + RingLines - u
      BY <1>1, <1>3, <3>3
    <3>5. SlotOf(start) = SlotOf(u)
      <4>1. start = SlotOf(p)
        BY <2>2, <3>1 DEF start
      <4>2. SlotOf(SlotOf(p)) = SlotOf(p)
        BY <3>2, SlotInRing, SlotOfItself
      <4> QED
        BY <3>3, <4>1, <4>2
    <3>6. \A j \in 1 .. Len(Shown) : Shown[j][1] + RingLines <= u
      <4>1. SUFFICES ASSUME NEW j \in 1 .. Len(Shown) PROVE Shown[j][1] + RingLines <= u
        OBVIOUS
      <4>2. Shown[j][1] <= p /\ Shown[j][1] \in Nat
        BY <1>1, <3>1, ShownNumbers DEF UpTo
      <4> QED
        BY <1>3, <3>2, <3>3, <3>4, <4>2
    <3>7. Stands(s0, u)'
      BY <1>1, <1>2, <1>3, <1>4, <1>6, <1>9, <1>10, <2>2, <3>4, <3>5, <3>6 DEF Stands
    <3> QED
      BY <3>4, <3>7
  <2> QED
    BY <2>1, <2>2
<1>12. ScanFits'
  <2>1. serial' = serial
    BY <1>2
  <2> QED
    BY <1>1, <1>4, <1>11, <2>1 DEF ScanFits
<1>13. nextIndex' = serial' % RingWrap /\ WritersFit' /\ SlotsFit'
  BY <1>1, <1>2, FollowerWritesNothing
<1> QED
  BY <1>7, <1>8, <1>12, <1>13 DEF RingInv, RingFits

LEMMA LoadTimeKeeps ==
  ASSUME RingInv, ~raced, LoadTime
  PROVE  RingInv'
<1> DEFINE k == SlotOf(scan.i)
           stops == scan.left = 0 \/ ReachedEnd \/ (slots[k].time = 0 /\ StopsAtHole)
           skips == ~stops /\ slots[k].time = 0
           reads == ~stops /\ slots[k].time # 0
<1>1. RingTypes /\ RingFits /\ serial \in Nat /\ scan.i \in Nat /\ scan.left \in Nat /\ k \in 0 .. RingLines - 1
      /\ slots[k].time \in Nat /\ RingLines \in Nat \ {0}
  <2>1. RingTypes /\ RingFits
    BY DEF RingInv
  <2> QED
    BY <2>1, RingNumbers, SlotInRing, RingAssumption
<1>2. /\ scan.pc = "time" /\ UNCHANGED <<magic, nextIndex, slots, writer, serial, items>>
      /\ raced' = (raced \/ (scan'.pc = "text" /\ Stale(k)))
      /\ stops => scan' = [scan EXCEPT !.pc = "show"]
      /\ skips => scan' = [scan EXCEPT !.i = scan.i + 1, !.left = scan.left - 1]
      /\ reads => scan' = [scan EXCEPT !.pc = "text", !.time = slots[k].time]
  BY DEF LoadTime
<1>3. /\ scan'.snap = scan.snap /\ scan'.cursor = scan.cursor /\ scan'.next = scan.next /\ scan'.found = scan.found
      /\ stops => scan'.pc = "show"
      /\ skips => scan'.pc = "time" /\ scan'.i = scan.i + 1 /\ scan'.left = scan.left - 1
      /\ reads => scan'.pc = "text" /\ scan'.i = scan.i /\ scan'.left = scan.left /\ scan'.time = slots[k].time
  BY <1>1, <1>2 DEF RingTypes
<1>4. /\ stops \/ skips \/ reads
      /\ skips => slots[k].time = 0
      /\ reads => slots[k].time # 0
      /\ skips \/ reads => scan.left # 0 /\ ~ReachedEnd
      /\ skips => scan.cursor = CursorAll
  BY DEF StopsAtHole
<1> HIDE DEF stops, skips, reads
<1>5. RingTypes'
  <2>1. scan.left # 0 => scan.left - 1 \in 0 .. RingLines
    <3>1. scan.left \in 0 .. RingLines
      BY <1>1 DEF RingTypes
    <3> QED
      BY <1>1, <3>1
  <2>2. slots[k].time \in 0 .. MaxWrites /\ scan.i + 1 \in Nat
    BY <1>1 DEF RingTypes
  <2>3. scan' \in [pc : {"idle", "time", "text", "show"}, cursor : (0 .. RingLines - 1) \cup {CursorAll},
                   snap : 0 .. RingWrap - 1, i : Nat, left : 0 .. RingLines, time : 0 .. MaxWrites,
                   next : (0 .. RingLines - 1) \cup {CursorAll}, found : Seq(Nat \X Nat)]
    <3> DEFINE C == (0 .. RingLines - 1) \cup {CursorAll}
               W == 0 .. RingWrap - 1
               L == 0 .. RingLines
               M == 0 .. MaxWrites
               F == Seq(Nat \X Nat)
    <3>1. scan \in [pc : {"idle", "time", "text", "show"}, cursor : C, snap : W, i : Nat, left : L, time : M,
                    next : C, found : F]
      BY <1>1 DEF RingTypes
    <3>2. (scan.left # 0 => scan.left - 1 \in L) /\ slots[k].time \in M /\ scan.i + 1 \in Nat
      BY <2>1, <2>2
    <3> HIDE DEF C, W, L, M, F
    <3>3. scan' \in [pc : {"idle", "time", "text", "show"}, cursor : C, snap : W, i : Nat, left : L, time : M,
                     next : C, found : F]
      <4>1. CASE stops
        BY <1>2, <3>1, <4>1
      <4>2. CASE skips
        BY <1>2, <1>4, <3>1, <3>2, <4>2
      <4>3. CASE reads
        BY <1>2, <3>1, <3>2, <4>3
      <4> QED
        BY <1>4, <4>1, <4>2, <4>3
    <3> QED
      BY <3>3 DEF C, W, L, M, F
  <2>4. raced' \in BOOLEAN
    BY <1>2
  <2> QED
    BY <1>1, <1>2, <2>3, <2>4 DEF RingTypes
<1>6. SUFFICES ASSUME ~raced' PROVE RingFits'
  BY <1>5 DEF RingInv
<1>7. reads => ~Stale(k)
  BY <1>2, <1>3, <1>6
<1>8. Shown' = Shown
  BY <1>2, <1>3 DEF Shown
<1>9. ShownFit'
  BY <1>1, <1>2, <1>3, <1>8 DEF RingFits, ShownFit, Whole, Ordered, UpTo
<1>10. PICK s \in Nat, u \in Nat : Stands(s, u)
  BY <1>1, <1>2 DEF RingFits, ScanFits
<1>11. /\ s <= serial /\ SlotOf(scan.snap) = SlotOf(s)
       /\ u >= s /\ u <= s + RingLines /\ SlotOf(scan.i) = SlotOf(u)
       /\ scan.left >= s + RingLines - u
       /\ scan.cursor = CursorAll => scan.left = s + RingLines - u
       /\ scan.cursor # CursorAll => u > s
       /\ u < s + RingLines => serial <= u
       /\ \A j \in 1 .. Len(Shown) : Shown[j][1] + RingLines <= u
  BY <1>10 DEF Stands
<1>12. skips \/ reads => u < s + RingLines
  <2>1. SUFFICES ASSUME skips \/ reads PROVE u # s + RingLines
    BY <1>1, <1>11
  <2>2. CASE scan.cursor = CursorAll
    BY <1>1, <1>4, <1>11, <2>1, <2>2
  <2>3. CASE scan.cursor # CursorAll
    BY <1>4, <1>11, <2>1, <2>3, SlotOfLap DEF ReachedEnd
  <2> QED
    BY <2>2, <2>3
<1>13. ScanFits'
  <2>1. CASE stops
    BY <1>3, <2>1 DEF ScanFits
  <2>2. CASE skips
    <3>1. u + 1 \in Nat /\ u + 1 \in s .. s + RingLines /\ scan'.left = s + RingLines - (u + 1)
      BY <1>1, <1>3, <1>4, <1>11, <1>12, <2>2
    <3>2. SlotOf(scan'.i) = SlotOf(u + 1)
      BY <1>1, <1>3, <1>11, <2>2, SlotMovesOn
    <3>3. serial' <= u + 1 /\ s <= serial'
      BY <1>1, <1>2, <1>11, <1>12, <2>2
    <3>4. \A j \in 1 .. Len(Shown') : Shown'[j][1] + RingLines <= u + 1
      <4>1. SUFFICES ASSUME NEW j \in 1 .. Len(Shown) PROVE Shown[j][1] + RingLines <= u + 1
        BY <1>8
      <4>2. Shown[j][1] + RingLines <= u /\ Shown[j][1] \in Nat
        BY <1>1, <1>11, ShownNumbers
      <4> QED
        BY <1>1, <4>2
    <3>5. scan'.left >= s + RingLines - (u + 1)
      BY <1>1, <3>1
    <3>6. scan'.pc = "time" /\ scan'.cursor = CursorAll /\ SlotOf(scan'.snap) = SlotOf(s)
      BY <1>3, <1>4, <1>11, <2>2
    <3> DEFINE v == u + 1
    <3>7. /\ v \in s .. s + RingLines /\ SlotOf(scan'.i) = SlotOf(v) /\ scan'.left = s + RingLines - v
          /\ serial' <= v /\ \A j \in 1 .. Len(Shown') : Shown'[j][1] + RingLines <= v
          /\ scan'.left >= s + RingLines - v /\ v \in Nat
      BY <3>1, <3>2, <3>3, <3>4, <3>5
    <3> HIDE DEF v
    <3>8. Stands(s, v)'
      BY <3>3, <3>6, <3>7 DEF Stands, CursorAll
    <3> QED
      BY <3>6, <3>7, <3>8 DEF ScanFits
  <2>3. CASE reads
    <3> DEFINE t == slots[k].time
    <3>1. t \in Nat /\ t # 0 /\ serial <= u /\ u < s + RingLines
      BY <1>1, <1>4, <1>11, <1>12, <2>3
    <3>2. SlotFits(k) /\ ~Unhidden(k)
      BY <1>1, <1>4, <1>7, <2>3 DEF RingFits, SlotsFit, Stale, Unhidden
    <3>3. slots[k].text = t /\ t <= serial /\ k = SlotOf(t - 1) /\ serial < t + RingLines
      BY <3>2 DEF SlotFits
    <3>4. \A w \in RingWriters : ~Owns(w, k)
      <4>1. SUFFICES ASSUME NEW w \in RingWriters, Owns(w, k) PROVE FALSE
        OBVIOUS
      <4>2. WriterFits(w) /\ SlotOf(writer[w].index) = k
        BY <1>1, <4>1 DEF RingFits, WritersFit, Owns, Busy
      <4>3. writer[w].pc # "reserved"
        BY <3>2, <4>2 DEF Unhidden
      <4> QED
        BY <3>1, <4>1, <4>2, <4>3 DEF WriterFits, Owns
    <3> HIDE DEF t
    <3>5. t + RingLines = u + 1
      <4> DEFINE v == t - 1 + RingLines
      <4>1. t - 1 \in Nat /\ v \in Nat
        BY <1>1, <3>1
      <4>2. SlotOf(v) = SlotOf(u)
        BY <1>11, <3>3, <4>1, SlotOfLap
      <4>3. v < u + RingLines /\ u < v + RingLines
        BY <1>1, <1>11, <3>1, <3>3
      <4>4. u = v
        <5> HIDE DEF v
        <5>1. CASE u <= v
          BY <4>1, <4>2, <4>3, <5>1, SameSlot
        <5>2. CASE v <= u
          BY <4>1, <4>2, <4>3, <5>2, SameSlot
        <5> QED
          BY <4>1, <5>1, <5>2
      <4> QED
        BY <1>1, <3>1, <4>4
    <3>6. /\ scan'.pc = "text" /\ scan'.i = scan.i /\ scan'.left = scan.left /\ scan'.time = t
          /\ scan'.snap = scan.snap /\ scan'.cursor = scan.cursor
      BY <1>3, <2>3 DEF t
    <3>7. TextStays(u)'
      <4>1. slots'[k].time = t /\ slots'[k].text = t /\ SlotOf(scan'.i) = k
        BY <1>2, <3>3, <3>6 DEF t
      <4>2. \A w \in RingWriters : ~(writer'[w].pc \in Busy /\ SlotOf(writer'[w].index) = k)
        BY <1>2, <3>4 DEF Owns, Busy
      <4>3. scan'.time # 0 /\ scan'.time + RingLines = u + 1
        BY <3>1, <3>5, <3>6
      <4> QED
        BY <3>6, <4>1, <4>2, <4>3 DEF TextStays, Owns, Busy
    <3>8. Stands(s, u)'
      BY <1>2, <1>8, <1>10, <3>1, <3>6, <3>7 DEF Stands
    <3> QED
      BY <3>6, <3>8 DEF ScanFits
  <2> QED
    BY <1>4, <2>1, <2>2, <2>3
<1>14. nextIndex' = serial' % RingWrap /\ WritersFit' /\ SlotsFit'
  BY <1>1, <1>2, FollowerWritesNothing
<1> QED
  BY <1>9, <1>13, <1>14 DEF RingFits

LEMMA AppendToConcat ==
  ASSUME NEW S, NEW s \in Seq(S), NEW r \in Seq(S), NEW x \in S
  PROVE  /\ Append(r, x) \in Seq(S)
         /\ Len(s \o r) \in Nat /\ Len(s \o Append(r, x)) = Len(s \o r) + 1
         /\ (s \o Append(r, x))[Len(s \o r) + 1] = x
         /\ \A j \in 1 .. Len(s \o r) : (s \o Append(r, x))[j] = (s \o r)[j]
<1> DEFINE f == Append(r, x)
<1>1. f \in Seq(S) /\ Len(f) = Len(r) + 1 /\ f[Len(r) + 1] = x /\ \A j \in 1 .. Len(r) : f[j] = r[j]
  OBVIOUS
<1>2. Len(s) \in Nat /\ Len(r) \in Nat
  OBVIOUS
<1> HIDE DEF f
<1>3. ASSUME NEW a \in Seq(S), NEW b \in Seq(S)
      PROVE  /\ Len(a \o b) = Len(a) + Len(b)
             /\ \A i \in 1 .. Len(a) + Len(b) : i <= Len(a) => (a \o b)[i] = a[i]
             /\ \A i \in 1 .. Len(a) + Len(b) : ~(i <= Len(a)) => (a \o b)[i] = b[i - Len(a)]
  BY ConcatProperties
<1>4. ASSUME NEW j \in 1 .. Len(s) + Len(r) PROVE (s \o f)[j] = (s \o r)[j]
  <2>1. j \in 1 .. Len(s) + Len(f)
    BY <1>1, <1>2
  <2>2. CASE j <= Len(s)
    BY <1>3, <2>1, <2>2
  <2>3. CASE ~(j <= Len(s))
    <3>1. j - Len(s) \in 1 .. Len(r)
      BY <1>2, <2>3
    <3>2. (s \o f)[j] = f[j - Len(s)] /\ (s \o r)[j] = r[j - Len(s)]
      BY <1>3, <2>1, <2>3
    <3> QED
      BY <1>1, <3>1, <3>2
  <2> QED
    BY <2>2, <2>3
<1>5. (s \o f)[Len(s) + Len(r) + 1] = x
  <2> DEFINE j == Len(s) + Len(r) + 1
  <2>1. j \in 1 .. Len(s) + Len(f) /\ ~(j <= Len(s)) /\ j - Len(s) = Len(r) + 1
    BY <1>1, <1>2
  <2> HIDE DEF j
  <2>2. (s \o f)[j] = f[j - Len(s)]
    BY <1>3, <2>1
  <2>3. (s \o f)[j] = x
    BY <1>1, <2>1, <2>2
  <2> QED
    BY <2>3 DEF j
<1> QED
  BY <1>1, <1>2, <1>3, <1>4, <1>5 DEF f

LEMMA ShownGrows ==
  ASSUME items \in Seq(Nat \X Nat), scan.found \in Seq(Nat \X Nat), items' = items,
         NEW x \in Nat \X Nat, scan'.found = Append(scan.found, x)
  PROVE  /\ Len(Shown) \in Nat /\ Len(Shown') = Len(Shown) + 1 /\ Shown'[Len(Shown) + 1] = x
         /\ \A j \in 1 .. Len(Shown) : Shown'[j] = Shown[j]
<1>1. PICK a \in Seq(Nat \X Nat), b \in Seq(Nat \X Nat) : a = items /\ b = scan.found
  OBVIOUS
<1>2. Shown = a \o b /\ Shown' = a \o Append(b, x)
  BY <1>1 DEF Shown
<1>3. /\ Len(a \o b) \in Nat
      /\ Len(a \o Append(b, x)) = Len(a \o b) + 1
      /\ (a \o Append(b, x))[Len(a \o b) + 1] = x
      /\ \A j \in 1 .. Len(a \o b) : (a \o Append(b, x))[j] = (a \o b)[j]
  <2> DEFINE P == Nat \X Nat
  <2>1. a \in Seq(P) /\ b \in Seq(P) /\ x \in P
    OBVIOUS
  <2> HIDE DEF P
  <2>2. \A s \in Seq(P), r \in Seq(P), y \in P :
           /\ Len(s \o r) \in Nat
           /\ Len(s \o Append(r, y)) = Len(s \o r) + 1
           /\ (s \o Append(r, y))[Len(s \o r) + 1] = y
           /\ \A j \in 1 .. Len(s \o r) : (s \o Append(r, y))[j] = (s \o r)[j]
    BY AppendToConcat
  <2> QED
    BY <2>1, <2>2, Zenon
<1> QED
  BY <1>2, <1>3, Zenon

LEMMA ReadTextKeeps ==
  ASSUME RingInv, ~raced, ReadText
  PROVE  RingInv'
<1> DEFINE k == SlotOf(scan.i)
           t == scan.time
<1>1. RingTypes /\ RingFits /\ serial \in Nat /\ scan.i \in Nat /\ scan.left \in 0 .. RingLines
      /\ k \in 0 .. RingLines - 1 /\ t \in Nat /\ RingLines \in Nat \ {0}
      /\ Shown \in Seq(Nat \X Nat) /\ \A j \in 1 .. Len(Shown) : Shown[j][1] \in Nat
  <2>1. RingTypes /\ RingFits
    BY DEF RingInv
  <2>2. scan.left \in 0 .. RingLines
    BY <2>1 DEF RingTypes
  <2> QED
    BY <2>1, <2>2, RingNumbers, SlotInRing, ShownNumbers, RingAssumption
<1>2. PICK s \in Nat, u \in Nat : Stands(s, u)
  BY <1>1 DEF ReadText, RingFits, ScanFits
<1>3. /\ scan.pc = "text" /\ UNCHANGED <<magic, nextIndex, slots, writer, serial, items>>
      /\ raced' = (raced \/ Stale(k))
  BY DEF ReadText
<1>4. /\ s <= serial /\ SlotOf(scan.snap) = SlotOf(s)
      /\ u >= s /\ u <= s + RingLines /\ SlotOf(scan.i) = SlotOf(u)
      /\ scan.left >= s + RingLines - u
      /\ scan.cursor = CursorAll => scan.left = s + RingLines - u
      /\ scan.cursor # CursorAll => u > s
      /\ u < s + RingLines => serial <= u
      /\ \A j \in 1 .. Len(Shown) : Shown[j][1] + RingLines <= u
  BY <1>2 DEF Stands
<1>5. /\ u < s + RingLines /\ t # 0 /\ t + RingLines = u + 1
      /\ slots[k].time = t /\ slots[k].text = t
  BY <1>2, <1>3 DEF Stands, TextStays
<1> DEFINE f == Append(scan.found, <<t, t>>)
           n == SlotOf(scan.i + 1)
<1>6. scan' = [scan EXCEPT !.pc = "time", !.i = scan.i + 1, !.left = scan.left - 1, !.next = n, !.found = f]
  BY <1>5 DEF ReadText
<1>7. /\ scan'.pc = "time" /\ scan'.i = scan.i + 1 /\ scan'.left = scan.left - 1 /\ scan'.next = n
      /\ scan'.found = f /\ scan'.snap = scan.snap /\ scan'.cursor = scan.cursor
  BY <1>1, <1>6 DEF RingTypes
<1>8. f \in Seq(Nat \X Nat)
  <2>1. scan.found \in Seq(Nat \X Nat)
    BY <1>1 DEF RingTypes
  <2> DEFINE pair == <<t, t>>
  <2>2. pair \in Nat \X Nat
    BY <1>1
  <2> HIDE DEF pair
  <2>3. Append(scan.found, pair) \in Seq(Nat \X Nat)
    BY <2>1, <2>2
  <2> QED
    BY <2>3 DEF pair
<1> HIDE DEF f
<1>9. scan.left - 1 \in 0 .. RingLines /\ scan.left - 1 >= s + RingLines - (u + 1) /\ u + 1 \in Nat
      /\ u + 1 \in s .. s + RingLines
  <2>1. u >= s /\ u < s + RingLines /\ u + 1 \in Nat /\ RingLines \in Nat
    BY <1>1, <1>4, <1>5
  <2>2. u + 1 \in s .. s + RingLines
    BY <2>1
  <2>3. scan.left \in 0 .. RingLines /\ scan.left >= s + RingLines - u /\ s + RingLines - u >= 1
    BY <1>1, <1>4, <2>1
  <2> DEFINE l == scan.left
  <2> HIDE DEF l
  <2>4. l \in 0 .. RingLines /\ l >= s + RingLines - u /\ s + RingLines - u >= 1
    BY <2>3 DEF l
  <2>5. l - 1 \in 0 .. RingLines /\ l - 1 >= s + RingLines - (u + 1)
    BY <2>1, <2>4
  <2> QED
    BY <2>1, <2>2, <2>5 DEF l
<1>10. n = SlotOf(u + 1) /\ n = SlotOf(t) /\ n \in 0 .. RingLines - 1 /\ n # CursorAll
  <2>1. n = SlotOf(u + 1)
    BY <1>1, <1>4, SlotMovesOn
  <2>2. SlotOf(t + RingLines) = SlotOf(t)
    BY <1>1, SlotOfLap
  <2>3. n = SlotOf(t)
    BY <1>5, <2>1, <2>2
  <2>4. n \in 0 .. RingLines - 1
    BY <1>1, <2>3, SlotInRing
  <2> QED
    BY <2>1, <2>3, <2>4, AllIsNoSlot, RingAssumption DEF CursorAll
<1> HIDE DEF n
<1>11. RingTypes'
  <2>1. scan.i + 1 \in Nat /\ n \in (0 .. RingLines - 1) \cup {CursorAll}
    BY <1>1, <1>10
  <2>2. scan' \in [pc : {"idle", "time", "text", "show"}, cursor : (0 .. RingLines - 1) \cup {CursorAll},
                   snap : 0 .. RingWrap - 1, i : Nat, left : 0 .. RingLines, time : 0 .. MaxWrites,
                   next : (0 .. RingLines - 1) \cup {CursorAll}, found : Seq(Nat \X Nat)]
    BY <1>1, <1>6, <1>8, <1>9, <2>1 DEF RingTypes
  <2>3. raced' \in BOOLEAN
    BY <1>3
  <2> QED
    BY <1>1, <1>3, <2>2, <2>3 DEF RingTypes
<1> DEFINE m == Len(Shown)
<1>12. /\ Len(Shown') = m + 1 /\ Shown'[m + 1] = <<t, t>> /\ m \in Nat
       /\ \A j \in 1 .. m : Shown'[j] = Shown[j]
  <2>1. items' = items /\ items \in Seq(Nat \X Nat) /\ scan.found \in Seq(Nat \X Nat)
    BY <1>1, <1>3 DEF RingTypes
  <2>2. scan'.found = Append(scan.found, <<t, t>>) /\ <<t, t>> \in Nat \X Nat
    BY <1>1, <1>7 DEF f
  <2> HIDE DEF t
  <2> QED
    BY <2>1, <2>2, ShownGrows DEF m
<1> HIDE DEF m
<1>13. \A j \in 1 .. m + 1 : j = m + 1 \/ j \in 1 .. m
  BY <1>12
<1>14. /\ Shown'[m + 1][1] = t /\ Shown'[m + 1][2] = t
       /\ \A j \in 1 .. m : Shown'[j][1] = Shown[j][1] /\ Shown'[j][2] = Shown[j][2] /\ Shown[j][1] \in Nat
       /\ \A j \in 1 .. m : Shown[j][1] + RingLines <= u
  <2>1. Shown'[m + 1][1] = t /\ Shown'[m + 1][2] = t
    BY <1>12
  <2>2. \A j \in 1 .. m : Shown[j][1] \in Nat /\ Shown[j][1] + RingLines <= u
    BY <1>1, <1>4 DEF m
  <2>3. \A j \in 1 .. m : Shown'[j][1] = Shown[j][1] /\ Shown'[j][2] = Shown[j][2]
    BY <1>12
  <2> QED
    BY <2>1, <2>2, <2>3
<1>15. \A j \in 1 .. m : Shown'[j][1] < t /\ Shown'[j][1] \in Nat
  <2>1. SUFFICES ASSUME NEW j \in 1 .. m, NEW a, a = Shown'[j][1] PROVE a < t /\ a \in Nat
    OBVIOUS
  <2>2. a \in Nat /\ a + RingLines <= u
    BY <1>14, <2>1
  <2>3. t + RingLines = u + 1 /\ RingLines \in Nat /\ t \in Nat
    BY <1>1, <1>5
  <2> HIDE DEF t
  <2> QED
    BY <2>2, <2>3
<1>16. \A j \in 1 .. Len(Shown') : Shown'[j][1] <= t
  <2>1. SUFFICES ASSUME NEW j \in 1 .. m + 1 PROVE Shown'[j][1] <= t
    BY <1>12
  <2> QED
    <3>1. CASE j = m + 1
      BY <1>1, <1>14, <3>1
    <3>2. CASE j \in 1 .. m
      <4>1. Shown'[j][1] < t /\ Shown'[j][1] \in Nat
        BY <1>15, <3>2
      <4> QED
        BY <1>1, <4>1
    <3> QED
      BY <1>13, <3>1, <3>2
<1>17. ShownFit'
  <2>1. Whole(Shown) /\ Ordered(Shown)
    BY <1>1 DEF RingFits, ShownFit
  <2>2. \A j \in 1 .. Len(Shown') : Shown'[j][1] = Shown'[j][2]
    BY <1>12, <1>13, <1>14, <2>1 DEF Whole, m
  <2>3. ASSUME NEW j \in 1 .. Len(Shown'), NEW l \in 1 .. Len(Shown'), j < l
        PROVE  Shown'[j][1] < Shown'[l][1]
    <3>1. j \in 1 .. m
      BY <1>12, <2>3
    <3>2. CASE l = m + 1
      BY <1>14, <1>15, <3>1, <3>2
    <3>3. CASE l \in 1 .. m
      BY <1>14, <2>1, <2>3, <3>1, <3>3 DEF Ordered, m
    <3> QED
      BY <1>12, <1>13, <3>2, <3>3
  <2>4. t <= serial /\ t \in 0 .. serial
    <3>1. SlotFits(k)
      BY <1>1, <1>5 DEF RingFits, SlotsFit
    <3> QED
      BY <1>1, <1>5, <3>1 DEF SlotFits
  <2>5. serial' = serial /\ scan'.next = SlotOf(t) /\ scan'.next # CursorAll
    BY <1>3, <1>7, <1>10
  <2>6. Whole(Shown') /\ Ordered(Shown') /\ UpTo(Shown', t)
    BY <1>16, <2>2, <2>3 DEF Whole, Ordered, UpTo
  <2> QED
    BY <2>4, <2>5, <2>6 DEF ShownFit, Whole, Ordered, UpTo, CursorAll
<1>18. ScanFits'
  <2> DEFINE v == u + 1
  <2>1. /\ v \in Nat /\ v \in s .. s + RingLines /\ SlotOf(scan'.i) = SlotOf(v)
        /\ scan'.left >= s + RingLines - v
    BY <1>7, <1>9, <1>10 DEF n
  <2>2. scan'.cursor = CursorAll => scan'.left = s + RingLines - v
    BY <1>1, <1>4, <1>7
  <2>3. scan'.cursor # CursorAll => v > s
    BY <1>4, <1>7
  <2>4. serial' <= v /\ s <= serial'
    BY <1>1, <1>3, <1>4, <1>5
  <2>5. \A j \in 1 .. Len(Shown') : Shown'[j][1] + RingLines <= v
    <3>1. SUFFICES ASSUME NEW j \in 1 .. m + 1 PROVE Shown'[j][1] + RingLines <= v
      BY <1>12
    <3>2. CASE j = m + 1
      BY <1>5, <1>14, <3>2
    <3>3. CASE j \in 1 .. m
      <4>1. Shown'[j][1] \in Nat /\ Shown'[j][1] + RingLines <= u
        BY <1>14, <3>3
      <4> QED
        BY <1>1, <4>1
    <3> QED
      BY <1>13, <3>2, <3>3
  <2> HIDE DEF v
  <2>6. Stands(s, v)'
    BY <1>4, <1>7, <2>1, <2>2, <2>3, <2>4, <2>5 DEF Stands, CursorAll
  <2> QED
    BY <1>7, <2>1, <2>6 DEF ScanFits
<1>19. nextIndex' = serial' % RingWrap /\ WritersFit' /\ SlotsFit'
  BY <1>1, <1>3, FollowerWritesNothing
<1> QED
  BY <1>11, <1>17, <1>18, <1>19 DEF RingInv, RingFits

-----------------------------------------------------------------------------
LEMMA RingStarts ==
  ASSUME RingInit
  PROVE  RingInv
<1>1. /\ magic = FALSE /\ nextIndex = 0 /\ slots = [k \in 0 .. RingLines - 1 |-> Empty]
      /\ writer = [w \in RingWriters |-> Shut] /\ scan = Rest /\ items = <<>> /\ serial = 0 /\ raced = FALSE
  BY DEF RingInit
<1>2. RingTypes
  <2>1. /\ 0 \in 0 .. RingWrap - 1 /\ 0 \in 0 .. MaxWrites /\ 0 \in 0 .. RingLines
        /\ <<>> \in Seq(Nat \X Nat) /\ Len(<<>>) <= MaxShown
    BY RingAssumption
  <2> QED
    BY <1>1, <2>1 DEF RingTypes, Empty, Shut, Rest, Busy, CursorAll
<1>3. Shown = <<>>
  BY <1>1 DEF Shown, Rest
<1>4. nextIndex = serial % RingWrap
  <2>1. RingWrap \in Nat \ {0} /\ 0 \in Nat /\ 0 \in Int /\ 0 \in 0 .. RingWrap - 1 /\ 0 = RingWrap * 0 + 0
    BY RingAssumption
  <2>2. 0 % RingWrap = 0
    BY <2>1, RemainderOf
  <2> QED
    BY <1>1, <2>2
<1>5. WritersFit /\ SlotsFit
  BY <1>1 DEF WritersFit, SlotsFit, Shut, Empty, Busy
<1>6. ShownFit /\ ScanFits
  BY <1>1, <1>3 DEF ShownFit, ScanFits, Whole, Ordered, UpTo, Rest
<1> QED
  BY <1>2, <1>4, <1>5, <1>6 DEF RingInv, RingFits

LEMMA RingInvKept ==
  ASSUME RingInv, [RingNext]_ringVars
  PROVE  RingInv'
<1>1. CASE RingNext
  <2>1. ASSUME NEW w \in RingWriters,
               OpenRing(w) \/ ClearRing(w) \/ Reserve(w) \/ WriterStep(w) \/ KillWriter(w)
        PROVE  RingInv'
    BY <1>1, <2>1, OpenRingKeeps, ClearRingKeeps, ReserveKeeps, WriterStepKeeps, KillWriterKeeps DEF RingNext
  <2>2. CASE FollowStep
    BY <1>1, <2>2, FollowBeginsKeeps, LoadTimeKeeps, ReadTextKeeps, ShowKeeps DEF RingNext, FollowStep
  <2> QED
    BY <1>1, <2>1, <2>2 DEF RingNext
<1>2. CASE UNCHANGED ringVars
  <2>1. UNCHANGED <<magic, nextIndex, slots, writer, scan, items, serial, raced>>
    BY <1>2 DEF ringVars
  <2>2. RingTypes => RingTypes'
    BY <2>1 DEF RingTypes
  <2>3. RingFits => RingFits'
    BY <2>1, FollowerWritesNothing, FollowerStays DEF RingFits, Owns
  <2> QED
    BY <2>1, <2>2, <2>3 DEF RingInv
<1> QED
  BY <1>1, <1>2

LEMMA FollowedBecause ==
  ASSUME RingInv
  PROVE  RingFollowed
<1>1. RingTypes
  BY DEF RingInv
<1>2. RingTypeOK
  BY <1>1 DEF RingTypes, RingTypeOK
<1>3. ASSUME ~raced PROVE FollowedInOrder
  <2>1. ShownFit /\ items \in Seq(Nat \X Nat) /\ scan.found \in Seq(Nat \X Nat)
    BY <1>1, <1>3 DEF RingInv, RingFits, RingTypes
  <2>2. /\ DOMAIN items = 1 .. Len(items)
        /\ \A j \in 1 .. Len(items) : j \in 1 .. Len(Shown) /\ Shown[j] = items[j]
    BY <2>1 DEF Shown
  <2> QED
    BY <2>1, <2>2 DEF FollowedInOrder, ShownFit, Whole, Ordered
<1> QED
  BY <1>2, <1>3 DEF RingFollowed, FollowedInOrder

\* What the log page shows are whole lines, each with its own time, in the order they
\* were logged and none twice, for every number of writers, size of ring and modulus of
\* nextIndex that it divides, whoever is killed and wherever, up to the first of the
\* races that WriteWithTimestamp admits.
THEOREM LogIsFollowed == RingSpec => []RingFollowed
<1>1. RingInit => RingInv
  BY RingStarts
<1>2. RingInv /\ [RingNext]_ringVars => RingInv'
  BY RingInvKept
<1>3. RingInv => RingFollowed
  BY FollowedBecause
<1> QED
  BY <1>1, <1>2, <1>3, PTL DEF RingSpec
=============================================================================
