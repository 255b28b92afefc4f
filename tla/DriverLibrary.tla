--------------------------- MODULE DriverLibrary ---------------------------
(***************************************************************************)
(* wireguard.dll: loaded from a resource into memory by the first call of  *)
(* any of its functions (dll_windows.go, dll_fromrsrc_windows.go, memmod). *)
(* Any goroutine may be that first call, and more may come while the load  *)
(* is under way; a failed load is tried again by the next call.            *)
(*                                                                         *)
(* A load is a list of steps that acquire things the process has to give   *)
(* back if a later step fails.                                             *)
(***************************************************************************)
EXTENDS Naturals, Sequences, SequencesExt, FiniteSets

CONSTANTS DllThreads, DllProcs,
          NoThread,
          MaxDllCalls,   \* calls
          MaxDllFaults,  \* steps that fail
          PageSize,      \* SectionAlignment
          Images         \* section lists of images

ASSUME NoThreadAssumption == NoThread \notin DllThreads

VARIABLES
  published,   \* d.module: other threads see the module
  base,        \* d.Base
  dllMutex,    \* holder of d.mu
  procMutex,   \* holder of a lazyProc's mu
  address,     \* procs whose address is known
  dllThread,   \* [pc, proc]; a thread without a proc asks for the version
  step,        \* the step of the load under way
  acquired,    \* what the load has acquired
  hook,        \* RtlPcToFileHeader of kernelbase: untried, hooked or failed
  logger,      \* how often the logger was set
  panicked,    \* Addr has panicked: the process is gone
  sections,    \* the sections of an image, to be given their access
  dllCalls, dllFaults

dllVars == <<published, base, dllMutex, procMutex, address, dllThread, step, acquired, hook, logger,
             panicked, sections, dllCalls, dllFaults>>
dllLoad == <<step, acquired, hook, sections>>

-----------------------------------------------------------------------------
(* LoadLibrary and Free.                                                   *)
LoadSteps == <<"resource", "check", "alloc", "boundary", "headers", "sections", "relocate", "imports",
               "finalize", "tables", "ranges", "hook", "attach", "exports">>
IndexOfStep(s) == CHOOSE i \in DOMAIN LoadSteps : LoadSteps[i] = s

\* What a step acquires; the image is at an address Windows chose if its own is taken.
Acquires(s) ==
    CASE s = "alloc" -> {"image"} [] s = "boundary" -> {"blocked"} [] s = "imports" -> {"libraries"}
      [] s = "tables" -> {"function table"} [] s = "ranges" -> {"range"} [] s = "attach" -> {"attached"}
      [] OTHER -> {}
\* A step that may acquire nothing: no 4 GB boundary crossed, no imports, no table, no entry point.
Optional == {"boundary", "imports", "tables", "attach"}
\* Steps that cannot fail: the table is left out, a library without exports is loaded.
Sure == {"tables", "ranges", "exports"}

\* What a failing step itself has got or given up: the block that crossed the boundary is
\* on the list and the image is gone; the libraries so far are on the list.
AfterFailure(s, held) ==
    CASE s = "boundary" -> (held \ {"image"}) \cup {"blocked"}
      [] s = "imports" -> held \cup {"libraries"}
      [] OTHER -> held

\* Free: the range is looked for only if there is an image.
Free(held) ==
    held \ ({"attached", "libraries", "function table", "blocked"}
            \cup IF "image" \in held THEN {"image", "range"} ELSE {})

-----------------------------------------------------------------------------
ThreadAt(t, pc) == dllThread[t].pc = pc
ThreadGoes(t, pc) == dllThread' = [dllThread EXCEPT ![t].pc = pc]
NoProc == "none"

\* Version() calls Load only; every other function calls Addr of its proc.
DllCall(t, p) ==
    /\ ThreadAt(t, "idle") /\ dllCalls > 0 /\ dllCalls' = dllCalls - 1
    /\ dllThread' = [dllThread EXCEPT ![t] = [pc |-> IF p = NoProc THEN "load" ELSE "find", proc |-> p]]
    /\ UNCHANGED <<published, base, dllMutex, procMutex, address, dllLoad, logger, panicked, dllFaults>>

\* Find: without the lock, then with it.
FindFast(t) ==
    /\ ThreadAt(t, "find")
    /\ ThreadGoes(t, IF dllThread[t].proc \in address THEN "idle" ELSE "lock")
    /\ UNCHANGED <<published, base, dllMutex, procMutex, address, dllLoad, logger, panicked, dllCalls, dllFaults>>
FindLocked(t) ==
    LET p == dllThread[t].proc IN
    /\ ThreadAt(t, "lock") /\ procMutex[p] = NoThread
    /\ IF p \in address THEN ThreadGoes(t, "idle") /\ UNCHANGED procMutex
       ELSE ThreadGoes(t, "load") /\ procMutex' = [procMutex EXCEPT ![p] = t]
    /\ UNCHANGED <<published, base, dllMutex, address, dllLoad, logger, panicked, dllCalls, dllFaults>>

\* Load: the same once more for the library.
Loaded(t) == IF dllThread[t].proc = NoProc THEN "version" ELSE "name"
LoadFast(t) ==
    /\ ThreadAt(t, "load") /\ ThreadGoes(t, IF published THEN Loaded(t) ELSE "dll lock")
    /\ UNCHANGED <<published, base, dllMutex, procMutex, address, dllLoad, logger, panicked, dllCalls, dllFaults>>
LoadLocked(t) ==
    /\ ThreadAt(t, "dll lock") /\ dllMutex = NoThread
    /\ IF published THEN ThreadGoes(t, Loaded(t)) /\ UNCHANGED <<dllMutex, step>>
       ELSE ThreadGoes(t, "loading") /\ dllMutex' = t /\ step' = Head(LoadSteps)
    /\ UNCHANGED <<published, base, procMutex, address, acquired, hook, sections, logger, panicked, dllCalls, dllFaults>>

\* A step succeeds; the hook is tried once per process and its result stays.
LoadGoesOn(t) ==
    /\ ThreadAt(t, "loading") /\ step # "done" /\ (step = "hook" => hook # "failed")
    /\ acquired' \in {acquired \cup Acquires(step)} \cup (IF step \in Optional THEN {acquired} ELSE {})
    /\ hook' = IF step = "hook" THEN "hooked" ELSE hook
    /\ step' = IF step = Last(LoadSteps) THEN "done" ELSE LoadSteps[IndexOfStep(step) + 1]
    /\ UNCHANGED <<published, base, dllMutex, procMutex, address, dllThread, sections, logger, panicked, dllCalls, dllFaults>>

\* Whoever called Addr panics, whoever asked for the version is told it is unknown.
GivesUpLoad(t) ==
    /\ ThreadGoes(t, IF dllThread[t].proc = NoProc THEN "idle" ELSE "panic") /\ dllMutex' = NoThread
    /\ procMutex' = [p \in DllProcs |-> IF procMutex[p] = t THEN NoThread ELSE procMutex[p]]
LoadFails(t) ==
    /\ ThreadAt(t, "loading") /\ step # "done" /\ step \notin Sure
    /\ IF step = "hook" /\ hook = "failed" THEN UNCHANGED dllFaults
       ELSE dllFaults > 0 /\ dllFaults' = dllFaults - 1
    /\ hook' = IF step = "hook" THEN "failed" ELSE hook
    /\ acquired' = Free(AfterFailure(step, acquired)) /\ step' = "none"
    /\ GivesUpLoad(t)
    /\ UNCHANGED <<published, base, address, sections, logger, panicked, dllCalls>>

\* Mutant: the base is set once the module is published.
PublishesFirst(t) ==
    /\ ThreadAt(t, "loading") /\ step = "done"
    /\ IF ~published THEN published' = TRUE /\ UNCHANGED <<base, dllThread>>
       ELSE base' = TRUE /\ ThreadGoes(t, "logger") /\ UNCHANGED published
    /\ UNCHANGED <<dllMutex, procMutex, address, dllLoad, logger, panicked, dllCalls, dllFaults>>
Publishes(t) ==
    /\ ThreadAt(t, "loading") /\ step = "done"
    /\ base' = TRUE /\ published' = TRUE
    /\ ThreadGoes(t, "logger")
    /\ UNCHANGED <<dllMutex, procMutex, address, dllLoad, logger, panicked, dllCalls, dllFaults>>

\* onLoad = setupLogger, which calls Addr of a proc of its own and so Load again, with d.mu held.
SetsLogger(t) ==
    /\ ThreadAt(t, "logger") /\ (published \/ dllMutex = NoThread)
    /\ logger' = logger + 1 /\ dllMutex' = NoThread /\ ThreadGoes(t, Loaded(t))
    /\ UNCHANGED <<published, base, procMutex, address, dllLoad, panicked, dllCalls, dllFaults>>
\* The panic of that Addr passes through Load and Find, which let go of their mutexes.
LoggerNotFound(t) ==
    /\ ThreadAt(t, "logger") /\ (published \/ dllMutex = NoThread)
    /\ dllFaults > 0 /\ dllFaults' = dllFaults - 1 /\ ThreadGoes(t, "panic") /\ dllMutex' = NoThread
    /\ procMutex' = [p \in DllProcs |-> IF procMutex[p] = t THEN NoThread ELSE procMutex[p]]
    /\ UNCHANGED <<published, base, address, dllLoad, logger, panicked, dllCalls>>

\* nameToAddr = ProcAddressByName, and back through Find.
NamesAddress(t) ==
    /\ ThreadAt(t, "name")
    /\ address' = address \cup {dllThread[t].proc} /\ ThreadGoes(t, "idle")
    /\ procMutex' = [procMutex EXCEPT ![dllThread[t].proc] = NoThread]
    /\ UNCHANGED <<published, base, dllMutex, dllLoad, logger, panicked, dllCalls, dllFaults>>
NameNotFound(t) ==
    /\ ThreadAt(t, "name") /\ dllFaults > 0 /\ dllFaults' = dllFaults - 1
    /\ ThreadGoes(t, "panic") /\ procMutex' = [procMutex EXCEPT ![dllThread[t].proc] = NoThread]
    /\ UNCHANGED <<published, base, dllMutex, address, dllLoad, logger, panicked, dllCalls>>
Panics(t) ==
    /\ ThreadAt(t, "panic") /\ panicked' = TRUE /\ ThreadGoes(t, "idle")
    /\ UNCHANGED <<published, base, dllMutex, procMutex, address, dllLoad, logger, dllCalls, dllFaults>>
TellsVersion(t) ==
    /\ ThreadAt(t, "version") /\ ThreadGoes(t, "idle")
    /\ UNCHANGED <<published, base, dllMutex, procMutex, address, dllLoad, logger, panicked, dllCalls, dllFaults>>

-----------------------------------------------------------------------------
(* finalizeSections: sections are merged with the one before if they share *)
(* a page, and the pages of each run get its flags, or none if the run may *)
(* be discarded.  A section is [at, size, flags, discard].                 *)
AlignDown(a) == a - (a % PageSize)
PagesOf(a, size) == {AlignDown(x) : x \in a .. a + size - 1}

SharesPage(run, s) == AlignDown(run.at) = AlignDown(s.at) \/ run.at + run.size > AlignDown(s.at)
Merge(run, s) == [at |-> run.at, size |-> s.at + s.size - run.at, flags |-> run.flags \cup s.flags,
                  discard |-> run.discard /\ s.discard]
SectionRuns(list) ==
    FoldLeft(LAMBDA runs, s : IF runs # <<>> /\ SharesPage(Last(runs), s)
                              THEN Append(Front(runs), Merge(Last(runs), s)) ELSE Append(runs, s),
             <<>>, list)

\* finalizeSection: only whole pages are given back.
Decommits(runs, i) ==
    /\ runs[i].discard /\ runs[i].at = AlignDown(runs[i].at)
    /\ i = Len(runs) \/ runs[i].size % PageSize = 0
\* The last call for a page decides; pages are readable and writable before.
ProtectionOf(list, page) ==
    LET runs == SectionRuns(list)
        mine == {i \in DOMAIN runs : page \in PagesOf(runs[i].at, runs[i].size)
                                     /\ (Decommits(runs, i) \/ ~runs[i].discard)}
    IN IF mine = {} THEN {"read", "write"}
       ELSE LET i == CHOOSE i \in mine : \A j \in mine : j <= i
            IN IF Decommits(runs, i) THEN {"gone"} ELSE runs[i].flags

-----------------------------------------------------------------------------
DllIdle ==
    /\ published = FALSE /\ base = FALSE /\ dllMutex = NoThread
    /\ procMutex = [p \in DllProcs |-> NoThread] /\ address = {}
    /\ dllThread = [t \in DllThreads |-> [pc |-> "idle", proc |-> NoProc]]
    /\ step = "none" /\ acquired = {} /\ hook = "untried" /\ logger = 0 /\ panicked = FALSE
    /\ dllFaults = MaxDllFaults
DllInit ==
    /\ DllIdle
    /\ \/ sections = <<>> /\ dllCalls = MaxDllCalls
       \/ sections \in Images /\ dllCalls = 0

DllStep(t) ==
    \/ FindFast(t) \/ FindLocked(t) \/ LoadFast(t) \/ LoadLocked(t) \/ LoadGoesOn(t) \/ LoadFails(t)
    \/ Publishes(t) \/ SetsLogger(t) \/ LoggerNotFound(t) \/ NamesAddress(t) \/ NameNotFound(t)
    \/ TellsVersion(t) \/ Panics(t)
DllNext ==
    /\ ~panicked
    /\ \E t \in DllThreads : DllStep(t) \/ \E p \in DllProcs \cup {NoProc} : DllCall(t, p)

DllSpec == DllInit /\ [][DllNext]_dllVars

-----------------------------------------------------------------------------
(* A load that failed leaves nothing behind, whichever step it was and     *)
(* however often it is tried again; the library is loaded at most once.    *)
LoadLeaksNothing ==
    dllMutex = NoThread /\ ~published => acquired = {} /\ step = "none" /\ logger = 0

(* Whoever gets an address or a version gets it from a library that is     *)
(* loaded to its last step, with its range and its hook in place and its   *)
(* base known, although no lock is taken to see that.                      *)
UsedIsLoaded ==
    /\ published => step = "done" /\ {"image", "range"} \subseteq acquired /\ hook = "hooked" /\ logger <= 1
    /\ address # {} => published
    /\ (\E t \in DllThreads : ThreadAt(t, "version")) => base

(* A call can always go on, or the process has panicked: the logger's own  *)
(* call of Load, made with the lock held, does not wait for it, and two    *)
(* locks are always taken in the same order.                               *)
DllNeverStuck ==
    (\E t \in DllThreads : ~ThreadAt(t, "idle")) /\ ~panicked => ENABLED (\E t \in DllThreads : DllStep(t))

(* After finalizeSections every section that is not discardable has at     *)
(* least the access its flags ask for on each of its pages, and a section  *)
(* alone on its pages has exactly that.                                    *)
PagesProtected ==
    \A i \in DOMAIN sections :
        ~sections[i].discard => \A page \in PagesOf(sections[i].at, sections[i].size) :
            LET given == ProtectionOf(sections, page) IN
            /\ sections[i].flags \subseteq given
            /\ Len(SectionRuns(sections)) = Len(sections) => sections[i].flags = given

(* The library loaded from memory: nothing of a failed load stays, and     *)
(* nobody calls into one that is not loaded.                               *)
DllSafe == LoadLeaksNothing /\ UsedIsLoaded
=============================================================================
