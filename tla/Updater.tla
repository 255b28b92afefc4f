------------------------------- MODULE Updater -------------------------------
(***************************************************************************)
(* The updater: the manager's check for updates, the download and the run  *)
(* of the installer, and the page that shows both in the user interface.   *)
(* An update runs on a goroutine of the manager, or in a process of its    *)
(* own (/update).  Its reports go through a buffered channel to a reader,  *)
(* which starts a goroutine per report to write it to each interface.      *)
(***************************************************************************)
EXTENDS Integers, Sequences, FiniteSets, FiniteSetsExt, SequencesExt

CONSTANTS UpdateUis,       \* the user interfaces of administrators
          OurVersion,      \* version.Number, a sequence of numbers
          ReleaseLists,    \* what the server may list: sets of versions, Malformed parts included
          ProgressSize,    \* capacity of the progress channel
          MaxUpdates,      \* updates started
          MaxUpdateFaults  \* calls that fail

Malformed == -1
Updates == 1 .. MaxUpdates
Versions == Seq(Nat \cup {Malformed})

ASSUME UpdaterAssumption ==
    /\ MaxUpdates \in Nat /\ MaxUpdateFaults \in Nat
    /\ ProgressSize \in Nat \ {0, 1}
    /\ OurVersion \in Seq(Nat) /\ \A l \in ReleaseLists : l \subseteq Versions

VARIABLES
  listed,     \* what the server lists
  newlyListed,  \* whether the list has changed
  updateState,
  checker,    \* checkForUpdates, and whether IsRunningOfficialVersion
  upd,        \* the updates
  busy,       \* processes whose updateInProgress is set
  uiNotes,    \* goroutines that write to an interface, in order of start
  conn,       \* how far an interface has come
  page,       \* its update page
  entries,    \* entries "An Update is Available!" of its tray menu
  installed,  \* versions msiexec was started on
  updFaults,
  announced,  \* history: notifications of a found update
  overtook    \* history: a report overtook an older one

updaterVars == <<listed, newlyListed, updateState, checker, upd, busy, uiNotes, conn, page, entries,
                 installed, updFaults, announced, overtook>>

-----------------------------------------------------------------------------
(* versions.go: missing parts are zero, the first difference decides.      *)
VersionPart(v, i) == IF i \in DOMAIN v THEN v[i] ELSE 0

VersionNewerThanUs(v) ==
    LET parts == 1 .. Max({Len(v), Len(OurVersion)})
        diff  == {i \in parts : VersionPart(v, i) # VersionPart(OurVersion, i)}
    IN IF diff = {} THEN "older"
       ELSE LET i == Min(diff) IN
            IF VersionPart(v, i) = Malformed THEN "error"
            ELSE IF VersionPart(v, i) > VersionPart(OurVersion, i) THEN "newer" ELSE "older"

\* findCandidate goes through a Go map: any newer or unreadable version may come first.
NoRelease == <<>>
FindCandidate(list) ==
    LET newer == {v \in list : VersionNewerThanUs(v) = "newer"}
        bad   == {v \in list : VersionNewerThanUs(v) = "error"}
    IN IF newer = {} /\ bad = {} THEN {[res |-> "none", v |-> NoRelease]}
       ELSE {[res |-> "found", v |-> v] : v \in newer}
            \cup {[res |-> "error", v |-> NoRelease] : v \in bad}

\* checkForUpdate: the session and the connection stay open only if they are asked for and the
\* list was fetched, signed and readable.  A failure is any of the calls on the way.
\* readFileList: nothing unless the list is signed and every line is readable.
ReadFileList(fails) == IF fails THEN {} ELSE listed
KeptOpen == {"session", "connection"}
Checks(keep, fails) ==
    IF ~checker.official \/ ReadFileList(fails) = {} THEN {[res |-> "error", v |-> NoRelease, open |-> {}]}
    ELSE {[res |-> c.res, v |-> c.v, open |-> IF keep /\ c.res # "error" THEN KeptOpen ELSE {}] :
             c \in FindCandidate(ReadFileList(fails))}
MayFail(fails) ==
    IF fails THEN updFaults > 0 /\ updFaults' = updFaults - 1 ELSE UNCHANGED updFaults

-----------------------------------------------------------------------------
(* checkForUpdates.                                                        *)
Connected == {u \in UpdateUis : conn[u] # "off"}
NotifyAll(m) == uiNotes' = [u \in UpdateUis |-> IF u \in Connected THEN Append(uiNotes[u], m) ELSE uiNotes[u]]

Announces(state) ==
    /\ updateState' = state /\ NotifyAll(state) /\ announced' = announced + 1
CheckerStarts ==
    /\ checker.pc = "start"
    /\ IF checker.official THEN checker' = [checker EXCEPT !.pc = "check"] /\ UNCHANGED <<updateState, uiNotes, announced>>
       ELSE checker' = [checker EXCEPT !.pc = "off"] /\ Announces("disabled")
    /\ UNCHANGED <<listed, newlyListed, upd, busy, conn, page, entries, installed, updFaults, overtook>>

\* The check after a found update follows at once, the others after minutes (an error) or an
\* hour; a check that finds nothing new changes nothing.
CheckerChecks(fails) ==
    /\ checker.pc = "check" /\ MayFail(fails)
    /\ \E c \in Checks(FALSE, fails) :
         IF c.res = "found" /\ ~checker.didNotify
         THEN Announces("found") /\ checker' = [checker EXCEPT !.didNotify = TRUE]
         ELSE UNCHANGED <<checker, updateState, uiNotes, announced>>
    /\ UNCHANGED <<listed, newlyListed, upd, busy, conn, page, entries, installed, overtook>>
ListsRelease(l) ==
    /\ ~newlyListed /\ newlyListed' = TRUE /\ l # listed /\ listed' = l
    /\ UNCHANGED <<updateState, checker, upd, busy, uiNotes, conn, page, entries, installed, updFaults,
                   announced, overtook>>

-----------------------------------------------------------------------------
(* An update: DownloadVerifyAndExecute and the reader of its channel.      *)
NoUpdate == [pc |-> "none", proc |-> "manager", open |-> {}, file |-> "none",
             v |-> NoRelease, right |-> FALSE, chan |-> <<>>, reader |-> FALSE]
FreeUpdates == {i \in Updates : upd[i].pc = "none"}
NewUpdate(proc) ==
    IF proc \in busy
    THEN [NoUpdate EXCEPT !.pc = "done", !.proc = proc, !.chan = <<"activity", "error">>, !.reader = TRUE]
    ELSE [NoUpdate EXCEPT !.pc = "check", !.proc = proc, !.chan = <<"activity">>, !.reader = TRUE]

Sets(i, u) == upd' = [upd EXCEPT ![i] = u]
updateFrame == UNCHANGED <<listed, newlyListed, updateState, checker, conn, announced, overtook>>

\* The button, which disables itself, or the command.
Starts(proc) ==
    /\ FreeUpdates # {} /\ Sets(Min(FreeUpdates), NewUpdate(proc))
    /\ busy' = busy \cup {proc}
ClicksUpdate(u) ==
    /\ page[u] = "ready" /\ "command" \notin busy /\ Starts("manager")
    /\ page' = [page EXCEPT ![u] = "updating"]
    /\ updateFrame /\ UNCHANGED <<uiNotes, entries, installed, updFaults>>
\* The command shares nothing with the manager, so that it is looked at alone.
RunsCommand ==
    /\ FreeUpdates = Updates /\ Starts("command")
    /\ updateFrame /\ UNCHANGED <<uiNotes, page, entries, installed, updFaults>>

\* One stage of doIt.  Activities are reported all along; one of them stands for those up to the
\* download and one for the rest.  An error is reported and everything deferred follows.
Reports(i, u, m) ==
    /\ Len(upd[i].chan) < ProgressSize
    /\ Sets(i, [u EXCEPT !.chan = Append(upd[i].chan, m)])
Stage(i, pc, fails) ==
    /\ upd[i].pc = pc /\ MayFail(fails) /\ updateFrame
    /\ UNCHANGED <<busy, uiNotes, page, entries>>
Gives(u) == [u EXCEPT !.pc = "failed"]

Checking(i, fails) ==
    /\ Stage(i, "check", fails) /\ UNCHANGED installed
    /\ \E c \in Checks(TRUE, fails) :
         LET u == [upd[i] EXCEPT !.open = c.open, !.v = c.v] IN
         Sets(i, IF c.res = "found" THEN [u EXCEPT !.pc = "file"]
                 ELSE IF c.res = "none" THEN Gives(u) ELSE [u EXCEPT !.pc = "refused"])
\* A new file only SYSTEM can write, deleted at the next start of Windows if all else fails.
CreatesFile(i, fails) ==
    /\ Stage(i, "file", fails) /\ UNCHANGED installed
    /\ Sets(i, IF fails THEN Gives(upd[i]) ELSE [upd[i] EXCEPT !.pc = "get", !.file = "open"])
Gets(i, fails) ==
    /\ Stage(i, "get", fails) /\ UNCHANGED installed
    /\ Sets(i, IF fails THEN Gives(upd[i])
               ELSE [upd[i] EXCEPT !.pc = "copy", !.open = @ \cup {"response"}])
\* io.Copy through the hash, at most 100 MiB: what arrives is whole, or not.
Copies(i, fails) ==
    /\ Stage(i, "copy", fails) /\ UNCHANGED installed
    /\ Reports(i, [upd[i] EXCEPT !.pc = "verify", !.right = ~fails], "activity")
Verifies(i) ==
    /\ Stage(i, "verify", FALSE) /\ UNCHANGED installed
    /\ Sets(i, IF upd[i].right THEN [upd[i] EXCEPT !.pc = "run", !.file = "closed"] ELSE Gives(upd[i]))
\* runMsi: ExclusivePath has closed the file; msiexec runs, and may fail or not start.
RunsMsi(i, fails) ==
    /\ Stage(i, "run", fails)
    /\ installed' = installed \cup {[v |-> upd[i].v, right |-> upd[i].right]}
    /\ IF fails THEN Sets(i, Gives(upd[i])) ELSE Reports(i, [upd[i] EXCEPT !.pc = "defer"], "complete")
\* Nothing is deferred yet when checkForUpdate fails, but the flag.
Fails(i, pc) ==
    /\ Stage(i, pc, FALSE) /\ UNCHANGED installed
    /\ Reports(i, [upd[i] EXCEPT !.pc = IF pc = "refused" THEN "flag" ELSE "defer"], "error")

\* Mutant: the flag is reset first.
DefersFlag(i) ==
    /\ upd[i].pc = "defer" /\ Sets(i, [upd[i] EXCEPT !.pc = "flag"])
    /\ busy' = busy \ {upd[i].proc}
    /\ updateFrame /\ UNCHANGED <<uiNotes, page, entries, installed, updFaults>>
\* The deferred calls: response, file, session, connection, then the flag.
Defers(i) ==
    /\ upd[i].pc = "defer"
    /\ Sets(i, [upd[i] EXCEPT !.pc = "flag", !.open = {}, !.file = "none"])
    /\ updateFrame /\ UNCHANGED <<busy, uiNotes, page, entries, installed, updFaults>>
ResetsFlag(i) ==
    /\ upd[i].pc = "flag" /\ busy' = busy \ {upd[i].proc} /\ Sets(i, [upd[i] EXCEPT !.pc = "done"])
    /\ updateFrame /\ UNCHANGED <<uiNotes, page, entries, installed, updFaults>>

\* The reader forwards until the end.  That of the command then leaves, and ends the process.
Reads(i) ==
    /\ upd[i].reader /\ upd[i].chan # <<>>
    /\ LET m == Head(upd[i].chan)
           u == [upd[i] EXCEPT !.chan = Tail(@), !.reader = m = "activity"] IN
         IF upd[i].proc = "command"
         THEN /\ Sets(i, IF m = "activity" THEN u
                         ELSE [u EXCEPT !.pc = "done", !.open = {},
                                        !.file = IF @ = "none" THEN @ ELSE "left"])
              /\ busy' = IF m = "activity" THEN busy ELSE busy \ {"command"}
              /\ UNCHANGED uiNotes
         ELSE Sets(i, u) /\ NotifyAll(m) /\ UNCHANGED busy
    /\ updateFrame /\ UNCHANGED <<page, entries, installed, updFaults>>

-----------------------------------------------------------------------------
(* An interface: it registers for notifications, then asks for the state.  *)
uiFrame == UNCHANGED <<listed, newlyListed, updateState, checker, upd, busy, installed, updFaults, announced>>

\* mtw.UpdateFound returns if there is a page; tray.UpdateFound does not look.
ShowsFound(u) ==
    /\ page' = [page EXCEPT ![u] = IF @ = "absent" THEN "ready" ELSE @]
    /\ entries' = [entries EXCEPT ![u] = @ + 1]

UiConnects(u) ==
    /\ conn[u] = "off" /\ conn' = [conn EXCEPT ![u] = "on"]
    /\ uiFrame /\ UNCHANGED <<uiNotes, page, entries, overtook>>
UiRegisters(u) ==
    /\ conn[u] = "on" /\ conn' = [conn EXCEPT ![u] = "registered"]
    /\ uiFrame /\ UNCHANGED <<uiNotes, page, entries, overtook>>
UiAsks(u) ==
    /\ conn[u] = "registered" /\ conn' = [conn EXCEPT ![u] = "asked"]
    /\ IF updateState = "found" THEN ShowsFound(u) ELSE UNCHANGED <<page, entries>>
    /\ uiFrame /\ UNCHANGED <<uiNotes, overtook>>

\* A notification is written by whichever goroutine comes first; nobody listens before
\* registering, and the page for progress only once it is there.
OnProgress(p, m) ==
    IF p = "absent" THEN p ELSE IF m = "activity" THEN "updating" ELSE "ready"
Delivers(u, k) ==
    /\ k \in DOMAIN uiNotes[u] /\ (k > 1 => ~overtook) \* the bound: one report overtakes others
    /\ uiNotes' = [uiNotes EXCEPT ![u] = RemoveAt(@, k)]
    /\ overtook' = (overtook \/ k > 1)
    /\ LET m == uiNotes[u][k] IN
         CASE conn[u] = "on" \/ m = "disabled" -> UNCHANGED <<page, entries>>
           [] m = "found" /\ conn[u] # "on" -> ShowsFound(u)
           [] OTHER -> page' = [page EXCEPT ![u] = OnProgress(@, m)] /\ UNCHANGED entries
    /\ uiFrame /\ UNCHANGED conn

-----------------------------------------------------------------------------
UpdaterInit ==
    /\ listed \in ReleaseLists /\ newlyListed = FALSE /\ updateState = "unknown"
    /\ checker \in [pc : {"start"}, didNotify : {FALSE}, official : BOOLEAN]
    /\ upd = [i \in Updates |-> NoUpdate] /\ busy = {} /\ uiNotes = [u \in UpdateUis |-> <<>>]
    /\ conn = [u \in UpdateUis |-> "off"] /\ page = [u \in UpdateUis |-> "absent"]
    /\ entries = [u \in UpdateUis |-> 0] /\ installed = {} /\ updFaults = MaxUpdateFaults
    /\ announced = 0 /\ overtook = FALSE

UpdateStep(i) ==
    \/ Verifies(i) \/ Fails(i, "failed") \/ Fails(i, "refused") \/ Defers(i) \/ ResetsFlag(i)
    \/ \E fails \in BOOLEAN :
         Checking(i, fails) \/ CreatesFile(i, fails) \/ Gets(i, fails) \/ Copies(i, fails) \/ RunsMsi(i, fails)
CheckerStep == CheckerStarts \/ \E fails \in BOOLEAN : CheckerChecks(fails)
UpdateUiStep(u) == UiConnects(u) \/ UiRegisters(u) \/ UiAsks(u)

UpdaterNext ==
    \/ CheckerStep \/ RunsCommand
    \/ \E l \in ReleaseLists : ListsRelease(l)
    \/ \E i \in Updates : UpdateStep(i) \/ Reads(i)
    \/ \E u \in UpdateUis : \/ UpdateUiStep(u) \/ ClicksUpdate(u)
                            \/ \E k \in DOMAIN uiNotes[u] : Delivers(u, k)

\* The goroutines of the manager and the threads of an interface run; a message
\* in a pipe arrives.
UpdaterFairness ==
    /\ WF_updaterVars(CheckerStep)
    /\ \A i \in Updates : WF_updaterVars(UpdateStep(i)) /\ WF_updaterVars(Reads(i))
    /\ \A u \in UpdateUis : /\ WF_updaterVars(UpdateUiStep(u))
                            /\ WF_updaterVars(\E k \in DOMAIN uiNotes[u] : Delivers(u, k))

UpdaterSpec == UpdaterInit /\ [][UpdaterNext]_updaterVars /\ UpdaterFairness

-----------------------------------------------------------------------------
(* The update, its reports and the windows keep their types. *)
UpdaterTypeOK ==
    /\ updateState \in {"unknown", "found", "disabled"} /\ announced \in 0..1
    /\ page \in [UpdateUis -> {"absent", "ready", "updating"}]
    /\ entries \in [UpdateUis -> 0..2] /\ busy \subseteq {"manager", "command"}
    /\ \A i \in Updates : Len(upd[i].chan) <= ProgressSize

(* The order of versions: the first part that differs decides. *)
Later(v, w) ==
    \E i \in 1 .. Max({Len(v), Len(w)}) :
        /\ VersionPart(v, i) > VersionPart(w, i)
        /\ \A j \in 1 .. (i - 1) : VersionPart(v, j) = VersionPart(w, j)

(* The installer is started only on a file that has the hash of a signed   *)
(* list, for a version later than the running one, whatever the network    *)
(* delivers and in whichever order the list is looked through.             *)
InstalledIsVerified == \A f \in installed : f.right /\ Later(f.v, OurVersion)

(* One process runs one update at a time, although the button is enabled   *)
(* again before the deferred calls have run, and a second update of the    *)
(* process starts only when the file and the handles of the first are gone. *)
UpdatesDoNotOverlap ==
    \A i, j \in Updates :
        i # j /\ upd[i].proc = upd[j].proc /\ upd[j].pc \notin {"none", "done"} =>
            upd[i].pc \in {"none", "done"} /\ upd[i].open = {} /\ upd[i].file \in {"none", "left"}

(* An update that is over has deleted its file and closed its handles.     *)
(* Only the command, whose main thread leaves as soon as it has the        *)
(* result, may leave the file to the next start of Windows.                *)
UpdatesCleanUp ==
    \A i \in Updates :
        upd[i].pc = "done" =>
            upd[i].open = {} /\ (upd[i].file = "none" \/ (upd[i].proc = "command" /\ upd[i].file = "left"))

(* A release that stays listed is shown in every interface in the end,     *)
(* whether it connected before or after the notification, and between.     *)
UpdateIsShown ==
    <>[](FindCandidate(listed) # {} /\ \A c \in FindCandidate(listed) : c.res = "found")
        => <>[](\A u \in UpdateUis : checker.official => page[u] # "absent")

(* The page is ready for another try when no update runs any more, unless  *)
(* one report overtook another: then an activity may come after the end.   *)
PageSettles == <>[](overtook \/ \A u \in UpdateUis : page[u] # "updating")

(* An update: only verified bytes are run, one at a time, and what it      *)
(* opened it closes.                                                       *)
UpdatesSafe == UpdaterTypeOK /\ InstalledIsVerified /\ UpdatesDoNotOverlap /\ UpdatesCleanUp
=============================================================================
