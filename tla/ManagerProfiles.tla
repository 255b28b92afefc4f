-------------------------- MODULE ManagerProfiles ---------------------------
(***************************************************************************)
(* The profile methods of manager/protocol_v1.go: importProfile, which     *)
(* derives the name of a tunnel from the name a person gave it, and        *)
(* listProfiles, called by several connections while the older interface   *)
(* creates and deletes configurations next to them.                        *)
(*                                                                         *)
(* Texts are ConfigText's.  A display name is a word, Spelling[word] what  *)
(* TrimSpace leaves of its characters: letters, "." and "-", " " for white *)
(* space and punctuation, "~" for what is dropped and "^" for control      *)
(* characters.  Windows finds a file whatever the case of its name, so     *)
(* files are kept by Fold(name).  How a file is written is ConfStore's     *)
(* subject: here it is one step.                                           *)
(***************************************************************************)
EXTENDS ConfigText, TLC

CONSTANTS Spelling,         \* per display name, its characters
          ImportTexts,      \* texts that are imported or created
          Connections,
          Elevated,         \* connections that have an elevated token
          LongestName,      \* 32
          LongestDisplay,   \* 128
          Fallback,         \* "WireRoute"
          ReservedNames,    \* "CON" and the others
          LastIndex,        \* 99999
          MaxProfileCalls   \* bound: calls of all connections

NoConnection == "none"
ASSUME ProfilesAssumption == /\ Elevated \subseteq Connections /\ LongestName > Len(Fallback) + 1
                             /\ NoConnection \notin Connections /\ LastIndex \in Nat

-----------------------------------------------------------------------------
(* Names. *)
Letters == {"a", "A", "c"}
Lower(ch) == IF ch = "A" THEN "a" ELSE ch
Fold(name) == [i \in DOMAIN name |-> Lower(name[i])]
Trimmed == {".", "-"}

TrimRight(s) == SubSeq(s, 1, Max({0} \cup {i \in DOMAIN s : s[i] \notin Trimmed}))
Trim(s) == Reverse(TrimRight(Reverse(TrimRight(s))))
CutTo(s, n) == IF Len(s) > n THEN TrimRight(SubSeq(s, 1, n)) ELSE s

\* isReserved looks at what is before the first dot.
Stem(name) == SelectInSeq(name \o <<".">>, LAMBDA ch : ch = ".") - 1
TunnelNameIsValid(name) ==
    /\ Len(name) \in 1 .. LongestName /\ name[1] # "." /\ Last(name) # "."
    /\ Fold(SubSeq(name, 1, Stem(name))) \notin ReservedNames

managerV1ValidateDisplayName(display) ==
    Len(Spelling[display]) \in 1 .. LongestDisplay /\ "^" \notin ToSet(Spelling[display])

\* One separator for a run of white space and punctuation, none at the start.
AddCharacter(out, ch) ==
    CASE ch \in Letters \cup Trimmed -> [text |-> Append(out.text, ch), sep |-> FALSE]
      [] ch = " " /\ out.text # <<>> /\ ~out.sep -> [text |-> Append(out.text, "-"), sep |-> TRUE]
      [] OTHER -> out
OrFallback(base) == IF base = <<>> THEN Fallback ELSE base
OrPrefixed(base) ==
    IF TunnelNameIsValid(base) THEN base ELSE CutTo(Append(Fallback, "-") \o base, LongestName)
BaseName(display) ==
    LET built == FoldLeft(AddCharacter, [text |-> <<>>, sep |-> FALSE], Spelling[display]).text
    IN OrPrefixed(OrFallback(CutTo(Trim(built), LongestName)))

NoName == <<>>
Suffixed(base, index) ==
    LET suffix == <<"-", ToString(index)>> IN CutTo(base, LongestName - Len(suffix)) \o suffix
Taken(existing, name) == \E n \in existing : Fold(n) = Fold(name)
IsFree(name, existing) == TunnelNameIsValid(name) /\ ~Taken(existing, name)
FirstFree(base, existing) ==
    LET free == {i \in 2 .. LastIndex : IsFree(Suffixed(base, i), existing)}
    IN IF ~TunnelNameIsValid(base) THEN NoName
       ELSE IF ~Taken(existing, base) THEN base
       ELSE IF free = {} THEN NoName
       ELSE Suffixed(base, CHOOSE i \in free : \A j \in free : i <= j)
managerV1AvailableName(display, existing) == FirstFree(BaseName(display), existing)

-----------------------------------------------------------------------------
(* What a configuration says of itself. *)
DisplayMark == "WireRoute-Display-Name"
WithDisplayName(config, display) == [config EXCEPT !.trailing = Append(@, <<DisplayMark, display>>)]
\* The last comment that can be decoded to a valid name, or else the tunnel's name.
managerV1DisplayName(config) ==
    LET said == {i \in DOMAIN config.trailing :
                    /\ Len(config.trailing[i]) = 2 /\ config.trailing[i][1] = DisplayMark
                    /\ config.trailing[i][2] \in DOMAIN Spelling
                    /\ managerV1ValidateDisplayName(config.trailing[i][2])}
    IN IF said = {} THEN "" ELSE config.trailing[CHOOSE i \in said : \A j \in said : j <= i][2]
HasHooks(config) == \E k \in Scripts : config.interface.field[k] # <<>>

-----------------------------------------------------------------------------
VARIABLES files,            \* per folded name: the name as written and the text that is stored
          profileCall,      \* per connection: where its call is, and its locals
          importLock,       \* managerV1ImportLock: who holds it
          profileCalls,
          told              \* history: profiles there are, as callers were told
profileVars == <<files, profileCall, importLock, profileCalls, told>>

Idle == [pc |-> "idle", display |-> "", text |-> <<>>, name |-> NoName, config |-> NoConfig,
         rest |-> {}, shown |-> {}, crossed |-> {}]
Listed == {files[n].name : n \in DOMAIN files}
\* History: the names that were written or deleted since calls of others read the list.
Listings == {"lists", "answered"}
Crossing(name, calls) ==
    [c \in Connections |-> IF profileCall[c].pc \in calls
                           THEN [profileCall[c] EXCEPT !.crossed = @ \cup {Fold(name)}] ELSE profileCall[c]]
Stored(name, config, display) ==
    [n \in DOMAIN files \cup {Fold(name)} |->
        IF n = Fold(name) THEN [name |-> name, text |-> ToWgQuick(config), display |-> display] ELSE files[n]]

ProfilesInit ==
    /\ files = <<>> /\ profileCall = [c \in Connections |-> Idle]
    /\ importLock = NoConnection /\ profileCalls = 0 /\ told = 0

CallBegins(c, call) ==
    /\ profileCall[c].pc \in {"idle", "exists", "answered"}
    /\ profileCalls < MaxProfileCalls /\ profileCalls' = profileCalls + 1
    /\ profileCall' = [profileCall EXCEPT ![c] = call] /\ UNCHANGED <<files, importLock, told>>

\* importProfile: the checks before the lock.
ImportBegins(c, display, text) ==
    CallBegins(c, IF c \in Elevated /\ managerV1ValidateDisplayName(display) /\ text # <<>>
                  THEN [Idle EXCEPT !.pc = "locks", !.display = display, !.text = text] ELSE Idle)
\* Mutant: imports are not serialised.
ImportGoesOn(c) ==
    /\ profileCall[c].pc = "locks" /\ importLock' = importLock
    /\ profileCall' = [profileCall EXCEPT ![c].pc = "derives"]
    /\ UNCHANGED <<files, profileCalls, told>>
ImportLocks(c) ==
    /\ profileCall[c].pc = "locks" /\ importLock = NoConnection /\ importLock' = c
    /\ profileCall' = [profileCall EXCEPT ![c].pc = "derives"]
    /\ UNCHANGED <<files, profileCalls, told>>
\* A name is chosen from the list, the text parsed and its hooks refused.
ImportDerives(c) ==
    LET call == profileCall[c] IN
    /\ call.pc = "derives"
    /\ \E name \in {managerV1AvailableName(call.display, Listed)}, config \in {FromWgQuick(call.text)} :
         LET refused == name = NoName \/ config.err \/ (~config.err /\ HasHooks(config)) IN
         /\ profileCall' = [profileCall EXCEPT ![c] =
                IF refused THEN Idle
                ELSE [Idle EXCEPT !.pc = "saves", !.display = call.display, !.name = name,
                                  !.config = WithDisplayName(config, call.display)]]
         /\ importLock' = IF refused /\ importLock = c THEN NoConnection ELSE importLock
    /\ UNCHANGED <<files, profileCalls, told>>
\* Save(false): a file of that name is an error.
ImportSaves(c) ==
    LET call == profileCall[c]
        exists == Fold(call.name) \in DOMAIN files
    IN
    /\ call.pc = "saves" /\ importLock' = IF importLock = c THEN NoConnection ELSE importLock
    /\ files' = IF exists THEN files ELSE Stored(call.name, call.config, call.display)
    /\ told' = IF exists THEN told ELSE told + 1
    /\ profileCall' = IF exists THEN [profileCall EXCEPT ![c] = [Idle EXCEPT !.pc = "exists", !.name = call.name, !.crossed = call.crossed]]
                      ELSE [Crossing(call.name, Listings) EXCEPT ![c] = Idle]
    /\ UNCHANGED profileCalls

\* listProfiles: the names, then each configuration in turn; one that cannot be loaded is left out.
ListBegins(c) == CallBegins(c, [Idle EXCEPT !.pc = "lists", !.rest = Listed])
ListLoads(c, name) ==
    /\ profileCall[c].pc = "lists" /\ name \in profileCall[c].rest
    /\ profileCall' = [profileCall EXCEPT ![c].rest = @ \ {name},
           ![c].shown = IF Fold(name) \notin DOMAIN files THEN @
                        ELSE @ \cup {<<name, managerV1DisplayName(FromWgQuick(files[Fold(name)].text))>>}]
    /\ UNCHANGED <<files, importLock, profileCalls, told>>
ListAnswers(c) ==
    /\ profileCall[c].pc = "lists" /\ profileCall[c].rest = {}
    /\ profileCall' = [profileCall EXCEPT ![c].pc = "answered"]
    /\ UNCHANGED <<files, importLock, profileCalls, told>>

\* ManagerService.Create saves over what is there; Delete removes it.
OlderCreates(name, text) ==
    /\ profileCalls < MaxProfileCalls /\ profileCalls' = profileCalls + 1
    /\ TunnelNameIsValid(name)
    /\ \E config \in {FromWgQuick(text)} :
         ~config.err /\ files' = Stored(name, config, managerV1DisplayName(config))
    /\ told' = told + (IF Fold(name) \in DOMAIN files THEN 0 ELSE 1)
    /\ profileCall' = Crossing(name, Listings \cup {"saves"}) /\ UNCHANGED importLock
OlderDeletes(n) ==
    /\ n \in DOMAIN files /\ files' = [m \in DOMAIN files \ {n} |-> files[m]] /\ told' = told - 1
    /\ profileCall' = Crossing(n, Listings \cup {"saves"}) /\ UNCHANGED <<importLock, profileCalls>>

ProfilesNext ==
    \/ \E c \in Connections :
         \/ \E display \in DOMAIN Spelling, text \in ImportTexts : ImportBegins(c, display, text)
         \/ ImportLocks(c) \/ ImportDerives(c) \/ ImportSaves(c) \/ ListBegins(c) \/ ListAnswers(c)
         \/ \E name \in Listed \cup profileCall[c].rest : ListLoads(c, name)
    \/ \E display \in DOMAIN Spelling, text \in ImportTexts : OlderCreates(BaseName(display), text)
    \/ \E n \in DOMAIN files : OlderDeletes(n)

-----------------------------------------------------------------------------
(* No profile replaces another: there are as many as the callers were told *)
(* of, whatever was created between the list an import chose its name from *)
(* and its Save.                                                           *)
ProfilesCounted == Cardinality(DOMAIN files) = told

(* An import that passed its checks fails only when the older interface    *)
(* wrote its very name meanwhile: imports do not get in each other's way,  *)
(* and the case of a name does not either.                                 *)
ImportSucceeds ==
    \A c \in Connections :
        profileCall[c].pc = "exists" => Fold(profileCall[c].name) \in profileCall[c].crossed

(* The name a person gave comes back from the file, also for a text that   *)
(* was exported with another one in its comments.                          *)
DisplayNameKept == \A n \in DOMAIN files : managerV1DisplayName(FromWgQuick(files[n].text)) = files[n].display

(* Every display name leads to a name Windows takes that nobody has, as    *)
(* long as there are numbers left.                                         *)
NamesAreFound ==
    \A display \in DOMAIN Spelling :
        managerV1ValidateDisplayName(display) /\ Cardinality(Listed) < LastIndex =>
            \A name \in {managerV1AvailableName(display, Listed)} :
                TunnelNameIsValid(name) /\ Fold(name) \notin DOMAIN files

(* A list shows every profile that was there all the time it was made.     *)
ListIsComplete ==
    \A c \in Connections : profileCall[c].pc = "answered" =>
        \A n \in DOMAIN files \ profileCall[c].crossed : <<files[n].name, files[n].display>> \in profileCall[c].shown

(* What importing and listing profiles promises.                           *)
ProfilesSafe == ProfilesCounted /\ ImportSucceeds /\ DisplayNameKept /\ NamesAreFound /\ ListIsComplete
=============================================================================
