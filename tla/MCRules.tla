------------------------------ MODULE MCRules -------------------------------
(***************************************************************************)
(* The parts that decide and translate, and the two that guard what the    *)
(* driver gives out: the filters of the firewall, the network rules, the   *)
(* text of a configuration, the order of names, the profiles a connection  *)
(* imports and lists, the manager's handles to adapters and the driver's   *)
(* library.  They share nothing a property is about: a behaviour picks     *)
(* one, the others rest.                                                   *)
(***************************************************************************)
EXTENDS MCFirewall, NetworkRules, ConfigText, TunnelNames, ManagerProfiles, DriverAdapters, DriverLibrary

VARIABLE part

-----------------------------------------------------------------------------
(* Lines of every kind, with values that are refused, zero, repeated or    *)
(* written otherwise than they were read.                                  *)
Line(key, val, comment) == [key |-> key, val |-> val, comment |-> comment]
Opens == <<Line("[interface]", <<>>, <<"i">>), Line("privatekey", <<<<"key", "k">>>>, <<>>)>>
OnePeer == <<Line("", <<>>, <<>>), Line("", <<>>, <<"above">>), Line("[peer]", <<>>, <<>>),
             Line("publickey", <<<<"key", "p">>>>, <<"pk">>)>>
MCTextStarts == {<<>>, Opens, Opens \o OnePeer}
MCTextLines ==
    {Line("", <<>>, <<>>), Line("", <<>>, <<"c">>),
     Line("[interface]", <<>>, <<>>), Line("[peer]", <<>>, <<"d">>),
     Line("privatekey", <<<<"key", "zero">>>>, <<>>), Line("publickey", <<<<"key", "q">>>>, <<>>),
     Line("address", <<<<"cidr", "a">>, <<"ip", "b">>>>, <<"e">>),
     Line("address", <<<<"cidr", "a">>>>, <<"f">>),
     Line("dns", <<<<"word", "s">>, <<"ip", "b">>>>, <<>>), Line("mtu", <<<<"num", 575>>>>, <<>>),
     Line("listenport", <<<<"num", 0>>>>, <<"g">>), Line("preup", <<<<"script", "x">>>>, <<"h">>),
     Line("table", <<<<"num", 5>>>>, <<"t">>), Line("table", <<<<"word", "off">>>>, <<>>),
     Line("presharedkey", <<<<"key", "s">>>>, <<>>),
     Line("allowedips", <<<<"cidr", "a">>, <<"ip", "b">>, <<"cidr", "a">>>>, <<>>),
     Line("endpoint", <<<<"endpoint", "late">>>>, <<>>),
     Line("endpoint", <<<<"endpoint", "addr">>>>, <<>>),
     Line("persistentkeepalive", <<<<"word", "off">>>>, <<"j">>)}
\* A host that is resolved at the second try.
MCHostAnswers == [late |-> <<<<>>, <<<<"v6", "addr6">>, <<"v4", "addr4">>>>>>]

\* Names that differ in case, are reserved, leave nothing, are too long or are refused.
MCSpelling ==
    [home |-> <<"a">>, Home |-> <<"A">>, con |-> <<"c", ".", "a">>, smile |-> <<"~", " ">>,
     long |-> <<"a", "a", " ", ".", " ", "a">>, tab |-> <<"a", "^">>]
Hooked == Opens \o <<Line("preup", <<<<"script", "x">>>>, <<>>)>>
Exported == Opens \o <<Line("", <<>>, <<DisplayMark, "con">>), Line("", <<>>, <<DisplayMark, "tab">>)>>
MCImportTexts == {<<Line("", <<>>, <<>>)>>, Hooked, Exported}
MCFallback == <<"w">>
MCReserved == {<<"c">>}

\* Images of two or three sections that do not overlap, some sharing a page.
Sec == [at : 0..5, size : 1..3, flags : {{"read", "execute"}, {"read"}, {"read", "write"}}, discard : BOOLEAN]
Apart(image) == \A i \in 1 .. Len(image) - 1 : image[i].at + image[i].size <= image[i + 1].at
MCImages ==
    {image \in {<<a, b>> : a \in {s \in Sec : s.at <= 1}, b \in Sec} : Apart(image)} \cup
    {image \in {<<a, b, c>> : a \in {s \in Sec : s.at = 0}, b \in {s \in Sec : s.flags # {"read"}},
                              c \in {s \in Sec : s.flags = {"read"}}} : Apart(image)}

-----------------------------------------------------------------------------
AnyConfig == [peers |-> 1, tableOff |-> FALSE, allowed |-> {}, dns |-> {}]
NoPolicy == [Enabled |-> FALSE, DefaultProfileId |-> Nil, WiFi |-> TargetOff, Cellular |-> TargetOff,
             Ethernet |-> TargetDefault, TrustedSsids |-> <<>>, Assignments |-> <<>>]

PartsInit ==
    /\ part \in {"firewall", "rules", "text", "names", "profiles", "adapters", "library"}
    /\ AdapterInit /\ ProfilesInit
    /\ (part # "firewall" => config = AnyConfig) /\ Init
    /\ (part # "text" => parser = Start) /\ TextInit
    /\ IF part = "library" THEN DllInit ELSE DllIdle /\ sections = <<>> /\ dllCalls = 0
    /\ IF part = "rules" THEN RulesInit
       ELSE policy = NoPolicy /\ transport = "WiFi" /\ ssid = Nil /\ available = {}
    /\ IF part = "names" THEN NamesInit ELSE namesCompared = [i \in 1..3 |-> <<>>]

PartsNext ==
    /\ \/ part = "firewall" /\ Next /\ UNCHANGED <<rulesVars, textVars, profileVars, adapterVars, dllVars>>
       \/ part = "rules" /\ RulesNext /\ UNCHANGED <<vars, textVars, profileVars, adapterVars, dllVars>>
       \/ part = "text" /\ TextNext /\ UNCHANGED <<vars, rulesVars, profileVars, adapterVars, dllVars>>
       \/ part = "profiles" /\ ProfilesNext /\ UNCHANGED <<vars, rulesVars, textVars, adapterVars, dllVars>>
       \/ part = "adapters" /\ AdapterNext /\ UNCHANGED <<vars, rulesVars, textVars, profileVars, dllVars>>
       \/ part = "library" /\ DllNext /\ UNCHANGED <<vars, rulesVars, textVars, profileVars, adapterVars>>
    /\ UNCHANGED <<part, namesCompared>>

PartsSpec ==
    PartsInit /\ [][PartsNext]_<<part, vars, rulesVars, textVars, namesCompared, profileVars, adapterVars, dllVars>>

(* What is promised of a configuration's text, of the order of names and   *)
(* of the profiles a connection imports and lists.                         *)
ConfSafe ==
    /\ part = "text" => TextKept
    /\ part = "names" => NamesSort
    /\ part = "profiles" => ProfilesSafe

(* Whoever needs the driver gets on with it: neither the locks of          *)
(* ipc_driver.go nor those of dll_windows.go are ever waited for in a      *)
(* circle, and the pages of the library in memory have the access that     *)
(* its sections ask for.                                                   *)
DriverUsable == AdaptersNeverStuck /\ DllNeverStuck /\ PagesProtected
=============================================================================
