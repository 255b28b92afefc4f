----------------------------- MODULE ConfigText -----------------------------
(***************************************************************************)
(* conf/: the text of a configuration (FromWgQuick, ToWgQuick), what the   *)
(* driver is given and gives back, and the small operations on a           *)
(* configuration.                                                          *)
(*                                                                         *)
(* A text is a sequence of lines [key, val, comment]; a value is a list of *)
(* items <<kind, name>>, a comment a list of words, <<>> if there is none. *)
(* A field is a sequence too: <<>> is Go's zero value.                     *)
(***************************************************************************)
EXTENDS Integers, Sequences, SequencesExt, FiniteSets

CONSTANTS TextStarts,   \* texts to begin with
          TextLines,    \* lines to go on with
          MaxTextLines, \* how many of them
          HostAnswers,  \* per host name: what the resolver says, try by try
          ResolveTries  \* 10 tries, 30 at boot

Scripts == {"preup", "postup", "predown", "postdown"}
InterfaceOrder == <<"privatekey", "listenport", "address", "dns", "mtu", "preup", "postup", "predown",
                    "postdown", "table">>
PeerOrder == <<"publickey", "presharedkey", "allowedips", "endpoint", "persistentkeepalive">>
InterfaceKeys == ToSet(InterfaceOrder)
PeerKeys == ToSet(PeerOrder)
ListKeys == {"address", "dns", "allowedips"}
KeyKeys == {"privatekey", "publickey", "presharedkey"}

NoComments == [before |-> <<>>, suffix |-> <<>>]
Section(keys) == [field |-> [k \in keys \cup {"dnssearch"} |-> <<>>], header |-> NoComments,
                  lines |-> [k \in keys |-> NoComments]]
NoPeer == <<>>          \* a nil *Peer; a peer is a sequence of one section
Start == [at |-> "none", interface |-> Section(InterfaceKeys), peers |-> <<>>, peer |-> NoPeer,
          pending |-> <<>>, saw |-> FALSE, err |-> FALSE]
NoConfig == [err |-> TRUE]

-----------------------------------------------------------------------------
(* Values: the parse helpers.  Bad stands for every error.                 *)
Bad == << <<"bad", "bad">> >>
\* A bare address is a network of one address.
ParseIPCidr(item) == IF item[1] = "ip" THEN <<"host", item[2]>> ELSE item
CidrKinds == {"ip", "host", "cidr"}
Number(item, least) == item[1] = "num" /\ item[2] >= least /\ item[2] <= 65535
NonZero(item) == IF item \in {<<"num", 0>>, <<"key", "zero">>} THEN <<>> ELSE <<item>>

\* Of a script the rest of the line is taken, with what looks like a comment.
ParseScalar(key, item, comment) ==
    CASE key \in KeyKeys -> IF item[1] = "key" THEN NonZero(item) ELSE Bad
      [] key = "listenport" -> IF Number(item, 0) THEN NonZero(item) ELSE Bad
      [] key = "mtu" -> IF Number(item, 576) THEN <<item>> ELSE Bad
      [] key = "persistentkeepalive" ->
             IF item = <<"word", "off">> THEN <<>> ELSE IF Number(item, 0) THEN NonZero(item) ELSE Bad
      [] key = "table" ->
             IF item = <<"word", "off">> THEN <<item>>
             ELSE IF item \in {<<"word", "auto">>, <<"word", "main">>} \/ item[1] = "num" THEN <<>> ELSE Bad
      [] key = "endpoint" -> IF item[1] = "endpoint" THEN <<item>> ELSE Bad
      [] key \in Scripts -> << <<"script", item[2], comment>> >>

\* splitList, and each entry of it; what is no address among the DNS servers is a search domain.
IsSearch(item) == item[1] # "ip"
SetField(f, key, val, comment) ==
    CASE key \in {"address", "allowedips"} -> [f EXCEPT ![key] = @ \o [i \in DOMAIN val |-> ParseIPCidr(val[i])]]
      [] key = "dns" -> [f EXCEPT !.dns = @ \o SelectSeq(val, LAMBDA i : ~IsSearch(i)),
                                  !.dnssearch = @ \o SelectSeq(val, IsSearch)]
      [] OTHER -> [f EXCEPT ![key] = ParseScalar(key, val[1], comment)]
Refused(keys, line) ==
    \/ line.key \notin keys \/ line.val = <<>> \/ <<"bad", "bad">> \in ToSet(line.val)
    \/ line.key \in {"address", "allowedips"} /\ \E i \in DOMAIN line.val : line.val[i][1] \notin CidrKinds
    \/ line.key \notin ListKeys /\ ParseScalar(line.key, line.val[1], line.comment) = Bad

-----------------------------------------------------------------------------
(* FromWgQuick, line by line.                                              *)
MaybeAddPeer(st) == [st EXCEPT !.peers = @ \o st.peer]

\* The comments above a line and behind it are added to those its key has already.
Attach(c, pending, comment) == [before |-> c.before \o pending, suffix |-> c.suffix \o comment]

ReadField(section, line, pending) ==
    LET comment == IF line.key \in Scripts THEN <<>> ELSE line.comment IN
    [section EXCEPT !.field = SetField(@, line.key, line.val, line.comment),
                    !.lines[line.key] = Attach(@, pending, comment)]

ReadBlank(st, line) == [st EXCEPT !.pending = Append(@, line.comment)]
ReadInterface(st, line) ==
    [MaybeAddPeer(st) EXCEPT !.at = "interface", !.pending = <<>>,
         !.interface.header = Attach(@, st.pending, line.comment)]
ReadPeer(st, line) ==
    [MaybeAddPeer(st) EXCEPT !.at = "peer", !.pending = <<>>,
         !.peer = <<[Section(PeerKeys) EXCEPT !.header = [before |-> st.pending, suffix |-> line.comment]]>>]
ReadKey(st, line) ==
    IF st.at = "none" \/ Refused(IF st.at = "peer" THEN PeerKeys ELSE InterfaceKeys, line)
    THEN [Start EXCEPT !.err = TRUE]
    ELSE IF st.at = "peer"
    THEN [st EXCEPT !.peer[1] = ReadField(@, line, st.pending), !.pending = <<>>]
    ELSE [st EXCEPT !.interface = ReadField(@, line, st.pending), !.pending = <<>>,
                    !.saw = @ \/ line.key = "privatekey"]

ReadLine(st, line) ==
    CASE st.err -> st
      [] line.key = "" -> ReadBlank(st, line)
      [] line.key = "[interface]" -> ReadInterface(st, line)
      [] line.key = "[peer]" -> ReadPeer(st, line)
      [] OTHER -> ReadKey(st, line)

\* pruneComments: no two blank lines in a row, none first or last if asked to, and not one alone.
Squeeze(run) ==
    FoldLeft(LAMBDA out, line : IF line = <<>> /\ out # <<>> /\ Last(out) = <<>> THEN out ELSE Append(out, line),
             <<>>, run)
PruneComments(run, dropLeading, dropTrailing) ==
    LET out == Squeeze(run)
        cut == IF dropLeading /\ out # <<>> /\ Head(out) = <<>> THEN Tail(out) ELSE out
        kept == IF dropTrailing /\ cut # <<>> /\ Last(cut) = <<>> THEN Front(cut) ELSE cut
    IN IF kept = << <<>> >> THEN <<>> ELSE kept
PruneSection(s) ==
    [s EXCEPT !.header.before = PruneComments(@, TRUE, FALSE),
              !.lines = [k \in DOMAIN @ |-> [@[k] EXCEPT !.before = PruneComments(@, FALSE, FALSE)]]]

\* The end of the text: the last peer, the comments, and the keys there must be.
Finish(st) ==
    LET all == MaybeAddPeer(st) IN
    IF st.err \/ ~st.saw \/ \E i \in DOMAIN all.peers : all.peers[i].field.publickey = <<>>
    THEN NoConfig
    ELSE [err |-> FALSE, interface |-> PruneSection(st.interface),
          peers |-> [i \in DOMAIN all.peers |-> PruneSection(all.peers[i])],
          trailing |-> PruneComments(st.pending, FALSE, TRUE)]
FromWgQuick(text) == Finish(FoldLeft(ReadLine, Start, text))

-----------------------------------------------------------------------------
(* ToWgQuick.                                                              *)
CommentLine(comment) == [key |-> "", val |-> <<>>, comment |-> comment]
CommentLines(run) == [i \in DOMAIN run |-> CommentLine(run[i])]
WriteLine(c, key, val) == Append(CommentLines(c.before), [key |-> key, val |-> val, comment |-> c.suffix])

Zero(key) == IF key \in KeyKeys THEN << <<"key", "zero">> >>
             ELSE IF key = "table" THEN << <<"word", "auto">> >>
             ELSE IF key \in Scripts \cup {"endpoint"} THEN <<>> ELSE << <<"num", 0>> >>
WriteField(s, key) ==
    LET f == s.field[key]
        val == IF key = "dns" THEN f \o s.field.dnssearch ELSE f
    IN IF val = <<>> /\ (key \in ListKeys \/ (s.lines[key] = NoComments /\ key \notin {"privatekey", "publickey"}))
       THEN <<>>
       ELSE IF key \in Scripts /\ val # <<>>
       THEN WriteLine([s.lines[key] EXCEPT !.suffix = val[1][3]], key, << <<"script", val[1][2]>> >>)
       ELSE WriteLine(s.lines[key], key, IF val = <<>> THEN Zero(key) ELSE val)
WriteSection(s, name, order) ==
    FoldLeft(LAMBDA out, key : out \o WriteField(s, key), WriteLine(s.header, name, <<>>), order)
ToWgQuick(c) ==
    FoldLeft(LAMBDA out, p : Append(out, CommentLine(<<>>)) \o WriteSection(p, "[peer]", PeerOrder),
             WriteSection(c.interface, "[interface]", InterfaceOrder), c.peers)
    \o CommentLines(c.trailing) \o <<CommentLine(<<>>)>>   \* the text ends with a line break

-----------------------------------------------------------------------------
(* The driver's form, and endpoints, which it takes as addresses only.     *)
IsAddress(host) == host \notin DOMAIN HostAnswers
HostOf(p) == p.field.endpoint[1][2]
HasEndpoint(p) == p.field.endpoint # <<>>

\* resolveHostnameOnce: the first IPv4 address, or else the first IPv6 one.
PickAddress(found) ==
    IF \E i \in DOMAIN found : found[i][1] = "v4"
    THEN found[CHOOSE i \in DOMAIN found : found[i][1] = "v4" /\ \A j \in 1 .. i - 1 : found[j][1] # "v4"]
    ELSE Head(found)
\* resolveHostname: a temporary answer is asked for again, as often as the tries allow.
ResolveHostname(host) ==
    IF IsAddress(host) THEN <<"v4", host>>
    ELSE LET answers == SubSeq(HostAnswers[host], 1, ResolveTries)
             final == {i \in DOMAIN answers : answers[i] # <<>>}
         IN IF final = {} THEN <<>>
            ELSE PickAddress(answers[CHOOSE i \in final : \A j \in final : i <= j])
\* ResolveEndpoints: the first host that has no address is the error.
ResolveEndpoints(c) ==
    IF \E i \in DOMAIN c.peers : HasEndpoint(c.peers[i]) /\ ResolveHostname(HostOf(c.peers[i])) = <<>>
    THEN NoConfig
    ELSE [c EXCEPT !.peers = [i \in DOMAIN c.peers |->
             IF HasEndpoint(c.peers[i])
             THEN [c.peers[i] EXCEPT !.field.endpoint = << <<"endpoint", ResolveHostname(HostOf(c.peers[i]))[2]>> >>]
             ELSE c.peers[i]]]

ToDriverConfiguration(c) ==
    [privatekey |-> c.interface.field.privatekey, listenport |-> c.interface.field.listenport,
     peers |-> [i \in DOMAIN c.peers |->
         [c.peers[i].field EXCEPT !.endpoint = IF @ # <<>> /\ IsAddress(@[1][2]) THEN @ ELSE <<>>]]]
FromDriverConfiguration(d, existing) ==
    [err |-> FALSE, trailing |-> <<>>,
     interface |-> [Section(InterfaceKeys) EXCEPT !.field =
         [existing.interface.field EXCEPT !.privatekey = d.privatekey, !.listenport = d.listenport]],
     peers |-> [i \in DOMAIN d.peers |-> [Section(PeerKeys) EXCEPT !.field = d.peers[i]]]]

-----------------------------------------------------------------------------
(* Redact, DeduplicateNetworkEntries, IntersectsWith.                      *)
\* A public key is replaced by the peer's index.
RedactPeer(p, i) ==
    [Section(PeerKeys) EXCEPT !.field = [p.field EXCEPT !.publickey = << <<"index", i - 1>> >>, !.presharedkey = <<>>]]
Redact(c) ==
    [err |-> FALSE, trailing |-> <<>>,
     interface |-> [Section(InterfaceKeys) EXCEPT !.field =
         [k \in DOMAIN c.interface.field |->
             IF k \in Scripts \cup {"privatekey"} THEN <<>> ELSE c.interface.field[k]]],
     peers |-> [i \in DOMAIN c.peers |-> RedactPeer(c.peers[i], i)]]

Dedup(s) == FoldLeft(LAMBDA out, x : IF x \in ToSet(out) THEN out ELSE Append(out, x), <<>>, s)
DeduplicateNetworkEntries(c) ==
    [c EXCEPT !.interface.field = [@ EXCEPT !.address = Dedup(@), !.dns = Dedup(@)],
              !.peers = [i \in DOMAIN @ |-> [@[i] EXCEPT !.field.allowedips = Dedup(@)]]]

\* The networks of a configuration; of an interface address also the address alone.
Masked4(item) == IF item[1] = "cidr" THEN <<"net", item[2]>> ELSE item
AllRoutes(c) ==
    UNION {{<<"host", a[2]>>, Masked4(a)} : a \in ToSet(c.interface.field.address)}
    \cup UNION {{Masked4(a) : a \in ToSet(c.peers[i].field.allowedips)} : i \in DOMAIN c.peers}
IntersectsWith(c, other) == AllRoutes(c) \cap AllRoutes(other) # {}

-----------------------------------------------------------------------------
(* Reading a text: the parser's state is the state.                        *)
VARIABLES parser,
          linesLeft,
          words,       \* history: the comments read
          peerLines,    \* history: [Peer] lines read
          reopened     \* history: an [Interface] line has followed a [Peer] line
textVars == <<parser, linesLeft, words, peerLines, reopened>>

CommentsOf(line) == IF line.key \in Scripts THEN {} ELSE ToSet(line.comment)
TextInit ==
    /\ \E text \in TextStarts :
         /\ parser = FoldLeft(ReadLine, Start, text)
         /\ words = UNION {CommentsOf(text[i]) : i \in DOMAIN text}
         /\ peerLines = Len(SelectSeq(text, LAMBDA l : l.key = "[peer]"))
    /\ linesLeft = MaxTextLines /\ reopened = FALSE
ReadsLine(line) ==
    /\ ~parser.err /\ linesLeft > 0 /\ linesLeft' = linesLeft - 1
    /\ parser' = ReadLine(parser, line) /\ words' = words \cup CommentsOf(line)
    /\ peerLines' = peerLines + (IF line.key = "[peer]" THEN 1 ELSE 0)
    /\ reopened' = (reopened \/ (line.key = "[interface]" /\ parser.peer # NoPeer))
TextNext == \E line \in TextLines : ReadsLine(line)

\* The configuration the text so far is read as, if it can be read.
Readings == {c \in {Finish(parser)} : ~c.err}

-----------------------------------------------------------------------------
(* Saving and loading changes nothing: what ToWgQuick writes is read back  *)
(* as the same configuration, comments and repeated keys included, with a  *)
(* default value that is written only to keep its comment.                 *)
TextComesBack == \A c \in Readings : FromWgQuick(ToWgQuick(c)) = c

(* No comment of a text that can be read is lost when it is saved.         *)
CommentsKept ==
    \A text \in {ToWgQuick(c) : c \in Readings} :
        words \subseteq UNION {ToSet(text[i].comment) : i \in DOMAIN text}

(* Every [Peer] of a text is a peer, once: unless an [Interface] line      *)
(* follows one, which adds the peer before it a second time.               *)
PeersOnce == ~reopened => \A c \in Readings : Len(c.peers) = peerLines

(* The driver's form holds all the driver needs: with the stored           *)
(* configuration it gives back the same one without its comments, and once *)
(* ResolveEndpoints has succeeded no peer loses its endpoint.              *)
DriverFormComplete ==
    \A stored \in Readings : \A c \in {ResolveEndpoints(stored)} :
        ~c.err =>
            \A back \in {FromDriverConfiguration(ToDriverConfiguration(c), stored)} :
                /\ \A k \in InterfaceKeys : back.interface.field[k] = c.interface.field[k]
                /\ [i \in DOMAIN back.peers |-> back.peers[i].field] = [i \in DOMAIN c.peers |-> c.peers[i].field]

(* What a limited user is shown has no secret in it and still tells the    *)
(* peers apart.                                                            *)
RedactHides ==
    \A r \in {Redact(c) : c \in Readings} :
        /\ \A k \in Scripts \cup {"privatekey"} : r.interface.field[k] = <<>>
        /\ \A i, j \in DOMAIN r.peers : i # j => r.peers[i].field.publickey # r.peers[j].field.publickey
        /\ \A i \in DOMAIN r.peers : r.peers[i].field.presharedkey = <<>>
        /\ \A text \in {ToWgQuick(r)} : \A i \in DOMAIN text : text[i].comment = <<>>

(* Leaving out repeated addresses leaves none twice, and changes neither   *)
(* the networks a configuration uses nor with which others it conflicts.   *)
DedupHarmless ==
    \A c \in Readings : \A d \in {DeduplicateNetworkEntries(c)} :
        /\ IsInjective(d.interface.field.address) /\ IsInjective(d.interface.field.dns)
        /\ \A i \in DOMAIN d.peers : IsInjective(d.peers[i].field.allowedips)
        /\ AllRoutes(d) = AllRoutes(c)
        /\ IntersectsWith(d, c) = (AllRoutes(c) # {})

(* The text a user wrote survives everything that is done with it: reading *)
(* and writing it, its comments, the peers, the driver's form, redaction   *)
(* and the removal of duplicates.                                          *)
TextKept == TextComesBack /\ CommentsKept /\ PeersOnce /\ DriverFormComplete /\ RedactHides /\ DedupHarmless
=============================================================================
