---------------------------- MODULE TunnelNames ----------------------------
(***************************************************************************)
(* conf/name.go: which names a tunnel may have, and the order in which the *)
(* lists and the tray show them.  A name is the sequence of its runs of    *)
(* digits and of other characters, lower case as newNaturalSortString      *)
(* makes it: <<"number", n>> or <<"string", s>>, s standing for its rank.  *)
(***************************************************************************)
EXTENDS Integers, Sequences

CONSTANTS NumberRuns, StringRuns, MaxRuns,
          LargestInt        \* a longer run of digits is compared as a string

\* The rank 0 is that of the empty string, which is no run.
ASSUME NamesAssumption == /\ NumberRuns \subseteq Nat /\ StringRuns \subseteq Nat \ {0}
                          /\ LargestInt \in Nat /\ MaxRuns \in Nat

\* newNaturalSortString: <<maybeString, maybeNumber>>, 0 for the empty string.
SortToken(run) ==
    IF run[1] = "number" /\ run[2] <= LargestInt THEN <<0, run[2]>> ELSE <<run[2], 0>>

Cmp(f1, f2) ==
    IF f1[1] = 0
    THEN IF f2[1] > 0 \/ f1[2] < f2[2] THEN -1 ELSE IF f1[2] > f2[2] THEN 1 ELSE 0
    ELSE IF f2[1] = 0 \/ f1[1] > f2[1] THEN 1 ELSE IF f1[1] < f2[1] THEN -1 ELSE 0

\* The first run that differs decides; a name that ends first comes first.
TunnelNameIsLess(a, b) ==
    \E i \in DOMAIN b :
        /\ \A j \in 1 .. i - 1 : j \in DOMAIN a /\ Cmp(SortToken(a[j]), SortToken(b[j])) = 0
        /\ i = Len(a) + 1 \/ (i <= Len(a) /\ Cmp(SortToken(a[i]), SortToken(b[i])) = -1)

-----------------------------------------------------------------------------
VARIABLE namesCompared      \* three names that are compared
NameRuns == {<<"number", n>> : n \in NumberRuns} \cup {<<"string", r>> : r \in StringRuns}
NamesInit == namesCompared \in [1..3 -> UNION {[1..n -> NameRuns] : n \in 1..MaxRuns}]
Alike(a, b) == ~TunnelNameIsLess(a, b) /\ ~TunnelNameIsLess(b, a)

(* The order is one that sorting and binary search can rely on: no name is *)
(* before itself, no two are before each other, and both `before' and      *)
(* `neither before the other' are transitive, for names that end early,    *)
(* mix numbers with text or have numbers too large for an int.             *)
NamesSort ==
    LET a == namesCompared[1] b == namesCompared[2] c == namesCompared[3] IN
    /\ ~TunnelNameIsLess(a, a) /\ ~(TunnelNameIsLess(a, b) /\ TunnelNameIsLess(b, a))
    /\ TunnelNameIsLess(a, b) /\ TunnelNameIsLess(b, c) => TunnelNameIsLess(a, c)
    /\ Alike(a, b) /\ Alike(b, c) => Alike(a, c)
=============================================================================
