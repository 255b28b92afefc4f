---------------------------- MODULE RingLogger -----------------------------
(***************************************************************************)
(* ringlogger/ and the log page that follows it: a ring of lines in a file *)
(* mapping that the manager, the tunnel services and the UI share.  There  *)
(* is no lock: a writer reserves a slot with an atomic add, hides it with  *)
(* a zero time, and publishes it by storing the time last.  A process may  *)
(* be killed between any two of these steps and the memory stays.          *)
(*                                                                         *)
(* A line's text and time are the serial number of its write; a text is    *)
(* visible as a whole or not at all because its first byte is set last.    *)
(***************************************************************************)
EXTENDS Naturals, Sequences, SequencesExt

CONSTANTS RingWriters,  \* processes that log
          RingLines,    \* maxLines: 2048 in the code
          RingWrap,     \* the modulus of nextIndex: 2^32 in the code
          MaxShown,     \* maxLogLinesDisplayed
          MaxWrites,    \* bound on lines written
          MaxKills      \* bound on processes killed

\* nextIndex wraps without moving the ring only because maxLines divides 2^32.
ASSUME RingAssumption == /\ RingLines \in Nat \ {0} /\ RingWrap \in Nat \ {0}
                         /\ RingWrap % RingLines = 0
                         /\ MaxShown \in Nat /\ MaxWrites \in Nat

VARIABLES
  magic,      \* the mapping has been cleared and marked
  nextIndex,
  slots,      \* [time, text], 0 for none
  writer,     \* a process: closed, clearing, idle, or at a step of a write
  scan,       \* FollowFromCursor and the cursor its caller keeps
  items,      \* the rows of the log page: <<time, text>>
  serial,     \* history: writes begun
  kills,
  raced,      \* history: a slot was reused under a reader or another writer
  lapped,     \* history: a whole ring was logged since the follower's last line
  holes       \* history: slots whose writer was killed before it stored the time, or
              \* that the first look passed before it did

ringVars == <<magic, nextIndex, slots, writer, scan, items, serial, kills, raced, lapped, holes>>

CursorAll == RingWrap
Empty == [time |-> 0, text |-> 0]
SlotOf(index) == index % RingLines
Shut == [pc |-> "closed", index |-> 0, serial |-> 0]
Rest == [pc |-> "idle", cursor |-> CursorAll, snap |-> 0, i |-> 0, left |-> 0, time |-> 0,
         next |-> CursorAll, found |-> <<>>]

-----------------------------------------------------------------------------
(* newRingloggerFromMappingHandle: clear the mapping unless it is marked.  *)
OpenRing(w) ==
    /\ writer[w].pc = "closed"
    /\ writer' = [writer EXCEPT ![w].pc = IF magic THEN "idle" ELSE "clearing"]
    /\ UNCHANGED <<magic, nextIndex, slots, scan, items, serial, kills, raced, lapped, holes>>

\* A process that saw no mark clears what another one may have logged meanwhile.
ClearRing(w) ==
    /\ writer[w].pc = "clearing"
    /\ slots' = [k \in DOMAIN slots |-> Empty] /\ nextIndex' = 0 /\ magic' = TRUE
    /\ writer' = [writer EXCEPT ![w].pc = "idle"]
    /\ raced' = (raced \/ serial > 0)
    /\ UNCHANGED <<scan, items, serial, kills, lapped, holes>>

\* The slots the follower has still to read of those it set out to read.
Ahead(k) ==
    /\ scan.pc \in {"time", "text"}
    /\ \E l \in 0..RingLines - 1 :
           /\ SlotOf(scan.i + l) = k /\ l < scan.left
           /\ scan.cursor # CursorAll => \A m \in 0..l : SlotOf(scan.i + m) # SlotOf(scan.snap)

\* A line is on its way to the slot.
Owns(w, k) == writer[w].pc \in {"reserved", "hidden", "written"} /\ SlotOf(writer[w].index) = k

\* WriteWithTimestamp: more than maxLines writers, or one that stalls, clash on a slot.
Reserve(w) ==
    /\ writer[w].pc = "idle" /\ serial < MaxWrites
    /\ LET k == SlotOf(nextIndex) IN
         /\ writer' = [writer EXCEPT ![w] = [pc |-> "reserved", index |-> nextIndex, serial |-> serial + 1]]
         /\ raced' = (raced \/ Ahead(k) \/
                      \E x \in RingWriters \ {w} : Owns(x, k))
    /\ nextIndex' = (nextIndex + 1) % RingWrap /\ serial' = serial + 1
    /\ lapped' = (lapped \/ SlotOf(nextIndex + 1) = scan.next)
    /\ UNCHANGED <<magic, slots, scan, items, kills>> /\ holes' = holes \ {SlotOf(nextIndex)}

Advance(w, from, to, slot) ==
    /\ writer[w].pc = from
    /\ writer' = [writer EXCEPT ![w].pc = to]
    /\ slots' = [slots EXCEPT ![SlotOf(writer[w].index)] = slot]
    /\ UNCHANGED <<magic, nextIndex, scan, items, serial, kills, raced, lapped, holes>>

HideLine(w) == Advance(w, "reserved", "hidden", Empty)
WriteText(w) ==
    LET k == SlotOf(writer[w].index) IN
    Advance(w, "hidden", "written", [slots[k] EXCEPT !.text = writer[w].serial])
StoreTime(w) ==
    LET k == SlotOf(writer[w].index) IN
    Advance(w, "written", "idle", [slots[k] EXCEPT !.time = writer[w].serial])

\* The process ends, between two lines or in the middle of one; before the line is
\* hidden the old one stays in its place.
KillWriter(w) ==
    /\ kills < MaxKills /\ writer[w].pc # "closed"
    /\ kills' = kills + 1 /\ writer' = [writer EXCEPT ![w] = Shut]
    /\ LET k == SlotOf(writer[w].index) IN
         /\ raced' = (raced \/ (writer[w].pc = "reserved" /\ slots[k].time # 0))
         /\ holes' = IF Owns(w, k) THEN holes \cup {k} ELSE holes
    /\ UNCHANGED <<magic, nextIndex, slots, scan, items, serial, lapped>>

-----------------------------------------------------------------------------
(* FollowFromCursor, called every second by the log page; from CursorAll   *)
(* it is also WriteTo, which saves the log.                                *)
FollowBegins ==
    /\ scan.pc = "idle" /\ magic
    /\ scan' = [scan EXCEPT !.pc = "time", !.snap = nextIndex, !.left = RingLines, !.found = <<>>, !.next = scan.cursor,
                            !.i = IF scan.cursor = CursorAll THEN nextIndex ELSE scan.cursor]
    /\ UNCHANGED <<magic, nextIndex, slots, writer, items, serial, kills, raced, lapped, holes>>

\* Mutant: the indices are compared without the modulus.
ReachedEndExactly == scan.cursor # CursorAll /\ scan.i = scan.snap
ReachedEnd == scan.cursor # CursorAll /\ SlotOf(scan.i) = SlotOf(scan.snap)
StopsAtHole == scan.cursor # CursorAll

\* The slot's new owner has not hidden the old line yet: it is shown again.
Stale(k) == \E w \in RingWriters : writer[w].pc = "reserved" /\ SlotOf(writer[w].index) = k
                                   /\ slots[k].time # 0

LoadTime ==
    LET k == SlotOf(scan.i) IN
    /\ scan.pc = "time"
    /\ scan' = IF scan.left = 0 \/ ReachedEnd \/ (slots[k].time = 0 /\ StopsAtHole)
               THEN [scan EXCEPT !.pc = "show"]
               ELSE IF slots[k].time = 0
               THEN [scan EXCEPT !.i = @ + 1, !.left = @ - 1]
               ELSE [scan EXCEPT !.pc = "text", !.time = slots[k].time]
    /\ raced' = (raced \/ (scan'.pc = "text" /\ Stale(k)))
    /\ holes' = IF scan.cursor = CursorAll /\ scan'.i # scan.i /\ \E w \in RingWriters : Owns(w, k)
                THEN holes \cup {k} ELSE holes
    /\ UNCHANGED <<magic, nextIndex, slots, writer, items, serial, kills, lapped>>

ReadText ==
    LET k == SlotOf(scan.i) IN
    /\ scan.pc = "text"
    /\ scan' = [scan EXCEPT !.pc = "time", !.i = @ + 1, !.left = @ - 1,
                            !.next = SlotOf(scan.i + 1),
                            !.found = IF slots[k].text = 0 THEN @
                                      ELSE Append(@, <<scan.time, slots[k].text>>)]
    /\ raced' = (raced \/ Stale(k))
    /\ UNCHANGED <<magic, nextIndex, slots, writer, items, serial, kills, lapped, holes>>

LastOf(s, n) == IF Len(s) > n THEN SubSeq(s, Len(s) - n + 1, Len(s)) ELSE s

\* The new cursor, and the rows published on the UI thread in the order of the ticks.
Show ==
    /\ scan.pc = "show"
    /\ items' = LastOf(items \o scan.found, MaxShown)
    /\ scan' = [Rest EXCEPT !.cursor = scan.next, !.next = scan.next]
    /\ UNCHANGED <<magic, nextIndex, slots, writer, serial, kills, raced, lapped, holes>>

-----------------------------------------------------------------------------
RingInit ==
    /\ magic = FALSE /\ nextIndex = 0 /\ slots = [k \in 0..RingLines - 1 |-> Empty]
    /\ writer = [w \in RingWriters |-> Shut] /\ scan = Rest /\ items = <<>>
    /\ serial = 0 /\ kills = 0 /\ raced = FALSE /\ lapped = FALSE /\ holes = {}

WriterStep(w) == HideLine(w) \/ WriteText(w) \/ StoreTime(w)
FollowStep == FollowBegins \/ LoadTime \/ ReadText \/ Show

\* Behaviours are followed up to the first race: nothing is promised after it.
RingNext ==
    /\ ~raced
    /\ \/ \E w \in RingWriters :
             OpenRing(w) \/ ClearRing(w) \/ Reserve(w) \/ WriterStep(w) \/ KillWriter(w)
       \/ FollowStep

\* The follower and the writers run.
RingFairness ==
    /\ WF_ringVars(~raced /\ FollowStep)
    /\ \A w \in RingWriters : WF_ringVars(~raced /\ WriterStep(w))

RingSpec == RingInit /\ [][RingNext]_ringVars /\ RingFairness

-----------------------------------------------------------------------------
(* The shared log, its writers and its followers keep their types. *)
RingTypeOK ==
    /\ magic \in BOOLEAN /\ nextIndex \in 0..RingWrap - 1
    /\ slots \in [0..RingLines - 1 -> [time : 0..MaxWrites, text : 0..MaxWrites]]
    /\ scan.cursor \in 0..RingLines - 1 \cup {CursorAll} /\ Len(items) <= MaxShown

(* What the page shows are whole lines, each with its own time, in the     *)
(* order they were logged and none twice, across wraps of the ring and of  *)
(* nextIndex and with processes killed in the middle of a line, as long as *)
(* none of the races the comments of WriteWithTimestamp admit happens.     *)
FollowedInOrder ==
    raced \/ /\ \A k \in DOMAIN items : items[k][1] = items[k][2]
             /\ \A j, k \in DOMAIN items : j < k => items[j][1] < items[k][1]

(* Every line that was published is shown, unless maxLines lines or more   *)
(* are logged between two looks (a whole ring looks like no line at all),  *)
(* or a line some killed process never finished stands in the way:         *)
(* FollowFromCursor waits there until the ring comes round.  The first     *)
(* look, from CursorAll, skips the lines still being written, for good.    *)
PublishedIsShown ==
    \A s \in 1..MaxWrites :
        []<>(\/ ~\E k \in DOMAIN slots : slots[k].time = s
             \/ \E j \in DOMAIN items : items[j][1] = s
             \/ Len(items) = MaxShown /\ items[1][1] > s       \* trimmed
             \/ raced \/ lapped \/ holes # {})

(* What the log page shows: every line once, in the order of the ring.     *)
RingFollowed == RingTypeOK /\ FollowedInOrder
=============================================================================
