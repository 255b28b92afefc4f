----------------------- MODULE ManagerProtocolProofs -----------------------
(***************************************************************************)
(* ProtocolSafe, for any number of callers and any bounds: the frames of   *)
(* the request pipe stay aligned and the client never rejects an event.    *)
(*                                                                         *)
(* Neither is inductive.  Frames stay aligned because a header that is the *)
(* last thing in the pipe belongs to the caller that still holds           *)
(* requestLock, or the connection has faulted (PendingHeader); events are  *)
(* accepted because everything in the pipe, and what is about to enter it, *)
(* was numbered after what the client has read (EventsNumbered).           *)
(***************************************************************************)
EXTENDS ManagerProtocol, TLAPS

(* A task that asks for something says what. *)
MethodKnown == \A c \in Callers : task[c].pc # "idle" => task[c].method \in {"hello", "state"}

TypesInv == TypeOK /\ MethodKnown

LastIsHeader == Len(requests) > 0 /\ requests[Len(requests)].part = "header"

(* As long as the client is not disposed, who is sending or waiting has the  *)
(* lock, and a caller that has written its header has nothing written after  *)
(* it; without such a caller a header at the end of the pipe means a fault.  *)
PendingHeader ==
  /\ disposed = 0 =>
       \A c \in Callers :
         /\ task[c].pc \in {"payload", "await"} => requestLock = c
         /\ task[c].pc = "payload" => LastIsHeader /\ requests[Len(requests)].id = task[c].id
  /\ LastIsHeader => faulted \/ \E c \in Callers : task[c].pc = "payload" /\ requestLock = c

FramesInv == FramesAligned /\ PendingHeader

(* The numbers in the pipe lie between the last one read and the last one given. *)
EventsNumbered ==
  /\ lastEventSequence <= eventSequence
  /\ \A i \in 1..Len(events) :
       events[i].sequence > lastEventSequence /\ events[i].sequence <= eventSequence
  /\ \A i, j \in 1..Len(events) : i < j => events[i].sequence < events[j].sequence
  /\ writing # NoEvent =>
       /\ writing.sequence > lastEventSequence /\ writing.sequence <= eventSequence
       /\ \A i \in 1..Len(events) : writing.sequence > events[i].sequence

ProtocolInv == TypesInv /\ FramesInv /\ EventsNumbered
-----------------------------------------------------------------------------
(* What Append does to a pipe. *)
LEMMA AppendFacts ==
  ASSUME NEW S, NEW s \in Seq(S), NEW e \in S
  PROVE  /\ Append(s, e) \in Seq(S) /\ Len(s) \in Nat /\ Len(Append(s, e)) = Len(s) + 1
         /\ Append(s, e)[Len(s) + 1] = e
         /\ \A i \in 1..Len(s) : Append(s, e)[i] = s[i]
  OBVIOUS

(* What reading the first frame does to a pipe. *)
LEMMA TailFacts ==
  ASSUME NEW S, NEW s \in Seq(S), s # <<>>
  PROVE  /\ Head(s) \in S /\ Head(s) = s[1] /\ Tail(s) \in Seq(S)
         /\ Len(s) \in Nat /\ Len(s) >= 1 /\ Len(Tail(s)) = Len(s) - 1
         /\ \A i \in 1..Len(s) - 1 : Tail(s)[i] = s[i + 1]
  OBVIOUS

(* What reading two frames does to a pipe. *)
LEMMA PairFacts ==
  ASSUME NEW S, NEW s \in Seq(S), Len(s) >= 2
  PROVE  /\ s[1] \in S /\ s[2] \in S /\ Len(s) \in Nat
         /\ Tail(Tail(s)) \in Seq(S) /\ Len(Tail(Tail(s))) = Len(s) - 2
         /\ \A i \in 1..Len(s) - 2 : Tail(Tail(s))[i] = s[i + 2]
<1>1. s # <<>>
  OBVIOUS
<1> DEFINE t == Tail(s)
<1>2. t \in Seq(S) /\ Len(t) = Len(s) - 1 /\ \A i \in 1..Len(s) - 1 : t[i] = s[i + 1]
  BY <1>1, TailFacts
<1> HIDE DEF t
<1>3. t # <<>>
  BY <1>2
<1>4. Tail(t) \in Seq(S) /\ Len(Tail(t)) = Len(t) - 1
        /\ \A i \in 1..Len(t) - 1 : Tail(t)[i] = t[i + 1]
  BY <1>2, <1>3, TailFacts
<1>5. s[1] \in S /\ s[2] \in S /\ Len(s) \in Nat
  OBVIOUS
<1> QED  BY <1>2, <1>4, <1>5 DEF t

(* Every initial state satisfies the invariant. *)
LEMMA InitInv == Init => ProtocolInv
<1> SUFFICES ASSUME Init PROVE ProtocolInv
  OBVIOUS
<1>1. TypesInv
  <2>1. task \in [Callers -> Tasks] /\ MethodKnown
    BY DEF Init, Idle, Tasks, MethodKnown
  <2>2. answer \in Answers /\ writing \in Events
    BY DEF Init, NoAnswer, NoEvent, Answers, Events
  <2>3. requests \in Seq(Parts) /\ responses \in Seq(Answers) /\ events \in Seq(Events)
    BY DEF Init
  <2>4. /\ requestLock \in Callers \cup {NoCaller} /\ hello \in {"no", "started", "completed"}
        /\ faulted \in BOOLEAN /\ loop \in {"none", "check", "reading", "ended"}
        /\ serving \in {"reads", "answers", "returned", "locked", "gone", "dead"}
        /\ helloDone \in BOOLEAN
    BY DEF Init
  <2>5. /\ disposed \in 0..2 /\ {nextRequestId, cancels, lastEventSequence, view} \subseteq Nat
        /\ {state, notifying, eventSequence} \subseteq Nat /\ waiting \subseteq Nat
    BY DEF Init
  <2> HIDE DEF MethodKnown
  <2> QED  BY <2>1, <2>2, <2>3, <2>4, <2>5 DEF TypesInv, TypeOK
<1>2. FramesInv
  BY DEF Init, FramesInv, FramesAligned, PendingHeader, LastIsHeader, Idle
<1>3. EventsNumbered
  BY DEF Init, EventsNumbered, NoEvent
<1> QED  BY <1>1, <1>2, <1>3 DEF ProtocolInv

(* The steps of a caller keep the types. *)
LEMMA CallerTypes ==
  ASSUME TypesInv, NEW c \in Callers, Call(c) \/ SendSteps(c) \/ Cancel(c)
  PROVE  TypesInv'
<1> USE DEF TypesInv, TypeOK, MethodKnown, Becomes, Idle
<1>1. CASE Call(c)
  BY <1>1 DEF Call, Tasks, serverVars, eventVars, pipes
<1>2. CASE WriteHeader(c)
  <2>1. task' \in [Callers -> Tasks] /\ MethodKnown'
    <3> DEFINE t == [task[c] EXCEPT !.pc = "payload", !.id = nextRequestId + 1]
    <3>0. task[c] \in Tasks /\ nextRequestId + 1 \in Nat
      OBVIOUS
    <3>1. t \in Tasks /\ t.method = task[c].method
      <4> HIDE DEF TypesInv
      <4> QED  BY <3>0 DEF Tasks
    <3>2. Idle \in Tasks /\ Idle.pc = "idle" /\ task[c].pc = "lock"
      BY <1>2 DEF WriteHeader, Tasks
    <3>3. task' = [task EXCEPT ![c] = t] \/ task' = [task EXCEPT ![c] = Idle]
      BY <1>2 DEF WriteHeader
    <3> HIDE DEF t, Idle
    <3> QED  BY <3>1, <3>2, <3>3
  <2>2. nextRequestId' \in Nat /\ requestLock' \in Callers \cup {NoCaller}
    BY <1>2 DEF WriteHeader
  <2>3. requests' \in Seq(Parts)
    <3>1. Part(c, "header", nextRequestId + 1) \in Parts
      BY <1>2 DEF WriteHeader, Part, Parts
    <3>2. Append(requests, Part(c, "header", nextRequestId + 1)) \in Seq(Parts)
      BY <3>1, AppendFacts
    <3> QED  BY <1>2, <3>2 DEF WriteHeader
  <2> HIDE DEF MethodKnown
  <2> QED  BY <1>2, <2>1, <2>2, <2>3 DEF WriteHeader, serverVars, eventVars
<1>3. CASE WritePayload(c)
  <2>1. task' \in [Callers -> Tasks] /\ MethodKnown'
    BY <1>3 DEF WritePayload, Tasks
  <2>2. requests' \in Seq(Parts)
    <3>1. Part(c, "payload", task[c].id) \in Parts
      BY <1>3 DEF WritePayload, Part, Parts, Tasks
    <3> QED  BY <1>3, <3>1, AppendFacts DEF WritePayload
  <2> HIDE DEF MethodKnown
  <2> QED  BY <1>3, <2>1, <2>2 DEF WritePayload, serverVars, eventVars
<1>4. CASE ReadResponse(c)
  <2>1. Head(responses) \in Answers /\ responses' \in Seq(Answers)
    BY <1>4, TailFacts DEF ReadResponse
  <2>2. task' \in [Callers -> Tasks] /\ MethodKnown'
    <3> DEFINE t == [task[c] EXCEPT !.pc = "apply", !.result = Head(responses).result]
    <3>1. t \in Tasks /\ t.method = task[c].method
      BY <2>1 DEF Tasks, Answers
    <3>2. Idle \in Tasks /\ Idle.pc = "idle" /\ task[c].pc = "await"
      BY <1>4 DEF ReadResponse, Tasks
    <3>3. task' = [task EXCEPT ![c] = t] \/ task' = [task EXCEPT ![c] = Idle]
      BY <1>4 DEF ReadResponse
    <3> HIDE DEF t, Idle
    <3> QED  BY <3>1, <3>2, <3>3
  <2>3. faulted' \in BOOLEAN /\ hello' \in {"no", "started", "completed"}
        /\ requestLock' \in Callers \cup {NoCaller}
    BY <1>4 DEF ReadResponse
  <2> HIDE DEF MethodKnown
  <2> QED  BY <1>4, <2>1, <2>2, <2>3 DEF ReadResponse, serverVars, eventVars
<1>5. CASE RequestFails(c)
  BY <1>5 DEF RequestFails, Tasks, Released, serverVars, eventVars, pipes
<1>6. CASE ApplyResponse(c)
  BY <1>6 DEF ApplyResponse, Tasks, serverVars, eventVars, pipes
<1>7. CASE Cancel(c)
  BY <1>7 DEF Cancel, Tasks, Released, serverVars, eventVars, pipes
<1> QED  BY <1>1, <1>2, <1>3, <1>4, <1>5, <1>6, <1>7 DEF SendSteps

(* The steps of the event loop and of DisposeAsync keep the types. *)
LEMMA LoopTypes ==
  ASSUME TypesInv, BeginRead \/ ReadEvent \/ EventPipeEnds \/ DisposeRequests \/ DisposeEvents
  PROVE  TypesInv'
<1> USE DEF TypesInv, TypeOK, MethodKnown
<1>1. CASE BeginRead
  BY <1>1 DEF BeginRead, serverVars, eventVars, pipes
<1>2. CASE ReadEvent
  <2>1. Head(events) \in Events /\ events' \in Seq(Events)
    BY <1>2, TailFacts DEF ReadEvent
  <2> QED  BY <1>2, <2>1 DEF ReadEvent, Events, serverVars, eventVars
<1>3. CASE EventPipeEnds
  BY <1>3 DEF EventPipeEnds, serverVars, eventVars, pipes
<1>4. CASE DisposeRequests
  BY <1>4 DEF DisposeRequests, serverVars, eventVars, pipes
<1>5. CASE DisposeEvents
  BY <1>5 DEF DisposeEvents, serverVars, eventVars, pipes
<1> QED  BY <1>1, <1>2, <1>3, <1>4, <1>5

(* The steps of the service keep the types. *)
LEMMA ServerTypes ==
  ASSUME TypesInv, Server \/ ManagerDies
  PROVE  TypesInv'
<1> USE DEF TypesInv, TypeOK, MethodKnown, clientVars, eventVars
<1>1. CASE ServeRequest
  <2>1. requests[1] \in Parts /\ Tail(Tail(requests)) \in Seq(Parts)
    BY <1>1, PairFacts DEF ServeRequest, Frame
  <2>2. requests' \in Seq(Parts)
    BY <1>1, <2>1 DEF ServeRequest
  <2>3. answer' \in Answers
    <3>1. Dispatch(requests[1]) \in Answers
      BY <2>1 DEF Dispatch, Parts, Answers
    <3> QED  BY <1>1, <3>1 DEF ServeRequest
  <2>4. helloDone' \in BOOLEAN /\ serving' \in {"answers", "returned"}
    BY <1>1 DEF ServeRequest
  <2> QED  BY <1>1, <2>2, <2>3, <2>4 DEF ServeRequest
<1>2. CASE ServeAnswer
  <2>1. responses' \in Seq(Answers)
    BY <1>2, AppendFacts DEF ServeAnswer
  <2>2. answer' \in Answers
    BY <1>2 DEF ServeAnswer, NoAnswer, Answers
  <2> QED  BY <1>2, <2>1, <2>2 DEF ServeAnswer
<1>3. CASE ServeEnds \/ LockServices \/ ForgetConnection
  BY <1>3 DEF ServeEnds, LockServices, ForgetConnection, pipes
<1>4. CASE ManagerDies
  BY <1>4 DEF ManagerDies, NoAnswer, NoEvent, Answers, Events, pipes
<1> QED  BY <1>1, <1>2, <1>3, <1>4 DEF Server

(* The steps of the trackers and the event writers keep the types. *)
LEMMA NotifyTypes ==
  ASSUME TypesInv, TunnelChanges \/ Notify \/ WriteEvent \/ \E s \in waiting : NumberEvent(s)
  PROVE  TypesInv'
<1> USE DEF TypesInv, TypeOK, MethodKnown, clientVars, serverVars
<1>1. CASE TunnelChanges
  BY <1>1 DEF TunnelChanges, pipes
<1>2. CASE Notify
  BY <1>2 DEF Notify, pipes
<1>3. CASE WriteEvent
  <2>1. events' \in Seq(Events)
    <3>1. Append(events, writing) \in Seq(Events)
      BY AppendFacts
    <3> QED  BY <1>3, <3>1 DEF WriteEvent
  <2>2. writing' \in Events
    BY <1>3 DEF WriteEvent, NoEvent, Events
  <2> QED  BY <1>3, <2>1, <2>2 DEF WriteEvent
<1>4. ASSUME NEW s \in waiting, NumberEvent(s) PROVE TypesInv'
  BY <1>4 DEF NumberEvent, Events, pipes
<1> QED  BY <1>1, <1>2, <1>3, <1>4

-----------------------------------------------------------------------------
(* Steps that do not touch the events, their numbers and what the client   *)
(* has read of them.                                                       *)
LEMMA EventsUntouched ==
  ASSUME EventsNumbered, UNCHANGED <<lastEventSequence, eventSequence, events, writing>>
  PROVE  EventsNumbered'
  BY DEF EventsNumbered

(* An event is accepted by the client: it was numbered after the last one. *)
LEMMA ReadEventOrder ==
  ASSUME TypesInv, EventsNumbered, ReadEvent
  PROVE  EventsNumbered'
<1>1. /\ Head(events) = events[1] /\ Head(events) \in Events /\ Len(events) \in Nat
        /\ Len(events) >= 1
      /\ Len(events') = Len(events) - 1 /\ \A i \in 1..Len(events') : events'[i] = events[i + 1]
  BY TailFacts DEF ReadEvent, TypesInv, TypeOK
<1>2. events[1].sequence > lastEventSequence /\ events[1].sequence <= eventSequence
  BY <1>1 DEF EventsNumbered
<1>3. lastEventSequence \in Nat /\ events[1].sequence \in Nat
  BY <1>1 DEF TypesInv, TypeOK, Events
<1>4. lastEventSequence' = events[1].sequence /\ UNCHANGED <<eventSequence, writing>>
  BY <1>1, <1>2, <1>3 DEF ReadEvent, eventVars
<1>5. 1 \in 1..Len(events) /\ \A i \in 1..Len(events') : i + 1 \in 1..Len(events) /\ 1 < i + 1
  BY <1>1
<1>6. \A i \in 1..Len(events') :
        /\ events'[i].sequence > lastEventSequence' /\ events'[i].sequence <= eventSequence'
        /\ writing' # NoEvent => writing'.sequence > events'[i].sequence
  BY <1>1, <1>4, <1>5 DEF EventsNumbered
<1>7. \A i, j \in 1..Len(events') : i < j => events'[i].sequence < events'[j].sequence
  <2> SUFFICES ASSUME NEW i \in 1..Len(events'), NEW j \in 1..Len(events'), i < j
               PROVE  events'[i].sequence < events'[j].sequence
    OBVIOUS
  <2>1. i + 1 \in 1..Len(events) /\ j + 1 \in 1..Len(events) /\ i + 1 < j + 1
    BY <1>1
  <2>2. events'[i] = events[i + 1] /\ events'[j] = events[j + 1]
    BY <1>1
  <2> QED  BY <2>1, <2>2 DEF EventsNumbered
<1>8. /\ lastEventSequence' <= eventSequence'
      /\ writing' # NoEvent => /\ writing'.sequence > lastEventSequence'
                               /\ writing'.sequence <= eventSequence'
  BY <1>2, <1>4, <1>5 DEF EventsNumbered
<1>9. NoEvent' = NoEvent
  BY DEF NoEvent
<1> QED  BY <1>6, <1>7, <1>8, <1>9 DEF EventsNumbered

(* The event under the lock gets the highest number so far. *)
LEMMA NumberEventOrder ==
  ASSUME TypesInv, EventsNumbered, NEW s \in waiting, NumberEvent(s)
  PROVE  EventsNumbered'
<1>1. CASE serving = "gone"
  BY <1>1, EventsUntouched DEF NumberEvent, clientVars, pipes
<1>2. CASE serving # "gone"
  <2>1. /\ writing' = [sequence |-> eventSequence + 1, state |-> s]
        /\ writing'.sequence = eventSequence + 1 /\ eventSequence' = eventSequence + 1
        /\ UNCHANGED <<lastEventSequence, events>>
    BY <1>2 DEF NumberEvent, clientVars, pipes
  <2>2. \A i \in 1..Len(events) : events[i] \in Events
    BY DEF TypesInv, TypeOK
  <2>3. eventSequence \in Nat /\ lastEventSequence \in Nat
          /\ \A i \in 1..Len(events) : events[i].sequence \in Nat
    BY <2>2 DEF TypesInv, TypeOK, Events
  <2> QED  BY <2>1, <2>3 DEF EventsNumbered
<1> QED  BY <1>1, <1>2

(* The event under the lock enters the pipe behind all others. *)
LEMMA WriteEventOrder ==
  ASSUME TypesInv, EventsNumbered, WriteEvent
  PROVE  EventsNumbered'
<1>1. writing # NoEvent /\ writing' = NoEvent /\ UNCHANGED <<lastEventSequence, eventSequence>>
  BY DEF WriteEvent, clientVars
<1>2. CASE UNCHANGED events
  BY <1>1, <1>2 DEF EventsNumbered
<1>3. CASE events' = Append(events, writing)
  <2>1. /\ Len(events) \in Nat /\ Len(events') = Len(events) + 1
        /\ events'[Len(events) + 1] = writing /\ \A i \in 1..Len(events) : events'[i] = events[i]
    BY <1>3, AppendFacts DEF TypesInv, TypeOK
  <2>2. \A i \in 1..Len(events') : i \in 1..Len(events) \/ i = Len(events) + 1
    BY <2>1
  <2>3. \A i, j \in 1..Len(events') : i < j => i \in 1..Len(events)
    BY <2>1
  <2> QED  BY <1>1, <2>1, <2>2, <2>3 DEF EventsNumbered
<1> QED  BY <1>2, <1>3 DEF WriteEvent

(* Whoever reads, writes, closes or dies, the numbers stay in order. *)
LEMMA EventsStep ==
  ASSUME TypesInv, EventsNumbered, Next
  PROVE  EventsNumbered'
<1> USE DEF serverVars, eventVars, clientVars, pipes
<1>1. ASSUME NEW c \in Callers, Call(c) \/ SendSteps(c) \/ Cancel(c) PROVE EventsNumbered'
  BY <1>1, EventsUntouched DEF Call, SendSteps, WriteHeader, WritePayload, ReadResponse,
      RequestFails,
       ApplyResponse, Cancel
<1>2. CASE BeginRead \/ EventPipeEnds \/ DisposeRequests \/ DisposeEvents
  BY <1>2, EventsUntouched DEF BeginRead, EventPipeEnds, DisposeRequests, DisposeEvents
<1>3. CASE ReadEvent
  BY <1>3, ReadEventOrder
<1>4. CASE Server
  BY <1>4, EventsUntouched DEF Server, ServeRequest, ServeAnswer, ServeEnds, LockServices,
      ForgetConnection
<1>5. CASE ManagerDies
  BY <1>5 DEF ManagerDies, EventsNumbered
<1>6. CASE TunnelChanges \/ Notify
  BY <1>6, EventsUntouched DEF TunnelChanges, Notify
<1>7. CASE WriteEvent
  BY <1>7, WriteEventOrder
<1>8. ASSUME NEW s \in waiting, NumberEvent(s) PROVE EventsNumbered'
  BY <1>8, NumberEventOrder
<1> QED  BY <1>1, <1>2, <1>3, <1>4, <1>5, <1>6, <1>7, <1>8 DEF Next

-----------------------------------------------------------------------------
(* Steps that write nothing to the request pipe and read nothing from it. *)
LEMMA FramesUntouched ==
  ASSUME FramesAligned, UNCHANGED requests
  PROVE  FramesAligned'
  BY DEF FramesAligned, Aligned

(* Steps that leave the callers, the lock and the request pipe alone. *)
LEMMA PendingUntouched ==
  ASSUME PendingHeader, UNCHANGED <<task, requestLock, requests>>, faulted => faulted',
         disposed' = 0 => disposed = 0
  PROVE  PendingHeader'
  BY DEF PendingHeader, LastIsHeader

(* A caller that gets the lock writes its header behind whole frames: a    *)
(* header that is left at the end would be a fault, and a fault stops it.  *)
LEMMA WriteHeaderFrames ==
  ASSUME TypesInv, FramesInv, NEW c \in Callers, WriteHeader(c)
  PROVE  FramesInv'
<1>0. Len(requests) \in Nat /\ task \in [Callers -> Tasks] /\ NoCaller \notin Callers
  BY CallerAssumption DEF TypesInv, TypeOK, CallerAssumption
<1>1. CASE faulted
  <2>1. task' = [task EXCEPT ![c] = Idle] /\ UNCHANGED <<requests, requestLock, faulted, disposed>>
    BY <1>1 DEF WriteHeader, Becomes
  <2>2. Idle.pc = "idle"
    BY DEF Idle
  <2>3. PendingHeader'
    BY <1>0, <1>1, <2>1, <2>2 DEF FramesInv, PendingHeader, LastIsHeader
  <2> QED  BY <2>1, <2>3, FramesUntouched DEF FramesInv
<1>2. CASE ~faulted
  <2> DEFINE e == Part(c, "header", nextRequestId + 1)
             t == [task[c] EXCEPT !.pc = "payload", !.id = nextRequestId + 1]
  <2>1. /\ requests' = Append(requests, e) /\ requestLock' = c /\ requestLock = NoCaller
        /\ task' = [task EXCEPT ![c] = t] /\ task[c].pc = "lock" /\ UNCHANGED <<faulted, disposed>>
    BY <1>2 DEF WriteHeader, Becomes
  <2>2. task[c] \in Tasks
    BY <1>0
  <2>3. t.pc = "payload" /\ t.id = nextRequestId + 1 /\ e.part = "header"
          /\ e.id = nextRequestId + 1
    BY <2>2 DEF Part, Tasks
  <2>4. e \in Parts
    <3>1. nextRequestId + 1 \in Nat
      BY DEF TypesInv, TypeOK
    <3>2. task[c].method \in {"hello", "state"}
      BY <2>1 DEF TypesInv, MethodKnown
    <3> QED  BY <3>1, <3>2 DEF Part, Parts
  <2> HIDE DEF e, t
  <2>5. /\ Len(requests') = Len(requests) + 1 /\ requests'[Len(requests) + 1] = e
        /\ \A i \in 1..Len(requests) : requests'[i] = requests[i]
    BY <2>1, <2>4, AppendFacts DEF TypesInv, TypeOK
  <2>6. ~LastIsHeader
    BY <1>0, <1>2, <2>1 DEF FramesInv, PendingHeader
  <2>7. FramesAligned'
    BY <1>0, <2>5, <2>6 DEF FramesInv, FramesAligned, Aligned, LastIsHeader
  <2>8. \A d \in Callers : d # c => task'[d] = task[d]
          /\ (disposed = 0 => task[d].pc \notin {"payload", "await"})
    BY <1>0, <2>1 DEF FramesInv, PendingHeader
  <2>9. task'[c] = t
    BY <1>0, <2>1
  <2>10. LastIsHeader' /\ requests'[Len(requests')] = e
    BY <1>0, <2>3, <2>5 DEF LastIsHeader
  <2>11. PendingHeader'
    BY <2>1, <2>3, <2>8, <2>9, <2>10 DEF PendingHeader
  <2> QED  BY <2>7, <2>11 DEF FramesInv
<1> QED  BY <1>1, <1>2

(* The payload goes behind the header of the same request. *)
LEMMA WritePayloadFrames ==
  ASSUME TypesInv, FramesInv, NEW c \in Callers, WritePayload(c)
  PROVE  FramesInv'
<1> DEFINE e == Part(c, "payload", task[c].id)
           t == [task[c] EXCEPT !.pc = "await"]
<1>0. Len(requests) \in Nat /\ task \in [Callers -> Tasks]
  BY DEF TypesInv, TypeOK
<1>1. /\ requests' = Append(requests, e) /\ task' = [task EXCEPT ![c] = t]
      /\ task[c].pc = "payload" /\ disposed = 0 /\ UNCHANGED <<requestLock, faulted, disposed>>
  BY DEF WritePayload, Becomes
<1>2. e.part = "payload" /\ e.id = task[c].id /\ t.pc = "await"
  BY <1>0 DEF Part, Tasks
<1>3. e \in Parts
  BY <1>0, <1>1 DEF Part, Parts, Tasks, TypesInv, MethodKnown
<1> HIDE DEF e, t
<1>4. /\ Len(requests') = Len(requests) + 1 /\ requests'[Len(requests) + 1] = e
      /\ \A i \in 1..Len(requests) : requests'[i] = requests[i]
  BY <1>1, <1>3, AppendFacts DEF TypesInv, TypeOK
<1>5. requestLock = c /\ LastIsHeader /\ requests[Len(requests)].id = task[c].id
  BY <1>1 DEF FramesInv, PendingHeader
<1>6. FramesAligned'
  BY <1>0, <1>2, <1>4, <1>5 DEF FramesInv, FramesAligned, Aligned, LastIsHeader
<1>7. ~LastIsHeader'
  BY <1>0, <1>2, <1>4 DEF LastIsHeader
<1>8. \A d \in Callers : d # c => task'[d] = task[d] /\ task[d].pc \notin {"payload", "await"}
  BY <1>0, <1>1, <1>5 DEF FramesInv, PendingHeader
<1>9. PendingHeader'
  BY <1>0, <1>1, <1>2, <1>5, <1>7, <1>8 DEF PendingHeader
<1> QED  BY <1>6, <1>9 DEF FramesInv

(* A caller that gives up after it began to write leaves a fault behind. *)
LEMMA CallerFrames ==
  ASSUME TypesInv, FramesInv, NEW c \in Callers,
         Call(c) \/ ReadResponse(c) \/ RequestFails(c) \/ ApplyResponse(c) \/ Cancel(c)
  PROVE  FramesInv'
<1>0. task \in [Callers -> Tasks] /\ UNCHANGED requests
  BY DEF TypesInv, TypeOK, Call, ReadResponse, RequestFails, ApplyResponse, Cancel, pipes
<1>1. FramesAligned'
  BY <1>0, FramesUntouched DEF FramesInv
<1>2. /\ \A d \in Callers : d # c => task'[d] = task[d]
      /\ task'[c].pc \notin {"payload", "await"}
  <2>1. PICK t : task' = [task EXCEPT ![c] = t] /\ t.pc \notin {"payload", "await"}
    <3>1. Idle.pc = "idle"
      BY DEF Idle
    <3>2. [task[c] EXCEPT !.pc = "apply", !.result = Head(responses).result].pc = "apply"
      BY <1>0 DEF Tasks
    <3>3. \A m : [Idle EXCEPT !.pc = "lock", !.method = m].pc = "lock"
      BY DEF Idle
    <3> DEFINE IsStep(t) == task' = [task EXCEPT ![c] = t] /\ t.pc \notin {"payload", "await"}
    <3>4. CASE Call(c)
      <4>1. PICK m : task' = [task EXCEPT ![c] = [Idle EXCEPT !.pc = "lock", !.method = m]]
        BY <3>4 DEF Call, Becomes
      <4>2. IsStep([Idle EXCEPT !.pc = "lock", !.method = m])
        BY <4>1, <3>3
      <4> QED  BY <4>2
    <3>5. CASE task' = [task EXCEPT ![c] = Idle]
      <4>1. IsStep(Idle)
        BY <3>5, <3>1
      <4> QED  BY <4>1
    <3>6. CASE task' = [task EXCEPT ![c] = [task[c] EXCEPT !.pc = "apply",
          !.result = Head(responses).result]]
      <4>1. IsStep([task[c] EXCEPT !.pc = "apply", !.result = Head(responses).result])
        BY <3>6, <3>2
      <4> QED  BY <4>1
    <3> QED  BY <3>4, <3>5, <3>6 DEF ReadResponse, RequestFails, ApplyResponse, Cancel, Becomes
  <2> QED  BY <1>0, <2>1
<1>3. (faulted => faulted') /\ UNCHANGED disposed /\ LastIsHeader' = LastIsHeader
  <2>1. faulted => faulted'
    BY Zenon DEF Call, ReadResponse, RequestFails, ApplyResponse, Cancel
  <2>2. UNCHANGED disposed
    BY DEF Call, ReadResponse, RequestFails, ApplyResponse, Cancel
  <2>3. LastIsHeader' = LastIsHeader
    BY <1>0 DEF LastIsHeader
  <2> QED  BY <2>1, <2>2, <2>3
<1>4. CASE UNCHANGED requestLock /\ task[c].pc # "payload"
  <2>1. disposed = 0 =>
          \A d \in Callers :
            /\ task'[d].pc \in {"payload", "await"} => requestLock = d
            /\ task'[d].pc = "payload" => LastIsHeader /\ requests[Len(requests)].id = task'[d].id
    BY <1>2 DEF FramesInv, PendingHeader
  <2>2. LastIsHeader => faulted \/ \E d \in Callers : task'[d].pc = "payload" /\ requestLock = d
    BY <1>2, <1>4 DEF FramesInv, PendingHeader
  <2>3. PendingHeader'
    BY <1>0, <1>3, <1>4, <2>1, <2>2 DEF PendingHeader
  <2> QED  BY <1>1, <2>3 DEF FramesInv
<1>5. CASE ReadResponse(c)
  <2>1. disposed = 0 /\ requestLock = c /\ task[c].pc = "await"
    BY <1>5 DEF ReadResponse, FramesInv, PendingHeader
  <2>2. \A d \in Callers : task'[d].pc \notin {"payload", "await"}
    BY <1>2, <2>1 DEF FramesInv, PendingHeader
  <2>3. LastIsHeader => faulted
    BY <2>1 DEF FramesInv, PendingHeader
  <2> QED  BY <1>1, <1>3, <2>2, <2>3 DEF FramesInv, PendingHeader
<1>6. CASE faulted' /\ (disposed = 0 => task[c].pc \in {"payload", "await"})
  <2>1. disposed = 0 => \A d \in Callers : task'[d].pc \notin {"payload", "await"}
    BY <1>2, <1>6 DEF FramesInv, PendingHeader
  <2> QED  BY <1>1, <1>3, <1>6, <2>1 DEF FramesInv, PendingHeader
<1>7. \/ UNCHANGED requestLock /\ task[c].pc # "payload"
      \/ ReadResponse(c)
      \/ faulted' /\ (disposed = 0 => task[c].pc \in {"payload", "await"})
  BY DEF Call, RequestFails, ApplyResponse, Cancel
<1> QED  BY <1>4, <1>5, <1>6, <1>7

(* The service takes a whole frame from the pipe. *)
LEMMA ServeRequestFrames ==
  ASSUME TypesInv, FramesInv, ServeRequest
  PROVE  FramesInv'
<1>0. UNCHANGED <<task, requestLock, faulted, disposed>> /\ Len(requests) >= 2
  BY DEF ServeRequest, Frame, clientVars
<1>1. CASE ~Aligned(requests)
  <2>1. UNCHANGED requests
    BY <1>1 DEF ServeRequest
  <2> QED  BY <1>0, <2>1, FramesUntouched, PendingUntouched DEF FramesInv
<1>2. CASE Aligned(requests)
  <2>1. /\ Len(requests) \in Nat /\ Len(requests') = Len(requests) - 2
        /\ \A i \in 1..Len(requests) - 2 : requests'[i] = requests[i + 2]
    BY <1>0, <1>2, PairFacts DEF ServeRequest, TypesInv, TypeOK
  <2>2. \A i \in 1..Len(requests') : i + 2 \in 1..Len(requests) /\ requests'[i] = requests[i + 2]
    BY <2>1
  <2>3. \A i \in 1..Len(requests') :
          i < Len(requests') => i + 2 < Len(requests) /\ requests'[i + 1] = requests[i + 2 + 1]
    BY <2>1
  <2>4. \A i \in 1..Len(requests') :
          requests[i + 2].part = "header" /\ i < Len(requests') =>
            Aligned(<<requests[i + 2], requests[i + 2 + 1]>>)
    BY <2>2, <2>3 DEF FramesInv, FramesAligned
  <2>5. FramesAligned'
    BY <2>2, <2>3, <2>4 DEF FramesAligned, Aligned
  <2>6. CASE Len(requests) = 2
    <3>1. ~LastIsHeader /\ ~LastIsHeader'
      BY <1>2, <2>1, <2>6 DEF Aligned, LastIsHeader
    <3>2. PendingHeader'
      BY <1>0, <3>1 DEF FramesInv, PendingHeader
    <3> QED  BY <2>5, <3>2 DEF FramesInv
  <2>7. CASE Len(requests) # 2
    <3>1. Len(requests') > 0 /\ requests'[Len(requests')] = requests[Len(requests)]
      BY <1>0, <2>1, <2>7
    <3>2. LastIsHeader' = LastIsHeader
      BY <1>0, <2>1, <3>1 DEF LastIsHeader
    <3>3. PendingHeader'
      BY <1>0, <3>1, <3>2 DEF FramesInv, PendingHeader
    <3> QED  BY <2>5, <3>3 DEF FramesInv
  <2> QED  BY <2>6, <2>7
<1> QED  BY <1>1, <1>2

(* Whoever is cancelled, stops reading, closes or dies, frames stay aligned. *)
LEMMA FramesStep ==
  ASSUME TypesInv, FramesInv, Next
  PROVE  FramesInv'
<1> USE DEF serverVars, eventVars, clientVars, pipes
<1>1. ASSUME NEW c \in Callers, Call(c) \/ SendSteps(c) \/ Cancel(c) PROVE FramesInv'
  BY <1>1, WriteHeaderFrames, WritePayloadFrames, CallerFrames DEF SendSteps
<1>2. ASSUME UNCHANGED <<task, requestLock, requests>>, faulted => faulted',
             disposed' = 0 => disposed = 0
      PROVE  FramesInv'
  BY <1>2, FramesUntouched, PendingUntouched DEF FramesInv
<1>3. CASE BeginRead \/ ReadEvent \/ EventPipeEnds \/ DisposeRequests \/ DisposeEvents
  BY <1>2, <1>3 DEF BeginRead, ReadEvent, EventPipeEnds, DisposeRequests, DisposeEvents
<1>4. CASE ServeRequest
  BY <1>4, ServeRequestFrames
<1>5. CASE ServeAnswer \/ ServeEnds \/ LockServices \/ ForgetConnection \/ ManagerDies
  BY <1>2, <1>5 DEF ServeAnswer, ServeEnds, LockServices, ForgetConnection, ManagerDies
<1>6. CASE TunnelChanges \/ Notify \/ WriteEvent
  BY <1>2, <1>6 DEF TunnelChanges, Notify, WriteEvent
<1>7. ASSUME NEW s \in waiting, NumberEvent(s) PROVE FramesInv'
  BY <1>2, <1>7 DEF NumberEvent
<1> QED  BY <1>1, <1>3, <1>4, <1>5, <1>6, <1>7 DEF Next, Server

-----------------------------------------------------------------------------
(* Every step of the connection keeps the invariant. *)
LEMMA ProtocolStep == ProtocolInv /\ [Next]_vars => ProtocolInv'
<1> SUFFICES ASSUME ProtocolInv, [Next]_vars PROVE ProtocolInv'
  OBVIOUS
<1>1. CASE Next
  <2>1. TypesInv'
    BY <1>1, CallerTypes, LoopTypes, ServerTypes, NotifyTypes DEF ProtocolInv, Next
  <2> QED  BY <1>1, <2>1, FramesStep, EventsStep DEF ProtocolInv
<1>2. CASE UNCHANGED vars
  <2>1. TypesInv'
    BY <1>2 DEF ProtocolInv, TypesInv, TypeOK, MethodKnown, vars, clientVars, serverVars,
        eventVars, pipes
  <2>2. FramesInv'
    BY <1>2, FramesUntouched, PendingUntouched DEF ProtocolInv, FramesInv, vars, clientVars, pipes
  <2>3. EventsNumbered'
    BY <1>2, EventsUntouched DEF ProtocolInv, vars, clientVars, eventVars, pipes
  <2> QED  BY <2>1, <2>2, <2>3 DEF ProtocolInv
<1> QED  BY <1>1, <1>2

(* The invariant says that no event is rejected. *)
LEMMA NumberedIsAccepted == ProtocolInv => SequenceAccepted
<1> SUFFICES ASSUME ProtocolInv PROVE SequenceAccepted
  OBVIOUS
<1>1. Len(events) \in Nat
  BY DEF ProtocolInv, TypesInv, TypeOK
<1>2. \A i \in 1..Len(events) : events[i].sequence \in Nat
  <2>1. \A i \in 1..Len(events) : events[i] \in Events
    BY DEF ProtocolInv, TypesInv, TypeOK
  <2> QED  BY <2>1 DEF Events
<1>3. ASSUME NEW i \in 1..Len(events), i # 1 PROVE events[i].sequence > events[i - 1].sequence
  <2>1. i - 1 \in 1..Len(events) /\ i - 1 < i
    BY <1>1, <1>3
  <2> QED  BY <1>2, <2>1 DEF ProtocolInv, EventsNumbered
<1> QED  BY <1>3 DEF ProtocolInv, EventsNumbered, SequenceAccepted

(* For any number of callers, cancelled and disposed at any moment, with a *)
(* window that may stop reading and a manager that may die: every header   *)
(* in the request pipe is followed by its own payload, and the client      *)
(* never rejects an event of this service (ManagerProtocolClient.cs:74-118,*)
(* protocol_v1.go:664-676).                                                *)
THEOREM ProtocolIsSafe == Spec => []ProtocolSafe
<1>1. ProtocolInv => ProtocolSafe
  BY NumberedIsAccepted DEF ProtocolInv, TypesInv, FramesInv, ProtocolSafe
<1> QED  BY InitInv, ProtocolStep, <1>1, PTL DEF Spec
=============================================================================
