-------------------------- MODULE ManagerProtocol --------------------------
(***************************************************************************)
(* One connection of the manager protocol: ManagerProtocolClient and the   *)
(* window that uses it on one side, managerV1Service (protocol_v1.go) on   *)
(* the other, with the three pipes between them.                           *)
(*                                                                         *)
(* The state of a tunnel is a number that grows with every change, so an   *)
(* older state is a smaller one.  A request frame is written in two parts, *)
(* the header and the payload, each of which may be the last one written.  *)
(***************************************************************************)
EXTENDS Naturals, Sequences

CONSTANTS
  Callers,      \* tasks that send requests
  NoCaller,     \* requestLock is free
  PipeCapacity, \* events that fit into the event pipe
  MaxChanges,   \* bound: changes of the tunnel state
  MaxRequests,  \* bound: request identifiers
  MaxCancels    \* bound: cancellations

ASSUME CallerAssumption == NoCaller \notin Callers
ASSUME PipeAssumption == PipeCapacity \in Nat \ {0}
ASSUME BoundAssumption == {MaxChanges, MaxRequests, MaxCancels} \subseteq Nat

VARIABLES
  task,        \* what each caller is doing
  requestLock, \* the caller that holds it
  nextRequestId,
  hello,       \* "no", "started" or "completed" on the client
  faulted,     \* protocolFaulted
  disposed,    \* how much of DisposeAsync is done: 0, 1 (requests) or 2 (events)
  cancels,
  loop,        \* ReadManagerEventsAsync: "none", "check", "reading" or "ended"
  lastEventSequence,
  view,        \* the tunnel state the window shows
  requests,    \* the request pipe: parts of frames
  responses,   \* the response pipe: frames
  events,      \* the event pipe: frames
  serving,     \* the service: "reads", "answers", "returned", "locked", "gone", or
               \* "dead" with the manager process
  answer,      \* the response it is about to write
  helloDone,   \* helloCompleted of the service
  state,       \* the state of the tunnel
  notifying,   \* the state a tracker has to pass to managerV1Notify, or 0
  waiting,     \* states whose goroutine waits for eventLock
  writing,     \* the event written under eventLock
  eventSequence

clientVars == <<task, requestLock, nextRequestId, hello, faulted, disposed, cancels,
                loop, lastEventSequence, view>>
serverVars == <<serving, answer, helloDone>>
eventVars == <<state, notifying, waiting, writing, eventSequence>>
pipes == <<requests, responses, events>>
vars == <<clientVars, serverVars, eventVars, pipes>>

Idle == [pc |-> "idle", method |-> "none", id |-> 0, result |-> 0]
NoAnswer == [id |-> 0, ok |-> FALSE, result |-> 0]
NoEvent == [sequence |-> 0, state |-> 0]

Tasks == [pc: {"idle", "lock", "payload", "await", "apply"},
          method: {"none", "hello", "state"}, id: Nat, result: Nat]
Parts == [part: {"header", "payload"}, id: Nat, method: {"hello", "state"}]
Answers == [id: Nat, ok: BOOLEAN, result: Nat]
Events == [sequence: Nat, state: Nat]

Init ==
  /\ task = [c \in Callers |-> Idle]
  /\ requestLock = NoCaller
  /\ nextRequestId = 0
  /\ hello = "no"
  /\ faulted = FALSE
  /\ disposed = 0
  /\ cancels = 0
  /\ loop = "none"
  /\ lastEventSequence = 0
  /\ view = 0
  /\ requests = <<>> /\ responses = <<>> /\ events = <<>>
  /\ serving = "reads"
  /\ answer = NoAnswer
  /\ helloDone = FALSE
  /\ state = 1
  /\ notifying = 0
  /\ waiting = {}
  /\ writing = NoEvent
  /\ eventSequence = 0

-----------------------------------------------------------------------------
(***************************************************************************)
(* The client: HelloAsync and RequestAsync up to the lock, then            *)
(* SendRequestAsync.  RequestAsync stands for the methods that return a    *)
(* tunnel state (list, state, start, stop).                                *)
(***************************************************************************)
Becomes(c, t) == task' = [task EXCEPT ![c] = t]

Call(c) ==
  LET method == IF hello = "no" THEN "hello" ELSE "state" IN
  /\ task[c].pc = "idle" /\ disposed = 0 /\ ~faulted
  /\ hello # "started" /\ nextRequestId < MaxRequests
  /\ hello' = IF hello = "no" THEN "started" ELSE hello
  /\ Becomes(c, [Idle EXCEPT !.pc = "lock", !.method = method])
  /\ UNCHANGED <<requestLock, nextRequestId, faulted, disposed, cancels, loop,
                 lastEventSequence, view, serverVars, eventVars, pipes>>

(* Release fails once requestLock is disposed, and its waiters are forgotten. *)
Released == IF disposed > 0 THEN requestLock ELSE NoCaller

Part(c, part, id) == [part |-> part, id |-> id, method |-> task[c].method]

(* With the lock: look at the fault again, take the next id, write the header. *)
WriteHeader(c) ==
  /\ task[c].pc = "lock" /\ requestLock = NoCaller
  /\ IF faulted
     THEN Becomes(c, Idle) /\ UNCHANGED <<requestLock, nextRequestId, requests>>
     ELSE /\ requestLock' = c
          /\ nextRequestId' = nextRequestId + 1
          /\ requests' = Append(requests, Part(c, "header", nextRequestId + 1))
          /\ Becomes(c, [task[c] EXCEPT !.pc = "payload", !.id = nextRequestId + 1])
  /\ UNCHANGED <<hello, faulted, disposed, cancels, loop, lastEventSequence, view,
                 responses, events, serverVars, eventVars>>

WritePayload(c) ==
  /\ task[c].pc = "payload" /\ disposed = 0 /\ serving # "dead"
  /\ requests' = Append(requests, Part(c, "payload", task[c].id))
  /\ Becomes(c, [task[c] EXCEPT !.pc = "await"])
  /\ UNCHANGED <<requestLock, nextRequestId, hello, faulted, disposed, cancels, loop,
                 lastEventSequence, view, responses, events, serverVars, eventVars>>

(* The response: another identifier is a fault, a remote error is not. *)
ReadResponse(c) ==
  LET r == Head(responses) IN
  /\ task[c].pc = "await" /\ disposed = 0 /\ responses # <<>>
  /\ responses' = Tail(responses)
  /\ requestLock' = NoCaller
  /\ faulted' = (faulted \/ r.id # task[c].id)
  /\ hello' = IF r.id = task[c].id /\ r.ok /\ task[c].method = "hello"
              THEN "completed" ELSE hello
  /\ Becomes(c, IF r.id = task[c].id /\ r.ok /\ task[c].method = "state"
                THEN [task[c] EXCEPT !.pc = "apply", !.result = r.result] ELSE Idle)
  /\ UNCHANGED <<nextRequestId, disposed, cancels, loop, lastEventSequence, view,
                 requests, events, serverVars, eventVars>>

(* Mutant: no cancellation is a fault. *)
CancelIsHarmless(c) ==
  /\ task[c].pc \in {"lock", "payload", "await"} /\ cancels < MaxCancels
  /\ task[c].pc = "lock" => disposed = 0
  /\ cancels' = cancels + 1
  /\ requestLock' = IF task[c].pc # "lock" THEN Released ELSE requestLock
  /\ Becomes(c, Idle)
  /\ UNCHANGED <<nextRequestId, hello, faulted, disposed, loop, lastEventSequence, view,
                 serverVars, eventVars, pipes>>

(* A cancellation before the lock is harmless, a later one is a fault. *)
Cancel(c) ==
  /\ task[c].pc \in {"lock", "payload", "await"} /\ cancels < MaxCancels
  /\ task[c].pc = "lock" => disposed = 0
  /\ cancels' = cancels + 1
  /\ faulted' = (faulted \/ task[c].pc # "lock")
  /\ requestLock' = IF task[c].pc # "lock" THEN Released ELSE requestLock
  /\ Becomes(c, Idle)
  /\ UNCHANGED <<nextRequestId, hello, disposed, loop, lastEventSequence, view,
                 serverVars, eventVars, pipes>>

(* The pipe is closed at the other end, or by DisposeAsync. *)
RequestFails(c) ==
  /\ \/ task[c].pc \in {"payload", "await"} /\ disposed > 0
     \/ task[c].pc = "await" /\ serving = "dead" /\ responses = <<>>
     \/ task[c].pc = "payload" /\ serving = "dead"
  /\ faulted' = TRUE
  /\ requestLock' = Released
  /\ Becomes(c, Idle)
  /\ UNCHANGED <<nextRequestId, hello, disposed, cancels, loop, lastEventSequence, view,
                 serverVars, eventVars, pipes>>

(***************************************************************************)
(* The continuation of a request on the window: UpdateManagerProfileState. *)
(* After the first list InitializeManagerAsync starts the event loop.      *)
(***************************************************************************)
ApplyResponse(c) ==
  /\ task[c].pc = "apply"
  /\ view' = task[c].result
  /\ loop' = IF loop = "none" THEN "check" ELSE loop
  /\ Becomes(c, Idle)
  /\ UNCHANGED <<requestLock, nextRequestId, hello, faulted, disposed, cancels,
                 lastEventSequence, serverVars, eventVars, pipes>>

-----------------------------------------------------------------------------
(* ReadManagerEventsAsync and ReadEventAsync. *)
BeginRead ==
  /\ loop = "check"
  /\ loop' = IF faulted \/ disposed > 0 THEN "ended" ELSE "reading"
  /\ UNCHANGED <<task, requestLock, nextRequestId, hello, faulted, disposed, cancels,
                 lastEventSequence, view, serverVars, eventVars, pipes>>

ReadEvent ==
  LET e == Head(events) IN
  /\ loop = "reading" /\ disposed < 2 /\ events # <<>>
  /\ events' = Tail(events)
  /\ IF e.sequence <= lastEventSequence
     THEN faulted' = TRUE /\ loop' = "ended" /\ UNCHANGED <<lastEventSequence, view>>
     ELSE /\ lastEventSequence' = e.sequence
          /\ view' = e.state
          /\ loop' = "check"
          /\ UNCHANGED faulted
  /\ UNCHANGED <<task, requestLock, nextRequestId, hello, disposed, cancels, requests,
                 responses, serverVars, eventVars>>

(* The end of the event pipe. *)
EventPipeEnds ==
  /\ loop = "reading" /\ events = <<>> /\ serving = "dead"
  /\ faulted' = TRUE
  /\ loop' = "ended"
  /\ UNCHANGED <<task, requestLock, nextRequestId, hello, disposed, cancels,
                 lastEventSequence, view, serverVars, eventVars, pipes>>

(* MainWindow_Closed: DisposeAsync closes the pipes one after the other. *)
DisposeRequests ==
  /\ disposed = 0
  /\ disposed' = 1
  /\ UNCHANGED <<task, requestLock, nextRequestId, hello, faulted, cancels, loop,
                 lastEventSequence, view, serverVars, eventVars, pipes>>

(* Mutant: the event pipe stays open. *)
LeaveEventsOpen == disposed = 1 /\ FALSE /\ UNCHANGED vars

DisposeEvents ==
  /\ disposed = 1
  /\ disposed' = 2
  /\ loop' = "ended"
  /\ UNCHANGED <<task, requestLock, nextRequestId, hello, faulted, cancels,
                 lastEventSequence, view, serverVars, eventVars, pipes>>

-----------------------------------------------------------------------------
(***************************************************************************)
(* serve: read a frame, answer it.  A header that is not followed by its   *)
(* own payload makes the rest of the pipe unreadable, and serve returns.   *)
(***************************************************************************)
Frame == Len(requests) >= 2

Aligned(r) == r[1].part = "header" /\ r[2].part = "payload" /\ r[1].id = r[2].id

Dispatch(r) ==
  [id |-> r.id,
   ok |-> IF r.method = "hello" THEN ~helloDone ELSE helloDone,
   result |-> IF r.method = "state" /\ helloDone THEN state ELSE 0]

ServeRequest ==
  /\ serving = "reads" /\ Frame /\ disposed = 0
  /\ IF Aligned(requests)
     THEN /\ requests' = Tail(Tail(requests))
          /\ answer' = Dispatch(requests[1])
          /\ helloDone' = (helloDone \/ requests[1].method = "hello")
          /\ serving' = "answers"
     ELSE serving' = "returned" /\ UNCHANGED <<requests, answer, helloDone>>
  /\ UNCHANGED <<clientVars, eventVars, responses, events>>

ServeAnswer ==
  /\ serving = "answers"
  /\ serving' = IF disposed > 0 THEN "returned" ELSE "reads"
  /\ responses' = IF disposed > 0 THEN responses ELSE Append(responses, answer)
  /\ answer' = NoAnswer
  /\ UNCHANGED <<clientVars, eventVars, helloDone, requests, events>>

(* The client closed its end. *)
ServeEnds ==
  /\ serving = "reads" /\ disposed > 0
  /\ serving' = "returned"
  /\ UNCHANGED <<clientVars, eventVars, answer, helloDone, pipes>>

(***************************************************************************)
(* The deferred function of managerV1ServerListen takes managerV1Services- *)
(* Lock, then eventLock; only then is the connection forgotten.            *)
(***************************************************************************)
LockServices ==
  /\ serving = "returned"
  /\ serving' = "locked"
  /\ UNCHANGED <<clientVars, eventVars, answer, helloDone, pipes>>

ForgetConnection ==
  /\ serving = "locked" /\ writing = NoEvent
  /\ serving' = "gone"
  /\ UNCHANGED <<clientVars, eventVars, answer, helloDone, pipes>>

(* The manager process ends with its goroutines. *)
ManagerDies ==
  /\ serving \in {"reads", "answers"}
  /\ serving' = "dead"
  /\ answer' = NoAnswer
  /\ notifying' = 0 /\ waiting' = {} /\ writing' = NoEvent
  /\ UNCHANGED <<state, eventSequence, helloDone, clientVars, pipes>>

-----------------------------------------------------------------------------
(* A tracker sees a new state and calls managerV1NotifyTunnelChanged. *)
TunnelChanges ==
  /\ notifying = 0 /\ state <= MaxChanges /\ serving # "dead"
  /\ state' = state + 1
  /\ notifying' = state + 1
  /\ UNCHANGED <<waiting, writing, eventSequence, clientVars, serverVars, pipes>>

(* managerV1Notify: one goroutine for the connection, if it is registered. *)
Notify ==
  /\ notifying # 0 /\ serving # "locked"
  /\ waiting' = IF serving = "gone" THEN waiting ELSE waiting \cup {notifying}
  /\ notifying' = 0
  /\ UNCHANGED <<state, writing, eventSequence, clientVars, serverVars, pipes>>

(* A goroutine with eventLock numbers its event; events is nil at the end. *)
NumberEvent(s) ==
  /\ s \in waiting /\ writing = NoEvent
  /\ waiting' = waiting \ {s}
  /\ IF serving = "gone" THEN UNCHANGED <<writing, eventSequence>>
     ELSE /\ eventSequence' = eventSequence + 1
          /\ writing' = [sequence |-> eventSequence + 1, state |-> s]
  /\ UNCHANGED <<state, notifying, clientVars, serverVars, pipes>>

(* The write waits for room in the pipe and fails when the reader is gone. *)
WriteEvent ==
  /\ writing # NoEvent
  /\ \/ disposed = 2 /\ UNCHANGED events
     \/ disposed < 2 /\ Len(events) < PipeCapacity /\ events' = Append(events, writing)
  /\ writing' = NoEvent
  /\ UNCHANGED <<state, notifying, waiting, eventSequence, clientVars, serverVars,
                 requests, responses>>

-----------------------------------------------------------------------------
SendSteps(c) == WriteHeader(c) \/ WritePayload(c) \/ ReadResponse(c) \/ RequestFails(c)
                \/ ApplyResponse(c)

Server == ServeRequest \/ ServeAnswer \/ ServeEnds \/ LockServices \/ ForgetConnection

Next ==
  \/ \E c \in Callers : Call(c) \/ SendSteps(c) \/ Cancel(c)
  \/ BeginRead \/ ReadEvent \/ EventPipeEnds \/ DisposeRequests \/ DisposeEvents
  \/ Server \/ ManagerDies
  \/ TunnelChanges \/ Notify \/ WriteEvent
  \/ \E s \in waiting : NumberEvent(s)

(***************************************************************************)
(* Tasks and goroutines run; DisposeAsync goes on once it has begun.  No   *)
(* event has to be read: a window that has stopped reading may stay open.  *)
(***************************************************************************)
Fairness ==
  /\ \A c \in Callers : SF_vars(SendSteps(c))
  /\ WF_vars(Server) /\ WF_vars(Notify) /\ WF_vars(WriteEvent)
  /\ \A s \in 1..(MaxChanges + 1) : WF_vars(NumberEvent(s))
  /\ WF_vars(DisposeEvents)

Spec == Init /\ [][Next]_vars
FairSpec == Spec /\ Fairness

-----------------------------------------------------------------------------
TypeOK ==
  /\ task \in [Callers -> Tasks]
  /\ requestLock \in Callers \cup {NoCaller}
  /\ nextRequestId \in Nat
  /\ hello \in {"no", "started", "completed"}
  /\ faulted \in BOOLEAN
  /\ disposed \in 0..2
  /\ cancels \in Nat
  /\ loop \in {"none", "check", "reading", "ended"}
  /\ lastEventSequence \in Nat
  /\ view \in Nat
  /\ requests \in Seq(Parts)
  /\ responses \in Seq(Answers)
  /\ events \in Seq(Events)
  /\ serving \in {"reads", "answers", "returned", "locked", "gone", "dead"}
  /\ answer \in Answers
  /\ helloDone \in BOOLEAN
  /\ state \in Nat
  /\ notifying \in Nat
  /\ waiting \subseteq Nat
  /\ writing \in Events
  /\ eventSequence \in Nat

(***************************************************************************)
(* The service never reads a header as part of another request, although a *)
(* cancellation can stop a request between its two writes: the fault it    *)
(* leaves behind is seen by every request that was waiting for the lock    *)
(* (ManagerProtocolClient.cs:74-118).                                      *)
(***************************************************************************)
FramesAligned ==
  \A i \in 1..Len(requests) :
    requests[i].part = "header" /\ i < Len(requests) =>
      Aligned(<<requests[i], requests[i + 1]>>)

(***************************************************************************)
(* The client never rejects an event of this service: events are numbered  *)
(* and written under one lock (protocol_v1.go:664-676), so the numbers     *)
(* grow along the pipe whatever order the goroutines run in.               *)
(***************************************************************************)
SequenceAccepted ==
  /\ \A i \in 1..Len(events) :
       events[i].sequence > (IF i = 1 THEN lastEventSequence ELSE events[i - 1].sequence)
  /\ writing # NoEvent => \A i \in 1..Len(events) : writing.sequence > events[i].sequence

(***************************************************************************)
(* A tracker that reports a state is not held up for ever by this          *)
(* connection: the deferred function holds the lock of all connections     *)
(* while it waits for an event write, and that write ends when the window  *)
(* has closed the event pipe (protocol_v1.go:193-200, 659).                *)
(***************************************************************************)
NotifyReturns == []<>(notifying = 0)

(***************************************************************************)
(* Every request that was sent returns, with its answer or with an error,  *)
(* whatever happens to the manager or the window, and one that waits for   *)
(* requestLock gets it unless DisposeAsync disposes the lock under it      *)
(* (ManagerProtocolClient.cs:85-117, 154).                                 *)
(***************************************************************************)
RequestReturns ==
  \A c \in Callers :
    /\ []<>(task[c].pc \notin {"payload", "await", "apply"})
    /\ []<>(task[c].pc # "lock" \/ disposed > 0)

(* Frames stay aligned and sequence numbers grow, whoever is cancelled,    *)
(* stops reading, closes or dies.                                          *)
ProtocolSafe == TypeOK /\ FramesAligned /\ SequenceAccepted

(* Trackers that notify and callers that ask both return.                  *)
CallsReturn == NotifyReturns /\ RequestReturns
=============================================================================
