----------------------------- MODULE EventLoop -----------------------------
(***************************************************************************)
(* The threads of the distributor: the event loop (EventQueue), and for    *)
(* every interactor a read task, which turns what it reads into events,    *)
(* and a write task, which writes what SendMessage queues (Interactor).    *)
(* Both leave when the interactor's token is cancelled, and cancel it when *)
(* they leave.  The handler of an error disposes of the interactor on the  *)
(* event loop, which waits there for both tasks.  Stopping the server      *)
(* cancels the token of the loop and, linked to it, those of all           *)
(* interactors: from then on no event can be queued, nor taken.            *)
(*                                                                         *)
(* A task is "created", "queued" for a thread of the pool, somewhere in    *)
(* its code, and "ended", or "canceled" if its token was cancelled before  *)
(* it started, or "faulted" by an exception: waiting for a canceled or a   *)
(* faulted task throws.                                                    *)
(*                                                                         *)
(* A peer is the client at the other end of the stream.  What it sends is  *)
(* counted, not interpreted.                                               *)
(***************************************************************************)
EXTENDS Integers, Sequences, FiniteSets

CONSTANTS
    Interactors,
    Prompt,           \* those whose tasks get a thread of the pool as soon as they are started
    MayCutMessage,    \* a peer may go in the middle of a message
    SendBound,        \* bounds the messages each peer sends
    WriteQueueBound   \* bounds the write queue

ASSUME ConstantsAssumption ==
    /\ Prompt \subseteq Interactors
    /\ MayCutMessage \in BOOLEAN
    /\ SendBound \in [Interactors -> Nat]
    /\ WriteQueueBound \in Nat

VARIABLES
    peer,        \* "absent", "open", "gone", or "cut": gone in the middle of a field
    sent,        \* how many messages the peer has sent
    unread,      \* how many of them the read task has still to read
    readTask,
    writeTask,
    cancelled,   \* _tokenSource is cancelled
    streamOpen,  \* _stream is not closed, nor _tokenSource disposed
    writeQueue,  \* the length of _writeQueue
    events,      \* _interactorEventQueue
    stopped,     \* the server was stopped: the event queue's token is cancelled
    loop,        \* "running", "stopped", or "faulted" once a handler has thrown
    disposing,   \* the error, the interactor and the place in Dispose, or <<>>
    phase,       \* "new", "live" or "closed", for the repository
    reading, writing, last  \* the events whose handlers have ended, as in Sessions

clients == <<peer, sent>>
queues == <<unread, writeQueue>>
tasks == <<readTask, writeTask, cancelled>>
handled == <<phase, reading, writing, last>>
vars == <<clients, queues, tasks, streamOpen, events, stopped, loop, disposing, handled>>

TaskStates == {"created", "queued", "test", "leaving", "ended", "canceled", "faulted"}
Over == {"ended", "canceled", "faulted"}

TypeOK ==
    /\ peer \in [Interactors -> {"absent", "open", "gone", "cut"}]
    /\ sent \in [Interactors -> Nat]
    /\ unread \in [Interactors -> Nat]
    /\ \A c \in Interactors : unread[c] <= sent[c] /\ sent[c] <= SendBound[c]
    /\ readTask \in [Interactors -> TaskStates \cup {"reading"}]
    /\ writeTask \in [Interactors -> TaskStates \cup {"taking", "writing"}]
    /\ cancelled \in [Interactors -> BOOLEAN]
    /\ streamOpen \in [Interactors -> BOOLEAN]
    /\ writeQueue \in [Interactors -> 0..WriteQueueBound]
    /\ events \in Seq({"connected", "message", "readError", "writeError"} \X Interactors)
    /\ stopped \in BOOLEAN
    /\ loop \in {"running", "stopped", "faulted"}
    /\ disposing \in {<<>>} \cup
            ({"readError", "writeError"} \X Interactors
                \X {"testRead", "waitRead", "testWrite", "waitWrite", "close"})
    /\ phase \in [Interactors -> {"new", "live", "closed"}]
    /\ reading \in [Interactors -> BOOLEAN]
    /\ writing \in [Interactors -> BOOLEAN]

Init ==
    /\ peer = [c \in Interactors |-> "absent"]
    /\ sent = [c \in Interactors |-> 0]
    /\ unread = [c \in Interactors |-> 0]
    /\ readTask = [c \in Interactors |-> "created"]
    /\ writeTask = [c \in Interactors |-> "created"]
    /\ cancelled = [c \in Interactors |-> FALSE]
    /\ streamOpen = [c \in Interactors |-> TRUE]
    /\ writeQueue = [c \in Interactors |-> 0]
    /\ events = <<>>
    /\ stopped = FALSE
    /\ loop = "running"
    /\ disposing = <<>>
    /\ phase = [c \in Interactors |-> "new"]
    /\ reading = [c \in Interactors |-> TRUE]
    /\ writing = [c \in Interactors |-> TRUE]
    /\ last = <<>>

\* EventQueue.Enqueue; once the server is stopped it throws instead.
Enqueue(kind, c) == ~stopped /\ events' = Append(events, <<kind, c>>)
EnqueueThrows == stopped /\ UNCHANGED events

-----------------------------------------------------------------------------
(* The peer.                                                               *)

\* A connection is accepted, authenticated and handed to the event loop.  One
\* that is accepted when the server has been stopped is not served.
Accept(c) ==
    /\ peer[c] = "absent"
    /\ peer' = [peer EXCEPT ![c] = "open"]
    /\ Enqueue("connected", c)
    /\ UNCHANGED <<sent, queues, tasks, streamOpen, stopped, loop, disposing, handled>>

Send(c) ==
    /\ peer[c] = "open" /\ sent[c] < SendBound[c]
    /\ sent' = [sent EXCEPT ![c] = @ + 1]
    /\ unread' = [unread EXCEPT ![c] = @ + 1]
    /\ UNCHANGED <<peer, writeQueue, tasks, streamOpen, events, stopped, loop, disposing, handled>>

\* A peer that goes just before a boolean that is the last field of its message
\* counts as one that has sent it and goes then: ReadBoolean takes the end for TRUE.
Leave(c) ==
    /\ peer[c] = "open"
    /\ \E how \in {"gone"} \cup (IF MayCutMessage THEN {"cut"} ELSE {}) :
            peer' = [peer EXCEPT ![c] = how]
    /\ UNCHANGED <<sent, queues, tasks, streamOpen, events, stopped, loop, disposing, handled>>

-----------------------------------------------------------------------------
(* The tasks.                                                              *)

StartRead(c) ==
    /\ readTask[c] = "queued"
    /\ readTask' = [readTask EXCEPT ![c] = IF cancelled[c] THEN "canceled" ELSE "test"]
    /\ UNCHANGED <<clients, queues, writeTask, cancelled, streamOpen, events, stopped, loop,
                   disposing, handled>>

StartWrite(c) ==
    /\ writeTask[c] = "queued"
    /\ writeTask' = [writeTask EXCEPT ![c] = IF cancelled[c] THEN "canceled" ELSE "test"]
    /\ UNCHANGED <<clients, queues, readTask, cancelled, streamOpen, events, stopped, loop,
                   disposing, handled>>

TestRead(c) ==
    /\ readTask[c] = "test"
    /\ readTask' = [readTask EXCEPT ![c] = IF cancelled[c] THEN "leaving" ELSE "reading"]
    /\ UNCHANGED <<clients, queues, writeTask, cancelled, streamOpen, events, stopped, loop,
                   disposing, handled>>

ReadMessage(c) ==
    /\ readTask[c] = "reading" /\ unread[c] > 0
    /\ unread' = [unread EXCEPT ![c] = @ - 1]
    /\ \/ Enqueue("message", c) /\ readTask' = [readTask EXCEPT ![c] = "test"]
       \/ EnqueueThrows /\ readTask' = [readTask EXCEPT ![c] = "leaving"]
    /\ UNCHANGED <<clients, writeQueue, writeTask, cancelled, streamOpen, stopped, loop,
                   disposing, handled>>

\* The error of a read task that goes on is not its last event.
ReadFails_GoesOn(c) ==
    /\ readTask[c] = "reading"
    /\ peer[c] = "gone"
    /\ Enqueue("readError", c)
    /\ readTask' = [readTask EXCEPT ![c] = "test"]
    /\ UNCHANGED <<clients, queues, writeTask, cancelled, streamOpen, stopped, loop,
                   disposing, handled>>

\* Message.Read throws: the connection was reset, or ReadByte is at the end of
\* the stream.  A peer that is cut has left part of a field: for ReadFully
\* the end of the stream is a Read of 0 bytes, and it reads again for ever.
\* The event is queued in the catch block: what is thrown there ends the task.
ReadFails(c) ==
    /\ readTask[c] = "reading"
    /\ peer[c] = "gone"
    /\ \/ Enqueue("readError", c) /\ readTask' = [readTask EXCEPT ![c] = "leaving"]
       \/ EnqueueThrows /\ readTask' = [readTask EXCEPT ![c] = "faulted"]
    /\ UNCHANGED <<clients, queues, writeTask, cancelled, streamOpen, stopped, loop,
                   disposing, handled>>

LeaveRead(c) ==
    /\ readTask[c] = "leaving"
    /\ readTask' = [readTask EXCEPT ![c] = "ended"]
    /\ cancelled' = [cancelled EXCEPT ![c] = TRUE]
    /\ UNCHANGED <<clients, queues, writeTask, streamOpen, events, stopped, loop, disposing, handled>>

TestWrite(c) ==
    /\ writeTask[c] = "test"
    /\ writeTask' = [writeTask EXCEPT ![c] = IF cancelled[c] THEN "leaving" ELSE "taking"]
    /\ UNCHANGED <<clients, queues, readTask, cancelled, streamOpen, events, stopped, loop,
                   disposing, handled>>

\* A write task that waits for a message whether or not the token is cancelled.
Take_Deaf(c) ==
    /\ writeTask[c] = "taking" /\ writeQueue[c] > 0
    /\ writeTask' = [writeTask EXCEPT ![c] = "writing"]
    /\ writeQueue' = [writeQueue EXCEPT ![c] = @ - 1]
    /\ UNCHANGED <<clients, unread, readTask, cancelled, streamOpen, events, stopped, loop,
                   disposing, handled>>

\* The length of the queue goes down whether or not Take throws.
Take_Counted(c) ==
    /\ writeTask[c] = "taking"
    /\ writeQueue' = [writeQueue EXCEPT ![c] = @ - 1]
    /\ \/ /\ cancelled[c]
          /\ writeTask' = [writeTask EXCEPT ![c] = "leaving"]
       \/ /\ ~cancelled[c] /\ writeQueue[c] > 0
          /\ writeTask' = [writeTask EXCEPT ![c] = "writing"]
    /\ UNCHANGED <<clients, unread, readTask, cancelled, streamOpen, events, stopped, loop,
                   disposing, handled>>

\* Take throws if the token is cancelled, before or while it waits.
Take(c) ==
    /\ writeTask[c] = "taking"
    /\ \/ /\ cancelled[c]
          /\ writeTask' = [writeTask EXCEPT ![c] = "leaving"]
          /\ UNCHANGED writeQueue
       \/ /\ ~cancelled[c] /\ writeQueue[c] > 0
          /\ writeTask' = [writeTask EXCEPT ![c] = "writing"]
          /\ writeQueue' = [writeQueue EXCEPT ![c] = @ - 1]
    /\ UNCHANGED <<clients, unread, readTask, cancelled, streamOpen, events, stopped, loop,
                   disposing, handled>>

\* A write to a peer that has gone may still succeed.
Write(c) ==
    /\ writeTask[c] = "writing"
    /\ \/ /\ writeTask' = [writeTask EXCEPT ![c] = "test"]
          /\ UNCHANGED events
       \/ /\ peer[c] # "open"
          /\ \/ Enqueue("writeError", c) /\ writeTask' = [writeTask EXCEPT ![c] = "leaving"]
             \/ EnqueueThrows /\ writeTask' = [writeTask EXCEPT ![c] = "faulted"]
    /\ UNCHANGED <<clients, queues, readTask, cancelled, streamOpen, stopped, loop, disposing, handled>>

LeaveWrite(c) ==
    /\ writeTask[c] = "leaving"
    /\ writeTask' = [writeTask EXCEPT ![c] = "ended"]
    /\ cancelled' = [cancelled EXCEPT ![c] = TRUE]
    /\ UNCHANGED <<clients, queues, readTask, streamOpen, events, stopped, loop, disposing, handled>>

-----------------------------------------------------------------------------
(* The event loop.                                                         *)

\* ProcessQueue takes an event off the queue for its handler ...
Dequeue(kind, c) ==
    /\ loop = "running" /\ disposing = <<>> /\ ~stopped
    /\ events # <<>> /\ Head(events) = <<kind, c>>
    /\ events' = Tail(events)

\* A loop that waits for an event whether or not the server is stopped.
LoopStops_Deaf ==
    /\ loop = "running" /\ disposing = <<>> /\ stopped /\ events # <<>>
    /\ loop' = "stopped"
    /\ UNCHANGED <<clients, queues, tasks, streamOpen, events, stopped, disposing, handled>>

\* ... until the server is stopped.
LoopStops ==
    /\ loop = "running" /\ disposing = <<>> /\ stopped
    /\ loop' = "stopped"
    /\ UNCHANGED <<clients, queues, tasks, streamOpen, events, stopped, disposing, handled>>

\* Server.Dispose, on a thread of its own: the heartbeat's interactor has tasks
\* that were never started, so there is nothing to wait for.
Stop ==
    /\ ~stopped
    /\ stopped' = TRUE
    /\ cancelled' = [c \in Interactors |-> TRUE]
    /\ UNCHANGED <<clients, queues, readTask, writeTask, streamOpen, events, loop, disposing, handled>>

\* OnInteractorConnected: AddInteractor, and Start for both tasks.
OnConnected(c) ==
    LET started == IF c \in Prompt THEN "test" ELSE "queued"
    IN  /\ Dequeue("connected", c)
        /\ phase' = [phase EXCEPT ![c] = "live"]
        /\ last' = <<>>
        /\ readTask' = [readTask EXCEPT ![c] = started]
        /\ writeTask' = [writeTask EXCEPT ![c] = started]
        /\ UNCHANGED <<clients, queues, cancelled, streamOpen, stopped, loop, disposing,
                       reading, writing>>

\* OnMessage: handlers send to any interactors.  SendMessage drops what is for
\* one whose token is cancelled, and throws, to a catch, once it is disposed.
OnMessage(c) ==
    /\ Dequeue("message", c)
    /\ \E receivers \in SUBSET {d \in Interactors : phase[d] = "live" /\ ~cancelled[d]} :
        /\ \A d \in receivers : writeQueue[d] < WriteQueueBound
        /\ writeQueue' = [d \in Interactors |->
                IF d \in receivers THEN writeQueue[d] + 1 ELSE writeQueue[d]]
    /\ last' = <<c>>
    /\ UNCHANGED <<clients, unread, tasks, streamOpen, stopped, loop, disposing, phase,
                   reading, writing>>

\* OnInteractorError, up to the first test of Dispose.
OnError(c) ==
    /\ \E kind \in {"readError", "writeError"} :
        /\ Dequeue(kind, c)
        /\ disposing' = <<kind, c, "testRead">>
    /\ cancelled' = [cancelled EXCEPT ![c] = TRUE]
    /\ UNCHANGED <<clients, queues, readTask, writeTask, streamOpen, stopped, loop, handled>>

\* Dispose goes from one place to another; Wait throws for a canceled or faulted
\* task, out of the handler and out of the loop.
Goto(kind, c, from, to) ==
    /\ disposing = <<kind, c, from>>
    /\ disposing' = <<kind, c, to>>
    /\ UNCHANGED loop
WaitFor(task, kind, c, from, to) ==
    \/ task[c] = "ended" /\ Goto(kind, c, from, to)
    \/ /\ task[c] \in {"canceled", "faulted"}
       /\ disposing = <<kind, c, from>>
       /\ loop' = "faulted"
       /\ UNCHANGED disposing

\* Dispose waits for the read task alone.
DisposeWaits_Read(kind, c) ==
    /\ loop = "running"
    /\ \/ readTask[c] = "canceled" /\ Goto(kind, c, "testRead", "close")
       \/ readTask[c] # "canceled" /\ Goto(kind, c, "testRead", "waitRead")
       \/ WaitFor(readTask, kind, c, "waitRead", "close")
    /\ UNCHANGED <<clients, queues, tasks, streamOpen, events, stopped, handled>>

\* Dispose: each task, unless it is canceled, is waited for.
DisposeWaits(kind, c) ==
    /\ loop = "running"
    /\ \/ readTask[c] = "canceled" /\ Goto(kind, c, "testRead", "testWrite")
       \/ readTask[c] # "canceled" /\ Goto(kind, c, "testRead", "waitRead")
       \/ WaitFor(readTask, kind, c, "waitRead", "testWrite")
       \/ writeTask[c] = "canceled" /\ Goto(kind, c, "testWrite", "close")
       \/ writeTask[c] # "canceled" /\ Goto(kind, c, "testWrite", "waitWrite")
       \/ WaitFor(writeTask, kind, c, "waitWrite", "close")
    /\ UNCHANGED <<clients, queues, tasks, streamOpen, events, stopped, handled>>

\* ... and then the stream is closed and the token source disposed of, and the
\* managers' handlers of the closed interactor run to their end.
DisposeCloses(kind, c) ==
    /\ loop = "running"
    /\ disposing = <<kind, c, "close">>
    /\ streamOpen' = [streamOpen EXCEPT ![c] = FALSE]
    /\ disposing' = <<>>
    /\ phase' = [phase EXCEPT ![c] = "closed"]
    /\ reading' = [reading EXCEPT ![c] = @ /\ kind # "readError"]
    /\ writing' = [writing EXCEPT ![c] = @ /\ kind # "writeError"]
    /\ last' = <<>>
    /\ UNCHANGED <<clients, queues, tasks, events, stopped, loop>>

-----------------------------------------------------------------------------
ReadTask(c) == StartRead(c) \/ TestRead(c) \/ ReadMessage(c) \/ ReadFails(c) \/ LeaveRead(c)
WriteTask(c) == StartWrite(c) \/ TestWrite(c) \/ Take(c) \/ Write(c) \/ LeaveWrite(c)
Handler(c) ==
    \/ OnConnected(c)
    \/ OnMessage(c)
    \/ OnError(c)
    \/ \E kind \in {"readError", "writeError"} :
        \/ DisposeWaits(kind, c)
        \/ DisposeCloses(kind, c)

Loop == LoopStops \/ \E c \in Interactors : Handler(c)

Next ==
    \/ \E c \in Interactors :
        Accept(c) \/ Send(c) \/ Leave(c) \/ ReadTask(c) \/ WriteTask(c)
    \/ Loop
    \/ Stop

\* The threads run; nothing makes a peer do anything, or the server stop.
Fairness ==
    /\ \A c \in Interactors : WF_vars(ReadTask(c)) /\ WF_vars(WriteTask(c))
    /\ WF_vars(Loop)

Spec == Init /\ [][Next]_vars /\ Fairness

-----------------------------------------------------------------------------
(* Properties.                                                             *)

Contract == INSTANCE Sessions

\* The events come to the handlers as Sessions promises: whatever the order in
\* which the two tasks of an interactor and the event loop run, the read task's
\* error is the last of its events and each task has at most one.
EventsAreOrderly == Contract!Spec

\* Dispose: no task of an interactor is left to use its stream or its token
\* source once they are disposed of.
ClosedIsOver ==
    \A c \in Interactors : ~streamOpen[c] => readTask[c] \in Over /\ writeTask[c] \in Over

\* A client that goes between two messages is closed, as long as the loop runs:
\* Dispose never waits for ever, for the client's tasks or for another's.
GoneIsClosed ==
    \A c \in Interactors : peer[c] = "gone" ~> phase[c] = "closed" \/ loop # "running"

\* Server.Dispose: once the server is stopped the event loop ends, though the
\* handler it is in may be waiting for the tasks of an interactor, whose errors
\* nobody takes any more.
StopEndsLoop == stopped ~> loop # "running"

\* getting-started-windows.md: "When all publishers on a topic have disconnected
\* the distributor will send an empty message to all the subscribers": a client
\* that has gone, however it went, is closed.
DisconnectedIsClosed ==
    \A c \in Interactors : peer[c] \in {"gone", "cut"} ~> phase[c] = "closed" \/ stopped
=============================================================================
