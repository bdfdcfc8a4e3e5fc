------------------------------- MODULE Client -------------------------------
(***************************************************************************)
(* The client library (Adapters/Client.cs): what the application asks for  *)
(* is queued and written by one loop, what the distributor sends is read   *)
(* by another, which calls the application's handlers.  Each loop reports  *)
(* the loss of the connection on its own account and ends, and neither     *)
(* ends the other.  Dispose cancels the token and closes the stream, and   *)
(* does not wait for the loops: a handler may call it.                     *)
(*                                                                         *)
(* Messages are counted, their order is the order of the stream.           *)
(***************************************************************************)
EXTENDS Naturals

CONSTANTS
    RequestBound,        \* bounds what the application asks for
    SendBound            \* bounds what the distributor sends

ASSUME ConstantsAssumption == RequestBound \in Nat /\ SendBound \in Nat

VARIABLES
    connection,   \* "up", or the distributor's end is "closed", "cut" within a
                  \* field of a message, or "reset"
    sent,         \* how many messages the distributor has sent
    unread,       \* how many of them have not been read
    given,        \* how many have been given to handlers
    requested,    \* how many requests the application has queued
    queued,       \* how many are in _writeQueue
    written,      \* how many have been written
    readLoop, writeLoop,
    disposed,     \* "no", "cancelled" or "closed"
    thrown,       \* a handler has thrown
    reports       \* the ConnectionChanged events, <<loop, state>>

outside == <<connection, sent>>
requests == <<requested, queued, written>>
incoming == <<unread, given>>
vars == <<outside, incoming, requests, readLoop, writeLoop, disposed, thrown, reports>>

Over == {"ended", "canceled"}
LoopStates == {"created", "queued", "test"} \cup Over

\* Nothing that was sent is lost between the stream and the handlers, and nothing
\* that was requested is written twice.
TypeOK ==
    /\ connection \in {"up", "closed", "cut", "reset"}
    /\ sent \in 0..SendBound
    /\ unread \in Nat /\ given \in Nat /\ given + unread = sent
    /\ requested \in 0..RequestBound
    /\ queued \in Nat /\ written \in Nat /\ written + queued <= requested
    /\ writeLoop = "writing" => written + queued < requested
    /\ readLoop \in LoopStates \cup {"reading", "handling"}
    /\ writeLoop \in LoopStates \cup {"taking", "writing"}
    /\ disposed \in {"no", "cancelled", "closed"}
    /\ thrown \in BOOLEAN
    /\ reports \subseteq {"read", "write"} \X {"Closed", "Faulted"}

Init ==
    /\ connection = "up"
    /\ sent = 0 /\ unread = 0 /\ given = 0
    /\ requested = 0 /\ queued = 0 /\ written = 0
    /\ readLoop = "created" /\ writeLoop = "created"
    /\ disposed = "no"
    /\ thrown = FALSE
    /\ reports = {}

-----------------------------------------------------------------------------
(* The distributor's end of the connection.                                *)

ServerSends ==
    /\ connection = "up" /\ sent < SendBound
    /\ sent' = sent + 1 /\ unread' = unread + 1
    /\ UNCHANGED <<connection, given, requests, readLoop, writeLoop, disposed, thrown, reports>>

\* A message that is cut just before a boolean that is its last field counts as one
\* that was sent, with the connection closed after it: ReadBoolean takes the end of
\* the stream for TRUE and the message is given to its handler.
ServerLeaves ==
    /\ connection = "up"
    /\ connection' \in {"closed", "cut", "reset"}
    /\ UNCHANGED <<sent, incoming, requests, readLoop, writeLoop, disposed, thrown, reports>>

-----------------------------------------------------------------------------
(* The application.                                                        *)

\* Create starts the loops, or, without autoConnect, the application does.
Start ==
    /\ readLoop = "created"
    /\ readLoop' = "queued" /\ writeLoop' = "queued"
    /\ UNCHANGED <<outside, incoming, requests, disposed, thrown, reports>>

\* AddSubscription, AddNotification, Send, Publish, Authorize: no test of the
\* connection, nor of Dispose.
Request ==
    /\ requested < RequestBound
    /\ requested' = requested + 1 /\ queued' = queued + 1
    /\ UNCHANGED <<outside, incoming, written, readLoop, writeLoop, disposed, thrown, reports>>

\* A Dispose that leaves the stream open.
Dispose_Cancels ==
    /\ disposed = "no" /\ disposed' = "cancelled"
    /\ UNCHANGED <<outside, incoming, requests, readLoop, writeLoop, thrown, reports>>

\* Dispose, on any thread, that of a handler included.
Dispose ==
    /\ \/ disposed = "no" /\ disposed' = "cancelled"
       \/ disposed = "cancelled" /\ disposed' = "closed"
    /\ UNCHANGED <<outside, incoming, requests, readLoop, writeLoop, thrown, reports>>

-----------------------------------------------------------------------------
(* Read.                                                                   *)

IsCancelled == disposed # "no"

StartRead ==
    /\ readLoop = "queued"
    /\ readLoop' = IF IsCancelled THEN "canceled" ELSE "test"
    /\ UNCHANGED <<outside, incoming, requests, writeLoop, disposed, thrown, reports>>

TestRead ==
    /\ readLoop = "test"
    /\ readLoop' = IF IsCancelled THEN "ended" ELSE "reading"
    /\ UNCHANGED <<outside, incoming, requests, writeLoop, disposed, thrown, reports>>

ReadMessage ==
    /\ readLoop = "reading" /\ disposed # "closed" /\ unread > 0
    /\ unread' = unread - 1 /\ given' = given + 1
    /\ readLoop' = "handling"
    /\ UNCHANGED <<outside, requests, writeLoop, disposed, thrown, reports>>

ReportRead(state) ==
    /\ readLoop' = "ended"
    /\ reports' = reports \cup {<<"read", state>>}

\* A handler returns, or it throws, and the loop ends.  It takes what the handler
\* throws for what its own read threw: it reports that the connection was closed
\* (EndOfStreamException), nothing (OperationCanceledException) or else a fault.
Handled ==
    /\ readLoop = "handling"
    /\ \/ readLoop' = "test" /\ UNCHANGED <<thrown, reports>>
       \/ (ReportRead("Closed") \/ ReportRead("Faulted")) /\ thrown' = TRUE
       \/ readLoop' = "ended" /\ thrown' = TRUE /\ UNCHANGED reports
    /\ UNCHANGED <<outside, incoming, requests, writeLoop, disposed>>

\* An end of the stream that is taken for the end whatever came before it.
ReadFails_Early ==
    /\ readLoop = "reading"
    /\ \/ disposed = "closed" /\ ReportRead("Faulted")
       \/ connection = "reset" /\ ReportRead("Faulted")
       \/ disposed # "closed" /\ connection = "closed" /\ ReportRead("Closed")
    /\ UNCHANGED <<outside, incoming, requests, writeLoop, disposed, thrown>>

\* An end of the stream that is not reported.
ReadFails_Quietly ==
    /\ readLoop = "reading"
    /\ \/ disposed = "closed" /\ ReportRead("Faulted")
       \/ connection = "reset" /\ ReportRead("Faulted")
       \/ /\ disposed # "closed" /\ connection = "closed" /\ unread = 0
          /\ readLoop' = "ended" /\ UNCHANGED reports
    /\ UNCHANGED <<outside, incoming, requests, writeLoop, disposed, thrown>>

\* The stream has been closed under the read, the connection was reset, which
\* loses what had not been read, or the stream is at its end.  Where a message was
\* "cut" the end is never seen: ReadFully reads 0 bytes for ever.
ReadFails ==
    /\ readLoop = "reading"
    /\ \/ disposed = "closed" /\ ReportRead("Faulted")
       \/ connection = "reset" /\ ReportRead("Faulted")
       \/ disposed # "closed" /\ connection = "closed" /\ unread = 0 /\ ReportRead("Closed")
    /\ UNCHANGED <<outside, incoming, requests, writeLoop, disposed, thrown>>

-----------------------------------------------------------------------------
(* Write.                                                                  *)

StartWrite ==
    /\ writeLoop = "queued"
    /\ writeLoop' = IF IsCancelled THEN "canceled" ELSE "test"
    /\ UNCHANGED <<outside, incoming, requests, readLoop, disposed, thrown, reports>>

TestWrite ==
    /\ writeLoop = "test"
    /\ writeLoop' = IF IsCancelled THEN "ended" ELSE "taking"
    /\ UNCHANGED <<outside, incoming, requests, readLoop, disposed, thrown, reports>>

\* A Take that throws is counted as one that did not.
Take_Counted ==
    /\ writeLoop = "taking" /\ queued' = queued - 1
    /\ \/ IsCancelled /\ writeLoop' = "ended"
       \/ ~IsCancelled /\ queued > 0 /\ writeLoop' = "writing"
    /\ UNCHANGED <<outside, incoming, requested, written, readLoop, disposed, thrown, reports>>

Take ==
    /\ writeLoop = "taking"
    /\ \/ IsCancelled /\ writeLoop' = "ended" /\ UNCHANGED queued
       \/ ~IsCancelled /\ queued > 0 /\ writeLoop' = "writing" /\ queued' = queued - 1
    /\ UNCHANGED <<outside, incoming, requested, written, readLoop, disposed, thrown, reports>>

\* A write loop that goes with the read loop.
Write_WhileReading ==
    /\ writeLoop = "writing"
    /\ \/ /\ disposed # "closed"
          /\ writeLoop' = IF readLoop \in Over THEN "ended" ELSE "test"
          /\ written' = written + 1
          /\ UNCHANGED reports
       \/ /\ disposed = "closed" \/ connection # "up"
          /\ writeLoop' = "ended"
          /\ reports' = reports \cup {<<"write", "Faulted">>}
          /\ UNCHANGED written
    /\ UNCHANGED <<outside, incoming, requested, queued, readLoop, disposed, thrown>>

\* A write to a distributor that has gone may still succeed.
Write ==
    /\ writeLoop = "writing"
    /\ \/ /\ disposed # "closed"
          /\ writeLoop' = "test"
          /\ written' = written + 1
          /\ UNCHANGED reports
       \/ /\ disposed = "closed" \/ connection # "up"
          /\ writeLoop' = "ended"
          /\ reports' = reports \cup {<<"write", "Faulted">>}
          /\ UNCHANGED written
    /\ UNCHANGED <<outside, incoming, requested, queued, readLoop, disposed, thrown>>

-----------------------------------------------------------------------------
ReadLoop == StartRead \/ TestRead \/ ReadMessage \/ Handled \/ ReadFails
WriteLoop == StartWrite \/ TestWrite \/ Take \/ Write

Next ==
    \/ ServerSends \/ ServerLeaves
    \/ Start \/ Request \/ Dispose
    \/ ReadLoop
    \/ WriteLoop

\* The loops run, handlers return, and a Dispose that was begun is finished.
Spec ==
    /\ Init /\ [][Next]_vars
    /\ WF_vars(ReadLoop) /\ WF_vars(WriteLoop)
    /\ WF_vars(disposed = "cancelled" /\ Dispose)

-----------------------------------------------------------------------------
(* Properties.                                                             *)

\* Client.Read, EndOfStreamException: a client told that the connection was
\* closed has been given every message the distributor sent, unless a handler has
\* thrown, which may have been an EndOfStreamException of its own.
ClosedIsComplete == <<"read", "Closed">> \in reports /\ ~thrown => given = sent

\* A loss between two messages is reported, though both loops wait for other
\* things when it happens, unless the client is disposed of or a handler threw:
\* the application is not left to wait for data.
LossIsReported ==
    connection \in {"closed", "reset"} /\ readLoop # "created" ~>
        reports # {} \/ IsCancelled \/ thrown

\* Client.Dispose: both loops end, whatever they were doing and whoever called
\* it, although Dispose waits for neither.
DisposeEnds ==
    IsCancelled /\ readLoop # "created" ~> readLoop \in Over /\ writeLoop \in Over

\* What the application asked for is written, also after the read loop has ended
\* on an exception of a handler, while the connection is up.
RequestsAreSent ==
    written < requested /\ writeLoop # "created" ~>
        written = requested \/ connection # "up" \/ IsCancelled
=============================================================================
