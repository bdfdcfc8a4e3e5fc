------------------------------ MODULE Sessions ------------------------------
(***************************************************************************)
(* What the managers of the distributor may rely on about the events the   *)
(* loop hands them: an interactor connects once, then its messages and the *)
(* errors of its two tasks come.  Each task has at most one error; the     *)
(* read task's is the last of its events; the write task's is not ordered  *)
(* with the messages.  Either of them closes the interactor.  Distributor  *)
(* has these guards in its actions; EventLoop is shown to implement them.  *)
(***************************************************************************)
CONSTANT Interactors

VARIABLES
    loop,      \* "running", "faulted" once a handler has thrown, or "stopped"
    phase,     \* an interactor is "new", "live" (in the repository) or "closed"
    reading,   \* the read task's error has not been handled
    writing,   \* the write task's error has not been handled
    last       \* the sender of the event handled last, if that was a message,
               \* which shows in no other variable

vars == <<loop, phase, reading, writing, last>>

Init ==
    /\ loop = "running"
    /\ phase = [c \in Interactors |-> "new"]
    /\ reading = [c \in Interactors |-> TRUE]
    /\ writing = [c \in Interactors |-> TRUE]
    /\ last = <<>>

Handle(sender) ==
    /\ loop = "running"
    /\ last' = sender
    /\ UNCHANGED loop

Connected(c) ==
    /\ Handle(<<>>)
    /\ phase[c] = "new"
    /\ phase' = [phase EXCEPT ![c] = "live"]
    /\ UNCHANGED <<reading, writing>>

Message(c) ==
    /\ Handle(<<c>>)
    /\ phase[c] # "new" /\ reading[c]
    /\ UNCHANGED <<phase, reading, writing>>

ReadError(c) ==
    /\ Handle(<<>>)
    /\ phase[c] # "new" /\ reading[c]
    /\ phase' = [phase EXCEPT ![c] = "closed"]
    /\ reading' = [reading EXCEPT ![c] = FALSE]
    /\ UNCHANGED writing

WriteError(c) ==
    /\ Handle(<<>>)
    /\ phase[c] # "new" /\ writing[c]
    /\ phase' = [phase EXCEPT ![c] = "closed"]
    /\ writing' = [writing EXCEPT ![c] = FALSE]
    /\ UNCHANGED reading

\* A handler throws, or the server is stopped.
End ==
    /\ loop = "running"
    /\ loop' \in {"faulted", "stopped"}
    /\ UNCHANGED <<phase, reading, writing, last>>

Next ==
    \/ \E c \in Interactors : Connected(c) \/ Message(c) \/ ReadError(c) \/ WriteError(c)
    \/ End

Spec == Init /\ [][Next]_vars
=============================================================================
