-------------------------- MODULE EventLoopProofs --------------------------
(***************************************************************************)
(* Proofs about EventLoop, for any set of interactors, bounds and threads: *)
(* its types, that nothing is disposed of while a task may use it, and     *)
(* that it implements Sessions.                                            *)
(***************************************************************************)
EXTENDS EventLoop, TLAPS

-----------------------------------------------------------------------------
(* Types.                                                                  *)

Kinds == {"connected", "message", "readError", "writeError"}
Places == {"testRead", "waitRead", "testWrite", "waitWrite", "close"}

\* A step of a task and what it may queue.
LEMMA EnqueueType ==
    ASSUME TypeOK, NEW kind \in Kinds, NEW c \in Interactors,
           Enqueue(kind, c) \/ EnqueueThrows \/ UNCHANGED events
    PROVE  events' \in Seq(Kinds \X Interactors)
<1>1. <<kind, c>> \in Kinds \X Interactors
  OBVIOUS
<1>2. events \in Seq(Kinds \X Interactors)
  BY DEF TypeOK, Kinds
<1>3. Append(events, <<kind, c>>) \in Seq(Kinds \X Interactors)
  BY <1>1, <1>2
<1> QED
  BY <1>2, <1>3 DEF Enqueue, EnqueueThrows

LEMMA DequeueType ==
    ASSUME TypeOK, NEW kind, NEW c, Dequeue(kind, c)
    PROVE  events' \in Seq(Kinds \X Interactors)
BY DEF TypeOK, Dequeue, Kinds

LEMMA TypeStep == TypeOK /\ [Next]_vars => TypeOK'
<1> SUFFICES ASSUME TypeOK, [Next]_vars PROVE TypeOK'
  OBVIOUS
<1> USE ConstantsAssumption
<1>1. ASSUME NEW c \in Interactors, Accept(c) PROVE TypeOK'
  <2>1. events' \in Seq(Kinds \X Interactors)
    BY <1>1, EnqueueType DEF Accept, Kinds
  <2> QED
    BY <1>1, <2>1 DEF Accept, TypeOK, Kinds, queues, tasks, handled
<1>2. ASSUME NEW c \in Interactors, Send(c) PROVE TypeOK'
  BY <1>2 DEF Send, TypeOK, tasks, handled
<1>3. ASSUME NEW c \in Interactors, Leave(c) PROVE TypeOK'
  BY <1>3 DEF Leave, TypeOK, queues, tasks, handled
<1>4. ASSUME NEW c \in Interactors, ReadTask(c) PROVE TypeOK'
  <2>1. CASE StartRead(c) \/ TestRead(c)
    <3>1. PICK at \in TaskStates \cup {"reading"} : readTask' = [readTask EXCEPT ![c] = at]
      BY <2>1 DEF StartRead, TestRead, TaskStates
    <3>2. readTask' \in [Interactors -> TaskStates \cup {"reading"}]
      BY <3>1 DEF TypeOK
    <3>3. UNCHANGED <<clients, queues, writeTask, cancelled, streamOpen, events, stopped, loop,
                      disposing, handled>>
      BY <2>1 DEF StartRead, TestRead
    <3> QED
      BY <3>2, <3>3 DEF TypeOK, clients, queues, handled
  <2>2. CASE ReadMessage(c)
    <3>1. events' \in Seq(Kinds \X Interactors)
      BY <2>2, EnqueueType DEF ReadMessage, Kinds
    <3>2. /\ unread' \in [Interactors -> Nat]
          /\ \A d \in Interactors : unread'[d] <= sent[d]
      BY <2>2 DEF ReadMessage, TypeOK
    <3>3. readTask' \in [Interactors -> TaskStates \cup {"reading"}]
      <4>1. PICK at \in TaskStates : readTask' = [readTask EXCEPT ![c] = at]
        BY <2>2 DEF ReadMessage, TaskStates
      <4> QED
        BY <4>1 DEF TypeOK
    <3> QED
      BY <2>2, <3>1, <3>2, <3>3 DEF ReadMessage, TypeOK, Kinds, clients, handled
  <2>3. CASE ReadFails(c)
    <3>1. events' \in Seq(Kinds \X Interactors)
      BY <2>3, EnqueueType DEF ReadFails, Kinds
    <3>2. readTask' \in [Interactors -> TaskStates \cup {"reading"}]
      <4>1. PICK at \in TaskStates : readTask' = [readTask EXCEPT ![c] = at]
        BY <2>3 DEF ReadFails, TaskStates
      <4> QED
        BY <4>1 DEF TypeOK
    <3> QED
      BY <2>3, <3>1, <3>2 DEF ReadFails, TypeOK, Kinds, clients, queues, handled
  <2>4. CASE LeaveRead(c)
    BY <2>4 DEF LeaveRead, TypeOK, TaskStates, clients, queues, handled
  <2> QED
    BY <1>4, <2>1, <2>2, <2>3, <2>4 DEF ReadTask
<1>5. ASSUME NEW c \in Interactors, WriteTask(c) PROVE TypeOK'
  <2>1. CASE StartWrite(c) \/ TestWrite(c)
    <3>1. PICK at \in TaskStates \cup {"taking"} : writeTask' = [writeTask EXCEPT ![c] = at]
      BY <2>1 DEF StartWrite, TestWrite, TaskStates
    <3>2. writeTask' \in [Interactors -> TaskStates \cup {"taking", "writing"}]
      BY <3>1 DEF TypeOK
    <3>3. UNCHANGED <<clients, queues, readTask, cancelled, streamOpen, events, stopped, loop,
                      disposing, handled>>
      BY <2>1 DEF StartWrite, TestWrite
    <3> QED
      BY <3>2, <3>3 DEF TypeOK, clients, queues, handled
  <2>2. CASE Take(c)
    <3>1. writeQueue' \in [Interactors -> 0..WriteQueueBound]
      <4>1. CASE writeQueue' = writeQueue
        BY <4>1 DEF TypeOK
      <4>2. CASE writeQueue[c] > 0 /\ writeQueue' = [writeQueue EXCEPT ![c] = writeQueue[c] - 1]
        <5>1. writeQueue[c] - 1 \in 0..WriteQueueBound
          BY <4>2 DEF TypeOK
        <5> QED
          BY <4>2, <5>1 DEF TypeOK
      <4> QED
        BY <2>2, <4>1, <4>2 DEF Take
    <3>2. writeTask' \in [Interactors -> TaskStates \cup {"taking", "writing"}]
      <4>1. PICK at \in {"leaving", "writing"} : writeTask' = [writeTask EXCEPT ![c] = at]
        BY <2>2 DEF Take
      <4> QED
        BY <4>1 DEF TypeOK, TaskStates
    <3> QED
      BY <2>2, <3>1, <3>2 DEF Take, TypeOK, clients, handled
  <2>3. CASE Write(c)
    <3>1. events' \in Seq(Kinds \X Interactors)
      BY <2>3, EnqueueType DEF Write, Kinds
    <3>2. writeTask' \in [Interactors -> TaskStates \cup {"taking", "writing"}]
      <4>1. PICK at \in TaskStates : writeTask' = [writeTask EXCEPT ![c] = at]
        BY <2>3 DEF Write, TaskStates
      <4> QED
        BY <4>1 DEF TypeOK
    <3> QED
      BY <2>3, <3>1, <3>2 DEF Write, TypeOK, Kinds, clients, queues, handled
  <2>4. CASE LeaveWrite(c)
    BY <2>4 DEF LeaveWrite, TypeOK, TaskStates, clients, queues, handled
  <2> QED
    BY <1>5, <2>1, <2>2, <2>3, <2>4 DEF WriteTask
<1>6. ASSUME NEW c \in Interactors, OnConnected(c) PROVE TypeOK'
  <2>1. events' \in Seq(Kinds \X Interactors)
    BY <1>6, DequeueType DEF OnConnected
  <2> QED
    BY <1>6, <2>1 DEF OnConnected, TypeOK, TaskStates, Kinds, clients, queues
<1>7. ASSUME NEW c \in Interactors, OnMessage(c) PROVE TypeOK'
  <2>1. events' \in Seq(Kinds \X Interactors)
    BY <1>7, DequeueType DEF OnMessage
  <2>2. writeQueue' \in [Interactors -> 0..WriteQueueBound]
    BY <1>7 DEF OnMessage, TypeOK
  <2> QED
    BY <1>7, <2>1, <2>2 DEF OnMessage, TypeOK, Kinds, clients, tasks
<1>8. ASSUME NEW c \in Interactors, OnError(c) PROVE TypeOK'
  <2>1. events' \in Seq(Kinds \X Interactors)
    BY <1>8, DequeueType DEF OnError
  <2>2. disposing' \in {"readError", "writeError"} \X Interactors \X Places
    BY <1>8 DEF OnError, Places
  <2>3. cancelled' \in [Interactors -> BOOLEAN]
    BY <1>8 DEF OnError, TypeOK
  <2>4. UNCHANGED <<clients, queues, readTask, writeTask, streamOpen, stopped, loop, handled>>
    BY <1>8 DEF OnError
  <2> QED
    BY <2>1, <2>2, <2>3, <2>4 DEF TypeOK, Kinds, Places, clients, queues, handled
<1>9. ASSUME NEW c \in Interactors, NEW kind \in {"readError", "writeError"},
             DisposeWaits(kind, c)
      PROVE  TypeOK'
  <2>1. /\ loop' \in {"running", "stopped", "faulted"}
        /\ disposing' \in {<<>>} \cup ({"readError", "writeError"} \X Interactors \X Places)
    BY <1>9 DEF DisposeWaits, WaitFor, Goto, TypeOK, Places
  <2> QED
    BY <1>9, <2>1 DEF DisposeWaits, TypeOK, Places, clients, queues, tasks, handled
<1>10. ASSUME NEW c \in Interactors, NEW kind \in {"readError", "writeError"},
              DisposeCloses(kind, c)
       PROVE  TypeOK'
  BY <1>10 DEF DisposeCloses, TypeOK, clients, queues, tasks
<1>11. ASSUME LoopStops PROVE TypeOK'
  BY <1>11 DEF LoopStops, TypeOK, clients, queues, tasks, handled
<1>12. ASSUME Stop PROVE TypeOK'
  BY <1>12 DEF Stop, TypeOK, clients, queues, handled
<1>13. ASSUME UNCHANGED vars PROVE TypeOK'
  BY <1>13 DEF TypeOK, vars, clients, queues, tasks, handled
<1> QED
  BY <1>1, <1>2, <1>3, <1>4, <1>5, <1>6, <1>7, <1>8, <1>9, <1>10, <1>11, <1>12, <1>13
  DEF Next, Loop, Handler

\* Every reachable state is well typed: no queue is longer than its bound and no
\* task is where it cannot be.
THEOREM TypeCorrect == Spec => []TypeOK
<1>1. Init => TypeOK
  <2> SUFFICES ASSUME Init PROVE TypeOK
    OBVIOUS
  <2>1. \A c \in Interactors : SendBound[c] \in Nat /\ 0 <= SendBound[c]
    BY ConstantsAssumption
  <2>2. 0 \in 0..WriteQueueBound
    BY ConstantsAssumption
  <2>3. events \in Seq({"connected", "message", "readError", "writeError"} \X Interactors)
    BY DEF Init
  <2>4. /\ readTask \in [Interactors -> TaskStates \cup {"reading"}]
        /\ writeTask \in [Interactors -> TaskStates \cup {"taking", "writing"}]
    BY DEF Init, TaskStates
  <2>5. /\ unread \in [Interactors -> Nat] /\ sent \in [Interactors -> Nat]
        /\ \A c \in Interactors : unread[c] <= sent[c] /\ sent[c] <= SendBound[c]
    BY <2>1 DEF Init
  <2>6. writeQueue \in [Interactors -> 0..WriteQueueBound]
    BY <2>2 DEF Init
  <2> QED
    BY <2>3, <2>4, <2>5, <2>6 DEF Init, TypeOK
<1> QED
  BY <1>1, TypeStep, PTL DEF Spec

-----------------------------------------------------------------------------
(* The queue of events.                                                    *)

\* The places of a task that has left its loop.
Done == {"leaving", "ended"}

Disposing(kind, c) == \E at \in Places : disposing = <<kind, c, at>>

\* An interactor is connected by its first event, and has no other before it.
FirstInv(c) ==
    /\ peer[c] = "absent" => phase[c] = "new" /\ \A i \in 1..Len(events) : events[i][2] # c
    /\ phase[c] = "new" =>
            /\ readTask[c] = "created" /\ writeTask[c] = "created"
            /\ reading[c] /\ writing[c]
            /\ ~Disposing("readError", c) /\ ~Disposing("writeError", c)
    /\ \A i \in 1..Len(events) :
            events[i][2] = c => (events[i][1] = "connected" <=> phase[c] = "new")
    /\ \A i, j \in 1..Len(events) :
            events[i] = <<"connected", c>> /\ events[j] = <<"connected", c>> => i = j

\* The read task queues nothing after its error, and the error once: while it is
\* queued, while its handler disposes of the interactor, and after that.
ReadInv(c) ==
    /\ \A i \in 1..Len(events) : events[i] = <<"readError", c>> =>
            /\ readTask[c] \in Done
            /\ \A j \in 1..Len(events) :
                    j > i => events[j] # <<"message", c>> /\ events[j] # <<"readError", c>>
    /\ ~reading[c] \/ Disposing("readError", c) =>
            /\ readTask[c] \in Done
            /\ \A i \in 1..Len(events) :
                    events[i] # <<"message", c>> /\ events[i] # <<"readError", c>>
    /\ Disposing("readError", c) => reading[c]

\* ... and the write task its error once.
WriteInv(c) ==
    /\ \A i \in 1..Len(events) : events[i] = <<"writeError", c>> =>
            /\ writeTask[c] \in Done
            /\ \A j \in 1..Len(events) : j > i => events[j] # <<"writeError", c>>
    /\ ~writing[c] \/ Disposing("writeError", c) =>
            /\ writeTask[c] \in Done
            /\ \A i \in 1..Len(events) : events[i] # <<"writeError", c>>
    /\ Disposing("writeError", c) => writing[c]

QueueInv == \A c \in Interactors : FirstInv(c) /\ ReadInv(c) /\ WriteInv(c)

LEMMA AppendIndex ==
    ASSUME NEW S, NEW s \in Seq(S), NEW x \in S
    PROVE  /\ Len(Append(s, x)) = Len(s) + 1
           /\ \A i \in 1..Len(s) : Append(s, x)[i] = s[i]
           /\ Append(s, x)[Len(s) + 1] = x
OBVIOUS

LEMMA TailIndex ==
    ASSUME NEW S, NEW s \in Seq(S), s # <<>>
    PROVE  /\ Len(s) > 0 /\ Len(Tail(s)) = Len(s) - 1
           /\ Head(s) = s[1]
           /\ \A i \in 1..(Len(s) - 1) : Tail(s)[i] = s[i + 1]
OBVIOUS

\* A task moves: not before it is started, nor back into its loop.
Moves(task) == \A c \in Interactors :
    /\ task[c] = "created" => task'[c] = "created"
    /\ task[c] \in Done => task'[c] \in Done

\* A step that takes no event and queues none.
LEMMA QuietStep ==
    ASSUME QueueInv, UNCHANGED <<events, phase, reading, writing>>,
           Moves(readTask), Moves(writeTask),
           \A c \in Interactors : peer'[c] = "absent" => peer[c] = "absent",
           \A c \in Interactors, kind \in {"readError", "writeError"} :
                Disposing(kind, c)' <=> Disposing(kind, c)
    PROVE  QueueInv'
<1> SUFFICES ASSUME NEW c \in Interactors PROVE FirstInv(c)' /\ ReadInv(c)' /\ WriteInv(c)'
  BY DEF QueueInv
<1>1. FirstInv(c)'
  BY DEF QueueInv, FirstInv, Moves
<1>2. ReadInv(c)'
  BY DEF QueueInv, ReadInv, Moves
<1>3. WriteInv(c)'
  BY DEF QueueInv, WriteInv, Moves
<1> QED
  BY <1>1, <1>2, <1>3

\* A step that queues an event of a task.
LEMMA EnqueueStep ==
    ASSUME TypeOK, QueueInv, UNCHANGED <<peer, phase, reading, writing, disposing>>,
           Moves(readTask), Moves(writeTask),
           NEW c \in Interactors, phase[c] # "new",
           NEW kind \in {"message", "readError", "writeError"},
           Enqueue(kind, c),
           kind \in {"message", "readError"} => readTask[c] \notin Done,
           kind = "readError" => readTask'[c] \in Done,
           kind = "writeError" => writeTask[c] \notin Done /\ writeTask'[c] \in Done
    PROVE  QueueInv'
<1> SUFFICES ASSUME NEW d \in Interactors PROVE FirstInv(d)' /\ ReadInv(d)' /\ WriteInv(d)'
  BY DEF QueueInv
<1>1. /\ Len(events') = Len(events) + 1 /\ Len(events) \in Nat
      /\ \A i \in 1..Len(events) : events'[i] = events[i]
      /\ events'[Len(events) + 1] = <<kind, c>>
  <2>1. events \in Seq(Kinds \X Interactors) /\ <<kind, c>> \in Kinds \X Interactors
    BY DEF TypeOK, Kinds
  <2> QED
    BY <2>1, AppendIndex DEF Enqueue
<1>2. \A i \in 1..Len(events') : i \in 1..Len(events) \/ i = Len(events) + 1
  BY <1>1
<1>3. \A e \in Interactors, k \in {"readError", "writeError"} :
        Disposing(k, e)' <=> Disposing(k, e)
  BY DEF Disposing
<1>4. FirstInv(d)'
  <2>1. peer[c] # "absent"
    BY DEF QueueInv, FirstInv
  <2>2. FirstInv(d) /\ FirstInv(c)
    BY DEF QueueInv
  <2>3. events'[Len(events) + 1][1] = kind /\ events'[Len(events) + 1][2] = c
    BY <1>1
  <2>4. peer'[d] = "absent" => phase'[d] = "new" /\ \A i \in 1..Len(events') : events'[i][2] # d
    BY <1>1, <1>2, <2>1, <2>2, <2>3 DEF FirstInv
  <2>5. phase'[d] = "new" =>
            /\ readTask'[d] = "created" /\ writeTask'[d] = "created"
            /\ reading'[d] /\ writing'[d]
            /\ ~Disposing("readError", d)' /\ ~Disposing("writeError", d)'
    BY <1>3, <2>2 DEF FirstInv, Moves
  <2>6. \A i \in 1..Len(events') :
            events'[i][2] = d => (events'[i][1] = "connected" <=> phase'[d] = "new")
    BY <1>1, <1>2, <2>2, <2>3 DEF FirstInv
  <2>7. \A i, j \in 1..Len(events') :
            events'[i] = <<"connected", d>> /\ events'[j] = <<"connected", d>> => i = j
    <3>1. events'[Len(events) + 1] # <<"connected", d>>
      BY <1>1
    <3> QED
      BY <1>1, <1>2, <2>2, <3>1 DEF FirstInv
  <2> QED
    BY <2>4, <2>5, <2>6, <2>7 DEF FirstInv
<1>5. ReadInv(d)'
  BY <1>1, <1>2, <1>3 DEF QueueInv, ReadInv, Moves
<1>6. WriteInv(d)'
  BY <1>1, <1>2, <1>3 DEF QueueInv, WriteInv, Moves
<1> QED
  BY <1>4, <1>5, <1>6

LEMMA AcceptQueue ==
    ASSUME TypeOK, QueueInv, NEW c \in Interactors, Accept(c)
    PROVE  QueueInv'
<1> SUFFICES ASSUME NEW d \in Interactors PROVE FirstInv(d)' /\ ReadInv(d)' /\ WriteInv(d)'
  BY DEF QueueInv
<1>1. /\ Len(events') = Len(events) + 1 /\ Len(events) \in Nat
      /\ \A i \in 1..Len(events) : events'[i] = events[i]
      /\ events'[Len(events) + 1] = <<"connected", c>>
  <2>1. events \in Seq(Kinds \X Interactors) /\ <<"connected", c>> \in Kinds \X Interactors
    BY DEF TypeOK, Kinds
  <2> QED
    BY <2>1, AppendIndex DEF Accept, Enqueue
<1>2. \A i \in 1..Len(events') : i \in 1..Len(events) \/ i = Len(events) + 1
  BY <1>1
<1>3. /\ UNCHANGED <<readTask, writeTask, phase, reading, writing, disposing>>
      /\ peer[c] = "absent" /\ peer' = [peer EXCEPT ![c] = "open"]
  BY DEF Accept, tasks, handled
<1>4. \A e \in Interactors, k \in {"readError", "writeError"} :
        Disposing(k, e)' <=> Disposing(k, e)
  BY <1>3 DEF Disposing
<1>5. \A e \in Interactors : peer'[e] = "absent" => peer[e] = "absent" /\ e # c
  BY <1>3 DEF TypeOK
<1>6. /\ phase[c] = "new"
      /\ \A i \in 1..Len(events) : events[i][2] # c
  BY <1>3 DEF QueueInv, FirstInv
<1>7. FirstInv(d)'
  <2>1. FirstInv(d) /\ \A i \in 1..Len(events') :
            \/ i \in 1..Len(events) /\ events'[i] = events[i]
            \/ events'[i] = <<"connected", c>> /\ i = Len(events) + 1
    BY <1>1, <1>2 DEF QueueInv
  <2>2. peer'[d] = "absent" => phase'[d] = "new" /\ \A i \in 1..Len(events') : events'[i][2] # d
    BY <1>3, <1>5, <2>1 DEF FirstInv
  <2>3. phase'[d] = "new" =>
            /\ readTask'[d] = "created" /\ writeTask'[d] = "created"
            /\ reading'[d] /\ writing'[d]
            /\ ~Disposing("readError", d)' /\ ~Disposing("writeError", d)'
    BY <1>3, <1>4, <2>1 DEF FirstInv
  <2>4. \A i \in 1..Len(events') :
            events'[i][2] = d => (events'[i][1] = "connected" <=> phase'[d] = "new")
    BY <1>3, <1>6, <2>1 DEF FirstInv
  <2>5. \A i, j \in 1..Len(events') :
            events'[i] = <<"connected", d>> /\ events'[j] = <<"connected", d>> => i = j
    <3>1. CASE d = c
      <4>1. \A i \in 1..Len(events) : events[i] # <<"connected", d>>
        BY <1>6, <3>1
      <4> QED
        BY <2>1, <4>1
    <3>2. CASE d # c
      BY <2>1, <3>2 DEF FirstInv
    <3> QED
      BY <3>1, <3>2
  <2> QED
    BY <2>2, <2>3, <2>4, <2>5 DEF FirstInv
<1>8. ReadInv(d)'
  BY <1>1, <1>2, <1>3, <1>4 DEF QueueInv, ReadInv
<1>9. WriteInv(d)'
  BY <1>1, <1>2, <1>3, <1>4 DEF QueueInv, WriteInv
<1> QED
  BY <1>7, <1>8, <1>9

\* A task that has been started belongs to an interactor the loop knows.
LEMMA StartedIsKnown ==
    ASSUME QueueInv, NEW c \in Interactors,
           readTask[c] # "created" \/ writeTask[c] # "created"
    PROVE  phase[c] # "new"
BY DEF QueueInv, FirstInv

LEMMA ReadTaskQueue ==
    ASSUME TypeOK, QueueInv, NEW c \in Interactors, ReadTask(c)
    PROVE  QueueInv'
<1>1. PICK at \in TaskStates \cup {"reading"} : readTask' = [readTask EXCEPT ![c] = at]
  BY DEF ReadTask, StartRead, TestRead, ReadMessage, ReadFails, LeaveRead, TaskStates
<1>2. /\ readTask[c] # "created"
      /\ readTask[c] \in Done => at \in Done
      /\ UNCHANGED <<peer, phase, reading, writing, disposing, writeTask>>
  <2>1. CASE StartRead(c) \/ TestRead(c)
    BY <1>1, <2>1 DEF StartRead, TestRead, Done, clients, handled
  <2>2. CASE ReadMessage(c) \/ ReadFails(c)
    BY <1>1, <2>2 DEF ReadMessage, ReadFails, Done, clients, handled
  <2>3. CASE LeaveRead(c)
    <3>1. at = "ended"
      BY <1>1, <2>3 DEF LeaveRead, TypeOK
    <3> QED
      BY <2>3, <3>1 DEF LeaveRead, Done, clients, handled
  <2> QED
    BY <2>1, <2>2, <2>3 DEF ReadTask
<1>3. Moves(readTask) /\ Moves(writeTask)
  BY <1>1, <1>2 DEF Moves, TypeOK
<1>4. phase[c] # "new"
  BY <1>2, StartedIsKnown
<1>5. CASE UNCHANGED events
  BY <1>2, <1>3, <1>5, QuietStep DEF Disposing
<1>6. CASE Enqueue("message", c) /\ ReadMessage(c)
  <2>1. readTask[c] \notin Done
    BY <1>6 DEF ReadMessage, Done
  <2> QED
    BY <1>2, <1>3, <1>4, <1>6, <2>1, EnqueueStep
<1>7. CASE Enqueue("readError", c) /\ ReadFails(c)
  <2>1. readTask[c] \notin Done /\ readTask[c] = "reading"
    BY <1>7 DEF ReadFails, Done
  <2>2. readTask'[c] \in Done
    BY <1>7 DEF ReadFails, Enqueue, EnqueueThrows, Done, TypeOK
  <2> QED
    BY <1>2, <1>3, <1>4, <1>7, <2>1, <2>2, EnqueueStep
<1> QED
  BY <1>5, <1>6, <1>7
  DEF ReadTask, StartRead, TestRead, ReadMessage, ReadFails, LeaveRead, EnqueueThrows

LEMMA WriteTaskQueue ==
    ASSUME TypeOK, QueueInv, NEW c \in Interactors, WriteTask(c)
    PROVE  QueueInv'
<1>1. PICK at \in TaskStates \cup {"taking", "writing"} :
            writeTask' = [writeTask EXCEPT ![c] = at]
  BY DEF WriteTask, StartWrite, TestWrite, Take, Write, LeaveWrite, TaskStates
<1>2. /\ writeTask[c] # "created"
      /\ writeTask[c] \in Done => at \in Done
      /\ UNCHANGED <<peer, phase, reading, writing, disposing, readTask>>
  <2>1. CASE StartWrite(c) \/ TestWrite(c)
    BY <1>1, <2>1 DEF StartWrite, TestWrite, Done, clients, handled
  <2>2. CASE Take(c) \/ Write(c)
    BY <1>1, <2>2 DEF Take, Write, Done, clients, handled
  <2>3. CASE LeaveWrite(c)
    <3>1. at = "ended"
      BY <1>1, <2>3 DEF LeaveWrite, TypeOK
    <3> QED
      BY <2>3, <3>1 DEF LeaveWrite, Done, clients, handled
  <2> QED
    BY <2>1, <2>2, <2>3 DEF WriteTask
<1>3. Moves(readTask) /\ Moves(writeTask)
  BY <1>1, <1>2 DEF Moves, TypeOK
<1>4. phase[c] # "new"
  BY <1>2, StartedIsKnown
<1>5. CASE UNCHANGED events
  BY <1>2, <1>3, <1>5, QuietStep DEF Disposing
<1>6. CASE Enqueue("writeError", c) /\ Write(c) /\ events' # events
  <2>1. writeTask[c] \notin Done
    BY <1>6 DEF Write, Done
  <2>2. writeTask'[c] \in Done
    BY <1>6 DEF Write, Enqueue, EnqueueThrows, Done, TypeOK
  <2> QED
    BY <1>2, <1>3, <1>4, <1>6, <2>1, <2>2, EnqueueStep
<1> QED
  BY <1>5, <1>6
  DEF WriteTask, StartWrite, TestWrite, Take, Write, LeaveWrite, EnqueueThrows

-----------------------------------------------------------------------------
(* What the loop takes off the queue.                                      *)

\* An event is taken, and what is left has moved up by one.
LEMMA Taken ==
    ASSUME TypeOK, NEW kind, NEW c, Dequeue(kind, c)
    PROVE  /\ 1 \in 1..Len(events) /\ events[1] = <<kind, c>>
           /\ \A i \in 1..Len(events') :
                i + 1 \in 1..Len(events) /\ events'[i] = events[i + 1] /\ i + 1 > 1
<1>1. events \in Seq(Kinds \X Interactors) /\ events # <<>>
  BY DEF TypeOK, Kinds, Dequeue
<1>2. /\ Len(events) > 0 /\ Len(events') = Len(events) - 1
      /\ events[1] = <<kind, c>>
      /\ \A i \in 1..(Len(events) - 1) : events'[i] = events[i + 1]
  BY <1>1, TailIndex DEF Dequeue
<1>3. Len(events) \in Nat
  BY <1>1
<1> QED
  BY <1>2, <1>3

\* For an interactor the step does nothing else to, it leaves what held.
LEMMA TakenKeeps ==
    ASSUME QueueInv, NEW d \in Interactors,
           \A i \in 1..Len(events') :
                i + 1 \in 1..Len(events) /\ events'[i] = events[i + 1] /\ i + 1 > 1,
           peer'[d] = peer[d], phase'[d] = phase[d],
           readTask'[d] = readTask[d], writeTask'[d] = writeTask[d],
           reading'[d] = reading[d], writing'[d] = writing[d],
           Disposing("readError", d)' <=> Disposing("readError", d),
           Disposing("writeError", d)' <=> Disposing("writeError", d)
    PROVE  FirstInv(d)' /\ ReadInv(d)' /\ WriteInv(d)'
<1>1. FirstInv(d) /\ ReadInv(d) /\ WriteInv(d)
  BY DEF QueueInv
<1>2. FirstInv(d)'
  <2>1. ASSUME NEW i \in 1..Len(events'), NEW j \in 1..Len(events'),
               events'[i] = <<"connected", d>>, events'[j] = <<"connected", d>>
        PROVE  i = j
    <3>1. /\ i + 1 \in 1..Len(events) /\ events[i + 1] = <<"connected", d>>
          /\ j + 1 \in 1..Len(events) /\ events[j + 1] = <<"connected", d>>
      BY <2>1
    <3>2. i + 1 = j + 1
      BY <1>1, <3>1 DEF FirstInv
    <3> QED
      BY <3>2
  <2>2. \A i \in 1..Len(events') :
            events'[i][2] = d => (events'[i][1] = "connected" <=> phase[d] = "new")
    BY <1>1 DEF FirstInv
  <2>3. peer[d] = "absent" => \A i \in 1..Len(events') : events'[i][2] # d
    BY <1>1 DEF FirstInv
  <2> QED
    BY <1>1, <2>1, <2>2, <2>3 DEF FirstInv
<1>3. ReadInv(d)'
  <2>1. ASSUME NEW i \in 1..Len(events'), events'[i] = <<"readError", d>>
        PROVE  /\ readTask[d] \in Done
               /\ \A j \in 1..Len(events') : j > i =>
                    events'[j] # <<"message", d>> /\ events'[j] # <<"readError", d>>
    <3>1. \A j \in 1..Len(events') : j > i => j + 1 > i + 1
      OBVIOUS
    <3> QED
      BY <1>1, <2>1, <3>1 DEF ReadInv
  <2>2. ~reading[d] \/ Disposing("readError", d) =>
            \A i \in 1..Len(events') :
                events'[i] # <<"message", d>> /\ events'[i] # <<"readError", d>>
    BY <1>1 DEF ReadInv
  <2> QED
    BY <1>1, <2>1, <2>2 DEF ReadInv
<1>4. WriteInv(d)'
  <2>1. ASSUME NEW i \in 1..Len(events'), events'[i] = <<"writeError", d>>
        PROVE  /\ writeTask[d] \in Done
               /\ \A j \in 1..Len(events') : j > i => events'[j] # <<"writeError", d>>
    <3>1. \A j \in 1..Len(events') : j > i => j + 1 > i + 1
      OBVIOUS
    <3> QED
      BY <1>1, <2>1, <3>1 DEF WriteInv
  <2>2. ~writing[d] \/ Disposing("writeError", d) =>
            \A i \in 1..Len(events') : events'[i] # <<"writeError", d>>
    BY <1>1 DEF WriteInv
  <2> QED
    BY <1>1, <2>1, <2>2 DEF WriteInv
<1> QED
  BY <1>2, <1>3, <1>4

\* An event is its kind and its interactor.
LEMMA EventIsPair ==
    ASSUME TypeOK, NEW i \in 1..Len(events)
    PROVE  events[i] = <<events[i][1], events[i][2]>>
<1>1. events \in Seq(Kinds \X Interactors)
  BY DEF TypeOK, Kinds
<1>2. events[i] \in Kinds \X Interactors
  BY <1>1
<1> QED
  BY <1>2

LEMMA OnConnectedQueue ==
    ASSUME TypeOK, QueueInv, NEW c \in Interactors, OnConnected(c)
    PROVE  QueueInv'
<1> SUFFICES ASSUME NEW d \in Interactors PROVE FirstInv(d)' /\ ReadInv(d)' /\ WriteInv(d)'
  BY DEF QueueInv
<1>1. /\ 1 \in 1..Len(events) /\ events[1] = <<"connected", c>>
      /\ \A i \in 1..Len(events') :
            i + 1 \in 1..Len(events) /\ events'[i] = events[i + 1] /\ i + 1 > 1
  BY Taken DEF OnConnected
<1>2. /\ phase' = [phase EXCEPT ![c] = "live"]
      /\ UNCHANGED <<peer, reading, writing, disposing>>
      /\ \A e \in Interactors : e # c => readTask'[e] = readTask[e] /\ writeTask'[e] = writeTask[e]
  BY DEF OnConnected, clients, TypeOK
<1>3. phase[c] = "new" /\ peer[c] # "absent"
  BY <1>1 DEF QueueInv, FirstInv
<1>4. \A i \in 1..Len(events') : events'[i][2] # c
  <2> SUFFICES ASSUME NEW i \in 1..Len(events'), events'[i][2] = c PROVE FALSE
    OBVIOUS
  <2>1. i + 1 \in 1..Len(events) /\ events[i + 1][2] = c /\ i + 1 > 1
    BY <1>1
  <2>2. events[i + 1][1] = "connected"
    BY <1>3, <2>1 DEF QueueInv, FirstInv
  <2>3. events[i + 1] = <<"connected", c>>
    BY <2>1, <2>2, EventIsPair
  <2>4. i + 1 = 1
    BY <1>1, <2>1, <2>3 DEF QueueInv, FirstInv
  <2> QED
    BY <2>1, <2>4
<1>5. /\ ~Disposing("readError", c)' /\ ~Disposing("writeError", c)'
      /\ \A k \in {"readError", "writeError"} : Disposing(k, d)' <=> Disposing(k, d)
      /\ reading'[c] /\ writing'[c]
  BY <1>2, <1>3 DEF Disposing, QueueInv, FirstInv
<1>6. CASE d = c
  BY <1>2, <1>3, <1>4, <1>5, <1>6 DEF FirstInv, ReadInv, WriteInv, TypeOK
<1>7. CASE d # c
  BY <1>1, <1>2, <1>5, <1>7, TakenKeeps DEF TypeOK
<1> QED
  BY <1>6, <1>7

LEMMA OnMessageQueue ==
    ASSUME TypeOK, QueueInv, NEW c \in Interactors, OnMessage(c)
    PROVE  QueueInv'
<1> SUFFICES ASSUME NEW d \in Interactors PROVE FirstInv(d)' /\ ReadInv(d)' /\ WriteInv(d)'
  BY DEF QueueInv
<1>1. \A i \in 1..Len(events') :
            i + 1 \in 1..Len(events) /\ events'[i] = events[i + 1] /\ i + 1 > 1
  BY Taken DEF OnMessage
<1>2. UNCHANGED <<peer, phase, reading, writing, disposing, readTask, writeTask>>
  BY DEF OnMessage, clients, tasks
<1> QED
  BY <1>1, <1>2, TakenKeeps DEF Disposing

LEMMA OnErrorQueue ==
    ASSUME TypeOK, QueueInv, NEW c \in Interactors, OnError(c)
    PROVE  QueueInv'
<1> SUFFICES ASSUME NEW d \in Interactors PROVE FirstInv(d)' /\ ReadInv(d)' /\ WriteInv(d)'
  BY DEF QueueInv
<1>1. PICK kind \in {"readError", "writeError"} :
            Dequeue(kind, c) /\ disposing' = <<kind, c, "testRead">>
  BY DEF OnError
<1>2. /\ 1 \in 1..Len(events) /\ events[1] = <<kind, c>>
      /\ \A i \in 1..Len(events') :
            i + 1 \in 1..Len(events) /\ events'[i] = events[i + 1] /\ i + 1 > 1
  BY <1>1, Taken
<1>3. UNCHANGED <<peer, phase, reading, writing, readTask, writeTask>>
  BY DEF OnError, clients, handled
<1>4. \A e \in Interactors, k \in {"readError", "writeError"} :
        ~Disposing(k, e) /\ (Disposing(k, e)' <=> e = c /\ k = kind)
  BY <1>1 DEF Disposing, Dequeue, Places
<1>5. phase[c] # "new"
  BY <1>2 DEF QueueInv, FirstInv
<1>6. CASE d # c
  BY <1>2, <1>3, <1>4, <1>6, TakenKeeps
<1>7. CASE d = c
  <2>1. FirstInv(c) /\ ReadInv(c) /\ WriteInv(c)
    BY DEF QueueInv
  <2>2. FirstInv(c)'
    <3>1. \A i \in 1..Len(events') : events'[i][1] = "connected" => events'[i][2] # c
      BY <1>2, <1>5, <2>1 DEF FirstInv
    <3>2. peer[c] # "absent"
      BY <1>2, <2>1 DEF FirstInv
    <3> QED
      BY <1>3, <1>5, <3>1, <3>2 DEF FirstInv
  <2>3. CASE kind = "readError"
    <3>1. /\ readTask[c] \in Done /\ reading[c]
          /\ \A i \in 1..Len(events') :
                events'[i] # <<"message", c>> /\ events'[i] # <<"readError", c>>
      BY <1>2, <2>1, <2>3 DEF ReadInv
    <3>2. ReadInv(c)'
      BY <1>3, <1>4, <2>3, <3>1 DEF ReadInv
    <3>3. WriteInv(c)'
      <4>1. ASSUME NEW i \in 1..Len(events'), events'[i] = <<"writeError", c>>
            PROVE  /\ writeTask[c] \in Done
                   /\ \A j \in 1..Len(events') : j > i => events'[j] # <<"writeError", c>>
        <5>1. \A j \in 1..Len(events') : j > i => j + 1 > i + 1
          OBVIOUS
        <5> QED
          BY <1>2, <2>1, <4>1, <5>1 DEF WriteInv
      <4>2. ~Disposing("writeError", c)'
        BY <1>4, <2>3
      <4> QED
        BY <1>2, <1>3, <2>1, <4>1, <4>2 DEF WriteInv
    <3> QED
      BY <2>2, <3>2, <3>3, <1>7
  <2>4. CASE kind = "writeError"
    <3>1. /\ writeTask[c] \in Done /\ writing[c]
          /\ \A i \in 1..Len(events') : events'[i] # <<"writeError", c>>
      BY <1>2, <2>1, <2>4 DEF WriteInv
    <3>2. WriteInv(c)'
      BY <1>3, <1>4, <2>4, <3>1 DEF WriteInv
    <3>3. ReadInv(c)'
      <4>1. ASSUME NEW i \in 1..Len(events'), events'[i] = <<"readError", c>>
            PROVE  /\ readTask[c] \in Done
                   /\ \A j \in 1..Len(events') : j > i =>
                        events'[j] # <<"message", c>> /\ events'[j] # <<"readError", c>>
        <5>1. \A j \in 1..Len(events') : j > i => j + 1 > i + 1
          OBVIOUS
        <5> QED
          BY <1>2, <2>1, <4>1, <5>1 DEF ReadInv
      <4>2. ~Disposing("readError", c)'
        BY <1>4, <2>4
      <4> QED
        BY <1>2, <1>3, <2>1, <4>1, <4>2 DEF ReadInv
    <3> QED
      BY <2>2, <3>2, <3>3, <1>7
  <2> QED
    BY <2>3, <2>4
<1> QED
  BY <1>6, <1>7

LEMMA DisposeWaitsQueue ==
    ASSUME TypeOK, QueueInv, NEW c \in Interactors, NEW kind \in {"readError", "writeError"},
           DisposeWaits(kind, c)
    PROVE  QueueInv'
<1>1. UNCHANGED <<events, peer, phase, reading, writing, readTask, writeTask>>
  BY DEF DisposeWaits, clients, tasks, handled
<1>2. \/ UNCHANGED disposing
      \/ \E from, to \in Places : disposing = <<kind, c, from>> /\ disposing' = <<kind, c, to>>
  BY DEF DisposeWaits, WaitFor, Goto, Places
<1>3. \A e \in Interactors, k \in {"readError", "writeError"} :
        Disposing(k, e)' <=> Disposing(k, e)
  BY <1>2 DEF Disposing
<1>4. Moves(readTask) /\ Moves(writeTask)
  BY <1>1 DEF Moves
<1> QED
  BY <1>1, <1>3, <1>4, QuietStep

LEMMA DisposeClosesQueue ==
    ASSUME TypeOK, QueueInv, NEW c \in Interactors, NEW kind \in {"readError", "writeError"},
           DisposeCloses(kind, c)
    PROVE  QueueInv'
<1> SUFFICES ASSUME NEW d \in Interactors PROVE FirstInv(d)' /\ ReadInv(d)' /\ WriteInv(d)'
  BY DEF QueueInv
<1>1. /\ UNCHANGED <<events, peer, readTask, writeTask>>
      /\ phase' = [phase EXCEPT ![c] = "closed"]
      /\ reading' = [reading EXCEPT ![c] = reading[c] /\ kind # "readError"]
      /\ writing' = [writing EXCEPT ![c] = writing[c] /\ kind # "writeError"]
      /\ disposing = <<kind, c, "close">> /\ disposing' = <<>>
  BY DEF DisposeCloses, clients, tasks
<1>2. Disposing(kind, c)
  BY <1>1 DEF Disposing, Places
<1>3. \A k \in {"readError", "writeError"} : ~Disposing(k, d)'
  BY <1>1 DEF Disposing
<1>4. FirstInv(d) /\ ReadInv(d) /\ WriteInv(d)
  BY DEF QueueInv
<1>5. CASE d # c
  <2>1. \A k \in {"readError", "writeError"} : ~Disposing(k, d)
    BY <1>1, <1>5 DEF Disposing
  <2>2. phase'[d] = phase[d] /\ reading'[d] = reading[d] /\ writing'[d] = writing[d]
    BY <1>1, <1>5 DEF TypeOK
  <2> QED
    BY <1>1, <1>3, <1>4, <2>1, <2>2 DEF FirstInv, ReadInv, WriteInv
<1>6. CASE d = c
  <2>1. phase[d] # "new" /\ phase'[d] = "closed"
    BY <1>1, <1>2, <1>4, <1>6 DEF FirstInv, TypeOK
  <2>2. FirstInv(d)'
    BY <1>1, <1>4, <2>1 DEF FirstInv
  <2>3. ~reading'[d] => ~reading[d] \/ Disposing("readError", d)
    BY <1>1, <1>2, <1>6 DEF TypeOK
  <2>4. ~writing'[d] => ~writing[d] \/ Disposing("writeError", d)
    BY <1>1, <1>2, <1>6 DEF TypeOK
  <2>5. ReadInv(d)'
    BY <1>1, <1>3, <1>4, <2>3 DEF ReadInv
  <2>6. WriteInv(d)'
    BY <1>1, <1>3, <1>4, <2>4 DEF WriteInv
  <2> QED
    BY <2>2, <2>5, <2>6
<1> QED
  BY <1>5, <1>6

LEMMA QueueStep == TypeOK /\ QueueInv /\ [Next]_vars => QueueInv'
<1> SUFFICES ASSUME TypeOK, QueueInv, [Next]_vars PROVE QueueInv'
  OBVIOUS
<1>1. ASSUME UNCHANGED <<events, phase, reading, writing, readTask, writeTask, disposing>>,
             \A c \in Interactors : peer'[c] = "absent" => peer[c] = "absent"
      PROVE  QueueInv'
  BY <1>1, QuietStep DEF Moves, Disposing
<1>2. ASSUME NEW c \in Interactors, Send(c) PROVE QueueInv'
  BY <1>1, <1>2 DEF Send, tasks, handled
<1>3. ASSUME NEW c \in Interactors, Leave(c) PROVE QueueInv'
  <2>1. \A d \in Interactors : peer'[d] = "absent" => peer[d] = "absent"
    BY <1>3 DEF Leave, TypeOK
  <2> QED
    BY <1>1, <1>3, <2>1 DEF Leave, tasks, handled
<1>4. ASSUME LoopStops PROVE QueueInv'
  BY <1>1, <1>4 DEF LoopStops, clients, tasks, handled
<1>5. ASSUME Stop PROVE QueueInv'
  BY <1>1, <1>5 DEF Stop, clients, handled
<1>6. ASSUME UNCHANGED vars PROVE QueueInv'
  BY <1>1, <1>6 DEF vars, clients, tasks, handled
<1> QED
  BY <1>2, <1>3, <1>4, <1>5, <1>6, AcceptQueue, ReadTaskQueue, WriteTaskQueue, OnConnectedQueue,
     OnMessageQueue, OnErrorQueue, DisposeWaitsQueue, DisposeClosesQueue
  DEF Next, Loop, Handler

LEMMA QueueHolds == Spec => []QueueInv
<1>1. Init => QueueInv
  BY DEF Init, QueueInv, FirstInv, ReadInv, WriteInv, Disposing
<1>2. TypeOK /\ QueueInv /\ [Next]_vars => QueueInv'
  BY QueueStep
<1> QED
  BY <1>1, <1>2, TypeCorrect, PTL DEF Spec

-----------------------------------------------------------------------------
(* Dispose.                                                                *)

\* How far Dispose has got, and what it has waited for.
DisposeInv == \A c \in Interactors :
    /\ \A kind \in {"readError", "writeError"} :
        /\ disposing \in {<<kind, c, "testWrite">>, <<kind, c, "waitWrite">>, <<kind, c, "close">>}
                => readTask[c] \in Over
        /\ disposing = <<kind, c, "close">> => writeTask[c] \in Over
    /\ ~streamOpen[c] => readTask[c] \in Over /\ writeTask[c] \in Over

\* A task that is over stays so: one that is connected has not been started.
LEMMA OverStaysOver ==
    ASSUME TypeOK, QueueInv, [Next]_vars, NEW c \in Interactors
    PROVE  /\ readTask[c] \in Over => readTask'[c] \in Over
           /\ writeTask[c] \in Over => writeTask'[c] \in Over
<1>1. ASSUME NEW d \in Interactors, ReadTask(d)
      PROVE  (readTask[c] \in Over => readTask'[c] \in Over) /\ writeTask' = writeTask
  <2>1. writeTask' = writeTask /\ readTask[d] \notin Over
    BY <1>1 DEF ReadTask, StartRead, TestRead, ReadMessage, ReadFails, LeaveRead, Over
  <2>2. \E at : readTask' = [readTask EXCEPT ![d] = at]
    BY <1>1 DEF ReadTask, StartRead, TestRead, ReadMessage, ReadFails, LeaveRead
  <2> QED
    BY <2>1, <2>2 DEF TypeOK
<1>2. ASSUME NEW d \in Interactors, WriteTask(d)
      PROVE  (writeTask[c] \in Over => writeTask'[c] \in Over) /\ readTask' = readTask
  <2>1. readTask' = readTask /\ writeTask[d] \notin Over
    BY <1>2 DEF WriteTask, StartWrite, TestWrite, Take, Write, LeaveWrite, Over
  <2>2. \E at : writeTask' = [writeTask EXCEPT ![d] = at]
    BY <1>2 DEF WriteTask, StartWrite, TestWrite, Take, Write, LeaveWrite
  <2> QED
    BY <2>1, <2>2 DEF TypeOK
<1>3. ASSUME NEW d \in Interactors, OnConnected(d)
      PROVE  /\ readTask[c] \in Over => readTask'[c] \in Over
             /\ writeTask[c] \in Over => writeTask'[c] \in Over
  <2>1. 1 \in 1..Len(events) /\ events[1] = <<"connected", d>>
    BY <1>3, Taken DEF OnConnected
  <2>2. readTask[d] = "created" /\ writeTask[d] = "created"
    BY <2>1 DEF QueueInv, FirstInv
  <2> QED
    BY <1>3, <2>2 DEF OnConnected, Over, TypeOK
<1>4. ASSUME NEW d \in Interactors, Accept(d) \/ Send(d) \/ Leave(d) \/ OnMessage(d) \/ OnError(d)
      PROVE  UNCHANGED <<readTask, writeTask>>
  BY <1>4 DEF Accept, Send, Leave, OnMessage, OnError, tasks
<1>5. ASSUME NEW d \in Interactors, NEW kind \in {"readError", "writeError"},
             DisposeWaits(kind, d) \/ DisposeCloses(kind, d)
      PROVE  UNCHANGED <<readTask, writeTask>>
  BY <1>5 DEF DisposeWaits, DisposeCloses, tasks
<1>6. ASSUME LoopStops \/ Stop \/ UNCHANGED vars PROVE UNCHANGED <<readTask, writeTask>>
  BY <1>6 DEF LoopStops, Stop, vars, tasks
<1> QED
  BY <1>1, <1>2, <1>3, <1>4, <1>5, <1>6 DEF Next, Loop, Handler

LEMMA DisposeStep == TypeOK /\ QueueInv /\ DisposeInv /\ [Next]_vars => DisposeInv'
<1> SUFFICES ASSUME TypeOK, QueueInv, DisposeInv, [Next]_vars PROVE DisposeInv'
  OBVIOUS
<1>1. ASSUME UNCHANGED <<disposing, streamOpen>> PROVE DisposeInv'
  BY <1>1, OverStaysOver DEF DisposeInv
<1>2. ASSUME NEW c \in Interactors, OnError(c) PROVE DisposeInv'
  <2>1. UNCHANGED streamOpen /\ \E kind : disposing' = <<kind, c, "testRead">>
    BY <1>2 DEF OnError
  <2> QED
    BY <2>1, OverStaysOver DEF DisposeInv
<1>3. ASSUME NEW c \in Interactors, NEW kind \in {"readError", "writeError"},
             DisposeWaits(kind, c)
      PROVE  DisposeInv'
  <2>1. UNCHANGED <<streamOpen, readTask, writeTask>>
    BY <1>3 DEF DisposeWaits, tasks
  <2>2. CASE UNCHANGED disposing
    BY <1>1, <2>1, <2>2
  <2>3. CASE disposing' = <<kind, c, "waitRead">>
    BY <2>1, <2>3 DEF DisposeInv
  <2>4. CASE disposing' = <<kind, c, "testWrite">> /\ readTask[c] \in Over
    BY <2>1, <2>4 DEF DisposeInv
  <2>5. CASE disposing = <<kind, c, "testWrite">> /\ disposing' = <<kind, c, "waitWrite">>
    BY <2>1, <2>5 DEF DisposeInv
  <2>6. CASE /\ disposing \in {<<kind, c, "testWrite">>, <<kind, c, "waitWrite">>}
             /\ disposing' = <<kind, c, "close">> /\ writeTask[c] \in Over
    BY <2>1, <2>6 DEF DisposeInv
  <2> QED
    BY <1>3, <2>2, <2>3, <2>4, <2>5, <2>6 DEF DisposeWaits, WaitFor, Goto, Over
<1>4. ASSUME NEW c \in Interactors, NEW kind \in {"readError", "writeError"},
             DisposeCloses(kind, c)
      PROVE  DisposeInv'
  <2>1. /\ UNCHANGED <<readTask, writeTask>> /\ disposing' = <<>>
        /\ streamOpen' = [streamOpen EXCEPT ![c] = FALSE]
        /\ disposing = <<kind, c, "close">>
    BY <1>4 DEF DisposeCloses, tasks
  <2>2. readTask[c] \in Over /\ writeTask[c] \in Over
    BY <2>1 DEF DisposeInv
  <2> QED
    BY <2>1, <2>2 DEF DisposeInv, TypeOK
<1>5. ASSUME NEW c \in Interactors,
             Accept(c) \/ Send(c) \/ Leave(c) \/ OnConnected(c) \/ OnMessage(c)
      PROVE  UNCHANGED <<disposing, streamOpen>>
  BY <1>5 DEF Accept, Send, Leave, OnConnected, OnMessage
<1>6. ASSUME NEW c \in Interactors, ReadTask(c) \/ WriteTask(c)
      PROVE  UNCHANGED <<disposing, streamOpen>>
  BY <1>6 DEF ReadTask, StartRead, TestRead, ReadMessage, ReadFails, LeaveRead,
              WriteTask, StartWrite, TestWrite, Take, Write, LeaveWrite
<1>7. ASSUME LoopStops \/ Stop \/ UNCHANGED vars PROVE UNCHANGED <<disposing, streamOpen>>
  BY <1>7 DEF LoopStops, Stop, vars
<1> QED
  BY <1>1, <1>2, <1>3, <1>4, <1>5, <1>6, <1>7 DEF Next, Loop, Handler

\* Nothing of an interactor is disposed of while one of its tasks may use it,
\* for any number of interactors and whichever threads the pool gives them.
THEOREM ClosedIsOverHolds == Spec => []ClosedIsOver
<1>1. Init => DisposeInv
  BY DEF Init, DisposeInv
<1>2. TypeOK /\ QueueInv /\ DisposeInv /\ [Next]_vars => DisposeInv'
  BY DisposeStep
<1>3. DisposeInv => ClosedIsOver
  BY DEF DisposeInv, ClosedIsOver
<1> QED
  BY <1>1, <1>2, <1>3, TypeCorrect, QueueHolds, PTL DEF Spec

-----------------------------------------------------------------------------
(* The refinement.                                                         *)

LEMMA SessionStep == TypeOK /\ QueueInv /\ [Next]_vars => [Contract!Next]_(Contract!vars)
<1> SUFFICES ASSUME TypeOK, QueueInv, [Next]_vars PROVE [Contract!Next]_(Contract!vars)
  OBVIOUS
<1>1. ASSUME NEW c \in Interactors, OnConnected(c) PROVE Contract!Connected(c)
  <2>1. 1 \in 1..Len(events) /\ events[1] = <<"connected", c>>
    BY <1>1, Taken DEF OnConnected
  <2>2. phase[c] = "new"
    BY <2>1 DEF QueueInv, FirstInv
  <2> QED
    BY <1>1, <2>2 DEF OnConnected, Dequeue, Contract!Connected, Contract!Handle
<1>2. ASSUME NEW c \in Interactors, OnMessage(c) PROVE Contract!Message(c)
  <2>1. 1 \in 1..Len(events) /\ events[1] = <<"message", c>>
    BY <1>2, Taken DEF OnMessage
  <2>2. phase[c] # "new" /\ reading[c]
    BY <2>1 DEF QueueInv, FirstInv, ReadInv
  <2> QED
    BY <1>2, <2>2 DEF OnMessage, Dequeue, Contract!Message, Contract!Handle
<1>3. ASSUME NEW c \in Interactors, NEW kind \in {"readError", "writeError"},
             DisposeCloses(kind, c)
      PROVE  Contract!ReadError(c) \/ Contract!WriteError(c)
  <2>1. Disposing(kind, c)
    BY <1>3 DEF DisposeCloses, Disposing, Places
  <2>2. phase[c] # "new"
    BY <2>1 DEF QueueInv, FirstInv
  <2>3. CASE kind = "readError"
    <3>1. reading[c]
      BY <2>1, <2>3 DEF QueueInv, ReadInv
    <3>2. reading' = [reading EXCEPT ![c] = FALSE] /\ writing' = writing
      <4>1. reading' = [reading EXCEPT ![c] = FALSE]
        BY <1>3, <2>3 DEF DisposeCloses
      <4>2. writing' = [writing EXCEPT ![c] = writing[c]] /\ writing \in [Interactors -> BOOLEAN]
        BY <1>3, <2>3 DEF DisposeCloses, TypeOK
      <4> QED
        BY <4>1, <4>2
    <3> QED
      BY <1>3, <2>2, <3>1, <3>2 DEF DisposeCloses, Contract!ReadError, Contract!Handle
  <2>4. CASE kind = "writeError"
    <3>1. writing[c]
      BY <2>1, <2>4 DEF QueueInv, WriteInv
    <3>2. writing' = [writing EXCEPT ![c] = FALSE] /\ reading' = reading
      <4>1. writing' = [writing EXCEPT ![c] = FALSE]
        BY <1>3, <2>4 DEF DisposeCloses
      <4>2. reading' = [reading EXCEPT ![c] = reading[c]] /\ reading \in [Interactors -> BOOLEAN]
        BY <1>3, <2>4 DEF DisposeCloses, TypeOK
      <4> QED
        BY <4>1, <4>2
    <3> QED
      BY <1>3, <2>2, <3>1, <3>2 DEF DisposeCloses, Contract!WriteError, Contract!Handle
  <2> QED
    BY <2>3, <2>4
<1>4. ASSUME NEW c \in Interactors, NEW kind \in {"readError", "writeError"},
             DisposeWaits(kind, c)
      PROVE  Contract!End \/ UNCHANGED Contract!vars
  BY <1>4 DEF DisposeWaits, WaitFor, Goto, handled, Contract!End, Contract!vars
<1>5. ASSUME LoopStops PROVE Contract!End
  BY <1>5 DEF LoopStops, handled, Contract!End
<1>6. ASSUME NEW c \in Interactors, Accept(c) \/ Send(c) \/ Leave(c) \/ OnError(c)
      PROVE  UNCHANGED Contract!vars
  BY <1>6 DEF Accept, Send, Leave, OnError, handled, Contract!vars
<1>7. ASSUME NEW c \in Interactors, ReadTask(c) \/ WriteTask(c)
      PROVE  UNCHANGED Contract!vars
  BY <1>7 DEF ReadTask, StartRead, TestRead, ReadMessage, ReadFails, LeaveRead,
              WriteTask, StartWrite, TestWrite, Take, Write, LeaveWrite, handled, Contract!vars
<1>8. ASSUME Stop \/ UNCHANGED vars PROVE UNCHANGED Contract!vars
  BY <1>8 DEF Stop, vars, handled, Contract!vars
<1> QED
  BY <1>1, <1>2, <1>3, <1>4, <1>5, <1>6, <1>7, <1>8 DEF Next, Loop, Handler, Contract!Next

\* The threads and the queue implement what the managers rely on: the order of
\* events that Distributor has in the guards of its actions.
THEOREM EventsAreOrderlyHolds == Spec => EventsAreOrderly
<1>1. Init => Contract!Init
  BY DEF Init, Contract!Init
<1>2. TypeOK /\ QueueInv /\ [Next]_vars => [Contract!Next]_(Contract!vars)
  BY SessionStep
<1> QED
  BY <1>1, <1>2, TypeCorrect, QueueHolds, PTL DEF Spec, EventsAreOrderly, Contract!Spec
=============================================================================
