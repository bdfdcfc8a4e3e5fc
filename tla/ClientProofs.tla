---------------------------- MODULE ClientProofs ----------------------------
(***************************************************************************)
(* The client library, for any number of requests and messages: its types, *)
(* which say that nothing is lost between the stream and the handlers, and *)
(* that a client told of the end of the connection has every message, if   *)
(* none of its handlers has thrown.                                        *)
(***************************************************************************)
EXTENDS Client, TLAPS

LEMMA ReportType ==
    ASSUME TypeOK, NEW state \in {"Closed", "Faulted"}, ReportRead(state)
    PROVE  reports' \subseteq {"read", "write"} \X {"Closed", "Faulted"}
BY DEF TypeOK, ReportRead

LEMMA TypeStep == TypeOK /\ [Next]_vars => TypeOK'
<1> SUFFICES ASSUME TypeOK, [Next]_vars PROVE TypeOK'
  OBVIOUS
<1> USE ConstantsAssumption DEF TypeOK, LoopStates, Over, outside, requests, incoming
<1>1. CASE ServerSends
  BY <1>1 DEF ServerSends
<1>2. CASE ServerLeaves
  BY <1>2 DEF ServerLeaves
<1>3. CASE Start
  BY <1>3 DEF Start
<1>4. CASE Request
  BY <1>4 DEF Request
<1>5. CASE Dispose
  BY <1>5 DEF Dispose
<1>6. CASE ReadLoop
  <2>1. CASE StartRead \/ TestRead
    BY <2>1 DEF StartRead, TestRead
  <2>2. CASE ReadMessage
    BY <2>2 DEF ReadMessage
  <2>3. CASE Handled
    <3>1. reports' \subseteq {"read", "write"} \X {"Closed", "Faulted"}
      BY <2>3, ReportType DEF Handled
    <3>2. thrown' \in BOOLEAN
      BY <2>3 DEF Handled
    <3>3. readLoop' \in LoopStates
      BY <2>3 DEF Handled, ReportRead
    <3> QED
      BY <2>3, <3>1, <3>2, <3>3 DEF Handled
  <2>4. CASE ReadFails
    <3>1. reports' \subseteq {"read", "write"} \X {"Closed", "Faulted"}
      BY <2>4, ReportType DEF ReadFails
    <3>2. readLoop' \in LoopStates
      BY <2>4 DEF ReadFails, ReportRead
    <3> QED
      BY <2>4, <3>1, <3>2 DEF ReadFails
  <2> QED
    BY <1>6, <2>1, <2>2, <2>3, <2>4 DEF ReadLoop
<1>7. CASE WriteLoop
  <2>1. CASE StartWrite \/ TestWrite
    BY <2>1 DEF StartWrite, TestWrite
  <2>2. CASE Take
    BY <2>2 DEF Take
  <2>3. CASE Write
    <3>1. reports' \subseteq {"read", "write"} \X {"Closed", "Faulted"}
      BY <2>3 DEF Write
    <3>2. writeLoop' \in LoopStates
      BY <2>3 DEF Write
    <3>3. written' \in Nat /\ written' + queued <= requested
      BY <2>3 DEF Write
    <3>4. writeLoop' # "writing"
      BY <2>3 DEF Write
    <3>5. UNCHANGED <<connection, sent, unread, given, requested, queued, readLoop, disposed, thrown>>
      BY <2>3 DEF Write
    <3> QED
      BY <3>1, <3>2, <3>3, <3>4, <3>5
  <2> QED
    BY <1>7, <2>1, <2>2, <2>3 DEF WriteLoop
<1>8. CASE UNCHANGED vars
  BY <1>8 DEF vars
<1> HIDE DEF TypeOK
<1> QED
  BY <1>1, <1>2, <1>3, <1>4, <1>5, <1>6, <1>7, <1>8 DEF Next

\* Every message the client has been sent is with a handler, or still to be read,
\* and no request is written twice.
THEOREM TypeCorrect == Spec => []TypeOK
<1>1. ASSUME Init PROVE TypeOK
  <2> USE <1>1 DEF Init
  <2>1. /\ connection \in {"up", "closed", "cut", "reset"} /\ disposed \in {"no", "cancelled", "closed"}
        /\ readLoop \in LoopStates /\ writeLoop \in LoopStates
    BY DEF LoopStates
  <2>2. sent \in 0..SendBound /\ requested \in 0..RequestBound
    BY ConstantsAssumption
  <2>3. thrown \in BOOLEAN /\ reports \subseteq {"read", "write"} \X {"Closed", "Faulted"}
    OBVIOUS
  <2>4. given + unread = sent /\ written + queued <= requested /\ writeLoop # "writing"
    OBVIOUS
  <2> QED
    BY <2>1, <2>2, <2>3, <2>4 DEF TypeOK
<1> QED
  BY <1>1, TypeStep, PTL DEF Spec

-----------------------------------------------------------------------------
\* Once the end of the connection is reported, and not because of a handler, there
\* is nothing left to be read, and nothing will come.
EndInv == <<"read", "Closed">> \in reports /\ ~thrown => unread = 0 /\ connection # "up"

LEMMA EndStep == TypeOK /\ EndInv /\ [Next]_vars => EndInv'
<1> SUFFICES ASSUME TypeOK, EndInv, [Next]_vars PROVE EndInv'
  OBVIOUS
<1> USE DEF EndInv, outside, requests, incoming
<1>1. CASE ServerSends \/ ServerLeaves
  BY <1>1 DEF ServerSends, ServerLeaves
<1>2. CASE Start \/ Request \/ Dispose
  BY <1>2 DEF Start, Request, Dispose
<1>3. CASE ReadLoop
  <2>1. CASE StartRead \/ TestRead
    BY <2>1 DEF StartRead, TestRead
  <2>2. CASE ReadMessage
    BY <2>2 DEF ReadMessage
  <2>3. CASE Handled
    BY <2>3 DEF Handled, ReportRead
  <2>4. CASE ReadFails
    BY <2>4 DEF ReadFails, ReportRead
  <2> QED
    BY <1>3, <2>1, <2>2, <2>3, <2>4 DEF ReadLoop
<1>4. CASE WriteLoop
  <2>1. CASE StartWrite \/ TestWrite \/ Take
    BY <2>1 DEF StartWrite, TestWrite, Take
  <2>2. CASE Write
    BY <2>2 DEF Write
  <2> QED
    BY <1>4, <2>1, <2>2 DEF WriteLoop
<1>5. CASE UNCHANGED vars
  BY <1>5 DEF vars
<1> QED
  BY <1>1, <1>2, <1>3, <1>4, <1>5 DEF Next

\* Client.Read: a client told that the connection was closed has been given every
\* message, whatever its write loop and its application do, unless a handler threw.
THEOREM ClosedIsCompleteHolds == Spec => []ClosedIsComplete
<1>1. Init => EndInv
  BY DEF Init, EndInv
<1>2. TypeOK /\ EndInv => ClosedIsComplete
  BY DEF TypeOK, EndInv, ClosedIsComplete
<1> QED
  BY <1>1, <1>2, TypeCorrect, EndStep, PTL DEF Spec
=============================================================================
