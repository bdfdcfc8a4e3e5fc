-------------------------- MODULE AccountingProofs --------------------------
(***************************************************************************)
(* Proofs about Accounting: both gauges, for every set of interactors and  *)
(* feeds.                                                                  *)
(***************************************************************************)
EXTENDS Accounting, DistributorProofs, FiniteSetTheorems

-----------------------------------------------------------------------------
(* Accounting takes the steps of Distributor and no others.                *)

LEMMA AccountsImplement == AccountsSpec => Spec
<1>1. AccountsInit => Init
  BY DEF AccountsInit
<1>2. [AccountsNext]_<<vars, gauges>> => [Next]_vars
  BY DEF AccountsNext, ConnectAccount, CloseAccount, ThrowAccount, NotificationAccount, Uncounted, Next
<1> QED
  BY <1>1, <1>2, PTL DEF AccountsSpec, Spec

\* Subscriptions, answers and data move no interactor and no request.
LEMMA UncountedUnchanged ==
    ASSUME Uncounted
    PROVE  UNCHANGED <<loop, phase, reading, writing, notifiables, gauges>>
<1>1. ASSUME NEW c \in Interactors, NEW ft \in FeedTopics, NEW r, AcceptAuthorization(c, ft, r)
      PROVE  UNCHANGED <<loop, phase, reading, writing, notifiables>>
  BY <1>1 DEF AcceptAuthorization, lifecycle
<1>2. ASSUME NEW c \in Interactors, NEW ft \in FeedTopics,
             RequestSubscription(c, ft) \/ Unsubscribe(c, ft)
      PROVE  UNCHANGED <<loop, phase, reading, writing, notifiables>>
  BY <1>1, <1>2 DEF RequestSubscription, SubscribeAuthorized, SubscribeUnrequired,
                    SubscribeAsk, Unsubscribe, lifecycle, repositories
<1>3. ASSUME NEW a \in Interactors, NEW x \in Answers, Authorize(a, x[1], x[2], x[3])
      PROVE  UNCHANGED <<loop, phase, reading, writing, notifiables>>
  BY <1>1, <1>3, AnswersType DEF Authorize
<1>4. ASSUME OnData PROVE UNCHANGED <<loop, phase, reading, writing, notifiables>>
  BY <1>4 DEF OnData, SendMulticastData, SendUnicastData, SendHeartbeat, SendData, lifecycle
<1>5. UNCHANGED gauges
  BY DEF Uncounted
<1> QED
  BY <1>2, <1>3, <1>4, <1>5 DEF Uncounted

-----------------------------------------------------------------------------
(* The gauge of notification requests.                                     *)

FeedRequestsInv ==
    /\ feedRequestsGauge \in [Interactors -> [Feeds -> {0, 1}]]
    /\ FeedRequestsGaugeIsExact

\* A step that leaves both sides alone.
LEMMA FeedRequestsUnchanged ==
    ASSUME FeedRequestsInv, UNCHANGED <<notifiables, feedRequestsGauge>>
    PROVE  FeedRequestsInv'
BY DEF FeedRequestsInv, FeedRequestsGaugeIsExact

LEMMA NotificationAccountExact ==
    ASSUME TypeOK, FeedRequestsInv, NEW n \in Interactors, NEW f \in Feeds,
           NotificationAccount(n, f)
    PROVE  FeedRequestsInv'
<1>1. /\ notifiables' = [notifiables EXCEPT ![f] =
            IF n \in notifiables[f] THEN @ \ {n} ELSE @ \cup {n}]
      /\ feedRequestsGauge' = [feedRequestsGauge EXCEPT ![n][f] =
            IF n \in notifiables[f] THEN @ - 1 ELSE @ + 1]
  BY DEF NotificationAccount, AddNotification, RemoveNotification
<1>2. feedRequestsGauge[n][f] = IF n \in notifiables[f] THEN 1 ELSE 0
  BY DEF FeedRequestsInv, FeedRequestsGaugeIsExact
<1>3. feedRequestsGauge' = [feedRequestsGauge EXCEPT ![n][f] =
            IF n \in notifiables[f] THEN 0 ELSE 1]
  <2>1. CASE n \in notifiables[f]
    BY <1>1, <1>2, <2>1, 1 - 1 = 0
  <2>2. CASE n \notin notifiables[f]
    BY <1>1, <1>2, <2>2, 0 + 1 = 1
  <2> QED
    BY <2>1, <2>2
<1> QED
  BY <1>1, <1>3 DEF FeedRequestsInv, FeedRequestsGaugeIsExact, TypeOK

LEMMA CloseAccountExact ==
    ASSUME TypeOK, FeedRequestsInv, NEW c \in Interactors, CloseAccount(c)
    PROVE  FeedRequestsInv'
<1>1. notifiables' = [f \in Feeds |-> notifiables[f] \ {c}]
  BY DEF CloseAccount, ReadError, WriteError, CloseInteractor, RemoveInteractor
<1>2. \A f \in Feeds : RequestsWithout(c)[f] = 0
  BY DEF RequestsWithout, FeedRequestsInv, FeedRequestsGaugeIsExact
<1>3. feedRequestsGauge' = [feedRequestsGauge EXCEPT ![c] = [f \in Feeds |-> 0]]
  BY <1>2 DEF CloseAccount, RequestsWithout
<1> QED
  BY <1>1, <1>3 DEF FeedRequestsInv, FeedRequestsGaugeIsExact, TypeOK

LEMMA FeedRequestsStep ==
    TypeOK /\ FeedRequestsInv /\ [AccountsNext]_<<vars, gauges>> => FeedRequestsInv'
<1> SUFFICES ASSUME TypeOK, FeedRequestsInv, [AccountsNext]_<<vars, gauges>>
             PROVE  FeedRequestsInv'
  OBVIOUS
<1>1. ASSUME NEW c \in Interactors, ConnectAccount(c) PROVE FeedRequestsInv'
  BY <1>1, FeedRequestsUnchanged DEF ConnectAccount, Connect
<1>2. ASSUME Uncounted PROVE FeedRequestsInv'
  BY <1>2, UncountedUnchanged, FeedRequestsUnchanged DEF gauges
<1>3. ASSUME UNCHANGED <<vars, gauges>> PROVE FeedRequestsInv'
  BY <1>3, FeedRequestsUnchanged DEF vars, gauges, repositories
<1>4. ASSUME NEW c \in Interactors, ThrowAccount(c) PROVE FeedRequestsInv'
  BY <1>4, FeedRequestsUnchanged DEF ThrowAccount, DisposeThrows
<1> QED
  BY <1>1, <1>2, <1>3, <1>4, NotificationAccountExact, CloseAccountExact DEF AccountsNext

\* The gauge of notification requests counts the requests there are.
THEOREM FeedRequestsGaugeIsExactHolds == AccountsSpec => []FeedRequestsGaugeIsExact
<1>1. AccountsInit => FeedRequestsInv
  BY DEF AccountsInit, Init, FeedRequestsInv, FeedRequestsGaugeIsExact
<1>2. TypeOK /\ FeedRequestsInv /\ [AccountsNext]_<<vars, gauges>> => FeedRequestsInv'
  BY FeedRequestsStep
<1>3. FeedRequestsInv => FeedRequestsGaugeIsExact
  BY DEF FeedRequestsInv
<1> QED
  BY <1>1, <1>2, <1>3, AccountsImplement, TypeCorrect, PTL DEF AccountsSpec

-----------------------------------------------------------------------------
(* The gauge of interactors.                                               *)

Connected == {c \in Interactors : Live(c)}

\* A step that moves no interactor.
LEMMA InteractorsUnchanged ==
    ASSUME InteractorsGaugeFallsBehind, UNCHANGED <<loop, phase, reading, writing, interactorsGauge>>
    PROVE  InteractorsGaugeFallsBehind'
BY DEF InteractorsGaugeFallsBehind, TwiceRemoved, Live

LEMMA ConnectAccountExact ==
    ASSUME IsFiniteSet(Interactors), TypeOK, InteractorsGaugeFallsBehind,
           NEW c \in Interactors, ConnectAccount(c)
    PROVE  InteractorsGaugeFallsBehind'
<1>1. /\ phase[c] = "new" /\ phase' = [phase EXCEPT ![c] = "live"]
      /\ loop = "running" /\ UNCHANGED <<reading, writing>>
      /\ interactorsGauge' = interactorsGauge + 1
  BY DEF ConnectAccount, Connect
<1>2. Connected' = Connected \cup {c} /\ c \notin Connected
  BY <1>1 DEF Connected, Live, TypeOK
<1>3. IsFiniteSet(Connected) /\ IsFiniteSet(TwiceRemoved)
  BY FS_Subset DEF Connected, TwiceRemoved
<1>4. Cardinality(Connected') = Cardinality(Connected) + 1
  BY <1>2, <1>3, FS_AddElement
<1>5. TwiceRemoved' = TwiceRemoved
  BY <1>1 DEF TwiceRemoved
<1>6. Cardinality(Connected) \in Int /\ Cardinality(TwiceRemoved) \in Int
  BY <1>3, FS_CardinalityType
<1>7. interactorsGauge = Cardinality(Connected) - Cardinality(TwiceRemoved)
  BY <1>1 DEF InteractorsGaugeFallsBehind, Connected
<1>8. interactorsGauge' = Cardinality(Connected') - Cardinality(TwiceRemoved')
  BY <1>1, <1>4, <1>5, <1>6, <1>7
<1> QED
  BY <1>8 DEF InteractorsGaugeFallsBehind, Connected

LEMMA CloseAccountRemoves ==
    ASSUME IsFiniteSet(Interactors), TypeOK, ErrorsInv, InteractorsGaugeFallsBehind,
           NEW c \in Interactors, CloseAccount(c)
    PROVE  InteractorsGaugeFallsBehind'
<1>1. /\ loop = "running"
      /\ phase[c] # "new" /\ phase' = [phase EXCEPT ![c] = "closed"]
      /\ interactorsGauge' = interactorsGauge - 1
  BY DEF CloseAccount, ReadError, WriteError, CloseInteractor
<1>2. \/ /\ reading[c] /\ reading' = [reading EXCEPT ![c] = FALSE]
         /\ UNCHANGED writing
      \/ /\ writing[c] /\ writing' = [writing EXCEPT ![c] = FALSE]
         /\ UNCHANGED reading
  BY DEF CloseAccount, ReadError, WriteError
<1>3. IsFiniteSet(Connected) /\ IsFiniteSet(TwiceRemoved)
  BY FS_Subset DEF Connected, TwiceRemoved
<1>4. Cardinality(Connected) \in Int /\ Cardinality(TwiceRemoved) \in Int
  BY <1>3, FS_CardinalityType
<1>5. interactorsGauge = Cardinality(Connected) - Cardinality(TwiceRemoved)
  BY <1>1 DEF InteractorsGaugeFallsBehind, Connected
<1>6. c \notin TwiceRemoved
  BY <1>2 DEF TwiceRemoved
<1>7. CASE phase[c] = "live"
  <2>1. reading[c] /\ writing[c]
    BY <1>7 DEF ErrorsInv
  <2>2. Connected' = Connected \ {c} /\ c \in Connected
    BY <1>1, <1>7 DEF Connected, Live, TypeOK
  <2>3. Cardinality(Connected') = Cardinality(Connected) - 1
    BY <1>3, <2>2, FS_RemoveElement
  <2>4. TwiceRemoved' = TwiceRemoved
    BY <1>2, <2>1 DEF TwiceRemoved, TypeOK
  <2>5. interactorsGauge' = Cardinality(Connected') - Cardinality(TwiceRemoved')
    BY <1>1, <1>4, <1>5, <2>3, <2>4
  <2> QED
    BY <2>5 DEF InteractorsGaugeFallsBehind, Connected
<1>8. CASE phase[c] = "closed"
  <2>1. ~reading[c] \/ ~writing[c]
    BY <1>8 DEF ErrorsInv
  <2>2. TwiceRemoved' = TwiceRemoved \cup {c}
    BY <1>2, <2>1 DEF TwiceRemoved, TypeOK
  <2>3. Cardinality(TwiceRemoved') = Cardinality(TwiceRemoved) + 1
    BY <1>3, <1>6, <2>2, FS_AddElement
  <2>4. Connected' = Connected
    BY <1>1, <1>8 DEF Connected, Live, TypeOK
  <2>5. interactorsGauge' = Cardinality(Connected') - Cardinality(TwiceRemoved')
    BY <1>1, <1>4, <1>5, <2>3, <2>4
  <2> QED
    BY <2>5 DEF InteractorsGaugeFallsBehind, Connected
<1> QED
  BY <1>1, <1>7, <1>8 DEF TypeOK

LEMMA ThrowAccountFallsBehind ==
    ASSUME IsFiniteSet(Interactors), InteractorsGaugeFallsBehind,
           NEW c \in Interactors, ThrowAccount(c)
    PROVE  InteractorsGaugeFallsBehind'
<1>1. /\ loop = "running" /\ loop' = "faulted"
      /\ UNCHANGED <<phase, reading, writing>>
      /\ interactorsGauge' = interactorsGauge - 1
  BY DEF ThrowAccount, DisposeThrows
<1>2. interactorsGauge = Cardinality(Connected) - Cardinality(TwiceRemoved)
  BY <1>1 DEF InteractorsGaugeFallsBehind, Connected
<1>3. interactorsGauge' = Cardinality(Connected) - Cardinality(TwiceRemoved) - 1
  BY <1>1, <1>2
<1>4. Connected' = Connected /\ TwiceRemoved' = TwiceRemoved
  BY <1>1 DEF Connected, TwiceRemoved, Live
<1>5. interactorsGauge' = Cardinality(Connected') - Cardinality(TwiceRemoved') - 1
  BY <1>3, <1>4
<1> QED
  BY <1>1, <1>5 DEF InteractorsGaugeFallsBehind, Connected

LEMMA InteractorsStep ==
    IsFiniteSet(Interactors) /\ TypeOK /\ ErrorsInv /\ InteractorsGaugeFallsBehind
        /\ [AccountsNext]_<<vars, gauges>> => InteractorsGaugeFallsBehind'
<1> SUFFICES ASSUME IsFiniteSet(Interactors), TypeOK, ErrorsInv, InteractorsGaugeFallsBehind,
                    [AccountsNext]_<<vars, gauges>>
             PROVE  InteractorsGaugeFallsBehind'
  OBVIOUS
<1>1. ASSUME NEW n \in Interactors, NEW f \in Feeds, NotificationAccount(n, f)
      PROVE  InteractorsGaugeFallsBehind'
  <2>1. loop = "running" /\ UNCHANGED <<phase, reading, writing, interactorsGauge>>
    BY <1>1 DEF NotificationAccount, AddNotification, RemoveNotification, CanSend, lifecycle
  <2> QED
    BY <2>1 DEF InteractorsGaugeFallsBehind, TwiceRemoved, Live
<1>2. ASSUME Uncounted PROVE InteractorsGaugeFallsBehind'
  BY <1>2, UncountedUnchanged, InteractorsUnchanged DEF gauges
<1>3. ASSUME UNCHANGED <<vars, gauges>> PROVE InteractorsGaugeFallsBehind'
  BY <1>3, InteractorsUnchanged DEF vars, gauges, lifecycle
<1> QED
  BY <1>1, <1>2, <1>3, ConnectAccountExact, CloseAccountRemoves, ThrowAccountFallsBehind
  DEF AccountsNext

\* How far the gauge of interactors is from the number of interactors, for any
\* finite set of them: one too low for each that was removed twice and, once the
\* loop has ended, perhaps for the one whose Dispose threw.
THEOREM InteractorsGaugeFallsBehindHolds ==
    ASSUME IsFiniteSet(Interactors)
    PROVE  AccountsSpec => []InteractorsGaugeFallsBehind
<1>1. AccountsInit => InteractorsGaugeFallsBehind
  <2> SUFFICES ASSUME AccountsInit PROVE InteractorsGaugeFallsBehind
    OBVIOUS
  <2>1. Connected = {} /\ TwiceRemoved = {}
    BY DEF AccountsInit, Init, Connected, TwiceRemoved, Live
  <2> QED
    BY <2>1, FS_EmptySet DEF AccountsInit, InteractorsGaugeFallsBehind, Connected
<1>2. TypeOK /\ ErrorsInv /\ InteractorsGaugeFallsBehind /\ [AccountsNext]_<<vars, gauges>>
        => InteractorsGaugeFallsBehind'
  BY InteractorsStep
<1> QED
  BY <1>1, <1>2, AccountsImplement, TypeCorrect, ErrorsHold, PTL DEF AccountsSpec
=============================================================================
