------------------------- MODULE DistributorProofs -------------------------
(***************************************************************************)
(* Proofs about Distributor, for every value of its constants: its types   *)
(* and what its repositories hold; then what notifiable clients know of    *)
(* subscriptions, what the repositories keep of a client that is gone, and *)
(* which answer a subscription filters by.                                 *)
(***************************************************************************)
EXTENDS Distributor, TLAPS

-----------------------------------------------------------------------------
(* What the operators on a subscription's state return.                    *)

LEMMA AddSubscriptionStateType ==
    ASSUME NEW state \in SubscriptionState \cup {None}, NEW r \in Authorization,
           NEW isAuthorizationUpdate \in BOOLEAN
    PROVE  AddSubscriptionState(state, r, isAuthorizationUpdate) \in SubscriptionState
BY ConstantsAssumption DEF AddSubscriptionState, SubscriptionState

LEMMA RemoveSubscriptionStateType ==
    ASSUME NEW state \in SubscriptionState \cup {None}
    PROVE  RemoveSubscriptionState(state) \in SubscriptionState \cup {None}
BY ConstantsAssumption DEF RemoveSubscriptionState, SubscriptionState

\* A table of clients and topics keeps its type when one entry is replaced.
LEMMA UpdateType ==
    ASSUME NEW S, NEW table \in [Interactors -> [FeedTopics -> S]],
           NEW c \in Interactors, NEW ft \in FeedTopics, NEW x \in S
    PROVE  [table EXCEPT ![c][ft] = x] \in [Interactors -> [FeedTopics -> S]]
OBVIOUS

LEMMA AddSubscriptionType ==
    ASSUME TypeOK, NEW c \in Interactors, NEW ft \in FeedTopics, NEW r \in Authorization,
           NEW isAuthorizationUpdate \in BOOLEAN,
           AddSubscription(c, ft, r, isAuthorizationUpdate)
    PROVE  subscriptions' \in [Interactors -> [FeedTopics -> SubscriptionState \cup {None}]]
<1>1. subscriptions[c][ft] \in SubscriptionState \cup {None}
  BY DEF TypeOK
<1>2. AddSubscriptionState(subscriptions[c][ft], r, isAuthorizationUpdate)
        \in SubscriptionState \cup {None}
  BY <1>1, AddSubscriptionStateType
<1> QED
  BY <1>2, UpdateType DEF TypeOK, AddSubscription

LEMMA NotRequiredType == NotRequired \in Authorization
BY DEF NotRequired, Authorization

LEMMA AnswersType ==
    ASSUME NEW x \in Answers
    PROVE  x[1] \in Interactors /\ x[2] \in FeedTopics /\ x[3] \in Authorization
<1>1. x \in Interactors \X FeedTopics \X Authorization
  BY ConstantsAssumption
<1> QED
  BY <1>1

-----------------------------------------------------------------------------
(* The type invariant.                                                     *)

LEMMA ForwardAddType ==
    ASSUME TypeOK, NEW c \in Interactors, NEW ft \in FeedTopics, ForwardAdd(c, ft)
    PROVE  /\ announced' \in [Interactors -> SUBSET Keys]
           /\ news' \in [Interactors -> SUBSET Keys]
<1>1. <<c, ft>> \in Keys
  BY DEF Keys
<1> QED
  BY <1>1 DEF TypeOK, ForwardAdd

LEMMA ForwardRemoveType ==
    ASSUME TypeOK, NEW c \in Interactors, NEW ft \in FeedTopics, ForwardRemove(c, ft)
    PROVE  /\ announced' \in [Interactors -> SUBSET Keys]
           /\ news' \in [Interactors -> SUBSET Keys]
BY DEF TypeOK, ForwardRemove

LEMMA AcceptAuthorizationType ==
    ASSUME TypeOK, NEW c \in Interactors, NEW ft \in FeedTopics, NEW r \in Authorization,
           AcceptAuthorization(c, ft, r),
           grants' \in [Interactors -> [FeedTopics -> SUBSET Authorization]]
    PROVE  TypeOK'
<1>1. subscriptions' \in [Interactors -> [FeedTopics -> SubscriptionState \cup {None}]]
  <2>1. CASE Denies(r)
    BY <2>1 DEF TypeOK, AcceptAuthorization, OnAuthorizationResponse
  <2>2. CASE ~Denies(r)
    BY <2>2, AddSubscriptionType
    DEF AcceptAuthorization, OnAuthorizationResponse, IsInitial
  <2> QED
    BY <2>1, <2>2
<1>2. /\ announced' \in [Interactors -> SUBSET Keys]
      /\ news' \in [Interactors -> SUBSET Keys]
  BY ForwardAddType
  DEF TypeOK, AcceptAuthorization, OnAuthorizationResponse, AddSubscription
<1>3. authorizations' \in [Interactors -> [FeedTopics -> Authorization \cup {None}]]
  BY DEF TypeOK, AcceptAuthorization
<1>4. fresh' \in [FeedTopics -> SUBSET Interactors]
  <2>1. fresh' = [fresh EXCEPT ![ft] = @ \ {c}] \/ fresh' = fresh
    BY DEF AcceptAuthorization, OnAuthorizationResponse
  <2>2. fresh \in [FeedTopics -> SUBSET Interactors]
    BY DEF TypeOK
  <2>3. fresh[ft] \ {c} \in SUBSET Interactors
    BY <2>2
  <2> QED
    BY <2>1, <2>2, <2>3
<1>5. answer' \in [Interactors -> [FeedTopics -> Authorization \cup {None}]]
  BY DEF TypeOK, AcceptAuthorization
<1> QED
  BY <1>1, <1>2, <1>3, <1>4, <1>5 DEF TypeOK, AcceptAuthorization, lifecycle

LEMMA SendDataType ==
    ASSUME TypeOK, NEW p \in Publishers, NEW ft \in FeedTopics,
           NEW receivers \in SUBSET Interactors, NEW packets \in SUBSET Packet,
           SendData(p, ft, receivers, packets)
    PROVE  TypeOK'
BY DEF TypeOK, SendData, GetAuthorizedData, lifecycle, Publishers

LEMMA CloseInteractorType ==
    ASSUME TypeOK, NEW c \in Interactors, CloseInteractor(c),
           reading' \in [Interactors -> BOOLEAN], writing' \in [Interactors -> BOOLEAN],
           silent' \subseteq Interactors
    PROVE  TypeOK'
BY DEF TypeOK, CloseInteractor, RemoveInteractor

LEMMA TypeStep == TypeOK /\ [Next]_vars => TypeOK'
<1> SUFFICES ASSUME TypeOK, [Next]_vars PROVE TypeOK'
  OBVIOUS
<1>1. ASSUME NEW c \in Interactors, Connect(c) PROVE TypeOK'
  BY <1>1, ConstantsAssumption DEF TypeOK, Connect, FeedRoles
<1>2. ASSUME NEW c \in Interactors, ReadError(c) \/ WriteError(c) PROVE TypeOK'
  <2>1. /\ CloseInteractor(c)
        /\ reading' \in [Interactors -> BOOLEAN]
        /\ writing' \in [Interactors -> BOOLEAN]
    BY <1>2 DEF TypeOK, ReadError, WriteError
  <2>2. silent' = silent \/ silent' = silent \cup {c}
    <3>1. CASE ReadError(c)
      BY <3>1 DEF ReadError
    <3>2. CASE WriteError(c)
      BY <3>2 DEF WriteError
    <3> QED
      BY <1>2, <3>1, <3>2
  <2>3. silent' \subseteq Interactors
    BY <2>2 DEF TypeOK
  <2> QED
    BY <2>1, <2>3, CloseInteractorType
<1>3. ASSUME NEW c \in Interactors, NEW ft \in FeedTopics, SubscribeAuthorized(c, ft)
      PROVE  TypeOK'
  <2>1. subscriptions' \in [Interactors -> [FeedTopics -> SubscriptionState \cup {None}]]
    <3>1. /\ authorizations[c][ft] # None
          /\ AddSubscription(c, ft, authorizations[c][ft], FALSE)
      BY <1>3 DEF SubscribeAuthorized
    <3>2. authorizations[c][ft] \in Authorization \cup {None}
      BY DEF TypeOK
    <3> QED
      BY <3>1, <3>2, AddSubscriptionType
  <2>2. /\ announced' \in [Interactors -> SUBSET Keys]
        /\ news' \in [Interactors -> SUBSET Keys]
    BY <1>3, ForwardAddType DEF SubscribeAuthorized, AddSubscription
  <2> QED
    BY <1>3, <2>1, <2>2 DEF TypeOK, SubscribeAuthorized, lifecycle
<1>4. ASSUME NEW c \in Interactors, NEW ft \in FeedTopics, SubscribeUnrequired(c, ft)
      PROVE  TypeOK'
  BY <1>4, AcceptAuthorizationType, NotRequiredType DEF TypeOK, SubscribeUnrequired
<1>5. ASSUME NEW c \in Interactors, NEW ft \in FeedTopics, SubscribeAsk(c, ft)
      PROVE  TypeOK'
  <2>1. <<c, ft>> \in Keys
    BY DEF Keys
  <2>2. asked' \in [Interactors -> SUBSET Keys]
    BY <1>5, <2>1 DEF TypeOK, SubscribeAsk
  <2> QED
    BY <1>5, <2>2 DEF TypeOK, SubscribeAsk, lifecycle, repositories
<1>6. ASSUME NEW c \in Interactors, NEW ft \in FeedTopics, Unsubscribe(c, ft)
      PROVE  TypeOK'
  <2>1. subscriptions' \in [Interactors -> [FeedTopics -> SubscriptionState \cup {None}]]
    BY <1>6, RemoveSubscriptionStateType DEF TypeOK, Unsubscribe
  <2>2. /\ announced' \in [Interactors -> SUBSET Keys]
        /\ news' \in [Interactors -> SUBSET Keys]
        /\ fresh' \in [FeedTopics -> SUBSET Interactors]
    BY <1>6, ForwardRemoveType DEF TypeOK, Unsubscribe
  <2> QED
    BY <1>6, <2>1, <2>2 DEF TypeOK, Unsubscribe, lifecycle
<1>7. ASSUME NEW a \in Interactors, NEW x \in Answers, Authorize(a, x[1], x[2], x[3])
      PROVE  TypeOK'
  <2>1. grants' \in [Interactors -> [FeedTopics -> SUBSET Authorization]]
    BY <1>7, AnswersType DEF TypeOK, Authorize
  <2> QED
    BY <1>7, <2>1, AcceptAuthorizationType, AnswersType DEF Authorize
<1>8. ASSUME NEW n \in Interactors, NEW f \in Feeds, AddNotification(n, f)
      PROVE  TypeOK'
  BY <1>8 DEF TypeOK, AddNotification, SubscribersToFeed
<1>9. ASSUME NEW n \in Interactors, NEW f \in Feeds, RemoveNotification(n, f)
      PROVE  TypeOK'
  BY <1>9 DEF TypeOK, RemoveNotification, lifecycle
<1>10. ASSUME OnData PROVE TypeOK'
  <2>1. ASSUME NEW p \in Interactors, NEW ft \in FeedTopics, NEW packets \in Messages,
               SendMulticastData(p, ft, packets)
        PROVE  TypeOK'
    BY <2>1, SendDataType, ConstantsAssumption DEF SendMulticastData, Subscribers, Publishers
  <2>2. ASSUME NEW p \in Interactors, NEW c \in Interactors, NEW ft \in FeedTopics,
               NEW packets \in Messages, SendUnicastData(p, c, ft, packets)
        PROVE  TypeOK'
    BY <2>2, SendDataType, ConstantsAssumption DEF SendUnicastData, Publishers
  <2>3. ASSUME SendHeartbeat PROVE TypeOK'
    BY <2>3, SendDataType DEF SendHeartbeat, Subscribers, Publishers, Packet
  <2> QED
    BY <1>10, <2>1, <2>2, <2>3 DEF OnData
<1>11. ASSUME NEW c \in Interactors, DisposeThrows(c) PROVE TypeOK'
  BY <1>11 DEF TypeOK, DisposeThrows
<1>12. ASSUME UNCHANGED vars PROVE TypeOK'
  BY <1>12 DEF TypeOK, vars, lifecycle, repositories, told
<1> QED
  BY <1>1, <1>2, <1>3, <1>4, <1>5, <1>6, <1>7, <1>8, <1>9, <1>10, <1>11, <1>12
  DEF Next, RequestSubscription

\* Every variable keeps its type: the state the handlers of the managers
\* reach is the one their repositories are declared to hold.
THEOREM TypeCorrect == Spec => []TypeOK
<1>1. Init => TypeOK
  BY DEF Init, TypeOK
<1> QED
  BY <1>1, TypeStep, PTL DEF Spec

-----------------------------------------------------------------------------
(* Images and publishers.                                                  *)

LEMMA AddedIsSubscribed ==
    ASSUME TypeOK, NEW c \in Interactors, NEW ft \in FeedTopics, NEW r \in Authorization,
           NEW isAuthorizationUpdate \in BOOLEAN,
           AddSubscription(c, ft, r, isAuthorizationUpdate),
           NEW d \in Interactors, NEW gt \in FeedTopics, IsSubscribed(d, gt)
    PROVE  IsSubscribed(d, gt)'
<1>1. subscriptions[c][ft] \in SubscriptionState \cup {None}
  BY DEF TypeOK
<1>2. AddSubscriptionState(subscriptions[c][ft], r, isAuthorizationUpdate) \in SubscriptionState
  BY <1>1, AddSubscriptionStateType
<1>3. AddSubscriptionState(subscriptions[c][ft], r, isAuthorizationUpdate) # None
  BY <1>2, ConstantsAssumption
<1> QED
  BY <1>3 DEF TypeOK, AddSubscription, IsSubscribed

LEMMA AcceptedIsSubscribed ==
    ASSUME TypeOK, NEW c \in Interactors, NEW ft \in FeedTopics, NEW r \in Authorization,
           AcceptAuthorization(c, ft, r),
           NEW d \in Interactors, NEW gt \in FeedTopics, IsSubscribed(d, gt)
    PROVE  IsSubscribed(d, gt)'
<1>1. CASE Denies(r)
  BY <1>1 DEF AcceptAuthorization, OnAuthorizationResponse, IsSubscribed
<1>2. CASE ~Denies(r)
  BY <1>2, AddedIsSubscribed DEF AcceptAuthorization, OnAuthorizationResponse, IsInitial
<1> QED
  BY <1>1, <1>2

LEMMA AcceptAuthorizationFresh ==
    ASSUME TypeOK, FreshHasPublisher, NEW c \in Interactors, NEW ft \in FeedTopics,
           NEW r \in Authorization, AcceptAuthorization(c, ft, r)
    PROVE  FreshHasPublisher'
<1>1. fresh' = [fresh EXCEPT ![ft] = @ \ {c}] \/ fresh' = fresh
  BY DEF AcceptAuthorization, OnAuthorizationResponse
<1>2. \A gt \in FeedTopics : fresh'[gt] \subseteq fresh[gt]
  BY <1>1 DEF TypeOK
<1>3. publishers' = publishers
  BY DEF AcceptAuthorization
<1> QED
  BY <1>2, <1>3, AcceptedIsSubscribed DEF FreshHasPublisher, TypeOK

LEMMA SendDataFresh ==
    ASSUME TypeOK, FreshHasPublisher, NEW p \in Publishers, NEW ft \in FeedTopics,
           NEW receivers \in SUBSET Subscribers(ft), NEW packets \in SUBSET Packet,
           SendData(p, ft, receivers, packets)
    PROVE  FreshHasPublisher'
<1>1. subscriptions' = subscriptions
  BY DEF SendData
<1>2. \A gt \in FeedTopics : fresh'[gt] \subseteq fresh[gt] \cup (IF gt = ft THEN receivers ELSE {})
  BY DEF SendData, TypeOK
<1>3. \A gt \in FeedTopics : publishers[gt] \subseteq publishers'[gt]
  BY DEF SendData, TypeOK
<1>4. receivers # {} => publishers'[ft] # {}
  BY DEF SendData, TypeOK
<1> QED
  BY <1>1, <1>2, <1>3, <1>4 DEF FreshHasPublisher, Subscribers, IsSubscribed

LEMMA CloseInteractorFresh ==
    ASSUME TypeOK, FreshHasPublisher, NEW c \in Interactors, CloseInteractor(c)
    PROVE  FreshHasPublisher'
<1> SUFFICES ASSUME NEW ft \in FeedTopics, NEW d \in fresh'[ft]
             PROVE  IsSubscribed(d, ft)' /\ publishers'[ft] # {}
  BY DEF FreshHasPublisher
<1>1. d \in fresh[ft] /\ d # c /\ ~(ft \in StaleTopics(c) /\ IsSubscribed(d, ft))
  BY DEF CloseInteractor
<1>2. IsSubscribed(d, ft) /\ publishers[ft] # {}
  BY <1>1 DEF FreshHasPublisher
<1>3. publishers[ft] # {c}
  BY <1>1, <1>2 DEF StaleTopics
<1>4. publishers'[ft] = publishers[ft] \ {c}
  BY DEF CloseInteractor
<1>5. d \in Interactors
  BY <1>1 DEF TypeOK
<1>6. IsSubscribed(d, ft)'
  BY <1>1, <1>2, <1>5 DEF CloseInteractor, IsSubscribed, TypeOK
<1> QED
  BY <1>2, <1>3, <1>4, <1>6

LEMMA FreshStep == TypeOK /\ FreshHasPublisher /\ [Next]_vars => FreshHasPublisher'
<1> SUFFICES ASSUME TypeOK, FreshHasPublisher, [Next]_vars PROVE FreshHasPublisher'
  OBVIOUS
<1> USE DEF FreshHasPublisher, IsSubscribed
<1>1. ASSUME NEW c \in Interactors, Connect(c) \/ DisposeThrows(c) PROVE FreshHasPublisher'
  BY <1>1 DEF Connect, DisposeThrows
<1>2. ASSUME NEW c \in Interactors, ReadError(c) \/ WriteError(c) PROVE FreshHasPublisher'
  BY <1>2, CloseInteractorFresh DEF ReadError, WriteError
<1>3. ASSUME NEW c \in Interactors, NEW ft \in FeedTopics, SubscribeAuthorized(c, ft)
      PROVE  FreshHasPublisher'
  <2>1. authorizations[c][ft] \in Authorization
    BY <1>3 DEF SubscribeAuthorized, TypeOK
  <2>2. AddSubscription(c, ft, authorizations[c][ft], FALSE) /\ FALSE \in BOOLEAN
    BY <1>3 DEF SubscribeAuthorized
  <2>3. \A d \in Interactors, gt \in FeedTopics : IsSubscribed(d, gt) => IsSubscribed(d, gt)'
    BY <2>1, <2>2, AddedIsSubscribed
  <2> QED
    BY <1>3, <2>3 DEF SubscribeAuthorized, TypeOK
<1>4. ASSUME NEW c \in Interactors, NEW ft \in FeedTopics, SubscribeUnrequired(c, ft)
      PROVE  FreshHasPublisher'
  BY <1>4, AcceptAuthorizationFresh, NotRequiredType DEF SubscribeUnrequired
<1>5. ASSUME NEW c \in Interactors, NEW ft \in FeedTopics, SubscribeAsk(c, ft)
      PROVE  FreshHasPublisher'
  BY <1>5 DEF SubscribeAsk, repositories
<1>6. ASSUME NEW c \in Interactors, NEW ft \in FeedTopics, Unsubscribe(c, ft)
      PROVE  FreshHasPublisher'
  <2>1. \A d \in Interactors, gt \in FeedTopics :
            <<d, gt>> # <<c, ft>> => subscriptions'[d][gt] = subscriptions[d][gt]
    BY <1>6 DEF Unsubscribe, TypeOK
  <2>2. publishers' = publishers
    BY <1>6 DEF Unsubscribe
  <2>3. \A gt \in FeedTopics : fresh'[gt] \subseteq fresh[gt]
    BY <1>6 DEF Unsubscribe, TypeOK
  <2>4. c \in fresh'[ft] => subscriptions'[c][ft] # None
    BY <1>6 DEF Unsubscribe, TypeOK
  <2> QED
    BY <2>1, <2>2, <2>3, <2>4 DEF TypeOK
<1>7. ASSUME NEW a \in Interactors, NEW x \in Answers, Authorize(a, x[1], x[2], x[3])
      PROVE  FreshHasPublisher'
  BY <1>7, AcceptAuthorizationFresh, AnswersType DEF Authorize
<1>8. ASSUME NEW n \in Interactors, NEW f \in Feeds,
             AddNotification(n, f) \/ RemoveNotification(n, f)
      PROVE  FreshHasPublisher'
  BY <1>8 DEF AddNotification, RemoveNotification
<1>9. ASSUME OnData PROVE FreshHasPublisher'
  <2>1. ASSUME NEW p \in Interactors, NEW ft \in FeedTopics, NEW packets \in Messages,
               SendMulticastData(p, ft, packets)
        PROVE  FreshHasPublisher'
    BY <2>1, SendDataFresh, ConstantsAssumption DEF SendMulticastData, Publishers
  <2>2. ASSUME NEW p \in Interactors, NEW c \in Interactors, NEW ft \in FeedTopics,
               NEW packets \in Messages, SendUnicastData(p, c, ft, packets)
        PROVE  FreshHasPublisher'
    BY <2>2, SendDataFresh, ConstantsAssumption DEF SendUnicastData, Publishers, Subscribers
  <2>3. ASSUME SendHeartbeat PROVE FreshHasPublisher'
    BY <2>3, SendDataFresh DEF SendHeartbeat, Publishers, Packet
  <2> QED
    BY <1>9, <2>1, <2>2, <2>3 DEF OnData
<1>10. ASSUME UNCHANGED vars PROVE FreshHasPublisher'
  BY <1>10 DEF vars, repositories, told
<1> QED
  BY <1>1, <1>2, <1>3, <1>4, <1>5, <1>6, <1>7, <1>8, <1>9, <1>10
  DEF Next, RequestSubscription

\* A subscriber that holds an image with data has a recorded publisher, so
\* that the last publisher's departure will reach it.
THEOREM FreshHasPublisherHolds == Spec => []FreshHasPublisher
<1>1. Init => FreshHasPublisher
  BY DEF Init, FreshHasPublisher
<1> QED
  BY <1>1, FreshStep, TypeStep, TypeCorrect, PTL DEF Spec

-----------------------------------------------------------------------------
(* Authorization and data.                                                 *)

\* What makes the two properties inductive: what a client may subscribe with
\* later, its authorization for the topic, is in force as well.
GrantInv ==
    \A c \in Interactors, ft \in FeedTopics :
        /\ authorizations[c][ft] # None => authorizations[c][ft] \in Granted(c, ft)
        /\ IsSubscribed(c, ft) => subscriptions[c][ft].authorizationInfo \in Granted(c, ft)

\* The state of a subscription after an addition filters by what it did
\* before or by what was added.
LEMMA AddSubscriptionStateInfo ==
    ASSUME NEW state \in SubscriptionState \cup {None}, NEW r \in Authorization,
           NEW isAuthorizationUpdate \in BOOLEAN
    PROVE  LET after == AddSubscriptionState(state, r, isAuthorizationUpdate) IN
           \/ after.authorizationInfo = r
           \/ state # None /\ after.authorizationInfo = state.authorizationInfo
BY DEF AddSubscriptionState, SubscriptionState

LEMMA RemoveSubscriptionStateInfo ==
    ASSUME NEW state \in SubscriptionState \cup {None}
    PROVE  LET after == RemoveSubscriptionState(state) IN
           \/ after = None
           \/ state # None /\ after.authorizationInfo = state.authorizationInfo
BY DEF RemoveSubscriptionState, SubscriptionState

\* A step leaves every subscription what it filters by, but that of c to ft, which
\* filters by r.
AddsOnly(c, ft, r) ==
    \A d \in Interactors, gt \in FeedTopics : IsSubscribed(d, gt)' =>
        \/ <<d, gt>> = <<c, ft>> /\ subscriptions'[d][gt].authorizationInfo = r
        \/ /\ IsSubscribed(d, gt)
           /\ subscriptions'[d][gt].authorizationInfo = subscriptions[d][gt].authorizationInfo

\* Adding a subscription with an authorization that has been granted.
LEMMA AddSubscriptionInfo ==
    ASSUME TypeOK, NEW c \in Interactors, NEW ft \in FeedTopics, NEW r \in Authorization,
           NEW isAuthorizationUpdate \in BOOLEAN,
           AddSubscription(c, ft, r, isAuthorizationUpdate)
    PROVE  AddsOnly(c, ft, r)
<1> SUFFICES ASSUME NEW d \in Interactors, NEW gt \in FeedTopics, IsSubscribed(d, gt)'
             PROVE  \/ <<d, gt>> = <<c, ft>> /\ subscriptions'[d][gt].authorizationInfo = r
                    \/ /\ IsSubscribed(d, gt)
                       /\ subscriptions'[d][gt].authorizationInfo = subscriptions[d][gt].authorizationInfo
  BY DEF AddsOnly
<1>1. CASE <<d, gt>> = <<c, ft>>
  <2>1. subscriptions[c][ft] \in SubscriptionState \cup {None}
    BY DEF TypeOK
  <2>2. subscriptions'[c][ft] = AddSubscriptionState(subscriptions[c][ft], r, isAuthorizationUpdate)
    BY DEF AddSubscription, TypeOK
  <2> QED
    BY <1>1, <2>1, <2>2, AddSubscriptionStateInfo DEF IsSubscribed
<1>2. CASE <<d, gt>> # <<c, ft>>
  <2>1. subscriptions'[d][gt] = subscriptions[d][gt]
    BY <1>2 DEF AddSubscription, TypeOK
  <2> QED
    BY <2>1 DEF IsSubscribed
<1> QED
  BY <1>1, <1>2

LEMMA AcceptAuthorizationGrant ==
    ASSUME TypeOK, GrantInv, NEW c \in Interactors, NEW ft \in FeedTopics,
           NEW r \in Authorization, AcceptAuthorization(c, ft, r),
           \A d \in Interactors, gt \in FeedTopics : grants[d][gt] \subseteq grants'[d][gt],
           r \in Granted(c, ft)'
    PROVE  GrantInv'
<1> SUFFICES ASSUME NEW d \in Interactors, NEW gt \in FeedTopics
    PROVE  /\ authorizations'[d][gt] # None => authorizations'[d][gt] \in Granted(d, gt)'
           /\ IsSubscribed(d, gt)' => subscriptions'[d][gt].authorizationInfo \in Granted(d, gt)'
  BY DEF GrantInv
<1>1. /\ Granted(d, gt) \subseteq Granted(d, gt)'
      /\ <<d, gt>> = <<c, ft>> => r \in Granted(d, gt)'
  BY DEF Granted
<1>2. \/ authorizations'[d][gt] = authorizations[d][gt]
      \/ <<d, gt>> = <<c, ft>> /\ authorizations'[d][gt] = r
  BY DEF AcceptAuthorization, TypeOK
<1>3. ASSUME IsSubscribed(d, gt)'
      PROVE  \/ <<d, gt>> = <<c, ft>> /\ subscriptions'[d][gt].authorizationInfo = r
             \/ /\ IsSubscribed(d, gt)
                /\ subscriptions'[d][gt].authorizationInfo = subscriptions[d][gt].authorizationInfo
  <2>1. CASE Denies(r)
    BY <1>3, <2>1 DEF AcceptAuthorization, OnAuthorizationResponse, IsSubscribed
  <2>2. CASE ~Denies(r)
    <3>1. AddSubscription(c, ft, r, TRUE) /\ TRUE \in BOOLEAN
      BY <2>2 DEF AcceptAuthorization, OnAuthorizationResponse, IsInitial
    <3>2. AddsOnly(c, ft, r)
      BY <3>1, AddSubscriptionInfo
    <3> QED
      BY <1>3, <3>2 DEF AddsOnly
  <2> QED
    BY <2>1, <2>2
<1> QED
  BY <1>1, <1>2, <1>3 DEF GrantInv

LEMMA SendDataEntitled ==
    ASSUME TypeOK, GrantInv, NEW p \in Publishers, NEW ft \in FeedTopics,
           NEW receivers \in SUBSET Subscribers(ft), NEW packets,
           SendData(p, ft, receivers, packets)
    PROVE  GrantInv' /\ DeliveredIsEntitled'
<1>1. GrantInv'
  BY DEF GrantInv, Granted, SendData, IsSubscribed
<1> SUFFICES ASSUME NEW d \in delivered'
             PROVE  \E r \in Granted(d.to, d.key)' : \A packet \in d.packets : Passes(packet, r)
  BY <1>1 DEF DeliveredIsEntitled
<1>2. PICK c \in receivers : d = [to |-> c, key |-> ft,
        packets |-> GetAuthorizedData(packets, subscriptions[c][ft].authorizationInfo)]
  BY DEF SendData
<1>3. subscriptions[c][ft].authorizationInfo \in Granted(c, ft)
  BY DEF GrantInv, Subscribers
<1>4. Granted(c, ft)' = Granted(c, ft)
  BY DEF SendData, Granted
<1> QED
  BY <1>2, <1>3, <1>4 DEF GetAuthorizedData

LEMMA GrantStep ==
    TypeOK /\ GrantInv /\ DeliveredIsEntitled /\ [Next]_vars => GrantInv' /\ DeliveredIsEntitled'
<1> SUFFICES ASSUME TypeOK, GrantInv, DeliveredIsEntitled, [Next]_vars
             PROVE  GrantInv' /\ DeliveredIsEntitled'
  OBVIOUS
<1>0. ASSUME delivered' = {} PROVE DeliveredIsEntitled'
  BY <1>0 DEF DeliveredIsEntitled
<1>1. ASSUME NEW c \in Interactors, Connect(c) \/ DisposeThrows(c)
      PROVE  GrantInv' /\ DeliveredIsEntitled'
  BY <1>0, <1>1 DEF Connect, DisposeThrows, GrantInv, Granted, IsSubscribed
<1>2. ASSUME NEW c \in Interactors, ReadError(c) \/ WriteError(c)
      PROVE  GrantInv' /\ DeliveredIsEntitled'
  <2>1. CloseInteractor(c)
    BY <1>2 DEF ReadError, WriteError
  <2>2. \A d \in Interactors, ft \in FeedTopics :
            IsSubscribed(d, ft)' => subscriptions'[d][ft] = subscriptions[d][ft]
    BY <2>1 DEF CloseInteractor, IsSubscribed, TypeOK
  <2> QED
    BY <1>0, <2>1, <2>2 DEF CloseInteractor, GrantInv, Granted, IsSubscribed
<1>3. ASSUME NEW c \in Interactors, NEW ft \in FeedTopics, SubscribeAuthorized(c, ft)
      PROVE  GrantInv' /\ DeliveredIsEntitled'
  <2>1. authorizations[c][ft] \in Authorization /\ authorizations[c][ft] \in Granted(c, ft)
    <3>1. authorizations[c][ft] # None
      BY <1>3 DEF SubscribeAuthorized
    <3>2. authorizations[c][ft] \in Authorization \cup {None}
      BY DEF TypeOK
    <3> QED
      BY <3>1, <3>2 DEF GrantInv
  <2>2. AddSubscription(c, ft, authorizations[c][ft], FALSE) /\ FALSE \in BOOLEAN
    BY <1>3 DEF SubscribeAuthorized
  <2>3. ASSUME NEW d \in Interactors, NEW gt \in FeedTopics, IsSubscribed(d, gt)'
        PROVE  subscriptions'[d][gt].authorizationInfo \in Granted(d, gt)
    <3>0. AddsOnly(c, ft, authorizations[c][ft])
      BY <2>1, <2>2, AddSubscriptionInfo
    <3>1. \/ /\ <<d, gt>> = <<c, ft>>
             /\ subscriptions'[d][gt].authorizationInfo = authorizations[c][ft]
          \/ /\ IsSubscribed(d, gt)
             /\ subscriptions'[d][gt].authorizationInfo = subscriptions[d][gt].authorizationInfo
      BY <2>3, <3>0 DEF AddsOnly
    <3> QED
      BY <2>1, <3>1 DEF GrantInv
  <2> QED
    BY <1>0, <1>3, <2>3 DEF SubscribeAuthorized, GrantInv, Granted
<1>4. ASSUME NEW c \in Interactors, NEW ft \in FeedTopics, SubscribeUnrequired(c, ft)
      PROVE  GrantInv' /\ DeliveredIsEntitled'
  <2>1. NotRequired \in Granted(c, ft)'
    BY <1>4 DEF SubscribeUnrequired, Granted
  <2> QED
    BY <1>0, <1>4, <2>1, AcceptAuthorizationGrant, NotRequiredType
    DEF SubscribeUnrequired, AcceptAuthorization
<1>5. ASSUME NEW c \in Interactors, NEW ft \in FeedTopics, SubscribeAsk(c, ft)
      PROVE  GrantInv' /\ DeliveredIsEntitled'
  BY <1>0, <1>5 DEF SubscribeAsk, GrantInv, Granted, repositories, IsSubscribed
<1>6. ASSUME NEW c \in Interactors, NEW ft \in FeedTopics, Unsubscribe(c, ft)
      PROVE  GrantInv' /\ DeliveredIsEntitled'
  <2>1. \A d \in Interactors, gt \in FeedTopics :
            \/ subscriptions'[d][gt] = subscriptions[d][gt]
            \/ <<d, gt>> = <<c, ft>> /\ subscriptions'[d][gt] =
                    RemoveSubscriptionState(subscriptions[d][gt])
    BY <1>6 DEF Unsubscribe, TypeOK
  <2>2. \A d \in Interactors, gt \in FeedTopics :
            subscriptions[d][gt] \in SubscriptionState \cup {None}
    BY DEF TypeOK
  <2>3. \A d \in Interactors, gt \in FeedTopics : IsSubscribed(d, gt)' =>
            /\ IsSubscribed(d, gt)
            /\ subscriptions'[d][gt].authorizationInfo = subscriptions[d][gt].authorizationInfo
    BY <2>1, <2>2, RemoveSubscriptionStateInfo DEF IsSubscribed
  <2> QED
    BY <1>0, <1>6, <2>3 DEF Unsubscribe, GrantInv, Granted
<1>7. ASSUME NEW a \in Interactors, NEW x \in Answers, Authorize(a, x[1], x[2], x[3])
      PROVE  GrantInv' /\ DeliveredIsEntitled'
  <2>1. /\ x[1] \in Interactors /\ x[2] \in FeedTopics /\ x[3] \in Authorization
        /\ AcceptAuthorization(x[1], x[2], x[3])
        /\ grants' = [grants EXCEPT ![x[1]][x[2]] = @ \cup {x[3]}]
    BY <1>7, AnswersType DEF Authorize
  <2>2. \A d \in Interactors, gt \in FeedTopics : grants[d][gt] \subseteq grants'[d][gt]
    BY <2>1 DEF TypeOK
  <2>3. x[3] \in Granted(x[1], x[2])'
    BY <2>1 DEF TypeOK, Granted
  <2> QED
    BY <1>0, <2>1, <2>2, <2>3, AcceptAuthorizationGrant DEF AcceptAuthorization
<1>8. ASSUME NEW n \in Interactors, NEW f \in Feeds,
             AddNotification(n, f) \/ RemoveNotification(n, f)
      PROVE  GrantInv' /\ DeliveredIsEntitled'
  BY <1>0, <1>8 DEF AddNotification, RemoveNotification, GrantInv, Granted, IsSubscribed
<1>9. ASSUME OnData PROVE GrantInv' /\ DeliveredIsEntitled'
  <2>1. ASSUME NEW p \in Interactors, NEW ft \in FeedTopics, NEW packets \in Messages,
               SendMulticastData(p, ft, packets)
        PROVE  GrantInv' /\ DeliveredIsEntitled'
    BY <2>1, SendDataEntitled DEF SendMulticastData, Publishers
  <2>2. ASSUME NEW p \in Interactors, NEW c \in Interactors, NEW ft \in FeedTopics,
               NEW packets \in Messages, SendUnicastData(p, c, ft, packets)
        PROVE  GrantInv' /\ DeliveredIsEntitled'
    BY <2>2, SendDataEntitled DEF SendUnicastData, Publishers, Subscribers
  <2>3. ASSUME SendHeartbeat PROVE GrantInv' /\ DeliveredIsEntitled'
    BY <2>3, SendDataEntitled DEF SendHeartbeat, Publishers
  <2> QED
    BY <1>9, <2>1, <2>2, <2>3 DEF OnData
<1>10. ASSUME UNCHANGED vars PROVE GrantInv' /\ DeliveredIsEntitled'
  BY <1>10 DEF vars, repositories, told, GrantInv, Granted, DeliveredIsEntitled, IsSubscribed
<1> QED
  BY <1>1, <1>2, <1>3, <1>4, <1>5, <1>6, <1>7, <1>8, <1>9, <1>10
  DEF Next, RequestSubscription

LEMMA GrantsHold == Spec => [](GrantInv /\ DeliveredIsEntitled)
<1>1. Init => GrantInv /\ DeliveredIsEntitled
  BY DEF Init, GrantInv, DeliveredIsEntitled, IsSubscribed
<1> QED
  BY <1>1, GrantStep, TypeCorrect, PTL DEF Spec

\* No data message carries a packet that no answer in force for its receiver and
\* topic lets through.
THEOREM DeliveredIsEntitledHolds == Spec => []DeliveredIsEntitled
BY GrantsHold, PTL

\* Every subscription filters by an answer in force for its client and topic,
\* whoever sent it and whatever came before or after it.
THEOREM SubscriptionsAnsweredHolds == Spec => []SubscriptionsAnswered
<1>1. GrantInv => SubscriptionsAnswered
  BY DEF GrantInv, SubscriptionsAnswered
<1> QED
  BY <1>1, GrantsHold, PTL

-----------------------------------------------------------------------------
(* What notifiable clients know, and what is left behind.                  *)

\* The parts that make the two properties inductive: news is held only for a
\* current request of a live client, and no client has a request before it
\* has connected.
NewsIsRequested ==
    \A n \in Interactors : \A x \in news[n] : n \in LiveNotifiables(FeedOf(x[2]))

NotifiableHasConnected ==
    \A f \in Feeds : \A n \in notifiables[f] : phase[n] # "new"

NewsInv == KnowsSubscribers /\ NewsIsCurrent /\ NewsIsRequested /\ NotifiableHasConnected

\* A step that leaves the subscriptions and requests alone.
LEMMA NewsUnchanged ==
    ASSUME NewsInv, UNCHANGED <<subscriptions, notifiables, announced, news, phase>>
    PROVE  NewsInv'
BY DEF NewsInv, KnowsSubscribers, NewsIsCurrent, NewsIsRequested, NotifiableHasConnected,
       LiveNotifiables, Live, IsSubscribed

\* A step that adds a subscription and forwards it.
LEMMA AddSubscriptionNews ==
    ASSUME TypeOK, NewsInv, NEW c \in Interactors, NEW ft \in FeedTopics,
           NEW r \in Authorization, NEW isAuthorizationUpdate \in BOOLEAN,
           AddSubscription(c, ft, r, isAuthorizationUpdate),
           UNCHANGED <<notifiables, phase>>
    PROVE  NewsInv'
<1>1. \A d \in Interactors, gt \in FeedTopics :
        /\ IsSubscribed(d, gt) => IsSubscribed(d, gt)'
        /\ IsSubscribed(d, gt)' => IsSubscribed(d, gt) \/ <<d, gt>> = <<c, ft>>
  <2>1. ASSUME NEW d \in Interactors, NEW gt \in FeedTopics, IsSubscribed(d, gt)'
        PROVE  IsSubscribed(d, gt) \/ <<d, gt>> = <<c, ft>>
    BY <2>1, AddSubscriptionInfo DEF AddsOnly
  <2> QED
    BY <2>1, AddedIsSubscribed
<1>2. IsSubscribed(c, ft)'
  <2>1. subscriptions[c][ft] \in SubscriptionState \cup {None}
    BY DEF TypeOK
  <2>2. AddSubscriptionState(subscriptions[c][ft], r, isAuthorizationUpdate) # None
    BY <2>1, AddSubscriptionStateType, ConstantsAssumption
  <2> QED
    BY <2>2 DEF AddSubscription, IsSubscribed, TypeOK
<1>3. \A f \in Feeds : LiveNotifiables(f)' = LiveNotifiables(f)
  BY DEF LiveNotifiables, Live
<1>4. \A n \in Interactors :
        /\ announced'[n] = announced[n] \cup (IF n \in LiveNotifiables(FeedOf(ft)) THEN {<<c, ft>>} ELSE {})
        /\ news'[n] = news[n] \cup (IF n \in LiveNotifiables(FeedOf(ft)) THEN {<<c, ft>>} ELSE {})
  BY DEF AddSubscription, ForwardAdd
<1>5. \A n \in Interactors : \A x \in news[n] : x[1] \in Interactors /\ x[2] \in FeedTopics
  BY DEF TypeOK, Keys
<1>6. \A gt \in FeedTopics : FeedOf(gt) \in Feeds
  BY DEF FeedTopics, FeedOf
<1>7. \A f \in Feeds : LiveNotifiables(f) \subseteq Interactors
  BY DEF LiveNotifiables, TypeOK
<1>8. KnowsSubscribers'
  BY <1>1, <1>3, <1>4, <1>7 DEF NewsInv, KnowsSubscribers
<1>9. NewsIsCurrent'
  BY <1>1, <1>2, <1>4, <1>5 DEF NewsInv, NewsIsCurrent
<1>10. NewsIsRequested'
  BY <1>3, <1>4, <1>5, <1>6 DEF NewsInv, NewsIsRequested
<1> QED
  BY <1>8, <1>9, <1>10 DEF NewsInv, NotifiableHasConnected

LEMMA AcceptAuthorizationNews ==
    ASSUME TypeOK, NewsInv, NEW c \in Interactors, NEW ft \in FeedTopics,
           NEW r \in Authorization, AcceptAuthorization(c, ft, r)
    PROVE  NewsInv'
<1>1. UNCHANGED <<notifiables, phase>>
  BY DEF AcceptAuthorization, lifecycle
<1>2. CASE Denies(r)
  BY <1>1, <1>2, NewsUnchanged DEF AcceptAuthorization, OnAuthorizationResponse
<1>3. CASE ~Denies(r)
  <2>1. AddSubscription(c, ft, r, TRUE)
    BY <1>3 DEF AcceptAuthorization, OnAuthorizationResponse, IsInitial
  <2> QED
    BY <1>1, <2>1, AddSubscriptionNews
<1> QED
  BY <1>2, <1>3

LEMMA UnsubscribeNews ==
    ASSUME TypeOK, NewsInv, NEW c \in Interactors, NEW ft \in FeedTopics, Unsubscribe(c, ft)
    PROVE  NewsInv'
<1>1. \A d \in Interactors, gt \in FeedTopics :
        /\ <<d, gt>> # <<c, ft>> => subscriptions'[d][gt] = subscriptions[d][gt]
        /\ IsSubscribed(d, gt)' => IsSubscribed(d, gt)
  BY DEF Unsubscribe, TypeOK, IsSubscribed, RemoveSubscriptionState
<1>2. UNCHANGED <<notifiables, phase>>
  BY DEF Unsubscribe, lifecycle
<1>3. \A f \in Feeds : LiveNotifiables(f)' = LiveNotifiables(f)
  BY <1>2 DEF LiveNotifiables, Live
<1>4. \A n \in Interactors :
        /\ news'[n] = news[n] \ (IF n \in LiveNotifiables(FeedOf(ft)) THEN {<<c, ft>>} ELSE {})
        /\ announced'[n] = announced[n] \ (IF IsSubscribed(c, ft)' THEN {} ELSE {<<c, ft>>})
  BY DEF Unsubscribe, ForwardRemove, IsSubscribed
<1>5. \A n \in Interactors : \A x \in news[n] :
        x = <<x[1], x[2]>> /\ x[1] \in Interactors /\ x[2] \in FeedTopics
  BY DEF TypeOK, Keys
<1>6. \A gt \in FeedTopics : FeedOf(gt) \in Feeds
  BY DEF FeedTopics, FeedOf
<1>7. \A f \in Feeds : LiveNotifiables(f) \subseteq Interactors
  BY DEF LiveNotifiables, TypeOK
<1>8. KnowsSubscribers'
  BY <1>1, <1>3, <1>4, <1>7 DEF NewsInv, KnowsSubscribers
<1>9. NewsIsCurrent'
  <2> SUFFICES ASSUME NEW n \in Interactors, NEW x \in news'[n] PROVE IsSubscribed(x[1], x[2])'
    BY DEF NewsIsCurrent
  <2>1. x \in news[n]
    BY <1>4
  <2>2. n \in LiveNotifiables(FeedOf(x[2])) /\ IsSubscribed(x[1], x[2])
    BY <2>1 DEF NewsInv, NewsIsRequested, NewsIsCurrent
  <2>3. x # <<c, ft>>
    <3>1. x = <<c, ft>> => n \in LiveNotifiables(FeedOf(ft))
      BY <2>2
    <3> QED
      BY <3>1, <1>4
  <2> QED
    BY <1>1, <1>5, <2>1, <2>2, <2>3 DEF IsSubscribed
<1>10. NewsIsRequested'
  BY <1>3, <1>4, <1>5, <1>6 DEF NewsInv, NewsIsRequested
<1> QED
  BY <1>2, <1>8, <1>9, <1>10 DEF NewsInv, NotifiableHasConnected

LEMMA AddNotificationNews ==
    ASSUME TypeOK, NewsInv, NEW n \in Interactors, NEW f \in Feeds, AddNotification(n, f)
    PROVE  NewsInv'
<1>1. UNCHANGED <<subscriptions, phase>> /\ phase[n] # "new"
  BY DEF AddNotification, CanSend
<1>2. \A g \in Feeds :
        LiveNotifiables(g)' = LiveNotifiables(g) \cup (IF g = f /\ Live(n) THEN {n} ELSE {})
  BY DEF AddNotification, LiveNotifiables, Live, TypeOK
<1>3. \A m \in Interactors :
        /\ announced'[m] = announced[m] \cup (IF m = n /\ Live(n) THEN SubscribersToFeed(f) ELSE {})
        /\ news'[m] = news[m] \cup (IF m = n /\ Live(n) THEN SubscribersToFeed(f) ELSE {})
  BY DEF AddNotification, TypeOK
<1>4. \A c \in Interactors, ft \in FeedTopics :
        FeedOf(ft) = f /\ IsSubscribed(c, ft) => <<c, ft>> \in SubscribersToFeed(f)
  BY DEF SubscribersToFeed, Keys
<1>5. \A x \in SubscribersToFeed(f) : FeedOf(x[2]) = f /\ IsSubscribed(x[1], x[2])
  BY DEF SubscribersToFeed
<1>6. \A m \in Interactors : \A x \in news[m] : FeedOf(x[2]) \in Feeds
  BY DEF TypeOK, Keys, FeedTopics, FeedOf
<1>7. \A g \in Feeds : LiveNotifiables(g) \subseteq Interactors
  BY DEF LiveNotifiables, TypeOK
<1>8. KnowsSubscribers'
  BY <1>1, <1>2, <1>3, <1>4, <1>7 DEF NewsInv, KnowsSubscribers, IsSubscribed
<1>9. NewsIsCurrent'
  BY <1>1, <1>3, <1>5 DEF NewsInv, NewsIsCurrent, IsSubscribed
<1>10. NewsIsRequested'
  BY <1>2, <1>3, <1>5, <1>6 DEF NewsInv, NewsIsRequested
<1>11. NotifiableHasConnected'
  BY <1>1 DEF AddNotification, NewsInv, NotifiableHasConnected, TypeOK
<1> QED
  BY <1>8, <1>9, <1>10, <1>11 DEF NewsInv

LEMMA RemoveNotificationNews ==
    ASSUME TypeOK, NewsInv, NEW n \in Interactors, NEW f \in Feeds, RemoveNotification(n, f)
    PROVE  NewsInv'
<1>1. UNCHANGED <<subscriptions, phase>>
  BY DEF RemoveNotification, lifecycle
<1>2. \A g \in Feeds :
        LiveNotifiables(g)' = LiveNotifiables(g) \ (IF g = f THEN {n} ELSE {})
  BY DEF RemoveNotification, LiveNotifiables, Live, TypeOK, lifecycle
<1>3. \A m \in Interactors :
        /\ announced'[m] = {x \in announced[m] : m = n => FeedOf(x[2]) # f}
        /\ news'[m] = {x \in news[m] : m = n => FeedOf(x[2]) # f}
  BY DEF RemoveNotification, TypeOK
<1>4. \A m \in Interactors : \A x \in news[m] : FeedOf(x[2]) \in Feeds
  BY DEF TypeOK, Keys, FeedTopics, FeedOf
<1>5. \A g \in Feeds : LiveNotifiables(g) \subseteq Interactors
  BY DEF LiveNotifiables, TypeOK
<1>6. KnowsSubscribers'
  BY <1>1, <1>2, <1>3, <1>5 DEF NewsInv, KnowsSubscribers, IsSubscribed
<1>7. NewsIsCurrent'
  BY <1>1, <1>3 DEF NewsInv, NewsIsCurrent, IsSubscribed
<1>8. NewsIsRequested'
  BY <1>2, <1>3, <1>4 DEF NewsInv, NewsIsRequested
<1>9. NotifiableHasConnected'
  BY <1>1 DEF RemoveNotification, NewsInv, NotifiableHasConnected, TypeOK
<1> QED
  BY <1>6, <1>7, <1>8, <1>9 DEF NewsInv

LEMMA CloseInteractorNews ==
    ASSUME TypeOK, NewsInv, NEW c \in Interactors, CloseInteractor(c)
    PROVE  NewsInv'
<1> DEFINE gone == {<<c, ft>> : ft \in FindByInteractor(c)}
<1>1. \A d \in Interactors, ft \in FeedTopics :
        IsSubscribed(d, ft)' <=> d # c /\ IsSubscribed(d, ft)
  BY DEF CloseInteractor, IsSubscribed, TypeOK
<1>2. \A f \in Feeds : LiveNotifiables(f)' = LiveNotifiables(f) \ {c}
  BY DEF CloseInteractor, RemoveInteractor, LiveNotifiables, Live, TypeOK
<1>3. \A n \in Interactors :
        /\ announced'[n] = IF n = c THEN {} ELSE announced[n] \ gone
        /\ news'[n] = IF n = c THEN {}
             ELSE {x \in news[n] : ~(x \in gone /\ n \in LiveNotifiables(FeedOf(x[2])))}
  BY DEF CloseInteractor
<1>4. \A n \in Interactors : \A x \in news[n] :
        /\ x = <<x[1], x[2]>> /\ x[1] \in Interactors /\ x[2] \in FeedTopics
        /\ FeedOf(x[2]) \in Feeds
  BY DEF TypeOK, Keys, FeedTopics, FeedOf
<1>5. \A f \in Feeds : LiveNotifiables(f) \subseteq Interactors
  BY DEF LiveNotifiables, TypeOK
<1>6. \A d \in Interactors, ft \in FeedTopics : <<d, ft>> \in gone <=> d = c /\ IsSubscribed(c, ft)
  BY DEF FindByInteractor
<1> HIDE DEF gone
<1>7. KnowsSubscribers'
  <2> SUFFICES ASSUME NEW f \in Feeds, NEW n \in LiveNotifiables(f)',
                      NEW d \in Interactors, NEW ft \in FeedTopics,
                      FeedOf(ft) = f, IsSubscribed(d, ft)'
               PROVE  <<d, ft>> \in announced'[n]
    BY DEF KnowsSubscribers
  <2>1. n \in LiveNotifiables(f) /\ n # c /\ n \in Interactors
    BY <1>2, <1>5
  <2>2. d # c /\ IsSubscribed(d, ft)
    BY <1>1
  <2>3. <<d, ft>> \in announced[n]
    BY <2>1, <2>2 DEF NewsInv, KnowsSubscribers
  <2>4. <<d, ft>> \notin gone
    BY <1>6, <2>2
  <2> QED
    BY <1>3, <2>1, <2>3, <2>4
<1>8. NewsIsCurrent'
  <2> SUFFICES ASSUME NEW n \in Interactors, NEW x \in news'[n] PROVE IsSubscribed(x[1], x[2])'
    BY DEF NewsIsCurrent
  <2>1. n # c /\ x \in news[n] /\ ~(x \in gone /\ n \in LiveNotifiables(FeedOf(x[2])))
    BY <1>3
  <2>2. n \in LiveNotifiables(FeedOf(x[2])) /\ IsSubscribed(x[1], x[2])
    BY <2>1 DEF NewsInv, NewsIsRequested, NewsIsCurrent
  <2>3. x \notin gone
    BY <2>1, <2>2
  <2> QED
    BY <1>1, <1>4, <1>6, <2>1, <2>2, <2>3
<1>9. NewsIsRequested'
  BY <1>2, <1>3, <1>4 DEF NewsInv, NewsIsRequested
<1>10. NotifiableHasConnected'
  BY DEF CloseInteractor, RemoveInteractor, NewsInv, NotifiableHasConnected, TypeOK
<1> QED
  BY <1>7, <1>8, <1>9, <1>10 DEF NewsInv

LEMMA ConnectNews ==
    ASSUME TypeOK, NewsInv, NEW c \in Interactors, Connect(c)
    PROVE  NewsInv'
<1>1. UNCHANGED <<subscriptions, notifiables, announced, news>>
  BY DEF Connect
<1>2. \A f \in Feeds : c \notin notifiables[f]
  BY DEF Connect, NewsInv, NotifiableHasConnected
<1>3. \A f \in Feeds : LiveNotifiables(f)' = LiveNotifiables(f)
  BY <1>1, <1>2 DEF Connect, LiveNotifiables, Live, TypeOK
<1>4. \A n \in Interactors : \A x \in news[n] : FeedOf(x[2]) \in Feeds
  BY DEF TypeOK, Keys, FeedTopics, FeedOf
<1>5. NotifiableHasConnected'
  BY <1>1, <1>2 DEF Connect, NewsInv, NotifiableHasConnected, TypeOK
<1> QED
  BY <1>1, <1>3, <1>4, <1>5
  DEF NewsInv, KnowsSubscribers, NewsIsCurrent, NewsIsRequested, IsSubscribed

LEMMA NewsStep == TypeOK /\ NewsInv /\ [Next]_vars => NewsInv'
<1> SUFFICES ASSUME TypeOK, NewsInv, [Next]_vars PROVE NewsInv'
  OBVIOUS
<1>1. ASSUME NEW c \in Interactors, ReadError(c) \/ WriteError(c) PROVE NewsInv'
  BY <1>1, CloseInteractorNews DEF ReadError, WriteError
<1>2. ASSUME NEW c \in Interactors, NEW ft \in FeedTopics, SubscribeAuthorized(c, ft)
      PROVE  NewsInv'
  <2>1. /\ authorizations[c][ft] # None
        /\ AddSubscription(c, ft, authorizations[c][ft], FALSE)
        /\ UNCHANGED <<notifiables, phase>>
    BY <1>2 DEF SubscribeAuthorized, lifecycle
  <2>2. authorizations[c][ft] \in Authorization \cup {None}
    BY DEF TypeOK
  <2> QED
    BY <2>1, <2>2, AddSubscriptionNews
<1>3. ASSUME NEW c \in Interactors, NEW ft \in FeedTopics, SubscribeUnrequired(c, ft)
      PROVE  NewsInv'
  BY <1>3, AcceptAuthorizationNews, NotRequiredType DEF SubscribeUnrequired
<1>4. ASSUME NEW c \in Interactors, NEW ft \in FeedTopics, SubscribeAsk(c, ft)
      PROVE  NewsInv'
  BY <1>4, NewsUnchanged DEF SubscribeAsk, lifecycle, repositories
<1>5. ASSUME NEW a \in Interactors, NEW x \in Answers, Authorize(a, x[1], x[2], x[3])
      PROVE  NewsInv'
  BY <1>5, AcceptAuthorizationNews, AnswersType DEF Authorize
<1>6. ASSUME OnData PROVE NewsInv'
  <2>1. UNCHANGED <<subscriptions, notifiables, announced, news, phase>>
    BY <1>6 DEF OnData, SendMulticastData, SendUnicastData, SendHeartbeat, SendData, lifecycle
  <2> QED
    BY <2>1, NewsUnchanged
<1>7. ASSUME UNCHANGED vars PROVE NewsInv'
  BY <1>7, NewsUnchanged DEF vars, lifecycle, repositories, told
<1>8. ASSUME NEW c \in Interactors, DisposeThrows(c) PROVE NewsInv'
  BY <1>8, NewsUnchanged DEF DisposeThrows
<1> QED
  BY <1>1, <1>2, <1>3, <1>4, <1>5, <1>6, <1>7, <1>8, ConnectNews, UnsubscribeNews,
     AddNotificationNews, RemoveNotificationNews
  DEF Next, RequestSubscription

LEMMA NewsHolds == Spec => []NewsInv
<1>1. Init => NewsInv
  BY DEF Init, NewsInv, KnowsSubscribers, NewsIsCurrent, NewsIsRequested,
         NotifiableHasConnected, LiveNotifiables
<1> QED
  BY <1>1, NewsStep, TypeCorrect, PTL DEF Spec

\* A notifiable has been told of every subscription to the feeds it asked about.
THEOREM KnowsSubscribersHolds == Spec => []KnowsSubscribers
BY NewsHolds, PTL DEF NewsInv

\* A notifiable whose last news of a client's topic was an add is right.
THEOREM NewsIsCurrentHolds == Spec => []NewsIsCurrent
BY NewsHolds, PTL DEF NewsInv

-----------------------------------------------------------------------------
(* What is left of an interactor after its last event.                     *)

Absent(c) ==
    /\ \A ft \in FeedTopics : ~IsSubscribed(c, ft) /\ c \notin publishers[ft]
    /\ \A f \in Feeds : c \notin notifiables[f]

\* The error of its read task closes an interactor, again if its write task's
\* did, and nothing it sends is handled after it.
GoneInv == \A c \in Interactors : ~reading[c] => phase[c] = "closed" /\ Absent(c)

LEMMA AcceptAuthorizationGone ==
    ASSUME TypeOK, GoneInv, NEW c \in Interactors, NEW ft \in FeedTopics,
           NEW r \in Authorization, AcceptAuthorization(c, ft, r)
    PROVE  GoneInv'
<1>1. reading[c]
  BY DEF AcceptAuthorization, Live, GoneInv
<1>2. \A d \in Interactors, gt \in FeedTopics : d # c => subscriptions'[d][gt] = subscriptions[d][gt]
  BY DEF AcceptAuthorization, OnAuthorizationResponse, AddSubscription, TypeOK
<1>3. UNCHANGED <<phase, reading, publishers, notifiables>>
  BY DEF AcceptAuthorization, lifecycle
<1> QED
  BY <1>1, <1>2, <1>3 DEF GoneInv, Absent, IsSubscribed

LEMMA SendDataGone ==
    ASSUME TypeOK, GoneInv, NEW p \in Publishers, p \in Interactors => reading[p],
           NEW ft \in FeedTopics, NEW receivers \in SUBSET Interactors, NEW packets,
           SendData(p, ft, receivers, packets)
    PROVE  GoneInv'
<1>1. \A c \in Interactors, gt \in FeedTopics :
        c \in publishers'[gt] => c \in publishers[gt] \/ c = p
  BY DEF SendData, TypeOK
<1>2. UNCHANGED <<phase, reading, notifiables, subscriptions>>
  BY DEF SendData, lifecycle
<1> QED
  BY <1>1, <1>2 DEF GoneInv, Absent, IsSubscribed

LEMMA GoneStep == TypeOK /\ GoneInv /\ [Next]_vars => GoneInv'
<1> SUFFICES ASSUME TypeOK, GoneInv, [Next]_vars PROVE GoneInv'
  OBVIOUS
<1>1. ASSUME NEW c \in Interactors, Connect(c) \/ DisposeThrows(c) PROVE GoneInv'
  BY <1>1 DEF Connect, DisposeThrows, GoneInv, Absent, IsSubscribed, TypeOK
<1>2. ASSUME NEW c \in Interactors, ReadError(c) \/ WriteError(c) PROVE GoneInv'
  <2>1. CloseInteractor(c) /\ (reading' = reading \/ reading' = [reading EXCEPT ![c] = FALSE])
    BY <1>2 DEF ReadError, WriteError
  <2>2. \A d \in Interactors : d # c => phase'[d] = phase[d] /\ reading'[d] = reading[d]
    BY <2>1 DEF CloseInteractor, TypeOK
  <2>3. phase'[c] = "closed"
    BY <2>1 DEF CloseInteractor, TypeOK
  <2>4. /\ \A ft \in FeedTopics : publishers'[ft] = publishers[ft] \ {c}
        /\ \A f \in Feeds : notifiables'[f] = notifiables[f] \ {c}
        /\ \A ft \in FeedTopics : subscriptions'[c][ft] = None
        /\ \A d \in Interactors : d # c => subscriptions'[d] = subscriptions[d]
    BY <2>1 DEF CloseInteractor, RemoveInteractor, TypeOK
  <2> QED
    BY <2>2, <2>3, <2>4 DEF GoneInv, Absent, IsSubscribed
<1>3. ASSUME NEW c \in Interactors, NEW ft \in FeedTopics, SubscribeAuthorized(c, ft)
      PROVE  GoneInv'
  <2>1. reading[c]
    BY <1>3 DEF SubscribeAuthorized, CanSend
  <2>2. \A d \in Interactors : d # c => subscriptions'[d] = subscriptions[d]
    BY <1>3 DEF SubscribeAuthorized, AddSubscription, TypeOK
  <2> QED
    BY <1>3, <2>1, <2>2 DEF SubscribeAuthorized, GoneInv, Absent, IsSubscribed, lifecycle
<1>4. ASSUME NEW c \in Interactors, NEW ft \in FeedTopics, SubscribeUnrequired(c, ft)
      PROVE  GoneInv'
  BY <1>4, AcceptAuthorizationGone, NotRequiredType DEF SubscribeUnrequired
<1>5. ASSUME NEW c \in Interactors, NEW ft \in FeedTopics, SubscribeAsk(c, ft)
      PROVE  GoneInv'
  BY <1>5 DEF SubscribeAsk, GoneInv, Absent, IsSubscribed, lifecycle, repositories
<1>6. ASSUME NEW c \in Interactors, NEW ft \in FeedTopics, Unsubscribe(c, ft)
      PROVE  GoneInv'
  <2>1. reading[c]
    BY <1>6 DEF Unsubscribe, CanSend
  <2>2. \A d \in Interactors : d # c => subscriptions'[d] = subscriptions[d]
    BY <1>6 DEF Unsubscribe, TypeOK
  <2> QED
    BY <1>6, <2>1, <2>2 DEF Unsubscribe, GoneInv, Absent, IsSubscribed, lifecycle
<1>7. ASSUME NEW a \in Interactors, NEW x \in Answers, Authorize(a, x[1], x[2], x[3])
      PROVE  GoneInv'
  BY <1>7, AcceptAuthorizationGone, AnswersType DEF Authorize
<1>8. ASSUME NEW n \in Interactors, NEW f \in Feeds, AddNotification(n, f)
      PROVE  GoneInv'
  <2>1. reading[n]
    BY <1>8 DEF AddNotification, CanSend
  <2>2. \A g \in Feeds, c \in Interactors :
            c \in notifiables'[g] => c \in notifiables[g] \/ c = n
    BY <1>8 DEF AddNotification, TypeOK
  <2> QED
    BY <1>8, <2>1, <2>2 DEF AddNotification, GoneInv, Absent, IsSubscribed
<1>9. ASSUME NEW n \in Interactors, NEW f \in Feeds, RemoveNotification(n, f)
      PROVE  GoneInv'
  <2>1. \A g \in Feeds : notifiables'[g] \subseteq notifiables[g]
    BY <1>9 DEF RemoveNotification, TypeOK
  <2> QED
    BY <1>9, <2>1 DEF RemoveNotification, GoneInv, Absent, IsSubscribed, lifecycle
<1>10. ASSUME OnData PROVE GoneInv'
  <2>1. ASSUME NEW p \in Interactors, NEW ft \in FeedTopics, NEW packets \in Messages,
               SendMulticastData(p, ft, packets)
        PROVE  GoneInv'
    BY <2>1, SendDataGone DEF SendMulticastData, Subscribers, Publishers, CanSend
  <2>2. ASSUME NEW p \in Interactors, NEW c \in Interactors, NEW ft \in FeedTopics,
               NEW packets \in Messages, SendUnicastData(p, c, ft, packets)
        PROVE  GoneInv'
    BY <2>2, SendDataGone DEF SendUnicastData, Publishers, CanSend, GoneInv
  <2>3. ASSUME SendHeartbeat PROVE GoneInv'
    BY <2>3, SendDataGone, ConstantsAssumption DEF SendHeartbeat, Subscribers, Publishers
  <2> QED
    BY <1>10, <2>1, <2>2, <2>3 DEF OnData
<1>11. ASSUME UNCHANGED vars PROVE GoneInv'
  BY <1>11 DEF vars, lifecycle, repositories, GoneInv, Absent, IsSubscribed
<1> QED
  BY <1>1, <1>2, <1>3, <1>4, <1>5, <1>6, <1>7, <1>8, <1>9, <1>10, <1>11
  DEF Next, RequestSubscription

LEMMA GoneHolds == Spec => []GoneInv
<1>1. Init => GoneInv
  BY DEF Init, GoneInv
<1>2. TypeOK /\ GoneInv /\ [Next]_vars => GoneInv'
  BY GoneStep
<1> QED
  BY <1>1, <1>2, TypeCorrect, PTL DEF Spec

\* Once the error of its read task has been handled no repository keeps
\* anything of an interactor, whichever of its tasks failed first.
THEOREM NothingLeftBehindHolds == Spec => []NothingLeftBehind
<1>1. GoneInv => NothingLeftBehind
  BY DEF GoneInv, Absent, NothingLeftBehind, FindByInteractor
<1> QED
  BY <1>1, GoneHolds, PTL

-----------------------------------------------------------------------------
(* What closes an interactor.                                              *)

\* An interactor is closed by the first of its errors and by nothing else.
ErrorsInv == \A c \in Interactors : phase[c] = "closed" <=> ~reading[c] \/ ~writing[c]

LEMMA ErrorsStep == TypeOK /\ ErrorsInv /\ [Next]_vars => ErrorsInv'
<1> SUFFICES ASSUME TypeOK, ErrorsInv, [Next]_vars PROVE ErrorsInv'
  OBVIOUS
<1>1. ASSUME UNCHANGED <<phase, reading, writing>> PROVE ErrorsInv'
  BY <1>1 DEF ErrorsInv
<1>2. ASSUME NEW c \in Interactors, Connect(c) PROVE ErrorsInv'
  BY <1>2 DEF Connect, ErrorsInv, TypeOK
<1>3. ASSUME NEW c \in Interactors, ReadError(c) PROVE ErrorsInv'
  BY <1>3 DEF ReadError, CloseInteractor, ErrorsInv, TypeOK
<1>4. ASSUME NEW c \in Interactors, WriteError(c) PROVE ErrorsInv'
  BY <1>4 DEF WriteError, CloseInteractor, ErrorsInv, TypeOK
<1>5. ASSUME NEW c \in Interactors, DisposeThrows(c) PROVE ErrorsInv'
  BY <1>1, <1>5 DEF DisposeThrows
<1>6. ASSUME NEW c \in Interactors, NEW ft \in FeedTopics,
             RequestSubscription(c, ft) \/ Unsubscribe(c, ft)
      PROVE  ErrorsInv'
  BY <1>1, <1>6 DEF RequestSubscription, SubscribeAuthorized, SubscribeUnrequired,
                    AcceptAuthorization, SubscribeAsk, Unsubscribe, lifecycle
<1>7. ASSUME NEW n \in Interactors, NEW f \in Feeds,
             AddNotification(n, f) \/ RemoveNotification(n, f)
      PROVE  ErrorsInv'
  BY <1>1, <1>7 DEF AddNotification, RemoveNotification, lifecycle
<1>8. ASSUME NEW a \in Interactors, NEW x \in Answers, Authorize(a, x[1], x[2], x[3])
      PROVE  ErrorsInv'
  BY <1>1, <1>8 DEF Authorize, AcceptAuthorization, lifecycle
<1>9. ASSUME OnData PROVE ErrorsInv'
  BY <1>1, <1>9 DEF OnData, SendMulticastData, SendUnicastData, SendHeartbeat, SendData,
                    lifecycle
<1>10. ASSUME UNCHANGED vars PROVE ErrorsInv'
  BY <1>1, <1>10 DEF vars, lifecycle
<1> QED
  BY <1>2, <1>3, <1>4, <1>5, <1>6, <1>7, <1>8, <1>9, <1>10 DEF Next

LEMMA ErrorsHold == Spec => []ErrorsInv
<1>1. Init => ErrorsInv
  BY DEF Init, ErrorsInv
<1>2. TypeOK /\ ErrorsInv /\ [Next]_vars => ErrorsInv'
  BY ErrorsStep
<1> QED
  BY <1>1, <1>2, TypeCorrect, PTL DEF Spec

-----------------------------------------------------------------------------
(* The latest answer.                                                      *)

\* While a client has no authorization for a topic with the name of the feed, the
\* authorization it has for another topic of the feed is its latest answer.  Once
\* it has one it keeps it.
LatestInv ==
    /\ \A c \in Interactors, ft \in FeedTopics :
            HasAuthorization(c, ft) \/ authorizations[c][ft] = answer[c][ft]
    /\ FilterIsLatestAnswer

LEMMA AcceptAuthorizationLatest ==
    ASSUME TypeOK, LatestInv, NEW c \in Interactors,
           NEW ft \in FeedTopics, NEW r \in Authorization, AcceptAuthorization(c, ft, r)
    PROVE  LatestInv'
<1>1. answer' = [answer EXCEPT ![c][ft] = r]
  BY DEF AcceptAuthorization
<1>2. \A d \in Interactors, gt \in FeedTopics :
        \/ authorizations'[d][gt] = authorizations[d][gt] /\ <<d, gt>> # <<c, ft>>
        \/ authorizations'[d][gt] = authorizations[d][gt] /\ HasAuthorization(c, ft)
        \/ authorizations'[d][gt] = r /\ <<d, gt>> = <<c, ft>>
  BY DEF AcceptAuthorization, TypeOK
<1>3. \A d \in Interactors, gt \in FeedTopics :
        HasAuthorization(d, gt) => HasAuthorization(d, gt)'
  <2>1. r # None
    BY ConstantsAssumption
  <2> QED
    BY <1>2, <2>1 DEF HasAuthorization, FeedTopics, FeedOf
<1>4. \A d \in Interactors, gt \in FeedTopics :
        HasAuthorization(d, gt)' \/ authorizations'[d][gt] = answer'[d][gt]
  <2> SUFFICES ASSUME NEW d \in Interactors, NEW gt \in FeedTopics, ~HasAuthorization(d, gt)'
               PROVE  authorizations'[d][gt] = answer'[d][gt]
    OBVIOUS
  <2>1. ~HasAuthorization(d, gt)
    BY <1>3
  <2>2. CASE <<d, gt>> = <<c, ft>>
    BY <1>1, <1>2, <2>1, <2>2 DEF TypeOK
  <2>3. CASE <<d, gt>> # <<c, ft>>
    BY <1>1, <1>2, <2>1, <2>3 DEF LatestInv, TypeOK
  <2> QED
    BY <2>2, <2>3
<1>5. FilterIsLatestAnswer'
  <2> SUFFICES ASSUME NEW d \in Interactors, NEW gt \in FeedTopics, IsSubscribed(d, gt)'
               PROVE  \/ subscriptions'[d][gt].authorizationInfo = answer'[d][gt]
                      \/ Denies(answer'[d][gt])
                      \/ HasAuthorization(d, gt)'
    BY DEF FilterIsLatestAnswer
  <2>1. CASE Denies(r)
    <3>1. subscriptions' = subscriptions
      BY <2>1 DEF AcceptAuthorization, OnAuthorizationResponse
    <3>2. answer'[d][gt] = IF <<d, gt>> = <<c, ft>> THEN r ELSE answer[d][gt]
      BY <1>1 DEF TypeOK
    <3> QED
      BY <1>3, <2>1, <3>1, <3>2 DEF LatestInv, FilterIsLatestAnswer, IsSubscribed
  <2>2. CASE ~Denies(r)
    <3>1. AddSubscription(c, ft, r, TRUE)
      BY <2>2 DEF AcceptAuthorization, OnAuthorizationResponse, IsInitial
    <3>2. subscriptions'[d][gt] = IF <<d, gt>> = <<c, ft>>
            THEN AddSubscriptionState(subscriptions[c][ft], r, TRUE) ELSE subscriptions[d][gt]
      BY <3>1 DEF AddSubscription, TypeOK
    <3>3. AddSubscriptionState(subscriptions[c][ft], r, TRUE).authorizationInfo = r
      BY DEF AddSubscriptionState
    <3>4. answer'[d][gt] = IF <<d, gt>> = <<c, ft>> THEN r ELSE answer[d][gt]
      BY <1>1 DEF TypeOK
    <3> QED
      BY <1>3, <3>2, <3>3, <3>4 DEF LatestInv, FilterIsLatestAnswer, IsSubscribed
  <2> QED
    BY <2>1, <2>2
<1> QED
  BY <1>4, <1>5 DEF LatestInv

LEMMA LatestStep == TypeOK /\ LatestInv /\ [Next]_vars => LatestInv'
<1> SUFFICES ASSUME TypeOK, LatestInv, [Next]_vars PROVE LatestInv'
  OBVIOUS
<1>1. ASSUME UNCHANGED <<authorizations, answer>>,
             \A d \in Interactors, gt \in FeedTopics : IsSubscribed(d, gt)' =>
                \/ subscriptions'[d][gt].authorizationInfo = authorizations[d][gt]
                \/ /\ IsSubscribed(d, gt)
                   /\ subscriptions'[d][gt].authorizationInfo = subscriptions[d][gt].authorizationInfo
      PROVE  LatestInv'
  BY <1>1 DEF LatestInv, FilterIsLatestAnswer, HasAuthorization
<1>2. ASSUME UNCHANGED <<authorizations, answer, subscriptions>> PROVE LatestInv'
  BY <1>2 DEF LatestInv, FilterIsLatestAnswer, IsSubscribed, HasAuthorization
<1>3. ASSUME NEW c \in Interactors, ReadError(c) \/ WriteError(c) PROVE LatestInv'
  <2>1. CloseInteractor(c)
    BY <1>3 DEF ReadError, WriteError
  <2>2. \A d \in Interactors, ft \in FeedTopics :
            IsSubscribed(d, ft)' => subscriptions'[d][ft] = subscriptions[d][ft]
    BY <2>1 DEF CloseInteractor, IsSubscribed, TypeOK
  <2> QED
    BY <1>1, <2>1, <2>2 DEF CloseInteractor, IsSubscribed
<1>4. ASSUME NEW c \in Interactors, NEW ft \in FeedTopics, SubscribeAuthorized(c, ft)
      PROVE  LatestInv'
  <2>1. /\ authorizations[c][ft] # None
        /\ AddSubscription(c, ft, authorizations[c][ft], FALSE)
        /\ UNCHANGED <<authorizations, answer>>
    BY <1>4 DEF SubscribeAuthorized
  <2>2. authorizations[c][ft] \in Authorization
    BY <2>1 DEF TypeOK
  <2>3. ASSUME NEW d \in Interactors, NEW gt \in FeedTopics, IsSubscribed(d, gt)'
        PROVE  \/ /\ <<d, gt>> = <<c, ft>>
                  /\ subscriptions'[d][gt].authorizationInfo = authorizations[c][ft]
               \/ /\ IsSubscribed(d, gt)
                  /\ subscriptions'[d][gt].authorizationInfo = subscriptions[d][gt].authorizationInfo
    <3>1. AddSubscription(c, ft, authorizations[c][ft], FALSE) /\ FALSE \in BOOLEAN
      BY <2>1
    <3>2. AddsOnly(c, ft, authorizations[c][ft])
      BY <2>2, <3>1, AddSubscriptionInfo
    <3> QED
      BY <2>3, <3>2 DEF AddsOnly
  <2> QED
    BY <1>1, <2>1, <2>3
<1>5. ASSUME NEW c \in Interactors, NEW ft \in FeedTopics, SubscribeUnrequired(c, ft)
      PROVE  LatestInv'
  BY <1>5, AcceptAuthorizationLatest, NotRequiredType DEF SubscribeUnrequired
<1>6. ASSUME NEW c \in Interactors, NEW ft \in FeedTopics, Unsubscribe(c, ft)
      PROVE  LatestInv'
  <2>1. \A d \in Interactors, gt \in FeedTopics :
            \/ subscriptions'[d][gt] = subscriptions[d][gt]
            \/ <<d, gt>> = <<c, ft>> /\ subscriptions'[d][gt] =
                    RemoveSubscriptionState(subscriptions[d][gt])
    BY <1>6 DEF Unsubscribe, TypeOK
  <2>2. \A d \in Interactors, gt \in FeedTopics :
            subscriptions[d][gt] \in SubscriptionState \cup {None}
    BY DEF TypeOK
  <2>3. \A d \in Interactors, gt \in FeedTopics : IsSubscribed(d, gt)' =>
            /\ IsSubscribed(d, gt)
            /\ subscriptions'[d][gt].authorizationInfo = subscriptions[d][gt].authorizationInfo
    BY <2>1, <2>2, RemoveSubscriptionStateInfo DEF IsSubscribed
  <2> QED
    BY <1>1, <1>6, <2>3 DEF Unsubscribe
<1>7. ASSUME NEW a \in Interactors, NEW x \in Answers, Authorize(a, x[1], x[2], x[3])
      PROVE  LatestInv'
  BY <1>7, AcceptAuthorizationLatest, AnswersType DEF Authorize
<1>8. ASSUME NEW c \in Interactors, NEW ft \in FeedTopics, SubscribeAsk(c, ft)
      PROVE  LatestInv'
  BY <1>2, <1>8 DEF SubscribeAsk, repositories
<1>9. ASSUME NEW c \in Interactors, Connect(c) \/ DisposeThrows(c) PROVE LatestInv'
  BY <1>2, <1>9 DEF Connect, DisposeThrows
<1>10. ASSUME NEW n \in Interactors, NEW f \in Feeds,
              AddNotification(n, f) \/ RemoveNotification(n, f)
       PROVE  LatestInv'
  BY <1>2, <1>10 DEF AddNotification, RemoveNotification
<1>11. ASSUME OnData PROVE LatestInv'
  BY <1>2, <1>11 DEF OnData, SendMulticastData, SendUnicastData, SendHeartbeat, SendData
<1>12. ASSUME UNCHANGED vars PROVE LatestInv'
  BY <1>2, <1>12 DEF vars, repositories, told
<1> QED
  BY <1>3, <1>4, <1>5, <1>6, <1>7, <1>8, <1>9, <1>10, <1>11, <1>12
  DEF Next, RequestSubscription

\* Whatever the names of feeds and topics, a subscription filters by the latest
\* answer for its client and topic unless that answer was a denial or the client
\* has an authorization for the topic with the name of the feed.
THEOREM FilterIsLatestAnswerHolds == Spec => []FilterIsLatestAnswer
<1>1. Init => LatestInv
  BY DEF Init, LatestInv, FilterIsLatestAnswer, IsSubscribed
<1>2. TypeOK /\ LatestInv /\ [Next]_vars => LatestInv'
  BY LatestStep
<1>3. LatestInv => FilterIsLatestAnswer
  BY DEF LatestInv
<1> QED
  BY <1>1, <1>2, <1>3, TypeCorrect, PTL DEF Spec

=============================================================================
