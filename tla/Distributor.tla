---------------------------- MODULE Distributor ----------------------------
(***************************************************************************)
(* The distributor's managers (core/src/JetBlack.MessageBus.Distributor):  *)
(* one action per event the event loop hands to Server.OnInteractorEvent.  *)
(* The loop is a single thread, so a handler runs to completion before the *)
(* next one starts, and a handler is one step.                             *)
(*                                                                         *)
(* Concurrency reaches the handlers only through the order of the events.  *)
(* An interactor has a read task, which queues the messages it receives    *)
(* and at most one error, its last event, and a write task, which queues   *)
(* at most one error.  The two are not ordered with each other: a message  *)
(* can be handled after the error that closed its sender.  reading[c] and  *)
(* writing[c] say that the error of that task has not been handled.  The   *)
(* first error may be the only one: it cancels the other task, which then  *)
(* may end without an error of its own.  silent has the interactors whose  *)
(* read task is known to have ended so; what it had queued may still come. *)
(*                                                                         *)
(* A message that SendMessage puts on a live interactor's write queue is   *)
(* recorded in what the receiver has been told (asked, announced, news,    *)
(* fresh, delivered): those variables, and grants and answer, are history  *)
(* that no handler reads.                                                  *)
(*                                                                         *)
(* An operator named Op_Variant is Op with a mistake, no part of Spec: the *)
(* README says which property each one breaks.                             *)
(***************************************************************************)
EXTENDS Integers, FiniteSets

CONSTANTS
    Interactors,        \* the clients that connect
    Heartbeat,          \* the interactor the server publishes heartbeats from
    Feeds, Topics,
    Entitlements,
    HeartbeatKey,       \* the feed and topic "__admin__", "heartbeat"
    RoleDecisions,      \* the triples <<interactor, feed, role>> HasRole answers true to
    ExplicitFeeds,      \* the feeds an interactor's own permissions name (Interactor.Feeds)
    IsAuthorizationRequired,  \* the distributor's setting
    DebugLogging,       \* the log level formats debug messages
    Prompt,             \* the clients whose two tasks get a thread as soon as started
    Notifiers,          \* the clients that request notifications
    Answers,            \* the responses clients send: whom and which topic they are
                        \* about, and the authorization
    Messages,           \* the data messages publishers send
    WriteTaskMayFail,   \* the stream may fail on a write
    CountBound,         \* bounds |Count| of a subscription
    None                \* no value

FeedTopics == Feeds \X Topics
RoleNames == {"Subscribe", "Publish", "Notify", "Authorize"}
Publishers == Interactors \cup {Heartbeat}

\* An authorization (AuthorizationResponse, AuthorizationInfo): a missing set
\* of entitlements is the empty set.
Authorization == [isAuthorizationRequired : BOOLEAN, entitlements : SUBSET Entitlements]
NotRequired == [isAuthorizationRequired |-> FALSE, entitlements |-> {}]

\* A packet is its set of entitlements: the reader returns null for a set of
\* no elements, so {} is "no entitlements"; a message is a set of packets.
Packet == SUBSET Entitlements

SubscriptionState == [count : Int, authorizationInfo : Authorization]

ASSUME ConstantsAssumption ==
    /\ Heartbeat \notin Interactors
    /\ RoleDecisions \subseteq Interactors \X Feeds \X RoleNames
    /\ ExplicitFeeds \in [Interactors -> SUBSET Feeds]
    /\ IsAuthorizationRequired \in BOOLEAN
    /\ DebugLogging \in BOOLEAN
    /\ Prompt \subseteq Interactors
    /\ WriteTaskMayFail \in BOOLEAN
    /\ Notifiers \subseteq Interactors
    /\ Answers \subseteq Interactors \X FeedTopics \X Authorization
    /\ Messages \subseteq SUBSET Packet
    /\ CountBound \in Nat
    /\ None \notin Authorization
    /\ None \notin SubscriptionState

VARIABLES
    loop,         \* "running", or "faulted" once a handler has thrown
    phase,        \* c is "new", "live" (in the repository) or "closed"
    reading,      \* the read task's error has not been handled
    writing,      \* the write task's error has not been handled
    silent,       \* the clients whose read task has ended without an error
    feedRoleInteractors, \* InteractorRepository's index, as triples
    authorizations,      \* Interactor._authorizations
    subscriptions,       \* SubscriptionRepository._cache, None for no entry
    notifiables,         \* NotificationRepository._feedToNotifiables
    publishers,          \* PublisherRepository, topic to publishers
    asked,        \* the <<client, topic>> an authorizer has been asked about
    grants,       \* the answers sent for a client's topic, and accepted
    answer,       \* the answer accepted last, NotRequired if none was needed
    announced,    \* the <<client, topic>> a notifiable was told of since both
                  \* its request and the subscription were made
    news,         \* the <<client, topic>> whose last news was an add
    fresh,        \* the subscribers whose last image of a topic carried data
    delivered     \* the data messages the last handler sent

repositories == <<feedRoleInteractors, authorizations, subscriptions, notifiables, publishers>>
lifecycle == <<loop, phase, reading, writing, silent>>
told == <<asked, grants, answer, announced, news, fresh, delivered>>
vars == <<lifecycle, repositories, told>>

FeedOf(ft) == ft[1]
Keys == Interactors \X FeedTopics

TypeOK ==
    /\ loop \in {"running", "faulted"}
    /\ phase \in [Interactors -> {"new", "live", "closed"}]
    /\ reading \in [Interactors -> BOOLEAN]
    /\ writing \in [Interactors -> BOOLEAN]
    /\ silent \subseteq Interactors
    /\ feedRoleInteractors \subseteq Feeds \X RoleNames \X Interactors
    /\ authorizations \in [Interactors -> [FeedTopics -> Authorization \cup {None}]]
    /\ subscriptions \in [Interactors -> [FeedTopics -> SubscriptionState \cup {None}]]
    /\ notifiables \in [Feeds -> SUBSET Interactors]
    /\ publishers \in [FeedTopics -> SUBSET Publishers]
    /\ asked \in [Interactors -> SUBSET Keys]
    /\ grants \in [Interactors -> [FeedTopics -> SUBSET Authorization]]
    /\ answer \in [Interactors -> [FeedTopics -> Authorization \cup {None}]]
    /\ announced \in [Interactors -> SUBSET Keys]
    /\ news \in [Interactors -> SUBSET Keys]
    /\ fresh \in [FeedTopics -> SUBSET Interactors]
    /\ delivered \subseteq [to : Interactors, key : FeedTopics, packets : SUBSET Packet]

Init ==
    /\ loop = "running"
    /\ phase = [c \in Interactors |-> "new"]
    /\ reading = [c \in Interactors |-> TRUE]
    /\ writing = [c \in Interactors |-> TRUE]
    /\ silent = {}
    /\ feedRoleInteractors = {}
    /\ authorizations = [c \in Interactors |-> [ft \in FeedTopics |-> None]]
    /\ subscriptions = [c \in Interactors |-> [ft \in FeedTopics |-> None]]
    /\ notifiables = [f \in Feeds |-> {}]
    /\ publishers = [ft \in FeedTopics |-> {}]
    /\ asked = [a \in Interactors |-> {}]
    /\ grants = [c \in Interactors |-> [ft \in FeedTopics |-> {}]]
    /\ answer = [c \in Interactors |-> [ft \in FeedTopics |-> None]]
    /\ announced = [n \in Interactors |-> {}]
    /\ news = [n \in Interactors |-> {}]
    /\ fresh = [ft \in FeedTopics |-> {}]
    /\ delivered = {}

-----------------------------------------------------------------------------
(* What handlers ask of the state.                                         *)

HasRole(c, f, role) == <<c, f, role>> \in RoleDecisions

\* SendMessage reaches the write queue.  After Dispose the token source is
\* disposed: SendMessage throws, and every caller catches what it throws.
Live(c) == phase[c] = "live"

\* The loop may take a message of c: its read task was started and its error,
\* which is its last event, has not been handled.
CanSend(c) == loop = "running" /\ phase[c] # "new" /\ reading[c]

IsSubscribed(c, ft) == subscriptions[c][ft] # None
Subscribers(ft) == {c \in Interactors : IsSubscribed(c, ft)}
FindByInteractor_Lazy(c) == {}   \* evaluated once they are removed
FindByInteractor(c) == {ft \in FeedTopics : IsSubscribed(c, ft)}
FindRole(f, role) == {a \in Interactors : <<f, role, a>> \in feedRoleInteractors}
LiveNotifiables(f) == {n \in notifiables[f] : Live(n)}

\* The lookup of the topic uses the name of the feed as its key.
HasAuthorization(c, ft) ==
    LET f == FeedOf(ft) IN f \in Topics /\ authorizations[c][<<f, f>>] # None

\* The constructor of AuthorizationResponseEventArg does not keep its isInitial.
IsInitial_Kept(isInitial) == isInitial
IsInitial(isInitial) == FALSE

Denies(r) == r.isAuthorizationRequired /\ r.entitlements = {}

\* DataPacket.IsAuthorized, asked only when authorization is required.
Passes(packet, r) ==
    r.isAuthorizationRequired => packet # {} /\ packet \subseteq r.entitlements
GetAuthorizedData_Any(packets, r) ==
    {packet \in packets : r.isAuthorizationRequired => packet \cap r.entitlements # {}}
GetAuthorizedData(packets, r) == {packet \in packets : Passes(packet, r)}

-----------------------------------------------------------------------------
(* Repository operations, as the value of the repository after them.       *)

AddSubscriptionState(state, r, isAuthorizationUpdate) ==
    IF isAuthorizationUpdate
    THEN [count |-> IF state = None THEN 0 ELSE state.count, authorizationInfo |-> r]
    ELSE IF state = None THEN [count |-> 1, authorizationInfo |-> r]
         ELSE [state EXCEPT !.count = state.count + 1]

RemoveSubscriptionState_Revoked(state) ==
    IF state = None \/ state.count - 1 = 0 THEN None
    ELSE [state EXCEPT !.authorizationInfo = None]
RemoveSubscriptionState(state) ==
    IF state = None \/ state.count - 1 = 0 THEN None
    ELSE [state EXCEPT !.count = state.count - 1]

\* Every live notifiable of the feed is told of the subscription.
ForwardAdd(c, ft) ==
    LET hear(view) == [n \in Interactors |->
            IF n \in LiveNotifiables(FeedOf(ft)) THEN view[n] \cup {<<c, ft>>} ELSE view[n]]
    IN  announced' = hear(announced) /\ news' = hear(news)

\* ... or of its removal; a subscription that is gone has to be announced anew.
ForwardRemove(c, ft) ==
    /\ news' = [n \in Interactors |->
            IF n \in LiveNotifiables(FeedOf(ft)) THEN news[n] \ {<<c, ft>>} ELSE news[n]]
    /\ announced' = [n \in Interactors |->
            IF subscriptions'[c][ft] = None THEN announced[n] \ {<<c, ft>>} ELSE announced[n]]

-----------------------------------------------------------------------------
(* Connection.                                                             *)

\* AddFeedRoles: an index of the roles c has on the feeds its permissions name.
FeedRoles(c) ==
    {x \in Feeds \X RoleNames \X {c} : x[1] \in ExplicitFeeds[c] /\ HasRole(c, x[1], x[2])}

\* OnInteractorConnected: InteractorRepository.Add.
Connect(c) ==
    /\ loop = "running" /\ phase[c] = "new"
    /\ phase' = [phase EXCEPT ![c] = "live"]
    /\ feedRoleInteractors' = feedRoleInteractors \cup FeedRoles(c)
    /\ delivered' = {}
    /\ UNCHANGED <<loop, reading, writing, silent, authorizations, subscriptions, notifiables,
                   publishers, asked, grants, answer, announced, news, fresh>>

-----------------------------------------------------------------------------
(* Subscription and authorization.                                         *)

AddSubscription(c, ft, r, isAuthorizationUpdate) ==
    /\ subscriptions' = [subscriptions EXCEPT ![c][ft] =
                            AddSubscriptionState(@, r, isAuthorizationUpdate)]
    /\ ForwardAdd(c, ft)

\* SubscriptionManager.OnAuthorizationResponse.
OnAuthorizationResponse(c, ft, r, isInitial) ==
    \/ /\ Denies(r)
       /\ fresh' = [fresh EXCEPT ![ft] = @ \ {c}]  \* the empty image
       /\ UNCHANGED <<subscriptions, announced, news>>
    \/ /\ ~Denies(r)
       /\ AddSubscription(c, ft, r, ~isInitial)
       /\ UNCHANGED fresh

\* InteractorManager.AcceptAuthorization for a client the repository holds.
AcceptAuthorization(c, ft, r) ==
    /\ Live(c)
    /\ authorizations' = IF HasAuthorization(c, ft) THEN authorizations
                         ELSE [authorizations EXCEPT ![c][ft] = r]
    /\ OnAuthorizationResponse(c, ft, r, IsInitial(~HasAuthorization(c, ft)))
    /\ answer' = [answer EXCEPT ![c][ft] = r]
    /\ delivered' = {}
    /\ UNCHANGED <<lifecycle, feedRoleInteractors, notifiables, publishers, asked>>

\* RequestSubscription of a client that has an authorization for the topic.
SubscribeAuthorized(c, ft) ==
    /\ CanSend(c) /\ HasRole(c, FeedOf(ft), "Subscribe")
    /\ authorizations[c][ft] # None
    /\ IsSubscribed(c, ft) => subscriptions[c][ft].count < CountBound
    /\ AddSubscription(c, ft, authorizations[c][ft], FALSE)
    /\ delivered' = {}
    /\ UNCHANGED <<lifecycle, feedRoleInteractors, authorizations, notifiables,
                   publishers, asked, grants, answer, fresh>>

SubscribeUnrequired_Always(c, ft) ==
    /\ CanSend(c) /\ HasRole(c, FeedOf(ft), "Subscribe")
    /\ authorizations[c][ft] = None
    /\ AcceptAuthorization(c, ft, NotRequired)
    /\ UNCHANGED grants

\* ... without one, where the distributor requires none.
SubscribeUnrequired(c, ft) ==
    /\ CanSend(c) /\ HasRole(c, FeedOf(ft), "Subscribe")
    /\ authorizations[c][ft] = None
    /\ ~IsAuthorizationRequired
    /\ AcceptAuthorization(c, ft, NotRequired)
    /\ UNCHANGED grants

\* ... without one, where it does: every authorizer of the feed is asked.
SubscribeAsk(c, ft) ==
    /\ CanSend(c) /\ HasRole(c, FeedOf(ft), "Subscribe")
    /\ authorizations[c][ft] = None
    /\ IsAuthorizationRequired
    /\ asked' = [a \in Interactors |->
            IF a \in FindRole(FeedOf(ft), "Authorize") /\ Live(a)
            THEN asked[a] \cup {<<c, ft>>} ELSE asked[a]]
    /\ delivered' = {}
    /\ UNCHANGED <<lifecycle, repositories, grants, answer, announced, news, fresh>>

\* An authorization response.  OnMessage takes one from any client, whatever it
\* was asked, at any time and as often as it comes.
Authorize(a, c, ft, r) ==
    /\ CanSend(a)
    /\ AcceptAuthorization(c, ft, r)
    /\ grants' = [grants EXCEPT ![c][ft] = @ \cup {r}]

Unsubscribe(c, ft) ==
    /\ CanSend(c) /\ HasRole(c, FeedOf(ft), "Subscribe")
    /\ IsSubscribed(c, ft) => subscriptions[c][ft].count > -CountBound
    /\ subscriptions' = [subscriptions EXCEPT ![c][ft] = RemoveSubscriptionState(@)]
    /\ ForwardRemove(c, ft)
    /\ fresh' = IF subscriptions'[c][ft] = None
                THEN [fresh EXCEPT ![ft] = @ \ {c}] ELSE fresh
    /\ delivered' = {}
    /\ UNCHANGED <<lifecycle, feedRoleInteractors, authorizations, notifiables,
                   publishers, asked, grants, answer>>

-----------------------------------------------------------------------------
(* Notification.                                                           *)

\* GetSubscribersToFeed.
SubscribersToFeed_None(f) == {}
SubscribersToFeed(f) == {x \in Keys : FeedOf(x[2]) = f /\ IsSubscribed(x[1], x[2])}

\* A new request: the subscriptions of the feed are sent to the notifiable.
\* For a closed one SendMessage throws, and logging that failure formats a
\* template of two arguments with one, which throws out of the handler.
AddNotification(n, f) ==
    /\ CanSend(n) /\ n \in Notifiers
    /\ n \notin notifiables[f]
    /\ notifiables' = [notifiables EXCEPT ![f] = @ \cup {n}]
    /\ LET existing == SubscribersToFeed(f)
           hear(view) == IF Live(n) THEN [view EXCEPT ![n] = @ \cup existing] ELSE view
       IN  /\ announced' = hear(announced)
           /\ news' = hear(news)
           /\ loop' = IF ~Live(n) /\ existing # {} /\ DebugLogging
                      THEN "faulted" ELSE "running"
    /\ delivered' = {}
    /\ UNCHANGED <<phase, reading, writing, silent, feedRoleInteractors, authorizations,
                   subscriptions, publishers, asked, grants, answer, fresh>>

RemoveNotification(n, f) ==
    /\ CanSend(n)
    /\ n \in notifiables[f]
    /\ notifiables' = [notifiables EXCEPT ![f] = @ \ {n}]
    /\ LET forget(view) == [view EXCEPT ![n] = {x \in @ : FeedOf(x[2]) # f}]
       IN  announced' = forget(announced) /\ news' = forget(news)
    /\ delivered' = {}
    /\ UNCHANGED <<lifecycle, feedRoleInteractors, authorizations, subscriptions,
                   publishers, asked, grants, answer, fresh>>

-----------------------------------------------------------------------------
(* Data.                                                                   *)

\* The packets go out to receivers, each after its own filter; a receiver
\* left with none of them sees an image with no data.
SendData(p, ft, receivers, packets) ==
    LET filtered(c) == GetAuthorizedData(packets, subscriptions[c][ft].authorizationInfo)
        live == {c \in receivers : Live(c)}
    IN  /\ publishers' = IF receivers = {} THEN publishers
                         ELSE [publishers EXCEPT ![ft] = @ \cup {p}]
        /\ delivered' = {[to |-> c, key |-> ft, packets |-> filtered(c)] : c \in live}
        /\ fresh' = [fresh EXCEPT ![ft] =
                        (@ \ live) \cup {c \in live : filtered(c) # {}}]
        /\ UNCHANGED <<lifecycle, feedRoleInteractors, authorizations, subscriptions,
                       notifiables, asked, grants, answer, announced, news>>

SendMulticastData(p, ft, packets) ==
    /\ CanSend(p) /\ HasRole(p, FeedOf(ft), "Publish")
    /\ SendData(p, ft, Subscribers(ft), packets)

SendUnicastData(p, c, ft, packets) ==
    /\ CanSend(p) /\ HasRole(p, FeedOf(ft), "Publish")
    /\ IsSubscribed(c, ft)
    /\ SendData(p, ft, {c}, packets)

\* HeartbeatCallback: the timer queues a message with no packets, from an
\* interactor that is allowed to publish and never connects or closes.
SendHeartbeat ==
    /\ loop = "running"
    /\ HeartbeatKey \in FeedTopics
    /\ SendData(Heartbeat, HeartbeatKey, Subscribers(HeartbeatKey), {})

-----------------------------------------------------------------------------
(* Close and fault.                                                        *)

\* RemoveInteractor of the notification repository.
RemoveInteractor_Last(c) == [f \in Feeds |->
    IF notifiables[f] = {c} THEN {c} ELSE notifiables[f] \ {c}]
RemoveInteractor(c) == [f \in Feeds |-> notifiables[f] \ {c}]

\* The topics whose only publisher is c.
StaleTopics_OneLeft(c) ==
    {ft \in FeedTopics : c \in publishers[ft] /\ Cardinality(publishers[ft] \ {c}) = 1}
StaleTopics(c) == {ft \in FeedTopics : publishers[ft] = {c}}

\* CloseInteractor and FaultInteractor: the repository, then the handlers of
\* the event in the order they were added: notifications, publishers (which
\* sends the empty image of every topic that has no publisher left),
\* subscriptions (which forwards one removal for each).
CloseInteractor(c) ==
    LET topics == FindByInteractor(c)
        gone == {<<c, ft>> : ft \in topics}
    IN  /\ phase' = [phase EXCEPT ![c] = "closed"]
        /\ feedRoleInteractors' = {x \in feedRoleInteractors : x[3] # c}
        /\ notifiables' = RemoveInteractor(c)
        /\ publishers' = [ft \in FeedTopics |-> publishers[ft] \ {c}]
        /\ fresh' = [ft \in FeedTopics |->
                {d \in fresh[ft] : ~(ft \in StaleTopics(c) /\ IsSubscribed(d, ft)) /\ d # c}]
        /\ subscriptions' = [subscriptions EXCEPT ![c] = [ft \in FeedTopics |-> None]]
        /\ news' = [n \in Interactors |->
                IF n = c THEN {}
                ELSE {x \in news[n] : ~(x \in gone /\ n \in LiveNotifiables(FeedOf(x[2])))}]
        /\ announced' = [n \in Interactors |->
                IF n = c THEN {} ELSE announced[n] \ gone]
        /\ delivered' = {}
        /\ UNCHANGED <<loop, authorizations, asked, grants, answer>>

\* OnInteractorError for the read task's error.
ReadError(c) ==
    /\ loop = "running" /\ phase[c] # "new" /\ reading[c] /\ c \notin silent
    /\ reading' = [reading EXCEPT ![c] = FALSE]
    /\ UNCHANGED <<writing, silent>>
    /\ CloseInteractor(c)

\* ... and for the write task's.  Dispose waits until the read task, canceled by
\* the write task, is over: with its error queued by then or, having left its loop
\* between two messages, without one.
WriteError(c) ==
    /\ WriteTaskMayFail
    /\ loop = "running" /\ phase[c] # "new" /\ writing[c]
    /\ writing' = [writing EXCEPT ![c] = FALSE]
    /\ silent' \in IF reading[c] THEN {silent, silent \cup {c}} ELSE {silent}
    /\ UNCHANGED reading
    /\ CloseInteractor(c)

\* ... for the first of the two, when the other task was canceled before it had
\* a thread and after Dispose looked: Wait throws out of InteractorRepository.Remove
\* and out of the loop, with the interactor still in the repository.
DisposeThrows(c) ==
    /\ loop = "running" /\ Live(c) /\ c \notin Prompt
    /\ loop' = "faulted"
    /\ feedRoleInteractors' = {x \in feedRoleInteractors : x[3] # c}
    /\ delivered' = {}
    /\ UNCHANGED <<phase, reading, writing, silent, authorizations, subscriptions,
                   notifiables, publishers, asked, grants, answer, announced, news, fresh>>

RequestSubscription(c, ft) ==
    \/ SubscribeAuthorized(c, ft)
    \/ SubscribeUnrequired(c, ft)
    \/ SubscribeAsk(c, ft)

OnData ==
    \/ \E p \in Interactors, ft \in FeedTopics, packets \in Messages :
        \/ SendMulticastData(p, ft, packets)
        \/ \E c \in Interactors : SendUnicastData(p, c, ft, packets)
    \/ SendHeartbeat

Next ==
    \/ \E c \in Interactors :
        \/ Connect(c)
        \/ ReadError(c)
        \/ WriteError(c)
        \/ DisposeThrows(c)
    \/ \E c \in Interactors, ft \in FeedTopics :
        \/ RequestSubscription(c, ft)
        \/ Unsubscribe(c, ft)
    \/ \E n \in Interactors, f \in Feeds :
        \/ AddNotification(n, f)
        \/ RemoveNotification(n, f)
    \/ \E a \in Interactors, x \in Answers : Authorize(a, x[1], x[2], x[3])
    \/ OnData

Spec == Init /\ [][Next]_vars

-----------------------------------------------------------------------------
(* Properties.                                                             *)

\* What may be in force for a client's topic: an answer that was sent for it or,
\* only if the distributor requires no authorization, that none is needed.
Granted(c, ft) ==
    grants[c][ft] \cup (IF IsAuthorizationRequired THEN {} ELSE {NotRequired})

\* Every data message carries only packets that one of the answers in force for
\* its receiver and topic lets through (AcceptAuthorization, stored with the
\* subscription, used by GetAuthorizedData).
DeliveredIsEntitled ==
    \A d \in delivered : \E r \in Granted(d.to, d.key) :
        \A packet \in d.packets : Passes(packet, r)

\* However its client subscribed (after an answer, or from the cached authorization
\* before or after others), a subscription filters by an answer that was sent for
\* this client and this topic; that none is needed is in force only where the
\* distributor requires no authorization.  Who sent the answer is not checked.
SubscriptionsAnswered ==
    \A c \in Interactors, ft \in FeedTopics : IsSubscribed(c, ft) =>
        subscriptions[c][ft].authorizationInfo \in Granted(c, ft)

\* A subscription filters by the latest answer for its client and topic, with two
\* exceptions: that answer was a denial, which leaves a subscription as it was, or
\* the client has an authorization for a topic with the name of the feed, which
\* HasAuthorization takes for one of every topic of the feed.
FilterIsLatestAnswer ==
    \A c \in Interactors, ft \in FeedTopics : IsSubscribed(c, ft) =>
        \/ subscriptions[c][ft].authorizationInfo = answer[c][ft]
        \/ Denies(answer[c][ft])
        \/ HasAuthorization(c, ft)

\* SubscriptionManager.RequestSubscription: a client that has been answered for
\* a topic is not asked about again, its authorization is known.
AnsweredIsKnown ==
    \A c \in Interactors, ft \in FeedTopics :
        answer[c][ft] # None => authorizations[c][ft] # None

\* A notifiable has been told of every subscription to its feed, those made
\* before its request (OnNewNotificationRequest) and after (ForwardSubscription).
KnowsSubscribers ==
    \A f \in Feeds : \A n \in LiveNotifiables(f) :
        \A c \in Interactors, ft \in FeedTopics :
            FeedOf(ft) = f /\ IsSubscribed(c, ft) => <<c, ft>> \in announced[n]

\* A notifiable whose last news of a client's topic was an add is right: no
\* subscription goes, by request or with its client, without a removal forwarded.
NewsIsCurrent ==
    \A n \in Interactors : \A x \in news[n] : IsSubscribed(x[1], x[2])

\* A subscriber whose last image of a topic carried data has a recorded
\* publisher: the last publisher of a topic never goes without the empty image.
FreshHasPublisher ==
    \A ft \in FeedTopics : \A c \in fresh[ft] : IsSubscribed(c, ft) /\ publishers[ft] # {}

\* No repository keeps anything of an interactor once the error of its read
\* task, which is its last event, has been handled, whether its write task failed
\* as well, before or after, and whatever of its requests was handled in between.
\* Of a read task that ends without an error it says nothing.
NothingLeftBehind ==
    \A c \in Interactors : ~reading[c] =>
        /\ FindByInteractor(c) = {}
        /\ \A f \in Feeds : c \notin notifiables[f]
        /\ \A ft \in FeedTopics : c \notin publishers[ft]

\* getting-started-windows.md: when all publishers on a topic have disconnected
\* the distributor sends an empty message to all the subscribers.  A fresh image
\* has a publisher that is connected or whose last event is still to come.
FreshHasOpenPublisher ==
    \A ft \in FeedTopics : fresh[ft] # {} => \E p \in publishers[ft] :
        p = Heartbeat \/ Live(p) \/ (reading[p] /\ p \notin silent)

\* authorization.md: the distributor finds the connected clients that have the
\* Authorize role, and requests authorization from them.
AuthorizersAreFound ==
    \A a \in Interactors, f \in Feeds :
        Live(a) /\ HasRole(a, f, "Authorize") => a \in FindRole(f, "Authorize")

\* authorization.md: after authorization has been received the distributor uses
\* the entitlements to filter the data; a denial has none.
DenialStopsData ==
    \A d \in delivered : Denies(answer[d.to][d.key]) => d.packets = {}

\* Interactor.cs: messages handled after their sender was closed are tolerated;
\* none stops the event loop.
LoopSurvives == loop = "running"
=============================================================================
