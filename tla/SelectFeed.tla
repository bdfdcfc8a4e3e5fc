----------------------------- MODULE SelectFeed -----------------------------
(***************************************************************************)
(* The distributor with the select feed publisher of the examples and the  *)
(* clients it serves.  The publisher asks to be notified of the            *)
(* subscriptions of its feed.  It keeps a ledger of them, made of the      *)
(* forwarded requests, sends a client an image when the client is new in   *)
(* the ledger, and publishes the changes of the topics that are in it.     *)
(*                                                                         *)
(* Between the two lie a write queue, a stream and a read loop each way:   *)
(* what the distributor forwards and what the publisher publishes comes in *)
(* order, later.  What a client has asked for and not given back is        *)
(* counted here; no component of the program does.  repeated and recounted *)
(* are history as well: what the properties except.                        *)
(***************************************************************************)
EXTENDS Distributor, SequencesExt

CONSTANTS
    Publisher,       \* the interactor the select feed publisher is connected by
    Feed,            \* the feed it publishes
    DemandBound,     \* bounds demand
    LineBound        \* bounds what is on its way while more is asked or published

Data == {{}}     \* one packet, which needs no entitlement

ASSUME SelectFeedAssumption ==
    /\ Publisher \in Interactors /\ Feed \in Feeds
    /\ IsFiniteSet(Interactors) /\ IsFiniteSet(FeedTopics)
    /\ ~IsAuthorizationRequired
    /\ Data \in Messages
    /\ DemandBound \in Nat /\ LineBound \in Nat

VARIABLES
    demand,      \* a client's subscribe requests less its unsubscribe requests
    repeated,    \* the <<client, key>> asked for while asked for already
    recounted,   \* those that were when the publisher requested notifications
    forwarded,   \* on its way to the publisher: <<"add", client, key>> or <<"remove", client, key>>
    ledger,      \* Publisher._subscriptions, 0 for no entry
    published,   \* on its way back: <<"image", client, key>> or <<"delta", key>>
    imaged       \* the <<client, key>> sent an image in the subscription they have

program == <<ledger, published>>
requests == <<demand, repeated, recounted>>
selectFeedVars == <<vars, requests, forwarded, program, imaged>>

Room == Len(forwarded) + Len(published) < LineBound

FeedKeys == {ft \in FeedTopics : FeedOf(ft) = Feed}

SelectFeedInit ==
    /\ Init
    /\ demand = [c \in Interactors |-> [ft \in FeedTopics |-> 0]]
    /\ repeated = {}
    /\ recounted = {}
    /\ forwarded = <<>>
    /\ ledger = [ft \in FeedKeys |-> [c \in Interactors |-> 0]]
    /\ published = <<>>
    /\ imaged = {}

-----------------------------------------------------------------------------
(* The distributor's side.                                                 *)

Hears == Publisher \in LiveNotifiables(Feed)

\* The publisher is sent messages, if the handler finds it a notifiable.
Forward(messages) == forwarded' = IF Hears THEN forwarded \o messages ELSE forwarded

StillSubscribed == imaged' = {x \in imaged : subscriptions'[x[1]][x[2]] # None}

Arrive(c) == Connect(c) /\ UNCHANGED <<requests, forwarded, program, imaged>>

Ask(c, ft) ==
    /\ demand[c][ft] < DemandBound /\ Room
    /\ RequestSubscription(c, ft)
    /\ demand' = [demand EXCEPT ![c][ft] = @ + 1]
    /\ repeated' = IF demand[c][ft] > 0 THEN repeated \cup {<<c, ft>>} ELSE repeated
    /\ Forward(IF ft \in FeedKeys THEN << <<"add", c, ft>> >> ELSE <<>>)
    /\ StillSubscribed
    /\ UNCHANGED <<recounted, program>>

GiveBack(c, ft) ==
    /\ demand[c][ft] > 0 /\ Room
    /\ Unsubscribe(c, ft)
    /\ demand' = [demand EXCEPT ![c][ft] = @ - 1]
    /\ Forward(IF ft \in FeedKeys THEN << <<"remove", c, ft>> >> ELSE <<>>)
    /\ StillSubscribed
    /\ UNCHANGED <<repeated, recounted, program>>

\* A client is closed: one removal for each of its topics, in any order.
Leave(c) ==
    /\ c # Publisher
    /\ ReadError(c) \/ WriteError(c)
    /\ demand' = [demand EXCEPT ![c] = [ft \in FeedTopics |-> 0]]
    /\ \E topics \in SetToSeqs(FindByInteractor(c) \cap FeedKeys) :
        Forward([i \in DOMAIN topics |-> <<"remove", c, topics[i]>>])
    /\ StillSubscribed
    /\ UNCHANGED <<repeated, recounted, program>>

\* The publisher is closed, and what it had still to send and hear is lost.
PublisherLeaves ==
    /\ ReadError(Publisher) \/ WriteError(Publisher)
    /\ forwarded' = <<>> /\ published' = <<>>
    /\ imaged' = {}
    /\ UNCHANGED <<requests, ledger>>

\* The loop ends; the publisher goes on with what it has been sent.
LoopEnds ==
    /\ \E c \in Interactors : DisposeThrows(c)
    /\ UNCHANGED <<requests, forwarded, program, imaged>>

\* The constructor asks for the notifications of the feed.  One add is sent for
\* each subscription there is, whatever its count.
RequestNotifications ==
    /\ AddNotification(Publisher, Feed)
    /\ \E existing \in SetToSeqs(SubscribersToFeed(Feed)) :
        forwarded' = IF Live(Publisher)
                     THEN forwarded \o
                            [i \in DOMAIN existing |-> <<"add", existing[i][1], existing[i][2]>>]
                     ELSE forwarded
    /\ recounted' = repeated
    /\ UNCHANGED <<demand, repeated, program, imaged>>

\* The next message of the publisher is handled.  An image for a client that is
\* not subscribed any more is dropped.
HandleImage ==
    /\ published # <<>> /\ Head(published)[1] = "image"
    /\ LET c == Head(published)[2]
           ft == Head(published)[3]
       IN  \/ /\ SendUnicastData(Publisher, c, ft, Data)
              /\ imaged' = IF Live(c) THEN imaged \cup {<<c, ft>>} ELSE imaged
           \/ /\ CanSend(Publisher) /\ ~IsSubscribed(c, ft)
              /\ UNCHANGED <<vars, imaged>>
    /\ published' = Tail(published)
    /\ UNCHANGED <<requests, forwarded, ledger>>

HandleDelta ==
    /\ published # <<>> /\ Head(published)[1] = "delta"
    /\ SendMulticastData(Publisher, Head(published)[2], Data)
    /\ published' = Tail(published)
    /\ UNCHANGED <<requests, forwarded, ledger, imaged>>

-----------------------------------------------------------------------------
(* The publisher's side, under its lock.                                   *)

InLedger(ft) == \E c \in Interactors : ledger[ft][c] > 0

\* An image when the topic is new, and none when only the client is.
AddSubscriptionOf_NewTopic(c, ft) ==
    /\ ledger' = [ledger EXCEPT ![ft][c] = @ + 1]
    /\ published' = IF ~InLedger(ft) THEN Append(published, <<"image", c, ft>>) ELSE published

AddSubscriptionOf(c, ft) ==
    /\ ledger' = [ledger EXCEPT ![ft][c] = @ + 1]
    /\ published' = IF ledger[ft][c] = 0 THEN Append(published, <<"image", c, ft>>) ELSE published

RemoveSubscription(c, ft) ==
    /\ ledger' = [ledger EXCEPT ![ft][c] = IF @ = 0 THEN 0 ELSE @ - 1]
    /\ UNCHANGED published

HandleForwardedSubscription ==
    /\ forwarded # <<>>
    /\ LET request == Head(forwarded)
       IN  IF request[1] = "add" THEN AddSubscriptionOf(request[2], request[3])
           ELSE RemoveSubscription(request[2], request[3])
    /\ forwarded' = Tail(forwarded)
    /\ UNCHANGED <<vars, requests, imaged>>

\* The data of a topic changes.
HandleExchangeData(ft) ==
    /\ Live(Publisher)
    /\ InLedger(ft) /\ Room
    /\ published' = Append(published, <<"delta", ft>>)
    /\ UNCHANGED <<vars, requests, forwarded, ledger, imaged>>

-----------------------------------------------------------------------------
ProgramStep == RequestNotifications \/ HandleForwardedSubscription
HandlerStep == HandleImage \/ HandleDelta

SelectFeedNext ==
    \/ \E c \in Interactors : Arrive(c) \/ Leave(c)
    \/ PublisherLeaves
    \/ LoopEnds
    \/ \E c \in Interactors, ft \in FeedTopics : Ask(c, ft) \/ GiveBack(c, ft)
    \/ \E ft \in FeedKeys : HandleExchangeData(ft)
    \/ ProgramStep
    \/ HandlerStep

\* The publisher takes what it is sent, and the event loop what the publisher
\* sends; nobody has to subscribe, to leave or to change data.
SelectFeedSpec ==
    /\ SelectFeedInit /\ [][SelectFeedNext]_selectFeedVars
    /\ WF_selectFeedVars(ProgramStep) /\ WF_selectFeedVars(HandlerStep)

-----------------------------------------------------------------------------
(* Properties.                                                             *)

\* selectfeed.md: the ledger holds "the number of subscriptions to this ticker a
\* client has made".  With everything forwarded taken it holds no less than what a
\* connected client has asked for and not given back, whether the client or the
\* publisher came first, except for a topic the client had asked for repeatedly
\* before the publisher came, for which one add or none is forwarded.
AskedIsInLedger ==
    Hears /\ forwarded = <<>> =>
        \A c \in Interactors, ft \in FeedKeys :
            Live(c) /\ <<c, ft>> \notin recounted => ledger[ft][c] >= demand[c][ft]

\* selectfeed.md: a subscription of a connected publisher's topic is answered with
\* an image while the loop runs, unless the client has ever asked for the topic
\* again before giving it back, which can leave a count in the ledger.
SubscribedGetsImage ==
    \A c \in Interactors, ft \in FeedKeys :
        IsSubscribed(c, ft) /\ Live(Publisher) ~>
            \/ <<c, ft>> \in imaged
            \/ ~IsSubscribed(c, ft) \/ ~Live(Publisher)
            \/ <<c, ft>> \in repeated \/ loop = "faulted"

\* selectfeed.md: the publisher sends the client an image, "and then
\* subsequently sends any new or changed data (the delta)".
DeltaFollowsImage ==
    \A ft \in FeedKeys : \A c \in fresh[ft] : <<c, ft>> \in imaged

\* SubscriptionRepository: "Feed->Topic->Interactor->SubscriptionCount": with
\* every subscription given back the count of a connected client is 0, and the
\* entry is removed.
GivenBackIsRemoved ==
    \A c \in Interactors, ft \in FeedTopics :
        Live(c) /\ IsSubscribed(c, ft) => demand[c][ft] > 0
=============================================================================
