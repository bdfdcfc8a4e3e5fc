----------------------------- MODULE Accounting -----------------------------
(***************************************************************************)
(* The gauges of interactors and of notification requests, which the       *)
(* handlers of Distributor move as they go (InteractorMetrics).            *)
(***************************************************************************)
EXTENDS Distributor

VARIABLES
    interactorsGauge,     \* Metrics.Interactors
    feedRequestsGauge     \* Metrics.FeedRequests, of one interactor's feed

gauges == <<interactorsGauge, feedRequestsGauge>>

AccountsInit ==
    /\ Init
    /\ interactorsGauge = 0
    /\ feedRequestsGauge = [c \in Interactors |-> [f \in Feeds |-> 0]]

\* InteractorRepository.Add.
ConnectAccount(c) ==
    /\ Connect(c)
    /\ interactorsGauge' = interactorsGauge + 1
    /\ UNCHANGED feedRequestsGauge

\* NotificationRepository.AddRequest and RemoveRequest.
NotificationAccount(n, f) ==
    /\ AddNotification(n, f) \/ RemoveNotification(n, f)
    /\ feedRequestsGauge' = [feedRequestsGauge EXCEPT ![n][f] =
            IF n \in notifiables[f] THEN @ - 1 ELSE @ + 1]
    /\ UNCHANGED interactorsGauge

\* The gauge once RemoveInteractor has gone through the feeds c is notified of.
RequestsWithout_AnyFeed(c) == [f \in Feeds |->
    IF notifiables[f] # {} THEN feedRequestsGauge[c][f] - 1 ELSE feedRequestsGauge[c][f]]
RequestsWithout(c) == [f \in Feeds |->
    IF c \in notifiables[f] THEN feedRequestsGauge[c][f] - 1 ELSE feedRequestsGauge[c][f]]

\* InteractorRepository.Remove, once for each error.
CloseAccount(c) ==
    /\ ReadError(c) \/ WriteError(c)
    /\ interactorsGauge' = interactorsGauge - 1
    /\ feedRequestsGauge' = [feedRequestsGauge EXCEPT ![c] = RequestsWithout(c)]

\* ... and when Dispose throws, which comes after the gauge has been moved.
ThrowAccount(c) ==
    /\ DisposeThrows(c)
    /\ interactorsGauge' = interactorsGauge - 1
    /\ UNCHANGED feedRequestsGauge

\* What moves none of these gauges: subscriptions, answers and data.
Uncounted ==
    /\ \/ \E c \in Interactors, ft \in FeedTopics : RequestSubscription(c, ft) \/ Unsubscribe(c, ft)
       \/ \E a \in Interactors, x \in Answers : Authorize(a, x[1], x[2], x[3])
       \/ OnData
    /\ UNCHANGED gauges

AccountsNext ==
    \/ \E c \in Interactors : ConnectAccount(c) \/ CloseAccount(c) \/ ThrowAccount(c)
    \/ \E n \in Interactors, f \in Feeds : NotificationAccount(n, f)
    \/ Uncounted

AccountsSpec == AccountsInit /\ [][AccountsNext]_<<vars, gauges>>

-----------------------------------------------------------------------------
\* InteractorMetrics: "The number of notification requests" counts the feeds an
\* interactor is notified of, whatever the order of requests, errors and
\* requests handled after an error.
FeedRequestsGaugeIsExact ==
    \A n \in Interactors, f \in Feeds :
        feedRequestsGauge[n][f] = IF n \in notifiables[f] THEN 1 ELSE 0

\* InteractorMetrics: the gauge is "The number of interactors".
InteractorsGaugeIsExact == interactorsGauge = Cardinality({c \in Interactors : Live(c)})

\* What the handlers make of it: one less for each interactor that has had an error
\* of both its tasks, which is removed twice, and, once the loop has ended, perhaps
\* one less for the interactor whose Dispose threw.
TwiceRemoved == {c \in Interactors : ~reading[c] /\ ~writing[c]}
InteractorsGaugeFallsBehind ==
    LET counted == Cardinality({c \in Interactors : Live(c)}) - Cardinality(TwiceRemoved)
    IN  \/ interactorsGauge = counted
        \/ loop = "faulted" /\ interactorsGauge = counted - 1
=============================================================================
