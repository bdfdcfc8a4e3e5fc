# A TLA+ development of jetblack-messagebus

jetblack-messagebus is a message bus: clients connect to a *distributor*, subscribe
to topics of feeds, publish data to them, ask to be notified of subscriptions, and
may authorize the subscriptions of others. This directory holds TLA+ modules of the
distributor, of the client library, of what passes between them and of what admits
a client; the TLC configurations that check small instances of them; and TLAPS
proofs about them for instances of any size. Paths below are relative to
`core/src/JetBlack.MessageBus.*` unless they begin with `examples/` or `extensions/`.

## 1. The system

| part | state it keeps | operations | talks to |
|---|---|---|---|
| Acceptor, SspiAcceptor | none | accept, authenticate, create an interactor | enqueues *connected* |
| Interactor (one per connection) | stream, write queue, token, cached authorizations, two tasks | `Start`, `SendMessage`, `SetAuthorization`, `Dispose`; the read and the write loop | enqueues *message* and *error* |
| EventQueue | queue of events | `Enqueue`, `ProcessQueue` (the event loop) | calls `Server.OnInteractorEvent` |
| InteractorManager, InteractorRepository | interactors by id, interactors by feed and role | add, close, fault, request and accept authorization | raises closed, faulted, authorization responses |
| SubscriptionManager, SubscriptionRepository | feed, topic, interactor to count and authorization | subscribe, unsubscribe, forward data | calls the notification and publisher managers |
| NotificationManager, NotificationRepository | feed to notifiables | request, withdraw, forward a subscription | raises new notification requests |
| PublisherManager, PublisherRepository, TwoWaySet | topic to publishers and back | send data, stale topics of a publisher that goes | raises stale publishers |
| RoleManager, Globber | permissions by feed, cached role decisions | match the host, `HasRole` | asked by all managers |
| DataReader, DataWriter, messages | none | read and write a message | used by the tasks and by the client |
| metrics | counters and gauges | increment, decrement | moved by all of them |
| Server, ServerManager | timer, token | start, heartbeat, stop | owns the parts |
| Client (library) | write queue, token, two loops | subscribe, publish, notify, authorize, dispose | the other end of a stream |
| password file, JWT, LDAP authenticators | user and role tables, file watchers | authenticate, reload | called by the acceptors |
| select feed publisher (`examples/selectfeed`) | ledger of subscriptions | take a forwarded request, publish a change | a client of the distributor |

All managers run on the event loop, a single thread; a handler runs to its end
before the next event is taken. Concurrency is in the *order* of the events. Every
interactor has a read task, which enqueues messages and at most one error, and a
write task, which enqueues at most one error; the loop disposes of an interactor on
its error and waits there for both tasks. Clients, file watchers and acceptors have
threads of their own.

What is hard, and what makes each part correct:

* **order of events**: messages may be handled after the write task's error has
  closed their sender, and the error that would close it once more may never come.
  Nothing of a client that is gone may stay behind, and no event may end the loop.
* **select feed**: a notifiable knows exactly the subscriptions that exist, whether
  they were made before or after its request; a subscriber that holds data gets an
  empty image when the last publisher goes; a publisher that keeps its own ledger
  publishes for whoever is subscribed.
* **authorization**: answers come late, more than once, asked for or not, and are
  cached; no packet passes without an answer that lets it through.
* **threads**: the loop waits for tasks, tasks wait for the pool, the queue and the
  peer; a client that leaves must be closed, its stream not used afterwards, and a
  server that is stopped must come to an end.
* **streams**: a message comes in pieces; the reader asks for no byte too many,
  and sees the end of the connection.
* **admission**: a password file is edited while two watchers reload it; a role follows from
  the first matching entry of a file, what it denies and allows, and the settings.
* **the client**: two loops that know nothing of each other, handlers that throw,
  `Dispose` called by a handler of the loop it ends.
* **counting**: gauges and the ledger follow requests, errors and requests after
  errors.

## 2. Modules

| module | models | form |
|---|---|---|
| `Distributor` | all managers and repositories, `Server.OnInteractorEvent` | one action per event handler |
| `Accounting` | the gauges of interactors and of notification requests | composes with every action of `Distributor` |
| `SelectFeed` | the select feed publisher, its clients' demand, and the two lines between it and the distributor | composes with the actions of `Distributor` |
| `Sessions` | what the managers may rely on about the events | abstract specification |
| `EventLoop` | the tasks, `EventQueue`, `Interactor.Dispose`, `Server.Dispose` | one action per step of a thread; implements `Sessions` |
| `PairSet` | what a `TwoWaySet` promises | abstract specification |
| `TwoWaySet` | the two dictionaries and their operations | implements `PairSet` |
| `Wire` | `DataWriter`, `DataReader`, `Message` and its nine kinds | a writer, a pipe and a reader that is a machine |
| `Globbing` | `Globber.Glob` and the language of its patterns | recursive functions |
| `Admission` | `PasswordFileAuthenticator`, `JsonPasswordManager`, `RoleManager` | one action per step of an editor, a watcher or an acceptor |
| `Client` | `Adapters/Client.cs` | one action per step of a loop |
| `MCValues`, `MCDistributor`, `MCAccounting`, `MCSelectFeed`, `MCEventLoop`, `MCWire`, `MCAdmission` | values of small instances | for TLC |
| `DistributorProofs`, `AccountingProofs`, `SelectFeedProofs`, `EventLoopProofs`, `TwoWaySetProofs`, `WireProofs`, `ClientProofs`, `AdmissionProofs` | theorems | for TLAPS |

How they meet. `EventLoop` shows that the events come in the order `Sessions`
allows, whatever the threads do; the guards of `Distributor` (`CanSend`,
`ReadError`, `WriteError`) are those of `Sessions`, so that its other properties
hold for what the threads can produce and for nothing less. `publishers` in
`Distributor` is the relation that `TwoWaySet` implements, and `StaleTopics` what its
`Remove` returns. `RoleDecisions` in `Distributor` is what `HasRole` of `Admission`
answers, and `ExplicitFeeds` the feeds that are named in `permissions`. `Wire` shows
why `EventLoop` and `Client` may count whole messages, and why both have a
connection that is *cut* within one.

### Distributor: state and code

| variable | code |
|---|---|
| `phase` | `InteractorRepository._interactors`: *live* is in it |
| `reading`, `writing` | the error of that task has not been handled |
| `silent` | the interactors whose read task, canceled, has ended without an error (`Interactor.cs:215`) |
| `feedRoleInteractors` | `InteractorRepository._feedRoleInteractors`, as triples |
| `authorizations` | `Interactor._authorizations` |
| `subscriptions` | `SubscriptionRepository._cache`, `None` for no entry |
| `notifiables` | `NotificationRepository._feedToNotifiables` |
| `publishers` | `PublisherRepository._topicsAndPublishers` |
| `loop` | the loop of `EventQueue.ProcessQueue` goes on, or has ended on an exception |

The others are history that no handler reads: who was asked for authorization
(`asked`), which answers were sent and accepted (`grants`) and which was the last
in force (`answer`), what notifiables have
been told (`announced`, `news`), who holds data of a topic (`fresh`), and the data
the last handler sent (`delivered`). "Told" means put on the write queue of an
interactor that is not disposed of; one whose tasks have ended drops it, and is
about to be closed.

| action | handler |
|---|---|
| `Connect` | `OnInteractorConnected` |
| `SubscribeAuthorized`, `SubscribeUnrequired`, `SubscribeAsk` | `RequestSubscription`, add: from the cached authorization, without one where none is required, or by asking |
| `Unsubscribe` | `RequestSubscription`, remove |
| `Authorize` | `AcceptAuthorization` and `OnAuthorizationResponse`, for a response of any client about any other |
| `AddNotification`, `RemoveNotification` | `RequestNotification` |
| `SendMulticastData`, `SendUnicastData`, `SendHeartbeat` | data, and the timer's heartbeat |
| `ReadError`, `WriteError` | `OnInteractorError`: the repository, then the handlers of the closed event in the order they were added |
| `DisposeThrows` | `OnInteractorError` when `Dispose` throws out of `InteractorRepository.Remove`: the loop ends, the interactor stays |

Abstractions: a name is a model value; a message is a set of packets and a packet
its set of entitlements (its bytes are never looked at); `HasRole` is a constant
(it depends on nothing that changes after the connection); requests that a guard
refuses change nothing and are not actions. `Answers` names the responses clients
send, each with the client and the topic it is about; the sender is any client, as
the code has it (`Server.cs:161-163` looks at nothing but the type of the message).
`Prompt` names the clients whose two tasks get a thread of the pool at once, and whose
`Dispose` does not throw; `EventLoop` has the steps of the others. The missing set of entitlements and the empty one are the same, as they are
on the wire (`ReadInt32Set`, and `HeardField` of `Wire`).

Two things that look odd are the code's: `IsInitial` is constantly FALSE because
the constructor of `AuthorizationResponseEventArg` does not keep its argument, and
`HasAuthorization` looks up the name of the *feed* among the topics.

### EventLoop: state and code

`readTask` and `writeTask` hold the state of the `Task` before it runs and after it
ended, and the place in its loop in between: *test* is the condition of the `while`,
*reading* is `Message.Read`, *taking* and *writing* are the two halves of the write
loop, *leaving* is past the loop and before `_tokenSource.Cancel()`. `disposing` is
the place of the event loop in `Interactor.Dispose`: a test of `IsCanceled` and the
`Wait` after it are two steps. A peer sends whole messages, and goes between two of
them (`gone`) or within one (`cut`). A peer that stays reads what it is sent.
`phase`, `reading`, `writing` and `last` change when the handler of the event has
ended. `Stop` cancels the token of the queue and, linked to it, those of all
interactors; from then on `Enqueue` throws (`EnqueueThrows`), in a task out of its
catch block, so that the task ends faulted and without its error. `Prompt` names the
interactors whose tasks get a thread of the pool at once.

### SelectFeed: state and code

`ledger` is `Publisher._subscriptions`. `forwarded` and `published` are what is on its
way between the distributor and the program: a write queue, a stream and a read loop
in one, in order. `demand` (what a client asked for and has not given back), `repeated`
and `recounted` (what it asked for more than once, and had when the publisher asked for
notifications) and `imaged` (who was sent an image in the subscription it has) are history. Each action
of the distributor's side is one of `Distributor` with what the notification manager
forwards: one add per request, but one add per *existing* entry when the publisher
comes later, and one removal per topic when a client is closed, whatever its count.

### Wire: state and code

`outgoing` is what a write task has still to put on the stream, `pipe` what has
arrived. `plan` is the program counter of the reader: the reads that remain of the
`ReadBody` at hand, each with its number of bytes, to which a count that was read adds
as many as it says. `buf` is the buffer of `ReadFully`, `tokens` the values read,
`heard` the finished messages. `ReadFully` takes what is there; at the end of the
stream it reads 0 bytes again and again, which changes nothing, so there is no step.
Numbers are four bytes in two's complement; strings are their encoded bytes, a Guid
has `GuidBytes` bytes, 2 for 16. `FieldValues` are the values a field of each kind can
have; no string, array or set of .NET has more than `MaxInt` elements, so that every
count fits the four bytes it is written in.

### Admission: state and code

An editor goes through `Truncate`, `WriteText` (perhaps in parts, *Partial* being no
JSON) and `CloseFile`, each a change that is raised to the watchers; `changed`,
`loading` and `passwords` are the notification a watcher's thread has to take, what it
has read (`OnChanged`) and what is in use (`Assign`). `sharing` says whether the
platform lets a file be read that is open to be written: where it does not, `OnChanged`
throws while the file is edited. The second watcher, meant for
the role file, watches the *name of the password file* in the role file's folder:
`Told` says whom a change reaches, `told` whom the last one reached, and `OneFolder`
whether that may be both, as in the settings of `examples/server-config/password-file`.
A load that throws ends its watcher. `roles` holds `None` for a feed the file does not
name and an empty sequence for one that it names with no host, which denies
everything. `CreateInteractor` is `Authenticate` and the constructor of
`RoleManager` on an acceptor's thread; `HasRole` makes and keeps a decision.

### Client: state and code

`requested`, `queued` and `written` count the application's requests through
`_writeQueue`; `sent`, `unread` and `given` the distributor's messages to the
handlers. The two loops have the places of those in `EventLoop`; `reports` are the
`ConnectionChanged` events, by loop. `Dispose` has two steps, the token and the
stream. `Handled` is a handler that returns or throws; what it throws is caught where the
exceptions of `Message.Read` are (`Client.cs:190-203`), so that an end of a stream of its
own is reported as *Closed*, any other exception as *Faulted* and a cancellation not at
all. `ReadFails` has the exceptions of `Message.Read`. A message that is cut before its
last byte, a boolean, is handed out: to `Client` it is one that was sent whole and a
connection that was closed after it.

## 3. What TLC checks

| run | instance | shows |
|---|---|---|
| `select` | a subscriber that also asks for notifications, a publisher that also subscribes, 2 topics (one the heartbeat's), write failures, debug logging | `TypeOK`, `KnowsSubscribers`, `NewsIsCurrent`, `FreshHasPublisher`, `NothingLeftBehind`, `FeedRequestsGaugeIsExact` |
| `authorized` | a subscriber and an authorizer that publishes, 2 topics of which one has the name of the feed, 2 entitlements, denials, grants and waivers from either client, write failures | `DeliveredIsEntitled`, `SubscriptionsAnswered`, `FilterIsLatestAnswer` |
| `threads` | 2 interactors with both tasks, one of which waits for threads of the pool, and a stop at any time | `TypeOK`, `ClosedIsOver`, `EventsAreOrderly` (implements `Sessions`), `GoneIsClosed`, `StopEndsLoop` (liveness) |
| `two_way_set` | 3 topics, 3 publishers | `Mirrored`, `NoEmptySets`, `ImplementsPairSet` |
| `wire` | 2 messages of any of the nine types, with missing, empty and extreme fields | `TypeOK`, `ReadIsWritten`, `WrittenIsRead`, `EndIsSeen` (liveness) |
| `admission` | 1 client, 1 user, 12 role files (two patterns for the feed, none, or no such feed), 3 hosts, a trusted proxy, the files in one folder, reading allowed while writing or not | `TypeOK`, `LoadedIsCurrent`, `DecisionsFollowRoles`, `EditTakesEffect` (liveness) |
| `client` | 3 requests, 3 messages, every way the connection may go | `TypeOK`, `ClosedIsComplete`, `LossIsReported`, `DisposeEnds`, `RequestsAreSent` (liveness) |
| `select_feed` | 2 subscribers and the publisher, 1 topic, which come and go, and ask up to twice | `AskedIsInLedger`, `SubscribedGetsImage` (liveness) |

`select` and `authorized` run `AccountsSpec`, whose steps are those of `Distributor`
with the gauges (the first lemma of `AccountingProofs`).

The instances are small but have what the properties need: two of each role whose
interleaving matters (two watchers of one file, two clients that answer, the heartbeat as the second
publisher of a topic, a message in flight while its sender's write task fails), and a
second topic where cleaning up one must spare the other. Two messages are what a
read past the end of one needs; two patterns that both match what "the first" needs;
a file that is empty, partial or holds a user's password what a stale load needs.
`Prompt` leaves one client in each instance whose `Dispose` may throw: it ends the loop,
after which nothing is handled, so that a second one adds nothing.

Every bound: `CountBound` the count of a subscription, `DemandBound` a client's
requests, `LineBound` what is under way between the select feed publisher and the
distributor, `SendBound` and `WriteQueueBound` the messages of a peer and the write
queue, `MessageBound` the messages of `Wire`, `RequestBound` and `SendBound` those of
`Client`. They are guards of the actions of clients, publishers and peers and cut
nothing but longer repetitions. Where a run
speaks of liveness no bound disables a step that is owed: a full write queue only
leaves an interactor out of those a handler sends to.

Deadlock is not checked where the system may stop: all clients may have gone, after
a fault or a stop the loop is over, a connection is closed, nobody edits. It is
checked for `TwoWaySet`.

Each property is broken by a mistake of the kind it is for. The mistaken operators
stand in the modules beside the real ones, named `Op_Variant`, and are no part of
any specification:

| property | mistake |
|---|---|
| `TypeOK` of `Distributor` | `RemoveSubscriptionState_Revoked`: giving one back clears the authorization |
| `KnowsSubscribers`, `AskedIsInLedger` | `SubscribersToFeed_None`: a new request is not told of existing subscriptions |
| `NewsIsCurrent` | `FindByInteractor_Lazy`: the topics of a closed client are looked up after they were removed |
| `FreshHasPublisher` | `StaleTopics_OneLeft`: a topic is stale when one publisher is left |
| `NothingLeftBehind` | `RemoveInteractor_Last`: the last notifiable of a feed is kept |
| `FeedRequestsGaugeIsExact` | `RequestsWithout_AnyFeed`: closing counts down the feeds of others |
| `DeliveredIsEntitled` | `GetAuthorizedData_Any`: one entitlement of a packet is enough |
| `SubscriptionsAnswered` | `SubscribeUnrequired_Always`: the setting is not looked at |
| `FilterIsLatestAnswer` | `IsInitial_Kept`: a later answer is taken for a subscription of its own, not for an update |
| `ClosedIsOver` | `DisposeWaits_Read`: `Dispose` waits for the read task alone |
| `EventsAreOrderly` | `ReadFails_GoesOn`: the read task goes on after an error |
| `GoneIsClosed` | `Take_Deaf`: the write task does not hear the cancellation |
| `StopEndsLoop` | `LoopStops_Deaf`: the event loop does not hear the cancellation |
| `TypeOK` of `EventLoop`, of `Client` | `Take_Counted`: a `Take` that throws is counted |
| `Mirrored` | `AddTo_Fresh`: a new set replaces the one that was found |
| `NoEmptySets` | `TakeFrom_Kept`: an empty set is kept |
| `ImplementsPairSet` | `Orphans_Fewer`: orphans are looked for before the value is taken out |
| `TypeOK` of `Wire` | `BytesOfInt_Uncut`: an integer is shifted and not cut to a byte |
| `ReadIsWritten` | `IntOfBytes_Unsigned`: the sign of the highest byte is lost |
| `WrittenIsRead` | `ReadFully_Past`: the loop goes on when the last byte is there |
| `EndIsSeen` | `ReadHeader_Fully`: the type is read as `ReadFully` reads |
| `TypeOK` of `Admission` | `Assign_Partial`: a part of the file is assigned as well |
| `LoadedIsCurrent` | `Assign_Settles`: changes raised during a load count as loaded |
| `EditTakesEffect` | `OnChanged_NotEmpty`: a load waits until somebody is in the file |
| `DecisionsFollowRoles` | `FirstMatch_Last`: the last matching entry decides |
| `ClosedIsComplete` | `ReadFails_Early`: the end is reported before what came before it is read |
| `LossIsReported` | `ReadFails_Quietly`: the end of the stream is not reported |
| `DisposeEnds` | `Dispose_Cancels`: the stream is left open |
| `RequestsAreSent` | `Write_WhileReading`: the write loop goes with the read loop |
| `SubscribedGetsImage` | `AddSubscriptionOf_NewTopic`: an image for the first client of a topic only |

`IsInitial_Kept` deserves a word: the argument that the constructor drops would, if
it were kept, make the first answer add a subscription with a count of 1, as it
seems to be meant; but the answers after it would then be told apart only by
`HasAuthorization`, which is wrong as well, and would never update the filter.

### Fairness

Safety needs none. Liveness assumes weak fairness of threads, and of nothing that
depends on somebody's will:

* `EventLoop`: each read task, each write task and the event loop. The pool adds
  threads while tasks wait. Nothing is assumed of the peers: they may send, go, or
  stay silent for ever; nobody has to stop the server.
* `Wire`: bytes that were written arrive, and the reader reads. Nobody has to write
  or to close.
* `Admission`: the threads of the watchers. Nobody has to finish an edit.
* `Client`: both loops, and a `Dispose` that was begun goes on to close the stream.
  Handlers return or throw.
* `SelectFeed`: the publisher takes what it is sent, and the event loop what the
  publisher sends. Nobody has to subscribe, leave, or change data.

### Where the code does not do what is written

| run | what is violated |
|---|---|
| `given_back` | `GivenBackIsRemoved`. The first subscription has a count of 0, so that giving it back leaves it at -1 and in place: the client goes on receiving data. (Of two, giving one back removes both.) |
| `late_notification` | `LoopSurvives`. A notification request handled after its sender was closed ends the event loop when debug messages are logged: the statement that logs the failed send has two placeholders and one argument. |
| `disconnected` | `DisconnectedIsClosed`, in two ways. A client that leaves before its write task got a thread ends the event loop: `Dispose` waits for a task that is then canceled. And a client whose connection ends within a message is never closed: `ReadFully` expects a negative count at the end of the stream, `Read` returns 0. TLC prints one of the two; with `MayCutMessage = FALSE` it is the first, with `Prompt = {c1}` the second. |
| `silent_publisher` | `FreshHasOpenPublisher`. A publisher is closed by its write task's error, its read task ends without one, and data it had queued is handled late: the closed publisher is recorded for good and no empty message follows. |

More of the same kind is stated in the modules and can be seen by adding the
property to a cfg, or changing one of its settings:

| property | in | what it shows |
|---|---|---|
| `DenialStopsData` | `Authorized.cfg` | a denial after a grant does not stop the data |
| `AnsweredIsKnown` | `Authorized.cfg` | once a client is authorized for the topic with its feed's name no other answer is cached |
| `AuthorizersAreFound` | `Authorized.cfg` with `ExplicitFeeds <- NoNamedFeeds` | an authorizer whose role comes from the distributor's settings is never asked |
| `OnlyWholeIsRead` | `Wire.cfg` | a request that is cut before its last byte, a boolean, is read as TRUE |
| `DeltaFollowsImage` | `SelectFeed.cfg` | a change that was on its way when the client subscribed comes before its image |
| `InteractorsGaugeIsExact` | `Select.cfg` | the gauge documented as "The number of interactors" (`InteractorMetrics.cs:103`) is short by one for every interactor both of whose tasks failed |
| `LoopSurvives` | `LateNotification.cfg` with `Prompt = {}` | a `Dispose` that throws ends the loop as well |

A client that asks twice for a topic and is closed leaves 1 in the ledger of the
select feed publisher, which then publishes for nobody: one removal is forwarded for it,
whatever its count. A publisher that comes after a client has asked twice is sent one
add, or none if the client has given one back since, which is why `AskedIsInLedger`
excepts what was `recounted`. Nothing in the code looks at the roles of who sends an
authorization response, which `authorization.md:14` describes as the part of the
`Authorize` role; `SubscriptionsAnswered` says that a response was sent, not by whom.
The gauge of subscriptions, which is not modelled, goes up with every answer and down by
a count that starts at 0.

## 4. What is proved

All theorems are for any sets of clients, feeds, topics, entitlements, roles,
answers, messages, users, hosts and role files, from the assumptions on the constants
in the modules (`ConstantsAssumption`, `SelectFeedAssumption`) alone unless another
one is named. That of `Wire` says that the fields of each message have values of their
kinds (`FieldValues`).

| module | theorem | states |
|---|---|---|
| `DistributorProofs` | `TypeCorrect` | `TypeOK` |
| | `FreshHasPublisherHolds` | the last publisher never goes without the empty image |
| | `DeliveredIsEntitledHolds` | no packet passes without an answer that lets it through |
| | `SubscriptionsAnsweredHolds` | every subscription filters by an answer sent for its client and topic, or none is required |
| | `KnowsSubscribersHolds`, `NewsIsCurrentHolds` | what notifiables know |
| | `NothingLeftBehindHolds` | nothing is left of a client whose read task's error was handled |
| | `FilterIsLatestAnswerHolds` | the filter is the latest answer, or that was a denial, or the client has an authorization for a topic with the feed's name |
| `AccountingProofs` | `FeedRequestsGaugeIsExactHolds` | the gauge of notification requests |
| | `InteractorsGaugeFallsBehindHolds` | by how much the gauge of interactors falls behind their number, if their set is finite |
| `EventLoopProofs` | `TypeCorrect`, `ClosedIsOverHolds` | types, and that `Dispose` closes nothing that is in use |
| | `EventsAreOrderlyHolds` | `EventLoop` implements `Sessions` |
| `TwoWaySetProofs` | `MirroredHolds`, `NoEmptySetsHolds`, `ImplementsPairSetHolds` | `TwoWaySet` implements `PairSet` |
| `WireProofs` | `Invariance` | the bytes on their way are those of the reads that remain |
| | `TypeCorrect`, `ReadIsWrittenHolds` | what is read is what was written, for messages of any number, type and size |
| `ClientProofs` | `TypeCorrect`, `ClosedIsCompleteHolds` | nothing is lost between stream and handlers; the end is reported last, unless a handler threw |
| `SelectFeedProofs` | `ImplementsDistributor` | the select feed has only behaviours of `Distributor` |
| | `AskedIsInLedgerHolds` | the ledger counts no client less often than it asks, but for repetitions before the publisher came |
| `AdmissionProofs` | `TypeCorrect` | `TypeOK` |
| | `LoadedIsCurrentHolds` | the passwords in use are those in the file, with the files in one folder or in two |
| | `GlobMeansMatches` | `Glob` answers what is meant by a pattern, for every value and pattern |
| | `DecisionsFollowRolesHolds` | every decision follows from the first entry that matches, for any role file |

The arguments.

* `FreshHasPublisher` and the notification properties are inductive together with
  `TypeOK`: a lemma says of each repository operation what it leaves of the entries,
  and each action is one step of the proof. What a notifiable knows (`NewsInv`) needs
  besides that news comes only to those that asked, and that they have connected.
* `DeliveredIsEntitled` is not inductive: it needs that a subscription's authorization
  is among the answers in force (`SubscriptionsAnswered`), which in turn needs that a
  cached authorization is (`GrantInv`).
* `NothingLeftBehind` rests on `GoneInv`: the read task's
  error is an interactor's last event, and it clears every repository once more,
  whatever requests were handled between the two errors.
* `FilterIsLatestAnswer` needs that the cache agrees with the last answer as long as
  the client has no authorization for the topic with its feed's name, and that one it
  has it keeps (`LatestInv`).
* The gauge of interactors is a cardinality: each handler adds or removes one member
  of two sets, which is why the set of interactors has to be finite. What it needs
  besides is `ErrorsInv`: an interactor is closed by the first of its errors and by
  nothing else. A `Dispose` that throws takes one more, and is the last step.
* For `EventLoop` implementing `Sessions` the invariant is about the queue
  (`QueueInv`): *connected* is first of an interactor's events, a queued error means
  that its task is over and that no event of that task is behind it, and the error
  the loop is disposing of counts as handled by neither. `ClosedIsOver` needs how far
  `Dispose` has got (`DisposeInv`): what it has waited for is over and stays so.
* For `TwoWaySet` the invariant is that the dictionaries mirror each other and have no
  empty sets: then every key that `Remove` looks up is there, and a key without
  values is a key without pairs.
* `ClosedIsComplete` needs that the end of the stream is reported only with nothing
  unread, and that nothing is sent after it (`EndInv`); `TypeOK` says that what is not
  unread was given to a handler.
* `ImplementsDistributor` is a simulation with the identity as its mapping: each action
  of the composition takes one of `Distributor` or none. With it `TypeOK` and the
  entries' invariants are there for `AskedIsInLedger`, whose own are two. `DemandInv`:
  who has never asked again for what it had (`repeated`) and asks is subscribed with a
  count below its demand, so that giving back removes the entry. `LedgerInv`: the entry in the ledger and the adds on their way are
  together at least the demand and the removals on their way (`Covered`), and nothing
  is on its way to a publisher that is not heard of. A step changes each of the four
  by one, a publisher that comes late gets one add for each entry, and a client that
  leaves one removal for each. Repeated requests are each forwarded while the publisher
  is heard of; those made before it came are what the property excepts (`recounted`).
* `ReadIsWritten` is about nested data: a message is its type and its fields, a field of
  packets a count and the packets, a packet a set and an array of bytes. The proofs
  describe it as a sequence of *items*, one for each read, that may have items below
  them. `Written`, `Heard` and `ReadOf` say what is written of an item and all below it,
  what is to be heard, and which read it begins with. Items are at most three deep, so
  these are written without recursion (`DeepUnfolds`), and `MessageItems` shows that
  they give `WriteMessage`, `HeardMessage` and the plan of `ReadHeader`. What the proofs
  need of `FlattenSeq` is an induction on the length of a sequence, by a set of numbers
  that has 0 and every successor (`NumberInduction`). The inductive invariant `Inv` has
  two cases. `InStep`: the buffer, the pipe and what is not sent are the bytes of the
  items still expected (the members `M` of a set at hand, then `U`) and of the messages
  not begun (`Reading`), the plan is the reads of these items, and the values at hand
  with those to be heard of them are the message that was written; `ItemRead` says that a completed read keeps this. A cut takes a last part
  of these bytes away. `Astray`: the end of the stream was taken for a boolean. That
  happens only after a cut, in the last message written, with nothing left to read, so
  no message that was sent whole comes after it. Reads at the end of the stream for
  anything but a boolean never complete. `Inv` quantifies over sequences of items, which
  TLC cannot enumerate; it checks the two properties that follow from it.
* `LoadedIsCurrent` needs `CurrentInv`: with a watcher that has taken the last change and
  outlived it, the file is no part of one, and the passwords in use are those in the file
  unless a watcher *owes*: it has a change to take, or is about to assign what is there
  now. It is kept because a load that has become stale leaves its watcher with a change
  to take (`StaleInv`); because a watcher that dies of its load read what is not in the
  file any more, and so owed nothing; and because one that dies of a file being edited
  does so while every watcher that was told has the change to take (`WritingInv`).
  `QuietInv` says that in two folders the other watcher has nothing to take, and
  `UnchangedInv` that nothing has changed before the watchers are enabled.
* `GlobMeansMatches` is an induction on the pattern from its end. The induction theorems
  of the library cannot be instantiated by the provers, so it is done by a least number
  (`LeastNumber`, from the well-foundedness of the numbers): first that the table of
  `Glob` is a function (`GlobTable`), then that an answer at a place says whether the
  rest of the pattern matches the rest of the value (`StepMatches`). That a star tries
  the shortest remainder first and stops at the first answer does no harm. A pattern
  may also make it throw, whether the host matches or not; then nobody is served.
* `DecisionsFollowRoles` needs that a client that is served is permitted what the role
  file says of its host, and that only such clients have decisions (`PermissionInv`),
  and that what is cached is what would be decided now (`DecisionInv`); what `FirstMatch`
  finds is the first entry that matches, by `GlobMeansMatches`.

Only model-checked: all liveness (`GoneIsClosed`, `StopEndsLoop`, `WrittenIsRead`,
`EndIsSeen`, `EditTakesEffect`, `LossIsReported`, `DisposeEnds`, `RequestsAreSent`,
`SubscribedGetsImage`), which needs fairness. Every other property of a passing run is a
theorem.

## 5. Not modelled, and the plan

Not modelled, and why:

* the thread of the heartbeat timer: the heartbeat is an event of `Distributor`; that
  its `Enqueue` may throw while the server stops is seen in the tasks of `EventLoop`;
* counters, which only go up, and the gauges of subscriptions and of queue lengths;
* the encoding of characters, a library's, and the payload of packets, a client's;
* the SSL, SSPI, LDAP and JWT handshakes, which are calls to libraries whose answer is
  that of `CreateInteractor`; cryptography helpers and key parsing; plugin loading,
  configuration files, `ServerManager`, console, logging and the text of messages:
  they read their input once, or keep no state;
* `src/docs/styles/*.js`, the only JavaScript of the repository: a search library and
  a page template which the documentation generator puts into the built site. They
  are third-party code and no part of the message bus, so no module maps to them.

Next, in this order:

1. answers that come after the request was withdrawn: `SelectFeed` with authorization,
   where demand and subscriptions part;
2. the composition of two `Client`s with `EventLoop` through `Wire`, for two whole
   connections;
3. a second start of the client's loops, at the level of bytes.
