CONSTANTS
    s1 = s1  s2 = s2  p1 = p1  p2 = p2  n1 = n1  a1 = a1  a2 = a2
    f1 = f1  t1 = t1  t2 = t2  e1 = e1  e2 = e2
    Heartbeat = Heartbeat
    None = None
    Interactors = {s1, p1}
    Feeds = {f1}
    Topics = {t1, t2}
    Entitlements = {}
    HeartbeatKey <- HeartbeatOnT2
    RoleDecisions <- DecisionsWithBoth
    ExplicitFeeds <- NoNamedFeeds
    IsAuthorizationRequired = FALSE
    DebugLogging = TRUE
    Prompt = {s1}
    Notifiers = {s1}
    Answers <- NoAnswers
    Messages <- PlainMessage
    WriteTaskMayFail = TRUE
    CountBound = 1
SPECIFICATION AccountsSpec
CHECK_DEADLOCK FALSE
INVARIANTS
    TypeOK
    KnowsSubscribers
    NewsIsCurrent
    FreshHasPublisher
    NothingLeftBehind
    FeedRequestsGaugeIsExact
