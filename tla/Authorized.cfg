CONSTANTS
    s1 = s1  s2 = s2  p1 = p1  p2 = p2  n1 = n1  a1 = a1  a2 = a2
    f1 = f1  t1 = t1  t2 = t2  e1 = e1  e2 = e2
    Heartbeat = Heartbeat
    None = None
    Interactors = {s1, a1}
    Feeds = {f1}
    Topics = {t1, f1}
    Entitlements = {e1, e2}
    HeartbeatKey <- HeartbeatElsewhere
    RoleDecisions <- DecisionsOfBoth
    ExplicitFeeds <- NamedFeeds
    IsAuthorizationRequired = TRUE
    DebugLogging = FALSE
    Prompt = {s1}
    Notifiers = {}
    Answers <- SomeAnswers
    Messages <- MixedMessage
    WriteTaskMayFail = TRUE
    CountBound = 2
SPECIFICATION AccountsSpec
CHECK_DEADLOCK FALSE
INVARIANTS
    DeliveredIsEntitled
    SubscriptionsAnswered
    FilterIsLatestAnswer
