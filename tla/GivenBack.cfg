CONSTANTS
    s1 = s1  s2 = s2  p1 = p1  p2 = p2  n1 = n1  a1 = a1  a2 = a2
    f1 = f1  t1 = t1  t2 = t2  e1 = e1  e2 = e2
    Heartbeat = Heartbeat
    None = None
    Interactors = {s1, p1}
    Feeds = {f1}
    Topics = {t1}
    Entitlements = {}
    HeartbeatKey <- HeartbeatElsewhere
    RoleDecisions <- Decisions
    ExplicitFeeds <- NoNamedFeeds
    IsAuthorizationRequired = FALSE
    DebugLogging = FALSE
    Prompt = {s1, p1}
    Notifiers = {}
    Answers <- NoAnswers
    Messages <- PlainMessage
    WriteTaskMayFail = FALSE
    CountBound = 2
    Publisher = p1
    Feed = f1
    DemandBound = 2
    LineBound = 2
SPECIFICATION SelectFeedSpec
CHECK_DEADLOCK FALSE
INVARIANTS
    GivenBackIsRemoved
