CONSTANTS
    c1 = c1  c2 = c2
    Interactors = {c1, c2}
    Prompt = {c2}
    MayCutMessage = FALSE
    SendBound <- FirstTalks
    WriteQueueBound = 1
SPECIFICATION Spec
CHECK_DEADLOCK FALSE
INVARIANTS
    TypeOK
    ClosedIsOver
PROPERTIES
    EventsAreOrderly
    GoneIsClosed
    StopEndsLoop
