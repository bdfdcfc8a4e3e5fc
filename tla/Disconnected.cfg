CONSTANTS
    c1 = c1  c2 = c2
    Interactors = {c1}
    Prompt = {}
    MayCutMessage = TRUE
    SendBound <- Each
    WriteQueueBound = 1
SPECIFICATION Spec
CHECK_DEADLOCK FALSE
PROPERTIES
    DisconnectedIsClosed
