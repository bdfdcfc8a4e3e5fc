SPECIFICATION Spec
CONSTANTS
    RequestBound = 3
    SendBound = 3
INVARIANTS TypeOK ClosedIsComplete
PROPERTIES LossIsReported DisposeEnds RequestsAreSent
CHECK_DEADLOCK FALSE
