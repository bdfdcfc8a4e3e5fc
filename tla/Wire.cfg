CONSTANTS
    Messages <- EveryType
    MessageBound = 2
    GuidBytes = 2
    Null = Null
SPECIFICATION Spec
CHECK_DEADLOCK FALSE
INVARIANTS
    TypeOK
    ReadIsWritten
PROPERTIES
    WrittenIsRead
    EndIsSeen
