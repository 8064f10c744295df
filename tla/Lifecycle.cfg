SPECIFICATION FairStreams
CONSTANTS
    Request = {r1}
    Call = {c1}
    Stream = {s1}
    Faults = {"unset", "dependencyDown", "portTaken", "dbDown", "lostReply", "panic"}
    MsgBound = 3
    Window = 1
INVARIANTS
    StreamsTypeOK
    ClosedAfterUse
    BulkMakesAPrefix
    SyncAnswersInOrder
PROPERTIES
    SignalEndsProcess
    EveryStreamEnds
CHECK_DEADLOCK FALSE
