SPECIFICATION FairSpec
CONSTANTS
    Writers = {"accept", "heartbeat"}
    Msgs = {"Open", "Ping"}
    BodyLen = 2
    Cap = 1
    MaxUp = 2
    MaxDown = 1
    NoWriter = NoWriter
    NoMsg = NoMsg
INVARIANTS
    StreamsIntact
    ServiceEndLosesNothing
PROPERTIES
    ImplementsChannel
    RelayEnds
CHECK_DEADLOCK FALSE
