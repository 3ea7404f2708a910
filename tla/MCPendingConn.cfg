SPECIFICATION Spec
CONSTANTS
    Conns = {x1, x2}
    DataConns = {d1, d2}
    NoData = NoData
    NoToken = NoToken
SYMMETRY Symmetry
INVARIANTS
    TypeOK
    RelayHasDataConn
    PairedByToken
    ReadyClosedOnce
PROPERTIES
    ImplementsRendezvous
CHECK_DEADLOCK FALSE
