SPECIFICATION FairSpec
CONSTANTS
    Sessions = {s1, s2}
    Kinds = {https}
    Hosts = {h1}
    TunnelIDs = {t1}
    Ports = {p1}
    Requests = {r1}
    NoSession = NoSession
INVARIANTS
    TypeOK
    RoutesMatchLists
    RouteOwnerReachable
    OpenListenersTracked
PROPERTIES
    NoRouteTakeover
    CancelledIsForgotten
